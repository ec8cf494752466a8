---------------------------- MODULE ModelContract ----------------------------
(***************************************************************************)
(* A ModelIR on its way through POST /model: the static validation, the    *)
(* compilation to OpenFGA types, and the judgement of OpenFGA, which       *)
(* answers 400 to a model it refuses and the service 502.  The validation  *)
(* is there to say 422 before that happens.  It knows nothing of OpenFGA's *)
(* limits: how long a name may be (a permission's has "can_" before it) and *)
(* how many types a model may have.  The limit on a model's bytes is left   *)
(* out.                                                                    *)
(*                                                                         *)
(* A condition is only its name here: ConditionContract has the rest.      *)
(***************************************************************************)
EXTENDS Naturals, Sequences, FiniteSets, SequencesExt

CONSTANTS
  Irs,      \* ModelIRs of the requests
  BadName,    \* names the code refuses: no identifier, or a reserved word
  CanName,    \* [permission name -> "can_" and the name]
  Malformed,  \* names that OpenFGA cannot have in a model
  TooLong,    \* [kind of name -> the names over OpenFGA's limit for it]
  MaxTypes    \* how many types OpenFGA takes in a model

(* A decoded ModelIR.  "none" is a subject without a condition; a subject
   that is a user has no group. *)
SubjectRefs == [kind : {"user"}, group : {""}, condition : STRING]
               \cup [kind : {"group"}, group : STRING, condition : STRING]
GroupTypes == [name : STRING, memberTypes : Seq(SubjectRefs)]
ParentRefs == [relationName : STRING, parentTypes : Seq(STRING)]
Roles == [name : STRING, assignableBy : Seq(SubjectRefs)]
Permissions == [name : DOMAIN CanName, grantedByRoles : Seq(STRING), inheritFromParents : Seq(STRING)]
ResourceTypes ==
  [name : STRING, parents : Seq(ParentRefs), roles : Seq(Roles), permissions : Seq(Permissions)]
ModelIRs == [groups : Seq(GroupTypes), resources : Seq(ResourceTypes), conditions : Seq(STRING)]

(* "member" and "user" are the names the code itself uses; "none" stands for
   the empty string, which no name may be.  The code's rule for names is
   OpenFGA's but for the length, and "can_" spoils a name in no other way. *)
ASSUME ModelContractAssumption ==
  /\ {"member", "user"} \cap BadName = {} /\ "none" \in BadName
  /\ DOMAIN CanName \subseteq STRING /\ CanName \in [DOMAIN CanName -> STRING]
  /\ \A p, q \in DOMAIN CanName : CanName[p] = CanName[q] => p = q
  /\ Malformed \subseteq BadName
  /\ \A p \in DOMAIN CanName \ BadName : CanName[p] \notin Malformed
  /\ TooLong \in [{"type", "relation", "condition"} -> SUBSET STRING]
  /\ "user" \notin TooLong["type"] /\ "member" \notin TooLong["relation"]
  /\ MaxTypes \in Nat
  /\ Irs \subseteq ModelIRs

VARIABLE publishing  \* one publish request

Named(s) == [i \in DOMAIN s |-> s[i].name]
NameSet(s) == {s[i].name : i \in DOMAIN s}
Repeats(s) == \E i, j \in DOMAIN s : i < j /\ s[i] = s[j]
When(broken, code) == IF broken THEN {code} ELSE {}

-----------------------------------------------------------------------------
(* ValidateModelIR: the codes of the rules that are broken.                *)
TypeErrors(ir) ==
  LET names == Named(ir.groups) \o Named(ir.resources)
  IN When("user" \in ToSet(names), "RESERVED_USER")
     \cup When(ToSet(names) \cap BadName # {}, "BAD_NAME")
     \cup When(Repeats(names), "DUP_TYPE")

(* A list of subjects: the members of a group, who a role may be given to. *)
SubjectErrors(ir, refs) ==
  When(refs = <<>>, "EMPTY_SUBJECTS")
  \cup When(\E ref \in ToSet(refs) : ref.kind = "group" /\ ref.group \notin NameSet(ir.groups),
            "UNKNOWN_GROUP")
  \cup When(\E ref \in ToSet(refs) : ref.condition \notin {"none"} \cup ToSet(ir.conditions),
            "CONDITION_UNKNOWN")

ParentErrors(ir, r) ==
  LET relations == [i \in DOMAIN r.parents |-> r.parents[i].relationName]
  IN When(ToSet(relations) \cap BadName # {}, "BAD_NAME")
     \cup When(Repeats(relations), "DUP_PARENT_RELATION")
     \cup UNION {LET types == r.parents[i].parentTypes
                 IN When(Repeats(types), "DUP_PARENT_RELATION")
                    \cup When(types = <<>> \/ ~(ToSet(types) \subseteq NameSet(ir.resources)),
                              "UNKNOWN_PARENT") : i \in DOMAIN r.parents}

(* The permission of that name on a resource type; of types that share a
   name the last one counts. *)
PermissionsOf(ir, type) ==
  LET last == CHOOSE i \in DOMAIN ir.resources : /\ ir.resources[i].name = type
                /\ \A j \in DOMAIN ir.resources : ir.resources[j].name = type => j <= i
  IN NameSet(ir.resources[last].permissions)

(* The first parent of that relation name is the one rule 7 looks at. *)
TypesBehind(r, rel) ==
  LET i == CHOOSE i \in DOMAIN r.parents : /\ r.parents[i].relationName = rel
             /\ \A j \in DOMAIN r.parents : r.parents[j].relationName = rel => i <= j
  IN ToSet(r.parents[i].parentTypes)

PermissionErrors(ir, r, p) ==
  LET relations == {r.parents[i].relationName : i \in DOMAIN r.parents}
  IN When(p.name \in BadName, "BAD_NAME")
     \cup When(p.grantedByRoles = <<>>, "EMPTY_GRANT")
     \cup When(~(ToSet(p.grantedByRoles) \subseteq NameSet(r.roles)), "UNKNOWN_ROLE")
     \cup When(~(ToSet(p.inheritFromParents) \subseteq relations), "UNKNOWN_PARENT")
     \cup When(\E rel \in ToSet(p.inheritFromParents) \cap relations :
                 \E t \in TypesBehind(r, rel) \cap NameSet(ir.resources) :
                   p.name \notin PermissionsOf(ir, t), "PARENT_MISSING_PERMISSION")

(* Seeded bug: the names of the permissions are compared without "can_". *)
RelationErrorsBare(r) ==
  LET parents == [i \in DOMAIN r.parents |-> r.parents[i].relationName]
      own == Named(r.roles) \o Named(r.permissions)
  IN When(Repeats(own) \/ ToSet(own) \cap ToSet(parents) # {}, "DUP_RELATION")

(* One namespace for parents, roles and permissions; a parent that repeats
   has an error of its own and claims no name. *)
RelationErrors(r) ==
  LET parents == [i \in DOMAIN r.parents |-> r.parents[i].relationName]
      own == Named(r.roles) \o [i \in DOMAIN r.permissions |-> CanName[r.permissions[i].name]]
  IN When(Repeats(own) \/ ToSet(own) \cap ToSet(parents) # {}, "DUP_RELATION")

RoleErrors(ir, role) ==
  When(role.name \in BadName, "BAD_NAME") \cup SubjectErrors(ir, role.assignableBy)

ResourceErrors(ir, r) ==
  ParentErrors(ir, r) \cup RelationErrors(r)
  \cup (UNION {RoleErrors(ir, role) : role \in ToSet(r.roles)})
  \cup (UNION {PermissionErrors(ir, r, p) : p \in ToSet(r.permissions)})

ModelErrors(ir) ==
  TypeErrors(ir)
  \cup When(Repeats(ir.conditions), "DUP_CONDITION")
  \cup When(ToSet(ir.conditions) \cap BadName # {}, "BAD_NAME")
  \cup (UNION {SubjectErrors(ir, g.memberTypes) : g \in ToSet(ir.groups)})
  \cup (UNION {ResourceErrors(ir, r) : r \in ToSet(ir.resources)})

-----------------------------------------------------------------------------
(* emitDsl: the types in order, each with its relations in order.  A
   relation is given to subjects directly, or a union of a type's other
   relations and of what a parent has. *)
DirectRelation(name, subjects) == [name |-> name, subjects |-> subjects, union |-> <<>>]

SubjectOf(ref) == [type |-> IF ref.kind = "user" THEN "user" ELSE ref.group,
                   relation |-> IF ref.kind = "user" THEN "none" ELSE "member",
                   condition |-> ref.condition]
SubjectsOf(refs) == [i \in DOMAIN refs |-> SubjectOf(refs[i])]

ParentSubjects(types) == [i \in DOMAIN types |->
  [type |-> types[i], relation |-> "none", condition |-> "none"]]

PermissionRelation(p) ==
  [name |-> CanName[p.name], subjects |-> <<>>,
   union |-> [i \in DOMAIN p.grantedByRoles |-> [relation |-> p.grantedByRoles[i], from |-> "none"]]
             \o [i \in DOMAIN p.inheritFromParents |->
                   [relation |-> CanName[p.name], from |-> p.inheritFromParents[i]]]]

GroupTypeOf(g) == [name |-> g.name,
  relations |-> <<DirectRelation("member", SubjectsOf(g.memberTypes))>>]

ResourceTypeOf(r) == [name |-> r.name, relations |->
  [i \in DOMAIN r.parents |-> DirectRelation(r.parents[i].relationName,
                                             ParentSubjects(r.parents[i].parentTypes))]
  \o [i \in DOMAIN r.roles |-> DirectRelation(r.roles[i].name, SubjectsOf(r.roles[i].assignableBy))]
  \o [i \in DOMAIN r.permissions |-> PermissionRelation(r.permissions[i])]]

EmitDsl(ir) ==
  <<[name |-> "user", relations |-> <<>>]>>
  \o [i \in DOMAIN ir.groups |-> GroupTypeOf(ir.groups[i])]
  \o [i \in DOMAIN ir.resources |-> ResourceTypeOf(ir.resources[i])]

-----------------------------------------------------------------------------
(* What OpenFGA asks of a model.                                           *)
Defined(types, type, relation) ==
  \E t \in ToSet(types) : t.name = type /\ relation \in NameSet(t.relations)
RelationOf(t, relation) == CHOOSE rel \in ToSet(t.relations) : rel.name = relation

SubjectStands(types, conditions, s) ==
  /\ s.type \in NameSet(types)
  /\ s.relation # "none" => Defined(types, s.type, s.relation)
  /\ s.condition \in {"none"} \cup ToSet(conditions)

OperandStands(types, t, op) ==
  IF op.from = "none" THEN op.relation \in NameSet(t.relations)
  ELSE /\ op.from \in NameSet(t.relations)
       /\ LET tupleset == RelationOf(t, op.from)
          IN /\ tupleset.union = <<>>
             /\ \A s \in ToSet(tupleset.subjects) :
                  s.relation = "none" /\ Defined(types, s.type, op.relation)

RelationStands(types, conditions, t, rel) ==
  /\ rel.subjects # <<>> \/ rel.union # <<>>
  /\ \A s \in ToSet(rel.subjects) : SubjectStands(types, conditions, s)
  /\ \A op \in ToSet(rel.union) : OperandStands(types, t, op)

(* The relations a subject can enter: directly, or through one that is known
   to be entered. *)
Pairs(types) == UNION {{<<t.name, rel.name>> : rel \in ToSet(t.relations)} : t \in ToSet(types)}
Opens(t, rel, known) ==
  \/ \E s \in ToSet(rel.subjects) : s.relation = "none" \/ <<s.type, s.relation>> \in known
  \/ \E op \in ToSet(rel.union) :
       IF op.from = "none" THEN <<t.name, op.relation>> \in known
       ELSE \E s \in ToSet(RelationOf(t, op.from).subjects) : <<s.type, op.relation>> \in known
OpenedFrom(types, known) ==
  UNION {{<<t.name, rel.name>> : rel \in {rel \in ToSet(t.relations) : Opens(t, rel, known)}}
           : t \in ToSet(types)}
Entered(types) ==
  LET round[n \in 0..Cardinality(Pairs(types))] ==
        IF n = 0 THEN {} ELSE OpenedFrom(types, round[n - 1])
  IN round[Cardinality(Pairs(types))]

WithinLimits(types, conditions) ==
  /\ Len(types) <= MaxTypes
  /\ NameSet(types) \cap TooLong["type"] = {}
  /\ \A t \in ToSet(types) : NameSet(t.relations) \cap TooLong["relation"] = {}
  /\ ToSet(conditions) \cap TooLong["condition"] = {}

OpenfgaAccepts(types, conditions) ==
  /\ ~Repeats(Named(types)) /\ NameSet(types) \cap Malformed = {}
  /\ \A t \in ToSet(types) :
       /\ ~Repeats(Named(t.relations)) /\ NameSet(t.relations) \cap Malformed = {}
       /\ \A rel \in ToSet(t.relations) : RelationStands(types, conditions, t, rel)
  /\ ~Repeats(conditions) /\ ToSet(conditions) \cap Malformed = {}
  /\ WithinLimits(types, conditions)
  /\ Entered(types) = Pairs(types)

-----------------------------------------------------------------------------
PublishingInit == \E ir \in Irs : publishing = [at |-> "received", ir |-> ir]

PublishIr ==
  /\ publishing.at = "received"
  /\ publishing' = [publishing EXCEPT !.at =
       IF ModelErrors(publishing.ir) # {} THEN "refused"
       ELSE IF OpenfgaAccepts(EmitDsl(publishing.ir), publishing.ir.conditions) THEN "written"
       ELSE "rejected"]

PublishingSpec == PublishingInit /\ [][PublishIr]_publishing

-----------------------------------------------------------------------------
(* Whether a group can have a user in it at all: it has users, or a group
   that can. *)
WithUsers(ir) == {g \in ToSet(ir.groups) : \E ref \in ToSet(g.memberTypes) : ref.kind = "user"}
Holding(ir, inner) ==
  {g \in ToSet(ir.groups) : \E ref \in ToSet(g.memberTypes) :
     ref.kind = "group" /\ \E h \in inner : h.name = ref.group}
HasUsers(ir, g) ==
  LET reach[n \in 0..Len(ir.groups)] ==
        IF n = 0 THEN WithUsers(ir) ELSE reach[n - 1] \cup Holding(ir, reach[n - 1])
  IN g \in reach[Len(ir.groups)]

(* Whether OpenFGA's limits are kept, as the author of a ModelIR sees it: a
   permission counts with its "can_", and "user" is one of the types. *)
RelationNamesOf(r) ==
  {r.parents[i].relationName : i \in DOMAIN r.parents} \cup NameSet(r.roles)
  \cup {CanName[p.name] : p \in ToSet(r.permissions)}
KeepsLimits(ir) ==
  /\ 1 + Len(ir.groups) + Len(ir.resources) <= MaxTypes
  /\ (NameSet(ir.groups) \cup NameSet(ir.resources)) \cap TooLong["type"] = {}
  /\ \A r \in ToSet(ir.resources) : RelationNamesOf(r) \cap TooLong["relation"] = {}
  /\ ToSet(ir.conditions) \cap TooLong["condition"] = {}

(* The model that passes the validation is one OpenFGA takes, whatever its
   types, relations and permissions refer to: a 502 for a model is left to
   the two things the validation does not look for, OpenFGA's limits (a name
   too long, too many types) and groups that contain only each other. *)
ValidModelIsAccepted ==
  publishing.at \in {"written", "rejected"} =>
    (publishing.at = "written" <=>
       /\ KeepsLimits(publishing.ir)
       /\ \A g \in ToSet(publishing.ir.groups) : HasUsers(publishing.ir, g))
=============================================================================
