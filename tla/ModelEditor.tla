----------------------------- MODULE ModelEditor -----------------------------
(***************************************************************************)
(* The model in the web application: a store that the canvas, the matrix   *)
(* and the condition panel edit, one pure operation at a time, and that a  *)
(* DSL text can replace.  The validation is that of ModelContract, which   *)
(* the packages repeat.                                                    *)
(***************************************************************************)
EXTENDS ModelContract, Lists

CONSTANTS
  Drafts,      \* models to begin with: the sample
  DslTexts,    \* DSL texts to import: [types, conditions]
  NewTypes, NewRoles, NewPermissions, NewConditions,  \* names a user gives
  WholeNumbers,  \* names that JavaScript takes for an array's indices
  EditsBound

VARIABLE editor   \* [ir, readOnly, selected, edits]

DslRelations == [name : STRING,
                 subjects : Seq([type : STRING, relation : STRING, condition : STRING]),
                 union : Seq([relation : STRING, from : STRING])]
DslDocuments == [types : Seq([name : STRING, relations : Seq(DslRelations)]), conditions : Seq(STRING)]

(* ModelContract's CanName has the permissions' names. *)
ASSUME EditorAssumption ==
  /\ NewPermissions \subseteq DOMAIN CanName /\ EditsBound \in Nat /\ "" \notin NewTypes
  /\ NewTypes \cup NewRoles \cup NewConditions \cup {"", "none", "parent"} \subseteq STRING
  /\ DslTexts \subseteq DslDocuments

(* The reading of a DSL goes by Object.keys, which puts such names before the
   others (dsl-to-ir.ts:98, 233): no relation and no condition
   has one. *)
ASSUME NoWholeNumbers ==
  /\ (NewRoles \cup NewConditions) \cap WholeNumbers = {}
  /\ \A text \in DslTexts :
       (ToSet(text.conditions) \cup UNION {NameSet(t.relations) : t \in ToSet(text.types)}) \cap WholeNumbers = {}
  /\ \A ir \in Drafts :
       /\ ToSet(ir.conditions) \cap WholeNumbers = {}
       /\ \A r \in ToSet(ir.resources) :
            (NameSet(r.roles) \cup {p.relationName : p \in ToSet(r.parents)}) \cap WholeNumbers = {}

-----------------------------------------------------------------------------
(* The operations on a model.                                              *)
Without(s, x) == Kept(s, LAMBDA y : y # x)
Unnamed(s, name) == Kept(s, LAMBDA y : y.name # name)
Toggle(s, x) == IF x \in ToSet(s) THEN Without(s, x) ELSE Append(s, x)
Each(s, f(_)) == [i \in DOMAIN s |-> f(s[i])]

(* s with the first item of that name changed, as find does. *)
ChangeFirst(s, name, f(_)) ==
  [i \in DOMAIN s |-> IF s[i].name = name /\ \A j \in DOMAIN s : s[j].name = name => i <= j
                      THEN f(s[i]) ELSE s[i]]
OnResource(ir, type, f(_)) == [ir EXCEPT !.resources = ChangeFirst(@, type, f)]
OnPermission(ir, type, permission, f(_)) ==
  OnResource(ir, type, LAMBDA r : [r EXCEPT !.permissions = ChangeFirst(@, permission, f)])

AnyUser == [kind |-> "user", group |-> "", condition |-> "none"]
GroupMember(g) == [kind |-> "group", group |-> g, condition |-> "none"]

NamesOfTypes(ir) == NameSet(ir.groups) \cup NameSet(ir.resources)
AddResource(ir, name) == IF name \in NamesOfTypes(ir) THEN ir ELSE
  [ir EXCEPT !.resources = Append(@, [name |-> name, parents |-> <<>>, roles |-> <<>>, permissions |-> <<>>])]
AddGroup(ir, name) == IF name \in NamesOfTypes(ir) THEN ir ELSE
  [ir EXCEPT !.groups = Append(@, [name |-> name, memberTypes |-> <<AnyUser>>])]

(* Parents of r without a type; relations that have no type left go, and
   with them what permissions inherit over them. *)
Disconnected(r, type, relations) ==
  LET cut == Each(r.parents, LAMBDA p : IF p.relationName \notin relations THEN p
                    ELSE [p EXCEPT !.parentTypes = Without(@, type)])
      gone == {p.relationName : p \in {p \in ToSet(cut) : p.parentTypes = <<>>}}
  IN [r EXCEPT !.parents = Kept(cut, LAMBDA p : p.parentTypes # <<>>),
               !.permissions = Each(@, LAMBDA perm :
                 [perm EXCEPT !.inheritFromParents = Kept(@, LAMBDA rel : rel \notin gone)])]
DisconnectParent(ir, child, relation, parent) ==
  OnResource(ir, child, LAMBDA r : Disconnected(r, parent, {relation}))

(* The members of every group and who every role is given to. *)
OnRefs(ir, f(_)) ==
  [ir EXCEPT !.groups = Each(@, LAMBDA g : [g EXCEPT !.memberTypes = f(@)]),
             !.resources = Each(@, LAMBDA r :
               [r EXCEPT !.roles = Each(@, LAMBDA role : [role EXCEPT !.assignableBy = f(@)])])]

(* Seeded bug: the edges to a type that is deleted are left to the canvas. *)
RemoveTypeOnly(ir, name) ==
  OnRefs([ir EXCEPT !.groups = Unnamed(@, name), !.resources = Unnamed(@, name)],
         LAMBDA refs : Kept(refs, LAMBDA ref : ~(ref.kind = "group" /\ ref.group = name)))
RemoveType(ir, name) ==
  LET left == [ir EXCEPT !.groups = Unnamed(@, name), !.resources = Each(Unnamed(@, name),
        LAMBDA r : Disconnected(r, name, {p.relationName : p \in ToSet(r.parents)}))]
  IN OnRefs(left, LAMBDA refs : Kept(refs, LAMBDA ref : ~(ref.kind = "group" /\ ref.group = name)))

(* The canvas connects over the relation "parent". *)
ConnectParent(ir, child, parent) ==
  IF {child, parent} \subseteq NameSet(ir.resources)
  THEN OnResource(ir, child, LAMBDA r :
         IF \E p \in ToSet(r.parents) : p.relationName = "parent"
         THEN [r EXCEPT !.parents = Each(@, LAMBDA p :
                IF p.relationName = "parent" /\ parent \notin ToSet(p.parentTypes)
                THEN [p EXCEPT !.parentTypes = Append(@, parent)] ELSE p)]
         ELSE [r EXCEPT !.parents = Append(@, [relationName |-> "parent", parentTypes |-> <<parent>>])])
  ELSE ir

AddRole(ir, type, name) == OnResource(ir, type, LAMBDA r :
  IF name \in NameSet(r.roles) THEN r
  ELSE [r EXCEPT !.roles = Append(@, [name |-> name, assignableBy |-> <<AnyUser>>])])
RemoveRole(ir, type, name) == OnResource(ir, type, LAMBDA r :
  [r EXCEPT !.roles = Unnamed(@, name),
            !.permissions = Each(@, LAMBDA p : [p EXCEPT !.grantedByRoles = Without(@, name)])])

(* Also to a name that another role has: the validation tells. *)
RenameRole(ir, type, from, to) ==
  LET renamed(n) == IF n = from THEN to ELSE n
  IN OnResource(ir, type, LAMBDA r :
       [r EXCEPT !.roles = Each(@, LAMBDA role : [role EXCEPT !.name = renamed(@)]),
                 !.permissions = Each(@, LAMBDA p : [p EXCEPT !.grantedByRoles = Each(@, renamed)])])
SetRoleAssignableBy(ir, type, role, refs) == OnResource(ir, type, LAMBDA r :
  [r EXCEPT !.roles = ChangeFirst(@, role, LAMBDA x : [x EXCEPT !.assignableBy = refs])])

AddPermission(ir, type, name) == OnResource(ir, type, LAMBDA r :
  IF name \in NameSet(r.permissions) THEN r
  ELSE [r EXCEPT !.permissions = Append(@, [name |-> name, grantedByRoles |-> <<>>, inheritFromParents |-> <<>>])])
RemovePermission(ir, type, name) ==
  OnResource(ir, type, LAMBDA r : [r EXCEPT !.permissions = Unnamed(@, name)])
RenamePermission(ir, type, from, to) == OnResource(ir, type, LAMBDA r :
  [r EXCEPT !.permissions = Each(@, LAMBDA p : [p EXCEPT !.name = IF @ = from THEN to ELSE @])])
ToggleCell(ir, type, permission, role) ==
  OnPermission(ir, type, permission, LAMBDA p : [p EXCEPT !.grantedByRoles = Toggle(@, role)])
ToggleInherit(ir, type, permission, relation) ==
  OnPermission(ir, type, permission, LAMBDA p : [p EXCEPT !.inheritFromParents = Toggle(@, relation)])

AddCondition(ir, name) ==
  IF name \in ToSet(ir.conditions) THEN ir ELSE [ir EXCEPT !.conditions = Append(@, name)]
Reconditioned(ir, from, to) == OnRefs(ir, LAMBDA refs :
  Each(refs, LAMBDA ref : IF ref.condition = from THEN [ref EXCEPT !.condition = to] ELSE ref))
RenameCondition(ir, from, to) ==
  IF to \in ToSet(ir.conditions) THEN ir
  ELSE Reconditioned([ir EXCEPT !.conditions = Each(@, LAMBDA c : IF c = from THEN to ELSE c)], from, to)
RemoveCondition(ir, name) == Reconditioned([ir EXCEPT !.conditions = Without(@, name)], name, "none")
SetAssignmentCondition(ir, type, role, n, condition) == OnResource(ir, type, LAMBDA r :
  [r EXCEPT !.roles = ChangeFirst(@, role, LAMBDA x :
     IF n \in DOMAIN x.assignableBy THEN [x EXCEPT !.assignableBy[n].condition = condition] ELSE x)])

-----------------------------------------------------------------------------
(* parseDslToIr.  A text has types and conditions as EmitDsl gives them; of
   conditions, only those the builder can write.                           *)
IsSubjectRef(s) == (s.relation = "none" /\ s.type = "user") \/ s.relation = "member"
IsResourceTypeRef(s) == s.condition = "none" /\ s.relation = "none" /\ s.type # "user"
ToSubjectRef(s) == [IF s.relation = "member" THEN GroupMember(s.type) ELSE AnyUser
                    EXCEPT !.condition = s.condition]

Subjects(rel) == rel.union = <<>> /\ rel.subjects # <<>> /\ \A s \in ToSet(rel.subjects) : IsSubjectRef(s)
ParentTypesOnly(rel) ==
  rel.union = <<>> /\ rel.subjects # <<>> /\ \A s \in ToSet(rel.subjects) : IsResourceTypeRef(s)

(* Seeded bug: any type with a relation "member" is taken for a group. *)
IsGroupTypeLoosely(t) == "member" \in NameSet(t.relations)
IsGroupType(t) == Named(t.relations) = <<"member">>

RolesOf(t) == Kept(t.relations, Subjects)
ParentsOf(t) == Kept(t.relations, ParentTypesOnly)
IsPermission(t, rel) ==
  /\ rel.union # <<>> /\ \E p \in DOMAIN CanName : CanName[p] = rel.name
  /\ \E op \in ToSet(rel.union) : op.from = "none"
  /\ \A op \in ToSet(rel.union) :
       IF op.from = "none" THEN op.relation \in NameSet(RolesOf(t))
       ELSE op.from \in NameSet(ParentsOf(t)) /\ op.relation = rel.name

RefsOf(rel) == Each(rel.subjects, ToSubjectRef)
PermissionOf(rel) ==
  LET own == Kept(rel.union, LAMBDA op : op.from = "none")
      inherited == Kept(rel.union, LAMBDA op : op.from # "none")
  IN [name |-> CHOOSE p \in DOMAIN CanName : CanName[p] = rel.name,
      grantedByRoles |-> Each(own, LAMBDA op : op.relation),
      inheritFromParents |-> Each(inherited, LAMBDA op : op.from)]
ResourceOf(t) ==
  [name |-> t.name,
   parents |-> Each(ParentsOf(t), LAMBDA rel :
     [relationName |-> rel.name, parentTypes |-> Each(rel.subjects, LAMBDA s : s.type)]),
   roles |-> Each(RolesOf(t), LAMBDA rel : [name |-> rel.name, assignableBy |-> RefsOf(rel)]),
   permissions |-> Each(Kept(t.relations, LAMBDA rel : IsPermission(t, rel)), PermissionOf)]

(* The relations the IR has no form for: "advanced". *)
Advanced(t) ==
  IF t.name = "user" THEN t.relations # <<>>
  ELSE IF IsGroupType(t) THEN ~Subjects(t.relations[1])
  ELSE \E rel \in ToSet(t.relations) : ~Subjects(rel) /\ ~ParentTypesOnly(rel) /\ ~IsPermission(t, rel)

ParsedIr(text) ==
  LET named == Kept(text.types, LAMBDA t : t.name # "user")
      groups == Kept(named, LAMBDA t : IsGroupType(t) /\ ~Advanced(t))
  IN [groups |-> Each(groups, LAMBDA t : [name |-> t.name, memberTypes |-> RefsOf(t.relations[1])]),
      resources |-> Each(Kept(named, LAMBDA t : ~IsGroupType(t)), ResourceOf),
      conditions |-> text.conditions]
FullyRepresentable(text) ==
  ModelErrors(ParsedIr(text)) = {} /\ \A t \in ToSet(text.types) : ~Advanced(t)

-----------------------------------------------------------------------------
(* The store.                                                              *)
Opened(ir, readOnly) == [ir |-> ir, readOnly |-> readOnly, selected |-> "", edits |-> 0]

EditorTypeOK ==
  /\ editor.readOnly \in BOOLEAN /\ editor.edits \in 0..EditsBound
  /\ DOMAIN editor.ir = {"groups", "resources", "conditions"}

EditorInit == \E ir \in Drafts : editor = Opened(ir, FALSE)

(* apply: not in a model that is read-only, nothing when nothing changes. *)
Apply(ir) ==
  /\ ~editor.readOnly /\ editor.edits < EditsBound /\ ir # editor.ir
  /\ editor' = [editor EXCEPT !.ir = ir, !.edits = @ + 1]

(* The canvas. *)
EditTypes ==
  \/ \E name \in NewTypes : Apply(AddResource(editor.ir, name)) \/ Apply(AddGroup(editor.ir, name))
  \/ \E child, parent \in NamesOfTypes(editor.ir) : Apply(ConnectParent(editor.ir, child, parent))
  \/ \E r \in ToSet(editor.ir.resources) : \E p \in ToSet(r.parents) : \E t \in ToSet(p.parentTypes) :
       Apply(DisconnectParent(editor.ir, r.name, p.relationName, t))
DeleteType ==
  /\ ~editor.readOnly /\ editor.edits < EditsBound
  /\ \E name \in NamesOfTypes(editor.ir) :
       editor' = [editor EXCEPT !.ir = RemoveType(@, name), !.edits = @ + 1,
                                !.selected = IF @ = name THEN "" ELSE @]
SelectType ==
  \E name \in (NameSet(editor.ir.resources) \cup {""}) \ {editor.selected} :
    editor' = [editor EXCEPT !.selected = name]

(* The matrix of the selected type.  A box of a role's subjects is set or
   cleared by writing all of them anew, without their conditions. *)
BuildRefs(hasUser, groups) == (IF hasUser THEN <<AnyUser>> ELSE <<>>) \o Each(groups, GroupMember)
EditSubjects(ir, type, role) ==
  LET groups == Each(Kept(role.assignableBy, LAMBDA ref : ref.kind = "group"), LAMBDA ref : ref.group)
      hasUser == \E ref \in ToSet(role.assignableBy) : ref.kind = "user"
  IN \/ Apply(SetRoleAssignableBy(ir, type, role.name, BuildRefs(~hasUser, groups)))
     \/ \E g \in NameSet(ir.groups) :
          Apply(SetRoleAssignableBy(ir, type, role.name, BuildRefs(hasUser, Toggle(groups, g))))
EditRoles(ir, r) ==
  \/ \E n \in NewRoles : Apply(AddRole(ir, r.name, n))
  \/ \E role \in ToSet(r.roles) :
       \/ Apply(RemoveRole(ir, r.name, role.name)) \/ EditSubjects(ir, r.name, role)
       \/ \E to \in NewRoles : Apply(RenameRole(ir, r.name, role.name, to))
EditPermissions(ir, r) ==
  \/ \E n \in NewPermissions : Apply(AddPermission(ir, r.name, n))
  \/ \E p \in ToSet(r.permissions) :
       \/ Apply(RemovePermission(ir, r.name, p.name))
       \/ \E to \in NewPermissions : Apply(RenamePermission(ir, r.name, p.name, to))
       \/ \E role \in ToSet(r.roles) : Apply(ToggleCell(ir, r.name, p.name, role.name))
       \/ \E rel \in ToSet(r.parents) : Apply(ToggleInherit(ir, r.name, p.name, rel.relationName))
EditMatrix ==
  \E r \in ToSet(editor.ir.resources) :
    r.name = editor.selected /\ (EditRoles(editor.ir, r) \/ EditPermissions(editor.ir, r))

(* The condition panel; its other edits change what is inside a condition. *)
EditConditions ==
  \/ \E name \in NewConditions : Apply(AddCondition(editor.ir, name))
  \/ \E c \in ToSet(editor.ir.conditions) :
       \/ \E to \in NewConditions : Apply(RenameCondition(editor.ir, c, to))
       \/ Apply(RemoveCondition(editor.ir, c))
       \/ \E r \in ToSet(editor.ir.resources) : \E role \in ToSet(r.roles) :
            \E n \in DOMAIN role.assignableBy, to \in {c, "none"} :
              Apply(SetAssignmentCondition(editor.ir, r.name, role.name, n, to))

(* A text that is no DSL leaves the model as it is (DslTexts has none). *)
LoadFromDsl ==
  \E text \in DslTexts : editor' = Opened(ParsedIr(text), ~FullyRepresentable(text))
ResetTo == \E ir \in Drafts : editor' = Opened(ir, FALSE)

EditorNext == EditTypes \/ DeleteType \/ SelectType \/ EditMatrix \/ EditConditions
              \/ LoadFromDsl \/ ResetTo

EditorSpec == EditorInit /\ [][EditorNext]_editor

-----------------------------------------------------------------------------
(* A group, a role, a parent type, a parent relation or a condition is named
   that is not there, or a type, a condition or a parent relation is there
   twice.  The permission that an inheritance looks for on a parent type is
   not among them: PARENT_MISSING_PERMISSION. *)
Orphaned == {"UNKNOWN_GROUP", "UNKNOWN_ROLE", "UNKNOWN_PARENT", "CONDITION_UNKNOWN",
             "DUP_TYPE", "DUP_CONDITION", "DUP_PARENT_RELATION"}

(* The drafts are models the validation has nothing of this to say about. *)
ASSUME DraftsAssumption ==
  Drafts \subseteq {ir \in ModelIRs : ModelErrors(ir) \cap Orphaned = {}}

(* No sequence of edits leaves a reference to a group, a role, a parent type,
   a parent relation or a condition that is not there, nor a type, a
   condition or a parent relation twice.  One kind of reference is left
   hanging: a permission inherited over a parent type on which no permission
   has that name.  Removing or renaming it there, connecting a parent and
   turning the inheritance on all do so (edit.ts:211 takes a permission's
   name for one nobody refers to), and the user has to repair it, as he has
   to what the validation says of single names and lists.  And the matrix is
   never open on a type that is gone. *)
EditsLeaveNoOrphan ==
  /\ ~editor.readOnly => ModelErrors(editor.ir) \cap Orphaned = {}
  /\ editor.selected \in {""} \cup NameSet(editor.ir.resources)

(* The one exception: a resource type whose only relation is "member" is
   taken for a group, or for something the editor has no form for. *)
LikeAGroup(r) == r.permissions = <<>> /\ Named(ResourceTypeOf(r).relations) = <<"member">>

(* Whatever a user has made of a model, its DSL gives that model back,
   editable and with everything in its order; of a condition, its name (inside
   of one, a group of one comes back as what is in it). *)
ImportRestoresTheModel ==
  (ModelErrors(editor.ir) = {} /\ \A r \in ToSet(editor.ir.resources) : ~LikeAGroup(r)) =>
    LET text == [types |-> EmitDsl(editor.ir), conditions |-> editor.ir.conditions]
    IN ParsedIr(text) = editor.ir /\ FullyRepresentable(text)
=============================================================================
