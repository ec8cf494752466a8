---------------------------- MODULE GrantContract ----------------------------
(***************************************************************************)
(* The check of a grant or a revoke against the published ModelIR, before  *)
(* OpenFGA is asked to write or delete the tuple under the same model.     *)
(* The race with a publish is TupleSync's; here the model stands still.    *)
(*                                                                         *)
(* A request is a record of the fields its JSON has; an optional field of  *)
(* a decoded request that was not sent is "none".  A condition comes with  *)
(* a context, values for some of its parameters, which the code passes on  *)
(* unread; so it does ids of any length.                                   *)
(***************************************************************************)
EXTENDS ModelContract

CONSTANTS
  GrantIrs,       \* published models
  GrantRequests,  \* requests: records with some of the fields below
  NoIdent,        \* names isIdent refuses; a reserved word is not one of them
  BadId,          \* object ids with a forbidden character, or empty
  Fitting,        \* <<condition, context>>: parameters it has, of their types
  Oversized       \* the subjects and the resources that are too long for OpenFGA

(* A model is published after it has passed the validation. *)
ASSUME GrantAssumption ==
  /\ \A ir \in GrantIrs : ir \in ModelIRs /\ ModelErrors(ir) = {}
  /\ NoIdent \subseteq BadName

VARIABLE granting  \* one request to /grants

-----------------------------------------------------------------------------
(* decodeGrantRequest, decodeRevokeRequest: the required fields are there. *)
Decodes(op, doc) ==
  /\ {"subject", "relation", "resource"} \subseteq DOMAIN doc
  /\ {"type", "id"} \subseteq DOMAIN doc.subject
  /\ {"type", "id"} \subseteq DOMAIN doc.resource
  /\ op = "grant" /\ "condition" \in DOMAIN doc => "name" \in DOMAIN doc.condition

Optional(doc, key) == IF key \in DOMAIN doc THEN doc[key] ELSE "none"
GrantRequestOf(doc) ==
  LET given == IF "condition" \in DOMAIN doc THEN doc.condition ELSE [name |-> "none"]
  IN [subject |-> [type |-> doc.subject.type, id |-> doc.subject.id,
                   relation |-> Optional(doc.subject, "relation")],
      relation |-> doc.relation, resource |-> doc.resource,
      condition |-> Optional(given, "name"), context |-> Optional(given, "context")]

(* The subjects a relation may be given to directly; "none" without one.  A
   resource type of that name hides a group. *)
AssignableSubjects(ir, type, relation) ==
  IF type \in NameSet(ir.resources)
    THEN LET roles == (CHOOSE r \in ToSet(ir.resources) : r.name = type).roles
         IN IF relation \in NameSet(roles)
              THEN {ToSet((CHOOSE r \in ToSet(roles) : r.name = relation).assignableBy)} ELSE {}
  ELSE IF type \in NameSet(ir.groups) /\ relation = "member"
    THEN {ToSet((CHOOSE g \in ToSet(ir.groups) : g.name = type).memberTypes)}
  ELSE {}

IsAssignableRelation(ir, type, relation) == AssignableSubjects(ir, type, relation) # {}

SubjectMatchesRef(ref, s) ==
  IF ref.kind = "user" THEN s.relation = "none" /\ s.type = "user"
  ELSE s.relation = "member" /\ s.type = ref.group

WellNamed(req) ==
  /\ {req.subject.type, req.subject.relation, req.relation, req.resource.type} \cap NoIdent = {}
  /\ {req.subject.id, req.resource.id} \cap BadId = {}

Candidates(ir, req) ==
  {ref \in UNION AssignableSubjects(ir, req.resource.type, req.relation) :
     SubjectMatchesRef(ref, req.subject)}

(* ValidateRevoke, and the first half of ValidateGrant. *)
Structural(ir, req) ==
  IF ~WellNamed(req) THEN "malformed_request"
  ELSE IF ~IsAssignableRelation(ir, req.resource.type, req.relation) THEN "relation_not_assignable"
  ELSE IF Candidates(ir, req) = {} THEN "subject_type_not_allowed"
  ELSE "ok"

(* Seeded bug: that the condition exists is enough. *)
ConditionRuleKnown(ir, req) ==
  IF req.condition = "none"
    THEN IF \E ref \in Candidates(ir, req) : ref.condition = "none" THEN "ok"
         ELSE "condition_required"
  ELSE IF req.condition \in NoIdent THEN "malformed_request"
  ELSE IF req.condition \notin ToSet(ir.conditions) THEN "unknown_condition"
  ELSE "ok"

ConditionRule(ir, req) ==
  IF req.condition = "none"
    THEN IF \E ref \in Candidates(ir, req) : ref.condition = "none" THEN "ok"
         ELSE "condition_required"
  ELSE IF req.condition \in NoIdent THEN "malformed_request"
  ELSE IF req.condition \notin ToSet(ir.conditions) THEN "unknown_condition"
  ELSE IF \E ref \in Candidates(ir, req) : ref.condition = req.condition THEN "ok"
  ELSE "condition_not_permitted"

ValidateRevoke(ir, req) == Structural(ir, req)
ValidateGrant(ir, req) ==
  IF Structural(ir, req) # "ok" THEN Structural(ir, req) ELSE ConditionRule(ir, req)

-----------------------------------------------------------------------------
(* The model has the relation for such a subject under such a condition. *)
ModelTakes(types, req) ==
  \E t \in ToSet(types) : /\ t.name = req.resource.type /\ req.relation \in NameSet(t.relations)
    /\ [type |-> req.subject.type, relation |-> req.subject.relation,
        condition |-> req.condition] \in ToSet(RelationOf(t, req.relation).subjects)

ContextFits(req) == req.context = "none" \/ <<req.condition, req.context>> \in Fitting
SizeFits(req) == req.subject \notin Oversized /\ req.resource \notin Oversized

(* OpenFGA checks the tuple it writes by the model, and its context by the
   condition; of one that it deletes it asks no more than that it is a tuple. *)
OpenfgaTakes(op, types, req) ==
  /\ SizeFits(req)
  /\ op = "grant" => ModelTakes(types, req) /\ ContextFits(req)

-----------------------------------------------------------------------------
GrantingInit == \E ir \in GrantIrs, doc \in GrantRequests, op \in {"grant", "revoke"} :
  granting = [at |-> "asked", op |-> op, ir |-> ir, doc |-> doc, code |-> "none"]

(* The handler: 400 with a code, or the call of OpenFGA, whose refusal is the
   400 of last resort. *)
AnswerGrant ==
  /\ granting.at = "asked"
  /\ LET req == GrantRequestOf(granting.doc)
         code == IF ~Decodes(granting.op, granting.doc) THEN "malformed_request"
                 ELSE IF granting.op = "grant" THEN ValidateGrant(granting.ir, req)
                 ELSE ValidateRevoke(granting.ir, req)
     IN granting' = [granting EXCEPT !.code = code, !.at =
          IF code # "ok" THEN "refused"
          ELSE IF OpenfgaTakes(granting.op, EmitDsl(granting.ir), req) THEN "stored"
          ELSE "backstop"]

GrantingSpec == GrantingInit /\ [][AnswerGrant]_granting

(* A grant passes the check exactly when the model that OpenFGA compiled from
   the same ModelIR takes its tuple: the 400 of last resort is left to a
   context that does not fit the condition and to ids that are too long, and
   nothing assignable is refused.  (Tuples of a parent relation are not
   grants.)  What may be granted may also be revoked. *)
ValidGrantIsWritable ==
  LET req == GrantRequestOf(granting.doc)
      parents(r) == {r.parents[i].relationName : i \in DOMAIN r.parents}
  IN /\ granting.at = "backstop" => ~SizeFits(req) \/ (granting.op = "grant" /\ ~ContextFits(req))
     /\ granting.at = "refused" /\ granting.op = "grant" /\ Decodes("grant", granting.doc) /\ WellNamed(req) =>
          \/ ~ModelTakes(EmitDsl(granting.ir), req)
          \/ \E r \in ToSet(granting.ir.resources) :
               r.name = req.resource.type /\ req.relation \in parents(r)
     /\ granting.at = "stored" => ValidateRevoke(granting.ir, req) = "ok"
=============================================================================
