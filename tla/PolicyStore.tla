---------------------------- MODULE PolicyStore -----------------------------
(***************************************************************************)
(* The policy catalogue: POST, PUT and DELETE /policies by several admins, *)
(* while models are published.                                             *)
(*                                                                         *)
(* A handler is a sequence of separate statements without a transaction:   *)
(* it looks the id up, looks for another policy of the same (permission,   *)
(* resourceType), reads the current model to see that it offers the pair,  *)
(* and writes.  Everything it read may have changed when it writes; the    *)
(* UNIQUE constraint of the table is the only check made at that moment.   *)
(* The record is handed over after the write was answered, so that a write *)
(* whose answer is lost, or a crash between the two, goes unrecorded.      *)
(***************************************************************************)
EXTENDS PublishedModel, Integers, FiniteSets

CONSTANTS
  Policy,        \* policy ids that are slugs
  Permission,
  ResourceType,
  Offers,        \* the (permission, resourceType) pairs each model declares
  Admin,         \* admin requests that may be in progress at one time
  Keep           \* a field that a PUT leaves out

Target == [permission : Permission, resourceType : ResourceType]
Patch == [permission : Permission \cup {Keep},
          resourceType : ResourceType \cup {Keep}]

Op == {"create", "update", "delete"}

ASSUME PolicyAssumption ==
  /\ IsFiniteSet(Admin)
  /\ None \notin Policy \cup Target \cup Patch \cup Op \cup Int
  /\ Keep \notin Permission \cup ResourceType
  /\ Offers \in [Model -> SUBSET Target]

VARIABLES
  policy,   \* the table: the target of each policy id, None when no such row
  session,  \* where each admin request stands, and what it works on
  trail     \* the audit records about each policy id: its creations less its
            \* deletions, None once a change of it went unrecorded

policyVars == <<policy, session, trail>>

At == {"idle", "lookup", "precheck", "find", "clash", "target", "write", "record"}
Idle == [at |-> "idle", op |-> "create", id |-> None, want |-> None]

PolicyTypeOK ==
  /\ policy \in [Policy -> Target \cup {None}]
  /\ session \in [Admin -> [at : At, op : Op, id : Policy \cup {None},
                            want : Target \cup Patch \cup {None}]]
  /\ trail \in [Policy -> Int \cup {None}]

PolicyInit ==
  /\ policy = [p \in Policy |-> None]
  /\ session = [a \in Admin |-> Idle]
  /\ trail = [p \in Policy |-> 0]

-----------------------------------------------------------------------------
(* Session bookkeeping.                                                    *)

Goto(a, at) == session' = [session EXCEPT ![a].at = at]

(* The request is answered with an error (404, 409, 422 or 500). *)
Refuse(a) ==
  /\ session' = [session EXCEPT ![a] = Idle]
  /\ UNCHANGED <<policy, trail>>

Exists(p) == policy[p] # None
Holders(t) == {p \in Policy : policy[p] = t}

(* UNIQUE (permission, resource_type).
   Seeded bug: the migration that creates the constraint is missing. *)
BreaksUniqueUnchecked(p, t) == FALSE

BreaksUnique(p, t) == Holders(t) \ {p} # {}

-----------------------------------------------------------------------------
(* createPolicy.                                                           *)

BeginCreate(a, p, t) ==
  /\ session[a].at = "idle"
  /\ session' = [session EXCEPT ![a] =
                   [at |-> "lookup", op |-> "create", id |-> p, want |-> t]]
  /\ UNCHANGED <<policy, trail>>

LookupId(a) ==
  /\ session[a].at = "lookup"
  /\ IF Exists(session[a].id)
       THEN Refuse(a)
       ELSE Goto(a, "clash") /\ UNCHANGED <<policy, trail>>

-----------------------------------------------------------------------------
(* The PUT route and editPolicy: the row is looked up by the route, and     *)
(* once more by the service, which merges the patch into what it finds.     *)

BeginUpdate(a, p, patch) ==
  /\ session[a].at = "idle"
  /\ session' = [session EXCEPT ![a] =
                   [at |-> "precheck", op |-> "update", id |-> p, want |-> patch]]
  /\ UNCHANGED <<policy, trail>>

Precheck(a) ==
  /\ session[a].at = "precheck"
  /\ IF Exists(session[a].id)
       THEN Goto(a, "find") /\ UNCHANGED <<policy, trail>>
       ELSE Refuse(a)

Merge(row, patch) ==
  [permission |-> IF patch.permission = Keep THEN row.permission ELSE patch.permission,
   resourceType |-> IF patch.resourceType = Keep THEN row.resourceType
                                                 ELSE patch.resourceType]

FindAndMerge(a) ==
  /\ session[a].at = "find"
  /\ IF Exists(session[a].id)
       THEN /\ session' = [session EXCEPT
                 ![a].at = "clash",
                 ![a].want = Merge(policy[session[a].id], session[a].want)]
            /\ UNCHANGED <<policy, trail>>
       ELSE Refuse(a)

-----------------------------------------------------------------------------
(* What both share: FindByActionResource, then assertModelHasTarget.       *)

(* A policy of the same target is a clash, unless it is the one edited. *)
FindClash(a) ==
  /\ session[a].at = "clash"
  /\ LET mine == IF session[a].op = "update" THEN {session[a].id} ELSE {}
     IN  IF Holders(session[a].want) \subseteq mine
           THEN Goto(a, "target") /\ UNCHANGED <<policy, trail>>
           ELSE Refuse(a)

Offered(t) == current # None /\ t \in Offers[current]

(* Seeded bug: an edit trusts that the row it started from was checked. *)
CheckTargetOfCreateOnly(a) ==
  /\ session[a].at = "target"
  /\ IF session[a].op = "update" \/ Offered(session[a].want)
       THEN Goto(a, "write") /\ UNCHANGED <<policy, trail>>
       ELSE Refuse(a)

CheckTarget(a) ==
  /\ session[a].at = "target"
  /\ IF Offered(session[a].want)
       THEN Goto(a, "write") /\ UNCHANGED <<policy, trail>>
       ELSE Refuse(a)

-----------------------------------------------------------------------------
(* The writes, each one SQL statement, and the record that follows them.   *)

Writes(a) == policy' = [policy EXCEPT ![session[a].id] = session[a].want]

(* An INSERT meets neither key, an UPDATE its row and no other's target. *)
Writable(a) ==
  /\ Exists(session[a].id) <=> session[a].op = "update"
  /\ ~BreaksUnique(session[a].id, session[a].want)

Store(a) == Writes(a) /\ Goto(a, "record") /\ UNCHANGED trail

(* Seeded bug: the upsert of a primary-key conflict replaces the row. *)
InsertOrReplace(a) ==
  /\ session[a].at = "write"
  /\ session[a].op = "create"
  /\ IF BreaksUnique(session[a].id, session[a].want)
       THEN Refuse(a)
       ELSE Store(a)

Insert(a) ==
  /\ session[a].at = "write"
  /\ session[a].op = "create"
  /\ IF Writable(a) THEN Store(a) ELSE Refuse(a)

Update(a) ==
  /\ session[a].at = "write"
  /\ session[a].op = "update"
  /\ IF Writable(a) THEN Store(a) ELSE Refuse(a)

(* DELETE ... RETURNING id: 404 when it matched no row. *)
Delete(a, p) ==
  /\ session[a].at = "idle"
  /\ Exists(p)
  /\ policy' = [policy EXCEPT ![p] = None]
  /\ session' = [session EXCEPT ![a] =
                   [at |-> "record", op |-> "delete", id |-> p, want |-> None]]
  /\ UNCHANGED trail

(* What a record of each operation adds to the count. *)
Weight(op) == IF op = "create" THEN 1 ELSE IF op = "delete" THEN -1 ELSE 0

(* Seeded bug: the request ends without a record. *)
RecordForgotten(a) ==
  /\ session[a].at = "record"
  /\ Refuse(a)

Record(a) ==
  /\ session[a].at = "record"
  /\ trail' = [trail EXCEPT ![session[a].id] =
                 IF @ = None THEN None ELSE @ + Weight(session[a].op)]
  /\ session' = [session EXCEPT ![a] = Idle]
  /\ UNCHANGED policy

(* A statement fails, or the process dies, before any change. *)
Fail(a) ==
  /\ session[a].at \notin {"idle", "record"}
  /\ Refuse(a)

Unrecorded(p) == trail' = [trail EXCEPT ![p] = None]

(* The statement takes effect and its answer is lost: a cancelled request, a
   dropped connection.  The handler answers 500 and records nothing. *)
AnswerLost(a) ==
  /\ session[a].at = "write"
  /\ Writable(a)
  /\ Writes(a)
  /\ Unrecorded(session[a].id)
  /\ session' = [session EXCEPT ![a] = Idle]

DeleteAnswerLost(a, p) ==
  /\ session[a].at = "idle"
  /\ Exists(p)
  /\ policy' = [policy EXCEPT ![p] = None]
  /\ Unrecorded(p)
  /\ UNCHANGED session

(* The process dies between the change and its record. *)
RecordLost(a) ==
  /\ session[a].at = "record"
  /\ Unrecorded(session[a].id)
  /\ session' = [session EXCEPT ![a] = Idle]
  /\ UNCHANGED policy

-----------------------------------------------------------------------------
PolicyStep(a) ==
  \/ \E p \in Policy, t \in Target : BeginCreate(a, p, t)
  \/ \E p \in Policy, t \in Patch : BeginUpdate(a, p, t)
  \/ \E p \in Policy : Delete(a, p) \/ DeleteAnswerLost(a, p)
  \/ LookupId(a) \/ Precheck(a) \/ FindAndMerge(a)
  \/ FindClash(a) \/ CheckTarget(a)
  \/ Insert(a) \/ Update(a) \/ AnswerLost(a) \/ Record(a) \/ RecordLost(a) \/ Fail(a)

-----------------------------------------------------------------------------
(* Properties.                                                             *)

(* Evaluation finds a policy by (permission, resourceType): however creates,
   edits and deletes interleave with their own checks, there is at most one. *)
UniqueTargets ==
  \A p, q \in Policy : Exists(p) /\ policy[p] = policy[q] => p = q

(* A policy's target was offered by some published model: whatever is
   published between the check and the write, the model it was checked
   against remains a published version. *)
TargetsWerePublished ==
  \A p \in Policy : Exists(p) => \E m \in published : policy[p] \in Offers[m]

(* A policy keeps its target but for the write of a PUT on that very id, which
   gives it the target that this PUT merged and checked, and for a deletion: a
   POST never takes over a policy that another POST made after its look-up. *)
OnlyEditsRetarget ==
  [][\A p \in Policy : Exists(p) /\ policy'[p] \notin {policy[p], None} =>
       \E a \in Admin : /\ session[a].at = "write" /\ session'[a] # session[a]
                        /\ session[a].op = "update" /\ session[a].id = p
                        /\ policy'[p] = session[a].want]_<<policy, session>>

(* The requests that have made a change of p and are about to record it. *)
Awaiting(op, p) ==
  {a \in Admin : session[a].at = "record" /\ session[a].op = op /\ session[a].id = p}

(* The log accounts for every policy: its records of creations and deletions,
   with those about to be handed over, come to one for a policy that exists and
   to none for one that does not.  So each change is recorded once, and no
   refused request is.  The exception is an id one of whose changes lost its
   answer, or its process, before the record. *)
PoliciesAreRecorded ==
  \A p \in Policy : trail[p] # None =>
    trail[p] + Cardinality(Awaiting("create", p)) - Cardinality(Awaiting("delete", p))
      = IF Exists(p) THEN 1 ELSE 0
=============================================================================
