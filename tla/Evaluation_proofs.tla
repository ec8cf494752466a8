------------------------- MODULE Evaluation_proofs --------------------------
(* Proofs about the policy catalogue and the decision path, for every set of
   models, policies, admins and evaluations. *)
EXTENDS Evaluation, FiniteSetTheorems, TLAPS

-----------------------------------------------------------------------------
(* What a session holds between its check and its write. *)

Validated(t) == \E m \in published : t \in Offers[m]

(* Past the merge a session holds a whole target, and past the check one that
   a published model offers. *)
SessionsHoldTargets ==
  \A a \in Admin :
    /\ session[a].at # "idle" => session[a].id \in Policy
    /\ session[a].at = "find" \/ session[a].at = "precheck" =>
         session[a].want \in Patch
    /\ session[a].at \in {"lookup", "clash", "target", "write"} =>
         session[a].want \in Target
    /\ session[a].at = "write" => Validated(session[a].want)

CurrentIsPublished == current # None => current \in published

(* An evaluation that found a policy asks for a target that was validated;
   the model it is pinned to was published when it began. *)
EvaluationsArePinned ==
  \A e \in Evaluator :
    /\ eval[e].since \subseteq published
    /\ eval[e].at \in {"policy", "check"} => eval[e].pin \in eval[e].since
    /\ eval[e].at = "check" => Validated(eval[e].asked)

PolicyInv ==
  /\ PolicyTypeOK
  /\ UniqueTargets
  /\ TargetsWerePublished
  /\ PoliciesAreRecorded
  /\ SessionsHoldTargets

IInv ==
  /\ TypeOK
  /\ CurrentIsPublished
  /\ PolicyInv
  /\ EvaluationsArePinned
  /\ UnknownRelationIsSkew
  /\ DecisionUnderOneModel

-----------------------------------------------------------------------------
(* Merging a patch into a row leaves no field open: editPolicy always checks
   and writes a whole target. *)
LEMMA MergeIsTarget ==
  ASSUME NEW row \in Target, NEW patch \in Patch
  PROVE  Merge(row, patch) \in Target
BY PolicyAssumption DEF Merge, Target, Patch

LEMMA InitHolds == Init => IInv
<1> SUFFICES ASSUME Init PROVE IInv
  OBVIOUS
<1> USE ModelAssumption, PolicyAssumption DEF Init, ModelInit, PolicyInit, Idle, NoEvaluation
<1>1. TypeOK
  BY DEF TypeOK, PolicyTypeOK, EvalTypeOK, At, Op, EvalAt, Reply
<1>2. UniqueTargets /\ TargetsWerePublished
  BY DEF UniqueTargets, TargetsWerePublished, Exists
<1>6. PoliciesAreRecorded
  <2>1. \A p \in Policy : Awaiting("create", p) = {} /\ Awaiting("delete", p) = {}
    BY DEF Awaiting
  <2>2. \A p \in Policy : ~Exists(p) /\ trail[p] = 0
    BY DEF Exists
  <2>3. Cardinality({}) = 0
    BY FS_EmptySet
  <2> QED
    BY ONLY <2>1, <2>2, <2>3 DEF PoliciesAreRecorded
<1>3. SessionsHoldTargets
  BY DEF SessionsHoldTargets
<1>4. CurrentIsPublished /\ EvaluationsArePinned
  BY DEF CurrentIsPublished, EvaluationsArePinned
<1>5. UnknownRelationIsSkew /\ DecisionUnderOneModel
  BY DEF UnknownRelationIsSkew, DecisionUnderOneModel
<1> QED
  BY <1>1, <1>2, <1>3, <1>4, <1>5, <1>6 DEF IInv, PolicyInv, TypeOK

-----------------------------------------------------------------------------
(* The count of the records.                                               *)

(* Does the request a await the record of an op on p?  One or none. *)
One(a, op, p) == IF a \in Awaiting(op, p) THEN 1 ELSE 0

(* When one session moves, the number of records awaited changes by its own. *)
LEMMA OneSessionCounts ==
  ASSUME NEW a \in Admin, \A b \in Admin \ {a} : session'[b] = session[b],
         NEW op \in Op, NEW p \in Policy
  PROVE  /\ Cardinality(Awaiting(op, p)) \in Int
         /\ Cardinality(Awaiting(op, p)')
              = Cardinality(Awaiting(op, p)) + One(a, op, p)' - One(a, op, p)
<1> DEFINE Others == Awaiting(op, p) \ {a}
<1>1. IsFiniteSet(Others) /\ a \notin Others
  BY PolicyAssumption, FS_Subset DEF Awaiting
<1>2. Cardinality(Others) \in Nat /\ Cardinality(Others \cup {a}) = Cardinality(Others) + 1
  BY <1>1, FS_CardinalityType, FS_AddElement
<1>3. Awaiting(op, p) = IF a \in Awaiting(op, p) THEN Others \cup {a} ELSE Others
  BY DEF Awaiting
<1>4. Awaiting(op, p)' = IF a \in Awaiting(op, p)' THEN Others \cup {a} ELSE Others
  BY DEF Awaiting
<1> HIDE DEF Others
<1>5. Cardinality(Awaiting(op, p)) = Cardinality(Others) + One(a, op, p)
  BY <1>2, <1>3 DEF One
<1>6. Cardinality(Awaiting(op, p)') = Cardinality(Others) + One(a, op, p)'
  BY <1>2, <1>4 DEF One
<1>7. One(a, op, p) \in Int /\ One(a, op, p)' \in Int
  BY DEF One
<1> QED
  BY <1>2, <1>5, <1>6, <1>7

(* A policy's row, as a number. *)
Row(p) == IF Exists(p) THEN 1 ELSE 0

(* The log goes on accounting for the policies when a step of one request
   moves the count, the records awaited and the row together. *)
LEMMA StepBalances ==
  ASSUME PoliciesAreRecorded, PolicyTypeOK, PolicyTypeOK', NEW a \in Admin,
         \A b \in Admin \ {a} : session'[b] = session[b],
         \A p \in Policy : trail'[p] # None =>
           /\ trail[p] # None
           /\ trail'[p] - trail[p]
                + (One(a, "create", p)' - One(a, "create", p))
                - (One(a, "delete", p)' - One(a, "delete", p)) = Row(p)' - Row(p)
  PROVE  PoliciesAreRecorded'
<1> SUFFICES ASSUME NEW p \in Policy, trail'[p] # None
             PROVE  trail'[p] + Cardinality(Awaiting("create", p)')
                      - Cardinality(Awaiting("delete", p)') = Row(p)'
  BY DEF PoliciesAreRecorded, Row
<1>1. /\ trail[p] \in Int /\ trail'[p] \in Int
      /\ trail[p] + Cardinality(Awaiting("create", p))
           - Cardinality(Awaiting("delete", p)) = Row(p)
  BY DEF PolicyTypeOK, PoliciesAreRecorded, Row
<1>2. /\ Cardinality(Awaiting("create", p)) \in Int
      /\ Cardinality(Awaiting("create", p)')
           = Cardinality(Awaiting("create", p)) + One(a, "create", p)' - One(a, "create", p)
  BY OneSessionCounts DEF Op
<1>3. /\ Cardinality(Awaiting("delete", p)) \in Int
      /\ Cardinality(Awaiting("delete", p)')
           = Cardinality(Awaiting("delete", p)) + One(a, "delete", p)' - One(a, "delete", p)
  BY OneSessionCounts DEF Op
<1>4. /\ \A op \in Op : One(a, op, p) \in Int /\ One(a, op, p)' \in Int
      /\ Row(p) \in Int /\ Row(p)' \in Int
  BY DEF One, Row
<1> QED
  BY <1>1, <1>2, <1>3, <1>4 DEF Op

LEMMA LogStays == PoliciesAreRecorded /\ UNCHANGED policyVars => PoliciesAreRecorded'
BY DEF PoliciesAreRecorded, Awaiting, Exists, policyVars

(* A request that is neither before nor after its record leaves the log. *)
LEMMA NothingRecorded ==
  ASSUME PoliciesAreRecorded, PolicyTypeOK, PolicyTypeOK', NEW a \in Admin,
         \A b \in Admin \ {a} : session'[b] = session[b],
         session[a].at # "record", session'[a].at # "record",
         UNCHANGED <<policy, trail>>
  PROVE  PoliciesAreRecorded'
<1>1. \A p \in Policy, op \in Op : One(a, op, p) = 0 /\ One(a, op, p)' = 0
  BY DEF One, Awaiting
<1>2. \A p \in Policy : Row(p)' = Row(p) /\ Row(p) \in Int
  BY DEF Row, Exists
<1> QED
  BY <1>1, <1>2, StepBalances DEF Op, PolicyTypeOK

-----------------------------------------------------------------------------
(* The write itself: the row gets the session's target, which was validated
   and which no other row has. *)
LEMMA WriteKeepsTargets ==
  ASSUME PolicyInv, UNCHANGED modelVars, NEW a \in Admin,
         session[a].at = "write", Writable(a), Writes(a)
  PROVE  /\ session[a].id \in Policy /\ session[a].want \in Target
         /\ session[a].want # None
         /\ policy' \in [Policy -> Target \cup {None}]
         /\ UniqueTargets' /\ TargetsWerePublished'
<1> DEFINE id == session[a].id
           want == session[a].want
<1> USE ModelAssumption, PolicyAssumption
    DEF PolicyInv, PolicyTypeOK, SessionsHoldTargets, Validated, Exists, Writes, Writable,
        At, Op, modelVars
<1>1. id \in Policy /\ want \in Target /\ want # None
  OBVIOUS
<1>2. policy' = [policy EXCEPT ![id] = want]
  OBVIOUS
<1>3. policy' \in [Policy -> Target \cup {None}]
  BY <1>1, <1>2
<1>4. UniqueTargets'
  BY <1>1, <1>2 DEF UniqueTargets, BreaksUnique, Holders
<1>5. TargetsWerePublished'
  BY <1>1, <1>2 DEF TargetsWerePublished
<1> QED
  BY <1>1, <1>3, <1>4, <1>5

(* The answered write: the request awaits its record. *)
LEMMA StoreKeepsPolicyInv ==
  ASSUME PolicyInv, UNCHANGED modelVars, NEW a \in Admin,
         session[a].at = "write", session[a].op \in {"create", "update"},
         Writable(a), Store(a)
  PROVE  PolicyInv'
<1>1. /\ session[a].id \in Policy /\ session[a].want \in Target
      /\ session[a].want # None
      /\ policy' \in [Policy -> Target \cup {None}]
      /\ UniqueTargets' /\ TargetsWerePublished'
  BY WriteKeepsTargets DEF Store
<1>2. PolicyTypeOK' /\ SessionsHoldTargets'
  BY <1>1 DEF PolicyInv, PolicyTypeOK, SessionsHoldTargets, Validated, Store, Goto,
     At, Op, modelVars
<1>3. PoliciesAreRecorded'
  <2>1. /\ session'[a].at = "record" /\ session'[a].op = session[a].op
        /\ session'[a].id = session[a].id
        /\ \A b \in Admin \ {a} : session'[b] = session[b]
        /\ policy' = [policy EXCEPT ![session[a].id] = session[a].want]
        /\ UNCHANGED trail
    BY DEF PolicyInv, PolicyTypeOK, Store, Goto, Writes
  <2>2. ASSUME NEW p \in Policy
        PROVE  /\ One(a, "create", p) = 0 /\ One(a, "delete", p) = 0
               /\ One(a, "delete", p)' = 0
               /\ One(a, "create", p)' = Row(p)' - Row(p)
    BY <2>1, <1>1 DEF One, Awaiting, Row, Exists, Writable, PolicyInv, PolicyTypeOK
  <2>3. \A p \in Policy : Row(p) \in Int /\ Row(p)' \in Int
    BY DEF Row
  <2> QED
    BY <1>2, <2>1, <2>2, <2>3, StepBalances DEF PolicyInv, PolicyTypeOK
<1> QED
  BY <1>1, <1>2, <1>3 DEF PolicyInv

(* A request that ends in an error has written nothing it would record. *)
LEMMA RefuseKeepsPolicyInv ==
  ASSUME PolicyInv, UNCHANGED modelVars, NEW a \in Admin,
         session[a].at # "record", Refuse(a)
  PROVE  PolicyInv'
<1>1. PolicyTypeOK' /\ UniqueTargets' /\ TargetsWerePublished' /\ SessionsHoldTargets'
  BY DEF Refuse, Idle, PolicyInv, PolicyTypeOK, UniqueTargets, TargetsWerePublished,
         SessionsHoldTargets, Validated, Exists, At, Op, modelVars
<1>2. PoliciesAreRecorded'
  BY <1>1, NothingRecorded DEF Refuse, Idle, PolicyInv, PolicyTypeOK
<1> QED
  BY <1>1, <1>2 DEF PolicyInv

(* A request that looks at something on the way changes nothing. *)
LEMMA GotoKeepsPolicyInv ==
  ASSUME PolicyInv, CurrentIsPublished, UNCHANGED modelVars, NEW a \in Admin,
         NEW at \in At \ {"record", "idle"}, Goto(a, at), UNCHANGED <<policy, trail>>,
         \/ session[a].at = "lookup" /\ at = "clash"
         \/ session[a].at = "precheck" /\ at = "find"
         \/ session[a].at = "clash" /\ at = "target"
         \/ session[a].at = "target" /\ at = "write" /\ Offered(session[a].want)
  PROVE  PolicyInv'
<1>1. PolicyTypeOK' /\ UniqueTargets' /\ TargetsWerePublished' /\ SessionsHoldTargets'
  BY DEF Goto, PolicyInv, PolicyTypeOK, UniqueTargets, TargetsWerePublished, Offered,
         CurrentIsPublished, SessionsHoldTargets, Validated, Exists, At, modelVars
<1>2. PoliciesAreRecorded'
  <2>1. \A b \in Admin \ {a} : session'[b] = session[b]
    BY DEF Goto, PolicyInv, PolicyTypeOK
  <2>2. session'[a].at = at
    BY DEF Goto, PolicyInv, PolicyTypeOK
  <2> QED
    BY <1>1, <2>1, <2>2, NothingRecorded DEF PolicyInv
<1> QED
  BY <1>1, <1>2 DEF PolicyInv

(* What goes unrecorded is of an id that the log no longer accounts for. *)
LEMMA UnrecordedKeeps ==
  ASSUME PoliciesAreRecorded, PolicyTypeOK, PolicyTypeOK', NEW a \in Admin,
         NEW p \in Policy, Unrecorded(p),
         \A b \in Admin \ {a} : session'[b] = session[b],
         \A o \in Policy \ {p} : policy'[o] = policy[o],
         session[a].at = "record" => session[a].id = p,
         session'[a].at # "record"
  PROVE  PoliciesAreRecorded'
<1>1. trail'[p] = None /\ \A o \in Policy \ {p} : trail'[o] = trail[o]
  BY DEF Unrecorded, PolicyTypeOK
<1>2. \A o \in Policy \ {p}, op \in Op : One(a, op, o) = 0 /\ One(a, op, o)' = 0
  BY DEF One, Awaiting
<1>3. \A o \in Policy \ {p} : Row(o)' = Row(o) /\ Row(o) \in Int
  BY DEF Row, Exists
<1> QED
  BY <1>1, <1>2, <1>3, StepBalances DEF Op, PolicyTypeOK

(* A policy request takes a step: the models and the evaluations stay. *)
LEMMA PolicyStepKeepsPolicyInv ==
  ASSUME PolicyInv, CurrentIsPublished, UNCHANGED modelVars,
         NEW a \in Admin, PolicyStep(a)
  PROVE  PolicyInv'
<1> USE ModelAssumption, PolicyAssumption
    DEF PolicyInv, PolicyTypeOK, UniqueTargets, TargetsWerePublished,
        SessionsHoldTargets, Validated, Exists, Goto, At, Op, Idle, modelVars
<1>1. ASSUME NEW p \in Policy, NEW t \in Target, BeginCreate(a, p, t)
      PROVE  PolicyInv'
  BY <1>1, NothingRecorded DEF BeginCreate
<1>2. ASSUME NEW p \in Policy, NEW t \in Patch, BeginUpdate(a, p, t)
      PROVE  PolicyInv'
  BY <1>2, NothingRecorded DEF BeginUpdate
<1>3. ASSUME NEW p \in Policy, Delete(a, p)
      PROVE  PolicyInv'
  <2>1. PolicyTypeOK' /\ UniqueTargets' /\ TargetsWerePublished' /\ SessionsHoldTargets'
    BY <1>3 DEF Delete
  <2>2. ASSUME NEW o \in Policy
        PROVE  /\ One(a, "create", o) = 0 /\ One(a, "delete", o) = 0
               /\ One(a, "create", o)' = 0
               /\ One(a, "delete", o)' = Row(o) - Row(o)'
    BY <1>3 DEF Delete, One, Awaiting, Row
  <2>3. \A o \in Policy : Row(o) \in Int /\ Row(o)' \in Int
    BY DEF Row
  <2>4. \A b \in Admin \ {a} : session'[b] = session[b]
    BY <1>3 DEF Delete
  <2>5. UNCHANGED trail
    BY <1>3 DEF Delete
  <2>6. PoliciesAreRecorded'
    BY <2>1, <2>2, <2>3, <2>4, <2>5, StepBalances
  <2> QED
    BY <2>1, <2>6
<1>4. CASE LookupId(a)
  BY <1>4, RefuseKeepsPolicyInv, GotoKeepsPolicyInv DEF LookupId
<1>5. CASE Precheck(a)
  BY <1>5, RefuseKeepsPolicyInv, GotoKeepsPolicyInv DEF Precheck
<1>6. CASE FindAndMerge(a)
  <2>1. CASE Refuse(a)
    BY <1>6, <2>1, RefuseKeepsPolicyInv DEF FindAndMerge
  <2>2. CASE ~Refuse(a)
    <3>1. /\ Exists(session[a].id)
          /\ session' = [session EXCEPT
               ![a].at = "clash",
               ![a].want = Merge(policy[session[a].id], session[a].want)]
          /\ UNCHANGED <<policy, trail>>
      BY ONLY <1>6, <2>2 DEF FindAndMerge
    <3>2. Merge(policy[session[a].id], session[a].want) \in Target
      BY <1>6, <3>1, MergeIsTarget DEF FindAndMerge
    <3> DEFINE merged == Merge(policy[session[a].id], session[a].want)
    <3> HIDE DEF merged
    <3>3. session' = [session EXCEPT ![a].at = "clash", ![a].want = merged]
      BY <3>1 DEF merged
    <3>4. merged \in Target
      BY <3>2 DEF merged
    <3>5. /\ session'[a].at = "clash" /\ session'[a].want = merged
          /\ session'[a].id = session[a].id
          /\ \A b \in Admin \ {a} : session'[b] = session[b]
          /\ session[a].at = "find" /\ UNCHANGED <<policy, trail, published>>
      BY <1>6, <3>1, <3>3 DEF FindAndMerge
    <3>6. PolicyTypeOK'
      <4> DEFINE S == [at : At, op : Op, id : Policy \cup {None},
                       want : Target \cup Patch \cup {None}]
      <4>1. session \in [Admin -> S]
        OBVIOUS
      <4>2. [session[a] EXCEPT !.at = "clash", !.want = merged] \in S
        BY ONLY a \in Admin, <3>4, <4>1 DEF At
      <4>3. session' = [session EXCEPT
                         ![a] = [session[a] EXCEPT !.at = "clash", !.want = merged]]
        BY ONLY <3>3
      <4>4. session' \in [Admin -> S]
        BY ONLY a \in Admin, <4>1, <4>2, <4>3
      <4> QED
        BY <3>1, <4>4
    <3>7. SessionsHoldTargets'
      <4>1. session[a].id \in Policy /\ merged \in Target
        BY <3>4, <3>5
      <4>2. SessionsHoldTargets /\ a \in Admin
        OBVIOUS
      <4> QED
        BY ONLY <4>1, <4>2, <3>5 DEF SessionsHoldTargets, Validated
    <3>8. PoliciesAreRecorded'
      BY <3>5, <3>6, NothingRecorded
    <3> QED
      BY <3>5, <3>6, <3>7, <3>8
  <2> QED
    BY ONLY <2>1, <2>2
<1>7. CASE FindClash(a)
  BY <1>7, RefuseKeepsPolicyInv, GotoKeepsPolicyInv DEF FindClash
<1>8. CASE CheckTarget(a)
  BY <1>8, RefuseKeepsPolicyInv, GotoKeepsPolicyInv DEF CheckTarget
<1>9. CASE Insert(a)
  BY <1>9, RefuseKeepsPolicyInv, StoreKeepsPolicyInv DEF Insert
<1>10. CASE Update(a)
  BY <1>10, RefuseKeepsPolicyInv, StoreKeepsPolicyInv DEF Update
<1>11. CASE Record(a)
  <2> DEFINE id == session[a].id
             op == session[a].op
  <2>1. /\ id \in Policy /\ op \in Op
        /\ trail' = [trail EXCEPT ![id] = IF @ = None THEN None ELSE @ + Weight(op)]
        /\ session[a].at = "record" /\ session'[a].at = "idle"
        /\ \A b \in Admin \ {a} : session'[b] = session[b]
        /\ UNCHANGED policy
    BY <1>11 DEF Record
  <2>2. Weight(op) \in Int
    BY <2>1 DEF Weight
  <2>3. trail' \in [Policy -> Int \cup {None}]
    BY <2>1, <2>2
  <2>4. PolicyTypeOK' /\ UniqueTargets' /\ TargetsWerePublished' /\ SessionsHoldTargets'
    BY <1>11, <2>3 DEF Record
  <2>5. ASSUME NEW p \in Policy, trail'[p] # None
        PROVE  /\ trail[p] # None /\ trail[p] \in Int /\ trail'[p] \in Int
               /\ trail'[p] - trail[p] = IF p = id THEN Weight(op) ELSE 0
    BY <2>1, <2>2, <2>5
  <2>6. ASSUME NEW p \in Policy
        PROVE  /\ One(a, "create", p)' = 0 /\ One(a, "delete", p)' = 0
               /\ One(a, "create", p) - One(a, "delete", p)
                    = IF p = id THEN Weight(op) ELSE 0
               /\ One(a, "create", p) \in Int /\ One(a, "delete", p) \in Int
    BY <2>1 DEF One, Awaiting, Weight
  <2>7. \A p \in Policy : Row(p)' = Row(p) /\ Row(p) \in Int
    BY <2>1 DEF Row
  <2> HIDE DEF id, op
  <2>8. PoliciesAreRecorded'
    BY <2>1, <2>2, <2>4, <2>5, <2>6, <2>7, StepBalances
  <2> QED
    BY <2>4, <2>8
<1>12. CASE Fail(a)
  BY <1>12, RefuseKeepsPolicyInv DEF Fail
<1>13. CASE RecordLost(a)
  <2>1. PolicyTypeOK' /\ UniqueTargets' /\ TargetsWerePublished' /\ SessionsHoldTargets'
    BY <1>13 DEF RecordLost, Unrecorded
  <2>2. PoliciesAreRecorded'
    BY <1>13, <2>1, UnrecordedKeeps DEF RecordLost
  <2> QED
    BY <2>1, <2>2
<1>14. CASE AnswerLost(a)
  <2>1. /\ session[a].id \in Policy /\ session[a].want \in Target
        /\ session[a].want # None
        /\ policy' \in [Policy -> Target \cup {None}]
        /\ UniqueTargets' /\ TargetsWerePublished'
    BY <1>14, WriteKeepsTargets DEF AnswerLost
  <2>2. PolicyTypeOK' /\ SessionsHoldTargets'
    BY <1>14, <2>1 DEF AnswerLost, Unrecorded
  <2>3. PoliciesAreRecorded'
    BY <1>14, <2>1, <2>2, UnrecordedKeeps DEF AnswerLost, Writes
  <2> QED
    BY <2>1, <2>2, <2>3
<1>15. ASSUME NEW p \in Policy, DeleteAnswerLost(a, p)
       PROVE  PolicyInv'
  <2>1. PolicyTypeOK' /\ UniqueTargets' /\ TargetsWerePublished' /\ SessionsHoldTargets'
    BY <1>15 DEF DeleteAnswerLost, Unrecorded
  <2>2. PoliciesAreRecorded'
    BY <1>15, <2>1, UnrecordedKeeps DEF DeleteAnswerLost
  <2> QED
    BY <2>1, <2>2
<1> QED
  BY ONLY PolicyStep(a), <1>1, <1>2, <1>3, <1>4, <1>5, <1>6, <1>7, <1>8, <1>9, <1>10,
  <1>11, <1>12, <1>13, <1>14, <1>15 DEF PolicyStep

LEMMA PolicyStepKeepsIInv ==
  ASSUME IInv, NEW a \in Admin, PolicyStep(a), UNCHANGED <<modelVars, eval>>
  PROVE  IInv'
<1>1. PolicyInv'
  BY PolicyStepKeepsPolicyInv DEF IInv
<1> QED
  BY <1>1 DEF IInv, PolicyInv, TypeOK, EvalTypeOK, CurrentIsPublished,
     EvaluationsArePinned, UnknownRelationIsSkew,
     DecisionUnderOneModel, Validated, modelVars

(* A publish adds a version and moves the pointer: what was validated stays
   validated. *)
LEMMA PublishKeepsIInv ==
  ASSUME IInv, NEW m \in Model, Publish(m), UNCHANGED <<policyVars, eval>>
  PROVE  IInv'
BY ModelAssumption, LogStays
DEF Publish, policyVars, IInv, PolicyInv, TypeOK, PolicyTypeOK, EvalTypeOK,
    CurrentIsPublished, UniqueTargets, TargetsWerePublished,
    SessionsHoldTargets, EvaluationsArePinned, UnknownRelationIsSkew,
    DecisionUnderOneModel, Validated, Exists

EvalInv ==
  /\ EvalTypeOK
  /\ EvaluationsArePinned
  /\ UnknownRelationIsSkew
  /\ DecisionUnderOneModel

(* An evaluation is answered: only the two replies that
   speak of the pinned model have something to show for it. *)
LEMMA AnswerKeepsEvalInv ==
  ASSUME EvalInv, UNCHANGED published, NEW e \in Evaluator, NEW reply \in Reply,
         eval[e].at \in {"policy", "check"} \/ reply \notin {"allow", "deny"},
         reply = "unknown_relation" =>
           Validated(eval[e].asked) /\ eval[e].asked \notin Offers[eval[e].pin],
         reply \in {"allow", "deny"} => eval[e].asked \in Offers[eval[e].pin],
         Answer(e, reply)
  PROVE  EvalInv'
<1>1. /\ eval' = [eval EXCEPT ![e].at = "replied", ![e].reply = reply]
      /\ eval \in [Evaluator -> [at : EvalAt, asked : Target \cup {None},
                                 since : SUBSET Model, pin : Model \cup {None},
                                 reply : Reply]]
  BY DEF Answer, EvalInv, EvalTypeOK
<1>2. \A f \in Evaluator \ {e} : eval'[f] = eval[f]
  BY <1>1
<1>3. /\ eval'[e].at = "replied" /\ eval'[e].reply = reply
      /\ eval'[e].asked = eval[e].asked /\ eval'[e].since = eval[e].since
      /\ eval'[e].pin = eval[e].pin
  BY <1>1
<1>4. EvalTypeOK'
  BY <1>1 DEF EvalInv, EvalTypeOK, EvalAt
<1>5. EvaluationsArePinned'
  BY <1>2, <1>3 DEF EvalInv, EvaluationsArePinned, Validated
<1>7. UnknownRelationIsSkew'
  BY <1>2, <1>3 DEF EvalInv, UnknownRelationIsSkew, Validated
<1>8. DecisionUnderOneModel'
  BY <1>2, <1>3 DEF EvalInv, DecisionUnderOneModel, EvaluationsArePinned
<1> QED
  BY <1>4, <1>5, <1>7, <1>8 DEF EvalInv

(* An evaluation takes a step.  ReadPolicy is where a target it asks for turns
   out validated: some policy has it. *)
LEMMA EvaluateKeepsIInv ==
  ASSUME IInv, NEW e \in Evaluator, Evaluate(e), UNCHANGED <<modelVars, policyVars>>
  PROVE  IInv'
<1>1. PolicyInv' /\ CurrentIsPublished' /\ current' = current /\ published' = published
  BY LogStays DEF IInv, PolicyInv, PolicyTypeOK, UniqueTargets, TargetsWerePublished,
     SessionsHoldTargets, Validated, Exists, CurrentIsPublished,
     modelVars, policyVars
<1>2. EvalInv
  BY DEF IInv, TypeOK, EvalInv
<1> SUFFICES EvalInv'
  BY <1>1, <1>2 DEF IInv, TypeOK, PolicyInv, EvalInv
<1>3. ASSUME NEW t \in Target, ReadModel(e, t)
      PROVE  EvalInv'
  BY <1>1, <1>2, <1>3, ModelAssumption, PolicyAssumption
  DEF ReadModel, EvalInv, EvalTypeOK, EvaluationsArePinned, UnknownRelationIsSkew,
      DecisionUnderOneModel, Validated, EvalAt, Reply,
      IInv, TypeOK, CurrentIsPublished
<1>4. CASE ReadPolicy(e)
  <2>1. CASE Answer(e, "NO_POLICY")
    BY <1>1, <1>2, <1>4, <2>1, AnswerKeepsEvalInv DEF ReadPolicy, Reply
  <2>2. CASE Holders(eval[e].asked) # {} /\ eval' = [eval EXCEPT ![e].at = "check"]
    <3>1. Validated(eval[e].asked)
      BY <1>2, <1>4, <2>2 DEF ReadPolicy, Holders, IInv, PolicyInv,
         TargetsWerePublished, Exists, Validated, EvalInv, EvalTypeOK
    <3> QED
      BY <1>1, <1>2, <1>4, <2>2, <3>1
      DEF ReadPolicy, EvalInv, EvalTypeOK, EvaluationsArePinned, UnknownRelationIsSkew,
          DecisionUnderOneModel, Validated, EvalAt
  <2> QED
    BY <1>4, <2>1, <2>2 DEF ReadPolicy
<1>5. CASE CheckDecides(e)
  <2>1. PICK decision \in {"allow", "deny"} : Answer(e, decision)
    BY <1>5 DEF CheckDecides
  <2> QED
    BY <1>1, <1>2, <1>5, <2>1, AnswerKeepsEvalInv DEF CheckDecides, Knows, Reply
<1>6. CASE CheckRejects(e)
  <2>1. Validated(eval[e].asked)
    BY <1>2, <1>6 DEF CheckRejects, EvalInv, EvaluationsArePinned
  <2> QED
    BY <1>1, <1>2, <1>6, <2>1, AnswerKeepsEvalInv DEF CheckRejects, Knows, Reply
<1>7. CASE CheckFails(e)
  BY <1>1, <1>2, <1>7, AnswerKeepsEvalInv DEF CheckFails, Reply
<1>8. CASE ReadModelFails(e) \/ ReadPolicyFails(e)
  BY <1>1, <1>2, <1>8, AnswerKeepsEvalInv DEF ReadModelFails, ReadPolicyFails, Reply
<1>9. CASE Done(e)
  BY <1>1, <1>2, <1>9
  DEF Done, NoEvaluation, EvalInv, EvalTypeOK, EvaluationsArePinned,
      UnknownRelationIsSkew, DecisionUnderOneModel, Validated,
      EvalAt, Reply
<1> QED
  BY ONLY Evaluate(e), <1>3, <1>4, <1>5, <1>6, <1>7, <1>8, <1>9 DEF Evaluate

LEMMA StutterKeepsIInv == IInv /\ UNCHANGED evaluationVars => IInv'
BY LogStays
   DEF evaluationVars, policyVars, modelVars, IInv, PolicyInv, TypeOK, PolicyTypeOK,
       EvalTypeOK, CurrentIsPublished, UniqueTargets, TargetsWerePublished,
       SessionsHoldTargets, EvaluationsArePinned,
       UnknownRelationIsSkew, DecisionUnderOneModel, Validated,
       Exists

(* The inductive invariant holds in every reachable state. *)
THEOREM Invariance == Spec => []IInv
<1>1. IInv /\ [Next]_evaluationVars => IInv'
  BY PolicyStepKeepsIInv, PublishKeepsIInv, EvaluateKeepsIInv, StutterKeepsIInv
  DEF Next, ModelNext
<1> QED
  BY InitHolds, <1>1, PTL DEF Spec

(* Types, for every reachable state. *)
THEOREM TypeCorrect == Spec => []TypeOK
BY Invariance, PTL DEF IInv

(* At most one policy per target, whatever handlers race. *)
THEOREM TargetsAreUnique == Spec => []UniqueTargets
BY Invariance, PTL DEF IInv, PolicyInv

(* Every policy was validated against a model that is a published version. *)
THEOREM TargetsPublished == Spec => []TargetsWerePublished
BY Invariance, PTL DEF IInv, PolicyInv

(* The log accounts for every policy: one creation more than deletions when it
   exists and as many of both when it does not, with those about to be handed
   over, unless a change of it lost its answer or its process. *)
THEOREM PoliciesRecorded == Spec => []PoliciesAreRecorded
BY Invariance, PTL DEF IInv, PolicyInv

(* An unknown relation is always a skew between two published models. *)
THEOREM UnknownRelationSkew == Spec => []UnknownRelationIsSkew
BY Invariance, PTL DEF IInv

(* A decision is made under one model, published before it was asked for. *)
THEOREM DecisionsUnderOneModel == Spec => []DecisionUnderOneModel
BY Invariance, PTL DEF IInv

-----------------------------------------------------------------------------
(* The step of a request that gives a policy that exists another target. *)
LEMMA OnlyUpdateRetargets ==
  ASSUME PolicyTypeOK, NEW a \in Admin, PolicyStep(a), NEW p \in Policy,
         Exists(p), policy'[p] \notin {policy[p], None}
  PROVE  /\ session[a].at = "write" /\ session'[a] # session[a]
         /\ session[a].op = "update" /\ session[a].id = p
         /\ policy'[p] = session[a].want
<1>1. policy' # policy
  OBVIOUS
<1>2. \A o \in Policy : ~Delete(a, o) /\ ~DeleteAnswerLost(a, o)
  BY DEF Delete, DeleteAnswerLost, PolicyTypeOK
<1>3. \/ session[a].at = "write" /\ Writable(a) /\ Store(a)
      \/ AnswerLost(a)
  BY ONLY PolicyStep(a), <1>1, <1>2 DEF PolicyStep, BeginCreate, BeginUpdate, LookupId,
     Precheck, FindAndMerge, FindClash, CheckTarget, Insert, Update, Record, Fail,
     RecordLost, Refuse
<1>4. session[a].at = "write" /\ Writable(a) /\ Writes(a)
  BY <1>3 DEF AnswerLost, Store
<1>5. session[a].id = p /\ policy'[p] = session[a].want
  BY <1>4 DEF Writes, PolicyTypeOK
<1>6. session[a].op = "update"
  BY <1>4, <1>5 DEF Writable
<1>7. session'[a].at # "write"
  BY <1>3 DEF Store, Goto, AnswerLost, Idle, PolicyTypeOK
<1> QED
  BY <1>4, <1>5, <1>6, <1>7

(* A policy that exists gets another target only by the write of a PUT on that
   id, and the one that PUT merged and checked. *)
THEOREM CreatesRetargetNothing == Spec => OnlyEditsRetarget
<1> DEFINE Retargeted ==
      \A p \in Policy : Exists(p) /\ policy'[p] \notin {policy[p], None} =>
        \E a \in Admin : /\ session[a].at = "write" /\ session'[a] # session[a]
                         /\ session[a].op = "update" /\ session[a].id = p
                         /\ policy'[p] = session[a].want
<1>1. IInv /\ [Next]_evaluationVars => [Retargeted]_<<policy, session>>
  <2> SUFFICES ASSUME IInv, [Next]_evaluationVars, NEW p \in Policy,
                      Exists(p), policy'[p] \notin {policy[p], None}
               PROVE  \E a \in Admin : /\ session[a].at = "write" /\ session'[a] # session[a]
                                       /\ session[a].op = "update" /\ session[a].id = p
                                       /\ policy'[p] = session[a].want
    OBVIOUS
  <2>1. PICK a \in Admin : PolicyStep(a)
    BY DEF Next, ModelNext, evaluationVars, policyVars
  <2> QED
    BY <2>1, OnlyUpdateRetargets DEF IInv, PolicyInv
<1> QED
  BY <1>1, Invariance, PTL DEF Spec, OnlyEditsRetarget
=============================================================================
