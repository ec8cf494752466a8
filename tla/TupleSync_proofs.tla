------------------------- MODULE TupleSync_proofs --------------------------
(***************************************************************************)
(* What TLC checks of TupleSync on a small instance, proved for every set  *)
(* of connections, rules, admins, events, deliveries, tuples and models.   *)
(***************************************************************************)
EXTENDS TupleSync, FiniteSetTheorems, TLAPS

USE IdpAssumption

-----------------------------------------------------------------------------
(* The configuration.                                                      *)

(* An edit in progress is of a rule that once existed, and a rule stays with
   its connection: this is why an edit that finds no connection is lost. *)
EditsHaveRules ==
  \A a \in Editor :
    /\ editor[a].at \in {"owner", "update"} => rules[editor[a].rule] # None
    /\ editor[a].at = "owner" /\ editor[a].rule \in Stored =>
         rules[editor[a].rule].connection = editor[a].was.connection

ConfigInv ==
  ConfigTypeOK /\ RulesAreOwned /\ EditsHaveRules /\ UncheckedEditsAreLost

(* No edit, whatever it races with, breaks the configuration's invariant. *)
LEMMA ConfigInvariance ==
  ConfigInv /\ (ConfigStep \/ UNCHANGED configVars) => ConfigInv'
<1> SUFFICES ASSUME ConfigInv, ConfigStep \/ UNCHANGED configVars
             PROVE  ConfigInv'
  OBVIOUS
<1> USE DEF ConfigInv, ConfigTypeOK, RulesAreOwned, EditsHaveRules,
            UncheckedEditsAreLost, EditorState, Idle, Stored, Connected
<1>1. ASSUME NEW c \in Connection, NEW row \in ConnectionRow,
             CreateConnection(c, row) \/ UpdateConnection(c, row)
      PROVE  ConfigInv'
  BY <1>1 DEF CreateConnection, UpdateConnection
<1>2. ASSUME NEW c \in Connection, DeleteConnection(c)
      PROVE  ConfigInv'
  BY <1>2 DEF DeleteConnection
<1>3. ASSUME NEW a \in Editor, NEW row \in RuleRow, BeginCreateRule(a, row)
      PROVE  ConfigInv'
  BY <1>3 DEF BeginCreateRule
<1>4. ASSUME NEW a \in Editor, NEW r \in Rule, CreateRule(a, r)
      PROVE  ConfigInv'
  BY <1>4 DEF CreateRule
<1>5. ASSUME NEW a \in Editor,
             \/ CreateRuleRefused(a) \/ MergedRefused(a) \/ UpdateRuleGone(a)
      PROVE  ConfigInv'
  BY <1>5 DEF CreateRuleRefused, MergedRefused, UpdateRuleGone, Refuse
<1>6. ASSUME NEW a \in Editor, NEW r \in Rule, NEW patch \in RulePatch,
             BeginUpdateRule(a, r, patch)
      PROVE  ConfigInv'
  BY <1>6 DEF BeginUpdateRule
<1>7. ASSUME NEW a \in Editor, CheckMerged(a)
      PROVE  ConfigInv'
  <2> DEFINE c == editor[a].was.connection
             next == [at |-> "update", rule |-> editor[a].rule,
                      patch |-> editor[a].patch, checked |-> c \in Connected]
  <2>1. /\ editor[a] \in [at : {"owner"}, rule : Rule, was : RuleRow, patch : RulePatch]
        /\ editor[a].rule \in Rule /\ editor[a].patch \in RulePatch
    BY <1>7 DEF CheckMerged
  <2>2. next \in [at : {"update"}, rule : Rule, patch : RulePatch, checked : BOOLEAN]
    BY <2>1
  <2>3. editor' = [editor EXCEPT ![a] = next] /\ UNCHANGED <<connections, rules>>
    BY <1>7 DEF CheckMerged
  <2>4. c \notin Connected => editor[a].rule \notin Stored
    BY <1>7, <2>1 DEF CheckMerged
  <2>5. rules[editor[a].rule] # None
    BY <1>7, <2>1 DEF CheckMerged
  <2>6. ConfigTypeOK'
    BY <2>2, <2>3
  <2>7. EditsHaveRules'
    BY <2>3, <2>5, <2>1
  <2>8. UncheckedEditsAreLost'
    BY <2>3, <2>4, <2>1
  <2> QED
    BY <2>3, <2>6, <2>7, <2>8
<1>8. ASSUME NEW a \in Editor, UpdateRule(a)
      PROVE  ConfigInv'
  <2> DEFINE r == editor[a].rule
             patch == editor[a].patch
  <2>1. editor[a] \in [at : {"update"}, rule : Rule, patch : RulePatch, checked : BOOLEAN]
    BY <1>8 DEF UpdateRule
  <2>2. r \in Stored /\ rules[r] \in RuleRow
    BY <1>8, <2>1 DEF UpdateRule
  <2>3. PICK row \in RuleRow : /\ row.connection = rules[r].connection
                              /\ rules' = [rules EXCEPT ![r] = row]
    <3> DEFINE row == [rules[r] EXCEPT !.template = Merge(@, patch.template),
                                       !.fanOut = Merge(@, patch.fanOut),
                                       !.op = Merge(@, patch.op),
                                       !.priority = Merge(@, patch.priority)]
    <3>1. row \in RuleRow
      BY <2>1, <2>2 DEF Merge, RulePatch, RuleRow
    <3>2. row.connection = rules[r].connection
      BY <2>2 DEF RuleRow
    <3>3. rules' = [rules EXCEPT ![r] = row]
      BY <1>8, <2>2, <2>1 DEF UpdateRule, RuleRow
    <3> QED
      BY <3>1, <3>2, <3>3
  <2>4. editor' = [editor EXCEPT ![a] = Idle] /\ UNCHANGED connections
    BY <1>8 DEF UpdateRule
  <2> HIDE DEF r, patch
  <2>5. r \in Rule
    BY <2>1 DEF r
  <2> QED
    BY <2>2, <2>3, <2>4, <2>5
<1>9. ASSUME NEW r \in Rule, DeleteRule(r)
      PROVE  ConfigInv'
  BY <1>9 DEF DeleteRule
<1>10. CASE UNCHANGED configVars
  BY <1>10 DEF configVars
<1> QED
  BY <1>1, <1>2, <1>3, <1>4, <1>5, <1>6, <1>7, <1>8, <1>9, <1>10 DEF ConfigStep

-----------------------------------------------------------------------------
(* The traffic.                                                            *)

(* A delivery in progress is of an event the IdP sent, has nothing to do before
   it has read the rules, and waits for the record of a change. *)
DeliveriesFit ==
  /\ delivery \in [Delivery -> [at : {"idle", "rules", "apply", "record"},
                                event : Event \cup {None}, todo : SUBSET Effect,
                                made : Change \cup {None}]]
  /\ \A d \in Delivery :
       /\ delivery[d].at # "idle" => delivery[d].event \in sent
       /\ delivery[d].at \notin {"apply", "record"} => delivery[d].todo = {}
       /\ delivery[d].at = "record" => delivery[d].made \in Change

(* A grant or revoke in progress is of a tuple that the published model it
   pinned allows. *)
InProgress ==
  /\ DeliveriesFit
  /\ \A q \in Request : request[q].at # "idle" =>
       /\ request[q].tuple \in Tuple
       /\ request[q].pin \in published
       /\ request[q].tuple \in Accepts[request[q].pin]

(* The pointer leads to a published version. *)
PointerFollows == current = None \/ current \in published

IInv ==
  /\ TypeOK /\ ConfigInv /\ PointerFollows /\ InProgress
  /\ GrantsFitPublished /\ RecordsAreChanges

(* The rules of a provider give well-formed effects of an event. *)
LEMMA EffectsAreTyped ==
  ASSUME ConfigTypeOK, NEW e \in Event
  PROVE  EffectsOf(e) \subseteq Effect
<1> DEFINE Matching == {r \in RulesOf(From[e]) : rules[r].template \in Applicable[e]}
           Gives(r, i) == [rule |-> r, priority |-> rules[r].priority, op |-> rules[r].op,
                           tuple |-> Render[<<e, rules[r].template, i>>]]
           Of(r) == {Gives(r, i) : i \in Items(e, r)}
<1>1. ASSUME NEW r \in Matching, NEW i \in Items(e, r)
      PROVE  Gives(r, i) \in Effect
  <2>1. r \in Rule /\ rules[r] \in RuleRow
    BY DEF ConfigTypeOK, Stored, RulesOf
  <2>2. i \in Item \cup {None}
    BY <2>1, SyncAssumption DEF Items, RuleRow, FanOut
  <2>3. Render[<<e, rules[r].template, i>>] \in Tuple \cup {None}
    BY <2>1, <2>2, SyncAssumption DEF RuleRow
  <2> QED
    BY <2>1, <2>3 DEF RuleRow, Effect
<1>2. EffectsOf(e) = UNION {Of(r) : r \in Matching}
  BY ZenonT(20) DEF EffectsOf
<1> HIDE DEF Gives, Matching
<1>3. \A r \in Matching : Of(r) \subseteq Effect
  BY <1>1
<1> HIDE DEF Of
<1> QED
  BY <1>2, <1>3

-----------------------------------------------------------------------------
(* The count of the records.                                               *)

One(x, S) == IF x \in S THEN 1 ELSE 0

(* Two sets that agree but for one element. *)
LEMMA OneApart ==
  ASSUME NEW S, NEW T, NEW x, IsFiniteSet(S), S \ {x} = T \ {x}
  PROVE  /\ Cardinality(S) \in Int
         /\ Cardinality(T) = Cardinality(S) + One(x, T) - One(x, S)
<1> DEFINE O == S \ {x}
<1>1. IsFiniteSet(O) /\ x \notin O
  BY FS_Subset
<1>2. Cardinality(O) \in Nat /\ Cardinality(O \cup {x}) = Cardinality(O) + 1
  BY <1>1, FS_CardinalityType, FS_AddElement
<1>3. ASSUME NEW Z, Z \ {x} = O
      PROVE  Cardinality(Z) = Cardinality(O) + One(x, Z)
  <2>1. CASE x \in Z
    <3>1. Z = O \cup {x}
      BY <1>3, <2>1
    <3>2. One(x, Z) = 1
      BY <2>1 DEF One
    <3> HIDE DEF O
    <3> QED
      BY <1>2, <3>1, <3>2
  <2>2. CASE x \notin Z
    <3>1. Z = O
      BY <1>3, <2>2
    <3>2. One(x, Z) = 0
      BY <2>2 DEF One
    <3> HIDE DEF O
    <3> QED
      BY <1>2, <3>1, <3>2
  <2> QED
    BY <2>1, <2>2
<1>4. S \ {x} = O /\ T \ {x} = O
  OBVIOUS
<1> HIDE DEF O
<1>5. Cardinality(S) = Cardinality(O) + One(x, S)
  BY <1>3, <1>4
<1>6. Cardinality(T) = Cardinality(O) + One(x, T)
  BY <1>3, <1>4
<1>7. One(x, S) \in Int /\ One(x, T) \in Int
  BY DEF One
<1> QED
  BY <1>2, <1>5, <1>6, <1>7

LEMMA AwaitedIsFinite ==
  ASSUME NEW op, NEW t
  PROVE  /\ IsFiniteSet(DeliveriesAwaiting(op, t)) /\ IsFiniteSet(RequestsAwaiting(op, t))
         /\ Awaited(op, t) \in Int
BY SyncAssumption, FS_Subset, FS_CardinalityType
DEF DeliveriesAwaiting, RequestsAwaiting, Awaited

Mine(o, u, op, t) == IF o = op /\ u = t THEN 1 ELSE 0

AwaitedStay == \A o \in Op, u \in Tuple : Awaited(o, u)' = Awaited(o, u)
AwaitedGrow(op, t) ==
  \A o \in Op, u \in Tuple : Awaited(o, u)' = Awaited(o, u) + Mine(o, u, op, t)
AwaitedShrink(op, t) ==
  \A o \in Op, u \in Tuple : Awaited(o, u)' = Awaited(o, u) - Mine(o, u, op, t)

(* What the move of one delivery does to the records awaited. *)
LEMMA DeliveryAwaits ==
  ASSUME NEW d \in Delivery, \A e \in Delivery \ {d} : delivery'[e] = delivery[e],
         UNCHANGED request, NEW o \in Op, NEW u \in Tuple
  PROVE  Awaited(o, u)' = Awaited(o, u) + One(d, DeliveriesAwaiting(o, u)')
                                        - One(d, DeliveriesAwaiting(o, u))
<1> DEFINE S == DeliveriesAwaiting(o, u)
           T == DeliveriesAwaiting(o, u)'
           R == RequestsAwaiting(o, u)
<1>1. S \ {d} = T \ {d}
  BY DEF DeliveriesAwaiting
<1>2. RequestsAwaiting(o, u)' = R
  BY DEF RequestsAwaiting
<1>3. IsFiniteSet(S) /\ Cardinality(R) \in Int
  BY AwaitedIsFinite, FS_CardinalityType
<1>4. /\ Awaited(o, u) = Cardinality(S) + Cardinality(R)
      /\ Awaited(o, u)' = Cardinality(T) + Cardinality(R)
  BY <1>2 DEF Awaited
<1> HIDE DEF S, T, R
<1>5. Cardinality(S) \in Int /\ Cardinality(T) = Cardinality(S) + One(d, T) - One(d, S)
  BY <1>1, <1>3, OneApart
<1>6. One(d, T) \in Int /\ One(d, S) \in Int
  BY DEF One
<1>7. Awaited(o, u)' = Awaited(o, u) + One(d, T) - One(d, S)
  BY <1>3, <1>4, <1>5, <1>6
<1> QED
  BY <1>7 DEF S, T

LEMMA DeliveryMoves ==
  ASSUME NEW d \in Delivery, \A e \in Delivery \ {d} : delivery'[e] = delivery[e],
         UNCHANGED request
  PROVE  /\ delivery[d].at # "record" /\ delivery'[d].at # "record" => AwaitedStay
         /\ \A op \in Op, t \in Tuple :
              LET c == [op |-> op, tuple |-> t] IN
              /\ /\ delivery[d].at # "record"
                 /\ delivery'[d].at = "record" /\ delivery'[d].made = c
                 => AwaitedGrow(op, t)
              /\ /\ delivery[d].at = "record" /\ delivery[d].made = c
                 /\ delivery'[d].at # "record"
                 => AwaitedShrink(op, t)
<1>1. ASSUME delivery[d].at # "record", delivery'[d].at # "record"
      PROVE  AwaitedStay
  <2> SUFFICES ASSUME NEW o \in Op, NEW u \in Tuple
               PROVE  Awaited(o, u)' = Awaited(o, u)
    BY DEF AwaitedStay
  <2>1. One(d, DeliveriesAwaiting(o, u)) = 0 /\ One(d, DeliveriesAwaiting(o, u)') = 0
    BY <1>1 DEF One, DeliveriesAwaiting
  <2> QED
    BY <2>1, DeliveryAwaits, AwaitedIsFinite
<1>2. ASSUME NEW op \in Op, NEW t \in Tuple, delivery[d].at # "record",
             delivery'[d].at = "record", delivery'[d].made = [op |-> op, tuple |-> t]
      PROVE  AwaitedGrow(op, t)
  <2> SUFFICES ASSUME NEW o \in Op, NEW u \in Tuple
               PROVE  Awaited(o, u)' = Awaited(o, u) + Mine(o, u, op, t)
    BY DEF AwaitedGrow
  <2>1. One(d, DeliveriesAwaiting(o, u)) = 0
    BY <1>2 DEF One, DeliveriesAwaiting
  <2>2. One(d, DeliveriesAwaiting(o, u)') = Mine(o, u, op, t)
    BY <1>2 DEF One, DeliveriesAwaiting, Mine
  <2> QED
    BY <2>1, <2>2, DeliveryAwaits, AwaitedIsFinite DEF Mine
<1>3. ASSUME NEW op \in Op, NEW t \in Tuple, delivery[d].at = "record",
             delivery[d].made = [op |-> op, tuple |-> t], delivery'[d].at # "record"
      PROVE  AwaitedShrink(op, t)
  <2> SUFFICES ASSUME NEW o \in Op, NEW u \in Tuple
               PROVE  Awaited(o, u)' = Awaited(o, u) - Mine(o, u, op, t)
    BY DEF AwaitedShrink
  <2>1. One(d, DeliveriesAwaiting(o, u)') = 0
    BY <1>3 DEF One, DeliveriesAwaiting
  <2>2. One(d, DeliveriesAwaiting(o, u)) = Mine(o, u, op, t)
    BY <1>3 DEF One, DeliveriesAwaiting, Mine
  <2> QED
    BY <2>1, <2>2, DeliveryAwaits, AwaitedIsFinite DEF Mine
<1> QED
  BY <1>1, <1>2, <1>3

(* The same of one request. *)
LEMMA RequestAwaits ==
  ASSUME NEW q \in Request, \A p \in Request \ {q} : request'[p] = request[p],
         UNCHANGED delivery, NEW o \in Op, NEW u \in Tuple
  PROVE  Awaited(o, u)' = Awaited(o, u) + One(q, RequestsAwaiting(o, u)')
                                        - One(q, RequestsAwaiting(o, u))
<1> DEFINE S == RequestsAwaiting(o, u)
           T == RequestsAwaiting(o, u)'
           R == DeliveriesAwaiting(o, u)
<1>1. S \ {q} = T \ {q}
  BY DEF RequestsAwaiting
<1>2. DeliveriesAwaiting(o, u)' = R
  BY DEF DeliveriesAwaiting
<1>3. IsFiniteSet(S) /\ Cardinality(R) \in Int
  BY AwaitedIsFinite, FS_CardinalityType
<1>4. /\ Awaited(o, u) = Cardinality(R) + Cardinality(S)
      /\ Awaited(o, u)' = Cardinality(R) + Cardinality(T)
  BY <1>2 DEF Awaited
<1> HIDE DEF S, T, R
<1>5. Cardinality(S) \in Int /\ Cardinality(T) = Cardinality(S) + One(q, T) - One(q, S)
  BY <1>1, <1>3, OneApart
<1>6. One(q, T) \in Int /\ One(q, S) \in Int
  BY DEF One
<1>7. Awaited(o, u)' = Awaited(o, u) + One(q, T) - One(q, S)
  BY <1>3, <1>4, <1>5, <1>6
<1> QED
  BY <1>7 DEF S, T

LEMMA RequestMoves ==
  ASSUME NEW q \in Request, \A p \in Request \ {q} : request'[p] = request[p],
         UNCHANGED delivery
  PROVE  /\ request[q].at # "record" /\ request'[q].at # "record" => AwaitedStay
         /\ \A op \in Op, t \in Tuple :
              /\ /\ request[q].at # "record" /\ request'[q].at = "record"
                 /\ request'[q].op = op /\ request'[q].tuple = t
                 => AwaitedGrow(op, t)
              /\ /\ request[q].at = "record" /\ request'[q].at # "record"
                 /\ request[q].op = op /\ request[q].tuple = t
                 => AwaitedShrink(op, t)
<1>1. ASSUME request[q].at # "record", request'[q].at # "record"
      PROVE  AwaitedStay
  <2> SUFFICES ASSUME NEW o \in Op, NEW u \in Tuple
               PROVE  Awaited(o, u)' = Awaited(o, u)
    BY DEF AwaitedStay
  <2>1. One(q, RequestsAwaiting(o, u)) = 0 /\ One(q, RequestsAwaiting(o, u)') = 0
    BY <1>1 DEF One, RequestsAwaiting
  <2> QED
    BY <2>1, RequestAwaits, AwaitedIsFinite
<1>2. ASSUME NEW op \in Op, NEW t \in Tuple, request[q].at # "record",
             request'[q].at = "record", request'[q].op = op, request'[q].tuple = t
      PROVE  AwaitedGrow(op, t)
  <2> SUFFICES ASSUME NEW o \in Op, NEW u \in Tuple
               PROVE  Awaited(o, u)' = Awaited(o, u) + Mine(o, u, op, t)
    BY DEF AwaitedGrow
  <2>1. One(q, RequestsAwaiting(o, u)) = 0
    BY <1>2 DEF One, RequestsAwaiting
  <2>2. One(q, RequestsAwaiting(o, u)') = Mine(o, u, op, t)
    BY <1>2 DEF One, RequestsAwaiting, Mine
  <2> QED
    BY <2>1, <2>2, RequestAwaits, AwaitedIsFinite DEF Mine
<1>3. ASSUME NEW op \in Op, NEW t \in Tuple, request[q].at = "record",
             request[q].op = op, request[q].tuple = t, request'[q].at # "record"
      PROVE  AwaitedShrink(op, t)
  <2> SUFFICES ASSUME NEW o \in Op, NEW u \in Tuple
               PROVE  Awaited(o, u)' = Awaited(o, u) - Mine(o, u, op, t)
    BY DEF AwaitedShrink
  <2>1. One(q, RequestsAwaiting(o, u)') = 0
    BY <1>3 DEF One, RequestsAwaiting
  <2>2. One(q, RequestsAwaiting(o, u)) = Mine(o, u, op, t)
    BY <1>3 DEF One, RequestsAwaiting, Mine
  <2> QED
    BY <2>1, <2>2, RequestAwaits, AwaitedIsFinite DEF Mine
<1> QED
  BY <1>1, <1>2, <1>3

(* The trail goes on accounting for the tuples in each of the ways a step may
   touch it: not at all, *)
LEMMA QuietBalances ==
  ASSUME RecordsAreChanges, AwaitedStay, UNCHANGED <<tuples, trail>>
  PROVE  RecordsAreChanges'
BY DEF RecordsAreChanges, AwaitedStay, Op

(* by a call that failed on the way, *)
LEMMA LostBalances ==
  ASSUME RecordsAreChanges, AwaitedStay, NEW op, NEW t \in Tuple, NEW m, NEW who,
         MayHaveChanged(who, op, t, m)
  PROVE  RecordsAreChanges'
<1>1. tuples' \in {tuples, After(op, t)}
  BY DEF MayHaveChanged, Ambiguous
<1>2. \A u \in Tuple : trail'[u] # None =>
        trail'[u] = trail[u] /\ (tuples' = tuples \/ u # t)
  BY DEF MayHaveChanged, Unrecorded
<1>3. \A u \in Tuple : trail'[u] # None => (u \in tuples' <=> u \in tuples)
  BY <1>1, <1>2 DEF After
<1> QED
  BY <1>2, <1>3 DEF RecordsAreChanges, AwaitedStay, Op

(* by a change that waits for its record, *)
LEMMA ChangeBalances ==
  ASSUME RecordsAreChanges, trail \in [Tuple -> Int \cup {None}],
         NEW op \in Op, NEW t \in Tuple, NEW m,
         Answer(op, t, m) = "ok", tuples' = After(op, t), AwaitedGrow(op, t),
         UNCHANGED trail
  PROVE  RecordsAreChanges'
<1> SUFFICES ASSUME NEW u \in Tuple, trail[u] # None
             PROVE  trail[u] + Awaited("write", u)' - Awaited("delete", u)'
                      = IF u \in tuples' THEN 1 ELSE 0
  BY DEF RecordsAreChanges
<1>1. trail[u] \in Int /\ Awaited("write", u) \in Int /\ Awaited("delete", u) \in Int
  BY AwaitedIsFinite
<1>2. trail[u] + Awaited("write", u) - Awaited("delete", u) = IF u \in tuples THEN 1 ELSE 0
  BY DEF RecordsAreChanges
<1>3. /\ Awaited("write", u)' = Awaited("write", u) + Mine("write", u, op, t)
      /\ Awaited("delete", u)' = Awaited("delete", u) + Mine("delete", u, op, t)
  BY DEF AwaitedGrow, Op
<1>4. (op = "write" => t \notin tuples) /\ (op = "delete" => t \in tuples)
  BY DEF Answer, Verdict
<1>5. (IF u \in tuples' THEN 1 ELSE 0)
        = (IF u \in tuples THEN 1 ELSE 0) + Mine("write", u, op, t) - Mine("delete", u, op, t)
  BY <1>4 DEF After, Mine, Op
<1>6. Mine("write", u, op, t) \in Int /\ Mine("delete", u, op, t) \in Int
  BY DEF Mine
<1> QED
  BY <1>1, <1>2, <1>3, <1>5, <1>6

(* or by the record of such a change. *)
LEMMA RecordBalances ==
  ASSUME RecordsAreChanges, trail \in [Tuple -> Int \cup {None}],
         NEW op \in Op, NEW t \in Tuple, Record(op, t), AwaitedShrink(op, t),
         UNCHANGED tuples
  PROVE  RecordsAreChanges' /\ trail' \in [Tuple -> Int \cup {None}]
<1>0. Weight(op) \in Int
  BY DEF Weight
<1>1. trail' \in [Tuple -> Int \cup {None}]
  BY <1>0 DEF Record
<1> SUFFICES ASSUME NEW u \in Tuple, trail'[u] # None
             PROVE  trail'[u] + Awaited("write", u)' - Awaited("delete", u)'
                      = IF u \in tuples THEN 1 ELSE 0
  BY <1>1 DEF RecordsAreChanges
<1>2. /\ trail[u] \in Int /\ trail[u] # None
      /\ trail'[u] = trail[u] + IF u = t THEN Weight(op) ELSE 0
  BY <1>0 DEF Record
<1>3. trail[u] + Awaited("write", u) - Awaited("delete", u) = IF u \in tuples THEN 1 ELSE 0
  BY <1>2 DEF RecordsAreChanges
<1>4. /\ Awaited("write", u)' = Awaited("write", u) - Mine("write", u, op, t)
      /\ Awaited("delete", u)' = Awaited("delete", u) - Mine("delete", u, op, t)
  BY DEF AwaitedShrink, Op
<1>5. (IF u = t THEN Weight(op) ELSE 0) = Mine("write", u, op, t) - Mine("delete", u, op, t)
  BY DEF Weight, Mine, Op
<1>6. /\ Mine("write", u, op, t) \in Int /\ Mine("delete", u, op, t) \in Int
      /\ Awaited("write", u) \in Int /\ Awaited("delete", u) \in Int
  BY AwaitedIsFinite DEF Mine
<1> QED
  BY <1>2, <1>3, <1>4, <1>5, <1>6

(* A restart leaves nothing awaited, and of what was awaited no account. *)
LEMMA RestartBalances ==
  ASSUME RecordsAreChanges, trail \in [Tuple -> Int \cup {None}], Restart
  PROVE  RecordsAreChanges' /\ trail' \in [Tuple -> Int \cup {None}]
<1>1. \A t \in Tuple : trail'[t] # None =>
        /\ trail'[t] = trail[t]
        /\ \A op \in Op : DeliveriesAwaiting(op, t) = {} /\ RequestsAwaiting(op, t) = {}
  BY DEF Restart, Unrecorded
<1>2. \A op \in Op, t \in Tuple :
        DeliveriesAwaiting(op, t)' = {} /\ RequestsAwaiting(op, t)' = {}
  BY DEF Restart, DeliveriesAwaiting, RequestsAwaiting, NoDelivery, NoRequest
<1>3. \A op \in Op, t \in Tuple : Awaited(op, t)' = Cardinality({}) + Cardinality({})
  BY <1>2 DEF Awaited
<1>4. \A op \in Op, t \in Tuple : trail'[t] # None => Awaited(op, t) = Awaited(op, t)'
  BY <1>1, <1>3 DEF Awaited
<1>5. tuples' = tuples
  BY DEF Restart
<1>6. trail' \in [Tuple -> Int \cup {None}]
  BY DEF Restart, Unrecorded
<1> QED
  BY <1>1, <1>4, <1>5, <1>6 DEF RecordsAreChanges, Op

(* The quiet steps: those of one delivery, of one request, and all others. *)
LEMMA DeliveryQuiet ==
  ASSUME RecordsAreChanges, NEW d \in Delivery,
         \A e \in Delivery \ {d} : delivery'[e] = delivery[e],
         delivery[d].at # "record", delivery'[d].at # "record",
         UNCHANGED <<request, tuples, trail>>
  PROVE  RecordsAreChanges'
BY DeliveryMoves, QuietBalances

LEMMA RequestQuiet ==
  ASSUME RecordsAreChanges, NEW q \in Request,
         \A p \in Request \ {q} : request'[p] = request[p],
         request[q].at # "record", request'[q].at # "record",
         UNCHANGED <<delivery, tuples, trail>>
  PROVE  RecordsAreChanges'
BY RequestMoves, QuietBalances

LEMMA OthersQuiet ==
  RecordsAreChanges /\ UNCHANGED <<delivery, request, tuples, trail>> => RecordsAreChanges'
<1> SUFFICES ASSUME RecordsAreChanges, UNCHANGED <<delivery, request, tuples, trail>>
             PROVE  RecordsAreChanges'
  OBVIOUS
<1>1. AwaitedStay
  BY DEF AwaitedStay, Awaited, DeliveriesAwaiting, RequestsAwaiting
<1> QED
  BY <1>1, QuietBalances

-----------------------------------------------------------------------------
(* Nothing is there at the start. *)
LEMMA Initial == Init => IInv
<1> SUFFICES ASSUME Init PROVE IInv
  OBVIOUS
<1>1. ConfigInv
  BY DEF Init, ConfigInit, ConfigInv, ConfigTypeOK, RulesAreOwned, EditsHaveRules,
         UncheckedEditsAreLost, EditorState, Idle, Stored
<1>2. TypeOK
  <2>1. delivery \in [Delivery -> [at : {"idle", "rules", "apply", "record"},
                                   event : Event \cup {None}, todo : SUBSET Effect,
                                   made : Change \cup {None}]]
    BY DEF Init, NoDelivery
  <2>2. request \in [Request -> [at : {"idle", "write", "record"}, op : Op,
                                 tuple : Tuple \cup {None}, pin : Model \cup {None}]]
    BY DEF Init, NoRequest, Op
  <2>3. trail \in [Tuple -> Int \cup {None}] /\ author \in [Tuple -> {"idp", "admin", None}]
    BY DEF Init
  <2> QED
    BY <1>1, <2>1, <2>2, <2>3 DEF Init, TypeOK, ConfigInv, P!ModelInit
<1>3. InProgress /\ PointerFollows
  BY DEF Init, InProgress, DeliveriesFit, NoDelivery, NoRequest, PointerFollows, P!ModelInit
<1>4. GrantsFitPublished
  BY DEF Init, GrantsFitPublished
<1>5. RecordsAreChanges
  <2>1. \A op \in Op, t \in Tuple :
          DeliveriesAwaiting(op, t) = {} /\ RequestsAwaiting(op, t) = {}
    BY DEF Init, DeliveriesAwaiting, RequestsAwaiting, NoDelivery, NoRequest
  <2>2. Cardinality({}) = 0
    BY FS_EmptySet
  <2>3. ASSUME NEW t \in Tuple
        PROVE  /\ Awaited("write", t) = 0 /\ Awaited("delete", t) = 0
               /\ trail[t] = 0 /\ t \notin tuples
    <3>1. ASSUME NEW op \in Op PROVE Awaited(op, t) = Cardinality({}) + Cardinality({})
      <4>1. DeliveriesAwaiting(op, t) = {} /\ RequestsAwaiting(op, t) = {}
        BY <2>1
      <4> QED
        BY ONLY <4>1 DEF Awaited
    <3>2. "write" \in Op /\ "delete" \in Op
      BY DEF Op
    <3>3. \A op \in Op : Awaited(op, t) = 0
      BY ONLY <3>1, <2>2
    <3>4. trail[t] = 0 /\ t \notin tuples
      BY DEF Init
    <3> QED
      BY ONLY <3>2, <3>3, <3>4
  <2> QED
    BY ONLY <2>3 DEF RecordsAreChanges
<1> QED
  BY <1>1, <1>2, <1>3, <1>4, <1>5 DEF IInv

(* A tuple that someone else than an admin changes, or an admin changes in the
   way a published model allows, leaves every granted tuple with a model. *)
LEMMA ChangesFit ==
  ASSUME TypeOK, GrantsFitPublished, NEW who \in {"idp", "admin"}, NEW t \in Tuple,
         NEW op \in Op, tuples' \in {tuples, After(op, t)}, ChangedBy(who, t),
         who = "admin" => \E m \in published : t \in Accepts[m],
         published' = published
  PROVE  /\ GrantsFitPublished'
         /\ tuples' \subseteq Tuple
         /\ author' \in [Tuple -> {"idp", "admin", None}]
<1>1. tuples' \subseteq Tuple /\ author' \in [Tuple -> {"idp", "admin", None}]
  BY DEF TypeOK, After, ChangedBy
<1>2. CASE tuples' = tuples
  BY <1>1, <1>2 DEF GrantsFitPublished, ChangedBy
<1>3. CASE tuples' # tuples
  <2>1. author' = [author EXCEPT ![t] = who]
    BY <1>3 DEF ChangedBy
  <2>2. \A u \in tuples' : u # t => u \in tuples /\ author'[u] = author[u]
    BY <2>1, <1>1, <1>3 DEF After, TypeOK
  <2>3. author'[t] = who
    BY <2>1 DEF TypeOK
  <2> QED
    BY <1>1, <2>2, <2>3 DEF GrantsFitPublished
<1> QED
  BY <1>1, <1>2, <1>3

(* The same for what a call that fails on the way may leave behind. *)
LEMMA AmbiguityIsBounded ==
  ASSUME NEW op, NEW t, NEW m, tuples' \in Ambiguous(op, t, m)
  PROVE  tuples' \in {tuples, After(op, t)}
BY DEF Ambiguous

(* What a step of the webhook on one effect knows of it. *)
LEMMA DueEffects ==
  ASSUME TypeOK, NEW d \in Delivery, NEW k \in Due(d)
  PROVE  k \in Effect /\ k \in delivery[d].todo /\ k.op \in Op /\ k.tuple \in Tuple \cup {None}
BY DEF TypeOK, Due, Effect

(* A delivery that begins. *)
LEMMA Begun ==
  ASSUME DeliveriesFit, RecordsAreChanges, NEW d \in Delivery, NEW e \in Event, Deliver(d, e)
  PROVE  DeliveriesFit' /\ RecordsAreChanges'
<1>1. /\ e \in sent /\ sent' = sent /\ delivery[d].at = "idle"
      /\ delivery' = [delivery EXCEPT ![d] =
                        [at |-> "rules", event |-> e, todo |-> {}, made |-> None]]
      /\ UNCHANGED <<request, tuples, trail>>
  BY DEF Deliver, tupleVars
<1>2. delivery'[d].at = "rules" /\ \A dd \in Delivery \ {d} : delivery'[dd] = delivery[dd]
  BY <1>1 DEF DeliveriesFit
<1> QED
  BY <1>1, <1>2, DeliveryQuiet DEF DeliveriesFit

(* A delivery that has read the rules. *)
LEMMA DeliveryTo ==
  ASSUME DeliveriesFit, RecordsAreChanges, NEW d \in Delivery, delivery[d].at = "rules",
         NEW todo \in SUBSET Effect, sent' = sent,
         delivery' = [delivery EXCEPT ![d].at = "apply", ![d].todo = todo],
         UNCHANGED <<request, tuples, trail>>
  PROVE  DeliveriesFit' /\ RecordsAreChanges'
<1>1. delivery'[d] = [at |-> "apply", event |-> delivery[d].event, todo |-> todo,
                      made |-> delivery[d].made]
  BY DEF DeliveriesFit
<1>2. \A dd \in Delivery \ {d} : delivery'[dd] = delivery[dd]
  BY DEF DeliveriesFit
<1> QED
  BY <1>1, <1>2, DeliveryQuiet DEF DeliveriesFit

(* A delivery that is done with one effect, which changed nothing. *)
LEMMA Dropped ==
  ASSUME DeliveriesFit, RecordsAreChanges, NEW d \in Delivery, delivery[d].at = "apply",
         NEW k, Drop(d, k), sent' = sent, UNCHANGED <<request, tuples, trail>>
  PROVE  DeliveriesFit' /\ RecordsAreChanges'
<1>1. /\ delivery'[d].at = "apply" /\ delivery'[d].event = delivery[d].event
      /\ delivery'[d].todo = delivery[d].todo \ {k}
      /\ delivery' \in [Delivery -> [at : {"idle", "rules", "apply", "record"},
                                    event : Event \cup {None}, todo : SUBSET Effect,
                                    made : Change \cup {None}]]
  BY DEF DeliveriesFit, Drop
<1>2. \A dd \in Delivery \ {d} : delivery'[dd] = delivery[dd]
  BY DEF DeliveriesFit, Drop
<1> QED
  BY <1>1, <1>2, DeliveryQuiet DEF DeliveriesFit

(* A delivery that has made a change. *)
LEMMA HasMade ==
  ASSUME DeliveriesFit, NEW d \in Delivery, delivery[d].at = "apply",
         NEW k, k.op \in Op, k.tuple \in Tuple, Made(d, k), sent' = sent, UNCHANGED request
  PROVE  DeliveriesFit' /\ AwaitedGrow(k.op, k.tuple)
<1> DEFINE c == [op |-> k.op, tuple |-> k.tuple]
<1>1. /\ c \in Change
      /\ delivery' = [delivery EXCEPT ![d].at = "record", ![d].todo = @ \ {k}, ![d].made = c]
  BY DEF Made, Change
<1>2. /\ delivery'[d].at = "record" /\ delivery'[d].event = delivery[d].event
      /\ delivery'[d].made = c
      /\ \A dd \in Delivery \ {d} : delivery'[dd] = delivery[dd]
      /\ delivery' \in [Delivery -> [at : {"idle", "rules", "apply", "record"},
                                    event : Event \cup {None}, todo : SUBSET Effect,
                                    made : Change \cup {None}]]
  <2> DEFINE was == delivery[d]
             now == [was EXCEPT !.at = "record", !.todo = @ \ {k}, !.made = c]
             Row == [at : {"idle", "rules", "apply", "record"}, event : Event \cup {None},
                     todo : SUBSET Effect, made : Change \cup {None}]
  <2>1. delivery \in [Delivery -> Row] /\ was \in Row
    BY DEF DeliveriesFit
  <2>2. now \in Row /\ now.at = "record" /\ now.event = was.event /\ now.made = c
    <3> HIDE DEF c, was
    <3> QED
      BY ONLY <1>1, <2>1
  <2>3. delivery' = [delivery EXCEPT ![d] = now]
    BY ONLY <1>1, <2>1
  <2> HIDE DEF c, now, Row
  <2>4. delivery'[d] = now
    BY <2>1, <2>3
  <2>5. delivery' \in [Delivery -> Row] /\ \A dd \in Delivery \ {d} : delivery'[dd] = delivery[dd]
    BY <2>1, <2>2, <2>3
  <2> QED
    BY <2>2, <2>4, <2>5 DEF Row
<1>3. DeliveriesFit'
  BY <1>1, <1>2 DEF DeliveriesFit
<1>4. delivery'[d].at = "record" /\ delivery'[d].made = [op |-> k.op, tuple |-> k.tuple]
  BY <1>2
<1> QED
  BY <1>2, <1>3, <1>4, DeliveryMoves

(* A delivery that has recorded its change. *)
LEMMA HasRecorded ==
  ASSUME DeliveriesFit, NEW d \in Delivery, RecordApplied(d)
  PROVE  /\ DeliveriesFit'
         /\ delivery[d].made.op \in Op /\ delivery[d].made.tuple \in Tuple
         /\ AwaitedShrink(delivery[d].made.op, delivery[d].made.tuple)
<1>1. /\ delivery[d].at = "record" /\ UNCHANGED <<sent, request>>
      /\ delivery' = [delivery EXCEPT ![d].at = "apply", ![d].made = None]
  BY DEF RecordApplied
<1>2. /\ delivery'[d].at = "apply" /\ delivery'[d].event = delivery[d].event
      /\ \A dd \in Delivery \ {d} : delivery'[dd] = delivery[dd]
      /\ delivery' \in [Delivery -> [at : {"idle", "rules", "apply", "record"},
                                    event : Event \cup {None}, todo : SUBSET Effect,
                                    made : Change \cup {None}]]
  <2> DEFINE was == delivery[d]
             now == [was EXCEPT !.at = "apply", !.made = None]
             Row == [at : {"idle", "rules", "apply", "record"}, event : Event \cup {None},
                     todo : SUBSET Effect, made : Change \cup {None}]
  <2>1. delivery \in [Delivery -> Row] /\ was \in Row
    BY DEF DeliveriesFit
  <2>2. now \in Row /\ now.at = "apply" /\ now.event = was.event
    <3> HIDE DEF was
    <3> QED
      BY ONLY <2>1
  <2>3. delivery' = [delivery EXCEPT ![d] = now]
    BY ONLY <1>1, <2>1
  <2> HIDE DEF now, Row
  <2>4. delivery'[d] = now
    BY <2>1, <2>3
  <2>5. delivery' \in [Delivery -> Row] /\ \A dd \in Delivery \ {d} : delivery'[dd] = delivery[dd]
    BY <2>1, <2>2, <2>3
  <2> QED
    BY <2>2, <2>4, <2>5 DEF Row
<1>3. DeliveriesFit'
  BY <1>1, <1>2 DEF DeliveriesFit
<1>4. delivery[d].made \in Change
  BY <1>1 DEF DeliveriesFit
<1>5. /\ delivery[d].made.op \in Op /\ delivery[d].made.tuple \in Tuple
      /\ delivery[d].made = [op |-> delivery[d].made.op, tuple |-> delivery[d].made.tuple]
  BY <1>4 DEF Change
<1>6. delivery'[d].at # "record"
  BY <1>2
<1> QED
  BY <1>1, <1>2, <1>3, <1>5, <1>6, DeliveryMoves

(* A delivery that has come to its end. *)
LEMMA Abandoned ==
  ASSUME DeliveriesFit, NEW d \in Delivery, delivery[d].at # "record", Abandon(d),
         sent' = sent, UNCHANGED request
  PROVE  DeliveriesFit' /\ AwaitedStay
<1>1. delivery'[d].at = "idle" /\ \A dd \in Delivery \ {d} : delivery'[dd] = delivery[dd]
  BY DEF DeliveriesFit, Abandon, NoDelivery
<1>2. DeliveriesFit'
  BY DEF DeliveriesFit, Abandon, NoDelivery
<1> QED
  BY <1>1, <1>2, DeliveryMoves

(* Every step keeps the invariant. *)
LEMMA Invariance == IInv /\ [Next]_vars => IInv'
<1> SUFFICES ASSUME IInv, [Next]_vars PROVE IInv'
  OBVIOUS
<1> USE DEF IInv, PointerFollows
<1>1. CASE Configure
  <2>1. ConfigInv'
    BY <1>1, ConfigInvariance DEF Configure
  <2>2. RecordsAreChanges'
    BY <1>1, OthersQuiet DEF Configure, webhookVars, tupleVars
  <2> QED
    BY <1>1, <2>1, <2>2 DEF Configure, modelVars, serviceVars, webhookVars, tupleVars,
       TypeOK, ConfigInv, InProgress, DeliveriesFit, GrantsFitPublished
<1>2. CASE BindGateway \/ GoesDown \/ ComesBack
  <2>1. UNCHANGED <<configVars, modelVars, webhookVars, request, tupleVars>>
    BY <1>2 DEF BindGateway, GoesDown, ComesBack
  <2>2. bound' \in BOOLEAN /\ up' \in BOOLEAN
    BY <1>2 DEF BindGateway, GoesDown, ComesBack, TypeOK
  <2>3. ConfigInv' /\ RecordsAreChanges'
    BY <2>1, ConfigInvariance, OthersQuiet DEF webhookVars, tupleVars
  <2> QED
    BY <2>1, <2>2, <2>3 DEF modelVars, webhookVars, tupleVars, TypeOK, ConfigInv,
       InProgress, DeliveriesFit, GrantsFitPublished
<1>3. CASE Restart
  <2>1. ConfigInv'
    BY <1>3 DEF Restart, ConfigInv, ConfigTypeOK, RulesAreOwned, EditsHaveRules,
       UncheckedEditsAreLost, Stored, Connected, EditorState, Idle
  <2>2. RecordsAreChanges' /\ trail' \in [Tuple -> Int \cup {None}]
    BY <1>3, RestartBalances DEF TypeOK
  <2>3. TypeOK'
    BY <1>3, <2>1, <2>2 DEF Restart, TypeOK, ConfigInv, NoDelivery, NoRequest, Op, modelVars
  <2> QED
    BY <1>3, <2>1, <2>2, <2>3 DEF Restart, NoDelivery, NoRequest, InProgress,
       DeliveriesFit, GrantsFitPublished, modelVars
<1> USE DEF configVars
<1>4. ASSUME UNCHANGED configVars PROVE ConfigInv'
  BY <1>4, ConfigInvariance
<1>5. ASSUME NEW m \in Model, WriteModel(m) PROVE IInv'
  BY <1>4, <1>5, OthersQuiet DEF WriteModel, serviceVars, webhookVars, tupleVars,
     TypeOK, ConfigInv, InProgress, DeliveriesFit, GrantsFitPublished
<1>6. ASSUME NEW m \in Model, CommitModel(m) PROVE IInv'
  BY <1>4, <1>6, OthersQuiet DEF CommitModel, P!Publish, serviceVars, webhookVars, tupleVars,
     TypeOK, ConfigInv, InProgress, DeliveriesFit, GrantsFitPublished
<1>7. ASSUME NEW e \in Event, Send(e) PROVE IInv'
  BY <1>4, <1>7, OthersQuiet DEF Send, modelVars, serviceVars, tupleVars,
     TypeOK, ConfigInv, InProgress, DeliveriesFit, GrantsFitPublished
(* The steps of a delivery leave the configuration, the models and the service;
   those that leave the tuples and the requests as well owe only this. *)
<1>20. ASSUME UNCHANGED <<configVars, modelVars, serviceVars, sent, request>>,
              DeliveriesFit', RecordsAreChanges', GrantsFitPublished',
              acknowledged' \subseteq sent, tuples' \subseteq Tuple,
              author' \in [Tuple -> {"idp", "admin", None}],
              trail' \in [Tuple -> Int \cup {None}]
       PROVE  IInv'
  BY <1>4, <1>20 DEF modelVars, serviceVars, TypeOK, ConfigInv, InProgress, DeliveriesFit
<1>21. ASSUME UNCHANGED <<configVars, modelVars, serviceVars, sent, request, tupleVars>>,
              DeliveriesFit', RecordsAreChanges', acknowledged' \subseteq sent
       PROVE  IInv'
  <2>1. GrantsFitPublished'
    BY <1>21 DEF GrantsFitPublished, tupleVars, modelVars
  <2>2. UNCHANGED <<tuples, author, trail>>
    BY <1>21 DEF tupleVars
  <2> QED
    BY <1>20, <1>21, <2>1, <2>2 DEF TypeOK
<1>8. ASSUME NEW d \in Delivery, NEW e \in Event, Deliver(d, e) PROVE IInv'
  BY <1>8, <1>21, Begun DEF Deliver, InProgress, TypeOK
<1>9. ASSUME NEW d \in Delivery, LoadRules(d) PROVE IInv'
  <2>1. delivery[d].event \in Event
    BY <1>9 DEF LoadRules, InProgress, DeliveriesFit, TypeOK
  <2>2. EffectsOf(delivery[d].event) \subseteq Effect
    BY <2>1, EffectsAreTyped DEF TypeOK
  <2> DEFINE todo == EffectsOf(delivery[d].event)
  <2>3. /\ delivery[d].at = "rules"
        /\ delivery' = [delivery EXCEPT ![d].at = "apply", ![d].todo = todo]
        /\ UNCHANGED <<configVars, modelVars, serviceVars, sent, acknowledged,
                      request, tupleVars>>
    BY <1>9 DEF LoadRules
  <2> HIDE DEF todo
  <2>4. todo \subseteq Effect
    BY <2>2 DEF todo
  <2>5. DeliveriesFit' /\ RecordsAreChanges'
    BY <2>3, <2>4, DeliveryTo DEF InProgress, tupleVars
  <2> QED
    BY <1>21, <2>3, <2>5 DEF TypeOK
<1>10. ASSUME NEW d \in Delivery, DeliveryLost(d) \/ Acknowledge(d) PROVE IInv'
  <2>1. /\ Abandon(d) /\ delivery[d].at # "record"
        /\ UNCHANGED <<configVars, modelVars, serviceVars, sent, request, tupleVars>>
    BY <1>10 DEF DeliveryLost, Acknowledge
  <2>2. acknowledged' \subseteq sent
    BY <1>10 DEF DeliveryLost, Acknowledge, TypeOK, InProgress, DeliveriesFit
  <2>3. DeliveriesFit' /\ AwaitedStay
    BY <2>1, Abandoned DEF InProgress
  <2>4. RecordsAreChanges'
    BY <2>1, <2>3, QuietBalances DEF tupleVars
  <2> QED
    BY <1>21, <2>1, <2>2, <2>3, <2>4
<1>11. ASSUME NEW d \in Delivery, delivery[d].at = "apply", NEW k \in Due(d),
              RenderFails(d, k) \/ Skip(d, k) \/ GiveUp(d, k)
       PROVE  IInv'
  <2>1. /\ Drop(d, k)
        /\ UNCHANGED <<configVars, modelVars, serviceVars, sent, acknowledged,
                      request, tupleVars>>
    BY <1>11 DEF RenderFails, Skip, GiveUp
  <2>2. DeliveriesFit' /\ RecordsAreChanges'
    BY <1>11, <2>1, Dropped DEF InProgress, tupleVars
  <2> QED
    BY <1>21, <2>1, <2>2 DEF TypeOK
<1>12. ASSUME NEW d \in Delivery, delivery[d].at = "apply", NEW k \in Due(d),
              Apply(d, k)
       PROVE  IInv'
  <2>1. k.tuple \in Tuple /\ k.op \in Op
    BY <1>12, DueEffects DEF Apply
  <2>2. /\ GrantsFitPublished' /\ tuples' \subseteq Tuple
        /\ author' \in [Tuple -> {"idp", "admin", None}]
    BY <1>12, <2>1, ChangesFit DEF Apply, modelVars
  <2>3. DeliveriesFit' /\ AwaitedGrow(k.op, k.tuple)
    BY <1>12, <2>1, HasMade DEF Apply, InProgress
  <2>4. RecordsAreChanges'
    BY <1>12, <2>1, <2>3, ChangeBalances DEF Apply, TypeOK
  <2> QED
    BY <1>12, <1>20, <2>2, <2>3, <2>4 DEF Apply, TypeOK
<1>13. ASSUME NEW d \in Delivery, RecordApplied(d) PROVE IInv'
  <2>1. /\ DeliveriesFit'
        /\ delivery[d].made.op \in Op /\ delivery[d].made.tuple \in Tuple
        /\ AwaitedShrink(delivery[d].made.op, delivery[d].made.tuple)
    BY <1>13, HasRecorded DEF InProgress
  <2>2. RecordsAreChanges' /\ trail' \in [Tuple -> Int \cup {None}]
    BY <1>13, <2>1, RecordBalances DEF RecordApplied, TypeOK
  <2>3. GrantsFitPublished'
    BY <1>13 DEF RecordApplied, GrantsFitPublished, modelVars
  <2> QED
    BY <1>13, <1>20, <2>1, <2>2, <2>3 DEF RecordApplied, TypeOK
<1>14. ASSUME NEW d \in Delivery, delivery[d].at = "apply", NEW k \in Due(d),
              Interrupt(d, k)
       PROVE  IInv'
  <2>1. k.tuple \in Tuple /\ k.op \in Op
    BY <1>14, DueEffects DEF Interrupt
  <2>2. /\ tuples' \in {tuples, After(k.op, k.tuple)} /\ ChangedBy("idp", k.tuple)
        /\ MayHaveChanged("idp", k.op, k.tuple, latest)
    BY <1>14, AmbiguityIsBounded DEF Interrupt, MayHaveChanged
  <2>3. /\ GrantsFitPublished' /\ tuples' \subseteq Tuple
        /\ author' \in [Tuple -> {"idp", "admin", None}]
    BY <1>14, <2>1, <2>2, ChangesFit DEF Interrupt, modelVars
  <2>4. DeliveriesFit' /\ AwaitedStay
    BY <1>14, Abandoned DEF Interrupt, InProgress
  <2>5. RecordsAreChanges' /\ trail' \in [Tuple -> Int \cup {None}]
    BY <2>1, <2>2, <2>4, LostBalances DEF MayHaveChanged, Unrecorded, TypeOK
  <2> QED
    BY <1>14, <1>20, <2>3, <2>4, <2>5 DEF Interrupt, TypeOK
(* The steps of a request leave the deliveries and what they leave. *)
<1>22. ASSUME UNCHANGED <<configVars, modelVars, serviceVars, webhookVars>>,
              NEW q \in Request, \A p \in Request \ {q} : request'[p] = request[p],
              request' \in [Request -> [at : {"idle", "write", "record"}, op : Op,
                                       tuple : Tuple \cup {None}, pin : Model \cup {None}]],
              request'[q].at # "idle" =>
                /\ request'[q].tuple \in Tuple
                /\ request'[q].pin \in published
                /\ request'[q].tuple \in Accepts[request'[q].pin],
              RecordsAreChanges', GrantsFitPublished', tuples' \subseteq Tuple,
              author' \in [Tuple -> {"idp", "admin", None}],
              trail' \in [Tuple -> Int \cup {None}]
       PROVE  IInv'
  BY <1>4, <1>22 DEF modelVars, serviceVars, webhookVars, TypeOK, ConfigInv, InProgress,
     DeliveriesFit
<1>15. ASSUME NEW q \in Request, NEW op \in Op, NEW t \in Tuple, BeginRequest(q, op, t)
       PROVE  IInv'
  <2>1. current \in published
    BY <1>15 DEF BeginRequest, PointerFollows
  <2>2. /\ request[q].at = "idle" /\ request'[q].at = "write"
        /\ \A p \in Request \ {q} : request'[p] = request[p]
        /\ UNCHANGED <<delivery, tuples, trail, author>>
    BY <1>15 DEF BeginRequest, TypeOK, webhookVars, tupleVars
  <2>3. RecordsAreChanges'
    BY <2>2, RequestQuiet
  <2>4. GrantsFitPublished'
    BY <1>15, <2>2 DEF BeginRequest, GrantsFitPublished, modelVars
  <2> QED
    BY <1>15, <1>22, <2>1, <2>2, <2>3, <2>4 DEF BeginRequest, TypeOK
<1>23. ASSUME NEW q \in Request, EndRequest(q)
       PROVE  /\ request'[q].at = "idle"
              /\ \A p \in Request \ {q} : request'[p] = request[p]
              /\ request' \in [Request -> [at : {"idle", "write", "record"}, op : Op,
                                   tuple : Tuple \cup {None}, pin : Model \cup {None}]]
  BY <1>23 DEF EndRequest, NoRequest, Op, TypeOK
<1>16. ASSUME NEW q \in Request, RequestIdle(q) PROVE IInv'
  <2>1. /\ request[q].at = "write" /\ EndRequest(q)
        /\ UNCHANGED <<delivery, tuples, trail, author, published>>
        /\ UNCHANGED <<configVars, modelVars, serviceVars, webhookVars>>
    BY <1>16 DEF RequestIdle, webhookVars, tupleVars, modelVars
  <2>2. RecordsAreChanges'
    BY <1>23, <2>1, RequestQuiet
  <2>3. GrantsFitPublished'
    BY <2>1 DEF GrantsFitPublished
  <2> QED
    BY <1>22, <1>23, <2>1, <2>2, <2>3 DEF TypeOK
<1>17. ASSUME NEW q \in Request, RequestDone(q) \/ RequestInterrupted(q) PROVE IInv'
  <2> DEFINE r == request[q]
  <2>1. /\ r.at = "write" /\ r.op \in Op /\ r.tuple \in Tuple
        /\ r.pin \in published /\ r.tuple \in Accepts[r.pin]
    BY <1>17 DEF RequestDone, RequestInterrupted, InProgress, TypeOK
  <2>2. tuples' \in {tuples, After(r.op, r.tuple)}
    BY <1>17, AmbiguityIsBounded DEF RequestDone, RequestInterrupted, MayHaveChanged
  <2>3. /\ ChangedBy("admin", r.tuple) /\ published' = published
        /\ UNCHANGED <<configVars, modelVars, serviceVars, webhookVars, delivery>>
    BY <1>17 DEF RequestDone, RequestInterrupted, MayHaveChanged, modelVars, webhookVars
  <2>4. /\ GrantsFitPublished' /\ tuples' \subseteq Tuple
        /\ author' \in [Tuple -> {"idp", "admin", None}]
    BY <2>1, <2>2, <2>3, ChangesFit
  <2>5. CASE RequestDone(q)
    <3>1. /\ request' = [request EXCEPT ![q].at = "record"] /\ UNCHANGED trail
          /\ Answer(r.op, r.tuple, r.pin) = "ok" /\ tuples' = After(r.op, r.tuple)
      BY <2>5 DEF RequestDone
    <3>2. /\ request'[q].at = "record" /\ request'[q].op = r.op
          /\ request'[q].tuple = r.tuple /\ request'[q].pin = r.pin
          /\ \A p \in Request \ {q} : request'[p] = request[p]
          /\ request' \in [Request -> [at : {"idle", "write", "record"}, op : Op,
                               tuple : Tuple \cup {None}, pin : Model \cup {None}]]
      BY <3>1 DEF TypeOK
    <3>3. AwaitedGrow(r.op, r.tuple)
      BY <2>1, <2>3, <3>2, RequestMoves
    <3>4. RecordsAreChanges'
      BY <2>1, <3>1, <3>3, ChangeBalances DEF TypeOK
    <3> QED
      BY <1>22, <2>1, <2>3, <2>4, <3>1, <3>2, <3>4 DEF TypeOK
  <2>6. CASE RequestInterrupted(q)
    <3>1. EndRequest(q) /\ MayHaveChanged("admin", r.op, r.tuple, r.pin)
      BY <2>6 DEF RequestInterrupted
    <3>2. AwaitedStay
      BY <1>23, <2>1, <2>3, <3>1, RequestMoves
    <3>3. RecordsAreChanges' /\ trail' \in [Tuple -> Int \cup {None}]
      BY <2>1, <3>1, <3>2, LostBalances DEF MayHaveChanged, Unrecorded, TypeOK
    <3> QED
      BY <1>22, <1>23, <2>3, <2>4, <3>1, <3>3
  <2> QED
    BY <1>17, <2>5, <2>6
<1>18. ASSUME NEW q \in Request, RecordRequest(q) PROVE IInv'
  <2>1. /\ request[q].at = "record" /\ request[q].op \in Op /\ request[q].tuple \in Tuple
        /\ EndRequest(q) /\ Record(request[q].op, request[q].tuple)
        /\ UNCHANGED <<configVars, modelVars, serviceVars, webhookVars, delivery, published,
                      tuples, author>>
    BY <1>18 DEF RecordRequest, InProgress, TypeOK, modelVars, webhookVars
  <2>2. AwaitedShrink(request[q].op, request[q].tuple)
    BY <1>23, <2>1, RequestMoves
  <2>3. RecordsAreChanges' /\ trail' \in [Tuple -> Int \cup {None}]
    BY <2>1, <2>2, RecordBalances DEF TypeOK
  <2>4. GrantsFitPublished'
    BY <2>1 DEF GrantsFitPublished
  <2> QED
    BY <1>22, <1>23, <2>1, <2>3, <2>4 DEF TypeOK
<1>19. CASE UNCHANGED vars
  BY <1>4, <1>19, OthersQuiet DEF vars, modelVars, serviceVars, webhookVars, tupleVars,
     TypeOK, ConfigInv, InProgress, DeliveriesFit, GrantsFitPublished
<1> QED
  BY <1>1, <1>2, <1>3, <1>5, <1>6, <1>7, <1>8, <1>9, <1>10, <1>11, <1>12, <1>13,
     <1>14, <1>15, <1>16, <1>17, <1>18, <1>19 DEF Next, Surroundings, Webhook, Grants

-----------------------------------------------------------------------------
(* The theorems.                                                           *)

LEMMA Always == Spec => []IInv
<1> QED
  BY Initial, Invariance, PTL DEF Spec

(* The state stays well-typed whatever interleaving of edits, deliveries,
   grants, publishes, outages and restarts the handlers run in. *)
THEOREM TypeCorrect == Spec => []TypeOK
<1>1. IInv => TypeOK
  BY DEF IInv
<1> QED
  BY <1>1, Always, PTL

(* No rule outlives its connection: the foreign key refuses a rule whose
   connection went away after createRule read it, and the cascade takes the
   others. *)
THEOREM RulesOwned == Spec => []RulesAreOwned
<1>1. IInv => RulesAreOwned
  BY DEF IInv, ConfigInv
<1> QED
  BY <1>1, Always, PTL

(* A PUT on a rule that skipped the check of the merged rule, because its
   connection was gone, finds its rule gone as well. *)
THEOREM UncheckedLost == Spec => []UncheckedEditsAreLost
<1>1. IInv => UncheckedEditsAreLost
  BY DEF IInv, ConfigInv
<1> QED
  BY <1>1, Always, PTL

(* Every tuple an admin granted fits a published model, because the grant pins
   the model it was validated against. *)
THEOREM GrantsFit == Spec => []GrantsFitPublished
<1>1. IInv => GrantsFitPublished
  BY DEF IInv
<1> QED
  BY <1>1, Always, PTL

(* The steps of a delivery on one effect settle it. *)
LEMMA EffectSettles ==
  ASSUME TypeOK, bound, NEW d \in Delivery, NEW k \in Due(d),
         \/ RenderFails(d, k) \/ Apply(d, k) \/ Skip(d, k) \/ GiveUp(d, k)
  PROVE  Settled(k)
<1>1. k.op \in Op
  BY DueEffects
<1>2. CASE RenderFails(d, k)
  BY <1>2 DEF RenderFails, Settled
<1>3. CASE Apply(d, k)
  BY <1>1, <1>3 DEF Apply, After, Settled, Holds, Op
<1>4. CASE Skip(d, k)
  BY <1>1, <1>4 DEF Skip, Absorbed, Answer, Verdict, Settled, Holds, Op, tupleVars
<1>5. CASE GiveUp(d, k)
  BY <1>1, <1>5 DEF GiveUp, Hopeless, Absorbed, Transient, Answer, Verdict, Settled,
     Holds, Op, tupleVars
<1> QED
  BY <1>2, <1>3, <1>4, <1>5

(* A gateway that is bound acknowledges nothing it could still have done: an
   effect leaves a delivery that goes on only when it is settled. *)
THEOREM DroppedNothing == Spec => NothingIsDroppedOnceBound
<1> DEFINE Kept == bound => \A d \in Delivery : \A k \in delivery[d].todo :
                              LetsGoOf(d, k) => Settled(k)
<1>1. IInv /\ [Next]_vars => [Kept]_vars
  <2> SUFFICES ASSUME IInv, Next, bound, NEW d \in Delivery,
                      NEW k \in delivery[d].todo, LetsGoOf(d, k)
               PROVE  Settled(k)
    OBVIOUS
  <2> USE DEF IInv
  <2>1. /\ delivery[d].at \in {"apply", "record"} /\ delivery[d].event # None
        /\ delivery'[d].event = delivery[d].event
        /\ k \notin delivery'[d].todo
    BY SyncAssumption DEF LetsGoOf, InProgress, DeliveriesFit, TypeOK
  <2>2. delivery'[d] # delivery[d]
    BY <2>1
  <2>3. ~ Abandon(d)
    BY <2>1 DEF Abandon, NoDelivery, TypeOK
  <2>4. ASSUME NEW dd \in Delivery, NEW j \in Due(dd), Drop(dd, j) \/ Made(dd, j)
        PROVE  dd = d /\ j = k
    BY <2>1, <2>4 DEF Drop, Made, TypeOK
  <2>5. ASSUME NEW dd \in Delivery, Abandon(dd)
        PROVE  FALSE
    BY <2>2, <2>3, <2>5 DEF Abandon, TypeOK
  <2>6. ASSUME NEW dd \in Delivery, NEW e \in Event, Deliver(dd, e)
        PROVE  FALSE
    BY <2>1, <2>2, <2>6 DEF Deliver, TypeOK
  <2>7. ASSUME NEW dd \in Delivery, LoadRules(dd)
        PROVE  FALSE
    BY <2>1, <2>2, <2>7 DEF LoadRules, TypeOK
  <2>13. ASSUME NEW dd \in Delivery, RecordApplied(dd)
         PROVE  FALSE
    BY <2>1, <2>2, <2>13 DEF RecordApplied, TypeOK
  <2>8. ASSUME UNCHANGED delivery \/ Restart
        PROVE  FALSE
    BY <2>1, <2>2, <2>8 DEF Restart, NoDelivery
  <2>9. \A q \in Request : Grants(q) => UNCHANGED delivery
    BY DEF Grants, BeginRequest, RequestDone, RecordRequest, RequestIdle, RequestInterrupted,
       webhookVars
  <2>10. /\ Configure => UNCHANGED delivery
         /\ Surroundings => UNCHANGED delivery \/ Restart
         /\ \A e \in Event : Send(e) => UNCHANGED delivery
    BY DEF Configure, Surroundings, BindGateway, GoesDown, ComesBack, WriteModel,
       CommitModel, Send, webhookVars
  <2>11. ASSUME NEW dd \in Delivery, DeliveryLost(dd) \/ Acknowledge(dd)
         PROVE  FALSE
    BY <2>5, <2>11 DEF DeliveryLost, Acknowledge
  <2>12. ASSUME NEW dd \in Delivery, NEW j \in Due(dd),
                \/ RenderFails(dd, j) \/ Apply(dd, j) \/ Skip(dd, j)
                \/ GiveUp(dd, j) \/ Interrupt(dd, j)
         PROVE  Settled(k)
    <3>1. ~ Interrupt(dd, j)
      BY <2>5 DEF Interrupt
    <3>2. dd = d /\ j = k
      BY <2>4, <2>12, <3>1 DEF RenderFails, Apply, Skip, GiveUp
    <3> QED
      BY <2>12, <3>1, <3>2, EffectSettles
  <2> QED
    BY <2>6, <2>7, <2>8, <2>9, <2>10, <2>11, <2>12, <2>13 DEF Next, Webhook
<1> QED
  BY <1>1, Always, PTL DEF Spec, NothingIsDroppedOnceBound

(* The audit trail accounts for every tuple: each change is recorded once, by
   the handler that made it and whatever the others do in the meantime, and
   nothing else is, unless a change lost its answer or its record. *)
THEOREM RecordsChange == Spec => []RecordsAreChanges
<1>1. IInv => RecordsAreChanges
  BY DEF IInv
<1> QED
  BY <1>1, Always, PTL
=============================================================================
