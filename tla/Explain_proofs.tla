--------------------------- MODULE Explain_proofs ---------------------------
(* What an explanation may say, for every hierarchy of resources and whatever
   others write while it is searched for; and what it must say when nothing
   is written meanwhile. *)
EXTENDS Explain, Lists_proofs

-----------------------------------------------------------------------------
(* The stack.                                                              *)

(* The frame's current relation leads to p, by a tuple of T. *)
Leads(f, p, T) ==
  /\ f.rel <= Len(Inherits[f.object])
  /\ \E t \in T : t.user = p /\ t.relation = Inherits[f.object][f.rel] /\ t.object = f.object

(* Every frame was entered by a tuple of the frame below it, and every parent
   that waits in a frame was read from such a tuple. *)
StackStands(st, V, T) ==
  /\ st \in Seq(Frame) /\ Len(st) <= MaxDepth + 1
  /\ \A i \in 1..Len(st) : st[i].object \in V
  /\ \A i, j \in 1..Len(st) : st[i].object = st[j].object => i = j
  /\ st # <<>> => st[1].object = Root
  /\ \A i \in 1..(Len(st) - 1) : Leads(st[i], st[i + 1].object, T)
  /\ \A i \in 1..Len(st) : \A k \in 1..Len(st[i].parents) : Leads(st[i], st[i].parents[k], T)

LEMMA NewFrameIsFrame ==
  ASSUME NEW o \in DOMAIN GrantedBy
  PROVE  /\ NewFrame(o) \in Frame
         /\ NewFrame(o).object = o /\ NewFrame(o).parents = <<>>
BY DEF NewFrame, Frame

LEMMA StackGrows ==
  ASSUME NEW st, NEW V, NEW W, NEW T, NEW U, StackStands(st, V, T), V \subseteq W, T \subseteq U
  PROVE  StackStands(st, W, U)
<1>1. \A f, p : Leads(f, p, T) => Leads(f, p, U)
  BY DEF Leads
<1> QED
  BY <1>1 DEF StackStands

LEMMA FrontOfStack ==
  ASSUME NEW st \in Seq(Frame), st # <<>>
  PROVE  LET b == SubSeq(st, 1, Len(st) - 1)
         IN b \in Seq(Frame) /\ Len(b) = Len(st) - 1 /\ \A i \in 1..(Len(st) - 1) : b[i] = st[i]
<1> DEFINE n == Len(st) - 1
<1>1. n \in Nat /\ \A i \in 1..n : st[i] \in Frame
  BY EmptySeq, ElementOfSeq
<1> HIDE DEF n
<1>2. /\ SubSeq(st, 1, n) \in Seq(Frame)
      /\ Len(SubSeq(st, 1, n)) = IF 1 <= n THEN n - 1 + 1 ELSE 0
      /\ \A i \in 1..(n - 1 + 1) : SubSeq(st, 1, n)[i] = st[1 + i - 1]
  BY <1>1, SubSeqProperties
<1>3. Len(SubSeq(st, 1, n)) = n /\ \A i \in 1..n : SubSeq(st, 1, n)[i] = st[i]
  BY <1>1, <1>2
<1> QED
  BY <1>2, <1>3 DEF n

LEMMA StackTop ==
  ASSUME NEW st \in Seq(Frame), st # <<>>, NEW f \in Frame
  PROVE  LET s == Append(SubSeq(st, 1, Len(st) - 1), f)
         IN /\ s \in Seq(Frame) /\ Len(s) = Len(st) /\ s # <<>> /\ s[Len(st)] = f
            /\ \A i \in 1..(Len(st) - 1) : s[i] = st[i]
<1>1. Len(st) \in Nat \ {0}
  BY EmptySeq
<1> DEFINE b == SubSeq(st, 1, Len(st) - 1)
<1>2. b \in Seq(Frame) /\ Len(b) = Len(st) - 1 /\ \A i \in 1..(Len(st) - 1) : b[i] = st[i]
  BY FrontOfStack
<1> HIDE DEF b
<1>3. /\ Append(b, f) \in Seq(Frame) /\ Len(Append(b, f)) = Len(st) /\ Append(b, f)[Len(st)] = f
      /\ \A i \in 1..(Len(st) - 1) : Append(b, f)[i] = b[i]
  BY <1>1, <1>2, AppendProperties
<1> QED
  BY <1>1, <1>2, <1>3, EmptySeq DEF b

(* The top frame moves on, on the same object. *)
LEMMA TopMoves ==
  ASSUME NEW st, NEW V, NEW T, StackStands(st, V, T), st # <<>>,
         NEW f \in Frame, f.object = st[Len(st)].object,
         \A k \in 1..Len(f.parents) : Leads(f, f.parents[k], T)
  PROVE  StackStands(Append(SubSeq(st, 1, Len(st) - 1), f), V, T)
<1> DEFINE s == Append(SubSeq(st, 1, Len(st) - 1), f)
<1>1. st \in Seq(Frame) /\ Len(st) \in Nat \ {0}
  BY EmptySeq DEF StackStands
<1>2. /\ s \in Seq(Frame) /\ Len(s) = Len(st) /\ s[Len(st)] = f
      /\ \A i \in 1..(Len(st) - 1) : s[i] = st[i]
  BY <1>1, StackTop
<1> HIDE DEF s
<1>3. \A i \in 1..Len(st) : s[i].object = st[i].object
  BY <1>1, <1>2
<1>4. \A i \in 1..(Len(s) - 1) : Leads(s[i], s[i + 1].object, T)
  BY <1>1, <1>2, <1>3 DEF StackStands
<1>5. \A i \in 1..Len(s) : \A k \in 1..Len(s[i].parents) : Leads(s[i], s[i].parents[k], T)
  <2>1. \A i \in 1..Len(st) : \A k \in 1..Len(st[i].parents) : Leads(st[i], st[i].parents[k], T)
    BY DEF StackStands
  <2>2. TAKE i \in 1..Len(s)
  <2>3. CASE i = Len(st)
    BY ONLY <1>2, <2>3, \A k \in 1..Len(f.parents) : Leads(f, f.parents[k], T)
  <2>4. CASE i # Len(st)
    <3>1. i \in 1..(Len(st) - 1) /\ i \in 1..Len(st)
      BY ONLY <1>1, <1>2, <2>4, i \in 1..Len(s)
    <3>2. s[i] = st[i]
      BY ONLY <1>2, <3>1
    <3> QED
      BY ONLY <2>1, <3>1, <3>2
  <2> QED
    BY <2>3, <2>4
<1>6. StackStands(s, V, T)
  BY <1>1, <1>2, <1>3, <1>4, <1>5 DEF StackStands
<1> QED
  BY <1>6 DEF s

(* A parent is entered: a new frame, on an object that was not visited. *)
LEMMA FrameEntered ==
  ASSUME NEW st, NEW V, NEW T, StackStands(st, V, T), st # <<>>, Len(st) <= MaxDepth,
         NEW p \in DOMAIN GrantedBy, p \notin V, Leads(st[Len(st)], p, T)
  PROVE  StackStands(Append(st, NewFrame(p)), V \cup {p}, T)
<1> DEFINE s == Append(st, NewFrame(p))
<1>1. st \in Seq(Frame) /\ Len(st) \in Nat \ {0}
  BY EmptySeq DEF StackStands
<1>2. /\ s \in Seq(Frame) /\ Len(s) = Len(st) + 1 /\ s[Len(st) + 1] = NewFrame(p)
      /\ \A i \in 1..Len(st) : s[i] = st[i]
  BY <1>1, NewFrameIsFrame, AppendProperties
<1> HIDE DEF s
<1>3. \A i \in 1..(Len(s) - 1) : Leads(s[i], s[i + 1].object, T)
  BY <1>1, <1>2, NewFrameIsFrame DEF StackStands
<1>4. \A i \in 1..Len(s) : \A k \in 1..Len(s[i].parents) : Leads(s[i], s[i].parents[k], T)
  BY <1>1, <1>2, NewFrameIsFrame DEF StackStands
<1>5. \A i, j \in 1..Len(s) : s[i].object = s[j].object => i = j
  BY <1>1, <1>2, NewFrameIsFrame DEF StackStands
<1>6. /\ \A i \in 1..Len(s) : s[i].object \in V \cup {p}
      /\ s # <<>> => s[1].object = Root
  BY <1>1, <1>2, NewFrameIsFrame DEF StackStands
<1>7. Len(s) <= MaxDepth + 1
  BY <1>1, <1>2, ExplainAssumption
<1>8. StackStands(s, V \cup {p}, T)
  BY <1>2, <1>3, <1>4, <1>5, <1>6, <1>7 DEF StackStands
<1> QED
  BY <1>8 DEF s

(* findWitness returns to its caller. *)
LEMMA FrameLeft ==
  ASSUME NEW st, NEW V, NEW T, StackStands(st, V, T), st # <<>>
  PROVE  StackStands(SubSeq(st, 1, Len(st) - 1), V, T)
<1> DEFINE s == SubSeq(st, 1, Len(st) - 1)
<1>1. st \in Seq(Frame) /\ Len(st) \in Nat \ {0}
  BY EmptySeq DEF StackStands
<1>2. /\ s \in Seq(Frame) /\ Len(s) = Len(st) - 1
      /\ \A i \in 1..(Len(st) - 1) : s[i] = st[i]
  BY <1>1, FrontOfStack
<1>3. s # <<>> => Len(s) \in Nat \ {0}
  BY <1>2, EmptySeq
<1> HIDE DEF s
<1>4. /\ \A i \in 1..Len(s) : s[i].object \in V
      /\ \A i, j \in 1..Len(s) : s[i].object = s[j].object => i = j
      /\ s # <<>> => s[1].object = Root
  BY <1>1, <1>2, <1>3 DEF StackStands
<1>5. /\ \A i \in 1..(Len(s) - 1) : Leads(s[i], s[i + 1].object, T)
      /\ \A i \in 1..Len(s) : \A k \in 1..Len(s[i].parents) : Leads(s[i], s[i].parents[k], T)
  BY <1>1, <1>2 DEF StackStands
<1>6. StackStands(s, V, T)
  BY <1>1, <1>2, <1>4, <1>5, ExplainAssumption DEF StackStands
<1> QED
  BY <1>6 DEF s

-----------------------------------------------------------------------------
(* The invariant.                                                          *)

SearchRecord == [at : SearchAt, allowed : BOOLEAN, stack : Seq(Frame),
                 visited : SUBSET Object, groups : Seq(Group),
                 path : Seq(Step), truncated : BOOLEAN]

(* The role at the top was read to be given to s. *)
Given(s, T) == \E t \in T : t.user = s /\ t.relation = TopRole /\ t.object = Top.object

ExplainInv ==
  /\ tuples \subseteq ever /\ ever \subseteq Tuple /\ changes \in 0..ChangeBound
  /\ search \in SearchRecord
  /\ StackStands(search.stack, search.visited, ever)
  /\ search.at \in {"role", "classify", "member", "parents"} => search.stack # <<>>
  /\ search.at \in {"classify", "member"} => Top.role <= Len(GrantedBy[Top.object])
  /\ search.at = "member" => \A k \in 1..Len(search.groups) : Given(search.groups[k], ever)
  /\ ExplanationNamesStoredTuples

LEMMA ExplainInitHolds == ExplainInit => ExplainInv
<1> SUFFICES ASSUME ExplainInit PROVE ExplainInv
  OBVIOUS
<1>1. search \in SearchRecord /\ search.at = "asked" /\ search.stack = <<>> /\ search.path = <<>>
  BY EmptySeq DEF ExplainInit, NoSearch, SearchRecord, SearchAt
<1>2. StackStands(search.stack, search.visited, ever)
  BY <1>1, EmptySeq, ExplainAssumption DEF StackStands
<1>3. ExplanationNamesStoredTuples
  BY <1>1 DEF ExplanationNamesStoredTuples
<1> QED
  BY <1>1, <1>2, <1>3, ExplainAssumption DEF ExplainInv, ExplainInit

LEMMA ExplainTypeFollows == ExplainInv => ExplainTypeOK
BY DEF ExplainInv, ExplainTypeOK, StackStands, SearchRecord

(* A path that stays is as true as it was. *)
LEMMA PathStays ==
  ASSUME ExplanationNamesStoredTuples, search'.path = search.path, ever \subseteq ever'
  PROVE  ExplanationNamesStoredTuples'
BY DEF ExplanationNamesStoredTuples, ParentStored, RoleStored, StepObject

(* What the updates of the search leave alone. *)
LEMMA Told ==
  ASSUME NEW A, NEW B, NEW C, NEW D, NEW E, NEW F,
         NEW s \in [at : A, allowed : BOOLEAN, stack : B, visited : C, groups : D, path : E, truncated : F],
         NEW a \in A, NEW p \in E, NEW b \in F
  PROVE  LET r == [s EXCEPT !.at = a, !.path = p, !.truncated = b]
         IN /\ r \in [at : A, allowed : BOOLEAN, stack : B, visited : C, groups : D, path : E, truncated : F]
            /\ r.at = a /\ r.path = p /\ r.stack = s.stack /\ r.visited = s.visited
OBVIOUS

(* The path that is told: the links between the frames of the stack, and the
   role of the frame at the top. *)
LEMMA TellSteps ==
  ASSUME ExplainInv, search.at \in {"classify", "member"}, UNCHANGED <<tuples, ever, changes>>,
         NEW direct \in BOOLEAN, NEW group \in Group \cup {"none"}, NEW incomplete \in BOOLEAN,
         direct => Given(User, ever), group # "none" => Given(group, ever),
         Tell(RoleStep(direct, group), incomplete)
  PROVE  /\ ExplainInv'
         /\ search'.path # <<>> /\ search'.truncated = incomplete
         /\ search'.path[Len(search'.path)].role = TopRole
         /\ StepObject(Len(search.path))' = Top.object
<1> DEFINE st == search.stack
           n == Len(search.stack)
           path == Append(ParentSteps, RoleStep(direct, group))
<1>1. /\ st \in Seq(Frame) /\ n \in Nat \ {0}
      /\ search \in SearchRecord /\ StackStands(st, search.visited, ever)
  BY EmptySeq DEF ExplainInv, SearchRecord
<1>2. \A i \in 1..n : st[i] \in Frame
  BY <1>1, ElementOfSeq
<1>3. RoleStep(direct, group) \in Step /\ TopRole = GrantedBy[st[n].object][st[n].role]
  <2>1. st[n] \in Frame /\ st[n].role <= Len(GrantedBy[st[n].object])
    BY <1>1, <1>2 DEF ExplainInv, Top
  <2>2. GrantedBy[st[n].object][st[n].role] \in STRING
    BY <2>1, ExplainAssumption, ElementOfSeq DEF Frame
  <2> QED
    BY <2>2 DEF RoleStep, Step, TopRole, Top
<1>4. /\ ParentSteps \in Seq(Step) /\ Len(ParentSteps) = n - 1
      /\ \A i \in 1..(n - 1) : ParentSteps[i] =
           [via |-> "parent", relation |-> Inherits[st[i].object][st[i].rel],
            object |-> st[i + 1].object]
  <2>1. ASSUME NEW i \in 1..(n - 1)
        PROVE  [via |-> "parent", relation |-> Inherits[st[i].object][st[i].rel],
                object |-> st[i + 1].object] \in Step
    <3>1. st[i] \in Frame /\ st[i + 1] \in Frame /\ st[i].rel <= Len(Inherits[st[i].object])
      BY <1>1, <1>2 DEF StackStands, Leads
    <3>2. Inherits[st[i].object][st[i].rel] \in STRING
      <4>1. Inherits[st[i].object] \in Seq(STRING)
        BY <3>1, ExplainAssumption DEF Frame
      <4>2. st[i].rel \in 1..Len(Inherits[st[i].object])
        BY <3>1, <4>1 DEF Frame
      <4> QED
        BY ONLY <4>1, <4>2, ElementOfSeq
    <3>3. st[i + 1].object \in Object
      BY <3>1, ExplainAssumption DEF Frame
    <3> QED
      BY ONLY <3>2, <3>3 DEF Step
  <2> QED
    BY <1>1, <2>1 DEF ParentSteps
<1>5. /\ path \in Seq(Step) /\ Len(path) = n /\ path[n] = RoleStep(direct, group)
      /\ \A i \in 1..(n - 1) : path[i] = ParentSteps[i]
  BY <1>1, <1>3, <1>4, AppendProperties
<1>6. search' = [search EXCEPT !.at = "told", !.path = path, !.truncated = incomplete]
  BY DEF Tell
<1> HIDE DEF path
<1>7. /\ search' \in SearchRecord /\ search'.at = "told" /\ search'.path = path
      /\ search'.stack = st /\ search'.visited = search.visited
  <2>1. "told" \in SearchAt
    BY DEF SearchAt
  <2> QED
    BY ONLY <1>1, <1>5, <1>6, <2>1, incomplete \in BOOLEAN, Told DEF SearchRecord
<1>10. \A i \in 1..(n - 1) : /\ path[i].via = "parent" /\ path[i].object = st[i + 1].object
                             /\ path[i].relation = Inherits[st[i].object][st[i].rel]
  <2>1. ASSUME NEW r, NEW o
        PROVE  LET x == [via |-> "parent", relation |-> r, object |-> o]
               IN x.via = "parent" /\ x.relation = r /\ x.object = o
    OBVIOUS
  <2>2. TAKE i \in 1..(n - 1)
  <2>3. path[i] = [via |-> "parent", relation |-> Inherits[st[i].object][st[i].rel],
                   object |-> st[i + 1].object]
    BY <1>4, <1>5
  <2> QED
    BY ONLY <2>1, <2>3
<1>8. \A i \in 1..n : StepObject(i)' = st[i].object
  <2>1. st[1].object = Root
    BY <1>1, EmptySeq DEF StackStands
  <2>2. ASSUME NEW i \in 1..n, i # 1
        PROVE  path[i - 1].object = st[i].object
    <3>1. i - 1 \in 1..(n - 1) /\ (i - 1) + 1 = i
      BY <1>1, <2>2
    <3> QED
      BY <3>1, <1>10
  <2> QED
    BY <2>1, <2>2, <1>7 DEF StepObject
<1>9. ExplanationNamesStoredTuples'
  <2>1. ASSUME NEW i \in 1..n, path[i].via = "parent"
        PROVE  i < n /\ ParentStored(ever, i)'
    <3>1. i < n
      BY <1>1, <1>5, <2>1 DEF RoleStep
    <3>2. /\ path[i].object = st[i + 1].object
          /\ path[i].relation = Inherits[st[i].object][st[i].rel]
          /\ Leads(st[i], st[i + 1].object, ever)
      BY <1>1, <1>10, <3>1 DEF StackStands
    <3> QED
      BY <3>1, <3>2, <1>7, <1>8 DEF ParentStored, Leads
  <2>2. ASSUME NEW i \in 1..n, path[i].via = "role"
        PROVE  i = n /\ RoleStored(ever, i)'
    <3>1. i = n
      BY <1>1, <1>10, <2>2
    <3>2. path[n].role = TopRole /\ path[n].direct = direct /\ path[n].group = group
      BY <1>5 DEF RoleStep
    <3> QED
      BY <3>1, <3>2, <1>1, <1>7, <1>8 DEF RoleStored, Given, Top
  <2>3. \A i \in 1..n : \A j \in 1..(i - 1) : StepObject(i)' # StepObject(j)'
    BY <1>1, <1>8 DEF StackStands
  <2> QED
    BY <1>5, <1>7, <2>1, <2>2, <2>3 DEF ExplanationNamesStoredTuples
<1>11. /\ search'.path # <<>> /\ search'.path[Len(search'.path)].role = TopRole
       /\ StepObject(Len(search.path))' = Top.object
  <2>1. path # <<>> /\ path[n].role = TopRole
    BY <1>1, <1>5, EmptySeq DEF RoleStep
  <2>2. StepObject(n)' = Top.object
    <3>1. n \in 1..n /\ Top = st[n]
      BY <1>1 DEF Top
    <3>2. StepObject(n)' = st[n].object
      BY <1>7, <1>8, <3>1 DEF StepObject
    <3> QED
      BY ONLY <3>1, <3>2
  <2> QED
    BY <1>5, <1>7, <2>1, <2>2
<1>12. search'.truncated = incomplete
  BY <1>1, <1>6 DEF SearchRecord
<1> QED
  BY <1>1, <1>7, <1>9, <1>11, <1>12 DEF ExplainInv

-----------------------------------------------------------------------------
(* The steps of the search that tell nothing.                              *)

(* The fields of a search after an update. *)
IsSearch(r, a, st, v, g, p) ==
  r \in SearchRecord /\ r.at = a /\ r.stack = st /\ r.visited = v /\ r.groups = g /\ r.path = p

LEMMA UpdateAt ==
  ASSUME NEW s \in SearchRecord, NEW a \in SearchAt
  PROVE  IsSearch([s EXCEPT !.at = a], a, s.stack, s.visited, s.groups, s.path)
BY DEF IsSearch, SearchRecord

LEMMA UpdateStack ==
  ASSUME NEW s \in SearchRecord, NEW st \in Seq(Frame)
  PROVE  IsSearch([s EXCEPT !.stack = st], s.at, st, s.visited, s.groups, s.path)
BY DEF IsSearch, SearchRecord

LEMMA UpdateGroups ==
  ASSUME NEW s \in SearchRecord, NEW g \in Seq(Group)
  PROVE  IsSearch([s EXCEPT !.groups = g], s.at, s.stack, s.visited, g, s.path)
BY DEF IsSearch, SearchRecord

LEMMA UpdateAtGroups ==
  ASSUME NEW s \in SearchRecord, NEW a \in SearchAt, NEW g \in Seq(Group)
  PROVE  IsSearch([s EXCEPT !.at = a, !.groups = g], a, s.stack, s.visited, g, s.path)
BY DEF IsSearch, SearchRecord

LEMMA UpdateAtStack ==
  ASSUME NEW s \in SearchRecord, NEW a \in SearchAt, NEW st \in Seq(Frame)
  PROVE  IsSearch([s EXCEPT !.at = a, !.stack = st], a, st, s.visited, s.groups, s.path)
BY DEF IsSearch, SearchRecord

LEMMA UpdateAtTruncated ==
  ASSUME NEW s \in SearchRecord, NEW a \in SearchAt, NEW b \in BOOLEAN
  PROVE  IsSearch([s EXCEPT !.at = a, !.truncated = b], a, s.stack, s.visited, s.groups, s.path)
BY DEF IsSearch, SearchRecord

LEMMA UpdateStackVisited ==
  ASSUME NEW s \in SearchRecord, NEW st \in Seq(Frame), NEW v \in SUBSET Object
  PROVE  IsSearch([s EXCEPT !.stack = st, !.visited = v], s.at, st, v, s.groups, s.path)
BY DEF IsSearch, SearchRecord

LEMMA UpdateAtStackVisited ==
  ASSUME NEW s \in SearchRecord, NEW a \in SearchAt, NEW st \in Seq(Frame), NEW v \in SUBSET Object
  PROVE  IsSearch([s EXCEPT !.at = a, !.stack = st, !.visited = v], a, st, v, s.groups, s.path)
BY DEF IsSearch, SearchRecord

LEMMA UpdateStart ==
  ASSUME NEW s \in SearchRecord, NEW a \in SearchAt, NEW b \in BOOLEAN, NEW st \in Seq(Frame), NEW v \in SUBSET Object
  PROVE  IsSearch([s EXCEPT !.at = a, !.allowed = b, !.stack = st, !.visited = v], a, st, v, s.groups, s.path)
BY DEF IsSearch, SearchRecord

(* A step that leaves the path and the tuples, and keeps what holds of the
   stack and of the role that is looked at. *)
LEMMA SearchGoesOn ==
  ASSUME ExplainInv, UNCHANGED <<tuples, ever, changes>>,
         NEW a, NEW st, NEW v, NEW g, IsSearch(search', a, st, v, g, search.path),
         StackStands(st, v, ever),
         a \in {"role", "classify", "member", "parents"} => st # <<>>,
         a \in {"classify", "member"} => st = search.stack /\ Top.role <= Len(GrantedBy[Top.object]),
         a = "member" => \A k \in 1..Len(g) : Given(g[k], ever)
  PROVE  ExplainInv'
<1>1. /\ search' \in SearchRecord /\ search'.at = a /\ search'.stack = st
      /\ search'.visited = v /\ search'.groups = g /\ search'.path = search.path
  BY DEF IsSearch
<1>2. ExplanationNamesStoredTuples'
  BY <1>1, PathStays DEF ExplainInv
<1>3. a \in {"classify", "member"} => Top' = Top /\ TopRole' = TopRole
  BY <1>1 DEF Top, TopRole
<1>4. a = "member" => \A k \in 1..Len(g) : Given(g[k], ever)'
  BY <1>3 DEF Given
<1> QED
  BY <1>1, <1>2, <1>3, <1>4 DEF ExplainInv

(* What the invariant says of the frame at the top. *)
LEMMA TopOfSearch ==
  ASSUME ExplainInv, search.stack # <<>>
  PROVE  /\ search \in SearchRecord /\ StackStands(search.stack, search.visited, ever)
         /\ Len(search.stack) \in Nat \ {0} /\ Top = search.stack[Len(search.stack)]
         /\ Top \in Frame /\ Top.object \in DOMAIN GrantedBy
         /\ \A k \in 1..Len(Top.parents) : Leads(Top, Top.parents[k], ever)
<1>1. search \in SearchRecord /\ StackStands(search.stack, search.visited, ever)
  BY DEF ExplainInv
<1>2. search.stack \in Seq(Frame) /\ Len(search.stack) \in Nat \ {0}
  BY <1>1, EmptySeq DEF StackStands
<1>3. Top = search.stack[Len(search.stack)] /\ Len(search.stack) \in 1..Len(search.stack)
  BY <1>2 DEF Top
<1>4. Top \in Frame
  BY <1>2, <1>3, ElementOfSeq
<1>5. \A k \in 1..Len(Top.parents) : Leads(Top, Top.parents[k], ever)
  BY <1>1, <1>3 DEF StackStands
<1> QED
  BY <1>1, <1>2, <1>3, <1>4, <1>5 DEF Frame

(* The frame at the top is replaced by one on the same object. *)
LEMMA WithTopStands ==
  ASSUME ExplainInv, search.stack # <<>>, NEW f \in Frame, f.object = Top.object,
         \A k \in 1..Len(f.parents) : Leads(f, f.parents[k], ever)
  PROVE  /\ WithTop(f) \in Seq(Frame) /\ WithTop(f) # <<>>
         /\ StackStands(WithTop(f), search.visited, ever)
<1>1. StackStands(search.stack, search.visited, ever) /\ Top = search.stack[Len(search.stack)]
  BY TopOfSearch
<1>2. StackStands(WithTop(f), search.visited, ever)
  BY <1>1, TopMoves DEF WithTop, Below
<1>3. search.stack \in Seq(Frame)
  BY <1>1 DEF StackStands
<1> QED
  BY <1>2, <1>3, StackTop DEF WithTop, Below

(* A frame after one of its fields moved on. *)
LEMMA UpdateRole ==
  ASSUME NEW f \in Frame, NEW n \in Nat \ {0}
  PROVE  LET h == [f EXCEPT !.role = n]
         IN h \in Frame /\ h.object = f.object /\ h.rel = f.rel /\ h.parents = f.parents
BY DEF Frame

LEMMA UpdateRel ==
  ASSUME NEW f \in Frame, NEW n \in Nat \ {0}
  PROVE  LET h == [f EXCEPT !.rel = n]
         IN h \in Frame /\ h.object = f.object /\ h.rel = n /\ h.parents = f.parents
BY DEF Frame

LEMMA UpdateParents ==
  ASSUME NEW f \in Frame, NEW n \in Seq(Object)
  PROVE  LET h == [f EXCEPT !.parents = n]
         IN h \in Frame /\ h.object = f.object /\ h.rel = f.rel /\ h.parents = n
BY DEF Frame

LEMMA DecideHolds ==
  ASSUME ExplainInv, Decide, UNCHANGED <<tuples, ever, changes>>
  PROVE  ExplainInv'
<1>1. search \in SearchRecord /\ "role" \in SearchAt /\ "told" \in SearchAt
  BY DEF ExplainInv, SearchAt
<1>2. CASE Root \in Allowed(tuples)
  <2> DEFINE st == <<NewFrame(Root)>>
  <2>1. search' = [search EXCEPT !.at = "role", !.allowed = TRUE, !.stack = st, !.visited = {Root}]
    BY <1>2 DEF Decide
  <2>2. NewFrame(Root) \in Frame /\ NewFrame(Root).object = Root /\ NewFrame(Root).parents = <<>>
    BY NewFrameIsFrame, ExplainAssumption
  <2>3. st \in Seq(Frame) /\ Len(st) = 1 /\ st[1] = NewFrame(Root) /\ st # <<>>
    BY <2>2
  <2> HIDE DEF st
  <2>4. StackStands(st, {Root}, ever)
    BY <2>2, <2>3, ExplainAssumption DEF StackStands
  <2>5. IsSearch(search', "role", st, {Root}, search.groups, search.path)
    BY ONLY <1>1, <2>1, <2>3, UpdateStart, ExplainAssumption
  <2> QED
    BY <2>3, <2>4, <2>5, SearchGoesOn
<1>3. CASE Root \notin Allowed(tuples)
  <2>1. search' = [search EXCEPT !.at = "told"]
    BY <1>3 DEF Decide
  <2>2. IsSearch(search', "told", search.stack, search.visited, search.groups, search.path)
    BY ONLY <1>1, <2>1, UpdateAt
  <2> QED
    BY <2>2, SearchGoesOn DEF ExplainInv
<1> QED
  BY <1>2, <1>3

LEMMA TryRoleHolds ==
  ASSUME ExplainInv, TryRole, UNCHANGED <<tuples, ever, changes>>
  PROVE  ExplainInv'
<1>1. /\ search \in SearchRecord /\ search.stack # <<>> /\ "classify" \in SearchAt
      /\ search.at = "role" /\ Top.role <= Len(GrantedBy[Top.object])
  BY DEF ExplainInv, SearchAt, TryRole
<1>2. CASE Check(tuples, TopRole, Top.object)
  <2>1. search' = [search EXCEPT !.at = "classify"]
    BY <1>2 DEF TryRole
  <2>2. IsSearch(search', "classify", search.stack, search.visited, search.groups, search.path)
    BY ONLY <1>1, <2>1, UpdateAt
  <2> QED
    BY <1>1, <2>2, SearchGoesOn, TopOfSearch
<1>3. CASE ~Check(tuples, TopRole, Top.object)
  <2> DEFINE f == [Top EXCEPT !.role = Top.role + 1]
  <2>1. Top \in Frame /\ Top.role + 1 \in Nat \ {0}
    BY <1>1, TopOfSearch DEF Frame
  <2>2. f \in Frame /\ f.object = Top.object /\ f.rel = Top.rel /\ f.parents = Top.parents
    BY ONLY <2>1, UpdateRole DEF f
  <2>3. search' = [search EXCEPT !.stack = WithTop(f)]
    BY <1>3 DEF TryRole
  <2> HIDE DEF f
  <2>4. \A k \in 1..Len(f.parents) : Leads(f, f.parents[k], ever)
    BY <1>1, <2>2, TopOfSearch DEF Leads
  <2>5. WithTop(f) \in Seq(Frame) /\ WithTop(f) # <<>> /\ StackStands(WithTop(f), search.visited, ever)
    BY <1>1, <2>2, <2>4, WithTopStands
  <2>6. IsSearch(search', "role", WithTop(f), search.visited, search.groups, search.path)
    BY ONLY <1>1, <2>3, <2>5, UpdateStack
  <2> QED
    BY <2>5, <2>6, SearchGoesOn
<1> QED
  BY <1>2, <1>3

(* A Read in some order is a sequence of what it found. *)
LEMMA InSomeOrderIsSeq ==
  ASSUME NEW X, IsFiniteSet(X), NEW Y, NEW s \in InSomeOrder(Y \cap X)
  PROVE  s \in Seq(X) /\ \A k \in 1..Len(s) : s[k] \in Y
<1> DEFINE S == Y \cap X
<1>1. Cardinality(S) \in Nat
  BY FS_Subset, FS_CardinalityType
<1>2. s \in [1..Cardinality(S) -> S]
  BY DEF InSomeOrder
<1> HIDE DEF S
<1>3. s \in Seq(S) /\ Len(s) = Cardinality(S)
  BY <1>1, <1>2, IsASeq
<1>4. \A k \in 1..Len(s) : s[k] \in S
  BY <1>3, ElementOfSeq
<1>5. s \in Seq(S) /\ S \subseteq X => s \in Seq(X)
  BY <1>3
<1> QED
  BY <1>3, <1>4, <1>5 DEF S

LEMMA ClassifyHolds ==
  ASSUME ExplainInv, Classify, UNCHANGED <<tuples, ever, changes>>
  PROVE  ExplainInv'
<1> DEFINE found == Read(tuples, TopRole, Top.object)
           users == {t.user : t \in found}
<1>1. /\ search \in SearchRecord /\ search.stack # <<>> /\ "member" \in SearchAt
      /\ search.at = "classify" /\ Top.role <= Len(GrantedBy[Top.object]) /\ tuples \subseteq ever
      /\ StackStands(search.stack, search.visited, ever)
  BY DEF ExplainInv, SearchAt, Classify
<1>2. \A u \in users : Given(u, ever)
  BY <1>1 DEF Read, Given
<1>3. CASE \E t \in found : t.user = User
  <2>1. Tell(RoleStep(TRUE, "none"), FALSE)
    BY <1>3 DEF Classify
  <2>2. Given(User, ever)
    BY <1>2, <1>3
  <2> QED
    BY <1>1, <2>1, <2>2, TellSteps
<1>4. CASE ~ \E t \in found : t.user = User
  <2>1. PICK s \in InSomeOrder(users \cap Group) :
          search' = [search EXCEPT !.at = "member", !.groups = s]
    BY <1>4 DEF Classify
  <2> HIDE DEF users
  <2>2. s \in Seq(Group) /\ \A k \in 1..Len(s) : s[k] \in users
    BY InSomeOrderIsSeq, ExplainAssumption
  <2>3. IsSearch(search', "member", search.stack, search.visited, s, search.path)
    BY ONLY <1>1, <2>1, <2>2, UpdateAtGroups
  <2> QED
    BY <1>1, <1>2, <2>2, <2>3, SearchGoesOn
<1> QED
  BY <1>3, <1>4

LEMMA CheckMemberHolds ==
  ASSUME ExplainInv, CheckMember, UNCHANGED <<tuples, ever, changes>>
  PROVE  ExplainInv'
<1> DEFINE groups == search.groups
<1>1. /\ search \in SearchRecord /\ search.stack # <<>> /\ search.at = "member"
      /\ Top.role <= Len(GrantedBy[Top.object])
      /\ StackStands(search.stack, search.visited, ever)
      /\ groups \in Seq(Group) /\ \A k \in 1..Len(groups) : Given(groups[k], ever)
  BY DEF ExplainInv, SearchRecord, CheckMember
<1>2. CASE groups = <<>>
  <2>1. Tell(RoleStep(FALSE, "none"), TRUE)
    BY <1>2 DEF CheckMember
  <2> QED
    BY <1>1, <2>1, TellSteps
<1>3. CASE groups # <<>>
  <2>1. /\ Head(groups) \in Group /\ Head(groups) = groups[1] /\ 1 \in 1..Len(groups)
        /\ Tail(groups) \in Seq(Group) /\ Len(Tail(groups)) = Len(groups) - 1
        /\ \A k \in 1..Len(Tail(groups)) : Tail(groups)[k] = groups[k + 1] /\ k + 1 \in 1..Len(groups)
    BY <1>1, <1>3, HeadTailProperties, EmptySeq
  <2>2. CASE Check(tuples, "member", Head(groups))
    <3>1. Tell(RoleStep(FALSE, Head(groups)), FALSE)
      BY <1>3, <2>2 DEF CheckMember
    <3>2. Given(Head(groups), ever)
      BY <1>1, <2>1
    <3> QED
      BY <1>1, <2>1, <3>1, <3>2, TellSteps
  <2>3. CASE ~Check(tuples, "member", Head(groups))
    <3>1. search' = [search EXCEPT !.groups = Tail(groups)]
      BY <1>3, <2>3 DEF CheckMember
    <3>2. IsSearch(search', "member", search.stack, search.visited, Tail(groups), search.path)
      BY ONLY <1>1, <2>1, <3>1, UpdateGroups
    <3>3. \A k \in 1..Len(Tail(groups)) : Given(Tail(groups)[k], ever)
      BY <1>1, <2>1
    <3> QED
      BY <1>1, <3>2, <3>3, SearchGoesOn
  <2> QED
    BY <2>2, <2>3
<1> QED
  BY <1>2, <1>3

LEMMA ReadParentsHolds ==
  ASSUME ExplainInv, ReadParents, UNCHANGED <<tuples, ever, changes>>
  PROVE  ExplainInv'
<1> DEFINE users == {t.user : t \in Read(tuples, Inherits[Top.object][Top.rel], Top.object)}
<1>1. /\ search \in SearchRecord /\ search.stack # <<>> /\ "parents" \in SearchAt
      /\ Top.rel <= Len(Inherits[Top.object]) /\ tuples \subseteq ever
  BY DEF ExplainInv, SearchAt, ReadParents, NoRoleLeft
<1>2. Top \in Frame
  BY <1>1, TopOfSearch
<1>3. \A u \in users : Leads(Top, u, ever)
  BY <1>1 DEF Read, Leads
<1>4. PICK s \in InSomeOrder(users \cap Object) :
        search' = [search EXCEPT !.at = "parents", !.stack = WithTop([Top EXCEPT !.parents = s])]
  BY DEF ReadParents
<1> HIDE DEF users
<1>5. s \in Seq(Object) /\ \A k \in 1..Len(s) : s[k] \in users
  BY InSomeOrderIsSeq, ExplainAssumption
<1> DEFINE f == [Top EXCEPT !.parents = s]
<1>6. f \in Frame /\ f.object = Top.object /\ f.rel = Top.rel /\ f.parents = s
  BY ONLY <1>2, <1>5, UpdateParents DEF f
<1>7. search' = [search EXCEPT !.at = "parents", !.stack = WithTop(f)]
  BY <1>4
<1> HIDE DEF f
<1>8. \A k \in 1..Len(f.parents) : Leads(f, f.parents[k], ever)
  BY <1>3, <1>5, <1>6 DEF Leads
<1>9. WithTop(f) \in Seq(Frame) /\ WithTop(f) # <<>> /\ StackStands(WithTop(f), search.visited, ever)
  BY <1>1, <1>6, <1>8, WithTopStands
<1>10. IsSearch(search', "parents", WithTop(f), search.visited, search.groups, search.path)
  BY ONLY <1>1, <1>7, <1>9, UpdateAtStack
<1> QED
  BY <1>9, <1>10, SearchGoesOn

LEMMA EnterParentHolds ==
  ASSUME ExplainInv, EnterParent, UNCHANGED <<tuples, ever, changes>>
  PROVE  ExplainInv'
<1> DEFINE p == Head(Top.parents)
           f == [Top EXCEPT !.parents = Tail(Top.parents)]
           V == search.visited
<1>1. /\ search \in SearchRecord /\ search.stack # <<>> /\ "role" \in SearchAt
      /\ search.at = "parents" /\ V \in SUBSET Object /\ Top.parents # <<>>
  BY DEF ExplainInv, SearchRecord, SearchAt, EnterParent
<1>2. /\ Top \in Frame /\ Top = search.stack[Len(search.stack)]
      /\ StackStands(search.stack, V, ever)
      /\ \A k \in 1..Len(Top.parents) : Leads(Top, Top.parents[k], ever)
  BY <1>1, TopOfSearch
<1>3. Top.parents \in Seq(Object)
  BY <1>2 DEF Frame
<1>4. /\ p \in Object /\ p = Top.parents[1] /\ 1 \in 1..Len(Top.parents)
      /\ Tail(Top.parents) \in Seq(Object)
      /\ \A k \in 1..Len(Tail(Top.parents)) : /\ Tail(Top.parents)[k] = Top.parents[k + 1]
                                              /\ k + 1 \in 1..Len(Top.parents)
  BY <1>1, <1>3, HeadTailProperties, EmptySeq
<1>5. /\ f \in Frame /\ f.object = Top.object /\ f.rel = Top.rel /\ f.parents = Tail(Top.parents)
  BY ONLY <1>2, <1>4, UpdateParents DEF f
<1>6. search' =
        IF Len(search.stack) > MaxDepth \/ p \in V THEN [search EXCEPT !.stack = WithTop(f)]
        ELSE IF p \notin DOMAIN GrantedBy
          THEN [search EXCEPT !.stack = WithTop(f), !.visited = V \cup {p}]
        ELSE [search EXCEPT !.at = "role", !.stack = Append(WithTop(f), NewFrame(p)),
                            !.visited = V \cup {p}]
  BY DEF EnterParent
<1> HIDE DEF f, p
<1>7. /\ \A k \in 1..Len(f.parents) : Leads(f, f.parents[k], ever)
      /\ Leads(f, p, ever)
  BY <1>2, <1>4, <1>5 DEF Leads
<1>8. WithTop(f) \in Seq(Frame) /\ WithTop(f) # <<>> /\ StackStands(WithTop(f), V, ever)
  BY <1>1, <1>5, <1>7, WithTopStands
<1>9. /\ V \cup {p} \in SUBSET Object /\ StackStands(WithTop(f), V \cup {p}, ever)
  BY <1>1, <1>4, <1>8, StackGrows
<1>10. CASE Len(search.stack) > MaxDepth \/ p \in V
  <2>1. search' = [search EXCEPT !.stack = WithTop(f)]
    BY <1>6, <1>10
  <2>2. IsSearch(search', "parents", WithTop(f), V, search.groups, search.path)
    BY ONLY <1>1, <1>8, <2>1, UpdateStack DEF V
  <2> QED
    BY <1>8, <2>2, SearchGoesOn
<1>11. CASE ~(Len(search.stack) > MaxDepth \/ p \in V) /\ p \notin DOMAIN GrantedBy
  <2>1. search' = [search EXCEPT !.stack = WithTop(f), !.visited = V \cup {p}]
    BY <1>6, <1>11
  <2>2. IsSearch(search', "parents", WithTop(f), V \cup {p}, search.groups, search.path)
    BY ONLY <1>1, <1>8, <1>9, <2>1, UpdateStackVisited
  <2> QED
    BY <1>8, <1>9, <2>2, SearchGoesOn
<1>12. CASE ~(Len(search.stack) > MaxDepth \/ p \in V) /\ p \in DOMAIN GrantedBy
  <2> DEFINE st == Append(WithTop(f), NewFrame(p))
  <2>1. search' = [search EXCEPT !.at = "role", !.stack = st, !.visited = V \cup {p}]
    BY <1>6, <1>12
  <2>2. search.stack \in Seq(Frame) /\ Len(search.stack) \in Nat
    BY <1>2 DEF StackStands
  <2>3. Len(WithTop(f)) = Len(search.stack) /\ WithTop(f)[Len(search.stack)] = f
    BY <1>1, <1>5, <2>2, StackTop DEF WithTop, Below
  <2>4. Len(WithTop(f)) <= MaxDepth
    BY <1>12, <2>2, <2>3, ExplainAssumption
  <2>5. StackStands(st, V \cup {p}, ever)
    BY <1>7, <1>8, <1>12, <2>3, <2>4, FrameEntered
  <2>6. st \in Seq(Frame) /\ st # <<>>
    BY <1>8, <1>12, NewFrameIsFrame, AppendProperties
  <2> HIDE DEF st
  <2>7. IsSearch(search', "role", st, V \cup {p}, search.groups, search.path)
    BY ONLY <1>1, <1>9, <2>1, <2>6, UpdateAtStackVisited
  <2> QED
    BY <2>5, <2>6, <2>7, SearchGoesOn
<1> QED
  BY <1>10, <1>11, <1>12

LEMMA NextRelationHolds ==
  ASSUME ExplainInv, NextRelation, UNCHANGED <<tuples, ever, changes>>
  PROVE  ExplainInv'
<1> DEFINE f == [Top EXCEPT !.rel = Top.rel + 1]
<1>1. /\ search \in SearchRecord /\ search.stack # <<>> /\ "role" \in SearchAt
      /\ Top.parents = <<>>
  BY DEF ExplainInv, SearchAt, NextRelation
<1>2. Top \in Frame /\ Top.rel + 1 \in Nat \ {0}
  BY <1>1, TopOfSearch DEF Frame
<1>3. f \in Frame /\ f.object = Top.object /\ f.parents = Top.parents
  BY ONLY <1>2, UpdateRel DEF f
<1>4. search' = [search EXCEPT !.at = "role", !.stack = WithTop(f)]
  BY DEF NextRelation
<1> HIDE DEF f
<1>5. WithTop(f) \in Seq(Frame) /\ WithTop(f) # <<>> /\ StackStands(WithTop(f), search.visited, ever)
  BY <1>1, <1>3, WithTopStands, EmptySeq
<1>6. IsSearch(search', "role", WithTop(f), search.visited, search.groups, search.path)
  BY ONLY <1>1, <1>4, <1>5, UpdateAtStack
<1> QED
  BY <1>5, <1>6, SearchGoesOn

LEMMA ReturnHolds ==
  ASSUME ExplainInv, Return, UNCHANGED <<tuples, ever, changes>>
  PROVE  ExplainInv'
<1>1. /\ search \in SearchRecord /\ search.stack # <<>>
      /\ "told" \in SearchAt /\ "parents" \in SearchAt
      /\ StackStands(search.stack, search.visited, ever)
  BY DEF ExplainInv, SearchAt, Return, NoRoleLeft
<1>2. CASE Len(search.stack) = 1
  <2>1. search' = [search EXCEPT !.at = "told", !.truncated = TRUE]
    BY <1>2 DEF Return
  <2>2. IsSearch(search', "told", search.stack, search.visited, search.groups, search.path)
    BY ONLY <1>1, <2>1, UpdateAtTruncated
  <2> QED
    BY <1>1, <2>2, SearchGoesOn
<1>3. CASE Len(search.stack) # 1
  <2>1. search' = [search EXCEPT !.at = "parents", !.stack = Below]
    BY <1>3 DEF Return
  <2>2. search.stack \in Seq(Frame) /\ Len(search.stack) \in Nat \ {0}
    BY <1>1, EmptySeq DEF StackStands
  <2>3. Below \in Seq(Frame) /\ Len(Below) = Len(search.stack) - 1
    BY <1>1, <2>2, FrontOfStack DEF Below
  <2>4. Below # <<>>
    <3>1. Len(Below) # 0
      BY ONLY <1>3, <2>2, <2>3
    <3>2. Len(<<>>) = 0
      OBVIOUS
    <3> QED
      BY ONLY <3>1, <3>2
  <2>5. StackStands(Below, search.visited, ever)
    BY <1>1, FrameLeft DEF Below
  <2>6. IsSearch(search', "parents", Below, search.visited, search.groups, search.path)
    BY ONLY <1>1, <2>1, <2>3, UpdateAtStack
  <2> QED
    BY <2>4, <2>5, <2>6, SearchGoesOn
<1> QED
  BY <1>2, <1>3

LEMMA ExplainFailsHolds ==
  ASSUME ExplainInv, ExplainFails, UNCHANGED <<tuples, ever, changes>>
  PROVE  ExplainInv'
<1>1. /\ search \in SearchRecord /\ "failed" \in SearchAt
      /\ StackStands(search.stack, search.visited, ever)
  BY DEF ExplainInv, SearchAt
<1>2. search' = [search EXCEPT !.at = "failed"]
  BY DEF ExplainFails
<1>3. IsSearch(search', "failed", search.stack, search.visited, search.groups, search.path)
  BY ONLY <1>1, <1>2, UpdateAt
<1> QED
  BY <1>1, <1>3, SearchGoesOn

(* A write by others only adds to what was stored at some time. *)
LEMMA OthersWriteHolds ==
  ASSUME ExplainInv, OthersWrite
  PROVE  ExplainInv'
<1>1. search' = search /\ ever \subseteq ever' /\ tuples' \subseteq ever'
  BY DEF OthersWrite
<1>2. tuples' \subseteq Tuple /\ ever' \subseteq Tuple /\ changes' \in 0..ChangeBound
  <2>1. PICK t \in Tuple : tuples' = IF t \in tuples THEN tuples \ {t} ELSE tuples \cup {t}
    BY DEF OthersWrite
  <2>2. tuples' \subseteq Tuple
    BY <2>1 DEF ExplainInv
  <2> QED
    BY <2>2, ExplainAssumption DEF ExplainInv, OthersWrite
<1>3. StackStands(search'.stack, search'.visited, ever')
  BY <1>1, StackGrows DEF ExplainInv
<1>4. search.at = "member" => \A k \in 1..Len(search.groups) : Given(search.groups[k], ever)'
  BY <1>1 DEF ExplainInv, Given, Top, TopRole
<1>5. ExplanationNamesStoredTuples'
  BY <1>1, PathStays DEF ExplainInv
<1> QED
  BY <1>1, <1>2, <1>3, <1>4, <1>5 DEF ExplainInv, Top

-----------------------------------------------------------------------------
(* All steps together. *)
LEMMA ExplainStepHolds == ExplainInv /\ [ExplainNext]_explainVars => ExplainInv'
<1> SUFFICES ASSUME ExplainInv, [ExplainNext]_explainVars PROVE ExplainInv'
  OBVIOUS
<1>1. CASE Searching
  <2>1. UNCHANGED <<tuples, ever, changes>>
    BY <1>1 DEF Searching
  <2> QED
    BY <1>1, <2>1, DecideHolds, TryRoleHolds, ClassifyHolds, CheckMemberHolds, ReadParentsHolds,
       EnterParentHolds, NextRelationHolds, ReturnHolds, ExplainFailsHolds DEF Searching
<1>2. CASE OthersWrite
  BY <1>2, OthersWriteHolds
<1>3. CASE UNCHANGED explainVars
  <2>1. UNCHANGED <<tuples, search, ever, changes>>
    BY <1>3 DEF explainVars
  <2>2. ExplanationNamesStoredTuples'
    BY <2>1, PathStays DEF ExplainInv
  <2> QED
    BY <2>1, <2>2 DEF ExplainInv, Given, Top, TopRole
<1> QED
  BY <1>1, <1>2, <1>3 DEF ExplainNext

LEMMA ExplainInvHolds == ExplainSpec => []ExplainInv
BY ExplainInitHolds, ExplainStepHolds, PTL DEF ExplainSpec

(* The stack of findWitness is never deeper than maxDepth + 1, and no resource
   is on it twice, whatever cycles the parents form. *)
THEOREM SearchIsBounded == ExplainSpec => []ExplainTypeOK
BY ExplainInvHolds, ExplainTypeFollows, PTL

(* context.reason names only tuples that were stored at some time after the
   question was asked, linked from the resource asked about to the role, and no
   resource twice: for every hierarchy, whatever others write meanwhile. *)
THEOREM ReasonsNameStoredTuples == ExplainSpec => []ExplanationNamesStoredTuples
<1>1. ExplainInv => ExplanationNamesStoredTuples
  BY DEF ExplainInv
<1> QED
  BY <1>1, ExplainInvHolds, PTL
-----------------------------------------------------------------------------
(* What the decision finds, and what the search leaves behind.              *)

(* What Check allows is in every set that has the objects with the role, and
   their children's. *)
LEMMA AllowedWithin ==
  ASSUME NEW T, NEW C \in SUBSET DOMAIN GrantedBy, ByRole(T) \subseteq C, Inherited(T, C) \subseteq C
  PROVE  Allowed(T) \subseteq C
<1> DEFINE U == DOMAIN GrantedBy
           N == Cardinality(Object)
           start == ByRole(T)
           step == [K \in SUBSET U |-> K \cup Inherited(T, K)]
           g == CHOOSE g : g = [n \in 0..Cardinality(Object) |->
                                  IF n = 0 THEN ByRole(T) ELSE g[n - 1] \cup Inherited(T, g[n - 1])]
<1>1. Allowed(T) = g[N]
  BY DEF Allowed
<1>2. g = CHOOSE h : h = [n \in 0..N |-> IF n = 0 THEN start ELSE h[n - 1] \cup Inherited(T, h[n - 1])]
  OBVIOUS
<1> HIDE DEF g
<1>3. N \in Nat /\ IsFiniteSet(U) /\ Cardinality(U) <= N
  BY ExplainAssumption, FS_Subset, FS_CardinalityType
<1>4. \A K \in SUBSET U : K \cup Inherited(T, K) \in SUBSET U
  BY DEF Inherited
<1>4a. start \in SUBSET U
  BY DEF ByRole
<1>5. step \in [SUBSET U -> SUBSET U] /\ \A K \in SUBSET U : step[K] = K \cup Inherited(T, K)
  BY <1>4
<1>6. \A A, B : A \subseteq B => Inherited(T, A) \subseteq Inherited(T, B)
  BY DEF Inherited
<1>6a. ByRole(T) \subseteq C /\ Inherited(T, C) \subseteq C
  OBVIOUS
<1> HIDE DEF step, U, N, start
<1>7. PICK f \in [0..N -> SUBSET U] : Rounds(f, start, step, N)
  BY <1>3, <1>4a, <1>5, RoundsExist
<1>8. f = [n \in 0..N |-> IF n = 0 THEN start ELSE f[n - 1] \cup Inherited(T, f[n - 1])]
  <2> DEFINE h == [n \in 0..N |-> IF n = 0 THEN start ELSE f[n - 1] \cup Inherited(T, f[n - 1])]
  <2>1. \A n \in 0..N : f[n] = IF n = 0 THEN start ELSE f[n - 1] \cup Inherited(T, f[n - 1])
    <3> SUFFICES ASSUME NEW n \in 0..N, n # 0 PROVE f[n] = f[n - 1] \cup Inherited(T, f[n - 1])
      BY <1>7 DEF Rounds
    <3>1. n \in 1..N /\ n - 1 \in 0..N
      BY <1>3
    <3> QED
      BY <1>5, <1>7, <3>1 DEF Rounds
  <2>2. \A n \in 0..N : h[n] = f[n]
    BY <2>1
  <2>3. DOMAIN f = 0..N /\ DOMAIN h = 0..N /\ f = [n \in 0..N |-> f[n]] /\ h = [n \in 0..N |-> h[n]]
    OBVIOUS
  <2> HIDE DEF h
  <2>4. f = h
    BY <2>2, <2>3
  <2> QED
    BY <2>4 DEF h
<1>9. g = [n \in 0..N |-> IF n = 0 THEN start ELSE g[n - 1] \cup Inherited(T, g[n - 1])]
  BY <1>2, <1>8
<1> DEFINE e(n) == IF n = 0 THEN start ELSE g[n - 1] \cup Inherited(T, g[n - 1])
<1>10. g = [n \in 0..N |-> e(n)]
  BY <1>9
<1>11. DOMAIN g = 0..N /\ (\A n \in 0..N : g[n] = e(n)) /\ g = [n \in 0..N |-> g[n]]
  <2> HIDE DEF e
  <2> QED
    BY <1>10
<1> HIDE DEF e
<1>12. \A n \in Nat : n <= N => g[n] \subseteq C
  <2> DEFINE P(m) == m <= N => g[m] \subseteq C
             A == {m \in Nat : P(m)}
  <2>1. P(0)
    BY <1>3, <1>6a, <1>11 DEF e, start
  <2>2. ASSUME NEW m \in Nat, P(m) PROVE P(m + 1)
    <3> SUFFICES ASSUME m + 1 <= N PROVE g[m + 1] \subseteq C
      OBVIOUS
    <3>1. m + 1 \in 0..N /\ m + 1 # 0 /\ (m + 1) - 1 = m /\ m <= N
      BY <1>3
    <3>2. g[m + 1] = g[m] \cup Inherited(T, g[m])
      BY <1>11, <3>1 DEF e
    <3> QED
      BY <1>6, <1>6a, <2>2, <3>1, <3>2
  <2> HIDE DEF P
  <2>3. A = Nat
    <3>1. A \in SUBSET Nat /\ 0 \in A /\ \A n \in A : n + 1 \in A
      BY <2>1, <2>2
    <3> QED
      BY <3>1, NatSetInduction
  <2> QED
    BY <2>3 DEF P
<1> QED
  BY <1>1, <1>3, <1>12

(* What a Read returns comes whole, in whatever order. *)
LEMMA InSomeOrderIsAll ==
  ASSUME NEW S, IsFiniteSet(S), NEW s \in InSomeOrder(S)
  PROVE  s \in Seq(S) /\ \A x \in S : \E k \in 1..Len(s) : s[k] = x
<1> DEFINE n == Cardinality(S)
<1>1. n \in Nat /\ IsFiniteSet(1..n) /\ Cardinality(1..n) = n
  BY FS_CardinalityType, FS_Interval
<1>2. s \in [1..n -> S] /\ \A i, j \in DOMAIN s : s[i] = s[j] => i = j
  BY DEF InSomeOrder
<1> HIDE DEF n
<1>3. s \in Injection(1..n, S)
  BY <1>2 DEF Injection, IsInjective
<1>4. s \in Surjection(1..n, S)
  BY <1>1, <1>3, FS_Injection DEF n
<1>5. s \in Seq(S) /\ Len(s) = n
  BY <1>1, <1>2, IsASeq
<1> QED
  BY <1>4, <1>5 DEF Surjection

(* The objects that tuples name as parents of o, under its i-th relation. *)
ParentUsers(T, o, i) == {t.user : t \in Read(T, Inherits[o][i], o)} \cap Object

(* What was tried of o in vain: the roles before the i-th, and the relations
   before the i-th, whose parents were all visited. *)
RolesFail(T, o, i) == \A j \in DOMAIN GrantedBy[o] : j < i => ~Check(T, GrantedBy[o][j], o)
ParentsSeen(T, o, i, V) == \A j \in DOMAIN Inherits[o] : j < i => ParentUsers(T, o, j) \subseteq V
Explored(T, o, V) ==
  RolesFail(T, o, Len(GrantedBy[o]) + 1) /\ ParentsSeen(T, o, Len(Inherits[o]) + 1, V)

(* A frame that reads its parents, as all below the top do. *)
Waits(T, f, V) ==
  /\ f.role > Len(GrantedBy[f.object])
  /\ \A u \in ParentUsers(T, f.object, f.rel) : u \in V \/ \E k \in 1..Len(f.parents) : f.parents[k] = u

(* Every object that was visited is explored, or is on the stack; and the
   frames of the stack have come as far as they say.  The first n wait. *)
Progress(T, st, V, n) ==
  /\ \A o \in V \cap DOMAIN GrantedBy : Explored(T, o, V) \/ \E i \in 1..Len(st) : st[i].object = o
  /\ \A i \in 1..Len(st) : /\ RolesFail(T, st[i].object, st[i].role)
                           /\ ParentsSeen(T, st[i].object, st[i].rel, V)
  /\ \A i \in 1..n : Waits(T, st[i], V)

LEMMA ExploredGrows ==
  ASSUME NEW T, NEW V, NEW W, V \subseteq W
  PROVE  /\ \A o : Explored(T, o, V) => Explored(T, o, W)
         /\ \A o, i : ParentsSeen(T, o, i, V) => ParentsSeen(T, o, i, W)
         /\ \A f : Waits(T, f, V) => Waits(T, f, W)
<1>1. \A o, i : ParentsSeen(T, o, i, V) => ParentsSeen(T, o, i, W)
  BY DEF ParentsSeen
<1>2. \A f : Waits(T, f, V) => Waits(T, f, W)
  BY DEF Waits
<1> QED
  BY <1>1, <1>2 DEF Explored

(* The frame at the top moves on. *)
LEMMA ProgressMoves ==
  ASSUME NEW T, NEW V, NEW st \in Seq(Frame), st # <<>>, NEW f \in Frame,
         f.object = st[Len(st)].object, Progress(T, st, V, Len(st) - 1),
         RolesFail(T, f.object, f.role), ParentsSeen(T, f.object, f.rel, V)
  PROVE  LET s == Append(SubSeq(st, 1, Len(st) - 1), f)
         IN /\ Progress(T, s, V, Len(s) - 1)
            /\ Waits(T, f, V) => Progress(T, s, V, Len(s))
<1> DEFINE s == Append(SubSeq(st, 1, Len(st) - 1), f)
           n == Len(st)
<1>1. n \in Nat \ {0}
  BY EmptySeq
<1>2. /\ s \in Seq(Frame) /\ Len(s) = n /\ s[n] = f
      /\ \A i \in 1..(n - 1) : s[i] = st[i]
  BY StackTop
<1> HIDE DEF s
<1>3. \A i \in 1..n : i = n \/ i \in 1..(n - 1)
  BY <1>1
<1>4. \A i \in 1..n : s[i].object = st[i].object
  BY <1>2, <1>3
<1>5. \A o \in V \cap DOMAIN GrantedBy : Explored(T, o, V) \/ \E i \in 1..n : s[i].object = o
  BY <1>4 DEF Progress
<1>6. \A i \in 1..n : /\ RolesFail(T, s[i].object, s[i].role)
                      /\ ParentsSeen(T, s[i].object, s[i].rel, V)
  <2>1. \A i \in 1..n : /\ RolesFail(T, st[i].object, st[i].role)
                        /\ ParentsSeen(T, st[i].object, st[i].rel, V)
    BY DEF Progress
  <2>2. TAKE i \in 1..n
  <2>3. CASE i = n
    BY <1>2, <2>3
  <2>4. CASE i # n
    <3>1. s[i] = st[i]
      BY <1>2, <1>3, <2>4
    <3> QED
      BY <2>1, <3>1
  <2> QED
    BY <2>3, <2>4
<1>7. \A i \in 1..(n - 1) : Waits(T, s[i], V)
  <2>1. \A i \in 1..(n - 1) : Waits(T, st[i], V)
    BY DEF Progress
  <2> QED
    BY <1>2, <2>1
<1>8. Progress(T, s, V, n - 1)
  BY <1>2, <1>5, <1>6, <1>7 DEF Progress
<1>9. Waits(T, f, V) => Progress(T, s, V, n)
  <2>1. Waits(T, f, V) => \A i \in 1..n : Waits(T, s[i], V)
    BY <1>2, <1>3, <1>7
  <2> QED
    BY <1>2, <1>5, <1>6, <2>1 DEF Progress
<1> QED
  BY <1>2, <1>8, <1>9 DEF s

(* The next parent is taken from the frame at the top, and visited. *)
LEMMA ProgressEnters ==
  ASSUME NEW T, NEW V, NEW st \in Seq(Frame), st # <<>>, NEW f \in Frame, NEW p,
         f.object = st[Len(st)].object, f.role = st[Len(st)].role, f.rel = st[Len(st)].rel,
         \A k \in 1..Len(st[Len(st)].parents) :
           st[Len(st)].parents[k] = p \/ \E j \in 1..Len(f.parents) : f.parents[j] = st[Len(st)].parents[k],
         Progress(T, st, V, Len(st))
  PROVE  LET s == Append(SubSeq(st, 1, Len(st) - 1), f)
         IN /\ p \in V \/ p \notin DOMAIN GrantedBy => Progress(T, s, V \cup {p}, Len(s))
            /\ p \in DOMAIN GrantedBy =>
                 LET e == Append(s, NewFrame(p)) IN Progress(T, e, V \cup {p}, Len(e) - 1)
<1> DEFINE s == Append(SubSeq(st, 1, Len(st) - 1), f)
           e == Append(s, NewFrame(p))
           n == Len(st)
           W == V \cup {p}
<1>1. n \in Nat \ {0}
  BY EmptySeq
<1>2. /\ s \in Seq(Frame) /\ Len(s) = n /\ s[n] = f
      /\ \A i \in 1..(n - 1) : s[i] = st[i]
  BY StackTop
<1> HIDE DEF s
<1>3. \A i \in 1..n : i = n \/ i \in 1..(n - 1)
  BY <1>1
<1>4. \A i \in 1..n : s[i].object = st[i].object /\ s[i].role = st[i].role /\ s[i].rel = st[i].rel
  BY <1>2, <1>3
<1>5. V \subseteq W /\ p \in W
  OBVIOUS
<1> HIDE DEF W
<1>6. \A i \in 1..n : /\ RolesFail(T, s[i].object, s[i].role)
                      /\ ParentsSeen(T, s[i].object, s[i].rel, W)
  <2>1. \A i \in 1..n : /\ RolesFail(T, st[i].object, st[i].role)
                        /\ ParentsSeen(T, st[i].object, st[i].rel, V)
    BY DEF Progress
  <2> QED
    BY <1>4, <1>5, <2>1, ExploredGrows
<1>7. \A i \in 1..n : Waits(T, s[i], W)
  <2>1. \A i \in 1..n : Waits(T, st[i], V)
    BY DEF Progress
  <2>2. \A i \in 1..(n - 1) : Waits(T, s[i], W)
    <3>1. TAKE i \in 1..(n - 1)
    <3>2. s[i] = st[i] /\ i \in 1..n
      BY <1>1, <1>2
    <3> QED
      BY <1>5, <2>1, <3>2, ExploredGrows
  <2>3. Waits(T, f, W)
    <3>1. Waits(T, st[n], V)
      BY <1>1, <2>1
    <3> QED
      BY <1>5, <3>1 DEF Waits
  <2> QED
    BY <1>2, <1>3, <2>2, <2>3
<1>8. \A o \in V \cap DOMAIN GrantedBy : Explored(T, o, W) \/ \E i \in 1..n : s[i].object = o
  <2>1. \A o \in V \cap DOMAIN GrantedBy : Explored(T, o, V) \/ \E i \in 1..n : st[i].object = o
    BY DEF Progress
  <2> QED
    BY <1>4, <1>5, <2>1, ExploredGrows
<1>9. p \in V \/ p \notin DOMAIN GrantedBy => Progress(T, s, W, n)
  <2>1. p \in V \/ p \notin DOMAIN GrantedBy => W \cap DOMAIN GrantedBy = V \cap DOMAIN GrantedBy
    BY DEF W
  <2> QED
    BY <1>2, <1>6, <1>7, <1>8, <2>1 DEF Progress
<1>10. p \in DOMAIN GrantedBy => Progress(T, e, W, Len(e) - 1)
  <2> SUFFICES ASSUME p \in DOMAIN GrantedBy PROVE Progress(T, e, W, Len(e) - 1)
    OBVIOUS
  <2>1. /\ e \in Seq(Frame) /\ Len(e) = n + 1 /\ e[n + 1] = NewFrame(p)
        /\ \A i \in 1..n : e[i] = s[i]
    BY <1>1, <1>2, NewFrameIsFrame, AppendProperties
  <2>2. e[n + 1].object = p /\ e[n + 1].role = 1 /\ e[n + 1].rel = 1
    BY <2>1 DEF NewFrame
  <2> HIDE DEF e
  <2>3. RolesFail(T, p, 1) /\ ParentsSeen(T, p, 1, W)
    BY ExplainAssumption DEF RolesFail, ParentsSeen
  <2>4. \A i \in 1..(n + 1) : i = n + 1 \/ i \in 1..n
    BY <1>1
  <2>5. \A i \in 1..(n + 1) : /\ RolesFail(T, e[i].object, e[i].role)
                              /\ ParentsSeen(T, e[i].object, e[i].rel, W)
    BY <1>6, <2>1, <2>2, <2>3, <2>4
  <2>6. \A i \in 1..n : Waits(T, e[i], W)
    BY <1>7, <2>1
  <2>7. \A o \in W \cap DOMAIN GrantedBy : Explored(T, o, W) \/ \E i \in 1..(n + 1) : e[i].object = o
    <3>1. TAKE o \in W \cap DOMAIN GrantedBy
    <3>2. CASE o = p
      BY <1>1, <2>2, <3>2
    <3>3. CASE o \in V
      <4>1. Explored(T, o, W) \/ \E i \in 1..n : s[i].object = o
        BY <1>8, <3>3
      <4>2. \A i \in 1..n : i \in 1..(n + 1)
        BY <1>1
      <4> QED
        BY <2>1, <4>1, <4>2
    <3> QED
      BY <3>2, <3>3 DEF W
  <2>8. Len(e) - 1 = n
    BY <1>1, <2>1
  <2> QED
    BY <2>1, <2>5, <2>6, <2>7, <2>8 DEF Progress
<1> QED
  BY <1>2, <1>9, <1>10 DEF s, e, W

(* A frame is left when its roles and its relations are through. *)
LEMMA ProgressReturns ==
  ASSUME NEW T, NEW V, NEW st \in Seq(Frame), st # <<>>, Progress(T, st, V, Len(st) - 1),
         st[Len(st)].role > Len(GrantedBy[st[Len(st)].object]),
         st[Len(st)].rel > Len(Inherits[st[Len(st)].object])
  PROVE  LET s == SubSeq(st, 1, Len(st) - 1) IN Progress(T, s, V, Len(s))
<1> DEFINE s == SubSeq(st, 1, Len(st) - 1)
           n == Len(st)
           f == st[n]
<1>1. n \in Nat \ {0} /\ f \in Frame
  BY EmptySeq, ElementOfSeq
<1>2. s \in Seq(Frame) /\ Len(s) = n - 1 /\ \A i \in 1..(n - 1) : s[i] = st[i]
  BY FrontOfStack
<1> HIDE DEF s
<1>3. Explored(T, f.object, V)
  <2>1. RolesFail(T, f.object, f.role) /\ ParentsSeen(T, f.object, f.rel, V)
    BY <1>1 DEF Progress
  <2>2. /\ f.object \in DOMAIN GrantedBy /\ f.role \in Nat /\ f.rel \in Nat
        /\ GrantedBy[f.object] \in Seq(STRING) /\ Inherits[f.object] \in Seq(STRING)
    BY <1>1, ExplainAssumption DEF Frame
  <2>3. RolesFail(T, f.object, Len(GrantedBy[f.object]) + 1)
    BY <2>1, <2>2 DEF RolesFail
  <2>4. ParentsSeen(T, f.object, Len(Inherits[f.object]) + 1, V)
    BY <2>1, <2>2 DEF ParentsSeen
  <2> QED
    BY <2>3, <2>4 DEF Explored
<1>4. \A o \in V \cap DOMAIN GrantedBy : Explored(T, o, V) \/ \E i \in 1..(n - 1) : s[i].object = o
  <2>1. TAKE o \in V \cap DOMAIN GrantedBy
  <2>2. Explored(T, o, V) \/ \E i \in 1..n : st[i].object = o
    BY DEF Progress
  <2>3. ASSUME NEW i \in 1..n, st[i].object = o, ~Explored(T, o, V)
        PROVE  i \in 1..(n - 1) /\ s[i].object = o
    <3>1. i # n
      BY <1>3, <2>3
    <3>2. i \in 1..(n - 1)
      BY <1>1, <3>1
    <3> QED
      BY <1>2, <2>3, <3>2
  <2> QED
    BY <2>2, <2>3
<1>5. \A i \in 1..(n - 1) : /\ i \in 1..n /\ s[i] = st[i]
  BY <1>1, <1>2
<1>6. Progress(T, s, V, n - 1)
  BY <1>2, <1>4, <1>5 DEF Progress
<1> QED
  BY <1>2, <1>6 DEF s

(* Where all that was visited is explored, nothing of it is allowed. *)
LEMMA ExploredIsDenied ==
  ASSUME NEW T, NEW V, \A o \in V \cap DOMAIN GrantedBy : Explored(T, o, V)
  PROVE  \A o \in V : o \notin Allowed(T)
<1> DEFINE C == DOMAIN GrantedBy \ V
<1>0. \A o \in DOMAIN GrantedBy : GrantedBy[o] \in Seq(STRING) /\ Inherits[o] \in Seq(STRING)
  BY ExplainAssumption
<1>1. ByRole(T) \subseteq C
  <2> SUFFICES ASSUME NEW o \in ByRole(T), o \in V PROVE FALSE
    BY DEF ByRole
  <2>1. o \in DOMAIN GrantedBy
    BY DEF ByRole
  <2>2. PICK i \in DOMAIN GrantedBy[o] : Check(T, GrantedBy[o][i], o)
    BY DEF ByRole
  <2> QED
    BY <1>0, <2>1, <2>2 DEF Explored, RolesFail
<1>2. Inherited(T, C) \subseteq C
  <2> SUFFICES ASSUME NEW o \in Inherited(T, C), o \in V PROVE FALSE
    BY DEF Inherited
  <2>1. o \in DOMAIN GrantedBy
    BY DEF Inherited
  <2>2a. PICK i \in DOMAIN Inherits[o] : \E t \in Read(T, Inherits[o][i], o) : t.user \in C
    BY DEF Inherited
  <2>2. PICK t \in Read(T, Inherits[o][i], o) : t.user \in C
    BY <2>2a
  <2>3. t.user \in ParentUsers(T, o, i)
    BY <2>2, ExplainAssumption DEF ParentUsers
  <2>4. ParentUsers(T, o, i) \subseteq V
    BY <1>0, <2>1, <2>2 DEF Explored, ParentsSeen
  <2> QED
    BY <2>2, <2>3, <2>4
<1>3. Allowed(T) \subseteq C
  BY <1>1, <1>2, AllowedWithin
<1> QED
  BY <1>3
-----------------------------------------------------------------------------
(* The explanation of a decision while nothing is written.                  *)

Deep == \E p \in [0..(MaxDepth + 1) -> Object] : Chain(MaxDepth + 1, p)

(* Where the depth guard turns a parent away that was not visited, the stack
   and that parent are a chain deeper than the search. *)
LEMMA TooDeepIsDeep ==
  ASSUME NEW st, NEW V, StackStands(st, V, tuples), Len(st) = MaxDepth + 1,
         NEW p \in Object, p \notin V, Leads(st[Len(st)], p, tuples)
  PROVE  Deep
<1> DEFINE N == MaxDepth + 1
           q == [i \in 0..N |-> IF i = N THEN p ELSE st[i + 1].object]
<1>1. N \in Nat \ {0} /\ Len(st) = N /\ st \in Seq(Frame)
  BY ExplainAssumption DEF StackStands
<1>2. \A i \in 1..N : st[i] \in Frame
  BY <1>1, ElementOfSeq
<1> HIDE DEF N
<1>3. \A i \in 0..N : i # N => i + 1 \in 1..N /\ i + 1 \in 1..Len(st)
  BY <1>1
<1>4. \A i \in 1..N : st[i].object \in Object /\ st[i].object \in DOMAIN GrantedBy
  BY <1>2, ExplainAssumption DEF Frame
<1>5. q \in [0..N -> Object] /\ q[N] = p /\ \A i \in 0..N : i # N => q[i] = st[i + 1].object
  BY <1>1, <1>3, <1>4
<1> HIDE DEF q
<1>6. q[0] = Root
  <2>1. 0 \in 0..N /\ 0 # N /\ 0 + 1 = 1
    BY <1>1
  <2>2. st[1].object = Root
    BY <1>1, EmptySeq DEF StackStands
  <2>3. q[0] = st[0 + 1].object
    BY <1>5, <2>1
  <2> QED
    BY <2>1, <2>2, <2>3
<1>7. \A i \in 0..N : i # N => q[i] # p
  <2>1. \A i \in 1..Len(st) : st[i].object # p
    BY DEF StackStands
  <2> QED
    BY <1>3, <1>5, <2>1
<1>8. ASSUME NEW i \in 0..N, NEW j \in 0..N, q[i] = q[j] PROVE i = j
  <2>1. CASE i = N \/ j = N
    BY <1>5, <1>7, <1>8, <2>1
  <2>2. CASE i # N /\ j # N
    <3>1. st[i + 1].object = st[j + 1].object /\ i + 1 \in 1..Len(st) /\ j + 1 \in 1..Len(st)
      BY <1>3, <1>5, <1>8, <2>2
    <3>2. i + 1 = j + 1
      BY <3>1 DEF StackStands
    <3> QED
      BY <1>1, <3>2
  <2> QED
    BY <2>1, <2>2
<1>9. ASSUME NEW i \in 1..N
      PROVE  /\ q[i - 1] \in DOMAIN GrantedBy
             /\ \E k \in DOMAIN Inherits[q[i - 1]], t \in tuples :
                  /\ t.relation = Inherits[q[i - 1]][k]
                  /\ t.object = q[i - 1] /\ t.user = q[i]
  <2>1. i - 1 \in 0..N /\ i - 1 # N /\ (i - 1) + 1 = i
    BY <1>1
  <2>2. q[i - 1] = st[i].object
    BY <1>5, <2>1
  <2>3. Leads(st[i], q[i], tuples)
    <3>1. CASE i = N
      BY <1>1, <1>5, <3>1
    <3>2. CASE i # N
      <4>1. i \in 1..(Len(st) - 1) /\ i \in 0..N
        BY <1>1, <3>2
      <4> QED
        BY <1>5, <3>2, <4>1 DEF StackStands
    <3> QED
      BY <3>1, <3>2
  <2>4. st[i].rel \in DOMAIN Inherits[st[i].object]
    <3>1. Inherits[st[i].object] \in Seq(STRING)
      BY <1>4, ExplainAssumption
    <3>2. st[i].rel \in Nat \ {0} /\ st[i].rel <= Len(Inherits[st[i].object])
      BY <1>2, <2>3 DEF Leads, Frame
    <3> QED
      BY <3>1, <3>2
  <2> QED
    BY <1>4, <2>2, <2>3, <2>4 DEF Leads
<1>10. Chain(N, q)
  BY <1>6, <1>8, <1>9 DEF Chain
<1> QED
  BY <1>5, <1>10 DEF Deep, N

(* The search while nothing is written: what decided is still so, every
   object left behind was in vain, and the role that was allowed is about to
   be explained; unless a parent was turned away for its depth. *)
InSearch == {"role", "classify", "member", "parents"}

QuietSearch ==
  /\ Root \in Allowed(tuples) /\ ever = tuples
  /\ search.at = "role" =>
       Deep \/ Progress(tuples, search.stack, search.visited, Len(search.stack) - 1)
  /\ search.at = "parents" =>
       Deep \/ Progress(tuples, search.stack, search.visited, Len(search.stack))
  /\ search.at \in {"classify", "member"} => Check(tuples, TopRole, Top.object)
  /\ search.at = "member" =>
       \E k \in 1..Len(search.groups) : Check(tuples, "member", search.groups[k])

QuietInv ==
  /\ search.at = "asked" => ~search.allowed /\ ever = tuples
  /\ search.at # "told" => search.path = <<>>
  /\ Quiet /\ search.at \in InSearch => QuietSearch
  /\ QuietDecisionIsExplained

LEMMA QuietInitHolds == ExplainInit => QuietInv
<1> SUFFICES ASSUME ExplainInit PROVE QuietInv
  OBVIOUS
<1>1. search.at = "asked" /\ ~search.allowed /\ search.path = <<>>
  BY DEF ExplainInit, NoSearch
<1> QED
  BY <1>1 DEF ExplainInit, QuietInv, QuietDecisionIsExplained, InSearch

(* A complete path is told. *)
LEMMA QuietTells ==
  ASSUME ExplainInv, QuietInv, search.at \in {"classify", "member"},
         UNCHANGED <<tuples, ever, changes>>,
         NEW direct \in BOOLEAN, NEW group \in Group \cup {"none"},
         direct => Given(User, ever), group # "none" => Given(group, ever),
         Tell(RoleStep(direct, group), FALSE)
  PROVE  QuietInv'
<1>1. /\ ExplainInv'
      /\ search'.path # <<>> /\ search'.truncated = FALSE
      /\ search'.path[Len(search'.path)].role = TopRole
      /\ StepObject(Len(search.path))' = Top.object
  BY TellSteps
<1>2. search'.at = "told"
  BY DEF Tell, ExplainInv, SearchRecord
<1>3. ASSUME Quiet'
      PROVE  /\ search'.path # <<>> /\ ~search'.truncated
             /\ \A i \in 1..Len(search'.path) : IF search'.path[i].via = "parent"
                  THEN ParentStored(tuples, i)'
                  ELSE /\ RoleStored(tuples, i)'
                       /\ Check(tuples', search'.path[i].role, StepObject(i)')
  <2>1. Quiet /\ search.at \in InSearch
    BY <1>3 DEF Quiet, InSearch
  <2>2. ever' = tuples' /\ Check(tuples', TopRole, Top.object)
    BY <2>1 DEF QuietInv, QuietSearch
  <2>3. ExplanationNamesStoredTuples' /\ search'.path \in Seq(Step)
    BY <1>1 DEF ExplainInv, SearchRecord
  <2>4. ASSUME NEW i \in 1..Len(search'.path), search'.path[i].via = "parent"
        PROVE  ParentStored(tuples, i)'
    BY <2>2, <2>3, <2>4 DEF ExplanationNamesStoredTuples, ParentStored
  <2>5. ASSUME NEW i \in 1..Len(search'.path), search'.path[i].via # "parent"
        PROVE  RoleStored(tuples, i)' /\ Check(tuples', search'.path[i].role, StepObject(i)')
    <3>1. search'.path[i].via = "role"
      <4>1. search'.path[i] \in Step
        BY <2>3, ElementOfSeq
      <4> QED
        BY <2>5, <4>1 DEF Step
    <3>2. i = Len(search'.path) /\ RoleStored(ever, i)'
      BY <2>3, <3>1 DEF ExplanationNamesStoredTuples
    <3> QED
      BY <1>1, <2>2, <3>2 DEF RoleStored
  <2> QED
    BY <1>1, <2>4, <2>5
<1>4. QuietDecisionIsExplained'
  BY <1>3 DEF QuietDecisionIsExplained
<1> QED
  BY <1>2, <1>4 DEF QuietInv, InSearch

(* A step that tells nothing. *)
LEMMA QuietGoesOn ==
  ASSUME ExplainInv, QuietInv, UNCHANGED <<tuples, ever, changes>>,
         search.at # "told", search'.at \notin {"asked", "told"}, search'.path = search.path,
         Quiet /\ search'.at \in InSearch => QuietSearch'
  PROVE  QuietInv'
<1>1. QuietDecisionIsExplained'
  BY DEF QuietDecisionIsExplained
<1> QED
  BY <1>1 DEF QuietInv, Quiet

(* A step of the search keeps what is said of it while nothing is written. *)
LEMMA QuietSearches ==
  ASSUME ExplainInv, QuietInv, UNCHANGED <<tuples, ever, changes>>, search.at \in InSearch,
         NEW a, NEW st, NEW v, NEW g, IsSearch(search', a, st, v, g, search.path),
         a \notin {"asked", "told"},
         Quiet /\ QuietSearch /\ a \in InSearch =>
           /\ a = "role" => Deep \/ Progress(tuples, st, v, Len(st) - 1)
           /\ a = "parents" => Deep \/ Progress(tuples, st, v, Len(st))
           /\ a \in {"classify", "member"} => st = search.stack /\ Check(tuples, TopRole, Top.object)
           /\ a = "member" => \E k \in 1..Len(g) : Check(tuples, "member", g[k])
  PROVE  QuietInv'
<1>1. /\ search'.at = a /\ search'.stack = st /\ search'.visited = v /\ search'.groups = g
      /\ search'.path = search.path
  BY DEF IsSearch
<1>2. Deep' <=> Deep
  BY DEF Deep, Chain
<1>3. st = search.stack => Top' = Top /\ TopRole' = TopRole
  BY <1>1 DEF Top, TopRole
<1>4. Quiet /\ search'.at \in InSearch => QuietSearch'
  <2> SUFFICES ASSUME Quiet, a \in InSearch PROVE QuietSearch'
    BY <1>1
  <2>1. QuietSearch
    BY DEF QuietInv
  <2>2. /\ a = "role" => Deep \/ Progress(tuples, st, v, Len(st) - 1)
        /\ a = "parents" => Deep \/ Progress(tuples, st, v, Len(st))
        /\ a \in {"classify", "member"} => st = search.stack /\ Check(tuples, TopRole, Top.object)
        /\ a = "member" => \E k \in 1..Len(g) : Check(tuples, "member", g[k])
    BY <2>1
  <2> QED
    BY <1>1, <1>2, <1>3, <2>1, <2>2 DEF QuietSearch
<1>5. search.at # "told"
  BY DEF InSearch
<1> QED
  BY <1>1, <1>4, <1>5, QuietGoesOn

LEMMA QuietDecide ==
  ASSUME ExplainInv, QuietInv, Decide, UNCHANGED <<tuples, ever, changes>>
  PROVE  QuietInv'
<1>1. /\ search \in SearchRecord /\ search.at = "asked" /\ ~search.allowed /\ ever = tuples
      /\ search.path = <<>>
  BY DEF ExplainInv, QuietInv, Decide
<1>2. CASE Root \in Allowed(tuples)
  <2> DEFINE st == <<NewFrame(Root)>>
  <2>1. search' = [search EXCEPT !.at = "role", !.allowed = TRUE, !.stack = st, !.visited = {Root}]
    BY <1>2 DEF Decide
  <2>2. /\ st \in Seq(Frame) /\ Len(st) = 1 /\ st[1].object = Root /\ st[1].role = 1 /\ st[1].rel = 1
    BY NewFrameIsFrame, ExplainAssumption DEF NewFrame
  <2> HIDE DEF st
  <2>3. search'.at = "role" /\ search'.stack = st /\ search'.visited = {Root} /\ search'.path = <<>>
    BY <1>1, <2>1 DEF SearchRecord
  <2>4. RolesFail(tuples, Root, 1) /\ ParentsSeen(tuples, Root, 1, {Root})
    BY ExplainAssumption DEF RolesFail, ParentsSeen
  <2>5. Progress(tuples, st, {Root}, 0)
    BY <2>2, <2>4 DEF Progress
  <2>6. Progress(tuples', search'.stack, search'.visited, Len(search'.stack) - 1)
    <3>1. Len(st) - 1 = 0
      BY <2>2
    <3>2. Progress(tuples, st, {Root}, Len(st) - 1)
      BY ONLY <2>5, <3>1
    <3> QED
      BY <2>3, <3>2
  <2>7. QuietSearch'
    BY <1>1, <1>2, <2>3, <2>6 DEF QuietSearch
  <2> QED
    BY <1>1, <2>3, <2>7, QuietGoesOn
<1>3. CASE Root \notin Allowed(tuples)
  <2>1. search' = [search EXCEPT !.at = "told"]
    BY <1>3 DEF Decide
  <2>2. search'.at = "told" /\ search'.allowed = FALSE
    BY <1>1, <2>1 DEF SearchRecord
  <2> QED
    BY <2>2 DEF QuietInv, QuietDecisionIsExplained, InSearch
<1> QED
  BY <1>2, <1>3

LEMMA QuietTryRole ==
  ASSUME ExplainInv, QuietInv, TryRole, UNCHANGED <<tuples, ever, changes>>
  PROVE  QuietInv'
<1>1. /\ search \in SearchRecord /\ search.stack # <<>> /\ search.at = "role" /\ search.at \in InSearch
      /\ "classify" \in SearchAt /\ Top.role <= Len(GrantedBy[Top.object])
  BY DEF ExplainInv, TryRole, SearchAt, InSearch
<1>2. CASE Check(tuples, TopRole, Top.object)
  <2>1. search' = [search EXCEPT !.at = "classify"]
    BY <1>2 DEF TryRole
  <2>2. IsSearch(search', "classify", search.stack, search.visited, search.groups, search.path)
    BY ONLY <1>1, <2>1, UpdateAt
  <2> QED
    BY <1>1, <1>2, <2>2, QuietSearches
<1>3. CASE ~Check(tuples, TopRole, Top.object)
  <2> DEFINE f == [Top EXCEPT !.role = Top.role + 1]
  <2>1. /\ Top \in Frame /\ Top.role + 1 \in Nat \ {0} /\ Top = search.stack[Len(search.stack)]
        /\ Top.object \in DOMAIN GrantedBy /\ search.stack \in Seq(Frame)
    BY <1>1, TopOfSearch DEF Frame, StackStands
  <2>2. f \in Frame /\ f.object = Top.object /\ f.rel = Top.rel /\ f.parents = Top.parents
    BY ONLY <2>1, UpdateRole DEF f
  <2>3. f.role = Top.role + 1
    BY ONLY <2>1 DEF f, Frame
  <2>4. search' = [search EXCEPT !.stack = WithTop(f)]
    BY <1>3 DEF TryRole
  <2> HIDE DEF f
  <2>5. WithTop(f) \in Seq(Frame)
    BY <1>1, <2>1, <2>2, StackTop DEF WithTop, Below
  <2>6. IsSearch(search', "role", WithTop(f), search.visited, search.groups, search.path)
    BY ONLY <1>1, <2>4, <2>5, UpdateStack
  <2>7. ASSUME Progress(tuples, search.stack, search.visited, Len(search.stack) - 1)
        PROVE  Progress(tuples, WithTop(f), search.visited, Len(WithTop(f)) - 1)
    <3>1. /\ RolesFail(tuples, Top.object, Top.role)
          /\ ParentsSeen(tuples, Top.object, Top.rel, search.visited)
      <4>1. Len(search.stack) \in 1..Len(search.stack)
        BY <1>1, TopOfSearch
      <4> QED
        BY <2>1, <2>7, <4>1 DEF Progress
    <3>2. RolesFail(tuples, f.object, f.role)
      <4>1. GrantedBy[Top.object] \in Seq(STRING) /\ Top.role \in Nat
        BY <2>1, ExplainAssumption DEF Frame
      <4> QED
        BY <1>3, <2>2, <2>3, <3>1, <4>1 DEF RolesFail, TopRole
    <3> QED
      BY <1>1, <2>1, <2>2, <2>7, <3>1, <3>2, ProgressMoves DEF WithTop, Below
  <2>8. QuietSearch => Deep \/ Progress(tuples, WithTop(f), search.visited, Len(WithTop(f)) - 1)
    BY <1>1, <2>7 DEF QuietSearch
  <2> HIDE DEF WithTop
  <2> QED
    BY <1>1, <2>6, <2>8, QuietSearches
<1> QED
  BY <1>2, <1>3

LEMMA QuietClassify ==
  ASSUME ExplainInv, QuietInv, Classify, UNCHANGED <<tuples, ever, changes>>
  PROVE  QuietInv'
<1> DEFINE found == Read(tuples, TopRole, Top.object)
           users == {t.user : t \in found}
<1>1. /\ search \in SearchRecord /\ search.stack # <<>> /\ "member" \in SearchAt
      /\ search.at = "classify" /\ search.at \in InSearch /\ tuples \subseteq ever
  BY DEF ExplainInv, SearchAt, Classify, InSearch
<1>2. CASE \E t \in found : t.user = User
  <2>1. Tell(RoleStep(TRUE, "none"), FALSE)
    BY <1>2 DEF Classify
  <2>2. Given(User, ever)
    BY <1>1, <1>2 DEF Read, Given
  <2> HIDE DEF found
  <2> QED
    BY <1>1, <2>1, <2>2, QuietTells
<1>3. CASE ~ \E t \in found : t.user = User
  <2> DEFINE S == users \cap Group
  <2>1. PICK s \in InSomeOrder(S) : search' = [search EXCEPT !.at = "member", !.groups = s]
    BY <1>3 DEF Classify
  <2>2. QuietSearch => \E g \in S : Check(tuples, "member", g)
    <3> SUFFICES ASSUME QuietSearch PROVE \E g \in S : Check(tuples, "member", g)
      OBVIOUS
    <3>1. Check(tuples, TopRole, Top.object)
      BY <1>1 DEF QuietSearch
    <3>2. ~Direct(tuples, TopRole, Top.object)
      BY <1>3 DEF Direct, Read
    <3>3. PICK t \in tuples : /\ t.relation = TopRole /\ t.object = Top.object
                              /\ t.user \in Group /\ Direct(tuples, "member", t.user)
      BY <3>1, <3>2 DEF Check
    <3>4. t.user \in S
      BY <3>3 DEF Read
    <3> QED
      BY <3>3, <3>4 DEF Check
  <2>3. IsFiniteSet(S) /\ S \subseteq Group
    BY ExplainAssumption, FS_Subset
  <2> HIDE DEF S, found, users
  <2>4. s \in Seq(S) /\ \A x \in S : \E k \in 1..Len(s) : s[k] = x
    BY <2>3, InSomeOrderIsAll
  <2>5. s \in Seq(Group)
    BY <2>3, <2>4
  <2>6. IsSearch(search', "member", search.stack, search.visited, s, search.path)
    BY ONLY <1>1, <2>1, <2>5, UpdateAtGroups
  <2>7. QuietSearch => /\ Check(tuples, TopRole, Top.object)
                       /\ \E k \in 1..Len(s) : Check(tuples, "member", s[k])
    BY <1>1, <2>2, <2>4 DEF QuietSearch
  <2> QED
    BY <1>1, <2>6, <2>7, QuietSearches
<1> QED
  BY <1>2, <1>3

LEMMA QuietCheckMember ==
  ASSUME ExplainInv, QuietInv, CheckMember, UNCHANGED <<tuples, ever, changes>>
  PROVE  QuietInv'
<1> DEFINE groups == search.groups
<1>1. /\ search \in SearchRecord /\ search.at = "member" /\ search.at \in InSearch
      /\ groups \in Seq(Group) /\ \A k \in 1..Len(groups) : Given(groups[k], ever)
  BY DEF ExplainInv, SearchRecord, CheckMember, InSearch
<1>2. QuietSearch => \E k \in 1..Len(groups) : Check(tuples, "member", groups[k])
  BY <1>1 DEF QuietSearch
<1>3. CASE groups = <<>>
  <2>1. Tell(RoleStep(FALSE, "none"), TRUE)
    BY <1>3 DEF CheckMember
  <2>2. search'.at = "told"
    BY <1>1, <2>1 DEF Tell, SearchRecord
  <2>3. ~Quiet
    BY <1>1, <1>2, <1>3 DEF QuietInv
  <2>4. ~Quiet'
    BY <2>3 DEF Quiet
  <2> QED
    BY <2>2, <2>4 DEF QuietInv, QuietDecisionIsExplained, InSearch
<1>4. CASE groups # <<>>
  <2>1. /\ Head(groups) \in Group /\ Head(groups) = groups[1] /\ 1 \in 1..Len(groups)
        /\ Tail(groups) \in Seq(Group) /\ Len(Tail(groups)) = Len(groups) - 1
        /\ \A k \in 1..Len(Tail(groups)) : Tail(groups)[k] = groups[k + 1]
    BY <1>1, <1>4, HeadTailProperties, EmptySeq
  <2>2. CASE Check(tuples, "member", Head(groups))
    <3>1. Tell(RoleStep(FALSE, Head(groups)), FALSE)
      BY <1>4, <2>2 DEF CheckMember
    <3>2. Given(Head(groups), ever)
      BY <1>1, <2>1
    <3> QED
      BY <1>1, <2>1, <3>1, <3>2, QuietTells
  <2>3. CASE ~Check(tuples, "member", Head(groups))
    <3>1. search' = [search EXCEPT !.groups = Tail(groups)]
      BY <1>4, <2>3 DEF CheckMember
    <3>2. IsSearch(search', "member", search.stack, search.visited, Tail(groups), search.path)
      BY ONLY <1>1, <2>1, <3>1, UpdateGroups
    <3>3. QuietSearch => \E k \in 1..Len(Tail(groups)) : Check(tuples, "member", Tail(groups)[k])
      <4> SUFFICES ASSUME QuietSearch
                   PROVE  \E k \in 1..Len(Tail(groups)) : Check(tuples, "member", Tail(groups)[k])
        OBVIOUS
      <4>1. PICK k \in 1..Len(groups) : Check(tuples, "member", groups[k])
        BY <1>2
      <4>2. k # 1
        BY <2>1, <2>3, <4>1
      <4>3. k - 1 \in 1..Len(Tail(groups)) /\ (k - 1) + 1 = k
        BY <1>1, <2>1, <4>2
      <4>4. Tail(groups)[k - 1] = groups[k]
        BY <2>1, <4>3
      <4> QED
        BY <4>1, <4>3, <4>4
    <3>4. QuietSearch => Check(tuples, TopRole, Top.object)
      BY <1>1 DEF QuietSearch
    <3> QED
      BY <1>1, <3>2, <3>3, <3>4, QuietSearches
  <2> QED
    BY <2>2, <2>3
<1> QED
  BY <1>3, <1>4

LEMMA QuietReadParents ==
  ASSUME ExplainInv, QuietInv, ReadParents, UNCHANGED <<tuples, ever, changes>>
  PROVE  QuietInv'
<1> DEFINE S == {t.user : t \in Read(tuples, Inherits[Top.object][Top.rel], Top.object)} \cap Object
<1>1. /\ search \in SearchRecord /\ search.stack # <<>> /\ "parents" \in SearchAt
      /\ search.at = "role" /\ search.at \in InSearch
      /\ Top.role > Len(GrantedBy[Top.object])
  BY DEF ExplainInv, SearchAt, ReadParents, NoRoleLeft, InSearch
<1>2. /\ Top \in Frame /\ Top = search.stack[Len(search.stack)] /\ search.stack \in Seq(Frame)
      /\ Len(search.stack) \in 1..Len(search.stack)
  BY <1>1, TopOfSearch DEF StackStands
<1>3. PICK s \in InSomeOrder(S) :
        search' = [search EXCEPT !.at = "parents", !.stack = WithTop([Top EXCEPT !.parents = s])]
  BY DEF ReadParents
<1>4. S = ParentUsers(tuples, Top.object, Top.rel)
  BY DEF ParentUsers
<1>5. IsFiniteSet(S) /\ S \subseteq Object
  BY ExplainAssumption, FS_Subset
<1> HIDE DEF S
<1>6. s \in Seq(S) /\ \A x \in S : \E k \in 1..Len(s) : s[k] = x
  BY <1>5, InSomeOrderIsAll
<1>7. s \in Seq(Object)
  BY <1>5, <1>6
<1> DEFINE f == [Top EXCEPT !.parents = s]
<1>8. f \in Frame /\ f.object = Top.object /\ f.rel = Top.rel /\ f.parents = s
  BY ONLY <1>2, <1>7, UpdateParents DEF f
<1>9. f.role = Top.role
  BY ONLY <1>2 DEF f, Frame
<1>10. search' = [search EXCEPT !.at = "parents", !.stack = WithTop(f)]
  BY <1>3
<1> HIDE DEF f
<1>11. WithTop(f) \in Seq(Frame)
  BY <1>1, <1>2, <1>8, StackTop DEF WithTop, Below
<1>12. IsSearch(search', "parents", WithTop(f), search.visited, search.groups, search.path)
  BY ONLY <1>1, <1>10, <1>11, UpdateAtStack
<1>13. Waits(tuples, f, search.visited)
  BY <1>1, <1>4, <1>6, <1>8, <1>9 DEF Waits
<1>14. ASSUME Progress(tuples, search.stack, search.visited, Len(search.stack) - 1)
       PROVE  Progress(tuples, WithTop(f), search.visited, Len(WithTop(f)))
  <2>1. /\ RolesFail(tuples, f.object, f.role)
        /\ ParentsSeen(tuples, f.object, f.rel, search.visited)
    BY <1>2, <1>8, <1>9, <1>14 DEF Progress
  <2> QED
    BY <1>1, <1>2, <1>8, <1>13, <1>14, <2>1, ProgressMoves DEF WithTop, Below
<1>15. QuietSearch => Deep \/ Progress(tuples, WithTop(f), search.visited, Len(WithTop(f)))
  BY <1>1, <1>14 DEF QuietSearch
<1> HIDE DEF WithTop
<1> QED
  BY <1>1, <1>12, <1>15, QuietSearches

LEMMA QuietEnterParent ==
  ASSUME ExplainInv, QuietInv, EnterParent, UNCHANGED <<tuples, ever, changes>>
  PROVE  QuietInv'
<1> DEFINE p == Head(Top.parents)
           f == [Top EXCEPT !.parents = Tail(Top.parents)]
           V == search.visited
<1>1. /\ search \in SearchRecord /\ search.stack # <<>> /\ "role" \in SearchAt
      /\ search.at = "parents" /\ V \in SUBSET Object /\ Top.parents # <<>>
      /\ search.at \in InSearch
  BY DEF ExplainInv, SearchRecord, SearchAt, EnterParent, InSearch
<1>2. /\ Top \in Frame /\ Top = search.stack[Len(search.stack)]
      /\ StackStands(search.stack, V, ever) /\ search.stack \in Seq(Frame)
      /\ \A k \in 1..Len(Top.parents) : Leads(Top, Top.parents[k], ever)
      /\ Len(search.stack) \in Nat
  BY <1>1, TopOfSearch DEF StackStands
<1>3. Top.parents \in Seq(Object)
  BY <1>2 DEF Frame
<1>4. /\ p \in Object /\ p = Top.parents[1] /\ 1 \in 1..Len(Top.parents)
      /\ Tail(Top.parents) \in Seq(Object) /\ Len(Tail(Top.parents)) = Len(Top.parents) - 1
      /\ \A k \in 1..Len(Tail(Top.parents)) : Tail(Top.parents)[k] = Top.parents[k + 1]
  BY <1>1, <1>3, HeadTailProperties, EmptySeq
<1>5. /\ f \in Frame /\ f.object = Top.object /\ f.rel = Top.rel /\ f.parents = Tail(Top.parents)
  BY ONLY <1>2, <1>4, UpdateParents DEF f
<1>6. f.role = Top.role
  BY ONLY <1>2 DEF f, Frame
<1>7. search' =
        IF Len(search.stack) > MaxDepth \/ p \in V THEN [search EXCEPT !.stack = WithTop(f)]
        ELSE IF p \notin DOMAIN GrantedBy
          THEN [search EXCEPT !.stack = WithTop(f), !.visited = V \cup {p}]
        ELSE [search EXCEPT !.at = "role", !.stack = Append(WithTop(f), NewFrame(p)),
                            !.visited = V \cup {p}]
  BY DEF EnterParent
<1> HIDE DEF f, p
<1>8. \A k \in 1..Len(Top.parents) :
        Top.parents[k] = p \/ \E j \in 1..Len(f.parents) : f.parents[j] = Top.parents[k]
  <2>1. TAKE k \in 1..Len(Top.parents)
  <2>2. CASE k = 1
    BY <1>4, <2>2
  <2>3. CASE k # 1
    <3>1. k - 1 \in 1..Len(Tail(Top.parents)) /\ (k - 1) + 1 = k
      BY <1>3, <1>4, <2>3
    <3>2. Tail(Top.parents)[k - 1] = Top.parents[k]
      BY <1>4, <3>1
    <3> QED
      BY <1>5, <3>1, <3>2
  <2> QED
    BY <2>2, <2>3
<1>9. ASSUME Progress(tuples, search.stack, V, Len(search.stack))
      PROVE  /\ p \in V \/ p \notin DOMAIN GrantedBy =>
                  Progress(tuples, WithTop(f), V \cup {p}, Len(WithTop(f)))
             /\ p \in DOMAIN GrantedBy =>
                  Progress(tuples, Append(WithTop(f), NewFrame(p)), V \cup {p},
                           Len(Append(WithTop(f), NewFrame(p))) - 1)
  <2> HIDE DEF V
  <2> QED
    BY <1>1, <1>2, <1>5, <1>6, <1>8, <1>9, ProgressEnters DEF WithTop, Below
<1>10. Quiet /\ QuietSearch => Deep \/ Progress(tuples, search.stack, V, Len(search.stack))
  BY <1>1 DEF QuietSearch
<1>11. WithTop(f) \in Seq(Frame)
  BY <1>1, <1>2, <1>5, StackTop DEF WithTop, Below
<1>12. V \cup {p} \in SUBSET Object
  BY <1>1, <1>4
<1>13. CASE Len(search.stack) > MaxDepth \/ p \in V
  <2>1. search' = [search EXCEPT !.stack = WithTop(f)]
    BY <1>7, <1>13
  <2>2. IsSearch(search', "parents", WithTop(f), V, search.groups, search.path)
    BY ONLY <1>1, <1>11, <2>1, UpdateStack DEF V
  <2>3. p \in V => V \cup {p} = V
    OBVIOUS
  <2>4. QuietSearch /\ p \notin V => Deep
    <3> SUFFICES ASSUME QuietSearch, p \notin V PROVE Deep
      OBVIOUS
    <3>1. ever = tuples
      BY DEF QuietSearch
    <3>2. Len(search.stack) = MaxDepth + 1
      BY <1>2, <1>13, ExplainAssumption DEF StackStands
    <3>3. Leads(search.stack[Len(search.stack)], p, tuples)
      BY <1>2, <1>4, <3>1
    <3>4. StackStands(search.stack, V, tuples)
      BY <1>2, <3>1
    <3> HIDE DEF V
    <3> QED
      BY <1>4, <3>2, <3>3, <3>4, TooDeepIsDeep
  <2>5. Quiet /\ QuietSearch => Deep \/ Progress(tuples, WithTop(f), V, Len(WithTop(f)))
    BY <1>9, <1>10, <2>3, <2>4
  <2> HIDE DEF V, WithTop
  <2> QED
    BY <1>1, <2>2, <2>5, QuietSearches
<1>14. CASE ~(Len(search.stack) > MaxDepth \/ p \in V) /\ p \notin DOMAIN GrantedBy
  <2>1. search' = [search EXCEPT !.stack = WithTop(f), !.visited = V \cup {p}]
    BY <1>7, <1>14
  <2>2. IsSearch(search', "parents", WithTop(f), V \cup {p}, search.groups, search.path)
    BY ONLY <1>1, <1>11, <1>12, <2>1, UpdateStackVisited
  <2>3. Quiet /\ QuietSearch => Deep \/ Progress(tuples, WithTop(f), V \cup {p}, Len(WithTop(f)))
    BY <1>9, <1>10, <1>14
  <2> HIDE DEF V, WithTop
  <2> QED
    BY <1>1, <2>2, <2>3, QuietSearches
<1>15. CASE ~(Len(search.stack) > MaxDepth \/ p \in V) /\ p \in DOMAIN GrantedBy
  <2> DEFINE st == Append(WithTop(f), NewFrame(p))
  <2>1. search' = [search EXCEPT !.at = "role", !.stack = st, !.visited = V \cup {p}]
    BY <1>7, <1>15
  <2>2. st \in Seq(Frame)
    BY <1>11, <1>15, NewFrameIsFrame, AppendProperties
  <2>3. Quiet /\ QuietSearch => Deep \/ Progress(tuples, st, V \cup {p}, Len(st) - 1)
    BY <1>9, <1>10, <1>15
  <2> HIDE DEF V, WithTop, st
  <2>4. IsSearch(search', "role", st, V \cup {p}, search.groups, search.path)
    BY ONLY <1>1, <1>12, <2>1, <2>2, UpdateAtStackVisited
  <2> QED
    BY <1>1, <2>3, <2>4, QuietSearches
<1> QED
  BY <1>13, <1>14, <1>15

LEMMA QuietNextRelation ==
  ASSUME ExplainInv, QuietInv, NextRelation, UNCHANGED <<tuples, ever, changes>>
  PROVE  QuietInv'
<1> DEFINE f == [Top EXCEPT !.rel = Top.rel + 1]
<1>1. /\ search \in SearchRecord /\ search.stack # <<>> /\ "role" \in SearchAt
      /\ search.at = "parents" /\ search.at \in InSearch /\ Top.parents = <<>>
  BY DEF ExplainInv, SearchAt, NextRelation, InSearch
<1>2. /\ Top \in Frame /\ Top.rel + 1 \in Nat \ {0} /\ Top = search.stack[Len(search.stack)]
      /\ search.stack \in Seq(Frame) /\ Len(search.stack) \in 1..Len(search.stack)
      /\ Len(search.stack) \in Nat
  <2>1. /\ Top \in Frame /\ Top = search.stack[Len(search.stack)]
        /\ Len(search.stack) \in Nat \ {0} /\ search.stack \in Seq(Frame)
    BY <1>1, TopOfSearch DEF StackStands
  <2>2. Top.rel \in Nat
    BY <2>1 DEF Frame
  <2> QED
    BY <2>1, <2>2
<1>3. f \in Frame /\ f.object = Top.object /\ f.parents = Top.parents
  BY ONLY <1>2, UpdateRel DEF f
<1>4. f.role = Top.role /\ f.rel = Top.rel + 1
  BY ONLY <1>2 DEF f, Frame
<1>5. search' = [search EXCEPT !.at = "role", !.stack = WithTop(f)]
  BY DEF NextRelation
<1> HIDE DEF f
<1>6. WithTop(f) \in Seq(Frame)
  BY <1>1, <1>2, <1>3, StackTop DEF WithTop, Below
<1>7. IsSearch(search', "role", WithTop(f), search.visited, search.groups, search.path)
  BY ONLY <1>1, <1>5, <1>6, UpdateAtStack
<1>8. ASSUME Progress(tuples, search.stack, search.visited, Len(search.stack))
      PROVE  Progress(tuples, WithTop(f), search.visited, Len(WithTop(f)) - 1)
  <2>1. /\ RolesFail(tuples, Top.object, Top.role)
        /\ ParentsSeen(tuples, Top.object, Top.rel, search.visited)
        /\ Waits(tuples, Top, search.visited)
    BY <1>2, <1>8 DEF Progress
  <2>2. ParentUsers(tuples, Top.object, Top.rel) \subseteq search.visited
    <3>1. 1..Len(Top.parents) = {}
      BY <1>1
    <3> QED
      BY <2>1, <3>1 DEF Waits
  <2>3. ParentsSeen(tuples, f.object, f.rel, search.visited)
    <3>1. Inherits[Top.object] \in Seq(STRING) /\ Top.rel \in Nat
      BY <1>2, ExplainAssumption DEF Frame
    <3> QED
      BY <1>3, <1>4, <2>1, <2>2, <3>1 DEF ParentsSeen
  <2>4. Progress(tuples, search.stack, search.visited, Len(search.stack) - 1)
    BY <1>2, <1>8 DEF Progress
  <2> QED
    BY <1>1, <1>2, <1>3, <1>4, <2>1, <2>3, <2>4, ProgressMoves DEF WithTop, Below
<1>9. QuietSearch => Deep \/ Progress(tuples, WithTop(f), search.visited, Len(WithTop(f)) - 1)
  BY <1>1, <1>8 DEF QuietSearch
<1> HIDE DEF WithTop
<1> QED
  BY <1>1, <1>7, <1>9, QuietSearches

(* At the root there is no witness left to find: a decision that allowed, on
   the tuples that are still there, was denied everywhere the search came. *)
LEMMA QuietReturn ==
  ASSUME ExplainInv, QuietInv, Return, UNCHANGED <<tuples, ever, changes>>
  PROVE  QuietInv'
<1>1. /\ search \in SearchRecord /\ search.stack # <<>> /\ search.at = "role" /\ search.at \in InSearch
      /\ "parents" \in SearchAt
      /\ Top.role > Len(GrantedBy[Top.object]) /\ Top.rel > Len(Inherits[Top.object])
  BY DEF ExplainInv, SearchAt, Return, NoRoleLeft, InSearch
<1>2. /\ Top = search.stack[Len(search.stack)] /\ search.stack \in Seq(Frame)
      /\ StackStands(search.stack, search.visited, ever)
  BY <1>1, TopOfSearch DEF StackStands
<1>3. Below \in Seq(Frame) /\ Len(Below) = Len(search.stack) - 1
  BY <1>1, <1>2, FrontOfStack DEF Below
<1>4. Quiet => Deep \/ Progress(tuples, Below, search.visited, Len(Below))
  <2>1. Quiet => Deep \/ Progress(tuples, search.stack, search.visited, Len(search.stack) - 1)
    BY <1>1 DEF QuietInv, QuietSearch
  <2>2. Progress(tuples, search.stack, search.visited, Len(search.stack) - 1)
          => Progress(tuples, Below, search.visited, Len(Below))
    BY <1>1, <1>2, ProgressReturns DEF Below
  <2> QED
    BY <2>1, <2>2
<1> HIDE DEF Below
<1>5. CASE Len(search.stack) = 1
  <2>1. search' = [search EXCEPT !.at = "told", !.truncated = TRUE]
    BY <1>5 DEF Return
  <2>2. /\ search'.at = "told" /\ search'.truncated = TRUE /\ search'.path = <<>>
    BY <1>1, <2>1 DEF SearchRecord, QuietInv
  <2>3. Quiet => Deep
    <3> SUFFICES ASSUME Quiet, Progress(tuples, Below, search.visited, Len(Below)) PROVE FALSE
      BY <1>4
    <3>1. 1..Len(Below) = {}
      BY <1>3, <1>5
    <3>2. \A o \in search.visited \cap DOMAIN GrantedBy : Explored(tuples, o, search.visited)
      BY <3>1 DEF Progress
    <3>3. Root \in search.visited
      BY <1>1, <1>2, <1>5 DEF StackStands
    <3>4. Root \in Allowed(tuples)
      BY <1>1 DEF QuietInv, QuietSearch
    <3> QED
      BY <3>2, <3>3, <3>4, ExploredIsDenied
  <2>4. Quiet' => Quiet /\ (Deep' <=> Deep)
    BY DEF Quiet, Deep, Chain
  <2>5. QuietDecisionIsExplained'
    BY <2>2, <2>3, <2>4 DEF QuietDecisionIsExplained, Deep
  <2> QED
    BY <2>2, <2>5 DEF QuietInv, InSearch
<1>6. CASE Len(search.stack) # 1
  <2>1. search' = [search EXCEPT !.at = "parents", !.stack = Below]
    BY <1>6 DEF Return
  <2>2. IsSearch(search', "parents", Below, search.visited, search.groups, search.path)
    BY ONLY <1>1, <1>3, <2>1, UpdateAtStack
  <2> QED
    BY <1>1, <1>4, <2>2, QuietSearches
<1> QED
  BY <1>5, <1>6

LEMMA QuietExplainFails ==
  ASSUME ExplainInv, QuietInv, ExplainFails, UNCHANGED <<tuples, ever, changes>>
  PROVE  QuietInv'
<1>1. /\ search \in SearchRecord /\ "failed" \in SearchAt /\ search.at \in InSearch
  BY DEF ExplainInv, SearchAt, ExplainFails, InSearch
<1>2. search' = [search EXCEPT !.at = "failed"]
  BY DEF ExplainFails
<1>3. IsSearch(search', "failed", search.stack, search.visited, search.groups, search.path)
  BY ONLY <1>1, <1>2, UpdateAt
<1>4. "failed" \notin InSearch
  BY DEF InSearch
<1> QED
  BY <1>1, <1>3, <1>4, QuietSearches

(* Once something was written nothing is claimed. *)
LEMMA QuietOthersWrite ==
  ASSUME ExplainInv, QuietInv, OthersWrite
  PROVE  QuietInv'
<1>1. search' = search /\ search.at # "asked" /\ changes' # 0
  BY ExplainAssumption DEF OthersWrite, ExplainInv
<1>2. ~Quiet'
  BY <1>1 DEF Quiet
<1> QED
  BY <1>1, <1>2 DEF QuietInv, QuietDecisionIsExplained

LEMMA QuietStepHolds == ExplainInv /\ QuietInv /\ [ExplainNext]_explainVars => QuietInv'
<1> SUFFICES ASSUME ExplainInv, QuietInv, [ExplainNext]_explainVars PROVE QuietInv'
  OBVIOUS
<1>1. CASE Searching
  <2>1. UNCHANGED <<tuples, ever, changes>>
    BY <1>1 DEF Searching
  <2> QED
    BY <1>1, <2>1, QuietDecide, QuietTryRole, QuietClassify, QuietCheckMember, QuietReadParents,
       QuietEnterParent, QuietNextRelation, QuietReturn, QuietExplainFails DEF Searching
<1>2. CASE OthersWrite
  BY <1>2, QuietOthersWrite
<1>3. CASE UNCHANGED explainVars
  <2>1. UNCHANGED <<tuples, search, ever, changes>>
    BY <1>3 DEF explainVars
  <2>2. (Quiet' <=> Quiet) /\ (Deep' <=> Deep)
    BY <2>1 DEF Quiet, Deep, Chain
  <2>3. QuietSearch' <=> QuietSearch
    BY <2>1, <2>2 DEF QuietSearch, Top, TopRole
  <2>4. QuietDecisionIsExplained' <=> QuietDecisionIsExplained
    BY <2>1, <2>2 DEF QuietDecisionIsExplained, Deep, ParentStored, RoleStored, StepObject
  <2> QED
    BY <2>1, <2>2, <2>3, <2>4 DEF QuietInv
<1> QED
  BY <1>1, <1>2, <1>3 DEF ExplainNext

(* context.reason explains what was allowed whenever nothing is written while
   it is searched for and every tuple counts: by a complete path, true of the
   tuples, unless the hierarchy is deeper than the search.  For every model,
   every hierarchy with whatever cycles, and every order of what is read. *)
THEOREM QuietDecisionsAreExplained == ExplainSpec => []QuietDecisionIsExplained
<1>1. QuietInv => QuietDecisionIsExplained
  BY DEF QuietInv
<1> QED
  BY <1>1, QuietInitHolds, QuietStepHolds, ExplainInvHolds, PTL DEF ExplainSpec
=============================================================================
