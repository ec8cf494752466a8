------------------------------ MODULE Explain ------------------------------
(***************************************************************************)
(* The explanation of a decision (context.reason): after the Check that    *)
(* decides, explain searches for a path that shows why, with a Check or a  *)
(* Read of OpenFGA at every step.  The Checks are pinned to the model the  *)
(* decision used; the Reads are not, and tuples are written and deleted    *)
(* by others all the while.                                                *)
(*                                                                         *)
(* One question is followed: may User do the permission on Root.  The type *)
(* of an object is abstracted to the roles and parent relations that its   *)
(* permission of that name has in the pinned ModelIR.  The recursion is a  *)
(* stack of frames.  sawTruncation is not kept: explain ignores it, as it  *)
(* marks every explanation without a path as truncated.                    *)
(***************************************************************************)
EXTENDS Naturals, Sequences, FiniteSets

CONSTANTS
  Object,       \* resources
  Group,        \* groups, one level deep; as a tuple's user, their members
  User, Root,   \* who asks, about what
  Tuple,        \* tuples OpenFGA may hold: [user, relation, object, holds, fits]
  GrantedBy,    \* [object -> roles], for the objects with the permission
  Inherits,     \* [object -> parent relations], on the same domain
  MaxDepth,     \* maxDepth
  ChangeBound   \* writes and deletes by others during a question

ASSUME ExplainAssumption ==
  /\ Root \in Object
  /\ Tuple \subseteq [user : {User} \cup Group \cup Object, relation : STRING,
                      object : Object \cup Group,
                      holds : BOOLEAN,  \* without a condition, or it holds
                      fits : BOOLEAN]   \* the pinned model allows it
  /\ IsFiniteSet(Object) /\ IsFiniteSet(Group)
  /\ DOMAIN GrantedBy \subseteq Object /\ Root \in DOMAIN GrantedBy
  /\ DOMAIN Inherits = DOMAIN GrantedBy
  /\ \A o \in DOMAIN GrantedBy :
       GrantedBy[o] \in Seq(STRING) /\ Inherits[o] \in Seq(STRING)
  /\ MaxDepth \in Nat /\ ChangeBound \in Nat

VARIABLES
  tuples,   \* what OpenFGA holds
  search,   \* the explanation in progress
  ever,     \* every tuple held at some time since the question
  changes   \* how often the tuples changed since the question

explainVars == <<tuples, search, ever, changes>>

SearchAt == {"asked", "role", "classify", "member", "parents", "told", "failed"}
Step == [via : {"parent"}, relation : STRING, object : Object]
        \cup [via : {"role"}, role : STRING, direct : BOOLEAN,
              group : Group \cup {"none"}]
Frame == [object : DOMAIN GrantedBy, role : Nat \ {0}, rel : Nat \ {0},
          parents : Seq(Object)]

(* Every frame is on an object of its own that is marked as visited, and the
   stack is never deeper than the depth guard allows. *)
ExplainTypeOK ==
  /\ tuples \subseteq Tuple /\ ever \subseteq Tuple /\ changes \in 0..ChangeBound
  /\ search \in [at : SearchAt, allowed : BOOLEAN, stack : Seq(Frame),
                 visited : SUBSET Object, groups : Seq(Group),
                 path : Seq(Step), truncated : BOOLEAN]
  /\ tuples \subseteq ever
  /\ Len(search.stack) <= MaxDepth + 1
  /\ \A i \in 1..Len(search.stack) : search.stack[i].object \in search.visited
  /\ \A i, j \in 1..Len(search.stack) :
       search.stack[i].object = search.stack[j].object => i = j

NoSearch == [at |-> "asked", allowed |-> FALSE, stack |-> <<>>, visited |-> {},
             groups |-> <<>>, path |-> <<>>, truncated |-> FALSE]

ExplainInit ==
  /\ tuples \in SUBSET Tuple
  /\ search = NoSearch
  /\ ever = tuples /\ changes = 0

-----------------------------------------------------------------------------
(* OpenFGA.  Check under the pinned model counts the tuples that fit it and
   whose condition holds; Read returns what is stored. *)
Counts(t) == t.fits /\ t.holds

Direct(T, relation, object) == \E t \in T :
  Counts(t) /\ t.user = User /\ t.relation = relation /\ t.object = object

Check(T, relation, object) ==
  \/ Direct(T, relation, object)
  \/ \E t \in T : /\ Counts(t) /\ t.relation = relation /\ t.object = object
                  /\ t.user \in Group /\ Direct(T, "member", t.user)

Read(T, relation, object) == {t \in T : t.relation = relation /\ t.object = object}

(* can_<permission>: by a role, or from a parent that has it. *)
ByRole(T) == {o \in DOMAIN GrantedBy :
                \E i \in DOMAIN GrantedBy[o] : Check(T, GrantedBy[o][i], o)}

Inherited(T, inner) == {o \in DOMAIN GrantedBy : \E i \in DOMAIN Inherits[o] :
  \E t \in Read(T, Inherits[o][i], o) : Counts(t) /\ t.user \in inner}

Allowed(T) ==
  LET within[n \in 0..Cardinality(Object)] ==
        IF n = 0 THEN ByRole(T) ELSE within[n - 1] \cup Inherited(T, within[n - 1])
  IN within[Cardinality(Object)]

(* The pages of a Read come in an order of OpenFGA's own. *)
InSomeOrder(S) == {s \in [1..Cardinality(S) -> S] :
                     \A i, j \in DOMAIN s : s[i] = s[j] => i = j}

-----------------------------------------------------------------------------
NewFrame(o) == [object |-> o, role |-> 1, rel |-> 1, parents |-> <<>>]
Top == search.stack[Len(search.stack)]
Below == SubSeq(search.stack, 1, Len(search.stack) - 1)
WithTop(f) == Append(Below, f)
TopRole == GrantedBy[Top.object][Top.role]

(* The Check that decides, and where explain starts.  A denial is explained
   from the model alone (denyLinks): nothing more is read. *)
Decide ==
  /\ search.at = "asked"
  /\ search' = IF Root \in Allowed(tuples)
       THEN [search EXCEPT !.at = "role", !.allowed = TRUE,
                           !.stack = <<NewFrame(Root)>>, !.visited = {Root}]
       ELSE [search EXCEPT !.at = "told"]

(* The steps from the root to the frame at the top.
   Seeded bug: the step names the first relation of the frame. *)
ParentStepsFirst == [i \in 1..(Len(search.stack) - 1) |->
  [via |-> "parent",
   relation |-> Inherits[search.stack[i].object][1],
   object |-> search.stack[i + 1].object]]

ParentSteps == [i \in 1..(Len(search.stack) - 1) |->
  [via |-> "parent",
   relation |-> Inherits[search.stack[i].object][search.stack[i].rel],
   object |-> search.stack[i + 1].object]]

RoleStep(direct, group) ==
  [via |-> "role", role |-> TopRole, direct |-> direct, group |-> group]

Tell(step, incomplete) ==
  search' = [search EXCEPT !.at = "told", !.path = Append(ParentSteps, step),
                           !.truncated = incomplete]

(* The next role of the permission is checked. *)
TryRole ==
  /\ search.at = "role" /\ Top.role <= Len(GrantedBy[Top.object])
  /\ search' = IF Check(tuples, TopRole, Top.object)
       THEN [search EXCEPT !.at = "classify"]
       ELSE [search EXCEPT !.stack = WithTop([Top EXCEPT !.role = @ + 1])]

(* classifyRoleStep reads the tuples of the role that was just allowed. *)
Classify ==
  /\ search.at = "classify"
  /\ LET found == Read(tuples, TopRole, Top.object)
     IN IF \E t \in found : t.user = User THEN Tell(RoleStep(TRUE, "none"), FALSE)
        ELSE \E s \in InSomeOrder({t.user : t \in found} \cap Group) :
               search' = [search EXCEPT !.at = "member", !.groups = s]

CheckMember ==
  /\ search.at = "member"
  /\ IF search.groups = <<>> THEN Tell(RoleStep(FALSE, "none"), TRUE)
     ELSE IF Check(tuples, "member", Head(search.groups))
       THEN Tell(RoleStep(FALSE, Head(search.groups)), FALSE)
       ELSE search' = [search EXCEPT !.groups = Tail(@)]

NoRoleLeft == search.at = "role" /\ Top.role > Len(GrantedBy[Top.object])

ReadParents ==
  /\ NoRoleLeft /\ Top.rel <= Len(Inherits[Top.object])
  /\ LET found == Read(tuples, Inherits[Top.object][Top.rel], Top.object)
     IN \E s \in InSomeOrder({t.user : t \in found} \cap Object) :
          search' = [search EXCEPT !.at = "parents", !.stack = WithTop([Top EXCEPT !.parents = s])]

(* The recursive call for the next parent, with its early returns: too deep,
   seen before, no such permission.
   Seeded bug: the depth is compared after the increment of the caller. *)
EnterParentLate ==
  /\ search.at = "parents" /\ Top.parents # <<>>
  /\ LET p == Head(Top.parents)
         rest == WithTop([Top EXCEPT !.parents = Tail(@)])
     IN search' =
          IF Len(search.stack) > MaxDepth + 1 \/ p \in search.visited
            THEN [search EXCEPT !.stack = rest]
          ELSE IF p \notin DOMAIN GrantedBy
            THEN [search EXCEPT !.stack = rest, !.visited = @ \cup {p}]
          ELSE [search EXCEPT !.at = "role", !.stack = Append(rest, NewFrame(p)),
                              !.visited = @ \cup {p}]

EnterParent ==
  /\ search.at = "parents" /\ Top.parents # <<>>
  /\ LET p == Head(Top.parents)
         rest == WithTop([Top EXCEPT !.parents = Tail(@)])
     IN search' =
          IF Len(search.stack) > MaxDepth \/ p \in search.visited
            THEN [search EXCEPT !.stack = rest]
          ELSE IF p \notin DOMAIN GrantedBy
            THEN [search EXCEPT !.stack = rest, !.visited = @ \cup {p}]
          ELSE [search EXCEPT !.at = "role", !.stack = Append(rest, NewFrame(p)),
                              !.visited = @ \cup {p}]

(* Seeded bugs: the loop over the relations does not advance, or it ends
   with the first. *)
SameRelation ==
  /\ search.at = "parents" /\ Top.parents = <<>>
  /\ search' = [search EXCEPT !.at = "role"]

LastRelation ==
  /\ search.at = "parents" /\ Top.parents = <<>>
  /\ search' = [search EXCEPT !.at = "role",
                              !.stack = WithTop([Top EXCEPT !.rel = Len(Inherits[Top.object]) + 1])]

NextRelation ==
  /\ search.at = "parents" /\ Top.parents = <<>>
  /\ search' = [search EXCEPT !.at = "role", !.stack = WithTop([Top EXCEPT !.rel = @ + 1])]

(* findWitness returns without a witness; at the root there is no path. *)
Return ==
  /\ NoRoleLeft /\ Top.rel > Len(Inherits[Top.object])
  /\ search' = IF Len(search.stack) = 1
       THEN [search EXCEPT !.at = "told", !.truncated = TRUE]
       ELSE [search EXCEPT !.at = "parents", !.stack = Below]

(* A call of OpenFGA fails: the answer is the decision, without a reason. *)
ExplainFails ==
  /\ \/ search.at \in {"classify", "member"}
     \/ search.at = "role" /\ ~(NoRoleLeft /\ Top.rel > Len(Inherits[Top.object]))
  /\ search' = [search EXCEPT !.at = "failed"]

Searching ==
  /\ \/ Decide \/ TryRole \/ Classify \/ CheckMember \/ ReadParents
     \/ EnterParent \/ NextRelation \/ Return \/ ExplainFails
  /\ UNCHANGED <<tuples, ever, changes>>

(* Somebody else writes or deletes a tuple. *)
OthersWrite ==
  /\ search.at \notin {"asked", "told", "failed"} /\ changes < ChangeBound
  /\ \E t \in Tuple : tuples' = IF t \in tuples THEN tuples \ {t} ELSE tuples \cup {t}
  /\ ever' = ever \cup tuples'
  /\ changes' = changes + 1
  /\ UNCHANGED search

ExplainNext == Searching \/ OthersWrite

ExplainSpec == ExplainInit /\ [][ExplainNext]_explainVars /\ WF_explainVars(Searching)

-----------------------------------------------------------------------------
(* Properties.                                                             *)

(* The object the i-th step of the path is about. *)
StepObject(i) == IF i = 1 THEN Root ELSE search.path[i - 1].object

ParentStored(T, i) == LET s == search.path[i] IN
  \E t \in T : t.user = s.object /\ t.relation = s.relation /\ t.object = StepObject(i)

RoleStored(T, i) == LET s == search.path[i] IN
  /\ s.direct => \E t \in T : t.user = User /\ t.relation = s.role /\ t.object = StepObject(i)
  /\ s.group # "none" =>
       \E t \in T : t.user = s.group /\ t.relation = s.role /\ t.object = StepObject(i)

(* An explanation names only tuples that were stored at some time after the
   question was asked, linked from the root to the role, no object twice,
   whatever others write while it is searched for. *)
ExplanationNamesStoredTuples ==
  \A i \in 1..Len(search.path) :
    /\ search.path[i].via = "parent" => /\ i < Len(search.path)
                                        /\ ParentStored(ever, i)
    /\ search.path[i].via = "role" => i = Len(search.path) /\ RoleStored(ever, i)
    /\ \A j \in 1..(i - 1) : StepObject(i) # StepObject(j)

(* Nothing was written meanwhile, and every tuple counts for Check: the
   conditions under which Read and Check tell the same story. *)
Quiet == changes = 0 /\ \A t \in tuples : Counts(t)

(* A chain of n parents from the root, in the tuples. *)
Chain(n, p) ==
  /\ p[0] = Root
  /\ \A i, j \in 0..n : p[i] = p[j] => i = j
  /\ \A i \in 1..n : /\ p[i - 1] \in DOMAIN GrantedBy
                     /\ \E k \in DOMAIN Inherits[p[i - 1]], t \in tuples :
                          /\ t.relation = Inherits[p[i - 1]][k]
                          /\ t.object = p[i - 1] /\ t.user = p[i]

(* What explain promises when nothing moves: an allowed decision is explained
   by a complete path, true of the tuples; only a hierarchy deeper than the
   search may go unexplained.  In whatever order OpenFGA returns the parents,
   and whatever cycles they form. *)
QuietDecisionIsExplained ==
  search.at = "told" /\ search.allowed /\ Quiet =>
    \/ /\ search.path # <<>> /\ ~search.truncated
       /\ \A i \in 1..Len(search.path) : IF search.path[i].via = "parent"
            THEN ParentStored(tuples, i)
            ELSE /\ RoleStored(tuples, i)
                 /\ Check(tuples, search.path[i].role, StepObject(i))
    \/ /\ search.path = <<>> /\ search.truncated
       /\ \E p \in [0..(MaxDepth + 1) -> Object] : Chain(MaxDepth + 1, p)

(* What the comment in findWitness says: a branch that is too deep does not
   hide a clean witness on another branch. *)
CleanWitnessIsFound ==
  search.at = "told" /\ search.allowed /\ Quiet /\ search.path = <<>> =>
    ~ \E n \in 0..MaxDepth : \E p \in [0..n -> Object] :
        /\ Chain(n, p) /\ p[n] \in DOMAIN GrantedBy
        /\ \E i \in DOMAIN GrantedBy[p[n]] : Check(tuples, GrantedBy[p[n]][i], p[n])

(* Every question gets its answer: the search ends, also on a hierarchy with
   cycles.  Fairness: a request that runs makes its next call. *)
EveryExplanationEnds == <>(search.at \in {"told", "failed"})
=============================================================================
