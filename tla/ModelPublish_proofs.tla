------------------------ MODULE ModelPublish_proofs -------------------------
(* Proofs about ModelPublish, for every set of requests and processes, any
   number of crashes and any interleaving. *)
EXTENDS ModelPublish, TLAPS

-----------------------------------------------------------------------------
(* The inductive invariant.  The properties speak of what is committed and
   what clients were told; what carries them from step to step is where each
   request stands in its own handler. *)

(* A request that is past its model write has a model, one that is before it
   has none. *)
ModelFollowsStage ==
  \A r \in Request :
    /\ pc[r] \in {"written", "begun", "updated", "committed", "dbfailed"}
         => r \in models
    /\ pc[r] \in {"idle", "received"} => r \notin models

(* A row is committed by Commit and not before. *)
VersionFollowsStage ==
  \A r \in Request :
    /\ pc[r] = "committed" => r \in versions
    /\ pc[r] \in {"idle", "received", "written"} \cup InTransaction
         => r \notin versions

(* The transaction that updated the pointer is the one that holds the row. *)
LockFollowsStage ==
  /\ rowLock # None => pc[rowLock] = "updated"
  /\ \A r \in Request : pc[r] = "updated" => rowLock = r

(* Whoever has a client, or has used one, finds the singleton row there. *)
ConfigFirst ==
  /\ \A s \in Server : boot[s] \in {"persisted", "bound"} => config
  /\ models # {} => config

(* A request that runs is served by a process. *)
Hosted == \A r \in Request : pc[r] # "idle" => host[r] \in Server

(* A client is answered once, at the end. *)
AnswerAtEnd ==
  /\ \A r \in Request : answer[r] # "none" => pc[r] = "done"
  /\ \A r \in Request :
       <<"model.publish.db_failure", r>> \in recorded => answer[r] = "500"

IInv ==
  /\ TypeOK
  /\ ModelFollowsStage
  /\ VersionFollowsStage
  /\ LockFollowsStage
  /\ ConfigFirst
  /\ Hosted
  /\ AnswerAtEnd
  /\ VersionsAreWritten
  /\ PointerIsSet
  /\ AcknowledgedIsDurable
  /\ OrphansAreExplained

-----------------------------------------------------------------------------
(* Before anything runs, nothing is written, locked or answered. *)
LEMMA InitHolds == Init => IInv
<1> SUFFICES ASSUME Init PROVE IInv
  OBVIOUS
<1> USE PublishAssumption DEF Init
<1>1. TypeOK
  BY DEF TypeOK, Stage, Answer, BootStage
<1>2. ModelFollowsStage /\ VersionFollowsStage
  BY DEF ModelFollowsStage, VersionFollowsStage, InTransaction
<1>3. LockFollowsStage /\ ConfigFirst /\ Hosted /\ AnswerAtEnd
  BY DEF LockFollowsStage, ConfigFirst, Hosted, AnswerAtEnd
<1>4. VersionsAreWritten /\ PointerIsSet
  BY DEF VersionsAreWritten, PointerIsSet
<1>5. AcknowledgedIsDurable /\ OrphansAreExplained
  BY DEF AcknowledgedIsDurable, OrphansAreExplained
<1> QED
  BY <1>1, <1>2, <1>3, <1>4, <1>5 DEF IInv

(* A process boots, or dies and takes its requests with it: no request gains
   a model or a row by it, and a transaction that dies frees the row. *)
LEMMA ProcessKeepsIInv ==
  ASSUME IInv, NEW s \in Server, Process(s)
  PROVE  IInv'
<1> USE PublishAssumption
    DEF IInv, TypeOK, ModelFollowsStage, VersionFollowsStage, LockFollowsStage,
        ConfigFirst, Hosted, AnswerAtEnd, VersionsAreWritten, PointerIsSet,
        AcknowledgedIsDurable, OrphansAreExplained,
        Stage, InTransaction, Answer, BootStage,
        serverVars, requestVars, fgaVars, dbVars
<1>1. CASE Listen(s)
  BY <1>1 DEF Listen
<1>2. CASE PersistStore(s)
  BY <1>2 DEF PersistStore
<1>3. CASE BindClient(s)
  BY <1>3 DEF BindClient
<1>4. CASE Crash(s)
  BY <1>4 DEF Crash, Lost, InFlight
<1> QED
  BY <1>1, <1>2, <1>3, <1>4 DEF Process

(* The steps of the handler.  UpdatePointer is the one that needs ConfigFirst:
   its request has a model, so the row exists and the lock is taken; Commit is
   the one that needs LockFollowsStage: the pointer it sets is its own. *)
LEMMA HandlerKeepsIInv ==
  ASSUME IInv, NEW r \in Request, Step(r)
  PROVE  IInv'
<1> USE PublishAssumption
    DEF IInv, TypeOK, ModelFollowsStage, VersionFollowsStage, LockFollowsStage,
        ConfigFirst, Hosted, AnswerAtEnd, VersionsAreWritten, PointerIsSet,
        AcknowledgedIsDurable, OrphansAreExplained,
        Stage, InTransaction, Answer, BootStage,
        serverVars, requestVars, fgaVars, dbVars
<1>1. CASE Reject(r)
  BY <1>1 DEF Reject, Finish
<1>2. CASE WriteModel(r)
  BY <1>2 DEF WriteModel, CanWrite, StoreModel
<1>3. CASE WriteModelFails(r)
  BY <1>3 DEF WriteModelFails, Finish
<1>4. CASE WriteModelReplyLost(r)
  BY <1>4 DEF WriteModelReplyLost, CanWrite, StoreModel, Finish
<1>5. CASE BeginInsert(r)
  BY <1>5 DEF BeginInsert
<1>6. CASE UpdatePointer(r)
  BY <1>6 DEF UpdatePointer
<1>7. CASE Commit(r)
  BY <1>7 DEF Commit, CommitInsert, Release
<1>8. CASE CommitReplyLost(r)
  BY <1>8 DEF CommitReplyLost, CommitInsert, Release
<1>9. CASE InsertFails(r)
  BY <1>9 DEF InsertFails, Release
<1>10. CASE ReportPublished(r)
  BY <1>10 DEF ReportPublished, Finish
<1>11. CASE ReportOrphan(r)
  BY <1>11 DEF ReportOrphan, Finish
<1> QED
  BY <1>1, <1>2, <1>3, <1>4, <1>5, <1>6, <1>7, <1>8, <1>9, <1>10, <1>11
  DEF Step, Advance

(* A request enters its handler: it has no model and no row yet. *)
LEMMA ReceiveKeepsIInv ==
  ASSUME IInv, NEW r \in Request, NEW s \in Server, Receive(r, s)
  PROVE  IInv'
BY PublishAssumption
DEF Receive, IInv, TypeOK, ModelFollowsStage, VersionFollowsStage,
    LockFollowsStage, ConfigFirst, Hosted, AnswerAtEnd, VersionsAreWritten, PointerIsSet,
    AcknowledgedIsDurable, OrphansAreExplained,
    Stage, InTransaction, Answer, BootStage,
    serverVars, requestVars, fgaVars, dbVars

LEMMA StutterKeepsIInv == IInv /\ UNCHANGED vars => IInv'
BY DEF vars, IInv, TypeOK, ModelFollowsStage, VersionFollowsStage,
       LockFollowsStage, ConfigFirst, Hosted, AnswerAtEnd, VersionsAreWritten, PointerIsSet,
       AcknowledgedIsDurable, OrphansAreExplained,
       serverVars, requestVars, fgaVars, dbVars

(* The inductive invariant holds in every reachable state. *)
THEOREM Invariance == Spec => []IInv
<1>1. IInv /\ [Next]_vars => IInv'
  BY ProcessKeepsIInv, HandlerKeepsIInv, ReceiveKeepsIInv, StutterKeepsIInv DEF Next
<1> QED
  BY InitHolds, <1>1, PTL DEF Spec

(* Types, for every reachable state. *)
THEOREM TypeCorrect == Spec => []TypeOK
BY Invariance, PTL DEF IInv

(* No version row names a model that OpenFGA does not have. *)
THEOREM VersionsWritten == Spec => []VersionsAreWritten
BY Invariance, PTL DEF IInv

(* The pointer leads to a row as soon as there is one: the UPDATE of a missing
   singleton row cannot happen. *)
THEOREM PointerSet == Spec => []PointerIsSet
BY Invariance, PTL DEF IInv

(* What a client was told with 201 is durable and on record, through any
   crash. *)
THEOREM AcknowledgedDurable == Spec => []AcknowledgedIsDurable
BY Invariance, PTL DEF IInv

(* Every orphan model is accounted for. *)
THEOREM OrphansExplained == Spec => []OrphansAreExplained
BY Invariance, PTL DEF IInv

-----------------------------------------------------------------------------
(* The refinement: the two commits map to Publish, all else stutters. *)

LEMMA CommitPublishes ==
  ASSUME IInv, NEW r \in Request, Commit(r) \/ CommitReplyLost(r)
  PROVE  Abstract!Publish(r)
<1>1. pc[r] = "updated" /\ CommitInsert(r)
  BY DEF Commit, CommitReplyLost
<1>2. rowLock = r /\ r \notin versions
  BY <1>1 DEF IInv, LockFollowsStage, VersionFollowsStage, InTransaction
<1> QED
  BY <1>1, <1>2 DEF CommitInsert, Abstract!Publish

LEMMA StepRefines == IInv /\ [Next]_vars => [Abstract!ModelNext]_(Abstract!modelVars)
<1> SUFFICES ASSUME IInv, [Next]_vars
             PROVE  Abstract!ModelNext \/ UNCHANGED <<versions, current>>
  BY DEF Abstract!modelVars
<1>1. CASE \E r \in Request : Commit(r) \/ CommitReplyLost(r)
  BY <1>1, CommitPublishes DEF Abstract!ModelNext
<1>2. CASE UNCHANGED vars
  BY <1>2 DEF vars, dbVars
<1>3. CASE \E s \in Server : Process(s)
  BY <1>3 DEF Process, Listen, PersistStore, BindClient, Crash, dbVars
<1>4. CASE \E r \in Request, s \in Server : Receive(r, s)
  BY <1>4 DEF Receive, dbVars
<1>5. CASE \E r \in Request : Step(r) /\ ~Commit(r) /\ ~CommitReplyLost(r)
  BY <1>5 DEF Step, Advance, Reject, WriteModel, WriteModelFails,
     WriteModelReplyLost, BeginInsert, UpdatePointer, InsertFails,
     ReportPublished, ReportOrphan, dbVars
<1> QED
  BY <1>1, <1>2, <1>3, <1>4, <1>5 DEF Next

(* The publish handler implements the atomic publication every reader of
   CurrentVersion relies on. *)
THEOREM Refinement == Spec => ImplementsPublishedModel
<1>1. Init => Abstract!ModelInit
  BY DEF Init, Abstract!ModelInit
<1> QED
  BY <1>1, StepRefines, Invariance, PTL
  DEF Spec, ImplementsPublishedModel, Abstract!ModelSpec
=============================================================================
