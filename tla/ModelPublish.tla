---------------------------- MODULE ModelPublish ----------------------------
(***************************************************************************)
(* POST /model: concurrent publish requests, on several API processes      *)
(* that share one Postgres and one OpenFGA store.                          *)
(*                                                                         *)
(* A publish writes two systems that share no transaction.  It first       *)
(* writes the authorization model to OpenFGA (which then becomes the       *)
(* store's latest model), then runs one Postgres transaction that inserts  *)
(* the model_version row and moves the current-version pointer.  Either    *)
(* side may fail, the answer of either side may be lost, the process may   *)
(* die between any two steps, and other publishes interleave.              *)
(*                                                                         *)
(* A request publishes at most one model and inserts at most one row, so   *)
(* the model id and the version id it obtains are both named by the        *)
(* request itself.                                                         *)
(***************************************************************************)
EXTENDS Naturals

CONSTANTS
  Request,  \* publish requests
  Invalid,  \* those whose body fails decoding, validation or compilation
  Server,   \* API processes
  None

ASSUME PublishAssumption ==
  /\ None \notin Request
  /\ None \notin Server
  /\ Invalid \subseteq Request

VARIABLES
  boot,       \* how far each process has come with its bootstrap
  config,     \* does the instance_config singleton row exist?
  pc,         \* where each request stands
  host,       \* the process that serves it
  answer,     \* what its client was told
  models,     \* authorization models in the OpenFGA store
  latest,     \* the store's newest model: what an unpinned call is checked against
  versions,   \* committed model_version rows
  current,    \* committed instance_config.current_model_version_id
  createdAt,  \* model_version.created_at: now() of the inserting transaction
  now,        \* Postgres' clock
  rowLock,    \* the transaction holding the singleton row
  recorded    \* the audit records handed to the recorder

serverVars == <<boot, config>>
requestVars == <<pc, host, answer>>
fgaVars == <<models, latest>>
dbVars == <<versions, current, createdAt, now, rowLock>>
vars == <<serverVars, requestVars, fgaVars, dbVars, recorded>>

Stage == {"idle", "received", "written", "begun", "updated", "committed",
          "dbfailed", "done", "dead"}
InFlight == {"received", "written", "begun", "updated", "committed", "dbfailed"}
InTransaction == {"begun", "updated"}
Answer == {"none", "201", "422", "502", "500"}
BootStage == {"off", "listening", "persisted", "bound"}

TypeOK ==
  /\ boot \in [Server -> BootStage]
  /\ config \in BOOLEAN
  /\ pc \in [Request -> Stage]
  /\ host \in [Request -> Server \cup {None}]
  /\ answer \in [Request -> Answer]
  /\ models \subseteq Request
  /\ latest \in models \cup {None}
  /\ versions \subseteq Request
  /\ current \in Request \cup {None}
  /\ createdAt \in [Request -> Nat]
  /\ now \in Nat
  /\ rowLock \in Request \cup {None}
  /\ recorded \subseteq {"model.publish", "model.publish.db_failure"} \X Request

Init ==
  /\ boot = [s \in Server |-> "off"]
  /\ config = FALSE
  /\ pc = [r \in Request |-> "idle"]
  /\ host = [r \in Request |-> None]
  /\ answer = [r \in Request |-> "none"]
  /\ models = {}
  /\ latest = None
  /\ versions = {}
  /\ current = None
  /\ createdAt = [r \in Request |-> 0]
  /\ now = 0
  /\ rowLock = None
  /\ recorded = {}

-----------------------------------------------------------------------------
(* The process: it listens at once and bootstraps in the background.       *)

Listen(s) ==
  /\ boot[s] = "off"
  /\ boot' = [boot EXCEPT ![s] = "listening"]
  /\ UNCHANGED <<config, requestVars, fgaVars, dbVars, recorded>>

(* persistStoreID: the upsert that creates the singleton row. *)
PersistStore(s) ==
  /\ boot[s] = "listening"
  /\ boot' = [boot EXCEPT ![s] = "persisted"]
  /\ config' = TRUE
  /\ UNCHANGED <<requestVars, fgaVars, dbVars, recorded>>

(* Only then does the gateway get a client: before, every call fails.
   Seeded bug: the client is bound first and the store id persisted later. *)
BindClientFirst(s) ==
  /\ boot[s] \in {"listening", "persisted"}
  /\ boot' = [boot EXCEPT ![s] = "bound"]
  /\ UNCHANGED <<config, requestVars, fgaVars, dbVars, recorded>>

BindClient(s) ==
  /\ boot[s] = "persisted"
  /\ boot' = [boot EXCEPT ![s] = "bound"]
  /\ UNCHANGED <<config, requestVars, fgaVars, dbVars, recorded>>

(* A crash takes the requests of the process with it; Postgres rolls their
   transactions back and frees the row. *)
Lost(s) == {r \in Request : host[r] = s /\ pc[r] \in InFlight}

Crash(s) ==
  /\ boot[s] # "off"
  /\ boot' = [boot EXCEPT ![s] = "off"]
  /\ pc' = [r \in Request |-> IF r \in Lost(s) THEN "dead" ELSE pc[r]]
  /\ rowLock' = IF rowLock \in Lost(s) THEN None ELSE rowLock
  /\ UNCHANGED <<config, host, answer, fgaVars, versions, current, createdAt,
                 now, recorded>>

-----------------------------------------------------------------------------
(* The publish handler.                                                    *)

Finish(r, status) ==
  /\ pc' = [pc EXCEPT ![r] = "done"]
  /\ answer' = [answer EXCEPT ![r] = status]

Receive(r, s) ==
  /\ pc[r] = "idle"
  /\ boot[s] # "off"
  /\ pc' = [pc EXCEPT ![r] = "received"]
  /\ host' = [host EXCEPT ![r] = s]
  /\ UNCHANGED <<serverVars, answer, fgaVars, dbVars, recorded>>

(* Shape, validation and compilation errors: 422 before anything is written. *)
Reject(r) ==
  /\ pc[r] = "received"
  /\ r \in Invalid
  /\ Finish(r, "422")
  /\ UNCHANGED <<serverVars, host, fgaVars, dbVars, recorded>>

CanWrite(r) ==
  /\ pc[r] = "received"
  /\ r \notin Invalid
  /\ boot[host[r]] = "bound"

(* What OpenFGA does with a model write that reaches it.
   Seeded bug: the write makes a model the latest that the store never lists. *)
StoreModelUnlisted(r) ==
  /\ latest' = r
  /\ UNCHANGED models

StoreModel(r) ==
  /\ models' = models \cup {r}
  /\ latest' = r

WriteModel(r) ==
  /\ CanWrite(r)
  /\ StoreModel(r)
  /\ pc' = [pc EXCEPT ![r] = "written"]
  /\ UNCHANGED <<serverVars, host, answer, dbVars, recorded>>

(* The gateway has no client yet, or OpenFGA refused or was unreachable. *)
WriteModelFails(r) ==
  /\ pc[r] = "received"
  /\ r \notin Invalid
  /\ Finish(r, "502")
  /\ UNCHANGED <<serverVars, host, fgaVars, dbVars, recorded>>

(* The model is stored, but the reply is lost or the request is cancelled. *)
WriteModelReplyLost(r) ==
  /\ CanWrite(r)
  /\ StoreModel(r)
  /\ Finish(r, "502")
  /\ UNCHANGED <<serverVars, host, dbVars, recorded>>

-----------------------------------------------------------------------------
(* InsertVersion: BEGIN; INSERT model_version; UPDATE instance_config;     *)
(* COMMIT.  created_at defaults to now(), which is the time of BEGIN.      *)

(* Seeded bug: no transaction, so the INSERT is visible at once. *)
BeginInsertAutocommit(r) ==
  /\ pc[r] = "written"
  /\ pc' = [pc EXCEPT ![r] = "begun"]
  /\ createdAt' = [createdAt EXCEPT ![r] = now]
  /\ now' = now + 1
  /\ versions' = versions \cup {r}
  /\ UNCHANGED <<serverVars, host, answer, fgaVars, current, rowLock, recorded>>

BeginInsert(r) ==
  /\ pc[r] = "written"
  /\ pc' = [pc EXCEPT ![r] = "begun"]
  /\ createdAt' = [createdAt EXCEPT ![r] = now]
  /\ now' = now + 1
  /\ UNCHANGED <<serverVars, host, answer, fgaVars, versions, current, rowLock,
                 recorded>>

(* The UPDATE waits for the row; it touches nothing when there is no row. *)
UpdatePointer(r) ==
  /\ pc[r] = "begun"
  /\ config => rowLock = None
  /\ pc' = [pc EXCEPT ![r] = "updated"]
  /\ rowLock' = IF config THEN r ELSE rowLock
  /\ UNCHANGED <<serverVars, host, answer, fgaVars, versions, current, createdAt,
                 now, recorded>>

(* Seeded bug: a transaction that ends without COMMIT or ROLLBACK. *)
ReleaseForgotten(r) == UNCHANGED rowLock

Release(r) == rowLock' = IF rowLock = r THEN None ELSE rowLock

CommitInsert(r) ==
  /\ versions' = versions \cup {r}
  /\ current' = IF rowLock = r THEN r ELSE current
  /\ Release(r)
  /\ UNCHANGED <<createdAt, now>>

Commit(r) ==
  /\ pc[r] = "updated"
  /\ CommitInsert(r)
  /\ pc' = [pc EXCEPT ![r] = "committed"]
  /\ UNCHANGED <<serverVars, host, answer, fgaVars, recorded>>

(* The commit took effect, but the handler is told that it failed. *)
CommitReplyLost(r) ==
  /\ pc[r] = "updated"
  /\ CommitInsert(r)
  /\ pc' = [pc EXCEPT ![r] = "dbfailed"]
  /\ UNCHANGED <<serverVars, host, answer, fgaVars, recorded>>

(* Any statement of the transaction fails: rolled back. *)
InsertFails(r) ==
  /\ pc[r] \in {"written"} \cup InTransaction
  /\ Release(r)
  /\ pc' = [pc EXCEPT ![r] = "dbfailed"]
  /\ UNCHANGED <<serverVars, host, answer, fgaVars, versions, current, createdAt,
                 now, recorded>>

(* Seeded bug: the client is answered before the COMMIT. *)
ReportPublishedEarly(r) ==
  /\ pc[r] = "updated"
  /\ recorded' = recorded \cup {<<"model.publish", r>>}
  /\ Finish(r, "201")
  /\ UNCHANGED <<serverVars, host, fgaVars, dbVars>>

ReportPublished(r) ==
  /\ pc[r] = "committed"
  /\ recorded' = recorded \cup {<<"model.publish", r>>}
  /\ Finish(r, "201")
  /\ UNCHANGED <<serverVars, host, fgaVars, dbVars>>

(* Seeded bug: the failed insert is answered but not recorded. *)
ReportOrphanUnrecorded(r) ==
  /\ pc[r] = "dbfailed"
  /\ Finish(r, "500")
  /\ UNCHANGED <<serverVars, host, fgaVars, dbVars, recorded>>

ReportOrphan(r) ==
  /\ pc[r] = "dbfailed"
  /\ recorded' = recorded \cup {<<"model.publish.db_failure", r>>}
  /\ Finish(r, "500")
  /\ UNCHANGED <<serverVars, host, fgaVars, dbVars>>

-----------------------------------------------------------------------------
(* What a handler does when nothing interferes; InsertFails is the one step
   that may always strike and never has to. *)
Advance(r) ==
  \/ Reject(r)
  \/ WriteModel(r) \/ WriteModelFails(r) \/ WriteModelReplyLost(r)
  \/ BeginInsert(r) \/ UpdatePointer(r)
  \/ Commit(r) \/ CommitReplyLost(r)
  \/ ReportPublished(r) \/ ReportOrphan(r)

Step(r) == Advance(r) \/ InsertFails(r)

Process(s) == Listen(s) \/ PersistStore(s) \/ BindClient(s) \/ Crash(s)

Next ==
  \/ \E s \in Server : Process(s)
  \/ \E r \in Request, s \in Server : Receive(r, s)
  \/ \E r \in Request : Step(r)

Spec == Init /\ [][Next]_vars

(* A handler that can go on does: Go schedules its goroutine and a call it
   makes returns, with a result or an error.  A transaction that waits for
   the row is granted it when it is free; no request takes it twice, so weak
   fairness is enough, and no failure is assumed to come to the rescue. *)
FairSpec == Spec /\ \A r \in Request : WF_vars(Advance(r))

-----------------------------------------------------------------------------
(* Properties.                                                             *)

(* A version row never names a model OpenFGA does not have: the model is
   written first and its id recorded afterwards, whatever fails between. *)
VersionsAreWritten == versions \subseteq models

(* The pointer leads to a committed row, and is set as soon as one row is
   committed: the UPDATE that would silently match no row cannot happen,
   because no process publishes before it has persisted its store id. *)
PointerIsSet ==
  /\ current # None => current \in versions
  /\ versions # {} => current # None

(* A 201 is kept: the version is durable, recorded for audit, and not also
   reported as a failure. *)
AcknowledgedIsDurable ==
  \A r \in Request : answer[r] = "201" =>
    /\ r \in versions
    /\ <<"model.publish", r>> \in recorded
    /\ <<"model.publish.db_failure", r>> \notin recorded

(* A model in the store that no version names is explained: its request is
   still running, died with its process, was told 502 because the reply was
   lost, or was told 500 with a db_failure record. *)
OrphansAreExplained ==
  \A r \in models \ versions :
    \/ pc[r] \in {"dead", "written", "dbfailed"} \cup InTransaction
    \/ answer[r] = "502"
    \/ answer[r] = "500" /\ <<"model.publish.db_failure", r>> \in recorded

(* The docs call the pointer "always the latest published version": among
   the rows GET /model/versions lists, newest created_at first, the first
   one is the current one. *)
NewestIsCurrent ==
  current # None => \A r \in versions : createdAt[r] <= createdAt[current]

(* The publish handler implements the atomic publication of PublishedModel. *)
Abstract == INSTANCE PublishedModel WITH Model <- Request, published <- versions
ImplementsPublishedModel == Abstract!ModelSpec

(* No publish waits for ever, for the row lock or otherwise: it is answered
   unless its process dies. *)
EveryPublishEnds ==
  \A r \in Request : pc[r] = "received" ~> pc[r] \in {"done", "dead"}
=============================================================================
