----------------------------- MODULE Bootstrap ------------------------------
(***************************************************************************)
(* The boot of API processes that share one Postgres and one OpenFGA:      *)
(* App.bootstrap migrates the schema, then lets the gateway find or create *)
(* the instance's OpenFGA store, record its id in instance_config, and     *)
(* bind its client to it.  Each half is retried as a whole on transient    *)
(* errors, a bounded number of times; afterwards the process serves in     *)
(* degraded mode.  Any other error ends the process.                       *)
(***************************************************************************)
EXTENDS Naturals, FiniteSets

CONSTANTS
  Process,     \* API processes
  Store,       \* ids OpenFGA gives to the stores it creates
  Configured,  \* LAZYFGA_STORE_ID of each process, or None
  Latest,      \* number of migrations in the embedded journal
  Attempts,    \* tries of each half (8 in the code)
  None

ASSUME BootstrapAssumption ==
  /\ None \notin Store /\ None \notin Process
  /\ Configured \in [Process -> Store \cup {None}]
  /\ Latest \in Nat \ {0}
  /\ Attempts \in Nat \ {0}

VARIABLES
  stage,      \* where each process stands
  attempt,    \* the try it is in
  pending,    \* the migrations its transaction found missing
  chosen,     \* the store id it looks up, creates and persists
  client,     \* the store its gateway is bound to
  catalog,    \* does the bookkeeping table exist?
  applied,    \* how often each migration has been applied
  lock,       \* the transaction that holds the advisory lock
  stores,     \* the stores OpenFGA has
  row         \* instance_config.openfga_store_id

processVars == <<stage, attempt, pending, chosen, client>>
schemaVars == <<catalog, applied, lock>>
storeVars == <<stores, row>>
vars == <<processVars, schemaVars, storeVars>>

(* Stores made by someone else, whose ids only the configuration knows. *)
Foreign == {Configured[p] : p \in Process} \ {None}

Migration == 1 .. Latest
Migrating == {"catalog", "create_catalog", "wait", "read", "apply"}
Binding == {"load", "lookup", "create", "persist", "bind"}
Stage == {"off", "ready", "degraded", "fatal"} \cup Migrating \cup Binding

TypeOK ==
  /\ stage \in [Process -> Stage]
  /\ attempt \in [Process -> 1 .. Attempts]
  /\ pending \in [Process -> SUBSET Migration]
  /\ chosen \in [Process -> Store \cup {None}]
  /\ client \in [Process -> Store \cup {None}]
  /\ catalog \in BOOLEAN
  /\ applied \in [Migration -> Nat]
  /\ lock \in Process \cup {None}
  /\ stores \subseteq Store
  /\ row \in Store \cup {None}

Init ==
  /\ stage = [p \in Process |-> "off"]
  /\ attempt = [p \in Process |-> 1]
  /\ pending = [p \in Process |-> {}]
  /\ chosen = [p \in Process |-> None]
  /\ client = [p \in Process |-> None]
  /\ catalog = FALSE
  /\ applied = [i \in Migration |-> 0]
  /\ lock = None
  /\ stores \in SUBSET Foreign
  /\ row = None

-----------------------------------------------------------------------------
(* The process, and withRetry.                                             *)

Goto(p, s) == stage' = [stage EXCEPT ![p] = s]

Start(p) ==
  /\ stage[p] = "off"
  /\ Goto(p, "catalog")
  /\ attempt' = [attempt EXCEPT ![p] = 1]
  /\ UNCHANGED <<pending, chosen, client, schemaVars, storeVars>>

Unlock(p) == lock' = IF lock = p THEN None ELSE lock

(* A crash, or the exit after a fatal error followed by a restart. *)
Crash(p) ==
  /\ stage[p] # "off"
  /\ Goto(p, "off")
  /\ client' = [client EXCEPT ![p] = None]
  /\ Unlock(p)
  /\ UNCHANGED <<attempt, pending, chosen, catalog, applied, storeVars>>

(* A transient error: the half starts over, or the process gives up and
   serves without a client.
   Seeded bug: one try too many. *)
RetryOnceMore(p, from) ==
  IF attempt[p] <= Attempts
    THEN /\ Goto(p, from)
         /\ attempt' = [attempt EXCEPT ![p] = @ + 1]
    ELSE /\ Goto(p, "degraded")
         /\ UNCHANGED attempt

Retry(p, from) ==
  IF attempt[p] < Attempts
    THEN /\ Goto(p, from)
         /\ attempt' = [attempt EXCEPT ![p] = @ + 1]
    ELSE /\ Goto(p, "degraded")
         /\ UNCHANGED attempt

(* Any statement of the migration fails for a transient reason: the deferred
   rollback frees the lock.
   Seeded bug: the transaction is left open. *)
MigrationInterruptedOpen(p) ==
  /\ stage[p] \in Migrating
  /\ Retry(p, "catalog")
  /\ UNCHANGED <<pending, chosen, client, schemaVars, storeVars>>

MigrationInterrupted(p) ==
  /\ stage[p] \in Migrating
  /\ Retry(p, "catalog")
  /\ Unlock(p)
  /\ UNCHANGED <<pending, chosen, client, catalog, applied, storeVars>>

BindingInterrupted(p) ==
  /\ stage[p] \in Binding \ {"lookup", "bind"}
  /\ Retry(p, "load")
  /\ UNCHANGED <<pending, chosen, client, schemaVars, storeVars>>

-----------------------------------------------------------------------------
(* Migrate.                                                                *)

(* CREATE ... IF NOT EXISTS, as Postgres runs it: it looks, and if nothing is
   there it inserts into the catalog, where a concurrent creation that
   committed first makes it fail with a unique violation. *)
LookForCatalog(p) ==
  /\ stage[p] = "catalog"
  /\ Goto(p, IF catalog THEN "wait" ELSE "create_catalog")
  /\ UNCHANGED <<attempt, pending, chosen, client, schemaVars, storeVars>>

CreateCatalog(p) ==
  /\ stage[p] = "create_catalog"
  /\ ~catalog
  /\ catalog' = TRUE
  /\ Goto(p, "wait")
  /\ UNCHANGED <<attempt, pending, chosen, client, applied, lock, storeVars>>

(* Not a network error, so not transient: the process exits. *)
CreateCatalogLoses(p) ==
  /\ stage[p] = "create_catalog"
  /\ catalog
  /\ Goto(p, "fatal")
  /\ UNCHANGED <<attempt, pending, chosen, client, schemaVars, storeVars>>

Lock(p) ==
  /\ stage[p] = "wait"
  /\ lock = None
  /\ lock' = p
  /\ Goto(p, "read")
  /\ UNCHANGED <<attempt, pending, chosen, client, catalog, applied, storeVars>>

(* readLastApplied: what is newer than the newest applied one is pending. *)
Missing == {i \in Migration : \A j \in Migration : applied[j] > 0 => i > j}

(* Seeded bug: the last migration is read before the lock is taken. *)
ReadLastUnlocked(p) ==
  /\ stage[p] \in {"wait", "read"}
  /\ pending' = [pending EXCEPT ![p] = Missing]
  /\ Goto(p, "apply")
  /\ UNCHANGED <<attempt, chosen, client, schemaVars, storeVars>>

ReadLast(p) ==
  /\ stage[p] = "read"
  /\ pending' = [pending EXCEPT ![p] = Missing]
  /\ Goto(p, "apply")
  /\ UNCHANGED <<attempt, chosen, client, schemaVars, storeVars>>

(* The statements and their bookkeeping rows become visible at the commit,
   which frees the lock; the second half begins with a fresh count. *)
CommitMigrations(p) ==
  /\ stage[p] = "apply"
  /\ applied' = [i \in Migration |-> applied[i] + IF i \in pending[p] THEN 1 ELSE 0]
  /\ Unlock(p)
  /\ Goto(p, "load")
  /\ attempt' = [attempt EXCEPT ![p] = 1]
  /\ UNCHANGED <<pending, chosen, client, catalog, storeVars>>

-----------------------------------------------------------------------------
(* Gateway.Bootstrap.                                                      *)

Choose(p, s) == chosen' = [chosen EXCEPT ![p] = s]

(* The candidate: the configured id, or else the stored one. *)
LoadCandidate(p) ==
  /\ stage[p] = "load"
  /\ Choose(p, IF Configured[p] # None THEN Configured[p] ELSE row)
  /\ Goto(p, "lookup")
  /\ UNCHANGED <<attempt, pending, client, schemaVars, storeVars>>

StoreFound(p) ==
  /\ stage[p] = "lookup"
  /\ chosen[p] \in stores
  /\ Goto(p, "persist")
  /\ UNCHANGED <<attempt, pending, chosen, client, schemaVars, storeVars>>

(* storeExists is "GetStore returned no error": an unreachable OpenFGA looks
   the same as a store that is not there. *)
StoreNotFound(p) ==
  /\ stage[p] = "lookup"
  /\ Goto(p, "create")
  /\ UNCHANGED <<attempt, pending, chosen, client, schemaVars, storeVars>>

(* The store OpenFGA would create next. *)
Unused == Store \ (stores \cup Foreign)
NextStore == CHOOSE s \in Unused : TRUE

CreateStore(p) ==
  /\ stage[p] = "create"
  /\ Unused # {}
  /\ stores' = stores \cup {NextStore}
  /\ Choose(p, NextStore)
  /\ Goto(p, "persist")
  /\ UNCHANGED <<attempt, pending, client, schemaVars, row>>

(* The store is created, but the answer does not arrive: tried again. *)
CreateStoreReplyLost(p) ==
  /\ stage[p] = "create"
  /\ Unused # {}
  /\ stores' = stores \cup {NextStore}
  /\ Retry(p, "load")
  /\ UNCHANGED <<pending, chosen, client, schemaVars, row>>

(* OpenFGA refuses, which is not transient. *)
CreateStoreRefused(p) ==
  /\ stage[p] = "create"
  /\ Goto(p, "fatal")
  /\ UNCHANGED <<attempt, pending, chosen, client, schemaVars, storeVars>>

Persist(p) ==
  /\ stage[p] = "persist"
  /\ row' = chosen[p]
  /\ Goto(p, "bind")
  /\ UNCHANGED <<attempt, pending, chosen, client, schemaVars, stores>>

PersistReplyLost(p) ==
  /\ stage[p] = "persist"
  /\ row' = chosen[p]
  /\ Retry(p, "load")
  /\ UNCHANGED <<pending, chosen, client, schemaVars, stores>>

(* Seeded bug: a failed upsert is logged and the client bound all the same. *)
BindUnpersisted(p) ==
  /\ stage[p] \in {"persist", "bind"}
  /\ client' = [client EXCEPT ![p] = chosen[p]]
  /\ Goto(p, "ready")
  /\ UNCHANGED <<attempt, pending, chosen, schemaVars, storeVars>>

(* The client is bound, and storeReady makes /healthz answer 200. *)
Bind(p) ==
  /\ stage[p] = "bind"
  /\ client' = [client EXCEPT ![p] = chosen[p]]
  /\ Goto(p, "ready")
  /\ UNCHANGED <<attempt, pending, chosen, schemaVars, storeVars>>

-----------------------------------------------------------------------------
(* What a boot does when nothing interrupts it. *)
Advance(p) ==
  \/ LookForCatalog(p) \/ CreateCatalog(p) \/ CreateCatalogLoses(p)
  \/ Lock(p) \/ ReadLast(p) \/ CommitMigrations(p)
  \/ LoadCandidate(p) \/ StoreFound(p) \/ StoreNotFound(p)
  \/ CreateStore(p) \/ CreateStoreReplyLost(p) \/ CreateStoreRefused(p)
  \/ Persist(p) \/ PersistReplyLost(p) \/ Bind(p)

Boot(p) == Advance(p) \/ MigrationInterrupted(p) \/ BindingInterrupted(p)

Next == \E p \in Process : Start(p) \/ Boot(p) \/ Crash(p)

Spec == Init /\ [][Next]_vars

(* A call returns, and the lock is granted when it is free; no failure comes
   to the help of a process that waits for it. *)
FairSpec == Spec /\ \A p \in Process : WF_vars(Advance(p))

-----------------------------------------------------------------------------
(* Properties.                                                             *)

(* Concurrent boots apply every migration once: the journal is read under the
   lock that the previous migrator held until its commit. *)
AppliedOnce ==
  \A i \in Migration : applied[i] <= 1

(* The gateway reads and writes instance_config only when the whole schema is
   there, whichever process migrated it. *)
MigratedFirst ==
  \A p \in Process : stage[p] \in Binding \cup {"ready"} =>
    \A i \in Migration : applied[i] = 1

(* A process that has a client, and may publish, leaves behind an
   instance_config row: the pointer update of a publish finds its row. *)
RowBeforeClient ==
  \A p \in Process : client[p] # None => row # None /\ client[p] \in stores

(* Every boot comes to an end: healthy, degraded or exited.  In particular the
   advisory lock does not keep a process waiting for ever. *)
EveryBootEnds ==
  \A p \in Process :
    stage[p] = "catalog" ~> stage[p] \in {"ready", "degraded", "fatal", "off"}

(* The boot creates a store when there is none, or none is configured; the one
   it recorded is the instance's store from then on. *)
StoreIsKept ==
  [][row # None /\ row \in stores => row' = row]_row

(* Migrate is safe for concurrent boots: with a working database, no process
   exits from its migration because another one boots beside it. *)
NoBootLosesRace ==
  [][\A p \in Process : stage[p] \in Migrating => stage'[p] # "fatal"]_stage
=============================================================================
