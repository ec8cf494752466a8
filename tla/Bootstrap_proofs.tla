-------------------------- MODULE Bootstrap_proofs --------------------------
(* Proofs about Bootstrap, for any number of processes, migrations, attempts
   and crashes. *)
EXTENDS Bootstrap, TLAPS

-----------------------------------------------------------------------------
(* The advisory lock is held by the process that reads and applies. *)
LockFollowsStage ==
  \A p \in Process : stage[p] \in {"read", "apply"} <=> lock = p

(* One transaction applies the whole journal. *)
Blank == \A i \in Migration : applied[i] = 0
Migrated == \A i \in Migration : applied[i] = 1

(* What a migrator found missing is missing until it commits. *)
PendingIsMissing ==
  \A p \in Process : stage[p] = "apply" => pending[p] = Missing

(* A store is chosen before it is persisted, and persisted before it is bound. *)
StoreFollowsStage ==
  \A p \in Process :
    /\ stage[p] \in {"persist", "bind"} => chosen[p] \in stores
    /\ stage[p] = "bind" => row # None

IInv ==
  /\ TypeOK
  /\ LockFollowsStage
  /\ Blank \/ Migrated
  /\ PendingIsMissing
  /\ StoreFollowsStage
  /\ MigratedFirst
  /\ RowBeforeClient

-----------------------------------------------------------------------------
LEMMA InitHolds == Init => IInv
<1> SUFFICES ASSUME Init PROVE IInv
  OBVIOUS
<1> USE BootstrapAssumption DEF Init
<1>1. stores \subseteq Store
  <2>1. \A p \in Process : Configured[p] \in Store \cup {None}
    OBVIOUS
  <2>2. Foreign \subseteq Store
    BY <2>1 DEF Foreign
  <2> QED
    BY <2>2
<1>2. TypeOK
  <2>1. stage \in [Process -> Stage] /\ attempt \in [Process -> 1 .. Attempts]
    BY DEF Stage
  <2>2. pending \in [Process -> SUBSET Migration] /\ applied \in [Migration -> Nat]
    OBVIOUS
  <2>3. chosen \in [Process -> Store \cup {None}] /\ client \in [Process -> Store \cup {None}]
    OBVIOUS
  <2> QED
    BY <1>1, <2>1, <2>2, <2>3 DEF TypeOK
<1>3. LockFollowsStage /\ Blank /\ PendingIsMissing
  BY DEF LockFollowsStage, Blank, PendingIsMissing
<1>4. StoreFollowsStage /\ MigratedFirst /\ RowBeforeClient
  BY DEF StoreFollowsStage, MigratedFirst, RowBeforeClient, Binding
<1> QED
  BY <1>2, <1>3, <1>4 DEF IInv

(* Every migration is pending on a blank schema, none on a migrated one. *)
LEMMA MissingIsAllOrNone ==
  ASSUME TypeOK
  PROVE  (Blank => Missing = Migration) /\ (Migrated => Missing = {})
<1>1. Blank => Missing = Migration
  BY DEF Blank, Missing
<1>2. ASSUME Migrated, NEW i \in Missing PROVE FALSE
  <2>1. i \in Migration /\ applied[i] > 0
    BY <1>2 DEF Migrated, Missing
  <2>2. i > i
    BY <2>1, <1>2 DEF Missing
  <2> QED
    BY <2>1, <2>2, BootstrapAssumption DEF Migration
<1> QED
  BY <1>1, <1>2

(* A commit takes a blank schema to a migrated one and leaves a migrated one
   as it is. *)
LEMMA CommitMigrates ==
  ASSUME IInv, NEW p \in Process, CommitMigrations(p)
  PROVE  Migrated'
<1>1. pending[p] = Missing
  BY DEF CommitMigrations, IInv, PendingIsMissing
<1>2. applied' = [i \in Migration |-> applied[i] + IF i \in Missing THEN 1 ELSE 0]
  BY <1>1 DEF CommitMigrations
<1>3. CASE Blank
  BY <1>2, <1>3, MissingIsAllOrNone DEF IInv, Blank, Migrated
<1>4. CASE Migrated
  BY <1>2, <1>4, MissingIsAllOrNone DEF IInv, Migrated
<1> QED
  BY <1>3, <1>4 DEF IInv

LEMMA NextStoreIsNew == Unused # {} => NextStore \in Unused
BY DEF NextStore

-----------------------------------------------------------------------------
(* The process starts, dies, or starts a half over. *)
LEMMA InterruptionKeepsIInv ==
  ASSUME IInv, NEW p \in Process,
         Start(p) \/ Crash(p) \/ MigrationInterrupted(p) \/ BindingInterrupted(p)
  PROVE  IInv'
<1> USE BootstrapAssumption
    DEF IInv, TypeOK, LockFollowsStage, Blank, Migrated, PendingIsMissing,
        StoreFollowsStage, MigratedFirst, RowBeforeClient, Missing,
        Stage, Migrating, Binding, Goto, Retry, Unlock, Choose,
        schemaVars, storeVars
<1>1. CASE Start(p)
  BY <1>1 DEF Start
<1>2. CASE Crash(p)
  BY <1>2 DEF Crash
<1>3. CASE MigrationInterrupted(p)
  BY <1>3 DEF MigrationInterrupted
<1>4. CASE BindingInterrupted(p)
  BY <1>4 DEF BindingInterrupted
<1> QED
  BY <1>1, <1>2, <1>3, <1>4

(* The migration. *)
LEMMA MigrationKeepsIInv ==
  ASSUME IInv, NEW p \in Process,
         \/ LookForCatalog(p) \/ CreateCatalog(p) \/ CreateCatalogLoses(p)
         \/ Lock(p) \/ ReadLast(p) \/ CommitMigrations(p)
  PROVE  IInv'
<1> USE BootstrapAssumption
    DEF IInv, TypeOK, LockFollowsStage, Blank, Migrated, PendingIsMissing,
        StoreFollowsStage, MigratedFirst, RowBeforeClient, Missing,
        Stage, Migrating, Binding, Goto, Retry, Unlock, Choose,
        schemaVars, storeVars
<1>1. CASE LookForCatalog(p)
  BY <1>1 DEF LookForCatalog
<1>2. CASE CreateCatalog(p)
  BY <1>2 DEF CreateCatalog
<1>3. CASE CreateCatalogLoses(p)
  BY <1>3 DEF CreateCatalogLoses
<1>4. CASE Lock(p)
  BY <1>4 DEF Lock
<1>5. CASE ReadLast(p)
  BY <1>5 DEF ReadLast
<1>6. CASE CommitMigrations(p)
  <2>1. Migrated'
    BY <1>6, CommitMigrates
  <2>2. applied' \in [Migration -> Nat]
    <3>1. \A i \in Migration : applied[i] + (IF i \in pending[p] THEN 1 ELSE 0) \in Nat
      OBVIOUS
    <3> QED
      BY <1>6, <3>1 DEF CommitMigrations
  <2>3. stage[p] = "apply" /\ lock = p /\ lock' = None
    BY <1>6 DEF CommitMigrations
  <2>4. /\ stage' = [stage EXCEPT ![p] = "load"] /\ attempt' = [attempt EXCEPT ![p] = 1]
        /\ UNCHANGED <<pending, chosen, client, catalog, stores, row>>
    BY <1>6 DEF CommitMigrations
  <2>5. TypeOK' /\ LockFollowsStage' /\ PendingIsMissing'
    BY <2>2, <2>3, <2>4
  <2>6. StoreFollowsStage' /\ MigratedFirst' /\ RowBeforeClient'
    BY <2>1, <2>4
  <2> QED
    BY <2>1, <2>5, <2>6
<1> QED
  BY <1>1, <1>2, <1>3, <1>4, <1>5, <1>6

(* The gateway's half: the schema is not touched any more. *)
LEMMA BindingKeepsIInv ==
  ASSUME IInv, NEW p \in Process,
         \/ LoadCandidate(p) \/ StoreFound(p) \/ StoreNotFound(p)
         \/ CreateStore(p) \/ CreateStoreReplyLost(p) \/ CreateStoreRefused(p)
         \/ Persist(p) \/ PersistReplyLost(p) \/ Bind(p)
  PROVE  IInv'
<1> USE BootstrapAssumption
    DEF IInv, TypeOK, LockFollowsStage, Blank, Migrated, PendingIsMissing,
        StoreFollowsStage, MigratedFirst, RowBeforeClient, Missing,
        Stage, Migrating, Binding, Goto, Retry, Unlock, Choose,
        schemaVars, storeVars
<1>1. CASE LoadCandidate(p)
  BY <1>1 DEF LoadCandidate
<1>2. CASE StoreFound(p)
  BY <1>2 DEF StoreFound
<1>3. CASE StoreNotFound(p)
  BY <1>3 DEF StoreNotFound
<1>4. CASE CreateStore(p)
  BY <1>4, NextStoreIsNew DEF CreateStore, Unused
<1>5. CASE CreateStoreReplyLost(p)
  BY <1>5, NextStoreIsNew DEF CreateStoreReplyLost, Unused
<1>6. CASE CreateStoreRefused(p)
  BY <1>6 DEF CreateStoreRefused
<1>7. CASE Persist(p)
  BY <1>7 DEF Persist
<1>8. CASE PersistReplyLost(p)
  BY <1>8 DEF PersistReplyLost
<1>9. CASE Bind(p)
  BY <1>9 DEF Bind
<1> QED
  BY <1>1, <1>2, <1>3, <1>4, <1>5, <1>6, <1>7, <1>8, <1>9

LEMMA StutterKeepsIInv == IInv /\ UNCHANGED vars => IInv'
BY DEF vars, processVars, IInv, TypeOK, LockFollowsStage, Blank, Migrated,
       PendingIsMissing, StoreFollowsStage, MigratedFirst, RowBeforeClient, Missing,
       schemaVars, storeVars

(* The inductive invariant holds in every reachable state. *)
THEOREM Invariance == Spec => []IInv
<1>1. IInv /\ [Next]_vars => IInv'
  BY InterruptionKeepsIInv, MigrationKeepsIInv, BindingKeepsIInv, StutterKeepsIInv
  DEF Next, Boot, Advance
<1> QED
  BY InitHolds, <1>1, PTL DEF Spec

(* Types, for every reachable state. *)
THEOREM TypeCorrect == Spec => []TypeOK
BY Invariance, PTL DEF IInv

(* However many processes boot together, no migration is applied twice. *)
THEOREM MigrationsAppliedOnce == Spec => []AppliedOnce
<1>1. IInv => AppliedOnce
  BY DEF IInv, AppliedOnce, Blank, Migrated
<1> QED
  BY <1>1, Invariance, PTL

(* No process works on a schema that is not complete. *)
THEOREM SchemaBeforeStore == Spec => []MigratedFirst
BY Invariance, PTL DEF IInv

(* A bound client implies a recorded store: publishing finds its row. *)
THEOREM RowBeforeAnyClient == Spec => []RowBeforeClient
BY Invariance, PTL DEF IInv
=============================================================================
