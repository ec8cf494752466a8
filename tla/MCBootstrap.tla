---------------------------- MODULE MCBootstrap -----------------------------
(* Small instance of Bootstrap: processes that may crash CrashBound times in
   total.  One process may be configured with a store of its own; Store has
   one id more than the boots of a run can ask OpenFGA for. *)
EXTENDS Bootstrap, TLC

CONSTANTS CrashBound, configuredProcess, configuredStore

MCConfigured == [p \in Process |->
                   IF p = configuredProcess THEN configuredStore ELSE None]

VARIABLE crashes

MCInit == Init /\ crashes = 0

MCNext ==
  \/ \E p \in Process : (Start(p) \/ Boot(p)) /\ UNCHANGED crashes
  \/ /\ crashes < CrashBound
     /\ \E p \in Process : Crash(p)
     /\ crashes' = crashes + 1

MCSpec == MCInit /\ [][MCNext]_<<vars, crashes>>
MCFairSpec == MCSpec /\ \A p \in Process : WF_vars(Advance(p))
=============================================================================
