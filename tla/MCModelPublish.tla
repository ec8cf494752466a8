--------------------------- MODULE MCModelPublish ---------------------------
(* Small instance of ModelPublish: three valid publishes or two valid and one
   invalid, on one or two processes that may each crash CrashBound times in
   total.  The bound on crashes is the only one a run needs: everything else
   is finite because a request runs once. *)
EXTENDS ModelPublish, TLC

CONSTANT CrashBound

VARIABLE crashes

MCInit == Init /\ crashes = 0

MCNext ==
  \/ /\ crashes < CrashBound
     /\ \E s \in Server : Crash(s)
     /\ crashes' = crashes + 1
  \/ /\ \E s \in Server : Listen(s) \/ PersistStore(s) \/ BindClient(s)
     /\ UNCHANGED crashes
  \/ /\ \E r \in Request, s \in Server : Receive(r, s)
     /\ UNCHANGED crashes
  \/ /\ \E r \in Request : Step(r)
     /\ UNCHANGED crashes

MCSpec == MCInit /\ [][MCNext]_<<vars, crashes>>
MCFairSpec == MCSpec /\ \A r \in Request : WF_vars(Advance(r))
=============================================================================
