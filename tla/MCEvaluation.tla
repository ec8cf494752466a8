---------------------------- MODULE MCEvaluation ----------------------------
(* Small instance of Evaluation: two models, the first of which offers a
   target that the second does not, so that a publish can make a target
   appear or disappear.  A run is in one of two scenarios: "races" has all
   admins at work at one time and no evaluation, "evaluations" has them one
   after the other beside the evaluations. *)
EXTENDS Evaluation, TLC

CONSTANTS m1, read, write, doc

T(p, r) == [permission |-> p, resourceType |-> r]
MCOffers == [m \in Model |->
  IF m = m1 THEN {T(read, doc), T(write, doc)} ELSE {T(read, doc)}]

MCSymmetry == Permutations(Admin) \cup Permutations(Policy)

VARIABLE scenario
MCvars == <<evaluationVars, scenario>>

MCInit == Init /\ scenario \in {"races", "evaluations"}

AlonePolicyStep(a) ==
  /\ \A b \in Admin \ {a} : session[b].at = "idle"
  /\ PolicyStep(a)

MCNext ==
  \/ ModelNext /\ UNCHANGED <<policyVars, eval, scenario>>
  \/ /\ scenario = "races"
     /\ \E a \in Admin : PolicyStep(a)
     /\ UNCHANGED <<modelVars, eval, scenario>>
  \/ /\ scenario = "evaluations"
     /\ \E a \in Admin : AlonePolicyStep(a)
     /\ UNCHANGED <<modelVars, eval, scenario>>
  \/ /\ scenario = "evaluations"
     /\ \E e \in Evaluator : Evaluate(e)
     /\ UNCHANGED <<modelVars, policyVars, scenario>>

MCSpec == MCInit /\ [][MCNext]_MCvars
=============================================================================
