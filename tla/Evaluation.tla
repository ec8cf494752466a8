----------------------------- MODULE Evaluation -----------------------------
(***************************************************************************)
(* POST /access/v1/evaluation: the decision path, beside the publishes and *)
(* the policy edits it races with.                                         *)
(*                                                                         *)
(* evaluate reads the current model, then the policy, then asks OpenFGA    *)
(* with the model it read first.  The two reads are separate statements:   *)
(* a publish or an edit may fall between them, so the policy may be newer  *)
(* than the pinned model.                                                  *)
(***************************************************************************)
EXTENDS PolicyStore

CONSTANT Evaluator  \* evaluations that may be in progress at one time

VARIABLES
  eval  \* where each evaluation stands, its question, its pin and its reply;
        \* "since" remembers what was published when it began

evaluationVars == <<modelVars, policyVars, eval>>

EvalAt == {"idle", "policy", "check", "replied"}
Reply == {"none", "MODEL_NOT_PUBLISHED", "NO_POLICY", "unknown_relation",
          "openfga_error", "internal_error", "allow", "deny"}
NoEvaluation == [at |-> "idle", asked |-> None, since |-> {}, pin |-> None,
                 reply |-> "none"]

EvalTypeOK ==
  /\ eval \in [Evaluator -> [at : EvalAt, asked : Target \cup {None},
                             since : SUBSET Model, pin : Model \cup {None},
                             reply : Reply]]
  /\ \A e \in Evaluator : eval[e].at \in {"policy", "check"} =>
       eval[e].pin # None /\ eval[e].asked # None

TypeOK ==
  /\ current \in Model \cup {None}
  /\ published \subseteq Model
  /\ PolicyTypeOK
  /\ EvalTypeOK

Init ==
  /\ ModelInit
  /\ PolicyInit
  /\ eval = [e \in Evaluator |-> NoEvaluation]

-----------------------------------------------------------------------------
Answer(e, reply) ==
  eval' = [eval EXCEPT ![e].at = "replied", ![e].reply = reply]

(* CurrentVersion, and the early return when nothing is published.
   Seeded bug: no early return. *)
ReadModelAnyway(e, t) ==
  /\ eval[e].at = "idle"
  /\ eval' = [eval EXCEPT ![e] =
       [at |-> "policy", asked |-> t, since |-> published, pin |-> current,
        reply |-> "none"]]

ReadModel(e, t) ==
  /\ eval[e].at = "idle"
  /\ eval' = [eval EXCEPT ![e] =
       [at |-> IF current = None THEN "replied" ELSE "policy",
        asked |-> t, since |-> published, pin |-> current,
        reply |-> IF current = None THEN "MODEL_NOT_PUBLISHED" ELSE "none"]]

(* FindByActionResource on what was asked. *)
ReadPolicy(e) ==
  /\ eval[e].at = "policy"
  /\ IF Holders(eval[e].asked) = {}
       THEN Answer(e, "NO_POLICY")
       ELSE eval' = [eval EXCEPT ![e].at = "check"]

(* Seeded bug: Check is not pinned, OpenFGA resolves its latest model. *)
KnowsUnpinned(e) == current # None /\ eval[e].asked \in Offers[current]

(* The pinned model defines can_<permission> on the type. *)
Knows(e) == eval[e].asked \in Offers[eval[e].pin]

(* Check: the decision follows from tuples this module leaves open; a
   relation the pinned model does not define is an error, not a denial. *)
CheckDecides(e) ==
  /\ eval[e].at = "check"
  /\ Knows(e)
  /\ \E decision \in {"allow", "deny"} : Answer(e, decision)

CheckRejects(e) ==
  /\ eval[e].at = "check"
  /\ ~Knows(e)
  /\ Answer(e, "unknown_relation")

(* OpenFGA is unreachable, or refuses the request's context. *)
CheckFails(e) ==
  /\ eval[e].at = "check"
  /\ Answer(e, "openfga_error")

(* Either query fails: 500. *)
ReadModelFails(e) ==
  /\ eval[e].at = "idle"
  /\ Answer(e, "internal_error")

ReadPolicyFails(e) ==
  /\ eval[e].at = "policy"
  /\ Answer(e, "internal_error")

Done(e) ==
  /\ eval[e].at = "replied"
  /\ eval' = [eval EXCEPT ![e] = NoEvaluation]

Evaluate(e) ==
  \/ \E t \in Target : ReadModel(e, t)
  \/ ReadPolicy(e) \/ CheckDecides(e) \/ CheckRejects(e) \/ CheckFails(e)
  \/ ReadModelFails(e) \/ ReadPolicyFails(e) \/ Done(e)

Next ==
  \/ ModelNext /\ UNCHANGED <<policyVars, eval>>
  \/ \E a \in Admin : PolicyStep(a) /\ UNCHANGED <<modelVars, eval>>
  \/ \E e \in Evaluator : Evaluate(e) /\ UNCHANGED <<modelVars, policyVars>>

Spec == Init /\ [][Next]_evaluationVars

-----------------------------------------------------------------------------
(* Properties.                                                             *)

(* The evaluator calls an OpenFGA error an integrity issue.  An unknown
   relation is always a skew between two published models: another published
   model defines the relation, the pinned one does not. *)
UnknownRelationIsSkew ==
  \A e \in Evaluator : eval[e].reply = "unknown_relation" =>
    /\ eval[e].asked \notin Offers[eval[e].pin]
    /\ \E m \in published \ {eval[e].pin} : eval[e].asked \in Offers[m]

(* A decision is made under one model that defines what it decides, and that
   was published when the evaluation began, whatever is published or edited
   before OpenFGA answers. *)
DecisionUnderOneModel ==
  \A e \in Evaluator : eval[e].reply \in {"allow", "deny"} =>
    /\ eval[e].asked \in Offers[eval[e].pin]
    /\ eval[e].pin \in eval[e].since
=============================================================================
