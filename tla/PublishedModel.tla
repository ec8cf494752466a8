--------------------------- MODULE PublishedModel ---------------------------
(***************************************************************************)
(* What publishing promises to every other part of lazyFGA.                *)
(*                                                                         *)
(* The readers of the control plane (policy validation, evaluation,        *)
(* grants) see the published model through one call, CurrentVersion, and   *)
(* rely on three things: a version and the pointer to it appear together,  *)
(* a version is published at most once, and the pointer never goes back to *)
(* "nothing published".  This module says exactly that, in one action;     *)
(* ModelPublish shows that the four-step publish handler, with its         *)
(* transaction, its failures and its crashes, implements it.               *)
(***************************************************************************)
CONSTANTS
  Model,   \* the authorization models requests may publish
  None     \* "no model published yet"

ASSUME ModelAssumption == None \notin Model

VARIABLES
  current,   \* the model instance_config.current_model_version_id leads to
  published  \* the models that have a row in model_version

modelVars == <<current, published>>

ModelInit ==
  /\ current = None
  /\ published = {}

(* One committed InsertVersion: the new row and the pointer to it. *)
Publish(m) ==
  /\ m \notin published
  /\ published' = published \cup {m}
  /\ current' = m

ModelNext == \E m \in Model : Publish(m)

ModelSpec == ModelInit /\ [][ModelNext]_modelVars

(* CurrentVersion answers (nil, nil) exactly when nothing is published. *)
NothingPublished == current = None
=============================================================================
