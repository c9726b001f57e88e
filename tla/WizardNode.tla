----------------------------- MODULE WizardNode -----------------------------
(***************************************************************************)
(* One node of the guided wizard: inspect_next projects Core's obligations *)
(* into a decision, advise_workflow turns it into the action shown on the  *)
(* decision card, a human confirms the card, and execute_in_session_action *)
(* (or the guided executor, for "prepare") acts.  The advisor and the      *)
(* executor each derive the action from the same decision, at different    *)
(* times and with separate code, reading the project's delivery target and *)
(* the persisted verification result afresh each time.                     *)
(***************************************************************************)
EXTENDS WizardRules

VARIABLES
  decision,   \* the decision the wizard holds
  delivery,   \* delivery target configured for the project
  failed,     \* persisted verification result: executed, and not passed
  changed,    \* whether delivery or failed changed since the card was shown
  shown,      \* the action on the card; "none" before there is a card
  done        \* what confirming the card did

nodeVars == <<decision, delivery, failed, changed, shown, done>>

-----------------------------------------------------------------------------
Actions == {"none", "approve", "submit-pr", "prepare-local-operations",
            "publish-local-artifacts", "mark-deployed", "accept-criteria",
            "verify", "advance-criterion", "transition", "review", "prepare"}

NodeTypeOK ==
  /\ decision \in Decision
  /\ delivery \in Deliveries
  /\ failed \in BOOLEAN
  /\ changed \in BOOLEAN
  /\ shown \in Actions
  /\ done \in Actions \cup {"refused"}

NodeInit ==
  /\ decision \in {d \in Decision : Inspectable(d)}
  /\ delivery \in Deliveries
  /\ failed \in BOOLEAN
  /\ changed = FALSE
  /\ shown = "none"
  /\ done = "none"

ShowCard ==
  /\ shown = "none"
  /\ shown' = Advice(decision, delivery, failed)
  /\ UNCHANGED <<decision, delivery, failed, changed, done>>

(* Other processes verify the Work or edit ai-sdlc/project.yaml.           *)
SettingsChange ==
  /\ shown # "none" /\ done = "none"
  /\ delivery' \in Deliveries
  /\ failed' \in BOOLEAN
  /\ changed' = TRUE
  /\ UNCHANGED <<decision, shown, done>>

ConfirmPreparation ==
  /\ shown = "prepare" /\ done = "none"
  /\ done' = IF AtHumanBoundary(decision) THEN "refused" ELSE "prepare"
  /\ UNCHANGED <<decision, delivery, failed, changed, shown>>

(* Mutant: a result the session does not know. *)
ConfirmReviewed ==
  /\ shown = "review" /\ done = "none"
  /\ done' = "reviewed"
  /\ UNCHANGED <<decision, delivery, failed, changed, shown>>

(* A "review" card only renders the decision and ends the session.         *)
ConfirmReview ==
  /\ shown = "review" /\ done = "none"
  /\ done' = "review"
  /\ UNCHANGED <<decision, delivery, failed, changed, shown>>

(* Core, or a role the actor may not decide for, can refuse the action.    *)
ConfirmAction ==
  /\ shown \notin {"none", "prepare", "review"} /\ done = "none"
  /\ done' \in {NextInSessionAction(decision, delivery, failed), "refused"}
  /\ UNCHANGED <<decision, delivery, failed, changed, shown>>

NodeNext == ShowCard \/ SettingsChange \/ ConfirmPreparation \/ ConfirmReview \/ ConfirmAction

NodeSpec == NodeInit /\ [][NodeNext]_nodeVars

-----------------------------------------------------------------------------
(* Properties.                                                             *)

(* The human confirms one action; the separately written rules of the      *)
(* executor must pick the same one from the same facts.                    *)
ConfirmedIsExecuted ==
  done \notin {"none", "refused"} /\ ~changed => done = shown

(* "Lifecycle transitions are attempted only when Core already reports the *)
(* node ready": no card leads to a transition, an acceptance or a recorded *)
(* deployment while obligations are open, even when the settings the       *)
(* executor re-reads changed after the card was shown.                     *)
NoLifecycleStepOverGaps ==
  done \in {"transition", "accept-criteria", "mark-deployed", "advance-criterion"}
    => ~TechnicalGaps(decision) /\ (done = "transition" => ~decision.blocked)

(* The header says the gate is ready exactly when Enter leads to the       *)
(* transition: the view, the advisor and Core's facts are read by separate *)
(* code.                                                                   *)
ReadyGateIsTransition ==
  shown # "none" =>
    (VisibleCheckpoint(decision) = "transition") = (shown = "transition")

(* "Human approval is recorded only after the user confirms the wizard     *)
(* card": an approval is recorded only from an approval card.              *)
ApprovalWasConfirmed == done = "approve" => shown = "approve"

=============================================================================
