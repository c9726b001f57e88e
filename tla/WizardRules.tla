---------------------------- MODULE WizardRules ----------------------------
(***************************************************************************)
(* The rules of the guided wizard, without state: the decision inspect_next*)
(* projects from Core, the action advise_workflow puts on the card and the *)
(* action next_in_session_action performs.  The two lists of rules are     *)
(* separate code over the same decision.                                   *)
(***************************************************************************)
EXTENDS Naturals, Sequences, FiniteSets

CONSTANT Stages   \* the lifecycle states considered

ASSUME StagesAssumption ==
  Stages \subseteq {"inception", "construction", "operations"}

-----------------------------------------------------------------------------
(* Decisions.  "artifacts" says which kinds of artifact are missing,       *)
(* "criteria" the stages the unsatisfied criteria have reached.            *)

Evidence   == {"deployment", "security-scan", "test-suite"}
Levels     == {"designed", "built", "verified", "deployed"}
Deliveries == {"none", "pull-request", "local-artifacts"}

Decision ==
  [state : Stages, completion : BOOLEAN, artifacts : {"none", "local", "other"},
   evidence : SUBSET Evidence, approvals : BOOLEAN, criteria : SUBSET Levels,
   clarifications : BOOLEAN, git : BOOLEAN, ready : BOOLEAN,
   transition : BOOLEAN, blocked : BOOLEAN, aiDeveloper : BOOLEAN,
   nextBuild : BOOLEAN]

TechnicalGaps(d) ==
  d.artifacts # "none" \/ d.evidence # {} \/ d.clarifications \/ d.git

(* What inspect_next can project: Core reports every missing item as a     *)
(* blocker, a next criterion stage is looked up only without technical     *)
(* gaps, a transition is offered only without blockers, and only the       *)
(* operations stage reaches the completion gate and its local artifacts.   *)
Inspectable(d) ==
  /\ TechnicalGaps(d) \/ d.approvals \/ d.criteria # {} => d.blocked
  /\ d.nextBuild => ~TechnicalGaps(d) /\ d.criteria # {}
  /\ d.transition => ~d.blocked
  /\ d.ready => d.approvals
  /\ d.completion \/ d.artifacts = "local" => d.state = "operations"

-----------------------------------------------------------------------------
(* Conditions the advisor and the executor test on a decision.             *)

(* The guards are tried in order; the first that holds gives the action.   *)
FirstOf(rules) ==
  LET Holding == {i \in DOMAIN rules : rules[i][1]}
  IN  rules[CHOOSE i \in Holding : \A j \in Holding : i <= j][2]

AwaitsCompletion(d) == d.state = "operations" /\ d.completion

PendingDeployment(d) == d.criteria \ {"deployed"}

AwaitsDeployment(d) ==
  /\ AwaitsCompletion(d)
  /\ PendingDeployment(d) # {} /\ PendingDeployment(d) \subseteq {"verified"}

AgentDeploys(d) == AwaitsDeployment(d) /\ d.aiDeveloper

(* Mutant: evidence that is still missing is not looked at. *)
NoArtifactMissing(d) == d.artifacts = "none" /\ ~d.clarifications /\ ~d.git

OnlyDeploymentMissing(d) ==
  /\ d.evidence \subseteq {"deployment"}
  /\ d.artifacts = "none" /\ ~d.clarifications /\ ~d.git

LocalOperationsMissing(d) ==
  /\ d.artifacts # "other" /\ d.evidence \subseteq {"deployment", "security-scan"}
  /\ d.artifacts = "local" \/ "security-scan" \in d.evidence
  /\ ~d.clarifications /\ ~d.git

(* Mutant: technical gaps are forgotten. *)
AllDeployedWithGaps(d) == AwaitsCompletion(d) /\ d.criteria = {"deployed"}

AllDeployed(d) ==
  AwaitsCompletion(d) /\ d.criteria = {"deployed"} /\ ~TechnicalGaps(d)

(* The tests of a built increment are the only thing missing.              *)
TestingBoundary(d) ==
  /\ d.state = "construction" /\ d.criteria = {"built"}
  /\ d.evidence = {"test-suite"}
  /\ d.artifacts = "none" /\ ~d.clarifications /\ ~d.git

AgentAdvances(d) ==
  /\ d.state = "construction" /\ d.criteria # {} /\ d.nextBuild
  /\ d.aiDeveloper /\ ~TechnicalGaps(d)

OnlyEvidenceMissing(d) ==
  d.evidence # {} /\ d.artifacts = "none" /\ ~d.clarifications /\ d.criteria = {}

NeedsPreparation(d) ==
  d.artifacts # "none" \/ d.clarifications \/ d.criteria # {} \/ d.blocked

-----------------------------------------------------------------------------
(* advise_workflow: the action on the card.                                *)
Advice(d, target, verificationFailed) ==
  FirstOf(<<
    <<d.ready /\ d.approvals /\ ~TechnicalGaps(d) /\ d.criteria = {}, "approve">>,
    <<AgentDeploys(d) /\ OnlyDeploymentMissing(d) /\ target = "pull-request", "submit-pr">>,
    <<AgentDeploys(d) /\ LocalOperationsMissing(d) /\ target = "local-artifacts",
      "prepare-local-operations">>,
    <<AgentDeploys(d) /\ OnlyDeploymentMissing(d) /\ target = "local-artifacts",
      "publish-local-artifacts">>,
    <<AgentDeploys(d) /\ ~TechnicalGaps(d), "mark-deployed">>,
    <<AwaitsDeployment(d) /\ ~TechnicalGaps(d), "review">>,
    <<AllDeployed(d), "accept-criteria">>,
    <<TestingBoundary(d) /\ verificationFailed, "prepare">>,
    <<TestingBoundary(d), "verify">>,
    <<AgentAdvances(d), "advance-criterion">>,
    <<OnlyEvidenceMissing(d), "verify">>,
    <<NeedsPreparation(d), "prepare">>,
    <<d.transition, "transition">>,
    <<TRUE, "review">> >>)

(* Mutant: approvals come before the other obligations. *)
InSessionApprovalFirst(d, target, verificationFailed) ==
  IF d.ready /\ d.approvals THEN "approve"
  ELSE Advice(d, target, verificationFailed)

(* next_in_session_action: the action execute_in_session_action performs.  *)
NextInSessionAction(d, target, verificationFailed) ==
  FirstOf(<<
    <<AgentDeploys(d) /\ OnlyDeploymentMissing(d) /\ target = "pull-request", "submit-pr">>,
    <<AgentDeploys(d) /\ LocalOperationsMissing(d) /\ target = "local-artifacts",
      "prepare-local-operations">>,
    <<AgentDeploys(d) /\ OnlyDeploymentMissing(d) /\ target = "local-artifacts",
      "publish-local-artifacts">>,
    <<AgentDeploys(d) /\ ~TechnicalGaps(d), "mark-deployed">>,
    <<AllDeployed(d), "accept-criteria">>,
    <<AgentAdvances(d), "advance-criterion">>,
    <<TestingBoundary(d) /\ ~verificationFailed, "verify">>,
    <<OnlyEvidenceMissing(d), "verify">>,
    <<d.ready /\ d.approvals, "approve">>,
    <<d.transition, "transition">>,
    <<TRUE, "review">> >>)

(* _visible_checkpoint: what the header of the card announces, and whether *)
(* it calls the gate ready.                                                *)

(* Mutant: the obligations left open are not looked at first. *)
CheckpointWithoutGaps(d) == IF d.approvals THEN "approval" ELSE "transition"

VisibleCheckpoint(d) ==
  FirstOf(<<
    <<d.approvals, "approval">>,
    <<d.transition, "transition">>,
    <<d.clarifications, "clarification">>,
    <<d.artifacts # "none" \/ d.evidence # {} \/ d.criteria # {}, "work">>,
    <<TRUE, "review">> >>)

(* execute_guided_preparation refuses to run an executor at the human      *)
(* boundary.                                                               *)
AtHumanBoundary(d) == d.ready \/ d.approvals

=============================================================================
