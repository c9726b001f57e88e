----------------------------- MODULE WizardView -----------------------------
(***************************************************************************)
(* The progress the wizard shows.  build_wizard_view names one current step*)
(* of the phase from what Core reports missing, and ticks every step before*)
(* it: the bar is recomputed from each decision and remembers nothing.     *)
(* Core's gates list what a stage needs; people and executors deliver it in*)
(* any order.                                                              *)
(***************************************************************************)
EXTENDS Naturals, Sequences, Functions, FiniteSets

CONSTANT DeliveryTargets   \* delivery targets a project may have

ASSUME TargetsAssumption ==
  DeliveryTargets \subseteq {"none", "pull-request", "local-artifacts"}

VARIABLES
  stage,      \* lifecycle state of the Work
  absent,     \* kinds of artifact the gate reports missing
  unproven,   \* types of evidence it reports missing
  openTests,  \* its criteria have not reached the required stage
  unclear,    \* a clarification is open
  unapproved, \* an approval is missing
  target      \* delivery target of the project

viewVars == <<stage, absent, unproven, openTests, unclear, unapproved, target>>

-----------------------------------------------------------------------------
(* The method and the gates of its registry.                               *)

PhaseSteps ==
  [inception    |-> <<"understand", "clarify", "level-1-plan", "stories",
                      "nfr-risk", "units", "bolts">>,
   construction |-> <<"semantic-elevation", "domain-design", "logical-design",
                      "implementation", "testing", "deployment-unit">>,
   operations   |-> <<"deployment", "observability", "feedback">>]

RequiredArtifacts ==
  [inception    |-> <<"intent", "plan", "requirements", "nfr", "unit-of-work",
                      "bolt-plan">>,
   construction |-> <<"domain-model", "logical-design", "implementation-plan",
                      "test-strategy", "deployment-unit">>,
   operations   |-> <<"operational-readiness", "rollback-procedure">>]

RequiredEvidence ==
  [inception |-> {}, construction |-> {"test-suite"},
   operations |-> {"deployment", "security-scan"}]

ArtifactStep(kind) ==
  CASE kind = "intent"              -> "understand"
    [] kind = "plan"                -> "level-1-plan"
    [] kind = "requirements"        -> "stories"
    [] kind = "nfr"                 -> "nfr-risk"
    [] kind = "unit-of-work"        -> "units"
    [] kind = "bolt-plan"           -> "bolts"
    [] kind = "domain-model"        -> "domain-design"
    [] kind = "logical-design"      -> "logical-design"
    [] kind = "implementation-plan" -> "implementation"
    [] kind = "test-strategy"       -> "testing"
    [] kind = "deployment-unit"     -> "deployment-unit"
    [] OTHER                        -> "deployment"

-----------------------------------------------------------------------------
(* The view.                                                               *)

(* The gate reports what is missing in the order it lists it.              *)
MissingPlaces ==
  {i \in DOMAIN RequiredArtifacts[stage] : RequiredArtifacts[stage][i] \in absent}

(* Mutant: the artifact the gate lists last decides. *)
LastMissingStep ==
  ArtifactStep(RequiredArtifacts[stage][CHOOSE i \in MissingPlaces :
                                          \A j \in MissingPlaces : j <= i])

MissingStep ==
  ArtifactStep(RequiredArtifacts[stage][CHOOSE i \in MissingPlaces :
                                          \A j \in MissingPlaces : i <= j])

PhaseStep ==
  CASE stage = "inception" /\ unclear -> "clarify"
    [] absent # {} /\ ~(stage = "inception" /\ unclear) -> MissingStep
    [] stage = "inception" /\ ~unclear /\ absent = {} ->
         IF openTests THEN "stories" ELSE "level-1-plan"
    [] stage = "construction" /\ absent = {} ->
         IF unproven # {} THEN "testing" ELSE "implementation"
    [] stage = "operations" /\ absent = {} ->
         IF unproven # {} THEN "observability" ELSE "deployment"

AwaitsDelivery == "deployment" \in unproven \/ openTests

PullRequestStep ==
  IF absent # {} THEN "change-set"
  ELSE IF AwaitsDelivery THEN "pull-request" ELSE "review-delivery"

LocalStep == IF AwaitsDelivery THEN "generated-output" ELSE "review-delivery"

ShownSteps ==
  IF stage # "operations" \/ target = "none" THEN PhaseSteps[stage]
  ELSE IF target = "pull-request"
       THEN <<"change-set", "pull-request", "review-delivery">>
       ELSE <<"generated-output", "review-delivery">>

CurrentStep ==
  IF stage # "operations" \/ target = "none" THEN PhaseStep
  ELSE IF target = "pull-request" THEN PullRequestStep ELSE LocalStep

OpenObligations == absent # {} \/ unproven # {} \/ openTests \/ unclear

(* inspect_next finds a Work ready for approval when only that is missing. *)
PhaseComplete == stage = "inception" /\ unapproved /\ ~OpenObligations

Before(step) ==
  {ShownSteps[i] : i \in {j \in DOMAIN ShownSteps :
                            \E k \in DOMAIN ShownSteps : j < k /\ ShownSteps[k] = step}}

Ticked == IF PhaseComplete THEN Range(ShownSteps) ELSE Before(CurrentStep)

-----------------------------------------------------------------------------
(* Core.                                                                   *)

(* A start has registered the Intent.                                      *)
ViewInit ==
  /\ stage = "inception"
  /\ absent = Range(RequiredArtifacts["inception"]) \ {"intent"}
  /\ unproven = {} /\ openTests = TRUE /\ unapproved = TRUE
  /\ unclear \in BOOLEAN
  /\ target \in DeliveryTargets

RegisterArtifact ==
  /\ \E kind \in absent : absent' = absent \ {kind}
  /\ UNCHANGED <<stage, unproven, openTests, unclear, unapproved, target>>

RecordEvidence ==
  /\ \E type \in unproven : unproven' = unproven \ {type}
  /\ UNCHANGED <<stage, absent, openTests, unclear, unapproved, target>>

(* Core accepts a criterion stage without technical gaps only.             *)
CloseCriteria ==
  /\ openTests /\ absent = {} /\ unproven = {} /\ ~unclear
  /\ openTests' = FALSE
  /\ UNCHANGED <<stage, absent, unproven, unclear, unapproved, target>>

Clarify ==
  /\ unclear
  /\ unclear' = FALSE
  /\ UNCHANGED <<stage, absent, unproven, openTests, unapproved, target>>

GiveApproval ==
  /\ unapproved /\ ~OpenObligations
  /\ unapproved' = FALSE
  /\ UNCHANGED <<stage, absent, unproven, openTests, unclear, target>>

Following == [inception |-> "construction", construction |-> "operations"]

Transition ==
  /\ ~OpenObligations /\ ~unapproved /\ stage # "operations"
  /\ stage' = Following[stage]
  /\ absent' = Range(RequiredArtifacts[stage'])
  /\ unproven' = RequiredEvidence[stage']
  /\ openTests' = TRUE /\ unapproved' = TRUE /\ unclear' = FALSE
  /\ UNCHANGED target

ViewNext ==
  \/ RegisterArtifact \/ RecordEvidence \/ CloseCriteria \/ Clarify
  \/ GiveApproval \/ Transition

ViewSpec == ViewInit /\ [][ViewNext]_viewVars

-----------------------------------------------------------------------------
(* Properties.                                                             *)

(* "hiding operational complexity, never evidence": the bar ticks no step  *)
(* whose artifact the gate still misses, in whatever order they arrive.    *)
(* It rests on the gates listing artifacts in the order of the steps.      *)
TickedStepsHaveArtifacts == \A kind \in absent : ArtifactStep(kind) \notin Ticked

(* The same of evidence: a ticked deployment has its evidence.             *)
TickedDeploymentIsProven ==
  "deployment" \in Ticked => "deployment" \notin unproven

(* An approved step stays ticked while its stage lasts.                    *)
BarMovesForward == [][stage' = stage => Ticked \subseteq Ticked']_viewVars

=============================================================================
