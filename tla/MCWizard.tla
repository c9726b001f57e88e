------------------------------ MODULE MCWizard ------------------------------
(***************************************************************************)
(* What a person does for a Work: the session around the executors, the    *)
(* clarifications, the progress bar, and the two plans the person approves *)
(* (Bolts and Level-N).  They share no state, so that one run takes them   *)
(* side by side: "part" is the one that moves, and the others rest in one  *)
(* initial state each.                                                     *)
(***************************************************************************)
EXTENDS GuidedSession, WizardAnswers, WizardView, WorkPlans

VARIABLE part

-----------------------------------------------------------------------------
(* The instance.                                                           *)

MCPaths  == {<<"src">>, <<"src", "api">>}
MCRequires ==
  [d \in 0 .. 2 |-> IF d = 0 THEN {"model"} ELSE IF d = 1 THEN {"design"} ELSE {"review"}]

-----------------------------------------------------------------------------
(* The resting states.                                                     *)

SessionRest ==
  Init /\ core = [version |-> 1, action |-> "clear"] /\ selected = NoRuntime

AnswersRest == AnswersInit /\ draft = <<>>

ViewRest == ViewInit /\ unclear = FALSE /\ target = "none"

BoltRest ==
  /\ doc = [revision |-> 1, approval |-> "pending", approvedBy |-> FALSE,
            approvedRevision |-> 0,
            bolts |-> [b \in Bolts |->
                         NewBolt([mode |-> "sequential", dependsOn |-> {}, writes |-> {}])]]
  /\ edits = 0

PathwayRest ==
  /\ plan = [revision |-> 1, approval |-> "pending", approvedRevision |-> 0,
             steps |-> [s \in StepIds |-> "absent"]]
  /\ profile = 0 /\ done = {} /\ planEdits = 0

-----------------------------------------------------------------------------
Parts == {"session", "answers", "view", "bolts", "pathway"}

WizardInit ==
  /\ part \in Parts
  /\ IF part = "session" THEN Init ELSE SessionRest
  /\ IF part = "answers" THEN AnswersInit ELSE AnswersRest
  /\ IF part = "view" THEN ViewInit ELSE ViewRest
  /\ IF part = "bolts" THEN BoltInit ELSE BoltRest
  /\ IF part = "pathway" THEN PathwayInit ELSE PathwayRest

planVars == <<boltVars, pathwayVars>>

SessionStep(A) == part = "session" /\ A /\ UNCHANGED <<answersVars, viewVars, planVars, part>>
AnswersStep(A) == part = "answers" /\ A /\ UNCHANGED <<vars, viewVars, planVars, part>>
ViewStep(A)    == part = "view" /\ A /\ UNCHANGED <<vars, answersVars, planVars, part>>
BoltStep(A)    ==
  part = "bolts" /\ A /\ UNCHANGED <<vars, answersVars, viewVars, pathwayVars, part>>
PathwayStep(A) ==
  part = "pathway" /\ A /\ UNCHANGED <<vars, answersVars, viewVars, boltVars, part>>

WizardNext ==
  \/ SessionStep(Next) \/ AnswersStep(AnswersNext) \/ ViewStep(ViewNext)
  \/ BoltStep(BoltNext) \/ PathwayStep(PathwayNext)

(* The fairness of the parts.                                              *)
WizardSpec ==
  /\ WizardInit /\ [][WizardNext]_<<vars, answersVars, viewVars, planVars, part>>
  /\ WF_vars(SessionStep(Automatic))
  /\ \A s \in Sessions : /\ WF_answersVars(AnswersStep(AskQuestion(s)))
                         /\ SF_answersVars(AnswersStep(ReadAnswers(s)))
                         /\ WF_answersVars(AnswersStep(WriteAnswers(s)))

-----------------------------------------------------------------------------
(* Properties: those of the modules, each while its part moves.            *)

(* What the session does on its own is bounded: retries, paid advice, and  *)
(* runs of a runtime that was given up.                                    *)
SessionsAreBounded ==
  part = "session" =>
    UnattendedRunsBounded /\ AdviceIsLastResort /\ AdviceIsTried /\ FailedRunsOnlyByChoice

(* The bar ticks no step whose artifact is missing.                        *)
BarIsBacked == part = "view" => TickedStepsHaveArtifacts

(* Bolts that run or are ready at the same time write to disjoint places,  *)
(* and an approved plan without a failed Bolt never comes to a stop.       *)
BoltPlansAreSafe ==
  part = "bolts" => ConcurrentBoltsAreDisjoint /\ PlanCanProceed

(* A plan that may be executed owes no mandatory step, and a stronger depth*)
(* asks for no less.                                                       *)
PathwayPlansAreComplete == part = "pathway" => NothingOwed /\ DepthOnlyAdds

(* The session always comes back to the person.                            *)
SessionReturns == part = "session" => ReturnsToPerson

(* The questions of a Work come to an end.                                 *)
QuestionsEnd == part = "answers" => ClarificationEnds

=============================================================================
