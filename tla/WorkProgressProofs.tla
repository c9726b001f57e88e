--------------------------- MODULE WorkProgressProofs ---------------------------
(***************************************************************************)
(* What TLAPS proves of a Work under the guided wizard, for any number of  *)
(* cuts, failures, edits and runs of the executor: evidence and criterion  *)
(* stages are recorded only with what backs them, a criterion is deployed  *)
(* only when it was delivered, and delivered only when it was tested and   *)
(* scanned.                                                                *)
(***************************************************************************)
EXTENDS WorkProgress, WellFoundedInduction, TLAPS

-----------------------------------------------------------------------------
(* The rules of the wizard.                                                *)

(* The first guard that holds gives the action.                            *)
LEMMA FirstIsTaken ==
  ASSUME NEW rules, NEW n \in Nat, DOMAIN rules = 1 .. n,
         \E i \in 1 .. n : rules[i][1]
  PROVE  \E i \in 1 .. n :
           /\ rules[i][1] /\ FirstOf(rules) = rules[i][2]
           /\ \A j \in 1 .. n : rules[j][1] => i <= j
<1> DEFINE R == OpToRel(<, Nat)
           Holding == {i \in DOMAIN rules : rules[i][1]}
           Least(i) == \A j \in Holding : i <= j
<1>1. IsWellFoundedOn(R, Nat)
  BY NatLessThanWellFounded, Zenon
<1>2. \A i, j \in Nat : <<i, j>> \in R <=> i < j
  BY Zenon DEF OpToRel
<1>3. Holding # {} /\ Holding \subseteq Nat
  OBVIOUS
<1> HIDE DEF R
<1>4. \E i \in Holding : \A j \in Holding : ~(<<j, i>> \in R)
  <2> HIDE DEF Holding
  <2>1. QED
    BY <1>1, <1>3, WFMin
<1>5. PICK i \in Holding : Least(i)
  <2>1. PICK i \in Holding : \A j \in Holding : ~(<<j, i>> \in R)
    BY <1>4
  <2>2. ASSUME NEW j \in Holding
        PROVE  i <= j
    <3>1. i \in Nat /\ j \in Nat
      BY <1>3
    <3>2. ~(j < i)
      BY <1>2, <2>1, <3>1
    <3>3. QED
      BY <3>1, <3>2
  <2>3. QED
    BY <2>2
<1>6. (CHOOSE k \in Holding : Least(k)) \in Holding /\ Least(CHOOSE k \in Holding : Least(k))
  BY <1>5
<1>7. FirstOf(rules) = rules[CHOOSE k \in Holding : Least(k)][2]
  BY DEF FirstOf
<1> DEFINE c == CHOOSE k \in Holding : Least(k)
<1>8. c \in Holding /\ Least(c) /\ FirstOf(rules) = rules[c][2]
  BY <1>6, <1>7
<1> HIDE DEF c
<1>9. c \in 1 .. n /\ rules[c][1] /\ \A j \in 1 .. n : rules[j][1] => c <= j
  BY <1>8
<1>10. QED
  BY <1>8, <1>9

(* What the wizard performs, and what it knows when it does.               *)
LEMMA WhatIsPerformed ==
  ASSUME NEW d, NEW target \in {"pull-request", "local-artifacts"}, NEW failed,
         NEW action, action = NextInSessionAction(d, target, failed)
  PROVE  /\ action \in {"submit-pr", "prepare-local-operations", "publish-local-artifacts",
                        "accept-criteria", "advance-criterion", "verify",
                        "approve", "transition", "review"}
         /\ action = "submit-pr" =>
              AgentDeploys(d) /\ OnlyDeploymentMissing(d) /\ target = "pull-request"
         /\ action = "publish-local-artifacts" =>
              AgentDeploys(d) /\ OnlyDeploymentMissing(d) /\ target = "local-artifacts"
         /\ action = "advance-criterion" => AgentAdvances(d)
<1> DEFINE rules == <<
    <<AgentDeploys(d) /\ OnlyDeploymentMissing(d) /\ target = "pull-request", "submit-pr">>,
    <<AgentDeploys(d) /\ LocalOperationsMissing(d) /\ target = "local-artifacts",
      "prepare-local-operations">>,
    <<AgentDeploys(d) /\ OnlyDeploymentMissing(d) /\ target = "local-artifacts",
      "publish-local-artifacts">>,
    <<AgentDeploys(d) /\ ~TechnicalGaps(d), "mark-deployed">>,
    <<AllDeployed(d), "accept-criteria">>,
    <<AgentAdvances(d), "advance-criterion">>,
    <<TestingBoundary(d) /\ ~failed, "verify">>,
    <<OnlyEvidenceMissing(d), "verify">>,
    <<d.ready /\ d.approvals, "approve">>,
    <<d.transition, "transition">>,
    <<TRUE, "review">> >>
<1>1. NextInSessionAction(d, target, failed) = FirstOf(rules)
  BY DEF NextInSessionAction
<1>2. DOMAIN rules = 1 .. 11
  OBVIOUS
<1>3. rules[11][1] /\ \E i \in 1 .. 11 : rules[i][1]
  OBVIOUS
<1>4. AgentDeploys(d) /\ ~TechnicalGaps(d) => rules[1][1] \/ rules[3][1]
  BY DEF TechnicalGaps, OnlyDeploymentMissing
<1>5. /\ rules[1][1] => AgentDeploys(d) /\ OnlyDeploymentMissing(d) /\ target = "pull-request"
      /\ rules[3][1] => AgentDeploys(d) /\ OnlyDeploymentMissing(d) /\ target = "local-artifacts"
      /\ rules[4][1] => rules[1][1] \/ rules[3][1]
      /\ rules[6][1] => AgentAdvances(d)
  BY <1>4
<1>6. /\ rules[1][2] = "submit-pr" /\ rules[2][2] = "prepare-local-operations"
      /\ rules[3][2] = "publish-local-artifacts" /\ rules[5][2] = "accept-criteria"
      /\ rules[6][2] = "advance-criterion" /\ rules[7][2] = "verify" /\ rules[8][2] = "verify"
      /\ rules[9][2] = "approve" /\ rules[10][2] = "transition" /\ rules[11][2] = "review"
  OBVIOUS
<1> HIDE DEF rules
<1>7. PICK i \in 1 .. 11 : /\ rules[i][1] /\ FirstOf(rules) = rules[i][2]
                           /\ \A j \in 1 .. 11 : rules[j][1] => i <= j
  BY <1>2, <1>3, FirstIsTaken
<1>8. i # 4
  BY <1>5, <1>7
<1>9. i \in {1, 2, 3, 5, 6, 7, 8, 9, 10, 11}
  BY <1>8
<1>10. QED
  BY <1>1, <1>5, <1>6, <1>7, <1>9

-----------------------------------------------------------------------------
(* The steps an action has left.                                           *)

(* The step taken now has nothing before it, and taking it leaves the rest *)
(* preceded as it was, but by the step taken.                              *)
LEMMA TailIsPreceded ==
  ASSUME todo \in Seq(Steps), todo # <<>>, NEW step, NEW by, Preceded(step, by)
  PROVE  /\ Head(todo) # step
         /\ todo' = Tail(todo) /\ Head(todo) \notin by => Preceded(step, by)'
         /\ todo' = <<>> => Preceded(step, by)'
<1>1. /\ Len(todo) \in Nat \ {0} /\ DOMAIN todo = 1 .. Len(todo) /\ Head(todo) = todo[1]
      /\ Len(Tail(todo)) = Len(todo) - 1 /\ DOMAIN Tail(todo) = 1 .. (Len(todo) - 1)
      /\ \A i \in 1 .. (Len(todo) - 1) : Tail(todo)[i] = todo[i + 1]
  OBVIOUS
<1>2. Head(todo) # step
  BY <1>1 DEF Preceded
<1>3. ASSUME todo' = Tail(todo), Head(todo) \notin by
      PROVE  Preceded(step, by)'
  <2>1. ASSUME NEW i \in DOMAIN todo', todo'[i] = step
        PROVE  \E j \in 1 .. (i - 1) : todo'[j] \in by
    <3>1. i \in 1 .. (Len(todo) - 1) /\ todo[i + 1] = step
      BY <1>1, <1>3, <2>1
    <3>2. PICK j \in 1 .. i : todo[j] \in by
      BY <1>1, <3>1 DEF Preceded
    <3>3. j # 1
      BY <1>1, <1>3, <3>2
    <3>4. j - 1 \in 1 .. (i - 1) /\ j - 1 \in 1 .. (Len(todo) - 1) /\ (j - 1) + 1 = j
      BY <1>1, <3>1, <3>2, <3>3
    <3>5. todo'[j - 1] = todo[j]
      BY <1>1, <1>3, <3>4
    <3>6. QED
      BY <3>2, <3>4, <3>5
  <2>2. QED
    BY <2>1 DEF Preceded
<1>4. todo' = <<>> => Preceded(step, by)'
  BY DEF Preceded
<1>5. QED
  BY <1>2, <1>3, <1>4

(* What a step that is taken does to the records of the Work.              *)
Consumed ==
  /\ todo # <<>> /\ todo' \in {Tail(todo), <<>>} /\ UNCHANGED <<delivery, card>>
  /\ work' \in Works /\ product' \in Products /\ report' \in {"none", "passed", "failed"}
  /\ work.artifacts \subseteq work'.artifacts /\ work.evidence \subseteq work'.evidence
  /\ work'.evidence \subseteq work.evidence \cup {Head(todo), "security-scan"}
  /\ work'.state = work.state \/ todo' = <<>>
  /\ "designed" \in work'.stages => "designed" \in work.stages \/ Head(todo) = "designed"
  /\ "built" \in work'.stages =>
       "built" \in work.stages \/ ConstructionKinds \subseteq work.artifacts
  /\ "verified" \in work'.stages =>
       "verified" \in work.stages \/ Head(todo) = "verified" \/ "test-suite" \in work.evidence
  /\ "deployed" \in work'.stages => "deployed" \in work.stages \/ Head(todo) = "deployed"
  /\ output' \in {"none", "partial", "whole"}
  /\ output' = output \/ output' = "whole" \/ Head(todo) = "publish"
  /\ remote' \in Remotes
  /\ remote.pr # "none" => remote'.pr # "none"
  /\ remote.pushed => remote'.pushed \/ Head(todo) = "commit"
  /\ todo' # <<>> =>
       /\ Head(todo) \in {"test-report", "delivery-manifest"} \cup ConstructionKinds =>
            Head(todo) \in work'.artifacts
       /\ Head(todo) \in {"test-suite", "deployment"} => Head(todo) \in work'.evidence
       /\ Head(todo) = "copy" => output' = "whole"
       /\ Head(todo) = "push" => remote'.pushed
       /\ Head(todo) = "pull-request" => remote'.pr # "none"

LEMMA ConsumedKeeps ==
  ASSUME ProgressInv, Consumed
  PROVE  ProgressInv'
<1>1. /\ todo \in Seq(Steps) /\ todo # <<>> /\ work \in Works
      /\ todo' = Tail(todo) \/ todo' = <<>>
  BY DEF ProgressInv, ProgressTypes, Consumed
<1>2. /\ DOMAIN todo = 1 .. Len(todo) /\ Len(todo) \in Nat \ {0} /\ todo[1] = Head(todo)
      /\ Tail(todo) \in Seq(Steps) /\ DOMAIN Tail(todo) = 1 .. (Len(todo) - 1)
      /\ \A i \in 1 .. (Len(todo) - 1) : Tail(todo)[i] = todo[i + 1]
  BY <1>1
<1>3. ASSUME NEW step, NEW by, Preceded(step, by)
      PROVE  /\ Head(todo) # step
             /\ todo' = <<>> \/ Head(todo) \notin by => Preceded(step, by)'
  BY <1>1, <1>3, TailIsPreceded
<1>4. ProgressTypes'
  <2>1. todo' \in Seq(Steps)
    <3>1. <<>> \in Seq(Steps)
      OBVIOUS
    <3>2. QED
      BY <1>1, <1>2, <3>1, Zenon
  <2>2. QED
    BY <2>1 DEF ProgressInv, ProgressTypes, Consumed
<1>5. CardIsCurrent'
  BY <1>1 DEF ProgressInv, CardIsCurrent, Consumed
<1>6. OpeningSteps'
  <2> DEFINE Opens == {"publish", "commit", "advance", "transition"}
  <2>1. \A i \in DOMAIN todo : todo[i] \in Opens => i = 1
    BY DEF ProgressInv, OpeningSteps
  <2>2. \A i \in DOMAIN todo' : todo'[i] \notin Opens
    BY <1>1, <1>2, <2>1
  <2>3. todo' # <<>> => 1 \in DOMAIN todo' /\ Head(todo') = todo'[1]
    BY <1>1, <1>2
  <2>4. \A step \in Opens : ~At(step)'
    BY <2>2, <2>3 DEF At
  <2>5. QED
    BY <2>2, <2>4 DEF OpeningSteps
<1>7. EvidenceComesLater'
  <2>1. (Preceded("test-suite", {"test-report"}) \/ "test-report" \in work.artifacts)'
    BY <1>3 DEF ProgressInv, EvidenceComesLater, Consumed
  <2>2. (Preceded("verified", {"test-suite"}) \/ "test-suite" \in work.evidence)'
    BY <1>3 DEF ProgressInv, EvidenceComesLater, Consumed
  <2>3. (\/ Preceded("deployment", {"delivery-manifest", "pull-request"})
         \/ "delivery-manifest" \in work.artifacts \/ remote.pr # "none")'
    BY <1>3 DEF ProgressInv, EvidenceComesLater, Consumed
  <2>4. (Preceded("deployed", {"deployment"}) \/ "deployment" \in work.evidence)'
    BY <1>3 DEF ProgressInv, EvidenceComesLater, Consumed
  <2>5. (Preceded("deployment", {}) \/ {"test-suite", "security-scan"} \subseteq work.evidence)'
    BY <1>3 DEF ProgressInv, EvidenceComesLater, Consumed
  <2>6. ASSUME NEW k \in ConstructionKinds
        PROVE  (Preceded("designed", {k}) \/ k \in work.artifacts)'
    BY <1>3 DEF ProgressInv, EvidenceComesLater, Consumed
  <2>7. QED
    BY <2>1, <2>2, <2>3, <2>4, <2>5, <2>6 DEF EvidenceComesLater
<1>8. DeliveryComesFirst'
  <2>1. delivery' = delivery
    BY DEF Consumed
  <2>2. CASE delivery = "local-artifacts"
    <3>1. Preceded("deployed", {"copy"}) \/ (output = "whole" /\ Head(todo) # "publish")
      BY <1>1, <2>2 DEF ProgressInv, DeliveryComesFirst, OpeningSteps, At
    <3>2. (Preceded("deployed", {"copy"}) \/ output = "whole")'
      BY <1>3, <3>1 DEF Consumed
    <3>3. QED
      BY <2>1, <2>2, <3>2 DEF DeliveryComesFirst
  <2>3. CASE delivery # "local-artifacts"
    <3>1. /\ Preceded("deployed", {"push"}) \/ (remote.pushed /\ Head(todo) # "commit")
          /\ Preceded("deployed", {"pull-request"}) \/ remote.pr # "none"
      BY <1>1, <2>3 DEF ProgressInv, DeliveryComesFirst, OpeningSteps, At
    <3>2. (Preceded("deployed", {"push"}) \/ remote.pushed)'
      BY <1>3, <3>1 DEF Consumed
    <3>3. (Preceded("deployed", {"pull-request"}) \/ remote.pr # "none")'
      BY <1>3, <3>1 DEF Consumed
    <3>4. QED
      BY <2>1, <2>3, <3>2, <3>3 DEF DeliveryComesFirst
  <2>4. QED
    BY <2>2, <2>3
<1>9. EvidenceIsBacked'
  <2>1. "test-suite" \in work'.evidence => "test-report" \in work'.artifacts
    BY <1>3 DEF ProgressInv, EvidenceIsBacked, EvidenceComesLater, Consumed
  <2>2. "deployment" \in work'.evidence =>
          "delivery-manifest" \in work'.artifacts \/ remote'.pr # "none"
    BY <1>3 DEF ProgressInv, EvidenceIsBacked, EvidenceComesLater, Consumed
  <2>3. "verified" \in work'.stages => "test-suite" \in work'.evidence
    BY <1>3 DEF ProgressInv, EvidenceIsBacked, EvidenceComesLater, Consumed
  <2>4. "deployed" \in work'.stages => "deployment" \in work'.evidence
    BY <1>3 DEF ProgressInv, EvidenceIsBacked, EvidenceComesLater, Consumed
  <2>5. work'.stages \cap {"designed", "built"} # {} => ConstructionKinds \subseteq work'.artifacts
    <3>1. CASE work.stages \cap {"designed", "built"} # {}
      BY <3>1 DEF ProgressInv, EvidenceIsBacked, Consumed
    <3>2. CASE "designed" \in work'.stages /\ work.stages \cap {"designed", "built"} = {}
      <4>1. Head(todo) = "designed"
        BY <3>2 DEF Consumed
      <4>2. \A k \in ConstructionKinds : ~Preceded("designed", {k})
        BY <1>3, <4>1
      <4>3. QED
        BY <4>2 DEF ProgressInv, EvidenceComesLater, Consumed
    <3>3. CASE "built" \in work'.stages /\ work.stages \cap {"designed", "built"} = {}
      BY <3>3 DEF Consumed
    <3>4. QED
      BY <3>1, <3>2, <3>3
  <2>6. QED
    BY <2>1, <2>2, <2>3, <2>4, <2>5 DEF EvidenceIsBacked
<1>10. DeployedIsDelivered'
  <2>1. ASSUME "deployed" \in work'.stages
        PROVE  Head(todo) \notin {"publish", "commit"}
    BY <1>1, <2>1 DEF ProgressInv, OpeningSteps, At, Consumed
  <2>2. ASSUME "deployed" \in work'.stages, delivery = "local-artifacts"
        PROVE  output = "whole"
    BY <1>3, <2>2 DEF ProgressInv, DeployedIsDelivered, DeliveryComesFirst, Consumed
  <2>3. ASSUME "deployed" \in work'.stages, delivery # "local-artifacts"
        PROVE  remote.pushed /\ remote.pr # "none"
    BY <1>3, <2>3 DEF ProgressInv, DeployedIsDelivered, DeliveryComesFirst, Consumed
  <2>4. QED
    BY <2>1, <2>2, <2>3 DEF DeployedIsDelivered, Consumed
<1>11. DeliveredIsScanned'
  BY <1>3 DEF ProgressInv, DeliveredIsScanned, EvidenceComesLater, Consumed
<1>12. QED
  BY <1>4, <1>5, <1>6, <1>7, <1>8, <1>9, <1>10, <1>11 DEF ProgressInv

-----------------------------------------------------------------------------
(* The steps, one by one.                                                  *)

(* Adding to one part of Core's record keeps the others.                   *)
LEMMA RecordsAre ==
  ASSUME work \in Works, NEW item
  PROVE  /\ Records("artifacts", item) /\ item \in Kinds =>
              /\ work' \in Works /\ work'.artifacts = work.artifacts \cup {item}
              /\ work'.evidence = work.evidence /\ work'.stages = work.stages
              /\ work'.state = work.state
         /\ Records("evidence", item) /\ item \in Evidence =>
              /\ work' \in Works /\ work'.evidence = work.evidence \cup {item}
              /\ work'.artifacts = work.artifacts /\ work'.stages = work.stages
              /\ work'.state = work.state
         /\ Records("stages", item) /\ item \in {CriterionStages[i] : i \in DOMAIN CriterionStages} =>
              /\ work' \in Works /\ work'.stages = work.stages \cup {item}
              /\ work'.artifacts = work.artifacts /\ work'.evidence = work.evidence
              /\ work'.state = work.state
         /\ Records("approvals", item) /\ item \in {"product-owner", "developer"} =>
              /\ work' \in Works /\ work'.stages = work.stages
              /\ work'.artifacts = work.artifacts /\ work'.evidence = work.evidence
              /\ work'.state = work.state
<1>1. /\ work["artifacts"] = work.artifacts /\ work["evidence"] = work.evidence
      /\ work["stages"] = work.stages /\ work["approvals"] = work.approvals
  OBVIOUS
<1>2. ASSUME Records("artifacts", item), item \in Kinds
      PROVE  /\ work' \in Works /\ work'.artifacts = work.artifacts \cup {item}
             /\ work'.evidence = work.evidence /\ work'.stages = work.stages
             /\ work'.state = work.state
  <2>1. work' = [work EXCEPT !.artifacts = work.artifacts \cup {item}]
    BY <1>2 DEF Records
  <2>2. QED
    BY <1>2, <2>1 DEF Works
<1>3. ASSUME Records("evidence", item), item \in Evidence
      PROVE  /\ work' \in Works /\ work'.evidence = work.evidence \cup {item}
             /\ work'.artifacts = work.artifacts /\ work'.stages = work.stages
             /\ work'.state = work.state
  <2>1. work' = [work EXCEPT !.evidence = work.evidence \cup {item}]
    BY <1>3 DEF Records
  <2>2. QED
    BY <1>3, <2>1 DEF Works
<1>4. ASSUME Records("stages", item), item \in {CriterionStages[i] : i \in DOMAIN CriterionStages}
      PROVE  /\ work' \in Works /\ work'.stages = work.stages \cup {item}
             /\ work'.artifacts = work.artifacts /\ work'.evidence = work.evidence
             /\ work'.state = work.state
  <2>1. work' = [work EXCEPT !.stages = work.stages \cup {item}]
    BY <1>4 DEF Records
  <2>2. QED
    BY <1>4, <2>1 DEF Works
<1>5. ASSUME Records("approvals", item), item \in {"product-owner", "developer"}
      PROVE  /\ work' \in Works /\ work'.stages = work.stages
             /\ work'.artifacts = work.artifacts /\ work'.evidence = work.evidence
             /\ work'.state = work.state
  <2>1. work' = [work EXCEPT !.approvals = work.approvals \cup {item}]
    BY <1>5 DEF Records
  <2>2. QED
    BY <1>5, <2>1 DEF Works
<1>6. QED
  BY <1>2, <1>3, <1>4, <1>5

LEMMA StagesAre ==
  {CriterionStages[i] : i \in DOMAIN CriterionStages}
    = {"elaborated", "designed", "built", "verified", "deployed", "accepted"}
<1>1. DOMAIN CriterionStages = 1 .. 6
  BY DEF CriterionStages
<1>2. QED
  BY <1>1 DEF CriterionStages

(* The states of a Work whose action is not over.                          *)
LEMMA UnderWay ==
  ASSUME ProgressInv, todo # <<>>
  PROVE  work \in Works /\ work.state \in {"inception", "construction", "operations"}
<1>1. work \in Works /\ work.state # "completed"
  BY DEF ProgressInv, ProgressTypes, CardIsCurrent
<1>2. QED
  BY <1>1, BoundsAssumption DEF Works

(* Recording artifacts, evidence, stages and approvals, running the        *)
(* executor, and the transition.                                           *)
LEMMA RecordsConsume ==
  ASSUME ProgressInv,
         RegisterArtifact \/ AddEvidence \/ RecordStage \/ RecordBuilt \/ Advance \/ Approve
  PROVE  Consumed
<1>1. /\ todo # <<>> /\ todo' \in {Tail(todo), <<>>}
      /\ UNCHANGED <<delivery, product, report, card, output, remote>>
  BY DEF RegisterArtifact, AddEvidence, RecordStage, RecordBuilt, Advance, Approve,
         At, Proceed, Stop
<1>2. /\ work \in Works /\ ProgressTypes
  BY DEF ProgressInv, ProgressTypes
<1>3. CASE RegisterArtifact
  <2>1. PICK k \in Kinds \ {"inception"} : At(k) /\ Records("artifacts", k)
    BY <1>3 DEF RegisterArtifact
  <2>2. /\ work' \in Works /\ work'.artifacts = work.artifacts \cup {k}
        /\ work'.evidence = work.evidence /\ work'.stages = work.stages
        /\ work'.state = work.state /\ Head(todo) = k
    BY <1>2, <2>1, RecordsAre DEF At
  <2>3. k \notin {"test-suite", "deployment", "copy", "push", "pull-request"}
    BY DEF Kinds, ConstructionKinds, OperationsKinds
  <2>4. QED
    BY <1>1, <1>2, <2>2, <2>3 DEF Consumed, ProgressTypes, ConstructionKinds
<1>4. CASE AddEvidence
  <2>1. PICK e \in Evidence : At(e) /\ Records("evidence", e)
    BY <1>4 DEF AddEvidence
  <2>2. /\ work' \in Works /\ work'.evidence = work.evidence \cup {e}
        /\ work'.artifacts = work.artifacts /\ work'.stages = work.stages
        /\ work'.state = work.state /\ Head(todo) = e
    BY <1>2, <2>1, RecordsAre DEF At
  <2>3. e \notin {"test-report", "delivery-manifest", "copy", "push", "pull-request",
                  "designed", "verified", "deployed", "publish", "commit"} \cup ConstructionKinds
    BY DEF Evidence, ConstructionKinds
  <2>4. QED
    BY <1>1, <1>2, <2>2, <2>3 DEF Consumed, ProgressTypes, ConstructionKinds
<1>5. CASE RecordStage
  <2>1. PICK stage \in {"designed", "verified", "deployed", "accepted"} :
          At(stage) /\ Records("stages", stage)
    BY <1>5 DEF RecordStage
  <2>2. /\ work' \in Works /\ work'.stages = work.stages \cup {stage}
        /\ work'.artifacts = work.artifacts /\ work'.evidence = work.evidence
        /\ work'.state = work.state /\ Head(todo) = stage
    BY <1>2, <2>1, RecordsAre, StagesAre DEF At
  <2>3. QED
    BY <1>1, <1>2, <2>2 DEF Consumed, ProgressTypes, ConstructionKinds
<1>6. CASE RecordBuilt
  <2>1. /\ Head(todo) = "built"
        /\ \/ Records("stages", "built") /\ ConstructionKinds \subseteq work.artifacts
           \/ work' = work
    BY <1>6 DEF RecordBuilt, At
  <2>2. /\ work' \in Works /\ work'.stages \subseteq work.stages \cup {"built"}
        /\ work'.artifacts = work.artifacts /\ work'.evidence = work.evidence
        /\ work'.state = work.state
    BY <1>2, <2>1, RecordsAre, StagesAre
  <2>3. Head(todo) \notin Kinds
    BY <2>1 DEF Kinds, ConstructionKinds, OperationsKinds
  <2>4. QED
    BY <1>1, <1>2, <2>1, <2>2, <2>3 DEF Consumed, ProgressTypes, Kinds
<1>7. CASE Advance
  <2>1. Head(todo) = "advance" /\ Records("stages", NextCriterionStage)
    BY <1>7 DEF Advance, At
  <2>2. /\ NextCriterionStage \in {"built", "verified"}
        /\ "test-suite" \in work.evidence /\ ConstructionKinds \subseteq work.artifacts
    BY <1>1, <2>1 DEF ProgressInv, OpeningSteps, At
  <2>3. /\ work' \in Works /\ work'.stages = work.stages \cup {NextCriterionStage}
        /\ work'.artifacts = work.artifacts /\ work'.evidence = work.evidence
        /\ work'.state = work.state
    BY <1>2, <2>1, <2>2, RecordsAre, StagesAre
  <2>4. QED
    BY <1>1, <1>2, <2>1, <2>2, <2>3 DEF Consumed, ProgressTypes, ConstructionKinds
<1>8. CASE Approve
  <2>1. PICK role \in MissingApprovals : Records("approvals", role)
    BY <1>8 DEF Approve
  <2>2. role \in {"product-owner", "developer"}
    <3>1. role \in Gate(work.state)["approvals"]
      BY <2>1 DEF MissingApprovals, Missing
    <3>2. work.state \in {"inception", "construction", "operations"}
      BY <1>1, UnderWay
    <3>3. QED
      BY <3>1, <3>2 DEF Gate
  <2>3. /\ work' \in Works /\ work'.stages = work.stages
        /\ work'.artifacts = work.artifacts /\ work'.evidence = work.evidence
        /\ work'.state = work.state /\ Head(todo) = "approve"
    BY <1>2, <1>8, <2>1, <2>2, RecordsAre DEF Approve, At
  <2>4. QED
    BY <1>1, <1>2, <2>3 DEF Consumed, ProgressTypes, ConstructionKinds
<1>9. QED
  BY <1>3, <1>4, <1>5, <1>6, <1>7, <1>8

LEMMA RunsConsume ==
  ASSUME ProgressInv, Execute \/ Transition
  PROVE  Consumed
<1>1. /\ todo # <<>> /\ todo' = Tail(todo)
      /\ UNCHANGED <<delivery, report, card, output, remote>>
  BY DEF Execute, Transition, At, Proceed
<1>2. /\ work \in Works /\ ProgressTypes
      /\ work.state \in {"inception", "construction", "operations"}
  BY <1>1, UnderWay DEF ProgressInv
<1>3. /\ \A state \in {"inception", "construction", "operations"} :
           /\ Gate(state).artifacts \subseteq Kinds
           /\ Gate(state).target \in {"construction", "operations", "completed"}
      /\ \A state \in {"inception", "operations"} :
           Gate(state).evidence \ {"deployment"} \subseteq {"security-scan"}
  BY DEF Gate, Kinds, ConstructionKinds, OperationsKinds
<1>4. CASE Execute
  <2>1. Head(todo) = "execute"
    BY <1>4 DEF Execute, At
  <2>2. /\ work' \in Works /\ work.artifacts \subseteq work'.artifacts
        /\ work.evidence \subseteq work'.evidence
        /\ work'.evidence \subseteq work.evidence \cup {"security-scan"}
        /\ work'.state = work.state /\ work'.stages = work.stages
    <3>1. CASE work' = work
      BY <1>2, <3>1
    <3>2. CASE \E some \in SUBSET Missing("artifacts") :
                 work' = [work EXCEPT !.artifacts = @ \cup some]
      <4>1. PICK some \in SUBSET Missing("artifacts") :
              work' = [work EXCEPT !.artifacts = work.artifacts \cup some]
        BY <3>2
      <4>2. some \subseteq Kinds
        <5>1. some \subseteq Gate(work.state)["artifacts"]
          BY DEF Missing
        <5>2. Gate(work.state)["artifacts"] = Gate(work.state).artifacts
          OBVIOUS
        <5>3. QED
          BY <1>2, <1>3, <5>1, <5>2
      <4>3. QED
        BY <1>2, <4>1, <4>2 DEF Works
    <3>3. CASE /\ work.state # "construction"
               /\ work' = [work EXCEPT
                    !.artifacts = @ \cup Gate(work.state).artifacts,
                    !.evidence = @ \cup (Gate(work.state).evidence \ {"deployment"}),
                    !.clarified = TRUE]
      <4> DEFINE more == work.artifacts \cup Gate(work.state).artifacts
                 found == work.evidence \cup (Gate(work.state).evidence \ {"deployment"})
                 a == [work EXCEPT !.artifacts = more]
                 b == [a EXCEPT !.evidence = found]
      <4>1. work' = [b EXCEPT !.clarified = TRUE]
        BY <1>2, <3>3 DEF Works
      <4>2. more \subseteq Kinds /\ work.artifacts \subseteq more
        BY <1>2, <1>3 DEF Works
      <4>3. /\ found \subseteq Evidence /\ work.evidence \subseteq found
            /\ found \subseteq work.evidence \cup {"security-scan"}
        BY <1>2, <1>3, <3>3 DEF Works, Evidence
      <4> HIDE DEF more, found
      <4>4. /\ a \in Works /\ a.artifacts = more /\ a.evidence = work.evidence
            /\ a.state = work.state /\ a.stages = work.stages
        BY <1>2, <4>2 DEF Works
      <4> HIDE DEF a
      <4>5. /\ b \in Works /\ b.artifacts = more /\ b.evidence = found
            /\ b.state = work.state /\ b.stages = work.stages
        BY <4>3, <4>4 DEF Works
      <4> HIDE DEF b
      <4>6. QED
        BY <4>1, <4>2, <4>3, <4>5 DEF Works
    <3>4. QED
      BY <1>4, <3>1, <3>2, <3>3 DEF Execute
  <2>3. product' \in Products
    BY <1>2, <1>4 DEF Execute, ProgressTypes, Products
  <2>4. QED
    BY <1>1, <1>2, <2>1, <2>2, <2>3 DEF Consumed, ProgressTypes, ConstructionKinds
<1>5. CASE Transition
  <2>1. Head(todo) = "transition" /\ todo' = <<>>
    BY <1>1, <1>5 DEF Transition, At, ProgressInv, OpeningSteps
  <2>2. /\ work' \in Works /\ work'.artifacts = work.artifacts /\ work'.evidence = work.evidence
        /\ work'.stages = work.stages
    <3> DEFINE target == Gate(work.state).target
               a == [work EXCEPT !.state = target]
    <3>1. work' = [a EXCEPT !.approvals = {}]
      BY <1>2, <1>5 DEF Transition, Works
    <3>2. target \in Stages \cup {"completed"}
      BY <1>2, <1>3, BoundsAssumption
    <3> HIDE DEF target
    <3>3. /\ a \in Works /\ a.artifacts = work.artifacts /\ a.evidence = work.evidence
          /\ a.stages = work.stages
      BY <1>2, <3>2 DEF Works
    <3> HIDE DEF a
    <3>4. QED
      BY <3>1, <3>3 DEF Works
  <2>3. product' = product
    BY <1>5 DEF Transition
  <2>4. QED
    BY <1>1, <1>2, <2>1, <2>2, <2>3 DEF Consumed, ProgressTypes, ConstructionKinds
<1>6. QED
  BY <1>4, <1>5

(* Verifying, scanning, publishing, pushing and the Pull Request.          *)
LEMMA DeliveriesConsume ==
  ASSUME ProgressInv, Verify \/ Scan \/ Publish \/ Commit \/ CommitNothing \/ Push \/ PullRequest
  PROVE  Consumed
<1>1. /\ todo # <<>> /\ todo' \in {Tail(todo), <<>>}
      /\ UNCHANGED <<work, delivery, product, card>>
  BY DEF Verify, Scan, Publish, Commit, CommitNothing, Push, PullRequest, At, Proceed, Stop
<1>2. ProgressTypes /\ report' \in {"none", "passed", "failed"}
  BY DEF ProgressInv, ProgressTypes, Verify, Outcomes, Scan, Publish, Commit, CommitNothing,
         Push, PullRequest
<1>3. CASE Verify \/ Scan
  <2>1. UNCHANGED <<output, remote>> /\ Head(todo) \in {"verify", "scan"}
    BY <1>3 DEF Verify, Scan, At
  <2>2. QED
    BY <1>1, <1>2, <2>1 DEF Consumed, ProgressTypes, ConstructionKinds
<1>4. CASE Publish
  <2>1. /\ remote' = remote /\ Head(todo) \in {"publish", "copy"}
        /\ output' = IF Head(todo) = "copy" THEN "whole" ELSE "partial"
    BY <1>1, <1>4 DEF Publish, At
  <2>2. QED
    BY <1>1, <1>2, <2>1 DEF Consumed, ProgressTypes, ConstructionKinds
<1>5. CASE Commit \/ CommitNothing
  <2>1. /\ output' = output /\ Head(todo) = "commit" /\ remote \in Remotes
    BY <1>2, <1>5 DEF Commit, CommitNothing, At, ProgressTypes
  <2>2. remote' \in Remotes /\ remote'.pr = remote.pr
    <3>1. CASE remote' = remote
      BY <2>1, <3>1
    <3>2. CASE remote' = [remote EXCEPT !.head = ChangeSet, !.failed = {}, !.merged = FALSE,
                                      !.pushed = FALSE] /\ ChangeSet \in ChangeSets
      BY <2>1, <3>2 DEF Remotes
    <3>3. CASE /\ remote' = [remote EXCEPT !.failed = remote.failed \cup {ChangeSet}]
               /\ ChangeSet \in ChangeSets
      <4>1. remote.failed \cup {ChangeSet} \in SUBSET ChangeSets
        BY <2>1, <3>3 DEF Remotes
      <4>2. QED
        BY <2>1, <3>3, <4>1 DEF Remotes
    <3>4. ChangeSet \in ChangeSets
      BY <1>2 DEF ChangeSet, ChangeSets, ProgressTypes
    <3>5. QED
      BY <1>5, <3>1, <3>2, <3>3, <3>4 DEF Commit, CommitNothing
  <2>3. QED
    BY <1>1, <1>2, <2>1, <2>2 DEF Consumed, ProgressTypes, ConstructionKinds
<1>6. CASE PullRequest
  <2>1. output' = output /\ Head(todo) = "pull-request"
    BY <1>6 DEF PullRequest, At
  <2>2. \/ remote' = remote /\ (remote.pr # "none" \/ todo' = <<>>)
        \/ remote' = [remote EXCEPT !.pr = "open", !.creation = "completed"]
        \/ remote' = [remote EXCEPT !.creation = "failed"] /\ todo' = <<>>
    BY <1>6 DEF PullRequest, Stop
  <2>3. /\ remote' \in Remotes
        /\ remote.pr # "none" => remote'.pr # "none"
        /\ remote'.pushed = remote.pushed /\ (remote'.pr # "none" \/ todo' = <<>>)
    BY <1>2, <2>2 DEF ProgressTypes, Remotes
  <2>4. QED
    BY <1>1, <1>2, <2>1, <2>3 DEF Consumed, ProgressTypes, ConstructionKinds
<1>7. CASE Push
  <2>1. /\ output' = output /\ Head(todo) = "push"
        /\ remote' = [remote EXCEPT !.pushed = TRUE] \/ (remote' = remote /\ todo' = <<>>)
    BY <1>7 DEF Push, At, Stop
  <2>2. /\ remote' \in Remotes
        /\ remote'.pr = remote.pr /\ (remote'.pushed \/ (remote' = remote /\ todo' = <<>>))
    BY <1>2, <2>1 DEF ProgressTypes, Remotes
  <2>3. QED
    BY <1>1, <1>2, <2>1, <2>2 DEF Consumed, ProgressTypes, ConstructionKinds
<1>8. QED
  BY <1>3, <1>4, <1>5, <1>6, <1>7

-----------------------------------------------------------------------------
(* The card, and the action it is confirmed for.                           *)

(* What the rounds rely on when an action begins.                          *)
Planned == EvidenceComesLater /\ DeliveryComesFirst /\ OpeningSteps

(* Steps that rely on others, or undo what others rely on.                 *)
Bound == {"designed", "test-suite", "verified", "deployment", "deployed",
          "publish", "commit", "advance", "transition"}

LEMMA FreeStepsArePlanned ==
  ASSUME todo' \in Seq(Steps), \A i \in DOMAIN todo' : todo'[i] \notin Bound
  PROVE  Planned'
<1>1. \A step \in Bound : \A by : Preceded(step, by)'
  BY DEF Preceded
<1>2. todo' # <<>> => 1 \in DOMAIN todo' /\ Head(todo') = todo'[1]
  OBVIOUS
<1>3. \A step \in Bound : ~At(step)'
  BY <1>2 DEF At
<1>4. EvidenceComesLater'
  BY <1>1 DEF EvidenceComesLater, Bound
<1>5. DeliveryComesFirst'
  BY <1>1 DEF DeliveryComesFirst, Bound
<1>6. OpeningSteps'
  BY <1>3 DEF OpeningSteps, Bound
<1>7. QED
  BY <1>4, <1>5, <1>6 DEF Planned

(* Reconciliation records the report, then the evidence, then the stage,   *)
(* whatever comes before it.                                               *)
LEMMA ReconciliationIsPlanned ==
  ASSUME todo' \in {Reconciliation,
                    <<"domain-model", "deployment-unit", "designed", "execute">> \o Reconciliation}
  PROVE  todo' \in Seq(Steps) /\ Planned'
<1> DEFINE n == Len(todo')
           Late == {"test-suite", "verified", "deployment", "deployed",
                    "publish", "commit", "advance", "transition"}
<1>1. /\ Reconciliation \in Seq(Steps) /\ Len(Reconciliation) = 8
      /\ <<"domain-model", "deployment-unit", "designed", "execute">> \in Seq(Steps)
  BY DEF Reconciliation, Steps
<1>2. todo' \in Seq(Steps) /\ n \in {8, 12} /\ DOMAIN todo' = 1 .. n /\ Head(todo') = todo'[1]
  <2> DEFINE longer == <<"domain-model", "deployment-unit", "designed", "execute">> \o Reconciliation
  <2>1. longer \in Seq(Steps) /\ Len(longer) = 12
    <3> DEFINE first == <<"domain-model", "deployment-unit", "designed", "execute">>
    <3>1. first \in Seq(Steps) /\ Len(first) = 4
      BY <1>1
    <3> HIDE DEF first
    <3>2. first \o Reconciliation \in Seq(Steps) /\ Len(first \o Reconciliation) = 12
      <4>1. \A s, t \in Seq(Steps) : s \o t \in Seq(Steps) /\ Len(s \o t) = Len(s) + Len(t)
        OBVIOUS
      <4>2. /\ first \o Reconciliation \in Seq(Steps)
            /\ Len(first \o Reconciliation) = Len(first) + Len(Reconciliation)
        <5>1. first \in Seq(Steps) /\ Reconciliation \in Seq(Steps)
          BY <1>1, <3>1
        <5>2. QED
          BY <4>1, <5>1, Zenon
      <4>3. Len(first) + Len(Reconciliation) = 12
        BY <1>1, <3>1
      <4>4. QED
        BY <4>2, <4>3
    <3>3. QED
      BY <3>2 DEF first
  <2> HIDE DEF longer
  <2>2. todo' = Reconciliation \/ todo' = longer
    BY DEF longer
  <2>3. todo' \in Seq(Steps) /\ n \in {8, 12}
    BY <1>1, <2>1, <2>2
  <2>4. QED
    BY <2>3
<1>3. /\ \A i \in 1 .. n : i < n - 2 =>
           todo'[i] \notin Late
      /\ todo'[n - 2] = "test-report" /\ todo'[n - 1] = "test-suite" /\ todo'[n] = "verified"
  <2>1. CASE todo' = Reconciliation
    BY <2>1 DEF Reconciliation, Late
  <2>2. CASE todo' = <<"domain-model", "deployment-unit", "designed", "execute">> \o Reconciliation
    BY <2>2 DEF Reconciliation, Late
  <2>3. QED
    BY <2>1, <2>2
<1> HIDE DEF n, Late
<1>4. \A i \in DOMAIN todo' :
        todo'[i] \in Late =>
          \/ i = n - 1 /\ todo'[i] = "test-suite"
          \/ i = n /\ todo'[i] = "verified"
  <2>1. "test-report" \notin Late
    BY DEF Late
  <2>2. ASSUME NEW i \in DOMAIN todo'
        PROVE  i < n - 2 \/ i = n - 2 \/ i = n - 1 \/ i = n
    BY <1>2
  <2>3. ASSUME NEW i \in DOMAIN todo', todo'[i] \in Late
        PROVE  i # n - 2 /\ ~(i < n - 2)
    <3>1. i \in 1 .. n
      BY <1>2
    <3>2. QED
      BY <1>3, <2>1, <2>3, <3>1
  <2>4. QED
    BY <1>2, <1>3, <2>2, <2>3
<1>5. Preceded("test-suite", {"test-report"})' /\ Preceded("verified", {"test-suite"})'
  BY <1>2, <1>3, <1>4 DEF Preceded, Late
<1>6. /\ Preceded("deployment", {"delivery-manifest", "pull-request"})'
      /\ Preceded("deployed", {"deployment"})' /\ Preceded("deployment", {})'
      /\ Preceded("deployed", {"copy"})' /\ Preceded("deployed", {"push"})'
      /\ Preceded("deployed", {"pull-request"})'
  BY <1>4 DEF Preceded, Late
<1>7. OpeningSteps'
  <2>1. \A i \in DOMAIN todo' : todo'[i] \notin {"publish", "commit", "advance", "transition"}
    BY <1>4 DEF Late
  <2>2. 1 \in DOMAIN todo'
    BY <1>2
  <2>3. \A step \in {"publish", "commit", "advance", "transition"} : ~At(step)'
    BY <1>2, <2>1, <2>2 DEF At
  <2>4. QED
    BY <2>1, <2>3 DEF OpeningSteps
<1>8. ASSUME NEW k \in ConstructionKinds
      PROVE  Preceded("designed", {k})'
  <2>1. todo'[1] = "domain-model" /\ todo'[2] = "deployment-unit" /\ k \in {todo'[1], todo'[2]}
    <3>1. CASE todo' = Reconciliation
      BY <3>1 DEF Reconciliation, ConstructionKinds
    <3>2. CASE todo' = <<"domain-model", "deployment-unit", "designed", "execute">> \o Reconciliation
      BY <3>2 DEF Reconciliation, ConstructionKinds
    <3>3. QED
      BY <3>1, <3>2
  <2>2. \A i \in DOMAIN todo' : todo'[i] = "designed" => i > 2
    BY <1>2, <2>1
  <2>3. QED
    BY <1>2, <2>1, <2>2 DEF Preceded
<1>9. QED
  BY <1>2, <1>5, <1>6, <1>7, <1>8 DEF Planned, EvidenceComesLater, DeliveryComesFirst

(* A delivery begins for a Work whose tests and scan are recorded and that *)
(* is not deployed.                                                        *)
LEMMA DeliveriesArePlanned ==
  ASSUME ProgressInv, UNCHANGED <<work, delivery>>,
         AgentDeploys(Projection), OnlyDeploymentMissing(Projection),
         \/ todo' = Submission /\ delivery = "pull-request"
         \/ todo' = Publication /\ delivery = "local-artifacts"
  PROVE  todo' \in Seq(Steps) /\ Planned'
<1>1. /\ Projection.state = work.state /\ Projection.evidence = Missing("evidence")
      /\ Projection.criteria = IF Unsatisfied THEN {Level} ELSE {}
  BY DEF Projection
<1>2. work.state = "operations" /\ Missing("evidence") \subseteq {"deployment"}
  BY <1>1 DEF AgentDeploys, AwaitsDeployment, AwaitsCompletion, OnlyDeploymentMissing
<1>3. "security-scan" \in work.evidence
  <2>1. Missing("evidence") = {"deployment", "security-scan"} \ work.evidence
    BY <1>2 DEF Missing, Gate
  <2>2. QED
    BY <1>2, <2>1
<1>4. Level = "verified"
  <2>1. /\ (IF Unsatisfied THEN {Level} ELSE {}) \ {"deployed"} # {}
        /\ (IF Unsatisfied THEN {Level} ELSE {}) \ {"deployed"} \subseteq {"verified"}
    BY <1>1 DEF AgentDeploys, AwaitsDeployment, PendingDeployment
  <2>2. QED
    BY <2>1
<1>5. "verified" \in work.stages /\ "deployed" \notin work.stages
  BY <1>4 DEF Level
<1>6. {"test-suite", "security-scan"} \subseteq work.evidence
  BY <1>3, <1>5 DEF ProgressInv, EvidenceIsBacked
<1>7. CASE todo' = Submission /\ delivery = "pull-request"
  <2>1. todo' = <<"commit", "push", "pull-request", "deployment", "deployed">>
    BY <1>7 DEF Submission
  <2>2. todo' \in Seq(Steps)
    BY <2>1 DEF Steps
  <2>3. /\ \A k : Preceded("designed", {k})'
        /\ Preceded("test-suite", {"test-report"})' /\ Preceded("verified", {"test-suite"})'
        /\ Preceded("deployment", {"delivery-manifest", "pull-request"})'
        /\ Preceded("deployed", {"deployment"})' /\ Preceded("deployed", {"push"})'
        /\ Preceded("deployed", {"pull-request"})'
    BY <2>1 DEF Preceded
  <2>4. OpeningSteps'
    <3>1. Head(todo') = "commit"
      BY <2>1
    <3>2. \A i \in DOMAIN todo' :
            todo'[i] \in {"publish", "commit", "advance", "transition"} => i = 1
      BY <2>1
    <3>3. QED
      BY <1>5, <2>3, <3>1, <3>2 DEF OpeningSteps, At
  <2>5. QED
    BY <1>6, <1>7, <2>2, <2>3, <2>4 DEF Planned, EvidenceComesLater, DeliveryComesFirst
<1>8. CASE todo' = Publication /\ delivery = "local-artifacts"
  <2>1. todo' = <<"publish", "copy", "delivery-manifest", "deployment", "deployed">>
    BY <1>8 DEF Publication
  <2>2. todo' \in Seq(Steps)
    BY <2>1 DEF Steps
  <2>3. /\ \A k : Preceded("designed", {k})'
        /\ Preceded("test-suite", {"test-report"})' /\ Preceded("verified", {"test-suite"})'
        /\ Preceded("deployment", {"delivery-manifest", "pull-request"})'
        /\ Preceded("deployed", {"deployment"})' /\ Preceded("deployed", {"copy"})'
    BY <2>1 DEF Preceded
  <2>4. OpeningSteps'
    <3>1. Head(todo') = "publish"
      BY <2>1
    <3>2. \A i \in DOMAIN todo' :
            todo'[i] \in {"publish", "commit", "advance", "transition"} => i = 1
      BY <2>1
    <3>3. QED
      BY <1>5, <2>3, <3>1, <3>2 DEF OpeningSteps, At
  <2>5. QED
    BY <1>6, <1>8, <2>2, <2>3, <2>4 DEF Planned, EvidenceComesLater, DeliveryComesFirst
<1>9. QED
  BY <1>7, <1>8

(* The stage that is next is recorded when no evidence is missing.         *)
LEMMA AdvanceIsPlanned ==
  ASSUME UNCHANGED work, todo' = <<"advance">>, AgentAdvances(Projection)
  PROVE  todo' \in Seq(Steps) /\ Planned'
<1>1. /\ NextCriterionStage \in {"built", "verified"}
      /\ Missing("evidence") = {} /\ Missing("artifacts") = {}
      /\ work.state = "construction"
  BY DEF AgentAdvances, TechnicalGaps, Projection
<1>2. "test-suite" \in work.evidence /\ ConstructionKinds \subseteq work.artifacts
  <2>1. Missing("evidence") = {"test-suite"} \ work.evidence
    BY <1>1 DEF Missing, Gate
  <2>2. Missing("artifacts") = ConstructionKinds \ work.artifacts
    BY <1>1 DEF Missing, Gate
  <2>3. QED
    BY <1>1, <2>1, <2>2
<1>3. NextCriterionStage' = NextCriterionStage
  BY DEF NextCriterionStage
<1>4. /\ todo' \in Seq(Steps) /\ DOMAIN todo' = {1} /\ todo'[1] = "advance"
      /\ Head(todo') = "advance"
  BY DEF Steps
<1>5. \A step \in Bound \ {"advance"} : \A by : Preceded(step, by)'
  BY <1>4 DEF Preceded
<1>6. EvidenceComesLater' /\ DeliveryComesFirst'
  BY <1>5 DEF EvidenceComesLater, DeliveryComesFirst, Bound
<1>7. OpeningSteps'
  BY <1>1, <1>2, <1>3, <1>4 DEF OpeningSteps, At
<1>8. QED
  BY <1>4, <1>6, <1>7 DEF Planned

LEMMA TransitionIsPlanned ==
  ASSUME todo' = <<"transition">>
  PROVE  todo' \in Seq(Steps) /\ Planned'
<1>1. /\ todo' \in Seq(Steps) /\ DOMAIN todo' = {1} /\ todo'[1] = "transition"
      /\ Head(todo') = "transition" /\ Tail(todo') = <<>>
  BY DEF Steps
<1>2. \A step \in Bound \ {"transition"} : \A by : Preceded(step, by)'
  BY <1>1 DEF Preceded
<1>3. EvidenceComesLater' /\ DeliveryComesFirst'
  BY <1>2 DEF EvidenceComesLater, DeliveryComesFirst, Bound
<1>4. OpeningSteps'
  BY <1>1 DEF OpeningSteps, At
<1>5. QED
  BY <1>1, <1>3, <1>4 DEF Planned

(* Whatever is confirmed, its steps are planned.                           *)
LEMMA ConfirmedIsPlanned ==
  ASSUME ProgressInv, Confirm
  PROVE  todo' \in Seq(Steps) /\ Planned'
<1> DEFINE d == Projection
<1>1. /\ card.decision = Projection /\ UNCHANGED <<work, delivery>>
      /\ delivery \in {"pull-request", "local-artifacts"}
  BY DEF Confirm, ProgressInv, ProgressTypes, CardIsCurrent
<1>2. PICK action \in {IF card.action \in {"prepare", "review"} THEN card.action
                       ELSE NextInSessionAction(d, delivery, VerificationFailed)} :
        todo' = <<>> \/ todo' = Program(action, d)
  BY <1>1 DEF Confirm
<1> HIDE DEF d
<1>3. \/ action \in {"prepare", "review"}
      \/ /\ action \in {"submit-pr", "prepare-local-operations", "publish-local-artifacts",
                        "accept-criteria", "advance-criterion", "verify",
                        "approve", "transition", "review"}
         /\ action = "submit-pr" =>
              AgentDeploys(d) /\ OnlyDeploymentMissing(d) /\ delivery = "pull-request"
         /\ action = "publish-local-artifacts" =>
              AgentDeploys(d) /\ OnlyDeploymentMissing(d) /\ delivery = "local-artifacts"
         /\ action = "advance-criterion" => AgentAdvances(d)
  <2>1. CASE card.action \in {"prepare", "review"}
    BY <1>2, <2>1
  <2>2. CASE action = NextInSessionAction(d, delivery, VerificationFailed)
    BY <1>1, <2>2, WhatIsPerformed
  <2>3. QED
    BY <1>2, <2>1, <2>2
<1>4. ASSUME todo' \in {<<>>, <<"execute">>, <<"verify">>, LocalOperations,
                        <<"accepted">>, <<"approve">>}
      PROVE  todo' \in Seq(Steps) /\ Planned'
  <2>1. <<>> \in Seq(Steps \ Bound)
    OBVIOUS
  <2>2. /\ <<"execute">> \in Seq(Steps \ Bound) /\ <<"verify">> \in Seq(Steps \ Bound)
        /\ <<"accepted">> \in Seq(Steps \ Bound) /\ <<"approve">> \in Seq(Steps \ Bound)
    BY DEF Steps, Bound
  <2>3. LocalOperations \in Seq(Steps \ Bound)
    BY DEF LocalOperations, Steps, Bound
  <2>4. todo' \in Seq(Steps \ Bound)
    BY <1>4, <2>1, <2>2, <2>3, Zenon
  <2>5. todo' \in Seq(Steps) /\ \A i \in DOMAIN todo' : todo'[i] \notin Bound
    BY <2>4
  <2>6. QED
    BY <2>5, FreeStepsArePlanned
<1>5. CASE todo' = <<>>
  BY <1>4, <1>5
<1>6. CASE action = "prepare" /\ todo' = Program(action, d)
  <2>1. todo' = Preparation(d.state)
    BY <1>6 DEF Program
  <2>2. QED
    BY <1>4, <2>1, ReconciliationIsPlanned DEF Preparation
<1>7. CASE action = "verify" /\ todo' = Program(action, d)
  <2>1. todo' = Reconciliation \/ todo' = <<"verify">>
    BY <1>7 DEF Program
  <2>2. QED
    BY <1>4, <2>1, ReconciliationIsPlanned
<1>8. CASE action \in {"submit-pr", "publish-local-artifacts"} /\ todo' = Program(action, d)
  <2>1. \/ action = "submit-pr" /\ todo' = Submission
        \/ action = "publish-local-artifacts" /\ todo' = Publication
    BY <1>8 DEF Program
  <2>2. AgentDeploys(Projection) /\ OnlyDeploymentMissing(Projection)
    BY <1>3, <1>8 DEF d
  <2>3. QED
    BY <1>1, <1>3, <2>1, <2>2, DeliveriesArePlanned
<1>9. CASE action = "advance-criterion" /\ todo' = Program(action, d)
  <2>1. todo' = <<"advance">> /\ AgentAdvances(Projection)
    BY <1>3, <1>9 DEF Program, d
  <2>2. QED
    BY <1>1, <2>1, AdvanceIsPlanned
<1>10. CASE action = "transition" /\ todo' = Program(action, d)
  <2>1. todo' = <<"transition">>
    BY <1>10 DEF Program
  <2>2. QED
    BY <2>1, TransitionIsPlanned
<1>11. CASE /\ action \in {"prepare-local-operations", "accept-criteria", "approve", "review"}
            /\ todo' = Program(action, d)
  <2>1. todo' \in {<<>>, LocalOperations, <<"accepted">>, <<"approve">>}
    BY <1>11 DEF Program
  <2>2. QED
    BY <1>4, <2>1
<1>12. QED
  BY <1>2, <1>3, <1>5, <1>6, <1>7, <1>8, <1>9, <1>10, <1>11

-----------------------------------------------------------------------------
(* The theorems.                                                           *)

(* A round shows Core's record, or performs what was confirmed.            *)
LEMMA RoundKeeps ==
  ASSUME ProgressInv, Round
  PROVE  ProgressInv'
<1>1. CASE Show
  <2>1. /\ card' # NoCard => card'.decision = Projection
        /\ work.state # "completed" /\ todo = <<>> /\ Projection' = Projection
        /\ UNCHANGED <<work, delivery, product, report, todo, output, remote>>
    BY <1>1 DEF Show, Projection, Missing, MissingApprovals, Obligations, Unsatisfied, GateOpen,
                Level, NextCriterionStage
  <2>2. CardIsCurrent'
    BY <2>1 DEF CardIsCurrent
  <2>3. ProgressTypes' /\ EvidenceIsBacked' /\ DeployedIsDelivered' /\ DeliveredIsScanned'
    BY <2>1 DEF ProgressInv, ProgressTypes, EvidenceIsBacked, DeployedIsDelivered,
                DeliveredIsScanned
  <2>4. EvidenceComesLater' /\ DeliveryComesFirst'
    BY <2>1 DEF ProgressInv, EvidenceComesLater, DeliveryComesFirst, Preceded
  <2>5. OpeningSteps'
    BY <2>1 DEF OpeningSteps, At
  <2>6. QED
    BY <2>2, <2>3, <2>4, <2>5 DEF ProgressInv
<1>2. CASE Confirm
  <2>1. todo' \in Seq(Steps) /\ Planned'
    BY <1>2, ConfirmedIsPlanned
  <2>2. /\ card' = NoCard /\ UNCHANGED <<work, delivery, product, report, output, remote>>
        /\ work.state # "completed"
    BY <1>2 DEF Confirm, ProgressInv, CardIsCurrent
  <2>3. ProgressTypes' /\ EvidenceIsBacked' /\ DeployedIsDelivered' /\ DeliveredIsScanned'
    BY <2>1, <2>2 DEF ProgressInv, ProgressTypes, EvidenceIsBacked, DeployedIsDelivered,
                      DeliveredIsScanned
  <2>4. CardIsCurrent'
    BY <2>2 DEF CardIsCurrent
  <2>5. QED
    BY <2>1, <2>3, <2>4 DEF ProgressInv, Planned
<1>3. CASE Step
  <2>1. Consumed
    BY <1>3, RecordsConsume, RunsConsume, DeliveriesConsume DEF Step
  <2>2. QED
    BY <2>1, ConsumedKeeps
<1>4. QED
  BY <1>1, <1>2, <1>3 DEF Round

(* What other people do, and a process that ends, disturbs none of it.     *)
LEMMA OthersKeep ==
  ASSUME ProgressInv, Cut \/ Edit \/ StartBriefAgain \/ ClosePullRequest \/ MergePullRequest \/ UNCHANGED vars
  PROVE  ProgressInv'
<1>1. /\ UNCHANGED <<work, delivery, report, card, output>> /\ product' \in Products
      /\ todo' = todo \/ todo' = <<>>
      /\ \/ remote' = remote
         \/ remote.pr = "open" /\ remote' = [remote EXCEPT !.pr = "closed"]
         \/ remote.pr = "open" /\ remote' = [remote EXCEPT !.pr = "closed", !.merged = TRUE]
  BY DEF ProgressInv, ProgressTypes, Cut, Edit, StartBriefAgain, ClosePullRequest,
         MergePullRequest, vars, Stop
<1>2. /\ remote' \in Remotes
      /\ remote'.pushed = remote.pushed
      /\ remote.pr # "none" => remote'.pr # "none"
  BY <1>1 DEF ProgressInv, ProgressTypes, Remotes
<1>3. todo' \in Seq(Steps)
  <2>1. <<>> \in Seq(Steps)
    OBVIOUS
  <2>2. todo \in Seq(Steps)
    BY DEF ProgressInv, ProgressTypes
  <2>3. QED
    BY <1>1, <2>1, <2>2, Zenon
<1>4. ProgressTypes' /\ EvidenceIsBacked' /\ DeployedIsDelivered' /\ DeliveredIsScanned'
  BY <1>1, <1>2, <1>3 DEF ProgressInv, ProgressTypes, EvidenceIsBacked, DeployedIsDelivered,
                          DeliveredIsScanned
<1>5. Projection' = Projection
  BY <1>1 DEF Projection, Missing, MissingApprovals, Obligations, Unsatisfied, GateOpen,
              Level, NextCriterionStage
<1>6. CardIsCurrent'
  BY <1>1, <1>5 DEF ProgressInv, CardIsCurrent
<1>7. CASE todo' = <<>>
  <2>1. \A i \in DOMAIN todo' : todo'[i] \notin Bound
    BY <1>7
  <2>2. Planned'
    BY <1>3, <2>1, FreeStepsArePlanned
  <2>3. QED
    BY <1>4, <1>6, <2>2 DEF ProgressInv, Planned
<1>8. CASE todo' = todo
  <2>1. EvidenceComesLater' /\ DeliveryComesFirst'
    BY <1>1, <1>2, <1>8 DEF ProgressInv, EvidenceComesLater, DeliveryComesFirst, Preceded
  <2>2. NextCriterionStage' = NextCriterionStage
    BY <1>1 DEF NextCriterionStage
  <2>3. OpeningSteps'
    BY <1>1, <1>8, <2>2 DEF ProgressInv, OpeningSteps, At, Preceded
  <2>4. QED
    BY <1>4, <1>6, <2>1, <2>3 DEF ProgressInv
<1>9. QED
  BY <1>1, <1>7, <1>8

LEMMA ProgressInitially ==
  ASSUME Init
  PROVE  ProgressInv
<1>1. /\ delivery \in {"pull-request", "local-artifacts"} /\ product \in Products
      /\ todo = <<>> /\ output = "none" /\ card = NoCard
      /\ report = "none"
      /\ remote = [head |-> ChangeSet, failed |-> {}, merged |-> FALSE, pushed |-> FALSE,
                   pr |-> "none", creation |-> "none"]
  BY DEF Init, Empty, Products
<1>2. PICK gaps \in BOOLEAN :
        work = [state |-> "inception", artifacts |-> IF gaps THEN {} ELSE {"inception"},
                evidence |-> {}, approvals |-> {}, stages |-> {"elaborated"},
                clarified |-> ~gaps]
  BY DEF Init
<1>3. work \in Works
  BY <1>2, StagesAre, BoundsAssumption DEF Works, Kinds
<1>4. <<>> \in Seq(Steps)
  OBVIOUS
<1>5. ProgressTypes
  <2>1. ChangeSet \in ChangeSets
    BY <1>1, <1>3 DEF ChangeSet, ChangeSets
  <2>2. remote \in Remotes
    BY <1>1, <2>1 DEF Remotes
  <2>3. QED
    BY <1>1, <1>3, <1>4, <2>2 DEF ProgressTypes
<1>6. EvidenceIsBacked /\ DeployedIsDelivered /\ DeliveredIsScanned
  BY <1>2 DEF EvidenceIsBacked, DeployedIsDelivered, DeliveredIsScanned
<1>7. EvidenceComesLater /\ DeliveryComesFirst
  BY <1>1 DEF EvidenceComesLater, DeliveryComesFirst, Preceded
<1>8. OpeningSteps /\ CardIsCurrent
  BY <1>1 DEF OpeningSteps, CardIsCurrent, At
<1>9. QED
  BY <1>5, <1>6, <1>7, <1>8 DEF ProgressInv

(* Whatever is cut short, edited or started again while the wizard takes   *)
(* its actions, what is recorded of the Work is backed, and what is still  *)
(* to be recorded follows what backs it.                                   *)
THEOREM ProgressInvariance == Spec => []ProgressInv
<1>1. Init => ProgressInv
  BY ProgressInitially
<1>2. ProgressInv /\ [Next]_vars => ProgressInv'
  BY RoundKeeps, OthersKeep DEF Next
<1>3. QED
  BY <1>1, <1>2, PTL DEF Spec

(* reconcile_construction_execution and the deliveries: evidence and stages*)
(* are recorded with what they refer to.                                   *)
THEOREM EvidenceIsAlwaysBacked == Spec => []EvidenceIsBacked
<1>1. ProgressInv => EvidenceIsBacked
  BY DEF ProgressInv
<1>2. QED
  BY <1>1, ProgressInvariance, PTL

(* publish_local_artifacts and submit_work_pull_request: a criterion is    *)
(* deployed when its delivery is whole, and stays so.                      *)
THEOREM DeployedWasDelivered == Spec => []DeployedIsDelivered
<1>1. ProgressInv => DeployedIsDelivered
  BY DEF ProgressInv
<1>2. QED
  BY <1>1, ProgressInvariance, PTL

(* No delivery is recorded before the tests and the scan of the Work are.  *)
THEOREM DeliveredWasScanned == Spec => []DeliveredIsScanned
<1>1. ProgressInv => DeliveredIsScanned
  BY DEF ProgressInv
<1>2. QED
  BY <1>1, ProgressInvariance, PTL

=============================================================================
