----------------------------- MODULE MCRecords -----------------------------
(***************************************************************************)
(* The records people, providers and executors keep beside a Work.  They   *)
(* share no state, so that one run takes them side by side: "part" is the  *)
(* one that moves, and the others rest in one initial state each.          *)
(***************************************************************************)
EXTENDS OutsideEvidence, IndependentDecisions,
        RegulatedSwarm, ModernizationGates

VARIABLE part

-----------------------------------------------------------------------------
(* The instance.                                                           *)

MCMaxDocuments ==
  [k \in Kinds |-> IF k \in {"migration-slice", "equivalence-report"} THEN 2 ELSE 1]
MCFolded(name) == IF name = "Ann" THEN "ann" ELSE name

-----------------------------------------------------------------------------
(* The resting states.                                                     *)

SnapshotRest == SnapshotInit /\ provider = "github" /\ expected = 1
GateRest     == GateInit /\ gate = "deployment"
ReviewRest   ==
  /\ policy = {"human-final"}
  /\ produced = [revision |-> 1,
                 by |-> [actor |-> "ann", real |-> "p1", claim |-> "p1", source |-> "observed"]]
  /\ review = NoReview /\ waiver = NoWaiver
  /\ decision = [allowed |-> FALSE, waived |-> FALSE]

ModernizationRest ==
  ModernizationInit /\ \A b \in Behaviors : BehaviorStatus[b] = "known"

-----------------------------------------------------------------------------
Parts == {"snapshots", "gate", "findings", "review", "regulated", "modernization"}

Init ==
  /\ part \in Parts
  /\ IF part = "snapshots" THEN SnapshotInit ELSE SnapshotRest
  /\ IF part = "gate" THEN GateInit ELSE GateRest
  /\ FindingInit
  /\ IF part = "review" THEN ReviewInit ELSE ReviewRest
  /\ RegulatedInit
  /\ IF part = "modernization" THEN ModernizationInit ELSE ModernizationRest

Next ==
  /\ UNCHANGED part
  /\ \/ /\ part = "snapshots" /\ SnapshotNext
        /\ UNCHANGED <<gateVars, findingVars, reviewVars, regulatedVars, modernizationVars>>
     \/ /\ part = "gate" /\ GateNext
        /\ UNCHANGED <<snapshotVars, findingVars, reviewVars, regulatedVars, modernizationVars>>
     \/ /\ part = "findings" /\ FindingNext
        /\ UNCHANGED <<snapshotVars, gateVars, reviewVars, regulatedVars, modernizationVars>>
     \/ /\ part = "review" /\ ReviewNext
        /\ UNCHANGED <<snapshotVars, gateVars, findingVars, regulatedVars, modernizationVars>>
     \/ /\ part = "regulated" /\ RegulatedNext
        /\ UNCHANGED <<snapshotVars, gateVars, findingVars, reviewVars, modernizationVars>>
     \/ /\ part = "modernization" /\ ModernizationNext
        /\ UNCHANGED <<snapshotVars, gateVars, findingVars, reviewVars, regulatedVars>>

recordsVars ==
  <<part, snapshotVars, gateVars, findingVars, reviewVars, regulatedVars, modernizationVars>>

Spec == Init /\ [][Next]_recordsVars

-----------------------------------------------------------------------------
(* Properties: those of the modules, each while its part moves.            *)

(* A delivery snapshot that allows a release was true at one instant, the  *)
(* end of the GitLab ledger is what was observed last, and evidence        *)
(* recorded as successful comes from runs of its commit.                   *)
ObservationsAreTrue ==
  /\ part = "snapshots" => AllowedWasTrueAtOnce /\ LedgerFollowsProvider
  /\ part = "gate" => EvidenceTestedItsCommit

(* A scan passes only when every finding its depth blocks was decided by   *)
(* somebody who may, and at every weaker depth as well; a review counts    *)
(* only of the present revision and as independent as the policy demands.  *)
DecisionsAreIndependent ==
  /\ part = "findings" => PassedScanIsDecided /\ ThresholdsAreMonotonic
  /\ part = "review" => AllowedReviewIsIndependent

(* A regulated action is prepared only by calls that found the duties      *)
(* segregated, and prepared evidence has its retention record.             *)
RegulatedActionsAreBacked ==
  part = "regulated" => PreparedBySegregatedSwarm /\ EvidenceIsRetained

(* A request that assessed its gate moves a modernized Work forward only   *)
(* with every behaviour settled by the last report about it, and completes *)
(* it only without a report after the cutover plan, of those it read.      *)
ModernizationIsSettled == BehaviorsAreSettled /\ CutoverFollowsReports

=============================================================================
