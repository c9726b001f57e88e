----------------------------- MODULE MCHandover -----------------------------
(***************************************************************************)
(* What stands around one execution: the installed project, the registry   *)
(* of its organization, the card that is confirmed, the runtime and its    *)
(* envelope, the files and the artifacts that are handed over, and the     *)
(* candidate that is reviewed.  The parts share no state, so that one run  *)
(* takes them side by side: "part" is the one that moves, and the others   *)
(* rest in one initial state each.                                         *)
(***************************************************************************)
EXTENDS RuntimeEnvelope, ProjectInstall, ExecutionContext, ArtifactContext,
        ExecutionCandidate, EnterpriseRegistry, TLC

CONSTANT Stages   \* the lifecycle states considered by the card

VARIABLES part, decision, delivery, failed, changed, shown, done

Node == INSTANCE WizardNode

nodeVars == <<decision, delivery, failed, changed, shown, done>>

-----------------------------------------------------------------------------
(* The instance.                                                           *)

MCTiers      == <<"local", "paid-efficient">>
MCCallBudget == "local" :> 1 @@ "paid-efficient" :> 2

MCScore == [f \in Files |-> IF f = 2 THEN 30 ELSE IF f = 4 THEN 5 ELSE 0]
MCSize  == [f \in Files |-> f]

(* Every shape of three documents; the third may refer to itself or        *)
(* nowhere, and the second and third may be heavy.                         *)
MCDocuments ==
  {d \in [Nodes -> [traces : SUBSET (Nodes \cup {Missing}), tokens : {1, 2}]] :
     /\ d[1].tokens = 1 /\ d[1].traces \subseteq {2, 3}
     /\ d[2].traces \subseteq {1, 3}}

MCQueries ==
  [root : {2, 3}, direction : {"backward", "forward", "both"},
   depth : {1, 3}, budget : {3}, strict : BOOLEAN]

(* A project under its organization's policy, its next version, and a      *)
(* project that gives itself a larger budget.                              *)
MCOrganization ==
  [version |-> 1, keys |-> {"k1"}, threshold |-> 1,
   allowed |-> {"local", "cloud"}, providers |-> {"local"},
   ceilings |-> [tokens |-> 1], budgets |-> [tokens |-> 1],
   required |-> {"failures"}, exported |-> {"failures", "lead-time"}]

MCConfigs ==
  {MCOrganization, [MCOrganization EXCEPT !.version = 2],
   [MCOrganization EXCEPT !.budgets = [tokens |-> 2]]}

MCReleases ==
  [v \in Versions |-> [checksum |-> IF v = 1 THEN "a" ELSE "b", signers |-> Keys]]

-----------------------------------------------------------------------------
(* The resting states.                                                     *)

EnvelopeRest == Init /\ explicit = FALSE /\ core = [revision |-> 0, boundary |-> FALSE,
                                                    authorized |-> TRUE]

InstallRest ==
  /\ InstallInit
  /\ config = [profile |-> "starter", depth |-> "default", roles |-> "developer",
               executor |-> "human", runtimes |-> {}, criteria |-> "pairs"]
  /\ instructions = <<>>

RegistryRest == RegistryInit /\ configuration = MCOrganization

FilesRest ==
  ContextInit /\ tree = [f \in Files |-> [status |-> "clean", changed |-> FALSE]]

ArtifactsRest ==
  /\ artifacts = [n \in Nodes |-> [traces |-> {}, tokens |-> 1]]
  /\ query = [root |-> 2, direction |-> "both", depth |-> 1, budget |-> 3, strict |-> FALSE]
  /\ answer = Unanswered /\ handed = NotYet

CardRest ==
  /\ decision = [state |-> "inception", completion |-> FALSE, artifacts |-> "none",
                 evidence |-> {}, approvals |-> FALSE, criteria |-> {},
                 clarifications |-> FALSE, git |-> FALSE, ready |-> FALSE,
                 transition |-> FALSE, blocked |-> FALSE, aiDeveloper |-> FALSE,
                 nextBuild |-> FALSE]
  /\ delivery = "none" /\ failed = FALSE /\ changed = FALSE
  /\ shown = "none" /\ done = "none"

-----------------------------------------------------------------------------
Parts == {"envelope", "install", "registry", "files", "artifacts", "candidate", "card"}

HandoverInit ==
  /\ part \in Parts
  /\ IF part = "envelope" THEN Init ELSE EnvelopeRest
  /\ IF part = "install" THEN InstallInit ELSE InstallRest
  /\ IF part = "registry" THEN RegistryInit ELSE RegistryRest
  /\ IF part = "files" THEN ContextInit ELSE FilesRest
  /\ IF part = "artifacts" THEN ArtifactInit ELSE ArtifactsRest
  /\ CandidateInit
  /\ IF part = "card" THEN Node!NodeInit ELSE CardRest

HandoverNext ==
  /\ UNCHANGED part
  /\ \/ /\ part = "envelope" /\ Next
        /\ UNCHANGED <<installVars, registryVars, contextVars, artifactVars, candidateVars, nodeVars>>
     \/ /\ part = "install" /\ InstallNext
        /\ UNCHANGED <<vars, registryVars, contextVars, artifactVars, candidateVars, nodeVars>>
     \/ /\ part = "registry" /\ RegistryNext
        /\ UNCHANGED <<vars, installVars, contextVars, artifactVars, candidateVars, nodeVars>>
     \/ /\ part = "files" /\ ContextNext
        /\ UNCHANGED <<vars, installVars, registryVars, artifactVars, candidateVars, nodeVars>>
     \/ /\ part = "artifacts" /\ ArtifactNext
        /\ UNCHANGED <<vars, installVars, registryVars, contextVars, candidateVars, nodeVars>>
     \/ /\ part = "candidate" /\ CandidateNext
        /\ UNCHANGED <<vars, installVars, registryVars, contextVars, artifactVars, nodeVars>>
     \/ /\ part = "card" /\ Node!NodeNext
        /\ UNCHANGED <<vars, installVars, registryVars, contextVars, artifactVars, candidateVars>>

HandoverSpec ==
  HandoverInit /\ [][HandoverNext]_<<part, vars, installVars, registryVars, contextVars, artifactVars,
                                     candidateVars, nodeVars>>

-----------------------------------------------------------------------------
(* Properties: those of the modules, each while its part moves.            *)

(* Installing keeps what people wrote unless a marker was deleted or a     *)
(* write cut off, reports success of a complete project only, and does not *)
(* refuse its own configuration at the end.  What is reported of a signed  *)
(* registry is what was reviewed.                                          *)
InstallationsAreSound ==
  /\ part = "install" => OwnTextIsKept /\ InstalledIsComplete /\ WritingIsValid
  /\ part = "registry" => ReleasesAreReviewed

(* An executor lacks no changed file, and no other one unless the          *)
(* classifier was sure that it is irrelevant.  The artifacts it is handed  *)
(* are traced, nearest first within the budget, and a strict set can be    *)
(* read in the order of its traces.                                        *)
InputsAreHandedOver ==
  /\ part = "files" => OnlySureFilesAreDropped
  /\ part = "artifacts" => HandedIsTraced /\ BudgetGoesToTheNearest /\ StrictIsReadable

(* A review that still counts is of what is there, but for files deleted   *)
(* since and files that are back as they were committed.                   *)
CandidatesArePresent == part = "candidate" => ReviewedIsPresent

(* What is confirmed is what is done, and no card leads over open gaps to  *)
(* the lifecycle.                                                          *)
CardsAreKept ==
  part = "card" =>
    Node!ConfirmedIsExecuted /\ Node!NoLifecycleStepOverGaps /\ Node!ReadyGateIsTransition

(* The adapter runs what was charged, and the call budgets are exceeded by *)
(* the launches in flight at most.                                         *)
RunsArePaidFor ==
  part = "envelope" => BudgetOvershootBounded /\ RunsAreChargedToTheirTier

=============================================================================
