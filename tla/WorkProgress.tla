---------------------------- MODULE WorkProgress ----------------------------
(***************************************************************************)
(* A Work on its way from Inception to completed, driven by the guided     *)
(* wizard: each round projects Core's record into a decision, shows a card,*)
(* and once a person confirms it runs the steps of one action: the executor*)
(* with its scaffold and reconciliation, local verification, preparation   *)
(* and publication of a local delivery, submission of a Pull Request,      *)
(* approvals and transitions.  An action writes to Core one step at a time *)
(* and is cut short by an exception or by the end of the process; nothing  *)
(* undoes the steps before.  Meanwhile people edit the product, start the  *)
(* Intent Brief again and close Pull Requests.                             *)
(*                                                                         *)
(* Core is external: it keeps what is recorded and refuses a transition    *)
(* whose gate is not met.  The five Construction artifacts are represented *)
(* by the first and the last, and the one criterion Agora Flow gives a     *)
(* Work ("source-issue") by the stages recorded for it.                    *)
(***************************************************************************)
EXTENDS WizardRules

CONSTANTS
  MaxActs,     \* what other people do to the product, the brief and the PR
  MaxMishaps,  \* cuts of the process and failures of a tool
  MaxRuns      \* executor runs that may leave anything instead of the task done

ASSUME BoundsAssumption ==
  /\ MaxActs \in Nat /\ MaxMishaps \in Nat /\ MaxRuns \in Nat
  /\ Stages = {"inception", "construction", "operations"}

VARIABLES
  work,      \* Core's record of the Work
  kind,      \* whether it was started from an issue or from an Intent Brief
  delivery,  \* the delivery target of the project
  product,   \* the product files of the checkout
  origin,    \* the product when the Work was started
  baseline,  \* the product the local baseline records
  report,    \* the persisted verification report
  card,      \* the card on the screen: its action and its decision
  todo,      \* the steps the confirmed action has left
  output,    \* the published local delivery
  remote,    \* the Work branch and its Pull Request
  acts, mishaps, runs

vars == <<work, kind, delivery, product, origin, baseline, report, card, todo, output,
          remote, acts, mishaps, runs>>

-----------------------------------------------------------------------------
(* The product: its source and its tests, each one a content.  "sound" and *)
(* "revised" source passes any tests and has no forbidden pattern.         *)

Products ==
  [source : {"absent", "failing", "unsafe", "sound", "revised"},
   tests : {"absent", "present", "revised"}]

Empty == [source |-> "absent", tests |-> "absent"]

(* changed_product_files: an existing file that differs from the baseline. *)
(* A baseline that was never captured reads as an empty one.               *)
Changed(file) == product[file] \notin {"absent", baseline[file]}

(* _scan_local_product finds a forbidden pattern in a changed file.        *)
Findings == Changed("source") /\ product.source = "unsafe"

(* What running the planned commands comes to.  Without tests there may be *)
(* a build command, or nothing to run at all, which counts as a failure.   *)
Outcomes ==
  IF product.source = "failing" THEN {"failed"}
  ELSE IF product.tests # "absent" THEN {"passed"} ELSE {"passed", "failed"}

-----------------------------------------------------------------------------
(* Core: the gates of the Method Pack and what they still ask for.         *)

ConstructionKinds == {"domain-model", "deployment-unit"}
OperationsKinds   == {"operational-readiness", "rollback-procedure"}
Kinds == {"inception", "test-report", "security-scan-report", "delivery-manifest"}
           \cup ConstructionKinds \cup OperationsKinds

CriterionStages == <<"elaborated", "designed", "built", "verified", "deployed", "accepted">>

Gate(state) ==
  CASE state = "inception" ->
         [artifacts |-> {"inception"}, evidence |-> {},
          approvals |-> {"product-owner", "developer"}, stage |-> "elaborated",
          target |-> "construction"]
    [] state = "construction" ->
         [artifacts |-> ConstructionKinds, evidence |-> {"test-suite"},
          approvals |-> {"developer"}, stage |-> "verified",
          target |-> "operations"]
    [] state = "operations" ->
         [artifacts |-> OperationsKinds, evidence |-> {"deployment", "security-scan"},
          approvals |-> {"product-owner"}, stage |-> "accepted",
          target |-> "completed"]

Works ==
  [state : Stages \cup {"completed"}, artifacts : SUBSET Kinds,
   evidence : SUBSET Evidence, approvals : SUBSET {"product-owner", "developer"},
   stages : SUBSET {CriterionStages[i] : i \in DOMAIN CriterionStages},
   clarified : BOOLEAN]

Missing(part) == Gate(work.state)[part] \ work[part]

Unsatisfied == Gate(work.state).stage \notin work.stages

Obligations ==
  \/ Missing("artifacts") # {} \/ Missing("evidence") # {}
  \/ Unsatisfied
  \/ work.state = "inception" /\ ~work.clarified

(* Mutant: missing approvals are named while other obligations are open. *)
EveryApproval == Missing("approvals")

(* Core names the approvals still missing once nothing else is.  Were they *)
(* named earlier, the executor would refuse every preparation.             *)
MissingApprovals == IF Obligations THEN {} ELSE Missing("approvals")

GateOpen == ~Obligations /\ Missing("approvals") = {}

(* The level inspect_next's reader takes a criterion to have reached.      *)
Level ==
  CASE "deployed" \in work.stages -> "deployed"
    [] "verified" \in work.stages /\ "deployed" \notin work.stages -> "verified"
    [] "built" \in work.stages /\ work.stages \cap {"verified", "deployed"} = {} -> "built"
    [] OTHER -> "designed"

NextCriterionStage ==
  CriterionStages[CHOOSE i \in DOMAIN CriterionStages :
    /\ CriterionStages[i] \notin work.stages
    /\ \A j \in 1..(i - 1) : CriterionStages[j] \in work.stages]

(* inspect_next.                                                           *)
Projection ==
  LET gaps == Missing("artifacts") # {} \/ Missing("evidence") # {}
                \/ (work.state = "inception" /\ ~work.clarified)
  IN  [state |-> work.state, completion |-> work.state = "operations",
       artifacts |-> IF Missing("artifacts") = {} THEN "none"
                     ELSE IF work.state = "operations" THEN "local" ELSE "other",
       evidence |-> Missing("evidence"), approvals |-> MissingApprovals # {},
       criteria |-> IF Unsatisfied THEN {Level} ELSE {},
       clarifications |-> work.state = "inception" /\ ~work.clarified,
       git |-> FALSE, ready |-> ~Obligations /\ MissingApprovals # {},
       transition |-> GateOpen, blocked |-> ~GateOpen, aiDeveloper |-> TRUE,
       nextBuild |-> /\ Unsatisfied /\ ~gaps
                     /\ NextCriterionStage \in {"built", "verified"}]

-----------------------------------------------------------------------------
(* The steps of each action, in the order of the code.                     *)

(* Mutant: the stage is recorded before the evidence for it. *)
StageBeforeEvidence ==
  <<"domain-model", "deployment-unit", "designed", "built", "verify",
    "verified", "test-report", "test-suite">>

Reconciliation ==
  <<"domain-model", "deployment-unit", "designed", "built", "verify",
    "test-report", "test-suite", "verified">>

Submission == <<"commit", "push", "pull-request", "deployment", "deployed">>

(* Mutant: the delivery is recorded before its files are copied. *)
PublishedFirst == <<"publish", "delivery-manifest", "deployment", "deployed", "copy">>

Publication == <<"publish", "copy", "delivery-manifest", "deployment", "deployed">>

LocalOperations ==
  <<"scan", "operational-readiness", "rollback-procedure", "security-scan-report",
    "security-scan">>

Preparation(state) ==
  IF state = "construction"
  THEN <<"domain-model", "deployment-unit", "designed", "execute">> \o Reconciliation
  ELSE <<"execute">>

(* execute_in_session_action; "review" only shows the node.                *)
Program(action, d) ==
  CASE action = "prepare" -> Preparation(d.state)
    [] action = "verify" -> IF TestingBoundary(d) THEN Reconciliation ELSE <<"verify">>
    [] action = "submit-pr" -> Submission
    [] action = "prepare-local-operations" -> LocalOperations
    [] action = "publish-local-artifacts" -> Publication
    [] action = "advance-criterion" -> <<"advance">>
    [] action = "mark-deployed" -> <<"deployed">>
    [] action = "accept-criteria" -> <<"accepted">>
    [] action = "approve" -> <<"approve">>
    [] action = "transition" -> <<"transition">>
    [] OTHER -> <<>>

-----------------------------------------------------------------------------
(* work_change_set: the product and the governed records of the Work; what *)
(* is committed, and which commits of it failed on the present head.  Tool *)
(* runs are records of the project and no part of it.                      *)
ChangeSets == Products \X Works \X {"none", "passed", "failed"}

ChangeSet == <<product, work, report>>

Remotes ==
  [head : ChangeSets, failed : SUBSET ChangeSets, merged : BOOLEAN, pushed : BOOLEAN,
   pr : {"none", "open", "closed"}, creation : {"none", "failed", "completed"}]

NoCard == [action |-> "none"]

Steps == {"domain-model", "deployment-unit", "designed", "execute",
  "built", "verify", "test-report", "test-suite", "verified", "commit", "push",
  "pull-request", "deployment", "deployed", "publish", "copy",
  "delivery-manifest", "scan", "operational-readiness", "rollback-procedure",
  "security-scan-report", "security-scan", "advance", "accepted", "approve",
  "transition"}

Actions == {"none", "prepare", "verify", "submit-pr", "prepare-local-operations",
  "publish-local-artifacts", "advance-criterion", "mark-deployed",
  "accept-criteria", "approve", "transition", "review"}

TypeOK ==
  /\ work \in Works /\ kind \in {"issue", "brief"}
  /\ delivery \in {"pull-request", "local-artifacts"}
  /\ {product, origin, baseline} \subseteq Products
  /\ report \in {"none", "passed", "failed"}
  /\ card.action \in Actions
  /\ card.action # "none" => card.decision \in Decision /\ Inspectable(card.decision)
  /\ \A i \in DOMAIN todo : todo[i] \in Steps
  /\ output \in {"none", "partial", "whole"}
  /\ remote \in Remotes
  /\ acts \in 0..MaxActs /\ mishaps \in 0..MaxMishaps /\ runs \in 0..MaxRuns

(* A brief delivers local artifacts and captures a baseline; an issue is   *)
(* started in a repository that may have source and tests already.         *)
Init ==
  /\ kind \in {"issue", "brief"}
  /\ delivery \in {"pull-request", "local-artifacts"}
  /\ kind = "brief" => delivery = "local-artifacts"
  /\ product \in {Empty, [source |-> "sound", tests |-> "present"]}
  /\ origin = product
  /\ baseline = IF kind = "brief" THEN product ELSE Empty
  /\ \E gaps \in BOOLEAN :
       work = [state |-> "inception",
               artifacts |-> IF gaps THEN {} ELSE {"inception"},
               evidence |-> {}, approvals |-> {}, stages |-> {"elaborated"},
               clarified |-> ~gaps]
  /\ report = "none" /\ todo = <<>> /\ output = "none" /\ card = NoCard
  /\ remote = [head |-> ChangeSet, failed |-> {}, merged |-> FALSE, pushed |-> FALSE,
               pr |-> "none", creation |-> "none"]
  /\ acts = 0 /\ mishaps = 0 /\ runs = 0

-----------------------------------------------------------------------------
(* One round of the wizard.                                                *)

VerificationFailed == report = "failed"

Show ==
  /\ card = NoCard /\ todo = <<>> /\ work.state # "completed"
  /\ \E d \in {Projection} :
       card' = [action |-> Advice(d, delivery, VerificationFailed), decision |-> d]
  /\ UNCHANGED <<work, kind, delivery, product, origin, baseline, report, todo,
                 output, remote, acts, mishaps, runs>>

(* The action is derived again from the held decision; only "prepare" goes *)
(* to the executor, which refuses at the human boundary.                   *)
Confirm ==
  /\ card # NoCard
  /\ \E d \in {card.decision} :
     \E action \in {IF card.action \in {"prepare", "review"} THEN card.action
                   ELSE NextInSessionAction(d, delivery, VerificationFailed)} :
       todo' = IF action = "prepare" /\ AtHumanBoundary(d) THEN <<>>
               ELSE Program(action, d)
  /\ card' = NoCard
  /\ UNCHANGED <<work, kind, delivery, product, origin, baseline, report,
                 output, remote, acts, mishaps, runs>>

-----------------------------------------------------------------------------
(* The steps.                                                              *)

At(step) == todo # <<>> /\ Head(todo) = step

Proceed == todo' = Tail(todo)
Stop    == todo' = <<>>

Records(part, item) ==
  work' = [work EXCEPT ![part] = @ \cup {item}]

(* add_artifact, once per kind.                                            *)
RegisterArtifact ==
  /\ \E k \in Kinds \ {"inception"} : At(k) /\ Records("artifacts", k)
  /\ Proceed
  /\ UNCHANGED <<kind, delivery, product, origin, baseline, report, card,
                 output, remote, acts, mishaps, runs>>

(* add_evidence, with a dedupe key per Work.                               *)
AddEvidence ==
  /\ \E e \in Evidence : At(e) /\ Records("evidence", e)
  /\ Proceed
  /\ UNCHANGED <<kind, delivery, product, origin, baseline, report, card,
                 output, remote, acts, mishaps, runs>>

(* "designed", "verified", "deployed" and "accepted" follow from the steps *)
(* before; "deployed" only for a criterion that is verified.               *)
RecordStage ==
  /\ \E stage \in {"designed", "verified", "deployed", "accepted"} :
       At(stage) /\ Records("stages", stage)
  /\ Proceed
  /\ UNCHANGED <<kind, delivery, product, origin, baseline, report, card,
                 output, remote, acts, mishaps, runs>>

(* reconcile_construction_execution ends here unless a changed file is     *)
(* product source.                                                         *)
RecordBuilt ==
  /\ At("built")
  /\ IF ConstructionKinds \subseteq work.artifacts /\ Changed("source")
     THEN Records("stages", "built") /\ Proceed
     ELSE Stop /\ UNCHANGED work
  /\ UNCHANGED <<kind, delivery, product, origin, baseline, report, card,
                 output, remote, acts, mishaps, runs>>

(* build_verification_report persists what it found; the stage needs tests *)
(* among the changed files as well.                                        *)
Verify ==
  /\ At("verify")
  /\ report' \in Outcomes
  /\ IF report' = "passed" /\ Changed("tests") THEN Proceed ELSE Stop
  /\ UNCHANGED <<work, kind, delivery, product, origin, baseline, card,
                 output, remote, acts, mishaps, runs>>

(* The executor writes files; in Inception and Operations it also records  *)
(* what the gate asks of it.  A run may leave its task half done.          *)
Execute ==
  /\ At("execute")
  /\ \/ /\ runs < MaxRuns /\ runs' = runs + 1
        /\ IF work.state = "construction" THEN product' \in Products /\ UNCHANGED work
           ELSE /\ \E some \in SUBSET Missing("artifacts") :
                     work' = [work EXCEPT !.artifacts = @ \cup some]
                /\ UNCHANGED product
     \/ /\ work.state = "construction"
        /\ product' \in [source : {"sound", "revised"} \ {baseline.source},
                         tests : {"present", "revised"} \ {baseline.tests}]
        /\ UNCHANGED <<work, runs>>
     \/ /\ work.state # "construction"
        /\ work' = [work EXCEPT
             !.artifacts = @ \cup Gate(work.state).artifacts,
             !.evidence = @ \cup (Gate(work.state).evidence \ {"deployment"}),
             !.clarified = TRUE]
        /\ UNCHANGED <<product, runs>>
  /\ Proceed
  /\ UNCHANGED <<kind, delivery, origin, baseline, report, card, output, remote,
                 acts, mishaps>>

(* advance-criterion records the stage the decision names next.            *)
Advance ==
  /\ At("advance")
  /\ Records("stages", NextCriterionStage)
  /\ Proceed
  /\ UNCHANGED <<kind, delivery, product, origin, baseline, report, card,
                 output, remote, acts, mishaps, runs>>

(* The first missing role, in the name of its actor.                       *)
Approve ==
  /\ At("approve")
  /\ \E role \in MissingApprovals : Records("approvals", role)
  /\ Proceed
  /\ UNCHANGED <<kind, delivery, product, origin, baseline, report, card,
                 output, remote, acts, mishaps, runs>>

(* Core refuses a gate that is not met; approvals are for one transition.  *)
Transition ==
  /\ At("transition") /\ GateOpen
  /\ work' = [work EXCEPT !.state = Gate(@).target, !.approvals = {}]
  /\ Proceed
  /\ UNCHANGED <<kind, delivery, product, origin, baseline, report, card,
                 output, remote, acts, mishaps, runs>>

(* The scan raises on findings, before anything is written.                *)
Scan ==
  /\ At("scan")
  /\ IF Findings THEN Stop ELSE Proceed
  /\ UNCHANGED <<work, kind, delivery, product, origin, baseline, report, card,
                 output, remote, acts, mishaps, runs>>

(* The earlier output is removed, then the changed files are copied.       *)
Publish ==
  /\ At("publish") \/ At("copy")
  /\ output' = IF At("copy") THEN "whole" ELSE "partial"
  /\ Proceed
  /\ UNCHANGED <<work, kind, delivery, product, origin, baseline, report, card,
                 remote, acts, mishaps, runs>>

(* _commit_if_needed: the commit is a tool run whose id is the digest of   *)
(* the staged difference.  When it fails the run and the staged files stay,*)
(* and Core refuses the id until the difference is another one.            *)
Commit ==
  /\ At("commit") /\ remote.head # ChangeSet
  /\ \/ /\ ChangeSet \notin remote.failed
        /\ remote' = [remote EXCEPT !.head = ChangeSet, !.failed = {}, !.merged = FALSE,
                                    !.pushed = FALSE]
        /\ Proceed /\ UNCHANGED mishaps
     \/ /\ ChangeSet \notin remote.failed /\ mishaps < MaxMishaps
        /\ remote' = [remote EXCEPT !.failed = @ \cup {ChangeSet}]
        /\ mishaps' = mishaps + 1 /\ Stop
     \/ /\ ChangeSet \in remote.failed
        /\ Stop /\ UNCHANGED <<remote, mishaps>>
  /\ UNCHANGED <<work, kind, delivery, product, origin, baseline, report, card,
                 output, acts, runs>>

(* Without anything to commit the branch must still be ahead of its base.  *)
CommitNothing ==
  /\ At("commit") /\ remote.head = ChangeSet
  /\ IF remote.merged THEN Stop ELSE Proceed
  /\ UNCHANGED <<work, kind, delivery, product, origin, baseline, report, card,
                 output, remote, acts, mishaps, runs>>

Push ==
  /\ At("push")
  /\ \/ remote' = [remote EXCEPT !.pushed = TRUE] /\ Proceed /\ UNCHANGED mishaps
     \/ mishaps < MaxMishaps /\ mishaps' = mishaps + 1 /\ Stop /\ UNCHANGED remote
  /\ UNCHANGED <<work, kind, delivery, product, origin, baseline, report, card,
                 output, acts, runs>>

(* A Pull Request of the branch in any state is taken; creating one is a   *)
(* tool run with an id of the Work, which Core accepts once.               *)
PullRequest ==
  /\ At("pull-request")
  /\ \/ remote.pr # "none" /\ Proceed /\ UNCHANGED <<remote, mishaps>>
     \/ /\ remote.pr = "none" /\ remote.creation = "none"
        /\ remote' = [remote EXCEPT !.pr = "open", !.creation = "completed"]
        /\ Proceed /\ UNCHANGED mishaps
     \/ /\ remote.pr = "none" /\ remote.creation # "none"
        /\ Stop /\ UNCHANGED <<remote, mishaps>>
     \/ /\ remote.pr = "none" /\ remote.creation = "none" /\ mishaps < MaxMishaps
        /\ remote' = [remote EXCEPT !.creation = "failed"]
        /\ mishaps' = mishaps + 1 /\ Stop
  /\ UNCHANGED <<work, kind, delivery, product, origin, baseline, report, card,
                 output, acts, runs>>

Step ==
  \/ RegisterArtifact \/ AddEvidence \/ RecordStage \/ RecordBuilt \/ Verify
  \/ Execute \/ Advance \/ Approve \/ Transition \/ Scan \/ Publish
  \/ Commit \/ CommitNothing \/ Push \/ PullRequest

Round == Show \/ Confirm \/ Step

-----------------------------------------------------------------------------
(* Other people and other processes.                                       *)

(* The process ends, or Git, Core or the file system raises.               *)
Cut ==
  /\ todo # <<>> /\ mishaps < MaxMishaps
  /\ mishaps' = mishaps + 1
  /\ Stop
  /\ UNCHANGED <<work, kind, delivery, product, origin, baseline, report, card,
                 output, remote, acts, runs>>

Edit ==
  /\ acts < MaxActs /\ work.state # "completed"
  /\ acts' = acts + 1
  /\ product' \in Products \ {product}
  /\ UNCHANGED <<work, kind, delivery, origin, baseline, report, card, todo,
                 output, remote, mishaps, runs>>

(* prepare_brief_start finds its Work and captures the baseline again.     *)
StartBriefAgain ==
  /\ kind = "brief" /\ acts < MaxActs /\ work.state # "completed"
  /\ acts' = acts + 1
  /\ baseline' = product
  /\ UNCHANGED <<work, kind, delivery, product, origin, report, card, todo,
                 output, remote, mishaps, runs>>

ClosePullRequest ==
  /\ remote.pr = "open" /\ acts < MaxActs
  /\ acts' = acts + 1
  /\ remote' = [remote EXCEPT !.pr = "closed"]
  /\ UNCHANGED <<work, kind, delivery, product, origin, baseline, report, card,
                 todo, output, mishaps, runs>>

(* It is merged, and the base branch of the checkout is brought up to it.  *)
MergePullRequest ==
  /\ remote.pr = "open" /\ remote.pushed /\ acts < MaxActs
  /\ acts' = acts + 1
  /\ remote' = [remote EXCEPT !.pr = "closed", !.merged = TRUE]
  /\ UNCHANGED <<work, kind, delivery, product, origin, baseline, report, card,
                 todo, output, mishaps, runs>>

Next ==
  Round \/ Cut \/ Edit \/ StartBriefAgain \/ ClosePullRequest \/ MergePullRequest

(* A person who keeps confirming the wizard's cards.                       *)
Spec == Init /\ [][Next]_vars /\ WF_vars(Round)

-----------------------------------------------------------------------------
(* Properties.                                                             *)

(* Whatever was cut short, evidence is recorded in Core only with the      *)
(* artifact or the Pull Request it refers to, and a criterion is designed, *)
(* built, verified or deployed only with the artifacts or the evidence for *)
(* it.  What the registered files hold by then is not part of it.          *)
EvidenceIsBacked ==
  /\ "test-suite" \in work.evidence => "test-report" \in work.artifacts
  /\ "deployment" \in work.evidence =>
       "delivery-manifest" \in work.artifacts \/ remote.pr # "none"
  /\ work.stages \cap {"designed", "built"} # {} => ConstructionKinds \subseteq work.artifacts
  /\ "verified" \in work.stages => "test-suite" \in work.evidence
  /\ "deployed" \in work.stages => "deployment" \in work.evidence

(* A criterion is deployed only when its files were published whole, or    *)
(* pushed and put into a Pull Request, although publishing removes what an *)
(* earlier one left and is repeated after a cut.                           *)
DeployedIsDelivered ==
  "deployed" \in work.stages =>
    IF delivery = "local-artifacts" THEN output = "whole"
    ELSE remote.pushed /\ remote.pr # "none"

(* No delivery is recorded before the tests and the security scan of the   *)
(* Work are, in whatever order the obligations come up.                    *)
DeliveredIsScanned ==
  "deployment" \in work.evidence => {"test-suite", "security-scan"} \subseteq work.evidence

(* What the wizard's rounds cannot get past by themselves.                 *)
NothingToVerify ==   \* "verify" comes back: the executor is not asked again
  /\ work.state = "construction" /\ "built" \in work.stages
  /\ report # "failed" /\ ~(Changed("source") /\ Changed("tests"))

UnsafeProduct == work.state = "operations" /\ Findings

NotDeployed == "deployed" \notin work.stages

CommitFailed == NotDeployed /\ ChangeSet \in remote.failed

NothingAhead == NotDeployed /\ remote.merged /\ remote.head = ChangeSet

CreationFailed == NotDeployed /\ remote.creation = "failed" /\ remote.pr = "none"

(* A person who keeps confirming gets the Work to completed, through cuts, *)
(* failed verification, failed pushes and edits, unless it stays in one of *)
(* the five states that only a hand outside the wizard changes: among them *)
(* a commit that failed once, and a Pull Request merged before the         *)
(* criterion became deployed.                                              *)
WorkCompletes ==
  \/ <>(work.state = "completed")
  \/ <>[](NothingToVerify \/ UnsafeProduct \/ CommitFailed \/ NothingAhead \/ CreationFailed)

(* "Nothing is inferred when the corresponding files/evidence are absent": *)
(* "built" is recorded only for source that differs from the source the    *)
(* Work started with.                                                      *)
BuiltIsChanged ==
  [][("built" \notin work.stages /\ "built" \in work'.stages)
       => product.source # origin.source]_vars

-----------------------------------------------------------------------------
(* What keeps them true.                                                   *)

(* Where the step is still to come, one of these comes before it.          *)
Preceded(step, by) ==
  \A i \in DOMAIN todo : todo[i] = step => \E j \in 1..(i - 1) : todo[j] \in by

(* What a later step relies on is recorded, or comes before it.            *)
EvidenceComesLater ==
  /\ \A k \in ConstructionKinds : Preceded("designed", {k}) \/ k \in work.artifacts
  /\ Preceded("test-suite", {"test-report"}) \/ "test-report" \in work.artifacts
  /\ Preceded("verified", {"test-suite"}) \/ "test-suite" \in work.evidence
  /\ \/ Preceded("deployment", {"delivery-manifest", "pull-request"})
     \/ "delivery-manifest" \in work.artifacts \/ remote.pr # "none"
  /\ Preceded("deployed", {"deployment"}) \/ "deployment" \in work.evidence
  /\ Preceded("deployment", {}) \/ {"test-suite", "security-scan"} \subseteq work.evidence

(* The delivery is made before it is recorded.                             *)
DeliveryComesFirst ==
  IF delivery = "local-artifacts"
  THEN Preceded("deployed", {"copy"}) \/ output = "whole"
  ELSE /\ Preceded("deployed", {"push"}) \/ remote.pushed
       /\ Preceded("deployed", {"pull-request"}) \/ remote.pr # "none"

(* Steps that undo a delivery, and those that end a stage, only open an    *)
(* action: one of a Work that is not deployed yet, and then delivers it.   *)
OpeningSteps ==
  /\ \A i \in DOMAIN todo :
       todo[i] \in {"publish", "commit", "advance", "transition"} => i = 1
  /\ At("publish") => "deployed" \notin work.stages /\ Preceded("deployed", {"copy"})
  /\ At("commit") => "deployed" \notin work.stages /\ Preceded("deployed", {"push"})
  /\ At("advance") => /\ NextCriterionStage \in {"built", "verified"}
                      /\ "test-suite" \in work.evidence
                      /\ ConstructionKinds \subseteq work.artifacts
  /\ At("transition") => Tail(todo) = <<>>

(* Nothing but an action changes the Work, so a card on the screen shows   *)
(* Core's record as it is.                                                 *)
CardIsCurrent ==
  /\ card # NoCard => todo = <<>> /\ card.decision = Projection
  /\ card # NoCard \/ todo # <<>> => work.state # "completed"

ProgressTypes ==
  /\ work \in Works /\ delivery \in {"pull-request", "local-artifacts"}
  /\ product \in Products /\ report \in {"none", "passed", "failed"}
  /\ todo \in Seq(Steps) /\ output \in {"none", "partial", "whole"}
  /\ remote \in Remotes

ProgressInv ==
  /\ ProgressTypes
  /\ EvidenceIsBacked /\ DeployedIsDelivered /\ DeliveredIsScanned
  /\ EvidenceComesLater /\ DeliveryComesFirst /\ OpeningSteps /\ CardIsCurrent

=============================================================================
