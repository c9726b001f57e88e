# Agora AI SDLC: formal specifications

Agora AI SDLC (`aisdlc`) is a method layer over **Agora Core**. Core, a library
outside this repository, owns the governed records of a piece of *Work*
(sessions, decisions, approvals, criteria, assignments) and starts executor
processes. This repository decides what happens next: it inspects Core, shows a
person a decision card, chooses an agent runtime, launches executors through
Core, counts what they cost and checks that governed state was not damaged.

This directory specifies that deciding and launching in TLA+. Every definition
is read from the Python source; `PROJECT.json` maps each one to its lines. What
belongs to Core is modelled from how the code here relies on it and is marked
external there.

## 1. Inventory

| Component (source under `src/src/agora_ai_sdlc`) | State it keeps | Operations | What makes it correct |
|---|---|---|---|
| Inception launcher (`executor_launch.py`) | Core sessions of the Work; `EVENTS.jsonl` | reuse, resume, start, retry, replace, conclude | one execution at a time; finished work is not repeated; the retry history is true; every attempt has an outcome |
| Construction launcher (`construction_executor.py`) | the same | start, retry a failed, rerun a completed session | as above; a completed session is superseded as often as needed |
| Guided executor (`guided_execution.py`) | the same, execution bundle | refuse at the human boundary, select context, choose a free id, run | ids without collision; mandatory files reach the executor |
| Governed-state guard (`governance_guard.py`) | baseline of validation errors | validate before and after a run | new errors are reported |
| Guided decision, advisor, actions (`guided.py`, `workflow_advisor.py`, `wizard_actions.py`) | none; settings and verification results are read afresh | inspect, advise, execute the action | the action executed is the one on the confirmed card; no lifecycle step over open obligations |
| Interactive session (`guided_session.py`) | held decision, selected, failed and advised runtimes, attempts | inspect, ask, confirm, run, retry, advise, give up | bounded unattended runs; control returns to the person |
| Wizard view and answers (`wizard.py`) | `ANSWERS.json` | ask, answer, show progress | questions come to an end; the bar shows no step whose record is missing |
| Plan, envelope, runner (`runtime_execution.py`, `execution_envelope.py`, `adapter_runner.py`) | one envelope file per Work and stage | plan, write, launch, read back, run | what runs is charged to the right tier, within the budget |
| Runtime pool, selection, policy (`runtime_pool.py`, `runtime_selection.py`, `execution_policy.py`, ...) | configuration, `EVENTS.jsonl` | require, filter, choose the cheapest, count | admissible choice; call budgets hold |
| Skill planner, escalation advisor (`skill_planner.py`, `escalation.py`, ...) | cached plan and metadata, packages, usage | plan, reuse, ask for advice | a reused plan belongs to its inputs; paid calls are accounted |
| OpenCode runner, recovery, discovery (`opencode_runner.py`, `executor_recovery.py`, ...) | child process, two reader threads, a menu | supervise, choose again, download | one true verdict; nothing left running |
| Start flow, preflight (`start_flow.py`, `start_preflight.py`) | branch, worktree, method pack and its lock, actors, swarm, Work, issue | prepare and repair, create or reuse | a failed start can be repeated; a person's edits survive |
| Reconciliation, verification, delivery, operations (`construction_reconciliation.py`, `verification.py`, `local_delivery.py`, `delivery_submission.py`, `local_operations.py`, `brief_flow.py`) | criterion stages, evidence, baseline, published files, pull request | reconcile, verify, publish, submit, deploy | stages rest on evidence and files; the Work can be completed |
| Execution context (`execution_bundle.py`, `execution_context.py`, `context_*.py`) | bundle and lean context files, trace graph | collect, rank, prune, hand over | changed and mandatory inputs survive ranking and budget |
| Execution candidate (`execution_candidate.py`) | frozen subject of a review | freeze, check | an outdated candidate is refused |
| Method records (`bolts.py`, `plans.py`, `adaptive_planning.py`) | plans with revision and approval | edit, approve, start, end | parallel Bolts do not touch; mandatory steps are executed |
| Evidence and review (`ci_evidence.py`, `operational_evidence.py`, `security_findings.py`, `independent_review.py`, `github_delivery.py`, `follow_on_delivery.py`) | facts, findings, decisions, reviews, a ledger | normalize, bind, decide, evaluate | evidence is of the commit it is used for; independence is real |
| Regulated and modernization profiles (`regulated.py`, `modernization.py`) | retention records; documents registered with Core | assign, prepare for signing; gates | duties are segregated; every behaviour is settled by the last report |
| Installer (`installer.py`, `profile_activation.py`) | project files, instruction file | validate, apply | a failed installation leaves the person's text; it can be repeated |
| Enterprise registry (`enterprise.py`) | trust keys, the project's registry snapshot | preview, install, preview and apply an upgrade | what is reported is what was reviewed |
| Decision plane, native adapters, projections, enterprise reviews and controls, starter, command line, texts | none that a governed action depends on | scoring, rendering, reading | section 7 |

Interactions. The interactive session calls inspection and advice, then either
an in-session action or a launcher. A launcher asks the plan builder for a
runtime (which reads the ledger for call budgets and writes the envelope),
lists the Work's sessions, appends an attempt to the ledger and calls Core.
Core writes `SESSION.md` and starts `adapter_runner` **as another process**,
which reads the envelope back, appends an attempt of its own and runs the
adapter. The result is reconciled into criterion stages and evidence in Core,
from which the next decision is projected. Nothing but files connects two
`aisdlc` hosts on the same Work: no lock is taken anywhere.

The hard behaviours follow from that: listings, plans and candidates that are
stale when they are used; two hosts choosing the same or different session ids; a
host that dies between two of many writes, none of which is undone; a run that
raises on one of many exit paths; budgets read in one step and charged in
another; one set of rules written twice and evaluated at two times; two reader
threads that end in either order; observations of an outside provider made by
two calls; and documents approved and then edited. `PROJECT.json` lists each at
its line, with the properties that cover it.

## 2. The modules

Launching:

```
SingleExecution      abstract: one execution at a time, none after a final one
     ^ implemented by
InceptionLaunch  --\
ConstructionLaunch --+-- EXTENDS --> SessionStore
GuidedLaunch     --/
Launchers = ConstructionLaunch + GuidedLaunch, side by side
```

**SessionStore** holds what the launchers share. `sessions` is the sequence of
the Work's `SessionRecord`s in listing order, `ledger` counts the launchers'
events in `EVENTS.jsonl`, `lost` those swallowed by an `OSError`, `issues` are
the validation errors of governed state and `introduced` those an executor run
introduced. Each host has a program counter `pc` and the local variables of its
launch, `job`; `unrecorded` counts the attempts whose host lived and still
recorded no outcome (`Escape`: an exit that raises inside the handler or outside
the `try`). The steps are those between which the file system can be seen by
another host: `RecordAttempt`, `TakeBaseline`, `CoreCreates` (Core refuses an id
that exists), `CoreRuns`, `ExecutorEnds`, `Validate`, `Finish`; `Crash` may
replace any of them. A listing and the choice made from it are one step (the
choice is a function of the listing); using the choice is a later step, so a
stale choice is every interleaving in between. **InceptionLaunch**,
**ConstructionLaunch** and **GuidedLaunch** add the choice of the session and the
conclusion of each launcher, one action per branch of the code.

The person's side:

| Module | Models |
|---|---|
| `WizardRules` | `inspect_next`, `advise_workflow` and `next_in_session_action` as operators: the projected `Decision`, and the two rule lists in their order |
| `WizardNode` | one card: shown, confirmed, executed, with the settings changing in between |
| `GuidedSession` | the loop `run_interactive`; the two places that count attempts share `CheapRetry`, `Advise` and `GiveUp`, as in the code |
| `WizardAnswers` | questions by position, answers read, merged and written by several sessions, a draft that is written anew |
| `WizardView` | the progress bar as a function of what Core reports missing, along the life of a Work |
| `WorkPlans` | the two plan documents of a Work, Bolt plan and pathway plan, edited, approved by revision, and carried out |

One Work and one execution:

| Module | Models |
|---|---|
| `StartPreflight`, `IssueStart` | the preparation of a repository, each repair a set-valued operator on the governed state of a checkout; `prepare_start` over branches, worktrees and a remote, cut before any step, while a person edits and commits |
| `WorkProgress` (over `WizardRules`) | a Work from Inception to completed: a confirmed card becomes a list of steps (`todo`), each of which writes to Core and may be the last before a cut; commits, pushes and Pull Requests that fail |
| `RuntimeSelection`, `PaidPlanning` | requirements, filters and choice as operators; two hosts with a planner cache of two files, an advisor, executors' attempts, and one ledger |
| `RuntimeEnvelope` | a launch from plan to adapter across two processes and several hosts |
| `OpenCodeRunner`, `ExecutorRecovery` | supervisor, child, helper, pipes and threads; the recovery menu around it |
| `ExecutionContext`, `ArtifactContext` | the files and the artifacts an executor is given |
| `ExecutionCandidate` | capture and check of a frozen subject while files and commits change |
| `ProjectInstall` | configuration, steps of `apply`, the managed block |
| `EnterpriseRegistry` | install and upgrade of a signed registry while publishers replace releases and administrators change trust keys |

What others record:

| Module | Models |
|---|---|
| `OutsideEvidence` | two reads of a provider that goes on changing, and the ledger of snapshots; CI and operational facts normalized against the wanted commit and bundled later |
| `IndependentDecisions` | scanner findings, decisions on them, and records rewritten between two calls; review of an artifact revision under separation policies and waivers |
| `RegulatedSwarm` | checks of swarm, actor and audit record one after the other, then Core's preparation |
| `ModernizationGates` | gates over documents registered again and again, with rework; a transition reads the state, reads the documents and moves in three steps, between which others report and move |

`MCHandover`, `MCWizard` and `MCRecords` put modules that share no state into
one run: a variable `part` names the one that moves, the others rest. The other
`MC` modules hold values for TLC.

| Proofs in | About |
|---|---|
| `LaunchersProofs` | the steps all launchers share; the Inception launches and their refinement; `Launchers` |
| `PaidPlanningProofs` | the choice from a runtime pool; `PaidPlanning` |
| `ExecutorRecoveryProofs` | `OpenCodeRunner` under `ExecutorRecovery` |
| `IssueStartProofs` | `StartPreflight` under `IssueStart` |
| `WorkProgressProofs` | `WizardRules` under `WorkProgress` |
| `RecordsProofs` | the six parts of `MCRecords` |
| `WizardProofs` | session, bar, Bolt and Level-N plans of `MCWizard` |
| `HandoverProofs` | the seven parts of `MCHandover`, and the recursions of `ArtifactContext` |

## 3. What is checked

| Run | What it shows |
|---|---|
| `InceptionLaunch` | Two hosts, three launches, crashes anywhere. `OneLiveSession`, `CompletedWorkIsFinal`, `RetryChain`, `TimeoutEscalates`: only the "already running" check and Core's unique ids stand between two hosts and a duplicate executor, and they suffice. `ImplementsSingleExecution`: refinement. |
| `Launchers` | Two hosts on Construction, by either launcher, with a lost ledger write and edits of governed state. `LaunchesAreAccounted`: never two outcomes of an attempt, and none is missing unless its host died or left by an exit that records none: sessions read inside the handler (`construction_executor.py:267`), files read outside the `try` (`:327`), the end of the guided run (`guided_execution.py:657`); Inception has one of its own (`executor_launch.py:557`). `ConstructionHistory`: a retry only follows a failure and a rerun only a completion, even for listings of different age. `GuidedHistory`: without an "already running" check several guided sessions may be live, yet ids have no gap and no collision. |
| `IssueStart` | Starts cut anywhere and repeated, while a person edits and commits at any moment. `EditsStay`: edits a start could see at its check stay on their branch; those made later are carried to the issue's branch at most, since nothing looks again before the switch (`start_flow.py:349-368`). `PreparedOnTheIssueBranch`. `RepeatedStartsSucceed`: repeated starts end with a prepared Inception, whatever earlier ones left, except from the states it names: some need a person, some an earlier start left and none takes up again. |
| `WorkProgress` | `EvidenceIsBacked`: no evidence and no stage without the records it refers to; `DeployedIsDelivered`: what is deployed was published whole or pushed into a Pull Request; `DeliveredIsScanned`: tests and scan are recorded before the delivery. `WorkCompletes`: rounds of confirmed cards complete the Work, unless it stays in one of five states only a hand outside the wizard changes: nothing to verify, open findings, a commit that failed once, a Pull Request merged too early, a Pull Request that could not be created. These are about records: what files hold after the delivery, and what a second scan finds, is not compared. |
| `PaidPlanning` | `PlanFitsItsInput`, except from a save of the two files that was cut or overlapped to the next whole one. `PaidCallsBounded`: attempts exceed the budget of a tier, where one is configured, by at most one per further host, and so do paid calls of planner and advisor once the ledger holds unaccounted usage. It is about what the ledger holds: what the planner spends is never put there (`PaidUsageIsKnown` below). `LedgerBalances`. |
| `ExecutorRecovery` | `SuccessIsClean`, `NoRunLeftBehind`, `RunsWhatWasAsked`, and `ErrorEndsRun`: liveness, after a terminal provider error the run ends. |
| `Wizard` | `SessionsAreBounded`: at most `RetryLimit + 2` unattended runs, advice once and as the last resort, a failed runtime only by choice. `SessionReturns`, `QuestionsEnd`: liveness. `BarIsBacked`. `BoltPlansAreSafe`, `PathwayPlansAreComplete`: for every accepted plan of three Bolts, and under a depth raised while a plan is carried out. |
| `Handover` | `CardsAreKept`: the two rule lists agree when nothing changed, and no lifecycle step over open obligations whatever changed. `RunsArePaidFor`: automatic runs exceed a tier's call budget by at most one per further host and lost write of that tier, and the tier that really ran is charged. `InputsAreHandedOver`, `CandidatesArePresent`: no file of a current candidate was edited or added since; files deleted since, and deleted ones restored as committed, are not seen (`LaterEditsMakeStale` below). `InstallationsAreSound`: a person's text survives unless a marker was deleted or a write cut off, and an installed registry was signed and previewed. |
| `Records` | `ObservationsAreTrue`, `DecisionsAreIndependent`, `RegulatedActionsAreBacked`, `ModernizationIsSettled`: what may be concluded from records that others go on changing. A modernization gate holds for the documents that were read, which may be older than the move; `ModernizationIsSettled` is about those. |

Three runs state what a document or a comment says and find it violated:

| Run | Statement | What the code does |
|---|---|---|
| `ConstructionRerun` | a completed session is "superseded by a fresh run" (`construction_executor.py:214`) | `_matching_sessions` never returns a `-rerun-` session, so the id computed from their number is the same each time and Core refuses the second rerun |
| `BuiltUnchanged` | "project files created or changed since the Work baseline" (`local_delivery.py:94`) | only the brief flow captures a baseline; without one every file counts as changed, and a criterion becomes built by files no run touched |
| `DirtyRetained` | "changed and dirty files are always retained" (`docs/method/agora-flow-wizard.md:260`) | the output of `git status` is stripped before its lines are cut, so the first path loses its first letter |

Other disagreements were met while modelling; the models follow the code.
Where a definition is named, it states what the document says, and TLC finds a
counterexample when it is checked on the instance of the module's run (of one
host for `RetriesReusePlan`).

- `IssueStart!CustomPacksFailClosed`: ambiguous customizations "fail closed instead of
  being overwritten" (`start_preflight.py:4`); a pack whose Developer lacks
  `review.write` (`:392`), or whose Product Owner holds an old capability
  (`start_flow.py:266`), is installed over with force, whatever else the project
  changed in it.
- `PaidPlanning!PaidUsageIsKnown`: "fail closed on additional paid routing when paid
  usage cannot be accounted" (`CHANGELOG.md:51`); the planner records its paid calls
  without any usage (`skill_planner.py:324-356`), a failed advisor leaves a failure
  event only (`escalation.py:254-267`), and the pool closes on neither.
- `ModernizationGates!ForwardMovesAreAssessed`: obligations are evaluated "immediately
  before delegating a forward transition" (`docs/profiles/modernization.md:3`); the gate
  is chosen from a state read earlier, and when another call has moved the Work since,
  Core moves it on although no gate, or another one, was assessed.
- `ExecutionCandidate!LaterEditsMakeStale`: "later edits make this candidate stale"
  (`execution_candidate.py:106`); a snapshot lists the changed paths that are files now
  (`:184`), so a file deleted since, or one restored after it was captured as deleted,
  leaves it current.
- `WizardNode!ApprovalWasConfirmed`: approval "only after the user confirms the
  wizard card" (`wizard_actions.py:171`); a verification result that arrives after a
  *verify* card lets the executor fall through to the approve rule.
- `RuntimeEnvelope`: *exhausted* tiers are removed (`docs/architecture.md:148`), yet
  launcher and runner both write an attempt, so half of the calls exhaust a tier;
  adapters "call `validate_current`" (`docs/architecture.md:175`), yet the runner
  passes no current snapshot (`adapter_runner.py:91`).
- `ExecutionContext!OverflowIsRefused`: context over the limit should "reselect a
  larger-context runtime" (`guided_execution.py:400`); the error is a `ValueError`
  and the block's own handler catches it.
- `SessionStore!RunsAreValidated`: validation "before and after the run"
  (`docs/architecture.md:201`); the code after the `yield` is skipped when Core
  raises for a failed run. `governance_guard.py:30` tells the reader to restore
  files "before continuing"; a completed session that damaged governed state is
  reused without a validation. The guided launcher has no guard at all.
- `PaidPlanning!RetriesReusePlan`: retries are said to reuse the plan (`docs/architecture.md:116`); the
  input digest covers files the first run changes (`skill_planner.py:66`).
- `WizardAnswers!AnswersFitTheirGaps`: an answer removes an ambiguity
  (`docs/method/agora-flow-wizard.md:117`); answers are kept under positions, so a
  changed list of gaps shifts them (`wizard.py:446`).
- `WizardView!TickedDeploymentIsProven`, `WizardView!BarMovesForward`: the bar ticks
  a deployment without its evidence, and may move back.
- Bolt plans: editing the plan invalidates its approval
  (`docs/method/bolts.md:22`); the code compares revision numbers only, and
  `WorkPlans!EditInPlace` changes the text without a new one.
- `OutsideEvidence!LedgerFollowsGitHub`: a GitHub snapshot carries no time, so
  a state that returns is taken for the one already in the ledger
  (`github_delivery.py:209`).
- `OutsideEvidence!GreenRunsCount`: a failed run of the same commit hides a green one
  (`ci_evidence.py:145`).
- Modernization: rework "produces a new
  conversion/equivalence revision before another cutover attempt"
  (`docs/profiles/modernization.md`); no gate asks whether the report is of the
  newest conversion. And a second cutover plan, which rework calls for, makes
  `_one` refuse completion for good.
- `enterprise.py`: `apply_upgrade` "refuses a checksum different from the current
  preview" (`docs/profiles/enterprise.md:33`); when no newer version is published it
  returns before it compares. A comparison that fails after Core's work leaves the
  new snapshot in place, and `install` compares with a preview of its own, not
  with the one a person reviewed.
- `regulated.py`: `assign_actor` assesses all roles, so a swarm in which two roles
  have invalid holders cannot be repaired through it; an action may be prepared
  after the swarm changed between the check and Core's call.
- `runtime_selection.py` authorises only the first candidate's block reason
  (`docs/policies/budgets-and-fallbacks.md`); `system0_decisions.py` drops the
  question a "moderate" change risk should raise; no configured agent claims the
  capability an isolated reviewer requires.
- `tests/test_workflow_advisor.py:435` expects a *prepare* card for a decision
  with missing artifacts and approvals; the executor refuses it
  (`guided_execution.py:319`). `docs/method/agora-flow-wizard.md:184` says the card
  shows "what will run"; a second host's plan replaces the envelope.

Hazards without a property: sessions of the same second are ordered by id
as text (`:306`); a Construction session that was prepared and never launched
collides with every later one (`construction_executor.py:208`); the refreshed
Construction decision is not held against the boundary again
(`guided_execution.py:355`); the recommendation on a card ignores call budgets
(`workflow_advisor.py:366`); packages of two runtimes overwrite each other
(`escalation.py:114`) and usage ids repeat after a restart (`:148`); the planner has
no timeout; a scan's tested commit is not bound to the Work's. They need data or
platform behaviour that the models abstract, or follow from one line.

### Bounds

| Bound | Value | Why it is enough |
|---|---|---|
| `Hosts`, `Callers`, `Sessions` | 2 | the hazards are pairwise: one stale choice against one that proceeded; the theorems of section 5 hold for any number |
| `MaxLaunches` | 3 | a first session, a retry or rerun, and a third that follows or collides |
| `MaxLost`, `MaxMishaps`, `MaxCuts`, `MaxAnswerCuts` | 0 or 1; 2 in `WorkProgress` | one lost write or cut per behaviour, at any step, breaks what it can; a later one meets the same states, save where a failed commit or Pull Request is repeated after a cut |
| `Cases` of `IssueStart` | 10 | one repository and issue per branch of the preparation: empty, foreign, restricted, legacy, broken and edited packs, a remote, a linked worktree, an issue without a title |
| `Requesters` | 1 | one transition that waits between its steps, against others that take all three at once; the theorem holds for any number |
| `MaxActs`, `MaxEdits`, `MaxPlanEdits`, `MaxTouches`, `MaxInterventions`, `MaxRewrites`, `MaxInstallEdits` | 1 to 3 | one act of a person before and one after the step it disturbs; one edit or merge in the life of a Work, at any step |
| `MaxRuns`, `MaxRounds`, `MaxInstallRuns`, `MaxCalls` | 1 to 3 | a first, a repeated and a competing one |
| `Issues` | none or one key | guard and ledger tell only "no new error" from "some" |
| `RunOutputs` | *missing*, *valid*, and *invalid* for Inception | only Inception inspects validity |
| `MaxPlans`, `CallBudget`, `MaxRevisions` | 4, 1 and 2, 1 | four calls can exceed a budget of 1 with its overshoot of 2; one change makes a plan stale |
| `RetryLimit`, `MaxVersions`, `MaxConfirms` | 2, 2, 4 | first, further and last retry; progress twice and none; runtimes fail, are given up, chosen again and fail again |
| `NumBolts`, `Paths` | 3, a directory and its child | a chain with a Bolt beside it, which may overlap by prefix |
| `MaxDepth`, `StepIds` | 2, 4 | a depth below, at and above the pathway's minimum; one step of each class |
| `MaxCommits`, `MaxTicks`, `MaxSnapshots`, `GateCommits` | 2 | before and after a push |
| `Files`, `Limit`, `MaxRelated`, `Nodes` | 4, 6, 2, 3 | more related files than fit; a mandatory file beyond the limit; a path of two traces |
| `MaxDocuments`, `SliceIds` | 2 slices and reports, else 1; 1 | one slice compared twice, before or after a gate was read; a second plan of any kind only refuses |
| `MaxPublications`, `MaxKeyEvents` | 1, 2 | a release replaced once while a key is added and one revoked |
| `Behaviors` | 1 | each is settled on its own; the theorem holds for any number |

Two things are assumed of the person beside a run. The checkout stays on the Work's
branch while the Work is delivered: on another branch `submit_pull_request` refuses
(`delivery_submission.py:209`) and changes nothing. And while a start runs the person edits and
commits what is theirs, but leaves the branch and the governed records of that
checkout alone. Calls that choose a runtime without a Work (`start_flow.py:224`,
`workflow_advisor.py:366`) see no ledger and therefore no budget; they are not among
the calls `PaidPlanning` bounds.

Hosts are interchangeable, so symmetry is used where only safety is checked.
Deadlock is checked in `IssueStart`. Elsewhere behaviours end at the bounds, and
sessions and runs really end; that nobody gets stuck in a run, a
session or a Work is what the liveness properties say.

### Fairness

`RepeatedStartsSucceed` assumes weak
fairness of the running start command; `WorkCompletes` of the rounds of the
wizard, that is of a person who confirms cards, since the Work is theirs to go on
with; mishaps and edits are bounded and not fair. `ErrorEndsRun` assumes that
reader threads, the supervisor and a killed child go on, not that the model
writes anything. `SessionReturns` assumes weak fairness of the session's own code
and of nothing a person does. `QuestionsEnd` assumes that each session asks and
writes, and strong fairness of reading the answers, which competes with the
other session's write.

## 4. The inductive invariants

None of the properties of section 3 is inductive: each is about an outcome, and what
makes it true is what the actors in the middle of their work hold. Each proof
therefore states that, and TLC checks the statement before it is proved.

**Launchers.** `InceptionLaunch!IInv` says why two hosts cannot duplicate an
execution:

- `IdsInOrder`: the i-th session is the base session or `retry-i`. So a stale
  choice carries an id that is **already used**, and Core refuses it.
- `ChoicesAreCurrent`: a host that will start a session has either such an id or a
  still true view of the newest session: superseded, failed if `retryOf` names
  it, and with the extended timeout if any session timed out.
- `OlderAreSuperseded` and `RunnersOwnLatest`: only the newest session can still
  change, and at most one host runs it.
- `TimeoutsAreFailures`, `RetryChain`, `TimeoutEscalates` and `TypeOK`. `TypeOK` alone
  is not inductive: `_retry_id` takes the least free number, and that there is one
  below the length plus two follows from `IdsInOrder`.

`ConstructionLaunch!HistoryInv` has the same parts where ids do not tell the order
(`EachEndedAsTold`, `RetriesNameTheFailed`, `StartsAreCurrent`), and
`GuidedLaunch!GuidedInv` only ids and the choices made from them, because there
nothing keeps two sessions from being live. `LaunchersProofs!Account` counts:
attempts are outcomes, escapes, hosts within a launch and dead hosts, and every session that
ran is covered by an attempt (`RunnersHaveRun`, `IdsAreUnique`); a cardinality
argument per shared step.

**PaidPlanning!PlanningInv.** A host between the pool's answer and its attempt was
admitted within the budget and while usage was accounted for (`AdmittedInBudget`,
`AdmittedWhileAccounted`): no lock is held, so that the number of such hosts is the
overshoot. The two files of a plan agree except during the one save that is going
on (`FilesAgree`), or from a torn save to the next whole one (`Mends`).

**ExecutorRecovery!RecoveryInv.** Every line the child wrote is in a pipe, in the
queue or heard (`LinesKept`); an end marker is the last of its thread (`EndsAreLast`,
`EndedIsEmpty`); an error that was heard is kept (`ErrorIsKept`). From them a clean
verdict means that nothing is left unread. `KeepsToTheWish` carries the person's
choice through menus, discovery and downloads.

**IssueStart!StartInv.** `PreparedSoFar` names for each step of a start what the ones
before it left in the checkout it works in; `InTheirPlaces` and `EditsAside` keep
branches, worktrees and unrelated edits apart; `WorksComeByMerge` is why a branch
taken over from origin holds the Work.

**WorkProgress!ProgressInv.** What is still to be recorded, `todo`, is in an order in
which the evidence comes before the stage that rests on it and the delivery before
`deployed` (`EvidenceComesLater`, `DeliveryComesFirst`), so that a cut after any step
leaves nothing unbacked; `CardIsCurrent` ties the confirmed card to the Work.

**RecordsProofs!RecordsInv.** Per part: a request read with green runs was the
expected commit at one instant (`ReadsAreJoined`); facts are of runs that were
observed (`FactsAreRuns`); records repeat the reported findings and their decisions
were made by entitled roles; a waived review was given a waiver; a call that passed
the assignment check saw segregated duties (`SawSegregation`) and one that audited
still has its record (`KeepsItsRecord`), although the swarm may change at any
moment; a cutover plan names reports that were there before it (`PlansFollowReports`).

**WizardProofs!WizardInv.** Every run since the person's last input but the latest was
followed by a counted failure of the runtime selected now (`RunsAreCounted`), and
advice is given after a runtime's retries only (`AdviceIsCounted`,
`AdviceIsRunWith`). The bar needs only that the gate lists artifacts in the order of
the steps, and that the Intent, whose step comes before the clarification, is
there from the start. An accepted Bolt plan is its own invariant: completed Bolts
are closed under dependencies, so that the ancestors of a Bolt that may run are
completed and whatever runs beside it is unrelated to it.

**HandoverProofs!HandoverInv.** Per part:

- The envelope: hosts that hold a plan run whatever tier the file names when their
  runner reads it, so it is the tier in the file, not the one a host planned,
  whose runs are still to come (`PendingFitsTheBudget`). A plan is given while its
  tier has attempts left, and then all holders may run that tier: the overshoot is
  the number of the others.
- The candidate: what capture built from worktree and head (`CapturedThen`), where
  the commits up to the captured one never change.
- The installation: the instruction file has at most one start marker, before at
  most one end marker, and the person's paragraphs stand outside (`Kept`); a run that
  is at a step has written the parts before it.
- The registry: a key that counted as active was not revoked when the command began
  (`InspectsUnrevoked`), and enough such keys verified its plan (`PlanIsTrusted`).
- The card: it shows the advice of some settings, those of now while none changed;
  what was done is what the executor's rules give. From there the two lists are
  compared rule by rule for every decision.
- The files: what is handed over is what was selected from the bundle, with the
  answers for just its unprotected files.
- The artifacts: what is handed over is the greedy choice from what is near the root.

The last rests on what `ArtifactContext` computes by recursion: `_walk`, round by
round, has a chain of traces for each distance it gives and is closed
(`WalksAreTraces`, `WalkIsClosed`); sorting is by the number of predecessors
(`OrderIs`); the budget is spent item by item (`FittingIsGreedy`); a graph in which no
node reaches itself can be numbered along its traces (`AcyclicIsReadable`). That the
recursive functions and the folds of the community modules satisfy their equations
is not taken for granted: `StepsExist`, `FoldExists` and `FoldsAgree` prove it, each from
the least argument at which it failed, since an induction theorem with an operator
parameter cannot be instantiated by the installed provers.

## 5. What is proved

TLAPS checks the following for **every** value of the constants that satisfies the
named assumptions; the runs show the same on small instances.

| Theorem | Establishes |
|---|---|
| `LaunchersProofs`: `Invariance`, `TypeCorrect`, `OneLiveSessionHolds`, `CompletedWorkIsFinalHolds`, `RetryChainHolds`, `TimeoutEscalatesHolds`, `InceptionIsAccounted` | Inception launches of any number of hosts, launches, crashes and lost writes |
| `Implements` | the refinement of `SingleExecution`: the initial state maps to the abstract one, every step to a `Prepare`, `Run` or `End`, or a stutter |
| `LaunchersInvariance`, `LaunchesAreAccountedHolds`, `ConstructionHistoryHolds`, `GuidedHistoryHolds` | Construction by either launcher |
| `PaidPlanningProofs`: `SelectionIsCheapest` | what `select_from_runtime_pool` gives is permitted, unblocked and the cheapest, and when it gives nothing |
| `PlanningInvariance`, `PlanFits`, `PlanningLedgerBalances`, `PaidCallsAreBounded` | any pool, budgets, hosts, rounds and edits; n hosts overshoot by at most n - 1 |
| `ExecutorRecoveryProofs`: `RecoveryInvariance`, `SuccessIsAlwaysClean`, `ChildrenAreEnded`, `TheWishIsRun` | any output of the child, models and tools that come and go |
| `IssueStartProofs`: `StartInvariance`, `EditsAlwaysStay`, `PreparedThere` | any edits at any time, cuts and repetitions; the second an action property |
| `WorkProgressProofs`: `ProgressInvariance`, `EvidenceIsAlwaysBacked`, `DeployedWasDelivered`, `DeliveredWasScanned` | any cuts, failures, edits and executor runs; records, not what files hold |
| `RecordsProofs`: `RecordsInvariance`, `ObservationsStayTrue`, `DecisionsStayIndependent`, `RegulatedActionsStayBacked`, `RegulatedActionsHold`, `ModernizationStaysSettled` | any commits, findings, revisions, callers, documents, slices and behaviours; the last an action property |
| `WizardProofs`: `WizardInvariance`, `SessionsStayBounded`, `BarStaysBacked`, `BoltPlansStaySafe`, `PathwayPlansStayComplete` | any retry limit, runtimes, Bolts, paths, steps and depths |
| `HandoverProofs`: `HandoverInvariance`, `RunsArePaidForAlways`, `CardsAreKeptAlways`, `CandidatesArePresentAlways`, `InputsAreHandedOverAlways`, `InstallationsAreSoundAlways` | any hosts, tiers and budgets, decisions, files and commits, artifact graphs and queries, configurations and edits, keys and releases |

Every invariant, every action property and the refinement that a passing run checks
is stated by one of these theorems.

Assumptions. All are named in the module that declares the constant, and TLC
evaluates them on each run. Most say that a bound is a number and a set of hosts
finite. Those with content:

- `PaidPlanning!PoolAssumption`: candidates have one of the configured tiers, and
  a budget, which any tier may be without, is a number (`runtime_pool.py:278`);
  `TiersAssumption`: executors run in some of these tiers;
- `IssueStart!WorksAssumption`: a Work is created on the branch of its issue and
  reaches the base branch by a merge, so that origin's branch, where there is one,
  holds the Works the base has. Without it a start that takes over origin's branch
  could end without the Work it found on base;
- `OpenCodeRunner!ModelsAssumption`: "no model" is none of the models;
- `ProjectInstall!InstallAssumption`: a person's paragraph is not one of the marker or
  block lines, so that text and markers can be told apart; no runtime is "human";
- `ArtifactContext!GraphAssumption`: finitely many artifacts, compared by their ids, and
  a missing one is none of them;
- `WorkPlans!PathwayAssumption`: what `load_policy_set` and `load_pathway` refuse is
  excluded; `RegulatedSwarm!EvidenceAssumption`: "none" is no evidence id.

Properties that are weaker than their names say what they except in their
formula: `LaunchesAreAccounted` the exits that record nothing, `EditsStay` later
edits, `PlanFitsItsInput` torn files, `CandidatesArePresent` files deleted since,
`InstallationsAreSound` deleted markers and cut writes.

What the proofs brought to light:

- `WhatIsPerformed`: the action *mark-deployed* of `next_in_session_action` is
  never performed with either delivery target, since the rules before it
  cover its guard.
- With two or more behaviours a report of a slice that does not have a behaviour may
  still mention it. `_latest_for_slice` decides by the slice, and so does
  `LastWord`: such a report does not count for the behaviour. A reference that
  took the last report that mentions it is not what the gates promise.
- `RuntimeEnvelope!BudgetOvershootBounded` allowed each tier `MaxLost` runs beyond its
  budget. The inductive invariant counts the lost writes of that tier only, and the
  property now says so.
- `ArtifactContext!InOrder` was TLC's sort, whose definition is not open to a proof; it
  is now the enumeration of the items in which each precedes the later ones.
- `WorkPlans!NothingOwed` was stated with `UNION A \union B`, which tools read
  differently; it is parenthesised now.

Only model-checked:

- liveness (`RepeatedStartsSucceed`, `WorkCompletes`, `ErrorEndsRun`,
  `SessionReturns`, `QuestionsEnd`): fairness and `ENABLED` are out of the prover's
  reach;
- the statements of documents that the three violating runs refute.

Where a definition could do without recursion it does: dependencies of Bolts are the
least set closed under `dependsOn`, and the first missing artifact of a gate is a
`CHOOSE` of the least place.

## 6. Plan

Done: the launchers and their refinement, the wizard's rules, session, view and
answers, starts, the life of a Work, paid planning, the OpenCode runner and its
recovery, context selection, the enterprise registry, the records of section 2, and
the theorems above.

Next, in this order:

1. `GuidedStep`: the wizard node composed with the guided launcher, where the
   Construction decision is refreshed after the boundary check.
2. The base-diff kind of an execution candidate; draft and closed requests.
3. Change and risk records (`change_management.py`, `risk_issue_management.py`) once
   they change a gate; today they are validated forms.
4. Abstract specifications beside `SingleExecution`: a budget as a counter with
   bounded overshoot, refined by `RuntimeEnvelope`; a cache as a function of
   its inputs, refined by `PaidPlanning`.

## 7. Not modelled

`PROJECT.json` lists every component. Left out for good:

- native adapters render command lines, and the launch models take every outcome
  of a run as an input;
- the decision plane gives advisory scores no governed action depends on; where
  a score selects context it is a nondeterministic input;
- status projections, observation pages and diagnostics only read;
- the enterprise profile's reviews and controls and the compatibility tables are
  evaluated over Core records in one step, without state of their own;
- the starter repeats the installer's steps on a packaged project;
- the command line, texts and rendering.

Within the modelled components the wording of prompts and errors, digests and
timestamps are abstracted. A launch's error after an exception depends on wording
and readable diagnostics, so the model allows each of the outcomes. The failure
classifiers (`llm_failures.py`, `verification_triage.py`) and the extraction of a
draft from the issue text are inputs. Core itself is external: it keeps what is
recorded, refuses ids that exist and transitions whose gate is not met.

## 8. Running

```
tlc -workers 2 -config InceptionLaunch.cfg InceptionLaunch
tlapm LaunchersProofs.tla
```

Each run of `PROJECT.json` names its module and configuration. The largest take
about three minutes with two workers. `mutants` names for each property of a
passing run a plausible bug, defined next to the definition it replaces, that the
property catches.
