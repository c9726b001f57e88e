------------------------------ MODULE IssueStart ------------------------------
(***************************************************************************)
(* prepare_start: one person starts one issue again and again, in one Git  *)
(* repository, until its Inception is prepared.  A start works in the main *)
(* checkout, or in a linked worktree when unrelated work is in the way,    *)
(* prepares the governed state there (StartPreflight), creates or reuses   *)
(* the Work and its branch, reads the issue through Core, and materializes *)
(* the Inception or launches its executor.                                 *)
(*                                                                         *)
(* The governed state is versioned with the branch: switching branches     *)
(* replaces it.  A step is one durable change, or several that a later     *)
(* start completes one by one, and a start may be cut before any step, by  *)
(* a crash or by a call that fails.  The person works on in the repository *)
(* while a start runs.                                                     *)
(***************************************************************************)
EXTENDS StartPreflight, SequencesExt, TLC

Parts == {"title", "acceptance", "requirements"}

CONSTANTS
  Absent,     \* no such branch, no worktree
  Cases,      \* repositories and issues a start may meet
  MaxCuts,    \* bound: starts that are cut or whose outside calls fail
  MaxActs     \* bound: acts of the person

(* What base holds, what origin's issue branch holds, what is in the place *)
(* of the worktree, and which parts the issue has.                         *)
ASSUME CasesAssumption ==
  Cases \subseteq [base : Governed, remote : Governed \cup {Absent},
                  linked : {"foreign", Absent}, issue : [Parts -> BOOLEAN]]
(* A Work is created on the branch of its issue and comes to base when     *)
(* that is merged, so what base has, origin's branch has if it is there.   *)
ASSUME WorksAssumption ==
  /\ Absent \notin Governed \cup {"issue", "foreign"}
  /\ \A c \in Cases : c.remote # Absent => c.base.work \subseteq c.remote.work
ASSUME BoundsAssumption == MaxCuts \in Nat /\ MaxActs \in Nat

VARIABLES
  tip,      \* governed state committed on each branch; "remote" is origin's
  branch,   \* branch checked out in each checkout
  gov,      \* governed state in each checkout
  edits,    \* the main checkout holds unrelated edits
  late,     \* they were made after the running or last start had looked
  pc,       \* step of the running start
  root,     \* checkout the start works in
  swarm,    \* swarm the start resolved
  repaired, \* the start repaired front matter of a pack
  gap,      \* the start found a material gap
  issue,    \* what the issue says: has it a title, criteria, requirements
  outcome,  \* how the last start ended
  cuts, acts

repo    == <<tip, branch, gov, edits, late>>
running == <<root, swarm, repaired, gap, issue>>
vars    == <<repo, pc, running, outcome, cuts, acts>>

Materialization == <<"requirements", "unit", "registerIntent", "registerRequirements",
                     "registerUnit", "elaborate", "clarify">>

Steps == {"idle", "owner", "developer", "work", "switchToCreate",
          "switchToRead", "create", "read", "launch",
          "reading", "intent", "draft", "triage", "handoff", "execute", "done"}
           \cup Range(Preparation) \cup Range(Materialization)

Branches == {"base", "issue", "remote"}

TypeOK ==
  /\ tip \in [Branches -> Governed \cup {Absent}]
  /\ branch \in [main : {"base", "issue"}, linked : {"issue", "foreign", Absent}]
  /\ gov \in [{"main", "linked"} -> Governed \cup {Absent}]
  /\ edits \in BOOLEAN /\ late \in BOOLEAN
  /\ pc \in Steps
  /\ root \in {"main", "linked"} /\ swarm \in Swarms /\ repaired \in BOOLEAN
  /\ gap \in BOOLEAN /\ issue \in [Parts -> BOOLEAN]
  /\ outcome \in {"none", "prepared", "refused", "cut"}
  /\ cuts \in 0 .. MaxCuts /\ acts \in 0 .. MaxActs

Init ==
  \E c \in Cases :
    /\ tip = [base |-> c.base, issue |-> Absent, remote |-> c.remote]
    /\ branch = [main |-> "base", linked |-> c.linked]
    /\ gov = [main |-> c.base, linked |-> Absent]
    /\ edits = FALSE /\ late = FALSE
    /\ pc = "idle" /\ root = "main" /\ swarm = "delivery"
    /\ repaired = FALSE /\ gap = FALSE /\ issue = c.issue
    /\ outcome = "none" /\ cuts = 0 /\ acts = 0

-----------------------------------------------------------------------------
Here == gov[root]

Dirty(r) == gov[r] # tip[branch[r]] \/ (r = "main" /\ edits)

Goto(step)   == pc' = step /\ UNCHANGED <<outcome, cuts, acts>>
End(how)     == pc' = "idle" /\ outcome' = how /\ UNCHANGED <<cuts, acts>>
Refuse       == End("refused") /\ UNCHANGED <<repo, running>>
Write(states) == \E g \in states : gov' = [gov EXCEPT ![root] = g]
Keep         == UNCHANGED <<tip, branch, edits, late, running>>

(* isolate_dirty_work: unrelated work in the main checkout is left where it*)
(* is, and the issue gets a worktree.                                      *)

(* Mutant: the start always takes the checkout it was called in. *)
NeverIsolates == FALSE

NeedsIsolation == Dirty("main") /\ branch.main # "issue"

AddWorktree ==
  LET from == CHOOSE b \in Branches :
                \/ b = "issue" /\ tip["issue"] # Absent
                \/ b = "remote" /\ tip["issue"] = Absent /\ tip["remote"] # Absent
                \/ b = "base" /\ tip["issue"] = Absent /\ tip["remote"] = Absent
  IN  /\ tip' = [tip EXCEPT !["issue"] = tip[from]]
      /\ branch' = [branch EXCEPT !.linked = "issue"]
      /\ gov' = [gov EXCEPT !["linked"] = tip[from]]
      /\ UNCHANGED edits

Start ==
  /\ pc = "idle"
  /\ late' = FALSE
  /\ \/ /\ ~NeedsIsolation
        /\ root' = "main"
        /\ UNCHANGED <<tip, branch, gov, edits>>
     \/ /\ NeedsIsolation /\ branch.linked = "issue"
        /\ root' = "linked"
        /\ UNCHANGED <<tip, branch, gov, edits>>
     \/ /\ NeedsIsolation /\ branch.linked = Absent
        /\ root' = "linked"
        /\ AddWorktree
  /\ pc' = Head(Preparation) /\ outcome' = "none"
  /\ UNCHANGED <<swarm, repaired, gap, issue, cuts, acts>>

StartRefused ==
  /\ pc = "idle" /\ NeedsIsolation /\ branch.linked = "foreign"
  /\ Refuse

-----------------------------------------------------------------------------
(* ensure_start_ready, one step at a time.                                 *)
Following(step) == LET i == CHOOSE i \in DOMAIN Preparation : Preparation[i] = step
                   IN  Preparation[i + 1]

Prepare ==
  /\ pc \in Range(Preparation) \ {"refresh", "swarm"}
  /\ Write(Prepared(pc, Here))
  /\ repaired' = IF pc = "frontmatter" THEN RepairsFrontMatter(Here) ELSE repaired
  /\ Goto(Following(pc))
  /\ UNCHANGED <<tip, branch, edits, late, root, swarm, gap, issue>>

RefreshLock ==
  /\ pc = "refresh"
  /\ IF repaired THEN Write(LockRefreshed(Here)) ELSE UNCHANGED gov
  /\ Goto(Following(pc))
  /\ Keep

ResolveSwarm ==
  /\ pc = "swarm"
  /\ Write(SwarmResolved(Here))
  /\ swarm' = ResolvedSwarm(Here)
  /\ Goto(IF EnsuresSwarm(Here) THEN "owner" ELSE "work")
  /\ UNCHANGED <<tip, branch, edits, late, root, repaired, gap, issue>>

PreparationRefused ==
  /\ pc \in Range(Preparation) /\ Prepared(pc, Here) = {}
  /\ Refuse

AssignOwner ==
  /\ pc = "owner"
  /\ Write(OwnerAssigned(Here, swarm))
  /\ Goto("developer") /\ Keep

AssignDeveloper ==
  /\ pc = "developer"
  /\ Write(DeveloperAssigned(Here, swarm))
  /\ Goto("work") /\ Keep

-----------------------------------------------------------------------------
(* _ensure_issue_work.  Git refuses a branch that another checkout holds,  *)
(* and the code looks for uncommitted changes before it leaves a branch for*)
(* one that exists: the switch is a step after that.                       *)
CanSwitch == ~Dirty(root) /\ ~(root = "main" /\ branch.linked = "issue")

OnIssueBranch == branch[root] = "issue"

HasWork == swarm \in Here.work

Enter(step, switch) ==
  /\ UNCHANGED <<repo, running>>
  /\ \/ OnIssueBranch /\ Goto(step)
     \/ ~OnIssueBranch /\ tip["issue"] # Absent /\ CanSwitch /\ Goto(switch)

UseWork == pc = "work" /\ HasWork /\ Enter("read", "switchToRead")

(* Mutant: a branch of the issue is taken to have its Work. *)
TrustBranch ==
  pc = "work" /\ ~HasWork /\ tip["issue"] # Absent /\ Enter("read", "switchToRead")

(* The Work was looked up in the governed state of the branch left here.   *)
UseBranch ==
  pc = "work" /\ ~HasWork /\ tip["issue"] # Absent /\ Enter("create", "switchToCreate")

(* git switch keeps the edits that were made in between.                   *)
Checkout ==
  /\ pc \in {"switchToRead", "switchToCreate"}
  /\ branch' = [branch EXCEPT ![root] = "issue"]
  /\ gov' = [gov EXCEPT ![root] = tip["issue"]]
  /\ Goto(IF pc = "switchToRead" THEN "read" ELSE "create")
  /\ UNCHANGED <<tip, edits, late, running>>

(* The branch is made from origin's or from base, on which the start is;   *)
(* so the code does not look for changes again, and git switch -c carries  *)
(* them; it refuses to overwrite those that origin's branch has otherwise. *)
From == IF tip["remote"] # Absent THEN "remote" ELSE "base"

Switchable == tip[From] = tip["base"] \/ Here = tip["base"]

NewBranch ==
  /\ pc = "work" /\ ~HasWork /\ tip["issue"] = Absent /\ Switchable
  /\ tip' = [tip EXCEPT !["issue"] = tip[From]]
  /\ gov' = [gov EXCEPT ![root] = IF tip[From] = tip["base"] THEN @ ELSE tip[From]]
  /\ branch' = [branch EXCEPT ![root] = "issue"]
  /\ Goto("create")
  /\ UNCHANGED <<edits, late, running>>

BranchRefused ==
  /\ pc = "work"
  /\ \/ ~OnIssueBranch /\ (HasWork \/ tip["issue"] # Absent) /\ ~CanSwitch
     \/ ~OnIssueBranch /\ HasWork /\ tip["issue"] = Absent
     \/ ~HasWork /\ tip["issue"] = Absent /\ tip[From] # tip["base"] /\ Dirty(root)
  /\ Refuse

(* Core creates a Work only in a swarm that exists, and only once.         *)
CanCreate == Here.swarm[swarm].status = "ready" /\ ~HasWork

CreateWork ==
  /\ pc = "create" /\ CanCreate
  /\ Write({[Here EXCEPT !.work = @ \cup {swarm}]})
  /\ Goto("read") /\ Keep

CreateRefused == pc = "create" /\ ~CanCreate /\ Refuse

-----------------------------------------------------------------------------
(* The governed read of the issue: a run that exists is used when it is    *)
(* completed and never repeated.                                           *)
ReuseRead ==
  /\ pc = "read" /\ Here.read = "completed"
  /\ Goto("intent") /\ UNCHANGED <<repo, running>>

ReadRefused ==
  /\ pc = "read" /\ Here.read \in {"launched", "failed"}
  /\ Refuse

EnableRead ==
  /\ pc = "read" /\ Here.read = "none"
  /\ Write({[(IF Here.method = "legacy" THEN Installed(Here) ELSE Here)
               EXCEPT !.issues = IF @ = "none" THEN "working" ELSE @]})
  /\ Goto("launch") /\ Keep

(* Core lets the assigned Product Owner run the adapter.                   *)
CanRead == Here.swarm[swarm].owner /\ Here.issues = "working"

LaunchRead ==
  /\ pc = "launch" /\ CanRead
  /\ Write({[Here EXCEPT !.read = "launched"]})
  /\ Goto("reading") /\ Keep

LaunchRefused == pc = "launch" /\ ~CanRead /\ Refuse

FinishRead ==
  /\ pc = "reading"
  /\ Write({[Here EXCEPT !.read = "completed"]})
  /\ Goto("intent") /\ Keep

FailRead ==
  /\ pc = "reading" /\ cuts < MaxCuts
  /\ Write({[Here EXCEPT !.read = "failed"]})
  /\ pc' = "idle" /\ outcome' = "refused" /\ cuts' = cuts + 1
  /\ UNCHANGED acts /\ Keep

-----------------------------------------------------------------------------
(* A read without a title ends the start; the read itself is kept.         *)
CreateIntent ==
  /\ pc = "intent" /\ issue.title
  /\ Write({[Here EXCEPT !.intent = TRUE]})
  /\ Goto("draft") /\ Keep

IntentRefused == pc = "intent" /\ ~issue.title /\ Refuse

(* The objective falls back to the title, so only missing criteria are a   *)
(* gap of an issue that has one.                                           *)
SemanticGap == ~(issue.title /\ (issue.acceptance \/ issue.requirements))

BuildDraft ==
  /\ pc = "draft"
  /\ Write({[Here EXCEPT !.draft = TRUE]})
  /\ Goto("triage") /\ Keep

(* Laya may find that a gap is not material; when it is unsure or not there*)
(* the gap stays.                                                          *)
Triage ==
  /\ pc = "triage"
  /\ \E material \in BOOLEAN :
       /\ material => SemanticGap
       /\ gap' = material
  /\ Goto("handoff")
  /\ UNCHANGED <<repo, root, swarm, repaired, issue>>

(* A start may be asked to prepare only.                                   *)
HandOff ==
  /\ pc = "handoff"
  /\ Write({[Here EXCEPT !.handoff = TRUE]})
  /\ \E next \in {IF gap THEN "execute" ELSE Head(Materialization), "done"} : Goto(next)
  /\ Keep

MaterializationRefused ==
  /\ pc = "requirements" /\ ~Here.swarm[swarm].developer
  /\ Refuse

Artifact(step) ==
  CASE step = "registerIntent"                        -> "intent"
    [] step \in {"requirements", "registerRequirements"} -> "requirements"
    [] step \in {"unit", "registerUnit"}              -> "unit-of-work"

Materialized(step, g) ==
  CASE step \in {"requirements", "unit"} ->
         IF Artifact(step) \in g.artifacts THEN g
         ELSE [g EXCEPT !.written = @ \cup {Artifact(step)}]
    [] step = "elaborate" -> [g EXCEPT !.elaborated = TRUE]
    [] step = "clarify"   -> [g EXCEPT !.clarified = TRUE]
    [] OTHER              -> [g EXCEPT !.artifacts = @ \cup {Artifact(step)}]

Materialize ==
  /\ pc \in Range(Materialization) /\ Here.swarm[swarm].developer
  /\ Write({Materialized(pc, Here)})
  /\ Goto(IF pc = Last(Materialization) THEN "done"
          ELSE Materialization[(CHOOSE i \in DOMAIN Materialization :
                                  Materialization[i] = pc) + 1])
  /\ Keep

(* The Inception launcher succeeds; its failure ends the start.            *)
Execute == pc = "execute" /\ Goto("done") /\ UNCHANGED <<repo, running>>

Finish == pc = "done" /\ End("prepared") /\ UNCHANGED <<repo, running>>

(* A crash, an interruption, or a call of Git, Core or the executor that   *)
(* raises: what was written stays.                                         *)
Cut ==
  /\ pc # "idle" /\ cuts < MaxCuts
  /\ pc' = "idle" /\ outcome' = "cut" /\ cuts' = cuts + 1
  /\ UNCHANGED <<repo, running, acts>>

-----------------------------------------------------------------------------
(* The person edits and commits at any time, also while a start runs; only *)
(* the branch and the governed state of the checkout it works in are left  *)
(* to it meanwhile.                                                        *)
Act(r) == acts < MaxActs /\ gov[r] # Absent /\ acts' = acts + 1
          /\ UNCHANGED <<pc, running, outcome, cuts>>

Free(r) == pc = "idle" \/ root # r

Edit ==
  /\ Act("main") /\ ~edits
  /\ edits' = TRUE /\ late' = (pc # "idle")
  /\ UNCHANGED <<tip, branch, gov>>

Commit(r) ==
  /\ Act(r) /\ Dirty(r)
  /\ tip' = [tip EXCEPT ![branch[r]] = gov[r]]
  /\ edits' = (edits /\ r # "main")
  /\ UNCHANGED <<branch, gov, late>>

Switch(b) ==
  /\ Act("main") /\ b # branch.main /\ tip[b] # Absent /\ ~Dirty("main")
  /\ Free("main") /\ b # branch.linked
  /\ branch' = [branch EXCEPT !.main = b]
  /\ gov' = [gov EXCEPT !["main"] = tip[b]]
  /\ UNCHANGED <<tip, edits, late>>

Format(r) ==
  /\ Act(r) /\ Free(r) /\ gov[r].method \in {"packaged", "canonical"}
  /\ \E content \in {"wrapped", "reformatted"} :
       gov' = [gov EXCEPT ![r].method = content]
  /\ UNCHANGED <<tip, branch, edits, late>>

CloseSwarm(r) ==
  /\ Act(r) /\ Free(r) /\ gov[r].swarm["delivery"].status = "ready"
  /\ gov' = [gov EXCEPT ![r].swarm["delivery"].status = "terminal"]
  /\ UNCHANGED <<tip, branch, edits, late>>

(* The issue branch is merged into base, elsewhere, and pulled.            *)
Merge ==
  /\ Act("main") /\ branch.main = "base" /\ ~Dirty("main") /\ Free("main")
  /\ tip["issue"] \notin {Absent, tip["base"]}
  /\ tip' = [tip EXCEPT !["base"] = tip["issue"]]
  /\ gov' = [gov EXCEPT !["main"] = tip["issue"]]
  /\ UNCHANGED <<branch, edits, late>>

Person ==
  \/ Edit \/ Merge
  \/ \E b \in {"base", "issue"} : Switch(b)
  \/ \E r \in {"main", "linked"} : Commit(r) \/ Format(r) \/ CloseSwarm(r)

Command ==
  \/ Start \/ StartRefused
  \/ Prepare \/ RefreshLock \/ ResolveSwarm \/ PreparationRefused
  \/ AssignOwner \/ AssignDeveloper
  \/ UseWork \/ UseBranch \/ Checkout \/ NewBranch \/ BranchRefused
  \/ CreateWork \/ CreateRefused
  \/ ReuseRead \/ ReadRefused \/ EnableRead \/ LaunchRead \/ LaunchRefused
  \/ FinishRead \/ CreateIntent \/ IntentRefused
  \/ BuildDraft \/ Triage \/ HandOff
  \/ MaterializationRefused \/ Materialize \/ Execute \/ Finish

Next == Command \/ FailRead \/ Cut \/ Person

-----------------------------------------------------------------------------
(* What a start leaves behind.                                             *)

(* Unrelated edits the main checkout holds when a start looks at it stay   *)
(* on their branch, whatever starts, cuts and worktrees come in between.   *)
(* Those made later, while the start runs, are carried at most to the      *)
(* branch of the issue: nothing looks for them again where a branch is     *)
(* created (start_flow.py 349-368).                                        *)
EditsCarried == edits /\ branch'.main # branch.main => late /\ branch'.main = "issue"

EditsStay == [][EditsCarried]_vars

(* A start that ends as prepared ends on the branch of the issue, with the *)
(* Work of its swarm, the completed read, the Intent and the hand-off in   *)
(* the governed state of that branch, not of one left on the way.          *)
PreparedOnTheIssueBranch ==
  pc = "done" =>
    /\ branch[root] = "issue"
    /\ swarm \in Here.work /\ Here.read = "completed"
    /\ Here.intent /\ Here.draft /\ Here.handoff

(* "Ambiguous user customizations fail closed instead of being             *)
(* overwritten": no step of a start replaces a customized Method Pack.     *)
CustomPacksFailClosed ==
  [][Command =>
       \A r \in {"main", "linked"} :
         gov[r] # Absent /\ branch'[r] = branch[r] /\ gov[r].method \in Custom
           => gov'[r].method = gov[r].method]_vars

(* States in which no repetition of the start helps: a person is needed... *)
Used == IF NeedsIsolation THEN "linked" ELSE "main"

NeedsPerson ==
  \/ ~issue.title
  \/ NeedsIsolation /\ branch.linked = "foreign"
  \/ /\ gov[Used] # Absent
     /\ \/ gov[Used].flavor = "other" \/ gov[Used].method = "broken"
        \/ gov[Used].skill = "edited" \/ gov[Used].issues = "edited"

(* ... or what an earlier start, cut or not, left is not taken up again:   *)
(* a read of the issue without a result, a swarm without its actors, and a *)
(* worktree that holds the branch while the main checkout is clean.        *)
LeftBehind ==
  \/ gov[Used] # Absent /\ gov[Used].read \in {"launched", "failed"}
  \/ /\ gov[Used] # Absent /\ gov[Used].swarm["delivery"].status = "ready"
     /\ ~(gov[Used].swarm["delivery"].owner /\ gov[Used].swarm["delivery"].developer)
  \/ ~NeedsIsolation /\ branch.main = "base" /\ branch.linked = "issue"

(* Starts that are repeated end with a prepared Inception, unless one of   *)
(* these states is reached.                                                *)
RepeatedStartsSucceed == []<>(outcome = "prepared" \/ NeedsPerson \/ LeftBehind)

(* The person repeats the command as long as nothing was prepared.         *)
Spec == Init /\ [][Next]_vars /\ WF_vars(Command)

-----------------------------------------------------------------------------
(* What keeps them true.                                                   *)

(* The branch of the issue is in one checkout, and a start that works in a *)
(* worktree works on it.                                                   *)
InTheirPlaces ==
  /\ gov["main"] \in Governed /\ tip["base"] \in Governed
  /\ IF branch.linked = "issue" THEN gov["linked"] \in Governed ELSE gov["linked"] = Absent
  /\ "issue" \in {branch.main, branch.linked} => tip["issue"] # Absent
  /\ ~(branch.main = "issue" /\ branch.linked = "issue")
  /\ pc # "idle" /\ root = "linked" => branch.linked = "issue"
  /\ pc \in {"switchToRead", "switchToCreate"} =>
       root = "main" /\ branch.main = "base" /\ branch.linked # "issue"
         /\ tip["issue"] # Absent

(* A start does not work over edits it could see, but on the issue's       *)
(* branch.                                                                 *)
EditsAside ==
  pc # "idle" /\ root = "main" => ~edits \/ late \/ branch.main = "issue"

(* A Work reaches base by the merge of the issue's branch only: the Work   *)
(* that is found on base is on the issue's branch as well.                 *)
WorksComeByMerge ==
  /\ tip["issue"] # Absent => tip["base"].work \subseteq tip["issue"].work
  /\ tip["issue"] = Absent /\ tip["remote"] # Absent =>
       tip["base"].work \subseteq tip["remote"].work
  /\ \A r \in {"main", "linked"} :
       branch[r] = "issue" => tip["issue"].work \subseteq gov[r].work
  /\ branch.main = "base" => gov["main"].work = tip["base"].work

(* What the start has done so far, step by step.                           *)
Onward(steps) ==
  Range(Materialization) \cup {"execute", "done"} \cup steps

PreparedSoFar ==
  /\ pc \in Onward({"create", "read", "launch", "reading", "intent", "draft", "triage", "handoff"})
       => branch[root] = "issue"
  /\ pc \in Onward({"switchToRead", "read", "launch", "reading", "intent", "draft", "triage",
                    "handoff"}) => swarm \in Here.work
  /\ pc \in Onward({"intent", "draft", "triage", "handoff"}) => Here.read = "completed"
  /\ pc \in Onward({"draft", "triage", "handoff"}) => Here.intent
  /\ pc \in Onward({"triage", "handoff"}) => Here.draft
  /\ pc \in Onward({}) => Here.handoff

StartInv == TypeOK /\ InTheirPlaces /\ EditsAside /\ WorksComeByMerge /\ PreparedSoFar

=============================================================================
