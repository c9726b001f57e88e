--------------------------- MODULE OutsideEvidence ---------------------------
(* What providers report of a Work, as it is kept and handed to Core: the    *)
(* snapshots of its pull request, and the runs and observations its gates    *)
(* ask for.  They share no state.                                            *)
EXTENDS Naturals, Sequences, FiniteSets

------------------------------------------------------------------------------
(* Observations of a pull request and its check run, and the ledger they are *)
(* appended to (github_delivery.py, follow_on_delivery.py).  The provider    *)
(* goes on changing while it is read: the pull request and the run are read  *)
(* by two calls, at two moments, in either order.  Reading is external.      *)
(* Closed and draft requests, which only add a blocker, are left out.        *)

CONSTANTS
    MaxCommits,    \* bound: commits pushed to the branch
    MaxTicks,      \* bound: distinct observation times
    MaxSnapshots   \* bound: length of the ledger

VARIABLES
    provider,   \* "github" or "gitlab"
    expected,   \* the commit the caller asks about
    forge,      \* the pull request and the run of each commit, as they are
    prRead, runRead,   \* what the two calls returned; Nothing before
    ledger,     \* the snapshots, oldest first
    behind,     \* the last observation is not what the ledger ends with
    tick,       \* the time an observation is stamped with
    genuine     \* the expected commit was head, approved and green at one instant

snapshotVars == <<provider, expected, forge, prRead, runRead, ledger, behind, tick, genuine>>

Nothing == [kind |-> "nothing"]
Commits == 1 .. MaxCommits
RunStates == {"none", "success", "failure"}   \* a pending run blocks like a failed one

\* The check rollup of a pull request lists the runs of its head.
PullRequest(f) ==
    [kind |-> "pr", head |-> f.head, approved |-> f.approved,
     rollup |-> IF f.runs[f.head] = "none" THEN {} ELSE {<<f.head, f.runs[f.head]>>}]
Run(f, c) == [kind |-> "run", commit |-> c, status |-> f.runs[c]]

-----------------------------------------------------------------------------
UnboundAllowed(pr, run) == {}
RollupBlockers(pr, run) ==
    LET matching == {item \in pr.rollup : item[1] = run.commit}
    IN  IF matching = {} THEN {"unbound"}
        ELSE IF \E item \in matching : item[2] # "success" THEN {"unsuccessful"} ELSE {}

\* GitLab names one head pipeline and does not repeat its status.
HeadPipelineBlockers(pr, run) ==
    IF \E item \in pr.rollup : item[1] = run.commit THEN {} ELSE {"unbound"}

Blockers(pr, run) ==
    (IF run.commit # expected THEN {"stale"} ELSE {})
    \union (IF provider = "github" THEN RollupBlockers(pr, run)
            ELSE HeadPipelineBlockers(pr, run))
    \union (IF run.status # "success" THEN {"unsuccessful"} ELSE {})
    \union (IF pr.approved THEN {} ELSE {"unapproved"})

\* What the fingerprint is taken over; only GitLab's facts carry their time.
Normalized(pr, run) ==
    [approved |-> pr.approved,
     commit |-> run.commit, status |-> run.status,
     at |-> IF provider = "gitlab" THEN tick ELSE 0,
     blockers |-> Blockers(pr, run)]

InLedger(s) == \E i \in 1 .. Len(ledger) : ledger[i] = s

\* The same source (pipeline and time) already says something else.
Contradicts(s) ==
    /\ provider = "gitlab"
    /\ \E i \in 1 .. Len(ledger) :
         ledger[i] # s /\ ledger[i].commit = s.commit /\ ledger[i].at = s.at

-----------------------------------------------------------------------------
Green(f) == f.head = expected /\ f.approved /\ f.runs[f.head] = "success"

SnapshotInit ==
    /\ provider \in {"github", "gitlab"}
    /\ expected \in Commits
    /\ forge = [head |-> 1, approved |-> FALSE,
                runs |-> [c \in Commits |-> "none"]]
    /\ prRead = Nothing /\ runRead = Nothing
    /\ ledger = <<>> /\ behind = FALSE
    /\ tick = 1
    /\ genuine = FALSE

Becomes(f) ==
    /\ forge' = f
    /\ genuine' = (genuine \/ Green(f))
    /\ UNCHANGED <<provider, expected, prRead, runRead, ledger, behind, tick>>

\* A push may dismiss the approval.
Push ==
    /\ forge.head < MaxCommits
    /\ \E a \in {forge.approved, FALSE} :
         Becomes([forge EXCEPT !.head = @ + 1, !.approved = a])
Review == \E a \in BOOLEAN : a # forge.approved /\ Becomes([forge EXCEPT !.approved = a])
Checks ==
    \E c \in 1 .. forge.head, s \in RunStates \ {"none"} :
        s # forge.runs[c] /\ Becomes([forge EXCEPT !.runs[c] = s])

ReadPullRequest ==
    /\ prRead = Nothing
    /\ prRead' = PullRequest(forge)
    /\ UNCHANGED <<provider, expected, forge, runRead, ledger, behind, tick, genuine>>

ReadRun ==
    /\ runRead = Nothing
    /\ \E c \in Commits : forge.runs[c] # "none" /\ runRead' = Run(forge, c)
    /\ UNCHANGED <<provider, expected, forge, prRead, ledger, behind, tick, genuine>>

(* normalize_delivery, then ingest_snapshot or reconcile_observation: known   *)
(* snapshots are not appended again, a contradiction is an error.             *)
Observe ==
    /\ prRead # Nothing /\ runRead # Nothing
    /\ LET s == Normalized(prRead, runRead)
       IN  IF ~InLedger(s) /\ Contradicts(s)
           THEN UNCHANGED <<ledger, behind>>
           ELSE /\ InLedger(s) \/ Len(ledger) < MaxSnapshots
                /\ ledger' = IF InLedger(s) THEN ledger ELSE Append(ledger, s)
                /\ LET end == ledger'[Len(ledger')]
                   IN  behind' = ~(end = s \/ (provider = "gitlab" /\ s.at = end.at))
    /\ prRead' = Nothing /\ runRead' = Nothing
    /\ UNCHANGED <<provider, expected, forge, tick, genuine>>

Tick ==
    /\ tick < MaxTicks /\ provider = "gitlab"
    /\ tick' = tick + 1
    /\ UNCHANGED <<provider, expected, forge, prRead, runRead, ledger, behind, genuine>>

SnapshotNext ==
    \/ Push \/ Review \/ Checks
    \/ ReadPullRequest \/ ReadRun \/ Tick
    \/ Observe

SnapshotSpec == SnapshotInit /\ [][SnapshotNext]_snapshotVars

-----------------------------------------------------------------------------
(* An allowed GitHub snapshot was true at one instant: its commit was the     *)
(* head of the pull request, approved and green, although request and run     *)
(* were read apart and both changed in between (normalize_delivery).          *)
AllowedWasTrueAtOnce ==
    \A i \in 1 .. Len(ledger) :
        (provider = "github" /\ ledger[i].blockers = {}) => genuine

(* The end of the GitLab ledger is what was observed last: a state that comes *)
(* back is appended again, as its time is part of it (reconcile_observation). *)
LedgerFollowsProvider == provider = "gitlab" => ~behind

(* The same for GitHub: docs/integrations/github.md says a changed external   *)
(* fact creates a new observation.                                            *)
LedgerFollowsGitHub == provider = "github" => ~behind

------------------------------------------------------------------------------
(* How outside results become gate evidence of the Work: CI runs             *)
(* (ci_evidence.py) and monitoring and deployment observations               *)
(* (operational_evidence.py).  Each result is normalised against the commit  *)
(* wanted at that moment, kept, and later bundled into the one record Core *)
(* is given.  Commits, runs, time and the moment of each call are external.  *)

CONSTANTS
    GateCommits,   \* bound: commits of the Work
    MaxRuns,       \* bound: outside results
    MaxClock,      \* bound: time
    Freshness      \* how old an operational observation may be when taken

VARIABLES
    gate,       \* the evidence pursued: "test-suite" or "deployment"
    wanted,   \* the commit the Work stands at
    clock,
    runs,       \* outside results, by run id
    facts,      \* what normalisation kept of them
    evidence    \* the record Core was given last

gateVars == <<gate, wanted, clock, runs, facts, evidence>>

Categories == IF gate = "test-suite" THEN {"build", "unit"}
              ELSE {"metric", "deployment", "smoke-test"}

(* A metric names no release: only its age and place are judged. *)
Blocked(run) ==
    \/ run.category # "metric" /\ (run.commit # wanted \/ run.status # "success")
    \/ gate = "deployment" /\ clock - run.at > Freshness

AnyFact(c, category) == {f \in facts : f.run.category = category /\ f.allowed}
Matching(c, category) ==
    {f \in facts : /\ f.run.category = category /\ f.allowed
                   /\ category # "metric" => f.run.commit = c}

BundleAllowed(c) == \A category \in Categories : Matching(c, category) # {}

-----------------------------------------------------------------------------
GateInit ==
    /\ gate \in {"test-suite", "deployment"}
    /\ wanted = 1 /\ clock = 0
    /\ runs = {} /\ facts = {}
    /\ evidence = [commit |-> 1, success |-> FALSE]

\* The Work moves on, or back to a commit it had.
MoveTo(c) ==
    /\ c # wanted
    /\ wanted' = c
    /\ UNCHANGED <<gate, clock, runs, facts, evidence>>

RunEnds ==
    /\ Cardinality(runs) < MaxRuns
    /\ \E category \in Categories, c \in 1 .. GateCommits, s \in {"success", "failure"} :
         /\ category = "metric" => s = "success" /\ c = 1
         /\ runs' = runs \union {[id |-> Cardinality(runs) + 1, category |-> category,
                                  commit |-> c, status |-> s, at |-> clock]}
    /\ UNCHANGED <<gate, wanted, clock, facts, evidence>>

TimePasses ==
    /\ clock < MaxClock /\ gate = "deployment"
    /\ clock' = clock + 1
    /\ UNCHANGED <<gate, wanted, runs, facts, evidence>>

(* normalize_evidence and ingest_evidence: a run is kept once; asking about  *)
(* it again with another outcome of the comparison is a conflict.  Monitoring *)
(* observations are kept as they come.                                        *)
KeepRun(run) ==
    /\ gate = "test-suite" => ~\E f \in facts : f.run = run
    /\ facts' = facts \union {[run |-> run, allowed |-> ~Blocked(run)]}
    /\ UNCHANGED <<gate, wanted, clock, runs, evidence>>

\* evaluate_bundle or evaluate_readiness, then core_evidence_input.
RecordEvidence ==
    /\ evidence' = [commit |-> wanted, success |-> BundleAllowed(wanted)]
    /\ UNCHANGED <<gate, wanted, clock, runs, facts>>

GateNext ==
    \/ RunEnds \/ TimePasses \/ RecordEvidence
    \/ \E c \in 1 .. GateCommits : MoveTo(c)
    \/ \E run \in runs : KeepRun(run)

GateSpec == GateInit /\ [][GateNext]_gateVars

-----------------------------------------------------------------------------
(* Successful evidence for a commit rests on a success of every category that *)
(* names a commit on that very commit, however often the Work moved between   *)
(* observing the runs and recording the evidence (normalize_evidence,         *)
(* evaluate_bundle, evaluate_readiness).                                      *)
EvidenceTestedItsCommit ==
    evidence.success =>
        \A category \in Categories \ {"metric"} :
            \E run \in runs : /\ run.category = category /\ run.commit = evidence.commit
                              /\ run.status = "success"

(* Unchanged green runs of the wanted commit make its bundle pass once they *)
(* are offered: docs/integrations/ci.md has only changed evidence conflict.   *)
GreenRunsCount ==
    (gate = "test-suite" /\ \A run \in runs : \E f \in facts : f.run = run)
    => ((\A category \in Categories :
            \E run \in runs : /\ run.category = category /\ run.commit = wanted
                              /\ run.status = "success")
        => BundleAllowed(wanted))
==============================================================================
