-------------------------- MODULE ExecutionCandidate --------------------------
(* The frozen subject of a review and whether it still applies                *)
(* (execution_candidate.py).  Files are edited, created and deleted, and      *)
(* commits made, between the capture, the review and the check.               *)
EXTENDS Naturals, FiniteSets

CONSTANTS
    CandidateFiles,
    MaxVersions,     \* bound: contents of a file
    MaxCandidateCommits   \* bound: commits

ASSUME CandidateAssumption == MaxVersions \in Nat /\ MaxCandidateCommits \in Nat \ {0}

VARIABLES
    worktree,        \* per file, the content in the worktree; 0 when absent
    commits,     \* the trees committed, oldest first by number
    head,
    candidate,   \* what was frozen; NoCandidate before
    captured     \* the worktree and the head at that moment

candidateVars == <<worktree, commits, head, candidate, captured>>

Contents0 == 0 .. MaxVersions
NoCandidate == [kind |-> "none"]

\* git diff HEAD and the untracked files, those that are files now.
Modified == {f \in CandidateFiles : worktree[f] # commits[head][f] /\ worktree[f] # 0}

CommitCandidate == [kind |-> "commit", commit |-> head, artifacts |-> {}]
ArtifactCandidate(files) ==
    [kind |-> "artifact-set", commit |-> 0, artifacts |-> {<<f, worktree[f]>> : f \in files}]
WorktreeCandidate ==
    [kind |-> "worktree-snapshot", commit |-> head,
     artifacts |-> {<<f, worktree[f]>> : f \in Modified}]

\* The candidate of the same kind as c one would freeze now.
Current(c) ==
    IF c.kind = "commit" THEN CommitCandidate
    ELSE IF c.kind = "worktree-snapshot" THEN WorktreeCandidate
    ELSE ArtifactCandidate({a[1] : a \in c.artifacts})

OnlyPaths(c) == /\ c.commit = Current(c).commit
                /\ {a[1] : a \in c.artifacts} = {a[1] : a \in Current(c).artifacts}
StillApplies(c) ==
    /\ c.commit = Current(c).commit
    /\ c.artifacts = Current(c).artifacts

\* Capturing fails on an absent artifact, and on a snapshot of nothing.
Capturable(c) == c.kind # "commit" => c.artifacts # {} /\ \A a \in c.artifacts : a[2] # 0

-----------------------------------------------------------------------------
CandidateInit ==
    /\ worktree = [f \in CandidateFiles |-> 1]
    /\ commits = [n \in 1 .. MaxCandidateCommits |-> worktree]
    /\ head = 1
    /\ candidate = NoCandidate
    /\ captured = [worktree |-> worktree, head |-> 1]

EditFile(f, v) ==
    /\ worktree[f] # v
    /\ worktree' = [worktree EXCEPT ![f] = v]
    /\ UNCHANGED <<commits, head, candidate, captured>>

Commit ==
    /\ head < MaxCandidateCommits
    /\ head' = head + 1
    /\ commits' = [n \in DOMAIN commits |-> IF n > head THEN worktree ELSE commits[n]]
    /\ UNCHANGED <<worktree, candidate, captured>>

Capture(c) ==
    /\ candidate = NoCandidate /\ Capturable(c)
    /\ candidate' = c
    /\ captured' = [worktree |-> worktree, head |-> head]
    /\ UNCHANGED <<worktree, commits, head>>

CandidateNext ==
    \/ Commit
    \/ \E f \in CandidateFiles, v \in Contents0 : EditFile(f, v)
    \/ Capture(CommitCandidate) \/ Capture(WorktreeCandidate)
    \/ \E files \in SUBSET CandidateFiles : Capture(ArtifactCandidate(files))

CandidateSpec == CandidateInit /\ [][CandidateNext]_candidateVars

-----------------------------------------------------------------------------
Applies == /\ candidate # NoCandidate
           /\ candidate.kind = "artifact-set"
              => \A a \in candidate.artifacts : worktree[a[1]] # 0
           /\ StillApplies(candidate)

\* The content under which the review of a snapshot knows a file.
Reviewed(f) == IF captured.worktree[f] # 0 THEN captured.worktree[f]
                                           ELSE commits[captured.head][f]

(* As long as require_current lets a candidate pass, what was reviewed is     *)
(* what is there: a commit is the head, a set holds the same contents, and    *)
(* the files a snapshot finds are those of the capture, no file edited and    *)
(* none added: one that was deleted at the capture may only be back as it     *)
(* was committed.  Files deleted since are not looked at.                     *)
ReviewedIsPresent ==
    Applies =>
        CASE candidate.kind = "commit" -> captured.head = head
          [] candidate.kind = "artifact-set" ->
               \A a \in candidate.artifacts : worktree[a[1]] = captured.worktree[a[1]]
          [] OTHER -> \A f \in CandidateFiles : worktree[f] # 0 => worktree[f] = Reviewed(f)

(* "later edits make this candidate stale" (execution_candidate.py:106): a    *)
(* snapshot that applies is of the worktree as it is.  Deleting a file, and   *)
(* restoring one that was deleted, are edits that is_file at :184 hides.      *)
LaterEditsMakeStale ==
    (Applies /\ candidate.kind = "worktree-snapshot") => worktree = captured.worktree
=============================================================================
