---------------------------- MODULE HandoverProofs ----------------------------
(***************************************************************************)
(* What stands around one execution, for any hosts, tiers, budgets, files, *)
(* keys and configurations: an inductive invariant per part of MCHandover, *)
(* and from them its properties.                                           *)
(***************************************************************************)
EXTENDS MCHandover, FiniteSetTheorems, FunctionTheorems, WellFoundedInduction, TLAPS

-----------------------------------------------------------------------------
(* The envelope: hosts that hold a plan run what the file says when their  *)
(* runner reads it, so that the file's tier is what each may still run.    *)

HoldPlan == {h \in Hosts : pc[h] \in {"planned", "attempted", "session"}}

(* The runs a tier may still have without another plan being built.        *)
Pending(t) == IF envelope.tier = t THEN Cardinality(HoldPlan) ELSE 0

(* What ran and what may still run of a tier exceeds its budget by at most *)
(* one per further host and lost write.                                    *)
PendingFitsTheBudget ==
  ~explicit => \A t \in TierSet :
    runs[t] + Pending(t) <= CallBudget[t] + (Cardinality(Hosts) - 1) + lost[t]

(* A host that holds a plan has an envelope to read, its own or a later    *)
(* one.                                                                    *)
EnvelopeIsWritten == HoldPlan # {} => envelope \in Envelope

EnvelopeInv ==
  TypeOK /\ EnvelopeIsWritten /\ RunsAreChargedToTheirTier /\ PendingFitsTheBudget

(* There are no more of them than hosts.                                   *)
LEMMA HoldPlanIsFinite ==
  /\ IsFiniteSet(HoldPlan)
  /\ Cardinality(HoldPlan) \in Nat /\ Cardinality(Hosts) \in Nat \ {0}
  /\ Cardinality(HoldPlan) <= Cardinality(Hosts)
<1>1. HoldPlan \subseteq Hosts
  BY DEF HoldPlan
<1>2. IsFiniteSet(Hosts) /\ Hosts # {}
  BY HostsAssumption
<1> QED
  BY <1>1, <1>2, FS_Subset, FS_CardinalityType, FS_EmptySet

(* A host that leaves or joins those that hold a plan.                     *)
LEMMA HoldPlanMoves ==
  ASSUME NEW h \in Hosts, NEW from, NEW to, pc \in [Hosts -> STRING], At(h, from, to)
  PROVE  /\ from \in {"planned", "attempted", "session"} /\ to \in {"idle", "adapter", "failed"}
              => h \in HoldPlan /\ HoldPlan' = HoldPlan \ {h}
         /\ from \in {"planned", "attempted"} /\ to \in {"attempted", "session"}
              => HoldPlan' = HoldPlan
         /\ from \in {"idle", "decided", "adapter"} /\ to \in {"idle", "decided"}
              => HoldPlan' = HoldPlan
BY DEF HoldPlan, At

(* One recorded attempt, written or lost.                                  *)
LEMMA OneMore ==
  ASSUME NEW count \in [TierSet -> Nat], NEW t, NEW new, new = [count EXCEPT ![t] = @ + 1]
  PROVE  /\ new \in [TierSet -> Nat]
         /\ \A u \in TierSet : count[u] <= new[u]
         /\ \A u \in TierSet : u # t => new[u] = count[u]
         /\ t \in TierSet => new[t] = count[t] + 1
<1>1. CASE t \in TierSet
  BY <1>1
<1>2. CASE t \notin TierSet
  <2>1. new = count
    BY <1>2
  <2>2. \A u \in TierSet : new[u] = count[u] /\ count[u] \in Nat
    BY <2>1
  <2>3. \A u \in TierSet : count[u] <= new[u]
    BY <2>2
  <2> QED
    BY <1>2, <2>1, <2>2, <2>3
<1> QED
  BY <1>1, <1>2

(* An attempt is one more in the ledger or one more lost, of its tier      *)
(* only.                                                                   *)
LEMMA ChargeGrows ==
  ASSUME TypeOK, NEW t, ChargeAttempt(t)
  PROVE  /\ attempts' \in [TierSet -> Nat] /\ lost' \in [TierSet -> Nat]
         /\ \A u \in TierSet : attempts[u] <= attempts'[u] /\ lost[u] <= lost'[u]
         /\ t \in TierSet => attempts'[t] + lost'[t] = attempts[t] + lost[t] + 1
<1>1. attempts \in [TierSet -> Nat] /\ lost \in [TierSet -> Nat]
  BY DEF TypeOK
<1>2. CASE attempts' = [attempts EXCEPT ![t] = @ + 1] /\ UNCHANGED lost
  <2>1. /\ attempts' \in [TierSet -> Nat]
        /\ \A u \in TierSet : attempts[u] <= attempts'[u]
        /\ t \in TierSet => attempts'[t] = attempts[t] + 1
    BY <1>1, <1>2, OneMore
  <2>2. \A u \in TierSet : lost[u] \in Nat /\ attempts[u] \in Nat /\ lost'[u] = lost[u]
    BY <1>1, <1>2
  <2> QED
    BY <1>1, <1>2, <2>1, <2>2
<1>3. CASE lost' = [lost EXCEPT ![t] = @ + 1] /\ UNCHANGED attempts
  <2>1. /\ lost' \in [TierSet -> Nat]
        /\ \A u \in TierSet : lost[u] <= lost'[u]
        /\ t \in TierSet => lost'[t] = lost[t] + 1
    BY <1>1, <1>3, OneMore
  <2>2. \A u \in TierSet : lost[u] \in Nat /\ attempts[u] \in Nat /\ attempts'[u] = attempts[u]
    BY <1>1, <1>3
  <2> QED
    BY <1>1, <1>3, <2>1, <2>2
<1> QED
  BY <1>2, <1>3 DEF ChargeAttempt

(* Steps at which no run is added and no host comes to hold a plan.        *)
LEMMA QuietStep ==
  ASSUME EnvelopeInv, TypeOK', UNCHANGED <<explicit, envelope, runs>>,
         HoldPlan' \subseteq HoldPlan,
         \A u \in TierSet : attempts[u] <= attempts'[u] /\ lost[u] <= lost'[u]
  PROVE  EnvelopeInv'
<1>1. Cardinality(HoldPlan') <= Cardinality(HoldPlan) /\ Cardinality(HoldPlan') \in Nat
  BY HoldPlanIsFinite, FS_Subset, FS_CardinalityType
<1>2. Cardinality(HoldPlan) \in Nat /\ Cardinality(Hosts) \in Nat
  BY HoldPlanIsFinite
<1>3. EnvelopeIsWritten'
  BY DEF EnvelopeInv, EnvelopeIsWritten
<1>4. RunsAreChargedToTheirTier'
  BY DEF EnvelopeInv, RunsAreChargedToTheirTier, TypeOK
<1>5. PendingFitsTheBudget'
  <2> SUFFICES ASSUME ~explicit, NEW t \in TierSet
               PROVE  runs[t] + Pending(t)' <= CallBudget[t] + (Cardinality(Hosts) - 1) + lost'[t]
    BY DEF PendingFitsTheBudget
  <2>1. runs[t] + Pending(t) <= CallBudget[t] + (Cardinality(Hosts) - 1) + lost[t]
    BY DEF EnvelopeInv, PendingFitsTheBudget
  <2>2. Pending(t)' <= Pending(t) /\ Pending(t)' \in Nat /\ Pending(t) \in Nat
    BY <1>1, <1>2 DEF Pending
  <2>3. runs[t] \in Nat /\ CallBudget[t] \in Nat /\ lost[t] \in Nat /\ lost'[t] \in Nat
    BY BudgetAssumption DEF EnvelopeInv, TypeOK
  <2> HIDE DEF Pending
  <2> QED
    BY <1>2, <2>1, <2>2, <2>3
<1> QED
  BY <1>3, <1>4, <1>5 DEF EnvelopeInv

(* A plan is given only while the attempts of its tier are below the       *)
(* budget, and replaces the tier that all holders will run.                *)
LEMMA BuildPlanKeeps ==
  ASSUME EnvelopeInv, NEW h \in Hosts, BuildPlan(h), UNCHANGED explicit
  PROVE  EnvelopeInv'
<1> USE DEF EnvelopeInv
<1>1. PICK t \in TierSet :
        /\ Selectable(t)
        /\ envelope' = [owner |-> h, tier |-> t, revision |-> core.revision]
  BY DEF BuildPlan
<1>2. envelope' \in Envelope
  BY <1>1 DEF TypeOK, Core, Envelope
<1>3. TypeOK'
  BY <1>2 DEF TypeOK, BuildPlan, At
<1>4. EnvelopeIsWritten' /\ RunsAreChargedToTheirTier'
  BY <1>2 DEF EnvelopeIsWritten, RunsAreChargedToTheirTier, BuildPlan
<1>5. PendingFitsTheBudget'
  <2> SUFFICES ASSUME ~explicit, NEW u \in TierSet
               PROVE  runs[u] + Pending(u)' <= CallBudget[u] + (Cardinality(Hosts) - 1) + lost[u]
    BY DEF PendingFitsTheBudget, BuildPlan
  <2>1. /\ runs[u] \in Nat /\ CallBudget[u] \in Nat /\ lost[u] \in Nat /\ attempts[u] \in Nat
        /\ Cardinality(Hosts) \in Nat \ {0}
        /\ Cardinality(HoldPlan') \in Nat /\ Cardinality(HoldPlan') <= Cardinality(Hosts)
        /\ Cardinality(HoldPlan) \in Nat
    <3>1. HoldPlan' \subseteq Hosts
      BY DEF HoldPlan
    <3> QED
      BY <3>1, HostsAssumption, HoldPlanIsFinite, BudgetAssumption, FS_Subset, FS_CardinalityType
         DEF TypeOK
  <2>2. CASE u = t
    <3>1. attempts[u] < CallBudget[u]
      BY <1>1, <2>2 DEF Selectable, WithinBudget
    <3>2. runs[u] <= attempts[u] + lost[u]
      BY DEF RunsAreChargedToTheirTier
    <3>3. Pending(u)' = Cardinality(HoldPlan')
      BY <1>1, <2>2 DEF Pending
    <3> QED
      BY <2>1, <3>1, <3>2, <3>3
  <2>3. CASE u # t
    <3>1. Pending(u)' = 0
      BY <1>1, <2>3 DEF Pending
    <3>2. runs[u] + Pending(u) <= CallBudget[u] + (Cardinality(Hosts) - 1) + lost[u]
      BY DEF PendingFitsTheBudget
    <3>3. Pending(u) \in Nat
      BY <2>1 DEF Pending
    <3> HIDE DEF Pending
    <3> QED
      BY <2>1, <3>1, <3>2, <3>3
  <2> QED
    BY <2>2, <2>3
<1> QED
  BY <1>3, <1>4, <1>5

(* The runner's attempt and its run are of the tier in the file.           *)
LEMMA PrepareExecutionKeeps ==
  ASSUME EnvelopeInv, NEW h \in Hosts, PrepareExecution(h), UNCHANGED explicit
  PROVE  EnvelopeInv'
<1> USE DEF EnvelopeInv
<1> DEFINE t == envelope.tier
<1>1. h \in HoldPlan /\ HoldPlan' = HoldPlan \ {h}
  BY HoldPlanMoves DEF PrepareExecution, TypeOK, HoldPlan, At
<1>2. envelope \in Envelope /\ t \in TierSet
  BY <1>1 DEF EnvelopeIsWritten, Envelope
<1>3. /\ attempts' \in [TierSet -> Nat] /\ lost' \in [TierSet -> Nat]
      /\ \A u \in TierSet : attempts[u] <= attempts'[u] /\ lost[u] <= lost'[u]
      /\ attempts'[t] + lost'[t] = attempts[t] + lost[t] + 1
  BY <1>2, ChargeGrows DEF PrepareExecution
<1>4. /\ runs' \in [TierSet -> Nat]
      /\ \A u \in TierSet : u # t => runs'[u] = runs[u]
      /\ runs'[t] = runs[t] + 1
  BY <1>2, OneMore DEF PrepareExecution, TypeOK
<1> HIDE DEF t
<1>5. TypeOK'
  BY <1>2, <1>3, <1>4 DEF TypeOK, PrepareExecution, At
<1>6. EnvelopeIsWritten'
  BY <1>2 DEF EnvelopeIsWritten, PrepareExecution
<1>7. RunsAreChargedToTheirTier'
  <2> SUFFICES ASSUME NEW u \in TierSet
               PROVE  runs'[u] <= attempts'[u] + lost'[u]
    BY DEF RunsAreChargedToTheirTier
  <2>1. runs[u] <= attempts[u] + lost[u]
    BY DEF RunsAreChargedToTheirTier
  <2> QED
    BY <1>2, <1>3, <1>4, <2>1 DEF TypeOK
<1>8. PendingFitsTheBudget'
  <2> SUFFICES ASSUME ~explicit, NEW u \in TierSet
               PROVE  runs'[u] + Pending(u)' <= CallBudget[u] + (Cardinality(Hosts) - 1) + lost'[u]
    BY DEF PendingFitsTheBudget
  <2>1. runs[u] + Pending(u) <= CallBudget[u] + (Cardinality(Hosts) - 1) + lost[u]
    BY DEF PendingFitsTheBudget
  <2>2. /\ runs[u] \in Nat /\ CallBudget[u] \in Nat /\ lost[u] \in Nat /\ lost'[u] \in Nat
        /\ lost[u] <= lost'[u] /\ Cardinality(Hosts) \in Nat
    BY <1>3, HoldPlanIsFinite, BudgetAssumption DEF TypeOK
  <2>3. /\ Cardinality(HoldPlan) \in Nat
        /\ Cardinality(HoldPlan') = Cardinality(HoldPlan) - 1
    BY <1>1, HoldPlanIsFinite, FS_RemoveElement
  <2>4. UNCHANGED envelope
    BY DEF PrepareExecution
  <2>5. CASE u = t
    <3>1. /\ Pending(u) = Cardinality(HoldPlan)
          /\ Pending(u)' = Cardinality(HoldPlan) - 1
      BY <2>3, <2>4, <2>5 DEF Pending, t
    <3> QED
      BY <1>4, <2>1, <2>2, <2>3, <2>5, <3>1
  <2>6. CASE u # t
    <3>1. Pending(u) = 0 /\ Pending(u)' = 0
      BY <2>4, <2>6 DEF Pending, t
    <3> QED
      BY <1>4, <2>1, <2>2, <2>6, <3>1
  <2> QED
    BY <2>5, <2>6
<1> QED
  BY <1>5, <1>6, <1>7, <1>8

(* One step of the launch, action by action.                               *)
LEMMA EnvelopeNextKeeps == EnvelopeInv /\ [Next]_vars => EnvelopeInv'
<1> SUFFICES ASSUME EnvelopeInv, [Next]_vars PROVE EnvelopeInv'
  OBVIOUS
<1>1. TypeOK
  BY DEF EnvelopeInv
<1>2. ASSUME NEW h \in Hosts, RecordAttempt(h), UNCHANGED explicit PROVE EnvelopeInv'
  <2>1. HoldPlan' = HoldPlan
    BY <1>1, <1>2 DEF RecordAttempt, HoldPlan, At, TypeOK
  <2>2. /\ attempts' \in [TierSet -> Nat] /\ lost' \in [TierSet -> Nat]
        /\ \A u \in TierSet : attempts[u] <= attempts'[u] /\ lost[u] <= lost'[u]
    BY <1>1, <1>2, ChargeGrows DEF RecordAttempt
  <2>3. begun' \in [TierSet -> Nat]
    BY <1>1, <1>2, OneMore DEF RecordAttempt, TypeOK
  <2>4. TypeOK'
    BY <1>1, <1>2, <2>2, <2>3 DEF TypeOK, RecordAttempt, At
  <2> QED
    BY <1>2, <2>1, <2>2, <2>4, QuietStep DEF RecordAttempt
<1>3. ASSUME NEW h \in Hosts, InspectNext(h), UNCHANGED explicit PROVE EnvelopeInv'
  <2>1. TypeOK' /\ HoldPlan' = HoldPlan
    BY <1>1, <1>3 DEF InspectNext, HoldPlan, At, TypeOK, Core
  <2> QED
    BY <1>1, <1>3, <2>1, QuietStep DEF InspectNext, TypeOK
<1>4. ASSUME NEW h \in Hosts, PlanFails(h) \/ AdapterEnds(h), UNCHANGED explicit
      PROVE  EnvelopeInv'
  <2>1. TypeOK' /\ HoldPlan' = HoldPlan
    BY <1>1, <1>4 DEF PlanFails, AdapterEnds, HoldPlan, At, TypeOK
  <2> QED
    BY <1>1, <1>4, <2>1, QuietStep DEF PlanFails, AdapterEnds, TypeOK
<1>5. ASSUME NEW h \in Hosts, Decline(h) \/ CoreRefuses(h) \/ RunnerFails(h), UNCHANGED explicit
      PROVE  EnvelopeInv'
  <2>1. TypeOK' /\ HoldPlan' \subseteq HoldPlan
    BY <1>1, <1>5 DEF Decline, CoreRefuses, RunnerFails, HoldPlan, At, TypeOK
  <2> QED
    BY <1>1, <1>5, <2>1, QuietStep DEF Decline, CoreRefuses, RunnerFails, TypeOK
<1>6. ASSUME NEW h \in Hosts, CoreStarts(h), UNCHANGED explicit PROVE EnvelopeInv'
  <2>1. TypeOK' /\ HoldPlan' = HoldPlan
    BY <1>1, <1>6 DEF CoreStarts, HoldPlan, At, TypeOK
  <2> QED
    BY <1>1, <1>6, <2>1, QuietStep DEF CoreStarts, TypeOK
<1>7. ASSUME WorkChanges, UNCHANGED explicit PROVE EnvelopeInv'
  <2>1. TypeOK' /\ HoldPlan' = HoldPlan
    BY <1>1, <1>7 DEF WorkChanges, HoldPlan, TypeOK, Core
  <2> QED
    BY <1>1, <1>7, <2>1, QuietStep DEF WorkChanges, TypeOK
<1>8. CASE UNCHANGED vars
  <2>1. TypeOK' /\ HoldPlan' = HoldPlan
    BY <1>1, <1>8 DEF vars, HoldPlan, TypeOK
  <2> QED
    BY <1>1, <1>8, <2>1, QuietStep DEF vars, TypeOK
<1> QED
  BY <1>2, <1>3, <1>4, <1>5, <1>6, <1>7, <1>8, BuildPlanKeeps, PrepareExecutionKeeps
     DEF Next, Step

(* Before the first launch nothing has run and nobody holds a plan.        *)
LEMMA EnvelopeStarts == Init => EnvelopeInv
<1> SUFFICES ASSUME Init PROVE EnvelopeInv
  OBVIOUS
<1>1. TypeOK
  BY DEF Init, TypeOK, Core
<1>2. HoldPlan = {}
  BY DEF Init, HoldPlan
<1>3. Cardinality(HoldPlan) = 0
  BY <1>2, FS_EmptySet
<1>4. PendingFitsTheBudget
  <2> SUFFICES ASSUME NEW t \in TierSet
               PROVE  runs[t] + Pending(t) <= CallBudget[t] + (Cardinality(Hosts) - 1) + lost[t]
    BY DEF PendingFitsTheBudget
  <2>1. runs[t] = 0 /\ lost[t] = 0 /\ Pending(t) = 0 /\ CallBudget[t] \in Nat
    BY <1>3, BudgetAssumption DEF Init, Pending
  <2>2. Cardinality(Hosts) \in Nat \ {0}
    BY HoldPlanIsFinite
  <2> QED
    BY <2>1, <2>2
<1>5. EnvelopeIsWritten /\ RunsAreChargedToTheirTier
  BY <1>2 DEF Init, EnvelopeIsWritten, RunsAreChargedToTheirTier
<1> QED
  BY <1>1, <1>4, <1>5 DEF EnvelopeInv

(* With nobody but the other hosts to hold a plan, the bound of the        *)
(* property.                                                               *)
LEMMA EnvelopeIsPaidFor == EnvelopeInv => BudgetOvershootBounded /\ RunsAreChargedToTheirTier
<1> SUFFICES ASSUME EnvelopeInv, ~explicit, NEW t \in TierSet
             PROVE  runs[t] <= CallBudget[t] + (Cardinality(Hosts) - 1) + lost[t]
  BY DEF EnvelopeInv, BudgetOvershootBounded
<1>1. runs[t] + Pending(t) <= CallBudget[t] + (Cardinality(Hosts) - 1) + lost[t]
  BY DEF EnvelopeInv, PendingFitsTheBudget
<1>2. Pending(t) \in Nat /\ Cardinality(Hosts) \in Nat
  BY HoldPlanIsFinite DEF Pending
<1>3. runs[t] \in Nat /\ CallBudget[t] \in Nat /\ lost[t] \in Nat
  BY BudgetAssumption DEF EnvelopeInv, TypeOK
<1> HIDE DEF Pending
<1> QED
  BY <1>1, <1>2, <1>3

-----------------------------------------------------------------------------
(* The candidate: it is what the worktree and the head gave when it was    *)
(* captured, and no commit up to the captured one has changed since.       *)

(* The files whose worktree content was not that of the captured head.     *)
ModifiedThen ==
  {f \in CandidateFiles : captured.worktree[f] # commits[captured.head][f]
                          /\ captured.worktree[f] # 0}

(* The candidate as capture built it, by its kind.                         *)
CapturedThen ==
  \/ candidate = [kind |-> "commit", commit |-> captured.head, artifacts |-> {}]
  \/ /\ candidate.kind = "artifact-set" /\ candidate.commit = 0
     /\ \E files \in SUBSET CandidateFiles :
          candidate.artifacts = {<<f, captured.worktree[f]>> : f \in files}
  \/ candidate = [kind |-> "worktree-snapshot", commit |-> captured.head,
                  artifacts |-> {<<f, captured.worktree[f]>> : f \in ModifiedThen}]

CandidateInv ==
  /\ worktree \in [CandidateFiles -> Nat]
  /\ head \in Nat /\ captured.head \in 1 .. head
  /\ DOMAIN commits = 1 .. MaxCandidateCommits
  /\ candidate # NoCandidate => CapturedThen

(* Nothing is captured at first.                                           *)
LEMMA CandidateStarts == CandidateInit => CandidateInv
BY DEF CandidateInit, CandidateInv

(* Whatever keeps the commit a candidate was captured at keeps the rest.   *)
LEMMA CapturedStays ==
  ASSUME CandidateInv, UNCHANGED <<candidate, captured>>,
         commits'[captured.head] = commits[captured.head]
  PROVE  candidate' # NoCandidate => CapturedThen'
<1>1. ModifiedThen' = ModifiedThen
  BY DEF ModifiedThen
<1>2. candidate' = candidate /\ captured' = captured
  OBVIOUS
<1>3. {<<f, captured'.worktree[f]>> : f \in ModifiedThen'}
        = {<<f, captured.worktree[f]>> : f \in ModifiedThen}
  BY <1>1, <1>2
<1>4. ASSUME NEW files
      PROVE  {<<f, captured'.worktree[f]>> : f \in files}
               = {<<f, captured.worktree[f]>> : f \in files}
  BY <1>2
<1> QED
  BY <1>2, <1>3, <1>4, Zenon DEF CandidateInv, CapturedThen

(* Edits move the worktree and commits the head; neither rewrites what a   *)
(* commit up to the captured one holds.                                    *)
LEMMA CandidateNextKeeps == CandidateInv /\ [CandidateNext]_candidateVars => CandidateInv'
<1> SUFFICES ASSUME CandidateInv, [CandidateNext]_candidateVars PROVE CandidateInv'
  OBVIOUS
<1>1. CASE Commit
  <2>1. DOMAIN commits' = 1 .. MaxCandidateCommits /\ head' = head + 1
    BY <1>1 DEF Commit, CandidateInv
  <2>2. captured.head \in DOMAIN commits /\ ~(captured.head > head)
    BY <1>1, CandidateAssumption DEF Commit, CandidateInv
  <2>3. commits'[captured.head] = commits[captured.head]
    BY <1>1, <2>2 DEF Commit
  <2> QED
    BY <1>1, <2>1, <2>3, CapturedStays DEF Commit, CandidateInv
<1>2. ASSUME NEW f \in CandidateFiles, NEW v \in Contents0, EditFile(f, v)
      PROVE  CandidateInv'
  BY <1>2, CapturedStays DEF EditFile, CandidateInv, Contents0
<1>3. ASSUME NEW c, Capture(c),
             \/ c \in {CommitCandidate, WorktreeCandidate}
             \/ \E files \in SUBSET CandidateFiles : c = ArtifactCandidate(files)
      PROVE  CandidateInv'
  <2>1. /\ captured'.worktree = worktree /\ captured'.head = head
        /\ candidate' = c /\ UNCHANGED <<worktree, commits, head>>
    BY <1>3 DEF Capture
  <2>2. Modified = ModifiedThen'
    BY <2>1 DEF Modified, ModifiedThen
  <2>3. CapturedThen'
    BY <1>3, <2>1, <2>2 DEF CapturedThen, CommitCandidate, WorktreeCandidate, ArtifactCandidate
  <2>4. captured'.head \in 1 .. head'
    BY <2>1 DEF CandidateInv
  <2> QED
    BY <2>1, <2>3, <2>4 DEF CandidateInv
<1>4. CASE UNCHANGED candidateVars
  BY <1>4, CapturedStays DEF candidateVars, CandidateInv
<1> QED
  BY <1>1, <1>2, <1>3, <1>4 DEF CandidateNext

(* A snapshot that still applies was taken at the same head, so that its   *)
(* unmodified files, too, are what they were, and a file that was absent   *)
(* and is back is the committed one, or it would be modified.              *)
LEMMA CandidateIsPresent == CandidateInv => ReviewedIsPresent
<1> SUFFICES ASSUME CandidateInv, Applies PROVE ReviewedIsPresent
  BY DEF ReviewedIsPresent
<1>1. /\ candidate # NoCandidate /\ CapturedThen
      /\ candidate.commit = Current(candidate).commit
      /\ candidate.artifacts = Current(candidate).artifacts
  BY DEF Applies, StillApplies, CandidateInv
<1>2. CASE candidate = [kind |-> "commit", commit |-> captured.head, artifacts |-> {}]
  BY <1>1, <1>2 DEF Current, CommitCandidate, ReviewedIsPresent
<1>3. CASE candidate.kind = "artifact-set"
  <2>1. PICK files \in SUBSET CandidateFiles :
          candidate.artifacts = {<<f, captured.worktree[f]>> : f \in files}
    BY <1>1, <1>3 DEF CapturedThen
  <2>2. candidate.artifacts = {<<f, worktree[f]>> : f \in {a[1] : a \in candidate.artifacts}}
    BY <1>1, <1>3 DEF Current, ArtifactCandidate
  <2>3. ASSUME NEW a \in candidate.artifacts
        PROVE  worktree[a[1]] = captured.worktree[a[1]]
    <3>1. PICK f \in files : a = <<f, captured.worktree[f]>>
      BY <2>1
    <3>2. PICK g : a = <<g, worktree[g]>>
      BY <2>2
    <3> QED
      BY <3>1, <3>2
  <2> QED
    BY <1>3, <2>3 DEF ReviewedIsPresent
<1>4. CASE candidate = [kind |-> "worktree-snapshot", commit |-> captured.head,
                        artifacts |-> {<<f, captured.worktree[f]>> : f \in ModifiedThen}]
  <2>1. captured.head = head
        /\ {<<f, captured.worktree[f]>> : f \in ModifiedThen} = {<<f, worktree[f]>> : f \in Modified}
    BY <1>1, <1>4 DEF Current, WorktreeCandidate
  <2>2. ASSUME NEW f \in CandidateFiles, worktree[f] # 0
        PROVE  worktree[f] = Reviewed(f)
    <3>1. CASE f \in Modified
      <4>1. <<f, worktree[f]>> \in {<<g, captured.worktree[g]>> : g \in ModifiedThen}
        BY <2>1, <3>1
      <4>2. PICK g \in ModifiedThen : <<f, worktree[f]>> = <<g, captured.worktree[g]>>
        BY <4>1
      <4> QED
        BY <4>2 DEF ModifiedThen, Reviewed
    <3>2. CASE f \in ModifiedThen
      <4>1. <<f, captured.worktree[f]>> \in {<<g, worktree[g]>> : g \in Modified}
        BY <2>1, <3>2
      <4> QED
        BY <3>2, <4>1 DEF ModifiedThen, Reviewed
    <3>3. CASE f \notin Modified /\ f \notin ModifiedThen
      BY <2>1, <2>2, <3>3 DEF Modified, ModifiedThen, Reviewed
    <3> QED
      BY <3>1, <3>2, <3>3
  <2> QED
    BY <1>4, <2>2 DEF ReviewedIsPresent
<1> QED
  BY <1>1, <1>2, <1>3, <1>4 DEF CapturedThen

-----------------------------------------------------------------------------
(* The files: what is handed over is what was selected from the bundle.    *)

FilesInv ==
  /\ bundle.taken =>
       \A f \in bundle.wasChanged : Path(f) \in bundle.changed
  /\ lean.written => bundle.taken /\ lean.kept = Selected(bundle, lean.answer)
  /\ lean.written => DOMAIN lean.answer = Candidates(bundle) \ Protected(bundle)
  /\ given.started =>
       /\ bundle.taken
       /\ \/ lean.written /\ given.paths = lean.kept
          \/ given.paths = Candidates(bundle)

(* Nothing is written or given at first.                                   *)
LEMMA FilesStart == ContextInit => FilesInv
BY DEF ContextInit, FilesInv, NoBundle, NoLean, NotGiven

(* One step of the three commands, for any answers about relevance.        *)
LEMMA FilesNextKeep == FilesInv /\ [ContextNext]_contextVars => FilesInv'
<1> SUFFICES ASSUME FilesInv, [ContextNext]_contextVars PROVE FilesInv'
  OBVIOUS
<1>1. CASE UNCHANGED <<bundle, lean, given>>
  BY <1>1 DEF FilesInv, Selected, Candidates, Protected
<1>2. CASE BuildBundle
  <2>1. /\ ~lean'.written /\ ~given'.started
        /\ bundle'.changed = ChangedPaths
        /\ bundle'.wasChanged = {f \in Files \ Framework : tree[f].changed}
    BY <1>2 DEF BuildBundle, NoLean, NotGiven
  <2>2. \A f \in bundle'.wasChanged : Path(f) \in bundle'.changed
    BY <2>1 DEF ChangedPaths
  <2> QED
    BY <2>1, <2>2 DEF FilesInv
<1>3. CASE Select
  <2>1. PICK a \in [Candidates(bundle) \ Protected(bundle)
                     -> {"relevant", "irrelevant", "unsure"}] :
          lean' = [written |-> TRUE, answer |-> a, kept |-> Selected(bundle, a)]
    BY <1>3 DEF Select
  <2> QED
    BY <1>3, <2>1 DEF Select, FilesInv, Selected, Candidates, Protected
<1>4. CASE RefuseMandatory
  BY <1>4 DEF RefuseMandatory, FilesInv, NoBundle, NoLean
<1>5. CASE LaunchLean \/ LaunchOverflow \/ LaunchUnpruned
  BY <1>5 DEF LaunchLean, LaunchOverflow, LaunchUnpruned, FilesInv, Selected, Candidates, Protected
<1> QED
  BY <1>1, <1>2, <1>3, <1>4, <1>5 DEF ContextNext, contextVars, Touch, CommitStaged

(* A file that changed is protected, hence selected.                       *)
LEMMA OnlySureFiles == FilesInv => OnlySureFilesAreDropped
<1> SUFFICES ASSUME FilesInv, given.started PROVE OnlySureFilesAreDropped
  BY DEF OnlySureFilesAreDropped
<1>1. CASE given.paths = Candidates(bundle)
  BY <1>1 DEF FilesInv, OnlySureFilesAreDropped, Candidates
<1>2. CASE lean.written /\ given.paths = lean.kept
  <2>1. given.paths = Protected(bundle) \union
                        {p \in DOMAIN lean.answer : lean.answer[p] # "irrelevant"}
    BY <1>2 DEF FilesInv, Selected
  <2> QED
    BY <1>2, <2>1 DEF FilesInv, OnlySureFilesAreDropped, Candidates, Protected
<1> QED
  BY <1>1, <1>2 DEF FilesInv

-----------------------------------------------------------------------------
(* The registry: a preview counts keys of the policy that were not revoked *)
(* when the command began, nobody but the command moves the snapshot, and  *)
(* the configuration is not revised under a command.                       *)

(* A command's local variables.                                            *)
CallFields == {"at", "status", "plan", "missing", "got", "revoked"}

(* A key that was active when its status was read was not revoked before.  *)
InspectsUnrevoked ==
  call.at = "inspect" =>
    /\ DOMAIN call.status = configuration.keys
    /\ \A k \in DOMAIN call.status : call.status[k] = "active" => k \notin call.revoked

(* Enough keys that were not revoked then verified the plan of the         *)
(* command.                                                                *)
PlanIsTrusted ==
  call.at \in {"list", "install", "compare"} =>
    /\ Enough(call.plan.verified)
    /\ call.plan.verified \subseteq configuration.keys
    /\ call.plan.verified \cap call.revoked = {}

RegistryInv ==
  /\ DOMAIN call = CallFields
  /\ InspectsUnrevoked /\ PlanIsTrusted
  /\ call.at \in {"compare", "check"} => snapshot = call.got
  /\ report \in {"installed", "applied"} => call.at = "idle"
  /\ ReleasesAreReviewed

(* No command runs at first and no registry is installed.                  *)
LEMMA RegistryStarts == RegistryInit => RegistryInv
BY DEF RegistryInit, RegistryInv, Idle, CallFields, InspectsUnrevoked, PlanIsTrusted,
       ReleasesAreReviewed

(* Nobody at the command: its records and the configuration stay.          *)
LEMMA RegistryRests ==
  ASSUME RegistryInv, UNCHANGED <<configuration, snapshot, call, reviewed, report>>
  PROVE  RegistryInv'
BY DEF RegistryInv, InspectsUnrevoked, PlanIsTrusted, ReleasesAreReviewed, Enough

(* A command that ends in failure, or without a claim, claims nothing.     *)
LEMMA EndedWithoutClaim ==
  ASSUME NEW r \in {"refused", "failed", "current"}, Ended(r)
  PROVE  RegistryInv'
BY DEF Ended, RegistryInv, Idle, CallFields, InspectsUnrevoked, PlanIsTrusted,
       ReleasesAreReviewed

(* The steps of a preview and of an installation.                          *)
LEMMA InstallingKeeps ==
  ASSUME RegistryInv,
         \/ BeginInstallRegistry \/ InspectRelease \/ ListKeys \/ \E k \in Keys : AddKey(k)
         \/ CoreInstallsRegistry \/ CompareInstalled
  PROVE  RegistryInv'
<1> USE DEF RegistryInv
<1>1. CASE BeginInstallRegistry
  <2>1. CASE Ended("refused")
    BY <2>1, EndedWithoutClaim
  <2>2. CASE /\ call' = [Idle EXCEPT !.at = "inspect", !.revoked = RevokedKeys,
                          !.status = [k \in configuration.keys |-> EffectiveStatus(k)]]
             /\ report' = "running"
    <3>1. /\ DOMAIN call' = CallFields /\ call'.at = "inspect" /\ call'.revoked = RevokedKeys
          /\ call'.status = [k \in configuration.keys |-> EffectiveStatus(k)]
      BY <2>2 DEF Idle, CallFields
    <3>2. \A k \in configuration.keys : EffectiveStatus(k) = "active" => k \notin RevokedKeys
      BY DEF EffectiveStatus, RevokedKeys
    <3>3. InspectsUnrevoked'
      BY <1>1, <3>1, <3>2 DEF InspectsUnrevoked, BeginInstallRegistry
    <3> QED
      BY <2>2, <3>1, <3>3 DEF PlanIsTrusted, ReleasesAreReviewed
  <2> QED
    BY <1>1, <2>1, <2>2 DEF BeginInstallRegistry
<1>2. CASE InspectRelease
  <2> DEFINE active  == {k \in DOMAIN call.status : call.status[k] = "active"}
             counted == Counted(Release, active)
  <2>1. /\ call.at = "inspect" /\ Enough(counted)
        /\ call' = [call EXCEPT !.at = "list",
                      !.plan = [version |-> configuration.version,
                                checksum |-> Release.checksum, verified |-> counted]]
        /\ UNCHANGED <<configuration, snapshot, reviewed, report>>
    BY <1>2 DEF InspectRelease
  <2>2. counted \subseteq configuration.keys /\ counted \cap call.revoked = {}
    BY <2>1 DEF Counted, InspectsUnrevoked
  <2> HIDE DEF counted, active
  <2>3. /\ DOMAIN call' = CallFields /\ call'.at = "list"
        /\ call'.plan.verified = counted /\ call'.revoked = call.revoked
    BY <2>1 DEF CallFields
  <2>4. PlanIsTrusted'
    BY <2>1, <2>2, <2>3 DEF PlanIsTrusted, Enough
  <2> QED
    BY <2>1, <2>3, <2>4 DEF InspectsUnrevoked, ReleasesAreReviewed
<1>3. CASE ListKeys \/ \E k \in Keys : AddKey(k)
  <2>1. /\ DOMAIN call' = CallFields
        /\ call'.plan = call.plan /\ call'.revoked = call.revoked
        /\ call.at \in {"list", "install"} /\ call'.at = "install"
        /\ UNCHANGED <<configuration, snapshot, reviewed, report>>
    BY <1>3 DEF ListKeys, AddKey, CallFields
  <2>2. PlanIsTrusted'
    BY <2>1 DEF PlanIsTrusted, Enough
  <2> QED
    BY <2>1, <2>2 DEF InspectsUnrevoked, ReleasesAreReviewed
<1>4. CASE CoreInstallsRegistry
  <2>1. /\ DOMAIN call' = CallFields
        /\ call'.plan = call.plan /\ call'.revoked = call.revoked
        /\ call.at = "install" /\ call'.at = "compare" /\ snapshot' = call'.got
        /\ UNCHANGED <<configuration, reviewed, report>>
    BY <1>4 DEF CoreInstallsRegistry, CoreTakes, CallFields
  <2>2. PlanIsTrusted'
    BY <2>1 DEF PlanIsTrusted, Enough
  <2> QED
    BY <2>1, <2>2 DEF InspectsUnrevoked, ReleasesAreReviewed
<1>5. CASE CompareInstalled
  <2>1. CASE Ended("failed")
    BY <2>1, EndedWithoutClaim
  <2>2. CASE Ended("installed") /\ call.got = call.plan
    <3>1. /\ DOMAIN call' = CallFields /\ call'.at = "idle"
          /\ call'.plan = call.plan /\ call'.revoked = call.revoked
          /\ report' = "installed" /\ UNCHANGED <<configuration, snapshot, reviewed>>
      BY <1>5, <2>2 DEF Ended, Idle, CallFields, CompareInstalled
    <3>2. snapshot = call.plan
      BY <1>5, <2>2 DEF CompareInstalled
    <3> QED
      BY <1>5, <3>1, <3>2
         DEF CompareInstalled, InspectsUnrevoked, PlanIsTrusted, ReleasesAreReviewed, Enough
  <2> QED
    BY <1>5, <2>1, <2>2 DEF CompareInstalled
<1> QED
  BY <1>1, <1>2, <1>3, <1>4, <1>5

(* The steps of an upgrade.                                                *)
LEMMA UpgradingKeeps ==
  ASSUME RegistryInv, ReviewUpgrade \/ BeginUpgrade \/ CoreUpdates \/ CheckUpgrade
  PROVE  RegistryInv'
<1> USE DEF RegistryInv
<1>1. CASE ReviewUpgrade
  BY <1>1 DEF ReviewUpgrade, InspectsUnrevoked, PlanIsTrusted, ReleasesAreReviewed
<1>2. CASE BeginUpgrade
  <2>1. CASE Ended("current") \/ Ended("refused")
    BY <2>1, EndedWithoutClaim
  <2>2. CASE call' = [Idle EXCEPT !.at = "update"] /\ report' = "running"
    BY <2>2 DEF Idle, CallFields, InspectsUnrevoked, PlanIsTrusted, ReleasesAreReviewed
  <2> QED
    BY <1>2, <2>1, <2>2 DEF BeginUpgrade
<1>3. CASE CoreUpdates
  <2>1. /\ DOMAIN call' = CallFields
        /\ call.at = "update" /\ call'.at = "check" /\ snapshot' = call'.got
        /\ UNCHANGED report
    BY <1>3 DEF CoreUpdates, CoreTakes, CallFields
  <2> QED
    BY <2>1 DEF InspectsUnrevoked, PlanIsTrusted, ReleasesAreReviewed
<1>4. CASE CheckUpgrade
  <2>1. CASE Ended("failed")
    BY <2>1, EndedWithoutClaim
  <2>2. CASE Ended("applied") /\ call.got.checksum = reviewed /\ ProvenanceHolds
    <3>1. /\ DOMAIN call' = CallFields /\ call'.at = "idle" /\ report' = "applied"
          /\ UNCHANGED <<configuration, snapshot, reviewed>>
      BY <1>4, <2>2 DEF Ended, Idle, CallFields, CheckUpgrade
    <3> QED
      BY <1>4, <2>2, <3>1
         DEF CheckUpgrade, ProvenanceHolds, InspectsUnrevoked, PlanIsTrusted,
             ReleasesAreReviewed, Enough
  <2> QED
    BY <1>4, <2>1, <2>2 DEF CheckUpgrade
<1> QED
  BY <1>1, <1>2, <1>3, <1>4

(* Any step, those of publishers and administrators included.              *)
LEMMA RegistryNextKeeps == RegistryInv /\ [RegistryNext]_registryVars => RegistryInv'
<1> SUFFICES ASSUME RegistryInv, [RegistryNext]_registryVars PROVE RegistryInv'
  OBVIOUS
<1>1. CASE Publish \/ ChangeKey \/ UNCHANGED registryVars
  BY <1>1, RegistryRests DEF Publish, ChangeKey, registryVars
<1>2. CASE CommandFails
  BY <1>2, EndedWithoutClaim DEF CommandFails
<1>3. CASE ReviseConfig
  BY <1>3 DEF ReviseConfig, RegistryInv, InspectsUnrevoked, PlanIsTrusted, ReleasesAreReviewed
<1> QED
  BY <1>1, <1>2, <1>3, InstallingKeeps, UpgradingKeeps DEF RegistryNext

-----------------------------------------------------------------------------
(* The card: the first rule that holds gives the action, in the advisor's  *)
(* list and in the executor's.                                             *)

(* A rule list gives the action of the first rule that holds.              *)
LEMMA FirstHolds ==
  ASSUME NEW n \in Nat, NEW rules, DOMAIN rules = 1 .. n,
         NEW i \in 1 .. n, rules[i][1], \A j \in 1 .. n : j < i => ~rules[j][1]
  PROVE  Node!FirstOf(rules) = rules[i][2]
<1> DEFINE Holding == {k \in DOMAIN rules : rules[k][1]}
<1>1. i \in Holding /\ \A j \in Holding : j \in Nat /\ i <= j
  OBVIOUS
<1>2. \A k \in Holding : (\A j \in Holding : k <= j) => k = i
  BY <1>1
<1>3. (CHOOSE k \in Holding : \A j \in Holding : k <= j) = i
  BY <1>1, <1>2
<1> QED
  BY <1>3 DEF Node!FirstOf

(* The advisor's rules, the executor's, and the header's.                  *)
LEMMA AdviceIs ==
  ASSUME NEW d \in Node!Decision, NEW t, NEW v \in BOOLEAN
  PROVE  Node!Advice(d, t, v) =
    IF d.ready /\ d.approvals /\ ~Node!TechnicalGaps(d) /\ d.criteria = {} THEN "approve"
    ELSE IF Node!AgentDeploys(d) /\ Node!OnlyDeploymentMissing(d) /\ t = "pull-request"
      THEN "submit-pr"
    ELSE IF Node!AgentDeploys(d) /\ Node!LocalOperationsMissing(d) /\ t = "local-artifacts"
      THEN "prepare-local-operations"
    ELSE IF Node!AgentDeploys(d) /\ Node!OnlyDeploymentMissing(d) /\ t = "local-artifacts"
      THEN "publish-local-artifacts"
    ELSE IF Node!AgentDeploys(d) /\ ~Node!TechnicalGaps(d) THEN "mark-deployed"
    ELSE IF Node!AwaitsDeployment(d) /\ ~Node!TechnicalGaps(d) THEN "review"
    ELSE IF Node!AllDeployed(d) THEN "accept-criteria"
    ELSE IF Node!TestingBoundary(d) /\ v THEN "prepare"
    ELSE IF Node!TestingBoundary(d) THEN "verify"
    ELSE IF Node!AgentAdvances(d) THEN "advance-criterion"
    ELSE IF Node!OnlyEvidenceMissing(d) THEN "verify"
    ELSE IF Node!NeedsPreparation(d) THEN "prepare"
    ELSE IF d.transition THEN "transition"
    ELSE "review"
<1> DEFINE c1  == d.ready /\ d.approvals /\ ~Node!TechnicalGaps(d) /\ d.criteria = {}
           c2  == Node!AgentDeploys(d) /\ Node!OnlyDeploymentMissing(d) /\ t = "pull-request"
           c3  == Node!AgentDeploys(d) /\ Node!LocalOperationsMissing(d) /\ t = "local-artifacts"
           c4  == Node!AgentDeploys(d) /\ Node!OnlyDeploymentMissing(d) /\ t = "local-artifacts"
           c5  == Node!AgentDeploys(d) /\ ~Node!TechnicalGaps(d)
           c6  == Node!AwaitsDeployment(d) /\ ~Node!TechnicalGaps(d)
           c7  == Node!AllDeployed(d)
           c8  == Node!TestingBoundary(d) /\ v
           c9  == Node!TestingBoundary(d)
           c10 == Node!AgentAdvances(d)
           c11 == Node!OnlyEvidenceMissing(d)
           c12 == Node!NeedsPreparation(d)
           c13 == d.transition
           rules == <<<<c1, "approve">>, <<c2, "submit-pr">>,
                      <<c3, "prepare-local-operations">>,
                      <<c4, "publish-local-artifacts">>, <<c5, "mark-deployed">>,
                      <<c6, "review">>, <<c7, "accept-criteria">>, <<c8, "prepare">>,
                      <<c9, "verify">>, <<c10, "advance-criterion">>, <<c11, "verify">>,
                      <<c12, "prepare">>, <<c13, "transition">>, <<TRUE, "review">>>>
<1>1. /\ c1 \in BOOLEAN /\ c2 \in BOOLEAN /\ c3 \in BOOLEAN /\ c4 \in BOOLEAN /\
         c5 \in BOOLEAN /\ c6 \in BOOLEAN /\ c7 \in BOOLEAN /\ c8 \in BOOLEAN /\
         c9 \in BOOLEAN /\ c10 \in BOOLEAN /\ c11 \in BOOLEAN /\ c12 \in BOOLEAN /\
         c13 \in BOOLEAN
  BY DEF Node!Decision, Node!AgentDeploys, Node!AwaitsDeployment, Node!AllDeployed,
         Node!TestingBoundary, Node!AgentAdvances, Node!OnlyEvidenceMissing,
         Node!NeedsPreparation
<1>2. Node!Advice(d, t, v) = Node!FirstOf(rules)
  BY DEF Node!Advice
<1> HIDE DEF c1, c2, c3, c4, c5, c6, c7, c8, c9, c10, c11, c12, c13
<1>3. DOMAIN rules = 1 .. 14
  OBVIOUS
<1>4. /\ rules[1][1] = c1 /\ rules[2][1] = c2 /\ rules[3][1] = c3 /\ rules[4][1] = c4 /\
         rules[5][1] = c5 /\ rules[6][1] = c6 /\ rules[7][1] = c7 /\ rules[8][1] = c8 /\
         rules[9][1] = c9 /\ rules[10][1] = c10 /\ rules[11][1] = c11 /\
         rules[12][1] = c12 /\ rules[13][1] = c13 /\ rules[14][1] = TRUE
      /\ rules[1][2] = "approve" /\ rules[2][2] = "submit-pr" /\
         rules[3][2] = "prepare-local-operations" /\
         rules[4][2] = "publish-local-artifacts" /\ rules[5][2] = "mark-deployed" /\
         rules[6][2] = "review" /\ rules[7][2] = "accept-criteria" /\
         rules[8][2] = "prepare" /\ rules[9][2] = "verify" /\
         rules[10][2] = "advance-criterion" /\ rules[11][2] = "verify" /\
         rules[12][2] = "prepare" /\ rules[13][2] = "transition" /\
         rules[14][2] = "review"
  OBVIOUS
<1> HIDE DEF rules
<1>5. \A i \in 1 .. 14 :
        rules[i][1] /\ (\A j \in 1 .. 14 : j < i => ~rules[j][1])
          => Node!FirstOf(rules) = rules[i][2]
  BY <1>3, FirstHolds
<1>6. Node!FirstOf(rules) =
        IF c1 THEN "approve" ELSE IF c2 THEN "submit-pr" ELSE
        IF c3 THEN "prepare-local-operations" ELSE
        IF c4 THEN "publish-local-artifacts" ELSE IF c5 THEN "mark-deployed" ELSE
        IF c6 THEN "review" ELSE IF c7 THEN "accept-criteria" ELSE
        IF c8 THEN "prepare" ELSE IF c9 THEN "verify" ELSE
        IF c10 THEN "advance-criterion" ELSE IF c11 THEN "verify" ELSE
        IF c12 THEN "prepare" ELSE IF c13 THEN "transition" ELSE "review"
  BY <1>1, <1>4, <1>5
<1> QED
  BY <1>2, <1>6 DEF c1, c2, c3, c4, c5, c6, c7, c8, c9, c10, c11, c12, c13

(* The executor's rule list as one decision.                               *)
LEMMA NextIs ==
  ASSUME NEW d \in Node!Decision, NEW t, NEW v \in BOOLEAN
  PROVE  Node!NextInSessionAction(d, t, v) =
    IF Node!AgentDeploys(d) /\ Node!OnlyDeploymentMissing(d) /\ t = "pull-request"
      THEN "submit-pr"
    ELSE IF Node!AgentDeploys(d) /\ Node!LocalOperationsMissing(d) /\ t = "local-artifacts"
      THEN "prepare-local-operations"
    ELSE IF Node!AgentDeploys(d) /\ Node!OnlyDeploymentMissing(d) /\ t = "local-artifacts"
      THEN "publish-local-artifacts"
    ELSE IF Node!AgentDeploys(d) /\ ~Node!TechnicalGaps(d) THEN "mark-deployed"
    ELSE IF Node!AllDeployed(d) THEN "accept-criteria"
    ELSE IF Node!AgentAdvances(d) THEN "advance-criterion"
    ELSE IF Node!TestingBoundary(d) /\ ~v THEN "verify"
    ELSE IF Node!OnlyEvidenceMissing(d) THEN "verify"
    ELSE IF d.ready /\ d.approvals THEN "approve"
    ELSE IF d.transition THEN "transition"
    ELSE "review"
<1> DEFINE c1  == Node!AgentDeploys(d) /\ Node!OnlyDeploymentMissing(d) /\ t = "pull-request"
           c2  == Node!AgentDeploys(d) /\ Node!LocalOperationsMissing(d) /\ t = "local-artifacts"
           c3  == Node!AgentDeploys(d) /\ Node!OnlyDeploymentMissing(d) /\ t = "local-artifacts"
           c4  == Node!AgentDeploys(d) /\ ~Node!TechnicalGaps(d)
           c5  == Node!AllDeployed(d)
           c6  == Node!AgentAdvances(d)
           c7  == Node!TestingBoundary(d) /\ ~v
           c8  == Node!OnlyEvidenceMissing(d)
           c9  == d.ready /\ d.approvals
           c10 == d.transition
           rules == <<<<c1, "submit-pr">>, <<c2, "prepare-local-operations">>,
                      <<c3, "publish-local-artifacts">>, <<c4, "mark-deployed">>,
                      <<c5, "accept-criteria">>, <<c6, "advance-criterion">>,
                      <<c7, "verify">>, <<c8, "verify">>, <<c9, "approve">>,
                      <<c10, "transition">>, <<TRUE, "review">>>>
<1>1. /\ c1 \in BOOLEAN /\ c2 \in BOOLEAN /\ c3 \in BOOLEAN /\ c4 \in BOOLEAN /\
         c5 \in BOOLEAN /\ c6 \in BOOLEAN /\ c7 \in BOOLEAN /\ c8 \in BOOLEAN /\
         c9 \in BOOLEAN /\ c10 \in BOOLEAN
  BY DEF Node!Decision, Node!AgentDeploys, Node!AwaitsDeployment, Node!AllDeployed,
         Node!TestingBoundary, Node!AgentAdvances, Node!OnlyEvidenceMissing,
         Node!NeedsPreparation
<1>2. Node!NextInSessionAction(d, t, v) = Node!FirstOf(rules)
  BY DEF Node!NextInSessionAction
<1> HIDE DEF c1, c2, c3, c4, c5, c6, c7, c8, c9, c10
<1>3. DOMAIN rules = 1 .. 11
  OBVIOUS
<1>4. /\ rules[1][1] = c1 /\ rules[2][1] = c2 /\ rules[3][1] = c3 /\ rules[4][1] = c4 /\
         rules[5][1] = c5 /\ rules[6][1] = c6 /\ rules[7][1] = c7 /\ rules[8][1] = c8 /\
         rules[9][1] = c9 /\ rules[10][1] = c10 /\ rules[11][1] = TRUE
      /\ rules[1][2] = "submit-pr" /\ rules[2][2] = "prepare-local-operations" /\
         rules[3][2] = "publish-local-artifacts" /\ rules[4][2] = "mark-deployed" /\
         rules[5][2] = "accept-criteria" /\ rules[6][2] = "advance-criterion" /\
         rules[7][2] = "verify" /\ rules[8][2] = "verify" /\ rules[9][2] = "approve" /\
         rules[10][2] = "transition" /\ rules[11][2] = "review"
  OBVIOUS
<1> HIDE DEF rules
<1>5. \A i \in 1 .. 11 :
        rules[i][1] /\ (\A j \in 1 .. 11 : j < i => ~rules[j][1])
          => Node!FirstOf(rules) = rules[i][2]
  BY <1>3, FirstHolds
<1>6. Node!FirstOf(rules) =
        IF c1 THEN "submit-pr" ELSE IF c2 THEN "prepare-local-operations" ELSE
        IF c3 THEN "publish-local-artifacts" ELSE IF c4 THEN "mark-deployed" ELSE
        IF c5 THEN "accept-criteria" ELSE IF c6 THEN "advance-criterion" ELSE
        IF c7 THEN "verify" ELSE IF c8 THEN "verify" ELSE IF c9 THEN "approve" ELSE
        IF c10 THEN "transition" ELSE "review"
  BY <1>1, <1>4, <1>5
<1> QED
  BY <1>2, <1>6 DEF c1, c2, c3, c4, c5, c6, c7, c8, c9, c10

(* The checkpoint a person sees, as one decision.                          *)
LEMMA CheckpointIs ==
  ASSUME NEW d \in Node!Decision
  PROVE  Node!VisibleCheckpoint(d) =
    IF d.approvals THEN "approval"
    ELSE IF d.transition THEN "transition"
    ELSE IF d.clarifications THEN "clarification"
    ELSE IF d.artifacts # "none" \/ d.evidence # {} \/ d.criteria # {} THEN "work"
    ELSE "review"
<1> DEFINE c1  == d.approvals
           c2  == d.transition
           c3  == d.clarifications
           c4  == d.artifacts # "none" \/ d.evidence # {} \/ d.criteria # {}
           rules == <<<<c1, "approval">>, <<c2, "transition">>, <<c3, "clarification">>,
                      <<c4, "work">>, <<TRUE, "review">>>>
<1>1. /\ c1 \in BOOLEAN /\ c2 \in BOOLEAN /\ c3 \in BOOLEAN /\ c4 \in BOOLEAN
  BY DEF Node!Decision
<1>2. Node!VisibleCheckpoint(d) = Node!FirstOf(rules)
  BY DEF Node!VisibleCheckpoint
<1> HIDE DEF c1, c2, c3, c4
<1>3. DOMAIN rules = 1 .. 5
  OBVIOUS
<1>4. /\ rules[1][1] = c1 /\ rules[2][1] = c2 /\ rules[3][1] = c3 /\ rules[4][1] = c4 /\
         rules[5][1] = TRUE
      /\ rules[1][2] = "approval" /\ rules[2][2] = "transition" /\
         rules[3][2] = "clarification" /\ rules[4][2] = "work" /\ rules[5][2] = "review"
  OBVIOUS
<1> HIDE DEF rules
<1>5. \A i \in 1 .. 5 :
        rules[i][1] /\ (\A j \in 1 .. 5 : j < i => ~rules[j][1])
          => Node!FirstOf(rules) = rules[i][2]
  BY <1>3, FirstHolds
<1>6. Node!FirstOf(rules) =
        IF c1 THEN "approval" ELSE IF c2 THEN "transition" ELSE
        IF c3 THEN "clarification" ELSE IF c4 THEN "work" ELSE "review"
  BY <1>1, <1>4, <1>5
<1> QED
  BY <1>2, <1>6 DEF c1, c2, c3, c4

(* Where both lists act, they act alike: what the executor's list leaves   *)
(* out does not hold when an earlier rule of the advisor's failed.         *)
LEMMA SameAction ==
  ASSUME NEW d \in Node!Decision, Node!Inspectable(d), NEW t, NEW v \in BOOLEAN,
         Node!Advice(d, t, v) \notin {"prepare", "review"}
  PROVE  Node!NextInSessionAction(d, t, v) = Node!Advice(d, t, v)
<1>1. d.criteria = {} => ~Node!AwaitsDeployment(d) /\ ~Node!AgentDeploys(d)
  BY DEF Node!AwaitsDeployment, Node!AgentDeploys, Node!PendingDeployment
<1>2. d.criteria = {} => ~Node!AllDeployed(d) /\ ~Node!AgentAdvances(d)
  BY DEF Node!AllDeployed, Node!AgentAdvances
<1>3. d.criteria = {} => ~Node!TestingBoundary(d)
  BY DEF Node!TestingBoundary
<1>4. ~Node!TechnicalGaps(d) => ~Node!OnlyEvidenceMissing(d)
  BY DEF Node!TechnicalGaps, Node!OnlyEvidenceMissing
<1>5. Node!TestingBoundary(d) => Node!TechnicalGaps(d)
  BY DEF Node!TechnicalGaps, Node!TestingBoundary
<1>6. Node!AgentAdvances(d) => ~Node!TechnicalGaps(d)
  BY DEF Node!AgentAdvances
<1>7. Node!AgentDeploys(d) => Node!AwaitsDeployment(d)
  BY DEF Node!AgentDeploys
<1>8. ~Node!NeedsPreparation(d) => ~d.blocked /\ d.criteria = {}
  BY DEF Node!NeedsPreparation
<1>9. d.approvals => d.blocked
  BY DEF Node!Inspectable
<1> QED
  BY <1>1, <1>2, <1>3, <1>4, <1>5, <1>6, <1>7, <1>8, <1>9, AdviceIs, NextIs

(* What the executor does to the lifecycle, whatever the settings are.     *)
LEMMA LifecycleActions ==
  ASSUME NEW d \in Node!Decision, Node!Inspectable(d), NEW t, NEW v \in BOOLEAN,
         Node!NextInSessionAction(d, t, v)
           \in {"transition", "accept-criteria", "mark-deployed", "advance-criterion"}
  PROVE  /\ ~Node!TechnicalGaps(d)
         /\ Node!NextInSessionAction(d, t, v) = "transition" => ~d.blocked
<1>1. Node!AllDeployed(d) => ~Node!TechnicalGaps(d)
  BY DEF Node!AllDeployed
<1>2. Node!AgentAdvances(d) => ~Node!TechnicalGaps(d)
  BY DEF Node!AgentAdvances
<1>3. d.transition => ~d.blocked /\ ~Node!TechnicalGaps(d)
  BY DEF Node!Inspectable
<1> QED
  BY <1>1, <1>2, <1>3, NextIs

(* The header's checkpoint is the transition exactly when the card's is.   *)
LEMMA ReadyGate ==
  ASSUME NEW d \in Node!Decision, Node!Inspectable(d), NEW t, NEW v \in BOOLEAN
  PROVE  Node!VisibleCheckpoint(d) = "transition" <=> Node!Advice(d, t, v) = "transition"
<1>1. Node!VisibleCheckpoint(d) = "transition" <=> ~d.approvals /\ d.transition
  BY CheckpointIs
<1>2. CASE Node!Advice(d, t, v) = "transition"
  <2>1. ~Node!NeedsPreparation(d) /\ d.transition
    BY <1>2, AdviceIs
  <2>2. ~d.approvals
    BY <2>1 DEF Node!NeedsPreparation, Node!Inspectable
  <2> QED
    BY <1>1, <1>2, <2>1, <2>2
<1>3. CASE ~d.approvals /\ d.transition
  <2>1. ~Node!TechnicalGaps(d) /\ d.criteria = {} /\ ~d.blocked
    BY <1>3 DEF Node!Inspectable
  <2>2. ~Node!AwaitsDeployment(d) /\ ~Node!AgentDeploys(d)
    BY <2>1 DEF Node!AwaitsDeployment, Node!AgentDeploys, Node!PendingDeployment
  <2>3. ~Node!AllDeployed(d) /\ ~Node!AgentAdvances(d) /\ ~Node!TestingBoundary(d)
    BY <2>1 DEF Node!AllDeployed, Node!AgentAdvances, Node!TestingBoundary
  <2>4. ~Node!OnlyEvidenceMissing(d) /\ ~Node!NeedsPreparation(d)
    BY <2>1 DEF Node!TechnicalGaps, Node!OnlyEvidenceMissing, Node!NeedsPreparation
  <2> QED
    BY <1>1, <1>3, <2>2, <2>3, <2>4, AdviceIs
<1> QED
  BY <1>1, <1>2, <1>3

(* The card shows the advice of some settings, those of now while they did *)
(* not change; what was done is what the executor's rules gave for them.   *)
CardInv ==
  /\ decision \in Node!Decision /\ Node!Inspectable(decision)
  /\ delivery \in Node!Deliveries /\ failed \in BOOLEAN
  /\ shown = "none" => done = "none"
  /\ shown # "none" =>
       /\ \E t \in Node!Deliveries, v \in BOOLEAN : shown = Node!Advice(decision, t, v)
       /\ ~changed => shown = Node!Advice(decision, delivery, failed)
  /\ \/ done \in {"none", "refused"}
     \/ done = shown /\ done \in {"prepare", "review"}
     \/ /\ shown \notin {"none", "prepare", "review"}
        /\ done = Node!NextInSessionAction(decision, delivery, failed)

(* No card is shown at first.                                              *)
LEMMA CardStarts == Node!NodeInit => CardInv
BY DEF Node!NodeInit, CardInv

(* Showing, confirming, and settings that change in between.               *)
LEMMA CardNextKeeps == CardInv /\ [Node!NodeNext]_nodeVars => CardInv'
<1> SUFFICES ASSUME CardInv, [Node!NodeNext]_nodeVars PROVE CardInv'
  OBVIOUS
<1>1. CASE Node!ShowCard
  BY <1>1 DEF Node!ShowCard, CardInv
<1>2. CASE Node!SettingsChange
  BY <1>2 DEF Node!SettingsChange, CardInv
<1>3. CASE Node!ConfirmPreparation
  BY <1>3 DEF Node!ConfirmPreparation, CardInv
<1>4. CASE Node!ConfirmReview
  BY <1>4 DEF Node!ConfirmReview, CardInv
<1>5. CASE Node!ConfirmAction
  BY <1>5 DEF Node!ConfirmAction, CardInv
<1>6. CASE UNCHANGED nodeVars
  BY <1>6 DEF nodeVars, CardInv
<1> QED
  BY <1>1, <1>2, <1>3, <1>4, <1>5, <1>6 DEF Node!NodeNext

(* The two rule lists agree on the same settings, and on any settings a    *)
(* lifecycle step has nothing open before it.                              *)
LEMMA CardIsKept ==
  CardInv => /\ Node!ConfirmedIsExecuted
             /\ Node!NoLifecycleStepOverGaps
             /\ Node!ReadyGateIsTransition
<1> SUFFICES ASSUME CardInv
             PROVE  /\ Node!ConfirmedIsExecuted
                    /\ Node!NoLifecycleStepOverGaps
                    /\ Node!ReadyGateIsTransition
  OBVIOUS
<1>1. Node!ConfirmedIsExecuted
  <2> SUFFICES ASSUME done \notin {"none", "refused"}, ~changed PROVE done = shown
    BY DEF Node!ConfirmedIsExecuted
  <2>1. shown = Node!Advice(decision, delivery, failed)
    BY DEF CardInv
  <2> QED
    BY <2>1, SameAction DEF CardInv
<1>2. Node!NoLifecycleStepOverGaps
  BY LifecycleActions DEF CardInv, Node!NoLifecycleStepOverGaps
<1>3. Node!ReadyGateIsTransition
  <2> SUFFICES ASSUME shown # "none"
               PROVE  (Node!VisibleCheckpoint(decision) = "transition") = (shown = "transition")
    BY DEF Node!ReadyGateIsTransition
  <2>1. PICK t \in Node!Deliveries, v \in BOOLEAN : shown = Node!Advice(decision, t, v)
    BY DEF CardInv
  <2> QED
    BY <2>1, ReadyGate DEF CardInv
<1> QED
  BY <1>1, <1>2, <1>3

-----------------------------------------------------------------------------
(* The installation: a file with at most one start marker, before at most  *)
(* one end marker, keeps that form and what stands outside the block; a    *)
(* run that is at a step has written the steps before it.                  *)

(* What a line of the instruction file is.                                 *)
Lines == {"start", "end", "current", "obsolete"} \cup Paragraphs

(* A set of naturals has a least element.                                  *)
LEMMA LeastExists ==
  ASSUME NEW S \in SUBSET Nat, S # {}
  PROVE  \E m \in S : \A k \in S : m <= k
<1> DEFINE R == OpToRel(<, Nat)
<1>1. IsWellFoundedOn(R, Nat)
  BY NatLessThanWellFounded, Zenon
<1>2. \A i, j \in Nat : <<i, j>> \in R <=> i < j
  BY Zenon DEF OpToRel
<1> HIDE DEF R
<1>3. S \subseteq Nat
  OBVIOUS
<1>4. \E m \in S : \A k \in S : ~(<<k, m>> \in R)
  BY <1>1, <1>3, WFMin
<1>5. PICK m \in S : \A k \in S : ~(<<k, m>> \in R)
  BY <1>4
<1>6. \A k \in S : m \in Nat /\ k \in Nat /\ ~(k < m)
  BY <1>2, <1>3, <1>5
<1> QED
  BY <1>6

(* The library's search finds the first occurrence, if there is one.       *)
LEMMA FirstAtIs ==
  ASSUME NEW S, NEW file \in Seq(S), NEW mark, NEW i \in 1 .. Len(file), file[i] = mark,
         \A j \in 1 .. Len(file) : j < i => file[j] # mark
  PROVE  FirstAt(file, mark) = i
<1> DEFINE I == {j \in 1 .. Len(file) : file[j] = mark}
<1>1. i \in I /\ \A j \in I : i <= j /\ j \in Nat
  OBVIOUS
<1>2. Min(I) = i
  <2>1. \A k \in I : (\A j \in I : k <= j) => k = i
    BY <1>1
  <2> HIDE DEF I
  <2> QED
    BY <1>1, <2>1 DEF Min
<1> QED
  BY <1>1, <1>2 DEF FirstAt, SelectInSeq

(* What the operators on sequences return, element by element.             *)
LEMMA Joined ==
  ASSUME NEW S, NEW a \in Seq(S), NEW b \in Seq(S)
  PROVE  /\ a \o b \in Seq(S) /\ Len(a \o b) = Len(a) + Len(b)
         /\ \A j \in 1 .. Len(a) : (a \o b)[j] = a[j]
         /\ \A j \in 1 .. Len(b) : (a \o b)[Len(a) + j] = b[j]
OBVIOUS

(* The sequence with an element inserted, place by place.                  *)
LEMMA Inserted ==
  ASSUME NEW S, NEW s \in Seq(S), NEW i \in 1 .. Len(s) + 1, NEW e \in S
  PROVE  /\ InsertAt(s, i, e) \in Seq(S) /\ Len(InsertAt(s, i, e)) = Len(s) + 1
         /\ \A j \in 1 .. Len(s) + 1 :
              InsertAt(s, i, e)[j] = IF j < i THEN s[j] ELSE IF j = i THEN e ELSE s[j - 1]
<1> DEFINE a == SubSeq(s, 1, i - 1)
           b == SubSeq(s, i, Len(s))
           n == Len(s)
<1>1. /\ a \in Seq(S) /\ Len(a) = i - 1 /\ \A j \in 1 .. i - 1 : a[j] = s[j]
  OBVIOUS
<1>2. /\ b \in Seq(S) /\ Len(b) = n - i + 1 /\ \A j \in 1 .. n - i + 1 : b[j] = s[i + j - 1]
  OBVIOUS
<1>3. InsertAt(s, i, e) = (a \o <<e>>) \o b
  BY DEF InsertAt
<1>4. n \in Nat /\ i \in 1 .. n + 1
  OBVIOUS
<1> HIDE DEF a, b, n
<1> DEFINE c == a \o <<e>>
<1>5. /\ c \in Seq(S) /\ Len(c) = i
      /\ \A j \in 1 .. i - 1 : c[j] = s[j]
      /\ c[i] = e
  BY <1>1, <1>4
<1> HIDE DEF c
<1> DEFINE t == c \o b
<1>6. /\ t \in Seq(S) /\ Len(t) = n + 1
      /\ \A j \in 1 .. i : t[j] = c[j]
      /\ \A j \in i + 1 .. n + 1 : t[j] = b[j - i]
  BY <1>2, <1>4, <1>5
<1>7. \A j \in i + 1 .. n + 1 : b[j - i] = s[j - 1]
  BY <1>2, <1>4
<1> HIDE DEF t
<1>8. \A j \in 1 .. n + 1 : t[j] = IF j < i THEN s[j] ELSE IF j = i THEN e ELSE s[j - 1]
  <2> SUFFICES ASSUME NEW j \in 1 .. n + 1
               PROVE  t[j] = IF j < i THEN s[j] ELSE IF j = i THEN e ELSE s[j - 1]
    OBVIOUS
  <2>1. CASE j < i
    BY <1>4, <1>5, <1>6, <2>1
  <2>2. CASE j = i
    BY <1>4, <1>5, <1>6, <2>2
  <2>3. CASE j > i
    <3>1. j \in i + 1 .. n + 1
      BY <1>4, <2>3
    <3>2. t[j] = s[j - 1]
      BY <1>6, <1>7, <3>1
    <3> QED
      BY <1>4, <2>3, <3>2
  <2> QED
    BY <1>4, <2>1, <2>2, <2>3
<1> QED
  BY <1>3, <1>6, <1>8 DEF c, t, n

(* The sequence with an element removed, place by place.                   *)
LEMMA Removed ==
  ASSUME NEW S, NEW s \in Seq(S), NEW i \in 1 .. Len(s)
  PROVE  /\ RemoveAt(s, i) \in Seq(S) /\ Len(RemoveAt(s, i)) = Len(s) - 1
         /\ \A j \in 1 .. Len(s) - 1 : RemoveAt(s, i)[j] = IF j < i THEN s[j] ELSE s[j + 1]
<1> DEFINE a == SubSeq(s, 1, i - 1)
           b == SubSeq(s, i + 1, Len(s))
           n == Len(s)
<1>1. /\ a \in Seq(S) /\ Len(a) = i - 1 /\ \A j \in 1 .. i - 1 : a[j] = s[j]
  OBVIOUS
<1>2. /\ b \in Seq(S) /\ Len(b) = n - i /\ \A j \in 1 .. n - i : b[j] = s[i + j]
  OBVIOUS
<1>3. RemoveAt(s, i) = a \o b
  BY DEF RemoveAt
<1>4. n \in Nat /\ i \in 1 .. n
  OBVIOUS
<1> HIDE DEF a, b, n
<1> DEFINE t == a \o b
<1>5. /\ t \in Seq(S) /\ Len(t) = n - 1
      /\ \A j \in 1 .. i - 1 : t[j] = a[j]
      /\ \A j \in i .. n - 1 : t[j] = b[j - (i - 1)]
  <2>1. /\ t \in Seq(S) /\ Len(t) = Len(a) + Len(b)
        /\ \A j \in 1 .. Len(a) : t[j] = a[j]
        /\ \A j \in 1 .. Len(b) : t[Len(a) + j] = b[j]
    <3>1. a \in Seq(S) /\ b \in Seq(S)
      BY <1>1, <1>2
    <3> QED
      BY <3>1, Joined
  <2> HIDE DEF t
  <2>2. Len(t) = n - 1
    BY <1>1, <1>2, <1>4, <2>1
  <2>3. ASSUME NEW j \in i .. n - 1
        PROVE  t[j] = b[j - (i - 1)]
    <3>1. (j - (i - 1)) \in 1 .. Len(b) /\ Len(a) + (j - (i - 1)) = j
      BY <1>1, <1>2, <1>4
    <3> QED
      BY <2>1, <3>1
  <2> QED
    BY <1>1, <2>1, <2>2, <2>3
<1>6. \A j \in i .. n - 1 : b[j - (i - 1)] = s[j + 1]
  <2> SUFFICES ASSUME NEW j \in i .. n - 1 PROVE b[j - (i - 1)] = s[j + 1]
    OBVIOUS
  <2>1. (j - (i - 1)) \in 1 .. n - i /\ i + (j - (i - 1)) = j + 1
    BY <1>4
  <2> QED
    BY <1>2, <2>1
<1> HIDE DEF t
<1>7. \A j \in 1 .. n - 1 : t[j] = IF j < i THEN s[j] ELSE s[j + 1]
  BY <1>1, <1>4, <1>5, <1>6
<1> QED
  BY <1>3, <1>5, <1>7 DEF t, n

(* The only start marker is at s, and the only end marker after it at e.   *)
Marked(file, s, e) ==
  /\ s \in 1 .. Len(file) /\ e \in 1 .. Len(file) /\ s < e
  /\ file[s] = "start" /\ file[e] = "end"
  /\ \A i \in 1 .. Len(file) : (file[i] = "start" => i = s) /\ (file[i] = "end" => i = e)

(* A well marked block is replaced where it stands.                        *)
LEMMA BlockReplaced ==
  ASSUME NEW file \in Seq(Lines), NEW s, NEW e, Marked(file, s, e)
  PROVE  WithBlock(file) = SubSeq(file, 1, s - 1) \o Block \o SubSeq(file, e + 1, Len(file))
<1>1. FirstAt(file, "start") = s
  BY FirstAtIs DEF Marked
<1> DEFINE rest == SubSeq(file, s + 1, Len(file))
<1>2. /\ rest \in Seq(Lines) /\ Len(rest) = Len(file) - s
      /\ \A j \in 1 .. Len(file) - s : rest[j] = file[s + j]
  BY DEF Marked
<1>3. FirstAt(rest, "end") = e - s
  <2>1. (e - s) \in 1 .. Len(rest) /\ rest[e - s] = "end"
    BY <1>2 DEF Marked
  <2>2. \A j \in 1 .. Len(rest) : j < e - s => rest[j] # "end"
    BY <1>2 DEF Marked
  <2> HIDE DEF rest
  <2> QED
    BY <1>2, <2>1, <2>2, FirstAtIs
<1>4. SubSeq(rest, (e - s) + 1, Len(rest)) = SubSeq(file, e + 1, Len(file))
  BY <1>2 DEF Marked
<1>5. BothMarkers(file)
  BY DEF Marked, BothMarkers, Markers, Range
<1> QED
  BY <1>1, <1>3, <1>4, <1>5 DEF WithBlock, AfterBlock

(* The first place of a line is a place of the file where there is one.    *)
LEMMA FirstAtType ==
  ASSUME NEW S, NEW file \in Seq(S), NEW mark
  PROVE  /\ FirstAt(file, mark) \in 0 .. Len(file)
         /\ (\E i \in 1 .. Len(file) : file[i] = mark)
               => FirstAt(file, mark) \in 1 .. Len(file)
<1> DEFINE I == {j \in 1 .. Len(file) : file[j] = mark}
<1>1. CASE I = {}
  <2>1. FirstAt(file, mark) = 0
    BY <1>1 DEF FirstAt, SelectInSeq
  <2> QED
    BY <1>1, <2>1
<1>2. CASE I # {}
  <2>1. I \in SUBSET Nat
    OBVIOUS
  <2>2. PICK m \in I : \A k \in I : m <= k
    BY <1>2, <2>1, LeastExists
  <2>3. FirstAt(file, mark) = Min(I)
    BY <1>2 DEF FirstAt, SelectInSeq
  <2>4. Min(I) \in I
    BY <2>2 DEF Min
  <2> QED
    BY <2>3, <2>4
<1> QED
  BY <1>1, <1>2

(* A file the installer has not written a block to.                        *)
NoMarker(file) == \A i \in 1 .. Len(file) : file[i] \notin Markers

(* A file with no block, or with one.                                      *)
WellMarked(file) == NoMarker(file) \/ \E s, e \in 1 .. Len(file) : Marked(file, s, e)

(* The paragraphs ps stand outside the block.                              *)
Kept(file, ps) ==
  \/ NoMarker(file) /\ \A p \in ps : \E i \in 1 .. Len(file) : file[i] = p
  \/ \E s, e \in 1 .. Len(file) :
       /\ Marked(file, s, e)
       /\ \A p \in ps : \E i \in 1 .. Len(file) : file[i] = p /\ (i < s \/ i > e)

(* The block the installer writes.                                         *)
LEMMA BlockFacts ==
  /\ Block \in Seq(Lines) /\ Len(Block) = 3
  /\ Block[1] = "start" /\ Block[2] = "current" /\ Block[3] = "end"
BY DEF Block, Lines

(* Writing the block gives a file of lines.                                *)
LEMMA WithBlockType ==
  ASSUME NEW file \in Seq(Lines)
  PROVE  WithBlock(file) \in Seq(Lines)
<1>1. CASE BothMarkers(file)
  <2> DEFINE at == FirstAt(file, "start")
             rest == SubSeq(file, at + 1, Len(file))
             past == FirstAt(rest, "end")
  <2>1. \E i \in 1 .. Len(file) : file[i] = "start"
    BY <1>1 DEF BothMarkers, Markers, Range
  <2>2. at \in 1 .. Len(file)
    BY <2>1, FirstAtType
  <2>3. rest \in Seq(Lines)
    <3> HIDE DEF at
    <3> QED
      BY <2>2
  <2>4. past \in 0 .. Len(rest)
    <3> HIDE DEF rest
    <3> QED
      BY <2>3, FirstAtType
  <2>5. SubSeq(rest, past + 1, Len(rest)) \in Seq(Lines)
    <3> HIDE DEF rest, past
    <3> QED
      BY <2>3, <2>4
  <2>6. SubSeq(file, 1, at - 1) \in Seq(Lines)
    <3> HIDE DEF at
    <3> QED
      BY <2>2
  <2>7. WithBlock(file) = (SubSeq(file, 1, at - 1) \o Block) \o SubSeq(rest, past + 1, Len(rest))
    BY <1>1 DEF WithBlock, AfterBlock
  <2> HIDE DEF at, rest, past
  <2> QED
    BY <2>5, <2>6, <2>7, BlockFacts, Joined
<1>2. CASE ~BothMarkers(file)
  BY <1>2, BlockFacts, Joined DEF WithBlock
<1> QED
  BY <1>1, <1>2

(* Writing the block keeps what stands outside it.                         *)
LEMMA InstructionsKept ==
  ASSUME NEW file \in Seq(Lines), NEW ps \in SUBSET Paragraphs, Kept(file, ps)
  PROVE  Kept(WithBlock(file), ps)
<1>1. \A p \in ps : p \notin {"start", "current", "end"}
  BY InstallAssumption
<1>2. CASE NoMarker(file) /\ \A p \in ps : \E i \in 1 .. Len(file) : file[i] = p
  <2> DEFINE new == file \o Block
             n   == Len(file)
  <2>1. WithBlock(file) = new
    BY <1>2 DEF NoMarker, WithBlock, BothMarkers, Markers, Range
  <2>2. /\ new \in Seq(Lines) /\ Len(new) = n + 3 /\ n \in Nat
        /\ \A j \in 1 .. n : new[j] = file[j]
        /\ new[n + 1] = "start" /\ new[n + 2] = "current" /\ new[n + 3] = "end"
    <3>1. Block \in Seq(Lines)
      BY BlockFacts
    <3>2. /\ new \in Seq(Lines) /\ Len(new) = n + Len(Block)
          /\ \A j \in 1 .. n : new[j] = file[j]
          /\ \A j \in 1 .. Len(Block) : new[n + j] = Block[j]
      BY <3>1, Joined
    <3>3. n \in Nat
      OBVIOUS
    <3> HIDE DEF new, n
    <3>4. /\ 1 \in 1 .. Len(Block) /\ 2 \in 1 .. Len(Block) /\ 3 \in 1 .. Len(Block)
          /\ Len(Block) = 3
      BY BlockFacts
    <3>5. new[n + 1] = Block[1] /\ new[n + 2] = Block[2] /\ new[n + 3] = Block[3]
      BY <3>2, <3>4
    <3> QED
      BY <3>2, <3>3, <3>4, <3>5, BlockFacts
  <2>3. \A j \in 1 .. n : file[j] \notin Markers
    BY <1>2 DEF NoMarker
  <2>4. \A p \in ps : \E i \in 1 .. n : file[i] = p
    BY <1>2
  <2> HIDE DEF new, n
  <2>5. ASSUME NEW i \in 1 .. n + 3
        PROVE  (new[i] = "start" => i = n + 1) /\ (new[i] = "end" => i = n + 3)
    <3>1. i \in 1 .. n \/ i = n + 1 \/ i = n + 2 \/ i = n + 3
      BY <2>2
    <3> QED
      BY <2>2, <2>3, <3>1 DEF Markers
  <2>6. Marked(new, n + 1, n + 3)
    BY <2>2, <2>5 DEF Marked
  <2>7. \A p \in ps : \E i \in 1 .. Len(new) : new[i] = p /\ (i < n + 1 \/ i > n + 3)
    BY <2>2, <2>4
  <2>8. n + 1 \in 1 .. Len(new) /\ n + 3 \in 1 .. Len(new)
    BY <2>2
  <2> QED
    BY <2>1, <2>6, <2>7, <2>8 DEF Kept
<1>3. ASSUME NEW s \in 1 .. Len(file), NEW e \in 1 .. Len(file), Marked(file, s, e),
             \A p \in ps : \E i \in 1 .. Len(file) : file[i] = p /\ (i < s \/ i > e)
      PROVE  Kept(WithBlock(file), ps)
  <2> DEFINE n    == Len(file)
             pre  == SubSeq(file, 1, s - 1)
             post == SubSeq(file, e + 1, n)
  <2>1. WithBlock(file) = (pre \o Block) \o post
    BY <1>3, BlockReplaced
  <2>2. n \in Nat /\ s \in 1 .. n /\ e \in 1 .. n /\ s < e
    BY <1>3 DEF Marked
  <2>3. /\ pre \in Seq(Lines) /\ Len(pre) = s - 1
        /\ \A j \in 1 .. s - 1 : pre[j] = file[j]
    BY <2>2
  <2>4. /\ post \in Seq(Lines) /\ Len(post) = n - e
        /\ \A j \in 1 .. n - e : post[j] = file[e + j]
    BY <2>2
  <2>5. \A i \in 1 .. n : (file[i] = "start" => i = s) /\ (file[i] = "end" => i = e)
    BY <1>3 DEF Marked
  <2>6. \A p \in ps : \E i \in 1 .. n : file[i] = p /\ (i < s \/ i > e)
    BY <1>3
  <2> HIDE DEF n, pre, post
  <2> DEFINE front == pre \o Block
  <2>7. /\ front \in Seq(Lines) /\ Len(front) = s + 2
        /\ \A j \in 1 .. s - 1 : front[j] = file[j]
        /\ front[s] = "start" /\ front[s + 1] = "current" /\ front[s + 2] = "end"
    <3>0. /\ front \in Seq(Lines) /\ Len(front) = Len(pre) + Len(Block)
          /\ \A j \in 1 .. Len(pre) : front[j] = pre[j]
          /\ \A j \in 1 .. Len(Block) : front[Len(pre) + j] = Block[j]
      <4>1. pre \in Seq(Lines) /\ Block \in Seq(Lines)
        BY <2>3, BlockFacts
      <4> QED
        BY <4>1, Joined
    <3>1. /\ front \in Seq(Lines) /\ Len(front) = (s - 1) + 3
          /\ \A j \in 1 .. s - 1 : front[j] = pre[j]
          /\ \A j \in 1 .. 3 : front[(s - 1) + j] = Block[j]
      <4> HIDE DEF front
      <4>1. Len(pre) = s - 1 /\ Len(Block) = 3
        BY <2>3, BlockFacts
      <4> QED
        BY <3>0, <4>1
    <3>2. /\ (s - 1) + 1 = s /\ (s - 1) + 2 = s + 1 /\ (s - 1) + 3 = s + 2
          /\ 1 \in 1 .. 3 /\ 2 \in 1 .. 3 /\ 3 \in 1 .. 3
      BY <2>2
    <3> HIDE DEF front
    <3>3. front[s] = Block[1] /\ front[s + 1] = Block[2] /\ front[s + 2] = Block[3]
      BY <3>1, <3>2
    <3> QED
      BY <2>3, <3>1, <3>2, <3>3, BlockFacts
  <2> HIDE DEF front
  <2> DEFINE new == front \o post
  <2>8. /\ new \in Seq(Lines) /\ Len(new) = (s + 2) + (n - e)
        /\ \A j \in 1 .. s + 2 : new[j] = front[j]
        /\ \A j \in 1 .. n - e : new[(s + 2) + j] = file[e + j]
    <3>1. /\ new \in Seq(Lines) /\ Len(new) = Len(front) + Len(post)
          /\ \A j \in 1 .. Len(front) : new[j] = front[j]
          /\ \A j \in 1 .. Len(post) : new[Len(front) + j] = post[j]
      <4>1. front \in Seq(Lines) /\ post \in Seq(Lines)
        BY <2>4, <2>7
      <4> QED
        BY <4>1, Joined
    <3> HIDE DEF new
    <3>2. Len(front) = s + 2 /\ Len(post) = n - e
      BY <2>4, <2>7
    <3>3. /\ \A j \in 1 .. s + 2 : new[j] = front[j]
          /\ \A j \in 1 .. n - e : new[(s + 2) + j] = post[j]
      BY <3>1, <3>2
    <3> QED
      BY <2>4, <3>1, <3>2, <3>3
  <2> HIDE DEF new
  <2>9. new[s] = "start" /\ new[s + 1] = "current" /\ new[s + 2] = "end"
    BY <2>2, <2>7, <2>8
  <2>10. ASSUME NEW i \in 1 .. Len(new)
         PROVE  (new[i] = "start" => i = s) /\ (new[i] = "end" => i = s + 2)
    <3>1. CASE i < s
      <4>1. new[i] = file[i] /\ i \in 1 .. n
        BY <2>2, <2>7, <2>8, <3>1
      <4> QED
        BY <2>2, <2>5, <3>1, <4>1
    <3>2. CASE i \in s .. s + 2
      <4>1. i = s \/ i = s + 1 \/ i = s + 2
        BY <2>2, <3>2
      <4> QED
        BY <2>9, <4>1
    <3>3. CASE i > s + 2
      <4> DEFINE j == i - (s + 2)
      <4>1. j \in 1 .. n - e /\ (s + 2) + j = i
        BY <2>2, <2>8, <3>3
      <4>2. new[i] = file[e + j] /\ e + j \in 1 .. n /\ e + j > e
        BY <2>2, <2>8, <4>1
      <4> QED
        BY <2>2, <2>5, <4>2
    <3> QED
      BY <2>2, <2>8, <3>1, <3>2, <3>3
  <2>11. s \in 1 .. Len(new) /\ s + 2 \in 1 .. Len(new) /\ s < s + 2
    BY <2>2, <2>8
  <2>12. Marked(new, s, s + 2)
    BY <2>9, <2>10, <2>11 DEF Marked
  <2>13. ASSUME NEW p \in ps
         PROVE  \E i \in 1 .. Len(new) : new[i] = p /\ (i < s \/ i > s + 2)
    <3>1. PICK i \in 1 .. n : file[i] = p /\ (i < s \/ i > e)
      BY <2>6
    <3>2. CASE i < s
      <4>1. i \in 1 .. Len(new) /\ new[i] = p
        BY <2>2, <2>7, <2>8, <3>1, <3>2
      <4> QED
        BY <3>2, <4>1
    <3>3. CASE i > e
      <4> DEFINE j == i - e
      <4>1. j \in 1 .. n - e /\ e + j = i
        BY <2>2, <3>3
      <4>2. new[(s + 2) + j] = p
        BY <2>8, <3>1, <4>1
      <4> HIDE DEF j
      <4>3. (s + 2) + j \in 1 .. Len(new) /\ (s + 2) + j > s + 2
        BY <2>2, <2>8, <4>1
      <4> QED
        BY <4>2, <4>3
    <3> QED
      BY <3>1, <3>2, <3>3
  <2> QED
    BY <2>1, <2>11, <2>12, <2>13 DEF Kept, new, front
<1> QED
  BY <1>2, <1>3 DEF Kept

(* What people own in a file, and that it stands outside the block.        *)
Owned(file) ==
  {p \in Paragraphs : \E i \in DOMAIN file : file[i] = p /\ ~InsideBlock(file, i)}

(* What a person wrote around the block stands outside of it.              *)
LEMMA OwnedIsKept ==
  ASSUME NEW file \in Seq(Lines), WellMarked(file)
  PROVE  Kept(file, Owned(file))
<1>1. CASE NoMarker(file)
  BY <1>1 DEF Kept, Owned
<1>2. ASSUME NEW s \in 1 .. Len(file), NEW e \in 1 .. Len(file), Marked(file, s, e)
      PROVE  Kept(file, Owned(file))
  <2>1. ASSUME NEW p \in Owned(file)
        PROVE  \E i \in 1 .. Len(file) : file[i] = p /\ (i < s \/ i > e)
    <3>1. PICK i \in 1 .. Len(file) : file[i] = p /\ ~InsideBlock(file, i)
      BY DEF Owned
    <3>2. p \notin Markers
      BY <2>1, <3>1, InstallAssumption, <1>2 DEF Owned, Marked, Markers
    <3>3. ~(s < i /\ i < e) /\ i # s /\ i # e
      BY <1>2, <3>1, <3>2 DEF InsideBlock, Marked, Markers
    <3> QED
      BY <3>1, <3>3
  <2> QED
    BY <1>2, <2>1 DEF Kept
<1> QED
  BY <1>1, <1>2 DEF WellMarked


(* What people do to the file keeps its form, unless they delete a marker. *)
LEMMA ParagraphInserted ==
  ASSUME NEW file \in Seq(Lines), WellMarked(file), NEW p \in Paragraphs,
         NEW i \in 1 .. Len(file) + 1
  PROVE  InsertAt(file, i, p) \in Seq(Lines) /\ WellMarked(InsertAt(file, i, p))
<1> DEFINE new == InsertAt(file, i, p)
           n   == Len(file)
<1>1. /\ new \in Seq(Lines) /\ Len(new) = n + 1
      /\ \A j \in 1 .. n + 1 : new[j] = IF j < i THEN file[j] ELSE IF j = i THEN p ELSE file[j - 1]
  <2>1. p \in Lines
    BY DEF Lines
  <2>2. /\ InsertAt(file, i, p) \in Seq(Lines)
        /\ Len(InsertAt(file, i, p)) = Len(file) + 1
        /\ \A j \in 1 .. Len(file) + 1 :
             InsertAt(file, i, p)[j] = IF j < i THEN file[j]
                                       ELSE IF j = i THEN p ELSE file[j - 1]
    BY ONLY file \in Seq(Lines), i \in 1 .. Len(file) + 1, <2>1, Inserted
  <2> QED
    BY <2>2
<1>2. n \in Nat /\ i \in 1 .. n + 1
  OBVIOUS
<1>3. p # "start" /\ p # "end"
  BY InstallAssumption
<1> HIDE DEF new
<1>4. CASE NoMarker(file)
  <2>1. \A j \in 1 .. n : file[j] # "start" /\ file[j] # "end"
    BY <1>4 DEF NoMarker, Markers
  <2> HIDE DEF n
  <2>2. ASSUME NEW j \in 1 .. n + 1
        PROVE  new[j] # "start" /\ new[j] # "end"
    <3>1. CASE j < i
      BY <1>1, <1>2, <2>1, <3>1
    <3>2. CASE j = i
      BY <1>1, <1>2, <1>3, <3>2
    <3>3. CASE j > i
      <4>1. j - 1 \in 1 .. n /\ new[j] = file[j - 1]
        BY <1>1, <1>2, <3>3
      <4> QED
        BY <2>1, <4>1
    <3> QED
      BY <1>2, <3>1, <3>2, <3>3
  <2>3. NoMarker(new)
    BY <1>1, <2>2 DEF NoMarker, Markers
  <2> QED
    BY <1>1, <2>3 DEF WellMarked, new
<1>5. ASSUME NEW s \in 1 .. Len(file), NEW e \in 1 .. Len(file), Marked(file, s, e)
      PROVE  WellMarked(new)
  <2>1. /\ s \in 1 .. n /\ e \in 1 .. n /\ s < e
        /\ file[s] = "start" /\ file[e] = "end"
        /\ \A j \in 1 .. n : (file[j] = "start" => j = s) /\ (file[j] = "end" => j = e)
    BY <1>5 DEF Marked
  <2> HIDE DEF n
  <2> DEFINE s2 == IF s < i THEN s ELSE s + 1
             e2 == IF e < i THEN e ELSE e + 1
  <2>2. s2 \in 1 .. n + 1 /\ e2 \in 1 .. n + 1 /\ s2 < e2
    BY <1>2, <2>1
  <2>3. new[s2] = "start" /\ new[e2] = "end"
    <3>1. ASSUME NEW k \in 1 .. n, k < i
          PROVE  new[k] = file[k]
      BY <1>1, <1>2, <3>1
    <3>2. ASSUME NEW k \in 1 .. n, ~(k < i)
          PROVE  new[k + 1] = file[k]
      <4>1. k + 1 \in 1 .. n + 1 /\ ~(k + 1 < i) /\ k + 1 # i /\ (k + 1) - 1 = k
        BY <1>2, <3>2
      <4> QED
        BY <1>1, <4>1
    <3> HIDE DEF n
    <3> QED
      BY <2>1, <3>1, <3>2
  <2>4. ASSUME NEW j \in 1 .. n + 1
        PROVE  (new[j] = "start" => j = s2) /\ (new[j] = "end" => j = e2)
    <3>1. CASE j < i
      BY <1>1, <1>2, <2>1, <3>1
    <3>2. CASE j = i
      BY <1>1, <1>2, <1>3, <2>1, <3>2
    <3>3. CASE j > i
      <4>1. j - 1 \in 1 .. n /\ new[j] = file[j - 1]
        BY <1>1, <1>2, <3>3
      <4> QED
        BY <1>2, <2>1, <3>3, <4>1
    <3> QED
      BY <1>2, <3>1, <3>2, <3>3
  <2> HIDE DEF s2, e2
  <2>5. Marked(new, s2, e2)
    BY <1>1, <2>2, <2>3, <2>4 DEF Marked
  <2> QED
    BY <1>1, <2>2, <2>5 DEF WellMarked
<1> QED
  BY <1>1, <1>4, <1>5 DEF WellMarked, new

(* A person who removes a line that is no marker leaves the block marked.  *)
LEMMA LineRemoved ==
  ASSUME NEW file \in Seq(Lines), NEW i \in 1 .. Len(file)
  PROVE  /\ RemoveAt(file, i) \in Seq(Lines)
         /\ WellMarked(file) /\ file[i] \notin Markers => WellMarked(RemoveAt(file, i))
<1> DEFINE new == RemoveAt(file, i)
           n   == Len(file)
<1>1. /\ new \in Seq(Lines) /\ Len(new) = n - 1
      /\ \A j \in 1 .. n - 1 : new[j] = IF j < i THEN file[j] ELSE file[j + 1]
  BY Removed
<1>2. n \in Nat /\ i \in 1 .. n
  OBVIOUS
<1> HIDE DEF new
<1>3. CASE NoMarker(file)
  <2>1. \A j \in 1 .. n : file[j] # "start" /\ file[j] # "end"
    BY <1>3 DEF NoMarker, Markers
  <2> HIDE DEF n
  <2>2. ASSUME NEW j \in 1 .. n - 1
        PROVE  new[j] # "start" /\ new[j] # "end"
    BY <1>1, <1>2, <2>1
  <2>3. NoMarker(new)
    BY <1>1, <2>2 DEF NoMarker, Markers
  <2> QED
    BY <1>1, <2>3 DEF WellMarked, new
<1>4. ASSUME NEW s \in 1 .. Len(file), NEW e \in 1 .. Len(file), Marked(file, s, e),
             file[i] \notin Markers
      PROVE  WellMarked(new)
  <2>1. /\ s \in 1 .. n /\ e \in 1 .. n /\ s < e
        /\ file[s] = "start" /\ file[e] = "end"
        /\ \A j \in 1 .. n : (file[j] = "start" => j = s) /\ (file[j] = "end" => j = e)
    BY <1>4 DEF Marked
  <2>2. i # s /\ i # e
    BY <1>4, <2>1 DEF Markers
  <2> HIDE DEF n
  <2> DEFINE s2 == IF s < i THEN s ELSE s - 1
             e2 == IF e < i THEN e ELSE e - 1
  <2>3. s2 \in 1 .. n - 1 /\ e2 \in 1 .. n - 1 /\ s2 < e2
    BY <1>2, <2>1, <2>2
  <2>4. new[s2] = "start" /\ new[e2] = "end"
    <3>1. ASSUME NEW k \in 1 .. n - 1, k < i
          PROVE  new[k] = file[k]
      BY <1>1, <3>1
    <3>2. ASSUME NEW k \in 1 .. n, k > i
          PROVE  new[k - 1] = file[k]
      <4>1. k - 1 \in 1 .. n - 1 /\ ~(k - 1 < i) /\ (k - 1) + 1 = k
        BY <1>2, <3>2
      <4> QED
        BY <1>1, <4>1
    <3>3. ASSUME NEW k \in 1 .. n, k < i
          PROVE  k \in 1 .. n - 1
      BY <1>2, <3>3
    <3>4. (s < i \/ s > i) /\ (e < i \/ e > i)
      BY <1>2, <2>1, <2>2
    <3>5. ~(s < i) => s > i
      BY <3>4
    <3>6. ~(e < i) => e > i
      BY <3>4
    <3> QED
      BY <2>1, <3>1, <3>2, <3>3, <3>5, <3>6
  <2>5. ASSUME NEW j \in 1 .. n - 1
        PROVE  (new[j] = "start" => j = s2) /\ (new[j] = "end" => j = e2)
    <3>1. CASE j < i
      <4>1. j \in 1 .. n /\ new[j] = file[j]
        BY <1>1, <1>2, <3>1
      <4>2. (new[j] = "start" => j = s) /\ (new[j] = "end" => j = e)
        BY <2>1, <4>1
      <4> QED
        BY <3>1, <4>2
    <3>2. CASE ~(j < i)
      <4>1. j + 1 \in 1 .. n /\ new[j] = file[j + 1]
        BY <1>1, <1>2, <3>2
      <4> QED
        BY <1>2, <2>1, <3>2, <4>1
    <3> QED
      BY <3>1, <3>2
  <2> HIDE DEF s2, e2
  <2>6. Marked(new, s2, e2)
    BY <1>1, <2>3, <2>4, <2>5 DEF Marked
  <2> QED
    BY <1>1, <2>3, <2>6 DEF WellMarked
<1> QED
  BY <1>1, <1>3, <1>4 DEF WellMarked, new

(* Text can be outside the block only where there is at most one.          *)
LEMMA KeptIsWellMarked ==
  ASSUME NEW file \in Seq(Lines), NEW ps, Kept(file, ps)
  PROVE  WellMarked(file)
BY DEF Kept, WellMarked


(* Every part of a project but the report.                                 *)
PartsWritten == Range(InstallSteps) \ {"reported"}

(* The file is kept, and a run at a step has written the parts before it.  *)
InstallInv ==
  /\ config \in Config /\ step \in 0 .. 12
  /\ instructions \in Seq(Lines) /\ own \subseteq Paragraphs /\ installEdits \in Nat
  /\ step > 0 => outcome = "running" /\ Valid(config)
  /\ installed \subseteq PartsWritten
  /\ \A i \in 1 .. 11 : i < step => InstallSteps[i] \in installed
  /\ step > 6 => developer = config.executor
  /\ outcome = "installed" =>
       installed = PartsWritten /\ developer = config.executor /\ Valid(config)
  /\ ~damaged => Kept(instructions, own)
  /\ installEdits = 0 =>
       /\ instructions \in {<<>>, <<"start", "obsolete", "end">>, Block}
       /\ "instructions" \in installed => damaged \/ instructions = Block

(* The steps the proofs tell apart, by number.                             *)
LEMMA StepNames ==
  /\ \A i \in 1 .. 12 :
       /\ InstallSteps[i] = "assignments" <=> i = 6
       /\ InstallSteps[i] = "instructions" <=> i = 11
       /\ InstallSteps[i] = "reported" <=> i = 12
  /\ PartsWritten = {InstallSteps[i] : i \in 1 .. 11}
<1>1. /\ InstallSteps[1] = "git" /\ InstallSteps[2] = "core-project"
      /\ InstallSteps[3] = "method" /\ InstallSteps[4] = "actors"
      /\ InstallSteps[5] = "swarm" /\ InstallSteps[6] = "assignments"
      /\ InstallSteps[7] = "work" /\ InstallSteps[8] = "profile"
      /\ InstallSteps[9] = "metadata" /\ InstallSteps[10] = "skill"
      /\ InstallSteps[11] = "instructions" /\ InstallSteps[12] = "reported"
      /\ DOMAIN InstallSteps = 1 .. 12
  BY DEF InstallSteps
<1>2. \A i \in 1 .. 12 : \/ i = 1 \/ i = 2 \/ i = 3 \/ i = 4 \/ i = 5 \/ i = 6
                         \/ i = 7 \/ i = 8 \/ i = 9 \/ i = 10 \/ i = 11 \/ i = 12
  OBVIOUS
<1> HIDE DEF InstallSteps
<1>3. \A i \in 1 .. 12 :
        /\ InstallSteps[i] = "assignments" <=> i = 6
        /\ InstallSteps[i] = "instructions" <=> i = 11
        /\ InstallSteps[i] = "reported" <=> i = 12
  BY <1>1, <1>2
<1>4. Range(InstallSteps) = {InstallSteps[i] : i \in 1 .. 12}
  BY <1>1 DEF Range
<1>5. PartsWritten = {InstallSteps[i] : i \in 1 .. 11}
  BY <1>3, <1>4 DEF PartsWritten
<1> QED
  BY <1>3, <1>5

(* The normalised configuration is valid: its depth is the chosen one.     *)
LEMMA DepthIsChosen ==
  ASSUME NEW c \in Config
  PROVE  ChosenDepth(c) \in Range(DepthOrder) /\ ChosenDepth(c) # "default"
<1>1. Range(DepthOrder) = {"minimal", "standard", "comprehensive", "regulated"}
  <2>1. /\ DepthOrder[1] = "minimal" /\ DepthOrder[2] = "standard"
        /\ DepthOrder[3] = "comprehensive" /\ DepthOrder[4] = "regulated"
        /\ DOMAIN DepthOrder = 1 .. 4
    BY DEF DepthOrder
  <2>2. \A i \in 1 .. 4 : i = 1 \/ i = 2 \/ i = 3 \/ i = 4
    OBVIOUS
  <2> HIDE DEF DepthOrder
  <2> QED
    BY <2>1, <2>2 DEF Range
<1>2. /\ c.profile \in DOMAIN ProfileDepth
      /\ c.depth \in Range(DepthOrder) \cup {"default"}
  BY DEF Config
<1>3. ProfileDepth[c.profile] \in {"standard", "comprehensive", "regulated"}
  BY <1>2 DEF ProfileDepth
<1> QED
  BY <1>1, <1>2, <1>3 DEF ChosenDepth

(* The configuration that is written is not refused when it is read again. *)
LEMMA NormalizedIsValid ==
  ASSUME NEW c \in Config, Valid(c)
  PROVE  Normalized(c) \in Config /\ Valid(Normalized(c))
<1> DEFINE m == Normalized(c)
<1>1. /\ m.profile = c.profile /\ m.depth = ChosenDepth(c) /\ m.roles = "developer"
      /\ m.executor = c.executor /\ m.runtimes = c.runtimes /\ m.criteria = "pairs"
  BY DEF Normalized, Config
<1>2. m \in Config
  BY DepthIsChosen DEF Normalized, Config
<1> HIDE DEF m
<1>3. ChosenDepth(m) = ChosenDepth(c)
  BY <1>1, DepthIsChosen DEF ChosenDepth
<1>4. Valid(m)
  BY <1>1, <1>3 DEF Valid, DeclaredExecutor, ReadableCriteria
<1> QED
  BY <1>2, <1>4 DEF m

(* While nobody edited the file, it has the block or none.                 *)
LEMMA FirstBlocks ==
  /\ WithBlock(<<>>) = Block
  /\ WithBlock(<<"start", "obsolete", "end">>) = Block
  /\ WithBlock(Block) = Block
<1>1. WithBlock(<<>>) = Block
  <2>1. ~BothMarkers(<<>>)
    BY DEF BothMarkers, Markers, Range
  <2> QED
    BY <2>1 DEF WithBlock, Block
<1>2. ASSUME NEW text \in {"obsolete", "current"}
      PROVE  WithBlock(<<"start", text, "end">>) = Block
  <2> DEFINE file == <<"start", text, "end">>
  <2>1. file \in Seq(Lines)
    BY DEF Lines
  <2>2. /\ Len(file) = 3 /\ file[1] = "start" /\ file[2] = text /\ file[3] = "end"
    OBVIOUS
  <2>3. SubSeq(file, 1, 1 - 1) = <<>> /\ SubSeq(file, 3 + 1, Len(file)) = <<>>
    OBVIOUS
  <2> HIDE DEF file
  <2>4. \A i \in 1 .. 3 : i = 1 \/ i = 2 \/ i = 3
    OBVIOUS
  <2>5. Marked(file, 1, 3)
    BY <2>2, <2>4 DEF Marked
  <2>6. WithBlock(file) = <<>> \o Block \o <<>>
    BY <2>1, <2>3, <2>5, BlockReplaced
  <2>7. Block \in Seq(Lines)
    BY BlockFacts
  <2> QED
    BY <2>6, <2>7 DEF file
<1> QED
  BY <1>1, <1>2 DEF Block

(* A project without, or with an older, installation.                      *)
LEMMA InstallStarts == InstallInit => InstallInv
<1> SUFFICES ASSUME InstallInit PROVE InstallInv
  OBVIOUS
<1>1. instructions \in Seq(Lines)
  <2>1. <<>> \in Seq(Lines) /\ <<"start", "obsolete", "end">> \in Seq(Lines)
    BY DEF Lines
  <2> QED
    BY <2>1 DEF InstallInit
<1>2. Kept(instructions, {})
  <2>1. CASE instructions = <<>>
    BY <2>1 DEF Kept, NoMarker
  <2>2. CASE instructions = <<"start", "obsolete", "end">>
    <3>1. /\ Len(instructions) = 3
          /\ instructions[1] = "start" /\ instructions[2] = "obsolete" /\ instructions[3] = "end"
      BY <2>2
    <3>2. \A i \in 1 .. 3 : i = 1 \/ i = 2 \/ i = 3
      OBVIOUS
    <3>3. Marked(instructions, 1, 3)
      BY <3>1, <3>2 DEF Marked
    <3> QED
      BY <3>1, <3>3 DEF Kept
  <2> QED
    BY <2>1, <2>2 DEF InstallInit
<1> QED
  BY <1>1, <1>2 DEF InstallInit, InstallInv

(* Edits of a person, the steps of apply and its failures.                 *)
LEMMA InstallNextKeeps ==
  ASSUME InstallInv, [InstallNext]_installVars
  PROVE  InstallInv'
<1> USE DEF InstallInv
<1>1. CASE BeginInstall
  <2>1. CASE Valid(config) /\ config' = Normalized(config) /\ step' = 1 /\ outcome' = "running"
    <3>1. config' \in Config /\ Valid(config')
      BY <2>1, NormalizedIsValid
    <3> QED
      BY <1>1, <2>1, <3>1 DEF BeginInstall, Valid, Kept, Marked, NoMarker
  <2>2. CASE outcome' = "refused" /\ UNCHANGED <<config, step>>
    <3>1. step = 0
      BY <1>1 DEF BeginInstall
    <3> QED
      BY <1>1, <2>2, <3>1 DEF BeginInstall, Valid, Kept, Marked, NoMarker
  <2> QED
    BY <1>1, <2>1, <2>2 DEF BeginInstall
<1>2. ASSUME NEW name \in PartsWritten, Created(name)
      PROVE  /\ config' \in Config /\ step' \in 0 .. 12 /\ step \in 1 .. 11
             /\ step' > 0 => outcome' = "running" /\ Valid(config')
             /\ installed' \subseteq PartsWritten
             /\ \A i \in 1 .. 11 : i < step' => InstallSteps[i] \in installed'
             /\ outcome' # "installed"
             /\ own' = own /\ installEdits' = installEdits /\ step' = step + 1
             /\ config' = config /\ installed' = installed \cup {InstallSteps[step]}
  <2>1. step > 0 /\ InstallSteps[step] = name
    BY <1>2 DEF Created
  <2>2. step \in 1 .. 11
    <3>1. step \in 1 .. 12
      BY <2>1
    <3>2. step # 12
      BY <3>1, <2>1, StepNames DEF PartsWritten
    <3> QED
      BY <3>1, <3>2
  <2>3. /\ step' = step + 1 /\ installed' = installed \cup {name}
        /\ config' = config /\ own' = own /\ outcome' = outcome /\ installEdits' = installEdits
    BY <1>2 DEF Created
  <2>4. ASSUME NEW i \in 1 .. 11, i < step'
        PROVE  InstallSteps[i] \in installed'
    <3>1. i < step \/ i = step
      BY <2>2, <2>3, <2>4
    <3> QED
      BY <2>1, <2>3, <3>1
  <2>5. outcome = "running" /\ Valid(config)
    BY <2>1
  <2>6. Valid(config')
    BY <2>3, <2>5
  <2>7. outcome' = "running"
    BY <2>3, <2>5
  <2> QED
    BY <2>1, <2>2, <2>3, <2>4, <2>6, <2>7
<1>3. CASE Create
  <2>1. step \in 1 .. 12 /\ InstallSteps[step] \in PartsWritten /\ step # 6 /\ step # 11
    <3>1. step \in 1 .. 12 /\ InstallSteps[step] \notin {"assignments", "instructions", "reported"}
      BY <1>3 DEF Create
    <3>2. step # 6 /\ step # 11 /\ step # 12
      BY <3>1, StepNames
    <3>3. step \in 1 .. 11
      BY <3>1, <3>2
    <3> QED
      BY <3>1, <3>2, <3>3, StepNames
  <2>2. Created(InstallSteps[step]) /\ UNCHANGED <<developer, instructions, damaged>>
    BY <1>3 DEF Create
  <2>3. /\ config' \in Config /\ step' \in 0 .. 12 /\ step \in 1 .. 11
        /\ step' > 0 => outcome' = "running" /\ Valid(config')
        /\ installed' \subseteq PartsWritten
        /\ \A i \in 1 .. 11 : i < step' => InstallSteps[i] \in installed'
        /\ outcome' # "installed"
        /\ own' = own /\ installEdits' = installEdits /\ step' = step + 1
        /\ config' = config /\ installed' = installed \cup {InstallSteps[step]}
    BY <1>2, <2>1, <2>2
  <2>4. step' > 6 => developer' = config'.executor
    BY <2>1, <2>2, <2>3
  <2>5. "instructions" \in installed' => "instructions" \in installed
    BY <2>1, <2>3, StepNames
  <2>6. ~damaged' => Kept(instructions', own')
    BY <2>2, <2>3
  <2> QED
    BY <2>2, <2>3, <2>4, <2>5, <2>6
<1>4. CASE Assign
  <2>1. Created("assignments") /\ developer' = config.executor
        /\ UNCHANGED <<instructions, damaged>>
    BY <1>4 DEF Assign
  <2>2. step = 6 /\ "assignments" \in PartsWritten
    <3>1. step \in 1 .. 12 /\ InstallSteps[step] = "assignments"
      BY <2>1 DEF Created
    <3>2. step = 6
      BY <3>1, StepNames
    <3> QED
      BY <3>1, <3>2, StepNames
  <2>3. /\ config' \in Config /\ step' \in 0 .. 12 /\ step \in 1 .. 11
        /\ step' > 0 => outcome' = "running" /\ Valid(config')
        /\ installed' \subseteq PartsWritten
        /\ \A i \in 1 .. 11 : i < step' => InstallSteps[i] \in installed'
        /\ outcome' # "installed"
        /\ own' = own /\ installEdits' = installEdits /\ step' = step + 1
        /\ config' = config /\ installed' = installed \cup {InstallSteps[step]}
    BY <1>2, <2>1, <2>2
  <2>4. "instructions" \in installed' => "instructions" \in installed
    BY <2>2, <2>3, StepNames
  <2>5. ~damaged' => Kept(instructions', own')
    BY <2>1, <2>3
  <2> QED
    BY <2>1, <2>3, <2>4, <2>5
<1>5. CASE Instruct
  <2>1. Created("instructions") /\ instructions' = WithBlock(instructions)
        /\ UNCHANGED <<developer, damaged>>
    BY <1>5 DEF Instruct
  <2>2. step = 11 /\ "instructions" \in PartsWritten
    <3>1. step \in 1 .. 12 /\ InstallSteps[step] = "instructions"
      BY <2>1 DEF Created
    <3>2. step = 11
      BY <3>1, StepNames
    <3> QED
      BY <3>1, <3>2, StepNames
  <2>3. /\ config' \in Config /\ step' \in 0 .. 12 /\ step \in 1 .. 11
        /\ step' > 0 => outcome' = "running" /\ Valid(config')
        /\ installed' \subseteq PartsWritten
        /\ \A i \in 1 .. 11 : i < step' => InstallSteps[i] \in installed'
        /\ outcome' # "installed"
        /\ own' = own /\ installEdits' = installEdits /\ step' = step + 1
        /\ config' = config /\ installed' = installed \cup {InstallSteps[step]}
    BY <1>2, <2>1, <2>2
  <2>4. instructions' \in Seq(Lines)
    BY <2>1, WithBlockType
  <2>5. ~damaged' => Kept(instructions', own')
    BY <2>1, <2>3, InstructionsKept
  <2>6. installEdits' = 0 => instructions' = Block
    BY <2>1, <2>3, FirstBlocks
  <2>7. step' > 6 => developer' = config'.executor
    BY <2>1, <2>2, <2>3
  <2> QED
    BY <2>3, <2>4, <2>5, <2>6, <2>7
<1>6. CASE Report
  <2>1. /\ outcome' = IF Valid(config) THEN "installed" ELSE "failed"
        /\ step' = 0 /\ UNCHANGED <<config, installed, developer, instructions, own, damaged,
                                    installRuns, installEdits>>
        /\ step > 0 /\ InstallSteps[step] = "reported"
    BY <1>6 DEF Report
  <2>2. step = 12
    BY <2>1, StepNames
  <2>3. installed = PartsWritten
    BY <2>2, StepNames
  <2>4. developer = config.executor /\ Valid(config)
    BY <2>2
  <2>5. Valid(config')
    BY <2>1, <2>4
  <2>6. ~damaged' => Kept(instructions', own')
    BY <2>1
  <2> QED
    BY <2>1, <2>3, <2>4, <2>5, <2>6
<1>7. CASE StepFails
  <2>1. /\ step' = 0 /\ outcome' = "failed"
        /\ UNCHANGED <<config, installed, developer, own, installRuns, installEdits>>
        /\ \/ UNCHANGED <<instructions, damaged>>
           \/ instructions' = <<>> /\ damaged' = TRUE
    BY <1>7 DEF StepFails
  <2>2. ~damaged' => Kept(instructions', own')
    BY <2>1
  <2>3. instructions' \in Seq(Lines)
    <3>1. <<>> \in Seq(Lines) /\ instructions \in Seq(Lines)
      OBVIOUS
    <3>2. instructions' = instructions \/ instructions' = <<>>
      BY <2>1
    <3> QED
      BY <3>1, <3>2, Zenon
  <2>4. installEdits' = 0 =>
          /\ instructions' \in {<<>>, <<"start", "obsolete", "end">>, Block}
          /\ "instructions" \in installed' => damaged' \/ instructions' = Block
    BY <2>1
  <2> QED
    BY <2>1, <2>2, <2>3, <2>4
<1>8. CASE WriteParagraph
  <2>1. PICK p \in Paragraphs, i \in 1 .. Len(instructions) + 1 :
          Edited(InsertAt(instructions, i, p))
    BY <1>8 DEF WriteParagraph
  <2> DEFINE new == InsertAt(instructions, i, p)
  <2>2. /\ step = 0 /\ installEdits' = installEdits + 1 /\ instructions' = new
        /\ UNCHANGED <<config, step, installed, developer, outcome, installRuns, damaged>>
        /\ own' = Owned(new)
    BY <1>8, <2>1 DEF Edited, WriteParagraph, Owned
  <2>3. new \in Seq(Lines) /\ (WellMarked(instructions) => WellMarked(new))
    <3>1. CASE WellMarked(instructions)
      BY <3>1, ParagraphInserted
    <3>2. CASE ~WellMarked(instructions)
      <4>1. p \in Lines
        BY DEF Lines
      <4> QED
        BY <3>2, <4>1, Inserted
    <3> QED
      BY <3>1, <3>2
  <2> HIDE DEF new
  <2>4. ~damaged' => Kept(instructions', own')
    BY <2>2, <2>3, KeptIsWellMarked, OwnedIsKept
  <2>5. own' \subseteq Paragraphs
    BY <2>2 DEF Owned
  <2>6. Valid(config) => Valid(config')
    BY <2>2
  <2> QED
    BY <2>2, <2>3, <2>4, <2>5, <2>6
<1>9. CASE DeleteLine
  <2>1. PICK i \in 1 .. Len(instructions) :
          /\ Edited(RemoveAt(instructions, i))
          /\ damaged' = (damaged \/ instructions[i] \in Markers)
    BY <1>9 DEF DeleteLine
  <2> DEFINE new == RemoveAt(instructions, i)
  <2>2. /\ step = 0 /\ installEdits' = installEdits + 1 /\ instructions' = new
        /\ UNCHANGED <<config, step, installed, developer, outcome, installRuns>>
        /\ own' = Owned(new)
    BY <2>1 DEF Edited, Owned
  <2>3. /\ new \in Seq(Lines)
        /\ WellMarked(instructions) /\ instructions[i] \notin Markers => WellMarked(new)
    BY LineRemoved
  <2> HIDE DEF new
  <2>4. ~damaged' => ~damaged /\ instructions[i] \notin Markers
    BY <2>1
  <2>5. ~damaged' => Kept(instructions', own')
    BY <2>2, <2>3, <2>4, KeptIsWellMarked, OwnedIsKept
  <2>6. own' \subseteq Paragraphs
    BY <2>2 DEF Owned
  <2>7. Valid(config) => Valid(config')
    BY <2>2
  <2> QED
    BY <2>2, <2>3, <2>5, <2>6, <2>7
<1>10. CASE ChangeConfig
  <2>1. /\ step = 0 /\ outcome = "refused"
        /\ UNCHANGED <<step, installed, developer, instructions, own, damaged,
                       outcome, installRuns, installEdits>>
        /\ config' = [config EXCEPT !.executor = "human"]
             \/ config' = [config EXCEPT !.depth = "default"]
    BY <1>10 DEF ChangeConfig
  <2>2. config' \in Config
    BY <2>1 DEF Config
  <2>3. ~damaged' => Kept(instructions', own')
    BY <2>1
  <2> QED
    BY <2>1, <2>2, <2>3
<1>11. CASE UNCHANGED installVars
  <2>1. UNCHANGED <<config, step, installed, developer, instructions, own,
                    damaged, outcome, installRuns, installEdits>>
    BY <1>11 DEF installVars
  <2>2. Valid(config) => Valid(config')
    BY <2>1
  <2>3. ~damaged' => Kept(instructions', own')
    BY <2>1
  <2> QED
    BY <2>1, <2>2, <2>3
<1> QED
  BY <1>1, <1>3, <1>4, <1>5, <1>6, <1>7, <1>8, <1>9, <1>10, <1>11 DEF InstallNext

(* What people wrote, what success means, and what is not refused.         *)
LEMMA InstallationIsSound ==
  ASSUME InstallInv
  PROVE  OwnTextIsKept /\ InstalledIsComplete /\ WritingIsValid
<1>1. OwnTextIsKept
  <2> SUFFICES ASSUME ~damaged, NEW p \in own PROVE p \in Range(instructions)
    BY DEF OwnTextIsKept
  <2>1. Kept(instructions, own)
    BY DEF InstallInv
  <2>2. \E i \in 1 .. Len(instructions) : instructions[i] = p
    BY <2>1 DEF Kept
  <2>3. DOMAIN instructions = 1 .. Len(instructions)
    BY DEF InstallInv
  <2> QED
    BY <2>2, <2>3 DEF Range
<1>2. InstalledIsComplete
  <2> SUFFICES ASSUME outcome = "installed", installEdits = 0
               PROVE  /\ installed = Range(InstallSteps) \ {"reported"}
                      /\ developer \in config.runtimes \cup {"human"}
                      /\ damaged \/ Cardinality({i \in DOMAIN instructions :
                                                   instructions[i] = "start"}) = 1
    BY DEF InstalledIsComplete
  <2>1. installed = PartsWritten /\ developer = config.executor /\ Valid(config)
    BY DEF InstallInv
  <2>2. developer \in config.runtimes \cup {"human"}
    BY <2>1 DEF Valid, DeclaredExecutor
  <2>3. "instructions" \in installed
    BY <2>1, StepNames
  <2>4. CASE instructions = Block
    <3>1. \A i \in 1 .. 3 : i = 1 \/ i = 2 \/ i = 3
      OBVIOUS
    <3>2. {i \in DOMAIN instructions : instructions[i] = "start"} = {1}
      BY <2>4, <3>1 DEF Block
    <3> QED
      BY <2>1, <2>2, <3>2, FS_Singleton DEF PartsWritten
  <2>5. damaged \/ instructions = Block
    BY <2>3 DEF InstallInv
  <2> QED
    BY <2>1, <2>2, <2>4, <2>5 DEF PartsWritten
<1>3. WritingIsValid
  BY DEF InstallInv, WritingIsValid
<1> QED
  BY <1>1, <1>2, <1>3

-----------------------------------------------------------------------------
(* The artifacts: a walk has a path to all it reaches and is closed after  *)
(* as many steps as there are nodes; the budget is spent in an order that  *)
(* exists, is total and begins with the root.  What the recursions compute *)
(* is had from their equations, which a least counterexample gives.        *)

(* Steps repeated a number of times: a recursive definition over them has  *)
(* a solution.                                                             *)
LEMMA StepsExist ==
  ASSUME NEW N \in Nat, NEW V, NEW base \in V, NEW F \in [V -> V]
  PROVE  \E g \in [0 .. N -> V] : g[0] = base /\ \A d \in 1 .. N : g[d] = F[g[d - 1]]
<1> DEFINE Sol(k) == \E g \in [0 .. k -> V] : g[0] = base /\ \A d \in 1 .. k : g[d] = F[g[d - 1]]
           Bad == {k \in 0 .. N : ~Sol(k)}
<1>1. SUFFICES ASSUME Bad # {} PROVE FALSE
  BY DEF Bad
<1>2. Bad \in SUBSET Nat
  OBVIOUS
<1>3. PICK m \in Bad : \A k \in Bad : m <= k
  <2> HIDE DEF Bad
  <2> QED
    BY <1>1, <1>2, LeastExists
<1>4. m \in 0 .. N /\ ~Sol(m)
  OBVIOUS
<1>5. CASE m = 0
  <2> DEFINE g == [x \in 0 .. 0 |-> base]
  <2>1. g \in [0 .. 0 -> V] /\ g[0] = base /\ \A d \in 1 .. 0 : g[d] = F[g[d - 1]]
    OBVIOUS
  <2>2. Sol(0)
    BY <2>1
  <2> HIDE DEF Sol
  <2> QED
    BY <1>4, <1>5, <2>2
<1>6. CASE m # 0
  <2>1. m - 1 \in 0 .. N /\ m - 1 \notin Bad /\ m \in Nat
    <3> HIDE DEF Bad
    <3>1. m - 1 \in 0 .. N /\ m \in Nat /\ ~(m <= m - 1)
      BY <1>4, <1>6
    <3> QED
      BY <1>3, <3>1
  <2>2. Sol(m - 1)
    <3> HIDE DEF Sol
    <3> QED
      BY <2>1
  <2>3. PICK g \in [0 .. m - 1 -> V] : g[0] = base /\ \A d \in 1 .. m - 1 : g[d] = F[g[d - 1]]
    BY <2>2
  <2> DEFINE h == [x \in 0 .. m |-> IF x = m THEN F[g[m - 1]] ELSE g[x]]
  <2>4. g[m - 1] \in V /\ F[g[m - 1]] \in V
    BY <2>1
  <2>5. h \in [0 .. m -> V] /\ h[0] = base
    BY <1>6, <2>1, <2>3, <2>4
  <2>6. ASSUME NEW d \in 1 .. m
        PROVE  h[d] = F[h[d - 1]]
    <3>1. CASE d = m
      BY <2>1, <1>6, <3>1
    <3>2. CASE d # m
      <4>1. d \in 1 .. m - 1 /\ d - 1 \in 0 .. m - 1 /\ d - 1 # m
        BY <2>1, <3>2
      <4> QED
        BY <2>1, <2>3, <3>2, <4>1
    <3> QED
      BY <3>1, <3>2
  <2> HIDE DEF h
  <2>7. Sol(m)
    BY <2>5, <2>6
  <2> HIDE DEF Sol
  <2> QED
    BY <1>4, <2>7
<1> QED
  BY <1>5, <1>6

(* The same over the subsets of a finite set, one element less at a time.  *)
Picks(pick, D) == \A s \in SUBSET D : s # {} => pick[s] \in s

(* The function that takes one picked element after the other.             *)
IsFold(g, D, pick, base, F) ==
  \A s \in SUBSET D : g[s] = IF s = {} THEN base ELSE F[<<pick[s], g[s \ {pick[s]}]>>]

(* There is one: by the least size for which there were none.              *)
LEMMA FoldExists ==
  ASSUME NEW D, IsFiniteSet(D), NEW V, NEW base \in V,
         NEW pick, Picks(pick, D), NEW F \in [D \X V -> V]
  PROVE  \E g \in [SUBSET D -> V] : IsFold(g, D, pick, base, F)
<1>0. \A s \in SUBSET D : s # {} => pick[s] \in s
  BY DEF Picks
<1> DEFINE Small(k) == {s \in SUBSET D : Cardinality(s) <= k}
           Sol(k) == \E g \in [Small(k) -> V] :
             \A s \in Small(k) :
               g[s] = IF s = {} THEN base ELSE F[<<pick[s], g[s \ {pick[s]}]>>]
           N == Cardinality(D)
           Bad == {k \in 0 .. N : ~Sol(k)}
<1>1. N \in Nat /\ \A s \in SUBSET D : /\ IsFiniteSet(s)
                                       /\ Cardinality(s) \in 0 .. N
                                       /\ (Cardinality(s) = 0 <=> s = {})
  <2>1. N \in Nat
    BY FS_CardinalityType
  <2>2. ASSUME NEW s \in SUBSET D
        PROVE  IsFiniteSet(s) /\ Cardinality(s) \in 0 .. N /\ (Cardinality(s) = 0 <=> s = {})
    <3>1. IsFiniteSet(s) /\ Cardinality(s) <= N
      BY FS_Subset
    <3>2. Cardinality(s) \in Nat
      BY <3>1, FS_CardinalityType
    <3>3. Cardinality(s) = 0 <=> s = {}
      BY <3>1, FS_EmptySet
    <3> QED
      BY <2>1, <3>1, <3>2, <3>3
  <2> QED
    BY <2>1, <2>2
<1>2. \A s \in SUBSET D : s # {} => Cardinality(s \ {pick[s]}) = Cardinality(s) - 1
  BY <1>0, <1>1, FS_RemoveElement
<1> HIDE DEF N
<1>3. Bad = {}
  <2> SUFFICES ASSUME Bad # {} PROVE FALSE
    OBVIOUS
  <2>1. Bad \in SUBSET Nat
    BY <1>1
  <2>2. PICK m \in Bad : \A k \in Bad : m <= k
    <3> HIDE DEF Bad
    <3> QED
      BY <2>1, LeastExists
  <2>3. m \in 0 .. N /\ ~Sol(m) /\ m \in Nat
    <3> HIDE DEF Sol
    <3>1. m \in 0 .. N /\ ~Sol(m)
      OBVIOUS
    <3> QED
      BY <1>1, <3>1
  <2>4. CASE m = 0
    <3> DEFINE g == [s \in Small(0) |-> base]
    <3>1. \A s \in Small(0) : s = {}
      BY <1>1
    <3>2. g \in [Small(0) -> V]
      OBVIOUS
    <3>3. \A s \in Small(0) :
            g[s] = IF s = {} THEN base ELSE F[<<pick[s], g[s \ {pick[s]}]>>]
      BY <3>1
    <3>4. Sol(0)
      <4> HIDE DEF g, Small
      <4> QED
        BY <3>2, <3>3
    <3> HIDE DEF Sol
    <3> QED
      BY <2>3, <2>4, <3>4
  <2>5. CASE m # 0
    <3>1. m - 1 \in 0 .. N /\ m - 1 \notin Bad
      <4> HIDE DEF Bad
      <4>1. m - 1 \in 0 .. N /\ ~(m <= m - 1)
        BY <1>1, <2>3, <2>5
      <4> QED
        BY <2>2, <4>1
    <3>2. Sol(m - 1)
      <4> HIDE DEF Sol
      <4> QED
        BY <3>1
    <3>3. PICK g \in [Small(m - 1) -> V] :
            \A s \in Small(m - 1) :
              g[s] = IF s = {} THEN base ELSE F[<<pick[s], g[s \ {pick[s]}]>>]
      BY <3>2
    <3> DEFINE h == [s \in Small(m) |->
                       IF s \in Small(m - 1) THEN g[s]
                       ELSE F[<<pick[s], g[s \ {pick[s]}]>>]]
    <3>4. ASSUME NEW s \in Small(m), s \notin Small(m - 1)
          PROVE  s # {} /\ pick[s] \in D /\ s \ {pick[s]} \in Small(m - 1)
      <4>1. s \in SUBSET D /\ Cardinality(s) = m
        BY <1>1, <2>3, <3>4
      <4>2. s # {} /\ pick[s] \in s
        BY <1>0, <1>1, <2>5, <4>1
      <4>3. Cardinality(s \ {pick[s]}) = m - 1 /\ s \ {pick[s]} \in SUBSET D
        BY <1>2, <4>1, <4>2
      <4> QED
        BY <2>3, <4>1, <4>2, <4>3
    <3>5. ASSUME NEW s \in Small(m - 1), s # {}
          PROVE  s \ {pick[s]} \in Small(m - 1)
      <4>1. s \in SUBSET D /\ Cardinality(s) <= m - 1 /\ Cardinality(s) \in Nat
        BY <1>1
      <4>2. Cardinality(s \ {pick[s]}) = Cardinality(s) - 1
        BY <1>2, <3>5, <4>1
      <4> QED
        BY <2>3, <4>1, <4>2
    <3>6. Small(m - 1) \subseteq Small(m)
      BY <1>1, <2>3
    <3> HIDE DEF Small
    <3>7. \A s \in Small(m - 1) : h[s] = g[s]
      BY <3>6
    <3>8. h \in [Small(m) -> V]
      <4>1. ASSUME NEW s \in Small(m)
            PROVE  (IF s \in Small(m - 1) THEN g[s] ELSE F[<<pick[s], g[s \ {pick[s]}]>>]) \in V
        BY <3>4, <4>1
      <4> QED
        BY <4>1
    <3>9. ASSUME NEW s \in Small(m)
          PROVE  h[s] = IF s = {} THEN base ELSE F[<<pick[s], h[s \ {pick[s]}]>>]
      <4>1. CASE s \in Small(m - 1)
        <5> HIDE DEF h
        <5> QED
          BY <3>3, <3>5, <3>7, <4>1
      <4>2. CASE s \notin Small(m - 1)
        <5>1. h[s] = F[<<pick[s], g[s \ {pick[s]}]>>]
          BY <4>2
        <5> HIDE DEF h
        <5> QED
          BY <3>4, <3>7, <4>2, <5>1
      <4> QED
        BY <4>1, <4>2
    <3> HIDE DEF h
    <3>10. Sol(m)
      BY <3>8, <3>9
    <3> HIDE DEF Sol
    <3> QED
      BY <2>3, <3>10
  <2> QED
    BY <2>4, <2>5
<1>4. Sol(N)
  <2> HIDE DEF Sol
  <2> QED
    BY <1>1, <1>3
<1>5. Small(N) = SUBSET D
  BY <1>1
<1> HIDE DEF Small
<1> QED
  BY <1>4, <1>5 DEF IsFold

(* A walk without repetition is no longer than this.                       *)
NodeCount == Cardinality(Nodes)

(* The numbers the walk counts with.                                       *)
LEMMA NodesAreFinite ==
  /\ NodeCount \in Nat /\ WalkLengths = 0 .. NodeCount /\ Beyond = NodeCount + 1
  /\ Nodes \subseteq Nat /\ IsFiniteSet(Nodes)
  /\ \A s \in SUBSET Nodes : IsFiniteSet(s) /\ Cardinality(s) \in 0 .. NodeCount
<1>1. Nodes \subseteq Nat /\ IsFiniteSet(Nodes)
  BY GraphAssumption
<1>2. NodeCount \in Nat
  BY <1>1, FS_CardinalityType DEF NodeCount
<1>3. ASSUME NEW s \in SUBSET Nodes
      PROVE  IsFiniteSet(s) /\ Cardinality(s) \in 0 .. NodeCount
  <2>1. IsFiniteSet(s) /\ Cardinality(s) <= NodeCount
    BY <1>1, FS_Subset DEF NodeCount
  <2>2. Cardinality(s) \in Nat
    BY <2>1, FS_CardinalityType
  <2> QED
    BY <1>2, <2>1, <2>2
<1> QED
  BY <1>1, <1>2, <1>3 DEF WalkLengths, Beyond, NodeCount

(* What a walk is, step by step.                                           *)
LEMMA WalkSteps ==
  ASSUME NEW nb \in [Nodes -> SUBSET Nodes], NEW root \in Nodes
  PROVE  LET W == Walk(nb, root)
         IN  /\ W \in [0 .. NodeCount -> SUBSET Nodes] /\ W[0] = {root}
             /\ \A d \in 1 .. NodeCount : W[d] = W[d - 1] \cup (UNION {nb[n] : n \in W[d - 1]})
<1> DEFINE F == [s \in SUBSET Nodes |-> s \cup (UNION {nb[n] : n \in s})]
           W == Walk(nb, root)
<1>1. F \in [SUBSET Nodes -> SUBSET Nodes]
  <2>1. ASSUME NEW s \in SUBSET Nodes
        PROVE  (s \cup (UNION {nb[n] : n \in s})) \in SUBSET Nodes
    OBVIOUS
  <2> QED
    BY <2>1
<1>2. \A s \in SUBSET Nodes : F[s] = s \cup (UNION {nb[n] : n \in s})
  OBVIOUS
<1>3. {root} \in SUBSET Nodes
  OBVIOUS
<1> HIDE DEF F
<1>4. PICK g \in [0 .. NodeCount -> SUBSET Nodes] :
        g[0] = {root} /\ \A d \in 1 .. NodeCount : g[d] = F[g[d - 1]]
  <2>1. NodeCount \in Nat
    BY NodesAreFinite
  <2>2. \A V : \A base \in V : \A G \in [V -> V] :
          \E g \in [0 .. NodeCount -> V] : g[0] = base /\ \A d \in 1 .. NodeCount : g[d] = G[g[d - 1]]
    BY <2>1, StepsExist
  <2> DEFINE V == SUBSET Nodes
             base == {root}
  <2>3. F \in [V -> V] /\ base \in V
    BY <1>1, <1>3
  <2> HIDE DEF V, base
  <2>4. \E g \in [0 .. NodeCount -> V] : g[0] = base /\ \A d \in 1 .. NodeCount : g[d] = F[g[d - 1]]
    BY <2>2, <2>3
  <2> QED
    BY <2>4 DEF V, base
<1>5. ASSUME NEW d \in 1 .. NodeCount
      PROVE  g[d] = g[d - 1] \cup (UNION {nb[n] : n \in g[d - 1]})
  <2>1. d - 1 \in 0 .. NodeCount
    BY NodesAreFinite
  <2> QED
    BY <1>2, <1>4, <2>1
<1>6. g = [d \in 0 .. NodeCount |->
             IF d = 0 THEN {root} ELSE g[d - 1] \cup (UNION {nb[n] : n \in g[d - 1]})]
  <2>1. ASSUME NEW d \in 0 .. NodeCount
        PROVE  g[d] = IF d = 0 THEN {root} ELSE g[d - 1] \cup (UNION {nb[n] : n \in g[d - 1]})
    <3>1. d # 0 => d \in 1 .. NodeCount
      BY NodesAreFinite
    <3> QED
      BY <1>4, <1>5, <3>1
  <2> QED
    BY <2>1
<1>7. W = CHOOSE w : w = [d \in 0 .. NodeCount |->
             IF d = 0 THEN {root} ELSE w[d - 1] \cup (UNION {nb[n] : n \in w[d - 1]})]
  BY NodesAreFinite DEF Walk
<1> HIDE DEF W
<1>8. W = [d \in 0 .. NodeCount |->
             IF d = 0 THEN {root} ELSE W[d - 1] \cup (UNION {nb[n] : n \in W[d - 1]})]
  BY <1>6, <1>7
<1>9. \A d \in 0 .. NodeCount : W[d] = g[d]
  <2> DEFINE Bad == {d \in 0 .. NodeCount : W[d] # g[d]}
  <2> SUFFICES ASSUME Bad # {} PROVE FALSE
    OBVIOUS
  <2>1. Bad \in SUBSET Nat
    BY NodesAreFinite
  <2>2. PICK m \in Bad : \A k \in Bad : m <= k
    <3> HIDE DEF Bad
    <3> QED
      BY <2>1, LeastExists
  <2>3. m \in 0 .. NodeCount /\ W[m] # g[m]
    OBVIOUS
  <2>4. m # 0
    BY <1>4, <1>8, <2>3
  <2>5. m - 1 \in 0 .. NodeCount /\ m \in 1 .. NodeCount /\ ~(m <= m - 1)
    BY <2>3, <2>4, NodesAreFinite
  <2>6. W[m - 1] = g[m - 1]
    BY <2>2, <2>5
  <2>7. W[m] = W[m - 1] \cup (UNION {nb[n] : n \in W[m - 1]})
    BY <1>8, <2>3, <2>4
  <2>8. g[m] = g[m - 1] \cup (UNION {nb[n] : n \in g[m - 1]})
    BY <1>5, <2>5
  <2> QED
    BY <2>3, <2>6, <2>7, <2>8
<1>10. W = g
  BY <1>8, <1>9
<1> QED
  BY <1>4, <1>5, <1>10 DEF W

(* Who is within d steps is at the end of a path of at most d steps.       *)
LEMMA WalkHasPaths ==
  ASSUME NEW nb \in [Nodes -> SUBSET Nodes], NEW root \in Nodes,
         NEW d \in 0 .. NodeCount, NEW n \in Walk(nb, root)[d]
  PROVE  \E k \in 0 .. d : \E path \in [0 .. k -> Nodes] :
           /\ path[0] = root /\ path[k] = n
           /\ \A i \in 1 .. k : path[i] \in nb[path[i - 1]]
<1> DEFINE W == Walk(nb, root)
           Reached(x, e) == \E k \in 0 .. e : \E path \in [0 .. k -> Nodes] :
                              /\ path[0] = root /\ path[k] = x
                              /\ \A i \in 1 .. k : path[i] \in nb[path[i - 1]]
           Bad == {e \in 0 .. NodeCount : \E x \in W[e] : ~Reached(x, e)}
<1>1. /\ W \in [0 .. NodeCount -> SUBSET Nodes] /\ W[0] = {root}
      /\ \A e \in 1 .. NodeCount : W[e] = W[e - 1] \cup (UNION {nb[x] : x \in W[e - 1]})
  BY WalkSteps
<1> HIDE DEF W
<1>2. Bad = {}
  <2> SUFFICES ASSUME Bad # {} PROVE FALSE
    OBVIOUS
  <2>1. Bad \in SUBSET Nat
    BY NodesAreFinite
  <2>2. PICK m \in Bad : \A k \in Bad : m <= k
    <3> HIDE DEF Bad
    <3> QED
      BY <2>1, LeastExists
  <2>3. m \in 0 .. NodeCount /\ m \in Nat
    BY NodesAreFinite
  <2>4. PICK x \in W[m] : ~Reached(x, m)
    OBVIOUS
  <2>5. CASE m = 0
    <3>1. x = root
      BY <1>1, <2>5
    <3> DEFINE path == [i \in 0 .. 0 |-> root]
    <3>2. /\ path \in [0 .. 0 -> Nodes] /\ path[0] = root
          /\ \A i \in 1 .. 0 : path[i] \in nb[path[i - 1]]
      OBVIOUS
    <3> HIDE DEF path
    <3>3. Reached(x, 0)
      BY <3>1, <3>2
    <3> HIDE DEF Reached
    <3> QED
      BY <2>4, <2>5, <3>3
  <2>6. CASE m # 0
    <3>1. m \in 1 .. NodeCount /\ m - 1 \in 0 .. NodeCount /\ ~(m <= m - 1)
      BY <2>3, <2>6, NodesAreFinite
    <3>2. \A y \in W[m - 1] : Reached(y, m - 1)
      <4> HIDE DEF Reached
      <4>1. m - 1 \notin Bad
        <5> HIDE DEF Bad
        <5> QED
          BY <2>2, <3>1
      <4> QED
        BY <3>1, <4>1
    <3>3. ASSUME NEW y, Reached(y, m - 1)
          PROVE  Reached(y, m)
      <4>1. PICK k \in 0 .. m - 1 : \E path \in [0 .. k -> Nodes] :
                              /\ path[0] = root /\ path[k] = y
                              /\ \A i \in 1 .. k : path[i] \in nb[path[i - 1]]
        BY <3>3
      <4>2. k \in 0 .. m
        BY <2>3
      <4> QED
        BY <4>1, <4>2
    <3>4. PICK y \in W[m - 1] : x \in nb[y]
      <4>1. x \notin W[m - 1]
        <5> HIDE DEF Reached
        <5> QED
          BY <2>4, <3>2, <3>3
      <4>2. W[m] = W[m - 1] \cup (UNION {nb[z] : z \in W[m - 1]})
        BY <1>1, <3>1
      <4> QED
        BY <2>4, <4>1, <4>2
    <3>5. PICK k \in 0 .. m - 1 : \E path \in [0 .. k -> Nodes] :
                              /\ path[0] = root /\ path[k] = y
                              /\ \A i \in 1 .. k : path[i] \in nb[path[i - 1]]
      BY <3>2
    <3>6. PICK path \in [0 .. k -> Nodes] :
                              /\ path[0] = root /\ path[k] = y
                              /\ \A i \in 1 .. k : path[i] \in nb[path[i - 1]]
      BY <3>5
    <3>7. x \in Nodes
      BY <1>1, <2>3, <2>4
    <3>8. k \in Nat /\ k + 1 \in 0 .. m
      BY <2>3
    <3> DEFINE longer == [i \in 0 .. k + 1 |-> IF i = k + 1 THEN x ELSE path[i]]
    <3>9. longer \in [0 .. k + 1 -> Nodes] /\ longer[0] = root /\ longer[k + 1] = x
      BY <3>6, <3>7, <3>8
    <3>10. ASSUME NEW i \in 1 .. k + 1
           PROVE  longer[i] \in nb[longer[i - 1]]
      <4>1. CASE i = k + 1
        <5>1. longer[i] = x /\ longer[i - 1] = path[k]
          BY <3>8, <4>1
        <5> QED
          BY <3>4, <3>6, <5>1
      <4>2. CASE i # k + 1
        <5>1. i \in 1 .. k /\ longer[i] = path[i] /\ longer[i - 1] = path[i - 1]
          BY <3>8, <4>2
        <5> QED
          BY <3>6, <5>1
      <4> QED
        BY <4>1, <4>2
    <3> HIDE DEF longer
    <3>11. Reached(x, m)
      BY <3>8, <3>9, <3>10
    <3> HIDE DEF Reached
    <3> QED
      BY <2>4, <3>11
  <2> QED
    BY <2>5, <2>6
<1>3. Reached(n, d)
  <2> HIDE DEF Reached
  <2> QED
    BY <1>2 DEF W
<1> QED
  BY <1>3


(* A command on a directory with a query.                                  *)
Rooted == artifacts \in Documents /\ query \in Queries

(* A query and the edges of its graph.                                     *)
LEMMA NodeTypes ==
  ASSUME Rooted
  PROVE  /\ query.root \in Nodes /\ query.depth \in 0 .. NodeCount /\ query.budget \in Nat
         /\ query.direction \in {"backward", "forward", "both"} /\ query.strict \in BOOLEAN
         /\ Backward \in [Nodes -> SUBSET Nodes] /\ Forward \in [Nodes -> SUBSET Nodes]
         /\ \A n \in Nodes : /\ artifacts[n].traces \subseteq Nodes \cup {Missing}
                             /\ artifacts[n].tokens \in Nat
                             /\ Backward[n] = artifacts[n].traces \cap Nodes
                             /\ Forward[n] = {m \in Nodes : n \in artifacts[m].traces}
<1>1. query \in [root : Nodes, direction : {"backward", "forward", "both"},
                 depth : 0 .. NodeCount, budget : Nat, strict : BOOLEAN]
  BY GraphAssumption DEF Rooted, NodeCount
<1>2. artifacts \in [Nodes -> [traces : SUBSET (Nodes \cup {Missing}), tokens : Nat]]
  BY GraphAssumption DEF Rooted
<1>3. \A n \in Nodes : artifacts[n] \in [traces : SUBSET (Nodes \cup {Missing}), tokens : Nat]
  BY <1>2
<1>4. \A n \in Nodes : artifacts[n].traces \subseteq Nodes \cup {Missing}
                       /\ artifacts[n].tokens \in Nat
  BY <1>3
<1>5. \A n \in Nodes : Backward[n] = artifacts[n].traces \cap Nodes
                       /\ Forward[n] = {m \in Nodes : n \in artifacts[m].traces}
  BY DEF Backward, Forward, SourcesOf, DerivedOf
<1>6. Backward \in [Nodes -> SUBSET Nodes] /\ Forward \in [Nodes -> SUBSET Nodes]
  BY DEF Backward, Forward, SourcesOf, DerivedOf
<1> QED
  BY <1>1, <1>4, <1>5, <1>6

(* Backward walks follow traces, forward walks are followed by them.       *)
LEMMA WalksAreTraces ==
  ASSUME Rooted, NEW root \in Nodes, NEW n \in Nodes, n # root, NEW d \in 0 .. NodeCount
  PROVE  /\ n \in Walk(Backward, root)[d] => Traces(root, n, d)
         /\ n \in Walk(Forward, root)[d] => Traces(n, root, d)
<1>1. ASSUME n \in Walk(Backward, root)[d]
      PROVE  Traces(root, n, d)
  <2>1. PICK k \in 0 .. d : \E path \in [0 .. k -> Nodes] :
           /\ path[0] = root /\ path[k] = n
           /\ \A i \in 1 .. k : path[i] \in Backward[path[i - 1]]
    <3>1. Backward \in [Nodes -> SUBSET Nodes]
      BY NodeTypes
    <3> QED
      BY <1>1, <3>1, WalkHasPaths
  <2>2. PICK path \in [0 .. k -> Nodes] :
           /\ path[0] = root /\ path[k] = n
           /\ \A i \in 1 .. k : path[i] \in Backward[path[i - 1]]
    BY <2>1
  <2>3. k \in 1 .. d
    BY <2>2, NodesAreFinite
  <2>4. ASSUME NEW i \in 1 .. k
        PROVE  path[i] \in artifacts[path[i - 1]].traces
    <3>1. path[i - 1] \in Nodes
      BY <2>3
    <3> QED
      BY <2>2, <3>1, NodeTypes
  <2> QED
    BY <2>2, <2>3, <2>4 DEF Traces
<1>2. ASSUME n \in Walk(Forward, root)[d]
      PROVE  Traces(n, root, d)
  <2>1. PICK k \in 0 .. d : \E path \in [0 .. k -> Nodes] :
           /\ path[0] = root /\ path[k] = n
           /\ \A i \in 1 .. k : path[i] \in Forward[path[i - 1]]
    <3>1. Forward \in [Nodes -> SUBSET Nodes]
      BY NodeTypes
    <3> QED
      BY <1>2, <3>1, WalkHasPaths
  <2>2. PICK path \in [0 .. k -> Nodes] :
           /\ path[0] = root /\ path[k] = n
           /\ \A i \in 1 .. k : path[i] \in Forward[path[i - 1]]
    BY <2>1
  <2>3. k \in 1 .. d /\ k \in Nat
    BY <2>2, NodesAreFinite
  <2> DEFINE back == [i \in 0 .. k |-> path[k - i]]
  <2>4. back \in [0 .. k -> Nodes] /\ back[0] = n /\ back[k] = root
    BY <2>2, <2>3
  <2>5. ASSUME NEW i \in 1 .. k
        PROVE  back[i] \in artifacts[back[i - 1]].traces
    <3> DEFINE j == k - i + 1
    <3>1. j \in 1 .. k /\ j - 1 = k - i /\ j = k - (i - 1) /\ i - 1 \in 0 .. k /\ j - 1 \in 0 .. k
      BY <2>3
    <3>2. back[i] = path[j - 1] /\ back[i - 1] = path[j]
      BY <3>1
    <3> HIDE DEF j, back
    <3>3. path[j] \in Forward[path[j - 1]] /\ path[j - 1] \in Nodes
      BY <2>2, <3>1
    <3>4. path[j - 1] \in artifacts[path[j]].traces
      BY <3>3, NodeTypes
    <3> QED
      BY <3>2, <3>4
  <2> HIDE DEF back
  <2> QED
    BY <2>3, <2>4, <2>5 DEF Traces
<1> QED
  BY <1>1, <1>2

(* A distance is the least number of steps, or beyond any.                 *)
LEMMA DistanceIs ==
  ASSUME NEW W, NEW n
  PROVE  /\ Distance(W, n) \in 0 .. NodeCount + 1
         /\ Distance(W, n) <= NodeCount => n \in W[Distance(W, n)]
         /\ \A d \in 0 .. NodeCount : n \in W[d] => Distance(W, n) <= d
<1> DEFINE S == {d \in WalkLengths : n \in W[d]} \cup {Beyond}
<1>1. S \in SUBSET Nat /\ S # {} /\ \A x \in S : x \in 0 .. NodeCount + 1
  BY NodesAreFinite
<1>2. \A x \in S : x <= NodeCount => n \in W[x]
  BY NodesAreFinite
<1>3. \A d \in 0 .. NodeCount : n \in W[d] => d \in S
  BY NodesAreFinite
<1>4. Distance(W, n) = Min(S)
  BY DEF Distance
<1> HIDE DEF S
<1>5. PICK m \in S : \A x \in S : m <= x
  BY <1>1, LeastExists
<1>6. Min(S) \in S /\ \A x \in S : Min(S) <= x
  BY <1>5 DEF Min
<1> QED
  BY <1>1, <1>2, <1>3, <1>4, <1>6

(* A rank is a distance and a traversal; the root is before all others.    *)
LEMMA RanksAre ==
  ASSUME NEW root \in Nodes, NEW direction \in {"backward", "forward", "both"}
  PROVE  /\ \A n \in Nodes : Ranks(root, direction)[n] \in Nat \X Nat
         /\ Ranks(root, direction)[root] = <<0, 0>>
         /\ \A n \in Nodes \ {root} :
              LET d == Ranks(root, direction)[n][1]
              IN  /\ Ranks(root, direction)[n][2] # 0
                  /\ d <= NodeCount =>
                       \/ direction # "forward" /\ n \in Walk(Backward, root)[d]
                       \/ direction # "backward" /\ n \in Walk(Forward, root)[d]
<1> DEFINE back == Walk(Backward, root)
           fore == Walk(Forward, root)
           rank == Ranks(root, direction)
           b(n) == IF direction = "forward" THEN Beyond ELSE Distance(back, n)
           f(n) == IF direction = "backward" THEN Beyond ELSE Distance(fore, n)
<1>1. rank = [n \in Nodes |-> IF n = root THEN <<0, 0>>
                              ELSE IF b(n) <= f(n) THEN <<b(n), 1>> ELSE <<f(n), 2>>]
  BY DEF Ranks
<1>2. ASSUME NEW n \in Nodes
      PROVE  /\ b(n) \in Nat /\ f(n) \in Nat
             /\ b(n) <= NodeCount => direction # "forward" /\ n \in back[b(n)]
             /\ f(n) <= NodeCount => direction # "backward" /\ n \in fore[f(n)]
  <2> HIDE DEF back, fore
  <2>1. Beyond = NodeCount + 1 /\ NodeCount \in Nat /\ ~(Beyond <= NodeCount)
    BY NodesAreFinite
  <2>2. /\ Distance(back, n) \in Nat
        /\ Distance(back, n) <= NodeCount => n \in back[Distance(back, n)]
        /\ Distance(fore, n) \in Nat
        /\ Distance(fore, n) <= NodeCount => n \in fore[Distance(fore, n)]
    BY <2>1, DistanceIs
  <2> QED
    BY <2>1, <2>2
<1> HIDE DEF back, fore, rank, b, f
<1>3. rank[root] = <<0, 0>>
  BY <1>1
<1>4. ASSUME NEW n \in Nodes \ {root}
      PROVE  \/ rank[n] = <<b(n), 1>>
             \/ rank[n] = <<f(n), 2>>
  BY <1>1
<1>5. ASSUME NEW n \in Nodes
      PROVE  rank[n] \in Nat \X Nat
  <2>1. CASE n = root
    BY <1>3, <2>1
  <2>2. CASE n # root
    BY <1>2, <1>4, <2>2
  <2> QED
    BY <2>1, <2>2
<1>6. ASSUME NEW n \in Nodes \ {root}
      PROVE  /\ rank[n][2] # 0
             /\ rank[n][1] <= NodeCount =>
                  \/ direction # "forward" /\ n \in back[rank[n][1]]
                  \/ direction # "backward" /\ n \in fore[rank[n][1]]
  <2>1. CASE rank[n] = <<b(n), 1>>
    <3>1. rank[n][1] = b(n) /\ rank[n][2] = 1
      BY <2>1
    <3> QED
      BY <1>2, <3>1
  <2>2. CASE rank[n] = <<f(n), 2>>
    <3>1. rank[n][1] = f(n) /\ rank[n][2] = 2
      BY <2>2
    <3> QED
      BY <1>2, <3>1
  <2> QED
    BY <1>4, <2>1, <2>2
<1> QED
  BY <1>3, <1>5, <1>6 DEF back, fore, rank

(* Who is nearby beside the root is traced.                                *)
LEMMA NearbyIsTraced ==
  ASSUME Rooted, NEW n \in Nearby, n # query.root
  PROVE  \/ query.direction # "forward" /\ Traces(query.root, n, query.depth)
         \/ query.direction # "backward" /\ Traces(n, query.root, query.depth)
<1> DEFINE root == query.root
           direction == query.direction
           d == Ranks(root, direction)[n][1]
<1>1. n \in Nodes /\ d \in 0 .. query.depth
  BY DEF Nearby
<1>2. root \in Nodes /\ direction \in {"backward", "forward", "both"} /\ query.depth \in 0 .. NodeCount
  BY NodeTypes
<1>3. d \in 0 .. NodeCount /\ d <= query.depth /\ NodeCount \in Nat
  BY <1>1, <1>2, NodesAreFinite
<1>4. \/ direction # "forward" /\ n \in Walk(Backward, root)[d]
      \/ direction # "backward" /\ n \in Walk(Forward, root)[d]
  <2>1. n \in Nodes \ {root}
    BY <1>1
  <2> QED
    BY <1>2, <1>3, <2>1, RanksAre
<1> HIDE DEF root, direction, d
<1>5. \/ direction # "forward" /\ Traces(root, n, d)
      \/ direction # "backward" /\ Traces(n, root, d)
  BY <1>1, <1>2, <1>3, <1>4, WalksAreTraces DEF root
<1>6. \A a, z : Traces(a, z, d) => Traces(a, z, query.depth)
  <2>1. \A k \in 1 .. d : k \in 1 .. query.depth
    BY <1>2, <1>3
  <2> QED
    BY <2>1 DEF Traces
<1> QED
  BY <1>5, <1>6 DEF root, direction


(* A walk never shrinks, and stays within every closed set it starts in.   *)
LEMMA WalkStaysWithin ==
  ASSUME NEW nb \in [Nodes -> SUBSET Nodes], NEW root \in Nodes, NEW C \in SUBSET Nodes,
         root \in C, \A n \in C : nb[n] \subseteq C, NEW d \in 0 .. NodeCount
  PROVE  Walk(nb, root)[d] \subseteq C
<1> DEFINE W == Walk(nb, root)
           Bad == {e \in 0 .. NodeCount : ~(W[e] \subseteq C)}
<1>1. /\ W[0] = {root}
      /\ \A e \in 1 .. NodeCount : W[e] = W[e - 1] \cup (UNION {nb[x] : x \in W[e - 1]})
  BY WalkSteps
<1> HIDE DEF W
<1>2. Bad = {}
  <2> SUFFICES ASSUME Bad # {} PROVE FALSE
    OBVIOUS
  <2>1. Bad \in SUBSET Nat
    BY NodesAreFinite
  <2>2. PICK m \in Bad : \A k \in Bad : m <= k
    <3> HIDE DEF Bad
    <3> QED
      BY <2>1, LeastExists
  <2>3. m \in 0 .. NodeCount /\ ~(W[m] \subseteq C)
    OBVIOUS
  <2>4. m # 0
    BY <1>1, <2>3
  <2>5. m \in 1 .. NodeCount /\ m - 1 \in 0 .. NodeCount /\ ~(m <= m - 1)
    BY <2>3, <2>4, NodesAreFinite
  <2>6. W[m - 1] \subseteq C
    BY <2>2, <2>5
  <2>7. W[m] = W[m - 1] \cup (UNION {nb[x] : x \in W[m - 1]})
    BY <1>1, <2>5
  <2> QED
    BY <2>3, <2>6, <2>7
<1> QED
  BY <1>2 DEF W

(* As many steps as there are nodes lead everywhere: one of them adds      *)
(* nothing, and then no later one does.                                    *)
LEMMA WalkIsClosed ==
  ASSUME NEW nb \in [Nodes -> SUBSET Nodes], NEW root \in Nodes
  PROVE  /\ Walk(nb, root)[NodeCount] \in SUBSET Nodes
         /\ root \in Walk(nb, root)[NodeCount]
         /\ \A n \in Walk(nb, root)[NodeCount] : nb[n] \subseteq Walk(nb, root)[NodeCount]
<1> DEFINE W == Walk(nb, root)
           N == NodeCount
<1>1. /\ W \in [0 .. N -> SUBSET Nodes] /\ W[0] = {root}
      /\ \A e \in 1 .. N : W[e] = W[e - 1] \cup (UNION {nb[x] : x \in W[e - 1]})
  BY WalkSteps
<1>2. N \in Nat /\ \A s \in SUBSET Nodes : IsFiniteSet(s) /\ Cardinality(s) \in 0 .. N
  BY NodesAreFinite
<1> HIDE DEF W, N
<1>3. \E d \in 1 .. N : W[d] = W[d - 1]
  <2> SUFFICES ASSUME \A d \in 1 .. N : W[d] # W[d - 1] PROVE FALSE
    OBVIOUS
  <2> DEFINE Bad == {e \in 0 .. N : ~(Cardinality(W[e]) >= e + 1)}
  <2>1. N \in Bad
    <3>1. Cardinality(W[N]) \in 0 .. N
      BY <1>1, <1>2
    <3> QED
      BY <1>2, <3>1
  <2>2. Bad \in SUBSET Nat
    BY <1>2
  <2>3. PICK m \in Bad : \A k \in Bad : m <= k
    <3> HIDE DEF Bad
    <3> QED
      BY <2>1, <2>2, LeastExists
  <2>4. m \in 0 .. N /\ ~(Cardinality(W[m]) >= m + 1)
    OBVIOUS
  <2>5. m # 0
    <3>1. Cardinality({root}) = 1
      BY FS_Singleton
    <3>2. Cardinality(W[0]) >= 0 + 1
      BY <1>1, <3>1
    <3> QED
      BY <2>4, <3>2
  <2>6. m \in 1 .. N /\ m - 1 \in 0 .. N /\ ~(m <= m - 1) /\ m \in Nat
    BY <1>2, <2>4, <2>5
  <2>7. Cardinality(W[m - 1]) >= (m - 1) + 1
    BY <2>3, <2>6
  <2>8. W[m - 1] \subseteq W[m] /\ W[m - 1] # W[m] /\ W[m] \in SUBSET Nodes
    BY <1>1, <2>4, <2>6
  <2>9. Cardinality(W[m - 1]) <= Cardinality(W[m]) /\ Cardinality(W[m - 1]) # Cardinality(W[m])
    <3>1. IsFiniteSet(W[m])
      BY <1>2, <2>8
    <3> QED
      BY <2>8, <3>1, FS_Subset
  <2>10. Cardinality(W[m]) \in Nat /\ Cardinality(W[m - 1]) \in Nat
    <3>1. W[m - 1] \in SUBSET Nodes
      BY <2>8
    <3> QED
      BY <1>2, <2>8, <3>1
  <2> QED
    BY <2>4, <2>6, <2>7, <2>9, <2>10
<1>4. PICK d \in 1 .. N : W[d] = W[d - 1]
  BY <1>3
<1>5. d \in Nat /\ d - 1 \in 0 .. N
  BY <1>2
<1> DEFINE Bad == {e \in d - 1 .. N : W[e] # W[d - 1]}
<1>6. Bad = {}
  <2> SUFFICES ASSUME Bad # {} PROVE FALSE
    OBVIOUS
  <2>1. Bad \in SUBSET Nat
    BY <1>2, <1>5
  <2>2. PICK m \in Bad : \A k \in Bad : m <= k
    <3> HIDE DEF Bad
    <3> QED
      BY <2>1, LeastExists
  <2>3. m \in d - 1 .. N /\ W[m] # W[d - 1]
    OBVIOUS
  <2>4. m # d - 1 /\ m # d
    BY <1>4, <2>3
  <2>5. m \in 1 .. N /\ m - 1 \in d - 1 .. N /\ ~(m <= m - 1)
    BY <1>2, <1>5, <2>3, <2>4
  <2>6. W[m - 1] = W[d - 1]
    BY <2>2, <2>5
  <2>7. W[m] = W[m - 1] \cup (UNION {nb[x] : x \in W[m - 1]})
    BY <1>1, <2>5
  <2>8. W[d] = W[d - 1] \cup (UNION {nb[x] : x \in W[d - 1]})
    BY <1>1
  <2> QED
    BY <1>4, <2>3, <2>6, <2>7, <2>8
<1>7. W[N] = W[d - 1]
  BY <1>2, <1>5, <1>6
<1>8. \A n \in W[N] : nb[n] \subseteq W[N]
  <2>1. W[d] = W[d - 1] \cup (UNION {nb[x] : x \in W[d - 1]})
    BY <1>1
  <2> QED
    BY <1>4, <1>7, <2>1
<1>9. root \in W[N]
  <2> DEFINE Lost == {e \in 0 .. N : root \notin W[e]}
  <2>1. Lost = {}
    <3> SUFFICES ASSUME Lost # {} PROVE FALSE
      OBVIOUS
    <3>1. Lost \in SUBSET Nat
      BY <1>2
    <3>2. PICK m \in Lost : \A k \in Lost : m <= k
      <4> HIDE DEF Lost
      <4> QED
        BY <3>1, LeastExists
    <3>3. m \in 0 .. N /\ root \notin W[m] /\ m # 0
      BY <1>1
    <3>4. m \in 1 .. N /\ m - 1 \in 0 .. N /\ ~(m <= m - 1)
      BY <1>2, <3>3
    <3>5. root \in W[m - 1]
      BY <3>2, <3>4
    <3> QED
      BY <1>1, <3>3, <3>4, <3>5
  <2> QED
    BY <1>2, <2>1
<1>10. W[N] \in SUBSET Nodes
  BY <1>1, <1>2
<1> QED
  BY <1>8, <1>9, <1>10 DEF W, N

(* Nodes on no cycle, that trace to nodes only, are numbered by how many   *)
(* nodes they trace to in any number of steps.                             *)
LEMMA AcyclicIsReadable ==
  ASSUME Rooted, NEW items \in SUBSET Nodes, items \cap (OnCycle \cup Dangling) = {}
  PROVE  \E number \in [items -> 1 .. Cardinality(Nodes)] :
           \A n \in items : \A m \in artifacts[n].traces :
             m \in Nodes /\ (m \in items => number[m] < number[n])
<1> DEFINE Above(n) == Walk(Backward, n)[NodeCount]
           number == [n \in items |-> Cardinality(Above(n))]
<1>1. ASSUME NEW n \in Nodes
      PROVE  /\ Above(n) \in SUBSET Nodes /\ n \in Above(n)
             /\ \A m \in Above(n) : Backward[m] \subseteq Above(n)
             /\ Cardinality(Above(n)) \in 1 .. NodeCount /\ IsFiniteSet(Above(n))
  <2>1. Backward \in [Nodes -> SUBSET Nodes]
    BY NodeTypes
  <2>2. /\ Above(n) \in SUBSET Nodes /\ n \in Above(n)
        /\ \A m \in Above(n) : Backward[m] \subseteq Above(n)
    BY <2>1, WalkIsClosed
  <2> HIDE DEF Above
  <2>3. IsFiniteSet(Above(n)) /\ Cardinality(Above(n)) \in 0 .. NodeCount /\ NodeCount \in Nat
    BY <2>2, NodesAreFinite
  <2>4. Cardinality(Above(n)) # 0
    BY <2>2, <2>3, FS_EmptySet
  <2> QED
    BY <2>2, <2>3, <2>4
<1>2. number \in [items -> 1 .. Cardinality(Nodes)]
  BY <1>1 DEF NodeCount
<1>3. ASSUME NEW n \in items, NEW m \in artifacts[n].traces
      PROVE  m \in Nodes /\ (m \in items => number[m] < number[n])
  <2>1. m \in Nodes /\ m \in Backward[n] /\ m \in SourcesOf(n)
    BY NodeTypes DEF Dangling, SourcesOf
  <2>2. n \notin Above(m)
    BY <2>1 DEF OnCycle, NodeCount
  <2>3. Above(m) \subseteq Above(n)
    <3>1. m \in Above(n)
      BY <1>1, <2>1
    <3>2. Backward \in [Nodes -> SUBSET Nodes] /\ NodeCount \in 0 .. NodeCount
      BY NodeTypes, NodesAreFinite
    <3>3. Above(n) \in SUBSET Nodes /\ \A x \in Above(n) : Backward[x] \subseteq Above(n)
      BY <1>1
    <3>4. \A C \in SUBSET Nodes : m \in C /\ (\A x \in C : Backward[x] \subseteq C)
                                    => Above(m) \subseteq C
      BY <2>1, <3>2, WalkStaysWithin
    <3> HIDE DEF Above
    <3> QED
      BY <3>1, <3>3, <3>4
  <2> HIDE DEF Above
  <2>4. Cardinality(Above(m)) <= Cardinality(Above(n))
        /\ Cardinality(Above(m)) # Cardinality(Above(n))
    <3>1. n \in Above(n) /\ IsFiniteSet(Above(n))
      BY <1>1
    <3> QED
      BY <2>2, <2>3, <3>1, FS_Subset
  <2>5. Cardinality(Above(m)) \in Nat /\ Cardinality(Above(n)) \in Nat
    BY <1>1, <2>1, NodesAreFinite
  <2> QED
    BY <2>1, <2>4, <2>5
<1> HIDE DEF number
<1> QED
  BY <1>2, <1>3


(* Two functions on the subsets of a finite set agree when they agree on a *)
(* set as soon as they agree on it without one of its elements.            *)
Agree(g, h, D, pick) ==
  /\ g[{}] = h[{}]
  /\ \A s \in SUBSET D : s # {} /\ g[s \ {pick[s]}] = h[s \ {pick[s]}] => g[s] = h[s]

(* By the least size of a set on which they did not.                       *)
LEMMA FoldsAgree ==
  ASSUME NEW D, IsFiniteSet(D), NEW pick, Picks(pick, D), NEW g, NEW h, Agree(g, h, D, pick)
  PROVE  \A s \in SUBSET D : g[s] = h[s]
<1>0. \A s \in SUBSET D : s # {} => pick[s] \in s
  BY DEF Picks
<1> DEFINE Bad == {k \in Nat : \E s \in SUBSET D : Cardinality(s) = k /\ g[s] # h[s]}
<1>1. ASSUME NEW s \in SUBSET D
      PROVE  IsFiniteSet(s) /\ Cardinality(s) \in Nat /\ (Cardinality(s) = 0 <=> s = {})
  <2>1. IsFiniteSet(s)
    BY FS_Subset
  <2> QED
    BY <2>1, FS_CardinalityType, FS_EmptySet
<1>2. SUFFICES ASSUME Bad # {} PROVE FALSE
  BY <1>1
<1>3. PICK m \in Bad : \A k \in Bad : m <= k
  <2>1. Bad \in SUBSET Nat
    OBVIOUS
  <2> HIDE DEF Bad
  <2> QED
    BY <1>2, <2>1, LeastExists
<1>4. PICK s \in SUBSET D : Cardinality(s) = m /\ g[s] # h[s]
  OBVIOUS
<1>5. s # {} /\ pick[s] \in s
  BY <1>0, <1>4 DEF Agree
<1>6. Cardinality(s \ {pick[s]}) = m - 1 /\ m - 1 \in Nat /\ ~(m <= m - 1)
  <2>1. Cardinality(s \ {pick[s]}) = Cardinality(s) - 1
    BY <1>1, <1>5, FS_RemoveElement
  <2>2. m \in Nat /\ m # 0
    BY <1>1, <1>4, <1>5
  <2> QED
    BY <1>4, <2>1, <2>2
<1>7. g[s \ {pick[s]}] = h[s \ {pick[s]}]
  <2>1. m - 1 \notin Bad
    <3> HIDE DEF Bad
    <3> QED
      BY <1>3, <1>6
  <2>2. s \ {pick[s]} \in SUBSET D
    OBVIOUS
  <2> QED
    BY <1>6, <2>1, <2>2
<1> QED
  BY <1>4, <1>5, <1>7 DEF Agree

(* Tokens add up to a number.                                              *)
LEMMA TokensAreNatural ==
  ASSUME Rooted, NEW S \in SUBSET Nodes
  PROVE  TokensIn(S) \in Nat
<1> DEFINE w(x) == artifacts[x].tokens
           pick == [s \in SUBSET S |-> IF s = {} THEN S ELSE CHOOSE x \in s : TRUE]
           F == [x \in S \X Nat |-> w(x[1]) + x[2]]
           sum == CHOOSE iter : iter = [s \in SUBSET S |->
                    IF s = {} THEN 0
                    ELSE w(CHOOSE x \in s : TRUE) + iter[s \ {CHOOSE x \in s : TRUE}]]
<1>1. TokensIn(S) = sum[S]
  BY DEF TokensIn, MapThenSumSet, MapThenFoldSet
<1>2. IsFiniteSet(S) /\ \A x \in S : w(x) \in Nat
  BY NodesAreFinite, NodeTypes
<1> HIDE DEF w
<1>3. Picks(pick, S)
  BY DEF Picks
<1>4. \A s \in SUBSET S : s # {} => pick[s] = CHOOSE x \in s : TRUE
  OBVIOUS
<1>5. F \in [S \X Nat -> Nat] /\ \A x \in S, k \in Nat : F[<<x, k>>] = w(x) + k
  BY <1>2
<1> HIDE DEF pick, F
<1>6. PICK g \in [SUBSET S -> Nat] : IsFold(g, S, pick, 0, F)
  <2>1. 0 \in Nat
    OBVIOUS
  <2> QED
    BY <1>2, <1>3, <1>5, <2>1, FoldExists
<1>7. ASSUME NEW s \in SUBSET S
      PROVE  g[s] = IF s = {} THEN 0
                    ELSE w(CHOOSE x \in s : TRUE) + g[s \ {CHOOSE x \in s : TRUE}]
  <2>1. CASE s = {}
    BY <1>6, <2>1 DEF IsFold
  <2>2. CASE s # {}
    <3>1. pick[s] \in S /\ s \ {pick[s]} \in SUBSET S
      BY <1>3, <2>2 DEF Picks
    <3>2. g[s] = w(pick[s]) + g[s \ {pick[s]}]
      BY <1>5, <1>6, <2>2, <3>1 DEF IsFold
    <3> QED
      BY <1>4, <2>2, <3>2
  <2> QED
    BY <2>1, <2>2
<1>8. g = [s \in SUBSET S |->
             IF s = {} THEN 0
             ELSE w(CHOOSE x \in s : TRUE) + g[s \ {CHOOSE x \in s : TRUE}]]
  BY <1>7
<1>9. sum = [s \in SUBSET S |->
               IF s = {} THEN 0
               ELSE w(CHOOSE x \in s : TRUE) + sum[s \ {CHOOSE x \in s : TRUE}]]
  BY <1>8
<1> HIDE DEF sum
<1>10. \A s \in SUBSET S : g[s] = sum[s]
  <2>1. g[{}] = sum[{}]
    BY <1>6, <1>9 DEF IsFold
  <2>2. ASSUME NEW s \in SUBSET S, s # {}, g[s \ {pick[s]}] = sum[s \ {pick[s]}]
        PROVE  g[s] = sum[s]
    <3>1. g[s] = w(CHOOSE x \in s : TRUE) + g[s \ {CHOOSE x \in s : TRUE}]
      BY <1>7, <2>2
    <3>2. sum[s] = w(CHOOSE x \in s : TRUE) + sum[s \ {CHOOSE x \in s : TRUE}]
      BY <1>9, <2>2
    <3> QED
      BY <1>4, <2>2, <3>1, <3>2
  <2>3. Agree(g, sum, S, pick)
    BY <2>1, <2>2 DEF Agree
  <2> QED
    BY <1>2, <1>3, <2>3, FoldsAgree
<1> QED
  BY <1>1, <1>10

(* Precedes is a strict order of the nodes, of any two one way or other.   *)
LEMMA PrecedesOrders ==
  ASSUME NEW rank, \A n \in Nodes : rank[n] \in Nat \X Nat,
         NEW m \in Nodes, NEW n \in Nodes
  PROVE  /\ ~Precedes(rank, n, n)
         /\ m = n \/ Precedes(rank, m, n) \/ Precedes(rank, n, m)
         /\ \A l \in Nodes : Precedes(rank, m, n) /\ Precedes(rank, n, l) => Precedes(rank, m, l)
<1>1. ASSUME NEW x \in Nodes
      PROVE  x \in Nat /\ rank[x][1] \in Nat /\ rank[x][2] \in Nat
             /\ rank[x] = <<rank[x][1], rank[x][2]>>
  BY NodesAreFinite
<1>2. ASSUME NEW x \in Nodes, NEW y \in Nodes
      PROVE  rank[x] = rank[y] <=> rank[x][1] = rank[y][1] /\ rank[x][2] = rank[y][2]
  BY <1>1
<1>3. ~Precedes(rank, n, n)
  BY <1>1 DEF Precedes
<1>4. m = n \/ Precedes(rank, m, n) \/ Precedes(rank, n, m)
  BY <1>1, <1>2 DEF Precedes
<1>5. ASSUME NEW l \in Nodes, Precedes(rank, m, n), Precedes(rank, n, l)
      PROVE  Precedes(rank, m, l)
  BY <1>1, <1>2, <1>5 DEF Precedes
<1> QED
  BY <1>3, <1>4, <1>5

(* Every set of nodes has an order, and it has all of them.                *)
LEMMA OrderIs ==
  ASSUME Rooted, NEW items \in SUBSET Nodes
  PROVE  LET order == InOrder(Ranks(query.root, query.direction), items)
             c     == Cardinality(items)
             rank  == Ranks(query.root, query.direction)
         IN  /\ order \in [1 .. c -> items]
             /\ \A i, j \in 1 .. c : i < j => Precedes(rank, order[i], order[j])
             /\ \A n \in items : \E i \in 1 .. c : order[i] = n
<1> DEFINE c       == Cardinality(items)
           rank    == Ranks(query.root, query.direction)
           P(m, n) == Precedes(rank, m, n)
           f       == [n \in items |-> Cardinality({m \in items : P(m, n)}) + 1]
<1>1. \A n \in Nodes : rank[n] \in Nat \X Nat
  BY NodeTypes, RanksAre
<1> HIDE DEF rank
<1>2. \A m, n \in Nodes : /\ ~P(n, n)
                          /\ m = n \/ P(m, n) \/ P(n, m)
                          /\ \A l \in Nodes : P(m, n) /\ P(n, l) => P(m, l)
  BY <1>1, PrecedesOrders
<1> HIDE DEF P
<1>3. IsFiniteSet(items) /\ c \in Nat
  BY NodesAreFinite
<1>4. ASSUME NEW n \in items
      PROVE  /\ IsFiniteSet({m \in items : P(m, n)})
             /\ Cardinality({m \in items : P(m, n)}) \in 0 .. c - 1
  <2> DEFINE T == {m \in items : P(m, n)}
  <2>1. T \in SUBSET (items \ {n})
    BY <1>2
  <2>2. IsFiniteSet(items \ {n}) /\ Cardinality(items \ {n}) = c - 1
    BY <1>3, FS_RemoveElement
  <2>3. IsFiniteSet(T) /\ Cardinality(T) <= c - 1
    <3> HIDE DEF T
    <3> QED
      BY <2>1, <2>2, FS_Subset
  <2>4. Cardinality(T) \in Nat
    BY <2>3, FS_CardinalityType
  <2> QED
    BY <1>3, <2>3, <2>4
<1>5. f \in [items -> 1 .. c]
  <2>1. ASSUME NEW n \in items
        PROVE  Cardinality({m \in items : P(m, n)}) + 1 \in 1 .. c
    <3> HIDE DEF c
    <3> QED
      BY <1>3, <1>4
  <2> HIDE DEF c
  <2> QED
    BY <2>1
<1>6. ASSUME NEW m \in items, NEW n \in items, P(m, n)
      PROVE  f[m] < f[n]
  <2> DEFINE T == {l \in items : P(l, m)}
             U == {l \in items : P(l, n)}
  <2>1. T \subseteq U /\ m \in U /\ m \notin T
    BY <1>2, <1>6
  <2>2. IsFiniteSet(U) /\ Cardinality(T) \in Nat /\ Cardinality(U) \in Nat
    <3>1. IsFiniteSet(T) /\ IsFiniteSet(U)
      BY <1>4
    <3> HIDE DEF T, U
    <3> QED
      BY <3>1, FS_CardinalityType
  <2>3. f[m] = Cardinality(T) + 1 /\ f[n] = Cardinality(U) + 1
    OBVIOUS
  <2> HIDE DEF T, U, f
  <2>4. Cardinality(T) <= Cardinality(U) /\ Cardinality(T) # Cardinality(U)
    BY <2>1, <2>2, FS_Subset
  <2> QED
    BY <2>2, <2>3, <2>4
<1> HIDE DEF f
<1>7. f \in Injection(items, 1 .. c)
  <2>1. \A m, n \in items : f[m] = f[n] => m = n
    <3> SUFFICES ASSUME NEW m \in items, NEW n \in items, f[m] = f[n], m # n PROVE FALSE
      OBVIOUS
    <3>1. P(m, n) \/ P(n, m)
      BY <1>2
    <3>2. f[m] < f[n] \/ f[n] < f[m]
      BY <1>6, <3>1
    <3> QED
      BY <1>3, <1>5, <3>2
  <2> QED
    BY <1>5, <2>1 DEF Injection, IsInjective
<1>8. f \in Surjection(items, 1 .. c)
  <2>1. IsFiniteSet(1 .. c) /\ Cardinality(1 .. c) = c
    BY <1>3, FS_Interval
  <2> QED
    BY <1>7, <2>1, FS_Injection
<1>9. \A i \in 1 .. c : \E n \in items : f[n] = i
  BY <1>8 DEF Surjection
<1> DEFINE line == [i \in 1 .. c |-> CHOOSE n \in items : f[n] = i]
<1>10. line \in [1 .. c -> items] /\ \A i \in 1 .. c : f[line[i]] = i
  BY <1>9
<1> HIDE DEF line
<1>11. ASSUME NEW i \in 1 .. c, NEW j \in 1 .. c, i < j
       PROVE  P(line[i], line[j])
  <2>1. line[i] # line[j]
    BY <1>10, <1>11
  <2>2. ~P(line[j], line[i])
    BY <1>3, <1>6, <1>10, <1>11
  <2> QED
    BY <1>2, <1>10, <2>1, <2>2
<1> DEFINE Sorted(o) == \A i, j \in DOMAIN o : i < j => P(o[i], o[j])
           order == InOrder(Ranks(query.root, query.direction), items)
<1>12. order = CHOOSE o \in [1 .. c -> items] : Sorted(o)
  BY DEF InOrder, rank, P
<1>13. Sorted(line)
  BY <1>10, <1>11
<1> HIDE DEF order
<1>14. order \in [1 .. c -> items] /\ Sorted(order)
  <2> HIDE DEF Sorted
  <2> QED
    BY <1>10, <1>12, <1>13
<1>15. \A i, j \in 1 .. c : i < j => P(order[i], order[j])
  BY <1>14
<1> HIDE DEF Sorted
<1>16. order \in Injection(1 .. c, items)
  <2>1. \A i, j \in 1 .. c : order[i] = order[j] => i = j
    <3> SUFFICES ASSUME NEW i \in 1 .. c, NEW j \in 1 .. c, order[i] = order[j], i # j PROVE FALSE
      OBVIOUS
    <3>1. i < j \/ j < i
      BY <1>3
    <3>2. P(order[i], order[j]) \/ P(order[j], order[i])
      BY <1>15, <3>1
    <3> QED
      BY <1>2, <1>14, <3>2
  <2> QED
    BY <1>14, <2>1 DEF Injection, IsInjective
<1>17. order \in Surjection(1 .. c, items)
  <2>1. IsFiniteSet(1 .. c) /\ Cardinality(1 .. c) = c
    BY <1>3, FS_Interval
  <2>2. Cardinality(items) = c
    OBVIOUS
  <2> HIDE DEF c
  <2> QED
    BY <1>3, <1>16, <2>1, <2>2, FS_Injection
<1>18. \A n \in items : \E i \in 1 .. c : order[i] = n
  BY <1>17 DEF Surjection
<1> QED
  BY <1>14, <1>15, <1>18 DEF order, c, P, rank


(* A set of places has a last one.                                         *)
LEMMA LastExists ==
  ASSUME NEW n \in Nat, NEW S \in SUBSET (1 .. n), S # {}
  PROVE  Max(S) \in S /\ \A j \in S : j <= Max(S)
<1> DEFINE Bounds == {m \in Nat : \A j \in S : j <= m}
<1>1. n \in Bounds /\ Bounds \in SUBSET Nat
  OBVIOUS
<1>2. PICK m \in Bounds : \A k \in Bounds : m <= k
  <2> HIDE DEF Bounds
  <2> QED
    BY <1>1, LeastExists
<1>3. m \in Nat /\ \A j \in S : j <= m
  OBVIOUS
<1>4. m \in S
  <2> SUFFICES ASSUME m \notin S PROVE FALSE
    OBVIOUS
  <2>1. \A j \in S : j \in Nat /\ j >= 1 /\ j <= m - 1
    BY <1>3
  <2>2. m - 1 \in Nat
    <3>1. PICK j \in S : TRUE
      OBVIOUS
    <3>2. j \in Nat /\ 1 <= j /\ j <= m - 1
      BY <2>1
    <3> QED
      BY <1>3, <3>2
  <2>3. m - 1 \in Bounds
    BY <2>1, <2>2
  <2>4. ~(m <= m - 1)
    BY <1>3
  <2> HIDE DEF Bounds
  <2> QED
    BY <1>2, <2>3, <2>4
<1> HIDE DEF Bounds
<1>5. \A k \in S : (\A j \in S : k >= j) => k = m
  BY <1>3, <1>4
<1>6. \A j \in S : m >= j
  BY <1>3
<1>7. Max(S) = m
  BY <1>4, <1>5, <1>6 DEF Max
<1> QED
  BY <1>3, <1>4, <1>7

(* The budget is spent place by place.                                     *)
Spent(kept, n) ==
  IF n = query.root \/ TokensIn(kept \cup {n}) <= query.budget THEN kept \cup {n} ELSE kept

(* The selection as a sequence of selections, one item at a time.          *)
LEMMA FittingSteps ==
  ASSUME Rooted, NEW items \in SUBSET Nodes
  PROVE  LET order == InOrder(Ranks(query.root, query.direction), items)
             c     == Cardinality(items)
         IN  \E K \in [0 .. c -> SUBSET Nodes] :
               /\ K[0] = {} /\ Fitting(items) = K[c]
               /\ \A k \in 1 .. c : K[k] = Spent(K[k - 1], order[k])
<1> DEFINE order == InOrder(Ranks(query.root, query.direction), items)
           c     == Cardinality(items)
           D     == 1 .. c
           V     == SUBSET Nodes
           pick  == [s \in SUBSET D |-> Max(s)]
           F     == [x \in D \X V |-> Spent(x[2], order[x[1]])]
           all   == CHOOSE iter : iter = [s \in SUBSET D |->
                      IF s = {} THEN {} ELSE Spent(iter[s \ {Max(s)}], order[Max(s)])]
<1>1. order \in [D -> items]
  BY OrderIs
<1>2. c \in Nat /\ IsFiniteSet(D)
  <2>1. c \in Nat
    BY NodesAreFinite
  <2> HIDE DEF c
  <2> QED
    BY <2>1, FS_Interval
<1>3. Fitting(items) = all[D]
  <2>1. DOMAIN order = D
    BY <1>1
  <2>2. Fitting(items) = (CHOOSE iter : iter = [s \in SUBSET (DOMAIN order) |->
                      IF s = {} THEN {} ELSE Spent(iter[s \ {Max(s)}], order[Max(s)])])[DOMAIN order]
    <3>1. Fitting(items) = FittingAlong(order)
      <4> HIDE DEF order
      <4> DEFINE ranked == Ranks(query.root, query.direction)
      <4>1. order = InOrder(ranked, items)
        BY DEF order
      <4>2. Fitting(items) = UNION {FittingAlong(o) : o \in {InOrder(r, items) : r \in {ranked}}}
        BY DEF Fitting
      <4> HIDE DEF ranked
      <4> QED
        BY <4>1, <4>2
    <3> HIDE DEF order
    <3>2. FittingAlong(order) = (CHOOSE iter : iter = [s \in SUBSET (DOMAIN order) |->
                      IF s = {} THEN {} ELSE Spent(iter[s \ {Max(s)}], order[Max(s)])])[DOMAIN order]
      BY DEF FittingAlong, FoldLeft, MapThenFoldSet, Spent
    <3> QED
      BY <3>1, <3>2
  <2> QED
    BY <2>1, <2>2
<1> HIDE DEF order, c
<1>4. \A s \in SUBSET D : s # {} => pick[s] = Max(s) /\ Max(s) \in s /\ \A j \in s : j <= Max(s)
  BY <1>2, LastExists
<1>5. Picks(pick, D)
  <2> HIDE DEF pick, D
  <2> QED
    BY <1>4 DEF Picks
<1>6. F \in [D \X V -> V]
  <2>1. ASSUME NEW x \in D \X V
        PROVE  Spent(x[2], order[x[1]]) \in V
    <3>1. x[2] \in V /\ order[x[1]] \in Nodes
      BY <1>1
    <3> QED
      BY <3>1 DEF Spent
  <2> QED
    BY <2>1
<1>7. \A k \in D, kept \in V : F[<<k, kept>>] = Spent(kept, order[k])
  OBVIOUS
<1> HIDE DEF pick, F, D
<1>8. PICK g \in [SUBSET D -> V] : IsFold(g, D, pick, {}, F)
  <2>1. {} \in V
    OBVIOUS
  <2> HIDE DEF V
  <2> QED
    BY <1>2, <1>5, <1>6, <2>1, FoldExists
<1>9. ASSUME NEW s \in SUBSET D, s # {}
      PROVE  g[s] = Spent(g[s \ {Max(s)}], order[Max(s)]) /\ pick[s] = Max(s) /\ Max(s) \in s
  <2>1. pick[s] = Max(s) /\ Max(s) \in s /\ Max(s) \in D /\ s \ {Max(s)} \in SUBSET D
    BY <1>4, <1>9
  <2>2. g[s] = F[<<Max(s), g[s \ {Max(s)}]>>]
    BY <1>8, <1>9, <2>1 DEF IsFold
  <2>3. g[s \ {Max(s)}] \in V
    BY <1>8, <2>1
  <2> QED
    BY <1>7, <2>1, <2>2, <2>3
<1>10. g[{}] = {}
  BY <1>8 DEF IsFold
<1>11. g = [s \in SUBSET D |-> IF s = {} THEN {} ELSE Spent(g[s \ {Max(s)}], order[Max(s)])]
  BY <1>9, <1>10
<1>12. all = [s \in SUBSET D |-> IF s = {} THEN {} ELSE Spent(all[s \ {Max(s)}], order[Max(s)])]
  BY <1>11
<1> HIDE DEF all
<1>13. Agree(g, all, D, pick)
  <2>1. g[{}] = all[{}]
    BY <1>10, <1>12
  <2>2. ASSUME NEW s \in SUBSET D, s # {}, g[s \ {pick[s]}] = all[s \ {pick[s]}]
        PROVE  g[s] = all[s]
    <3>1. all[s] = Spent(all[s \ {Max(s)}], order[Max(s)])
      BY <1>12, <2>2
    <3> QED
      BY <1>9, <2>2, <3>1
  <2> QED
    BY <2>1, <2>2 DEF Agree
<1>14. all[D] = g[D]
  BY <1>2, <1>5, <1>13, FoldsAgree
<1> DEFINE K == [k \in 0 .. c |-> g[1 .. k]]
<1>15. ASSUME NEW k \in 0 .. c
       PROVE  1 .. k \in SUBSET D /\ K[k] = g[1 .. k]
  BY <1>2 DEF D
<1>16. K \in [0 .. c -> SUBSET Nodes]
  <2>1. ASSUME NEW k \in 0 .. c
        PROVE  g[1 .. k] \in V
    BY <1>8, <1>15
  <2> QED
    BY <2>1
<1>17. K[0] = {} /\ K[c] = g[D]
  <2>1. 1 .. 0 = {} /\ 0 \in 0 .. c /\ c \in 0 .. c
    BY <1>2
  <2> HIDE DEF K
  <2> QED
    BY <1>10, <1>15, <2>1 DEF D
<1>18. ASSUME NEW k \in 1 .. c
       PROVE  K[k] = Spent(K[k - 1], order[k])
  <2>1. k \in 0 .. c /\ k - 1 \in 0 .. c /\ 1 .. k # {} /\ k \in Nat
    <3>1. k \in 0 .. c /\ k - 1 \in 0 .. c /\ k \in Nat /\ k \in 1 .. k
      BY <1>2
    <3> QED
      BY <3>1
  <2> DEFINE s == 1 .. k
  <2>2. s \in SUBSET D /\ K[k] = g[s] /\ K[k - 1] = g[1 .. k - 1]
    <3> HIDE DEF K
    <3> QED
      BY <1>15, <2>1
  <2>3. Max(s) \in s /\ \A j \in s : j <= Max(s)
    BY <2>1, LastExists
  <2>4. Max(s) = k
    BY <2>1, <2>3
  <2>5. s \ {k} = 1 .. k - 1
    BY <2>1
  <2> HIDE DEF K
  <2>6. g[s] = Spent(g[s \ {Max(s)}], order[Max(s)])
    <3>1. s # {}
      BY <2>1
    <3> HIDE DEF s
    <3> QED
      BY <1>9, <2>2, <3>1
  <2> QED
    BY <2>2, <2>4, <2>5, <2>6
<1> HIDE DEF K
<1>19. Fitting(items) = K[c]
  BY <1>3, <1>14, <1>17
<1> QED
  BY <1>16, <1>17, <1>18, <1>19 DEF order, c


(* Nothing precedes the root.                                              *)
LEMMA RootIsFirst ==
  ASSUME Rooted, NEW n \in Nodes
  PROVE  ~Precedes(Ranks(query.root, query.direction), n, query.root)
<1> DEFINE rank == Ranks(query.root, query.direction)
           root == query.root
<1>1. /\ \A x \in Nodes : rank[x] \in Nat \X Nat
      /\ rank[root] = <<0, 0>> /\ root \in Nodes
      /\ \A x \in Nodes \ {root} : rank[x][2] # 0
  BY NodeTypes, RanksAre
<1> HIDE DEF rank, root
<1>2. rank[root][1] = 0 /\ rank[root][2] = 0
  BY <1>1
<1>3. rank[n][1] \in Nat /\ rank[n][2] \in Nat
  BY <1>1
<1>4. CASE n = root
  BY <1>1, <1>4, PrecedesOrders DEF root, rank
<1>5. CASE n # root
  <2>1. rank[n] # rank[root]
    BY <1>1, <1>2, <1>5
  <2> QED
    BY <1>2, <1>3, <2>1 DEF Precedes, rank, root
<1> QED
  BY <1>4, <1>5

(* What is kept is of what was offered; it fits, or is the root alone; and *)
(* what was left out did not fit with what is kept before it.              *)
LEMMA FittingIsGreedy ==
  ASSUME Rooted, NEW items \in SUBSET Nodes, query.root \in items
  PROVE  /\ Fitting(items) \subseteq items
         /\ TokensIn(Fitting(items)) <= query.budget \/ Fitting(items) = {query.root}
         /\ \A n \in items \ Fitting(items) :
              ~(TokensIn({m \in Fitting(items) :
                            Precedes(Ranks(query.root, query.direction), m, n)} \cup {n})
                  <= query.budget)
<1> DEFINE rank    == Ranks(query.root, query.direction)
           P(m, n) == Precedes(rank, m, n)
           order   == InOrder(Ranks(query.root, query.direction), items)
           c       == Cardinality(items)
           root    == query.root
           Fits(s) == TokensIn(s) <= query.budget
<1>1. c \in Nat
  BY NodesAreFinite
<1>2. /\ order \in [1 .. c -> items]
      /\ \A i, j \in 1 .. c : i < j => P(order[i], order[j])
      /\ \A n \in items : \E i \in 1 .. c : order[i] = n
  BY OrderIs
<1>3. PICK K \in [0 .. c -> SUBSET Nodes] :
               /\ K[0] = {} /\ Fitting(items) = K[c]
               /\ \A k \in 1 .. c : K[k] = Spent(K[k - 1], order[k])
  BY FittingSteps
<1>4. \A m, n \in Nodes : /\ ~P(n, n)
                          /\ m = n \/ P(m, n) \/ P(n, m)
                          /\ \A l \in Nodes : P(m, n) /\ P(n, l) => P(m, l)
  <2>1. \A n \in Nodes : rank[n] \in Nat \X Nat
    BY NodeTypes, RanksAre
  <2> HIDE DEF rank
  <2> QED
    BY <2>1, PrecedesOrders
<1>5. \A n \in Nodes : ~P(n, root)
  BY RootIsFirst
<1> HIDE DEF order, c, P, rank
<1>6. ASSUME NEW k \in 1 .. c
      PROVE  /\ k - 1 \in 0 .. c /\ k \in 0 .. c /\ ~(k <= k - 1) /\ k \in Nat
             /\ order[k] \in Nodes /\ order[k] \in items
             /\ \/ K[k] = K[k - 1] \cup {order[k]} /\ (order[k] = root \/ Fits(K[k]))
                \/ K[k] = K[k - 1] /\ order[k] # root /\ ~Fits(K[k - 1] \cup {order[k]})
  <2>1. k - 1 \in 0 .. c /\ k \in 0 .. c /\ ~(k <= k - 1) /\ k \in Nat
    BY <1>1
  <2>2. order[k] \in items
    BY <1>2
  <2>3. K[k] = Spent(K[k - 1], order[k])
    BY <1>3
  <2> QED
    BY <2>1, <2>2, <2>3 DEF Spent
<1> HIDE DEF Fits
<1>7. ASSUME NEW k \in 0 .. c
      PROVE  \A n \in K[k] : \E i \in 1 .. k : order[i] = n
  <2> DEFINE Bad == {j \in 0 .. c : ~(\A n \in K[j] : \E i \in 1 .. j : order[i] = n)}
  <2>1. Bad = {}
    <3> SUFFICES ASSUME Bad # {} PROVE FALSE
      OBVIOUS
    <3>1. Bad \in SUBSET Nat
      BY <1>1
    <3>2. PICK m \in Bad : \A j \in Bad : m <= j
      <4> HIDE DEF Bad
      <4> QED
        BY <3>1, LeastExists
    <3>3. m \in 0 .. c /\ m # 0
      BY <1>3
    <3>4. m \in 1 .. c
      BY <1>1, <3>3
    <3>5. m - 1 \notin Bad
      <4> HIDE DEF Bad
      <4> QED
        BY <1>6, <3>2, <3>4
    <3>6. \A n \in K[m - 1] : \E i \in 1 .. m - 1 : order[i] = n
      BY <1>6, <3>4, <3>5
    <3>7. \A n \in K[m] : n \in K[m - 1] \/ n = order[m]
      BY <1>6, <3>4
    <3>8. m \in 1 .. m /\ \A i \in 1 .. m - 1 : i \in 1 .. m
      BY <1>6, <3>4
    <3>9. \A n \in K[m] : \E i \in 1 .. m : order[i] = n
      BY <3>6, <3>7, <3>8
    <3> QED
      BY <3>9
  <2> QED
    BY <2>1
<1>8. ASSUME NEW i \in 1 .. c, NEW j \in 1 .. c, order[i] = order[j]
      PROVE  i = j
  <2> SUFFICES ASSUME i # j PROVE FALSE
    OBVIOUS
  <2>1. i < j \/ j < i
    BY <1>1
  <2> QED
    BY <1>2, <1>4, <1>6, <1>8, <2>1
<1>9. ASSUME NEW k \in 0 .. c, NEW j \in k .. c, NEW i \in 1 .. k
      PROVE  order[i] \in K[j] <=> order[i] \in K[k]
  <2> DEFINE Bad == {l \in k .. c : ~(order[i] \in K[l] <=> order[i] \in K[k])}
  <2>1. Bad = {}
    <3> SUFFICES ASSUME Bad # {} PROVE FALSE
      OBVIOUS
    <3>1. Bad \in SUBSET Nat
      BY <1>1
    <3>2. PICK m \in Bad : \A l \in Bad : m <= l
      <4> HIDE DEF Bad
      <4> QED
        BY <3>1, LeastExists
    <3>3. m \in k .. c /\ m # k /\ ~(order[i] \in K[m] <=> order[i] \in K[k])
      OBVIOUS
    <3>4. m \in 1 .. c /\ m - 1 \in k .. c /\ i \in 1 .. c /\ i # m
      BY <1>1, <3>3
    <3>5. m - 1 \notin Bad
      <4> HIDE DEF Bad
      <4> QED
        BY <1>6, <3>2, <3>4
    <3>6. order[i] \in K[m - 1] <=> order[i] \in K[k]
      BY <3>4, <3>5
    <3>7. order[i] # order[m]
      BY <1>8, <3>4
    <3>8. K[m] = K[m - 1] \cup {order[m]} \/ K[m] = K[m - 1]
      BY <1>6, <3>4
    <3> QED
      BY <3>3, <3>6, <3>7, <3>8
  <2> QED
    BY <2>1
<1>10. c \in 1 .. c /\ 1 \in 1 .. c /\ order[1] = root
  <2>1. PICK i \in 1 .. c : order[i] = root
    BY <1>2
  <2>2. 1 \in 1 .. c /\ c \in 1 .. c
    BY <1>1
  <2>3. ~(1 < i)
    BY <1>2, <1>5, <1>6, <2>1, <2>2
  <2>4. i = 1
    BY <1>1, <2>3
  <2> QED
    BY <2>1, <2>2, <2>4
<1>11. K[1] = {root}
  <2>1. K[1] = K[1 - 1] \cup {order[1]}
    BY <1>6, <1>10
  <2>2. 1 - 1 = 0
    OBVIOUS
  <2> QED
    BY <1>3, <1>10, <2>1, <2>2
<1>12. Fits(K[c]) \/ K[c] = {root}
  <2> DEFINE Bad == {j \in 1 .. c : ~(Fits(K[j]) \/ K[j] = {root})}
  <2>1. Bad = {}
    <3> SUFFICES ASSUME Bad # {} PROVE FALSE
      OBVIOUS
    <3>1. Bad \in SUBSET Nat
      BY <1>1
    <3>2. PICK m \in Bad : \A j \in Bad : m <= j
      <4> HIDE DEF Bad
      <4> QED
        BY <3>1, LeastExists
    <3>3. m \in 1 .. c /\ ~Fits(K[m]) /\ K[m] # {root}
      OBVIOUS
    <3>4. m # 1 /\ order[m] # root
      BY <1>8, <1>10, <1>11, <3>3
    <3>5. K[m] = K[m - 1]
      BY <1>6, <3>3, <3>4
    <3>6. m - 1 \in 1 .. c /\ ~(m <= m - 1)
      BY <1>1, <3>3, <3>4
    <3>7. m - 1 \notin Bad
      <4> HIDE DEF Bad
      <4> QED
        BY <3>2, <3>6
    <3> QED
      BY <3>3, <3>5, <3>6, <3>7
  <2> QED
    BY <1>10, <2>1
<1>13. ASSUME NEW n \in items, n \notin K[c]
       PROVE  ~Fits({m \in K[c] : P(m, n)} \cup {n})
  <2>1. PICK k \in 1 .. c : order[k] = n
    BY <1>2
  <2>2. n \notin K[k]
    <3>1. k \in 0 .. c /\ c \in k .. c /\ k \in 1 .. k
      BY <1>1
    <3> QED
      BY <1>9, <1>13, <2>1, <3>1
  <2>3. ~Fits(K[k - 1] \cup {n})
    BY <1>6, <2>1, <2>2
  <2>4. k - 1 \in 0 .. c /\ c \in k - 1 .. c
    BY <1>1
  <2>5. ASSUME NEW m \in K[k - 1]
        PROVE  m \in K[c] /\ P(m, n)
    <3>1. PICK i \in 1 .. k - 1 : order[i] = m
      BY <1>7, <2>4
    <3>2. i \in 1 .. c /\ i < k
      BY <1>1
    <3>3. m \in K[c]
      BY <1>9, <2>4, <2>5, <3>1
    <3>4. P(order[i], order[k])
      BY <1>2, <3>2
    <3> QED
      BY <2>1, <3>1, <3>3, <3>4
  <2>6. ASSUME NEW m \in K[c], P(m, n)
        PROVE  m \in K[k - 1]
    <3>1. PICK i \in 1 .. c : order[i] = m
      BY <1>7, <1>10, <1>6
    <3>2. ~P(order[k], order[i])
      BY <1>4, <1>6, <2>1, <2>6, <3>1
    <3>3. i # k
      BY <1>4, <1>6, <2>1, <2>6, <3>1
    <3>4. ~(k < i)
      BY <1>2, <3>2
    <3>5. i \in 1 .. k - 1
      BY <1>1, <3>3, <3>4
    <3> QED
      BY <1>9, <2>4, <2>6, <3>1, <3>5
  <2>7. {m \in K[c] : P(m, n)} = K[k - 1]
    BY <2>5, <2>6
  <2> QED
    BY <2>3, <2>7
<1>14. K[c] \subseteq items
  <2>1. c \in 0 .. c
    BY <1>1
  <2> QED
    BY <1>2, <1>7, <2>1
<1> QED
  BY <1>3, <1>12, <1>13, <1>14 DEF Fits, P, rank, root


(* What was handed over is what one of the three ways makes of the graph.  *)
ArtifactInv ==
  /\ Rooted
  /\ \/ handed.kind \in {"none", "refused"} /\ handed.items = {}
     \/ /\ handed.kind = "bundle" /\ handed.items = {query.root} /\ handed.candidates = {}
        /\ ~query.strict
     \/ /\ handed.kind = "bundle" /\ handed.candidates \subseteq Nearby
        /\ query.root \in handed.candidates /\ handed.items = Fitting(handed.candidates)
        /\ query.strict => handed.candidates \cap (OnCycle \cup Dangling) = {}

(* The root is near itself.                                                *)
LEMMA RootIsNearby ==
  ASSUME Rooted
  PROVE  query.root \in Nearby
<1>1. query.root \in Nodes /\ query.depth \in 0 .. NodeCount
  BY NodeTypes
<1>2. Ranks(query.root, query.direction)[query.root] = <<0, 0>>
  BY NodeTypes, RanksAre
<1>3. 0 \in 0 .. query.depth
  BY <1>1, NodesAreFinite
<1> QED
  BY <1>1, <1>2, <1>3 DEF Nearby

(* Nothing is handed over at first.                                        *)
LEMMA ArtifactsStart == ArtifactInit => ArtifactInv
BY DEF ArtifactInit, ArtifactInv, Rooted, NotYet

(* One command: refused, the root alone, or a selection of what is near.   *)
LEMMA ArtifactsNextKeep == ArtifactInv /\ [ArtifactNext]_artifactVars => ArtifactInv'
<1> SUFFICES ASSUME ArtifactInv, [ArtifactNext]_artifactVars PROVE ArtifactInv'
  OBVIOUS
<1>1. artifacts' = artifacts /\ query' = query
  BY DEF ArtifactNext, HandRoot, HandBundle, HandSelection, artifactVars
<1>2. Rooted /\ Rooted'
  BY <1>1 DEF ArtifactInv, Rooted
<1>3. /\ Nearby' = Nearby /\ OnCycle' = OnCycle /\ Dangling' = Dangling
      /\ \A S : Fitting(S)' = Fitting(S)
  <2>1. Nearby' = Nearby
    BY <1>1 DEF Nearby, Ranks, Backward, Forward, SourcesOf, DerivedOf
  <2>2. OnCycle' = OnCycle /\ Dangling' = Dangling
    BY <1>1 DEF OnCycle, Dangling, Backward, SourcesOf
  <2>3. ASSUME NEW S
        PROVE  Fitting(S)' = Fitting(S)
    BY <1>1 DEF Fitting, FittingAlong, FoldLeft, MapThenFoldSet, TokensIn, MapThenSumSet, InOrder, Ranks,
                Backward, Forward, SourcesOf, DerivedOf
  <2> QED
    BY <2>1, <2>2, <2>3
<1>4. CASE HandRoot
  BY <1>1, <1>2, <1>4 DEF HandRoot, ArtifactInv
<1>5. CASE HandBundle
  <2>1. CASE query.strict /\ Nearby \intersect (OnCycle \union Dangling) # {}
    <3>1. handed' = [NotYet EXCEPT !.kind = "refused"]
      BY <1>5, <2>1 DEF HandBundle
    <3>2. handed'.kind = "refused" /\ handed'.items = {}
      BY <3>1 DEF NotYet
    <3> QED
      BY <1>2, <3>2 DEF ArtifactInv
  <2>2. CASE ~(query.strict /\ Nearby \intersect (OnCycle \union Dangling) # {})
    <3>1. handed' = [kind |-> "bundle", items |-> Fitting(Nearby), candidates |-> Nearby]
      BY <1>5, <2>2 DEF HandBundle
    <3>2. /\ handed'.kind = "bundle" /\ handed'.items = Fitting(handed'.candidates)
          /\ handed'.candidates = Nearby
      BY <3>1
    <3>3. query.root \in Nearby
      BY <1>2, RootIsNearby
    <3> QED
      BY <1>1, <1>2, <1>3, <2>2, <3>2, <3>3 DEF ArtifactInv
  <2> QED
    BY <2>1, <2>2
<1>6. CASE HandSelection
  <2>1. PICK label \in [Nearby \ {query.root} -> {"required", "irrelevant", "unsure"}] :
          LET keep == {n \in Nearby : n = query.root \/ label[n] # "irrelevant"}
          IN  handed' = [kind |-> "bundle", items |-> Fitting(keep), candidates |-> keep]
    BY <1>6 DEF HandSelection
  <2> DEFINE keep == {n \in Nearby : n = query.root \/ label[n] # "irrelevant"}
  <2>2. /\ handed'.kind = "bundle" /\ handed'.items = Fitting(handed'.candidates)
        /\ handed'.candidates = keep
    BY <2>1
  <2>3. query.root \in keep /\ keep \subseteq Nearby
    BY <1>2, RootIsNearby
  <2>4. ~query.strict
    BY <1>6 DEF HandSelection
  <2> HIDE DEF keep
  <2> QED
    BY <1>1, <1>2, <1>3, <2>2, <2>3, <2>4 DEF ArtifactInv
<1>7. CASE UNCHANGED artifactVars
  BY <1>1, <1>2, <1>3, <1>7 DEF artifactVars, ArtifactInv
<1> QED
  BY <1>4, <1>5, <1>6, <1>7 DEF ArtifactNext

(* What a selection promises, from what the walk and the spending of the   *)
(* budget are.                                                             *)
LEMMA ArtifactsAreHanded ==
  ArtifactInv => HandedIsTraced /\ BudgetGoesToTheNearest /\ StrictIsReadable
<1> SUFFICES ASSUME ArtifactInv
             PROVE  HandedIsTraced /\ BudgetGoesToTheNearest /\ StrictIsReadable
  OBVIOUS
<1>1. Rooted
  BY DEF ArtifactInv
<1>2. CASE handed.kind \in {"none", "refused"} /\ handed.items = {}
  BY <1>2 DEF HandedIsTraced, BudgetGoesToTheNearest, StrictIsReadable
<1>3. CASE /\ handed.kind = "bundle" /\ handed.items = {query.root} /\ handed.candidates = {}
           /\ ~query.strict
  BY <1>3 DEF HandedIsTraced, BudgetGoesToTheNearest, StrictIsReadable
<1>4. CASE /\ handed.kind = "bundle" /\ handed.candidates \subseteq Nearby
           /\ query.root \in handed.candidates /\ handed.items = Fitting(handed.candidates)
           /\ query.strict => handed.candidates \cap (OnCycle \cup Dangling) = {}
  <2> DEFINE items == handed.items
             keep  == handed.candidates
             rank  == Ranks(query.root, query.direction)
  <2>1. keep \in SUBSET Nodes /\ keep \subseteq Nearby
    BY <1>4 DEF Nearby
  <2>2. /\ items \subseteq keep
        /\ TokensIn(items) <= query.budget \/ items = {query.root}
        /\ \A n \in keep \ items :
             ~(TokensIn({m \in items : Precedes(rank, m, n)} \cup {n}) <= query.budget)
    BY <1>1, <1>4, <2>1, FittingIsGreedy
  <2> HIDE DEF rank
  <2>3. HandedIsTraced
    BY <1>1, <2>1, <2>2, NearbyIsTraced DEF HandedIsTraced
  <2>4. ASSUME NEW n \in keep \ items
        PROVE  TokensIn({m \in items : Precedes(rank, m, n)} \cup {n}) > query.budget
    <3> DEFINE S == {m \in items : Precedes(rank, m, n)} \cup {n}
    <3>1. S \in SUBSET Nodes
      BY <2>1, <2>2
    <3>2. TokensIn(S) \in Nat /\ query.budget \in Nat
      <4> HIDE DEF S
      <4> QED
        BY <1>1, <3>1, TokensAreNatural, NodeTypes
    <3>3. ~(TokensIn(S) <= query.budget)
      BY <2>2
    <3> HIDE DEF S
    <3>4. TokensIn(S) > query.budget
      BY <3>2, <3>3
    <3> QED
      BY <3>4 DEF S
  <2>5. BudgetGoesToTheNearest
    BY <2>2, <2>4 DEF BudgetGoesToTheNearest, rank
  <2>6. StrictIsReadable
    <3>1. query.strict => items \in SUBSET Nodes /\ items \cap (OnCycle \cup Dangling) = {}
      BY <1>4, <2>1, <2>2
    <3> HIDE DEF items
    <3> QED
      BY <1>1, <3>1, AcyclicIsReadable DEF StrictIsReadable, items
  <2> QED
    BY <2>3, <2>5, <2>6
<1> QED
  BY <1>2, <1>3, <1>4 DEF ArtifactInv

-----------------------------------------------------------------------------
(* The composition: each part keeps its invariant while it moves.          *)

HandoverInv ==
  /\ part = "envelope" => EnvelopeInv
  /\ part = "install" => InstallInv
  /\ part = "registry" => RegistryInv
  /\ part = "files" => FilesInv
  /\ part = "artifacts" => ArtifactInv
  /\ part = "candidate" => CandidateInv
  /\ part = "card" => CardInv

(* The parts keep their invariants, for every value of the constants.      *)
THEOREM HandoverInvariance == HandoverSpec => []HandoverInv
<1>1. HandoverInit => HandoverInv
  <2> SUFFICES ASSUME HandoverInit PROVE HandoverInv
    OBVIOUS
  <2>1. part = "envelope" => EnvelopeInv
    BY EnvelopeStarts DEF HandoverInit
  <2>2. part = "install" => InstallInv
    BY InstallStarts DEF HandoverInit
  <2>3. part = "registry" => RegistryInv
    BY RegistryStarts DEF HandoverInit
  <2>4. part = "files" => FilesInv
    BY FilesStart DEF HandoverInit
  <2>5. part = "artifacts" => ArtifactInv
    BY ArtifactsStart DEF HandoverInit
  <2>6. part = "candidate" => CandidateInv
    BY CandidateStarts DEF HandoverInit
  <2>7. part = "card" => CardInv
    BY CardStarts DEF HandoverInit
  <2> QED
    BY <2>1, <2>2, <2>3, <2>4, <2>5, <2>6, <2>7 DEF HandoverInv
<1>2. HandoverInv /\ [HandoverNext]_<<part, vars, installVars, registryVars, contextVars,
                                      artifactVars, candidateVars, nodeVars>>
        => HandoverInv'
  <2> SUFFICES ASSUME HandoverInv,
                      [HandoverNext]_<<part, vars, installVars, registryVars, contextVars,
                                       artifactVars, candidateVars, nodeVars>>
               PROVE  HandoverInv'
    OBVIOUS
  <2>1. part' = part
    BY DEF HandoverNext
  <2>2. part = "envelope" => EnvelopeInv'
    <3> SUFFICES ASSUME part = "envelope" PROVE EnvelopeInv'
      OBVIOUS
    <3>1. EnvelopeInv
      BY DEF HandoverInv
    <3>2. [Next]_vars
      BY DEF HandoverNext
    <3> QED
      BY <3>1, <3>2, EnvelopeNextKeeps
  <2>3. part = "install" => InstallInv'
    <3> SUFFICES ASSUME part = "install" PROVE InstallInv'
      OBVIOUS
    <3>1. InstallInv
      BY DEF HandoverInv
    <3>2. [InstallNext]_installVars
      BY DEF HandoverNext
    <3> QED
      BY <3>1, <3>2, InstallNextKeeps
  <2>4. part = "registry" => RegistryInv'
    <3> SUFFICES ASSUME part = "registry" PROVE RegistryInv'
      OBVIOUS
    <3>1. RegistryInv
      BY DEF HandoverInv
    <3>2. [RegistryNext]_registryVars
      BY DEF HandoverNext
    <3> QED
      BY <3>1, <3>2, RegistryNextKeeps
  <2>5. part = "files" => FilesInv'
    <3> SUFFICES ASSUME part = "files" PROVE FilesInv'
      OBVIOUS
    <3>1. FilesInv
      BY DEF HandoverInv
    <3>2. [ContextNext]_contextVars
      BY DEF HandoverNext
    <3> QED
      BY <3>1, <3>2, FilesNextKeep
  <2>6. part = "artifacts" => ArtifactInv'
    <3> SUFFICES ASSUME part = "artifacts" PROVE ArtifactInv'
      OBVIOUS
    <3>1. ArtifactInv
      BY DEF HandoverInv
    <3>2. [ArtifactNext]_artifactVars
      BY DEF HandoverNext
    <3> QED
      BY <3>1, <3>2, ArtifactsNextKeep
  <2>7. part = "candidate" => CandidateInv'
    <3> SUFFICES ASSUME part = "candidate" PROVE CandidateInv'
      OBVIOUS
    <3>1. CandidateInv
      BY DEF HandoverInv
    <3>2. [CandidateNext]_candidateVars
      BY DEF HandoverNext
    <3> QED
      BY <3>1, <3>2, CandidateNextKeeps
  <2>8. part = "card" => CardInv'
    <3> SUFFICES ASSUME part = "card" PROVE CardInv'
      OBVIOUS
    <3>1. CardInv
      BY DEF HandoverInv
    <3>2. [Node!NodeNext]_nodeVars
      BY DEF HandoverNext
    <3> QED
      BY <3>1, <3>2, CardNextKeeps
  <2> QED
    BY <2>1, <2>2, <2>3, <2>4, <2>5, <2>6, <2>7, <2>8
      DEF HandoverInv
<1> QED
  BY <1>1, <1>2, PTL DEF HandoverSpec

(* Installations keep people's text as long as no marker is deleted and no *)
(* write cut off, succeed with a complete project only, and do not refuse  *)
(* their own configuration; a registry that is reported is one that was    *)
(* reviewed.                                                               *)
THEOREM InstallationsAreSoundAlways == HandoverSpec => []InstallationsAreSound
<1>1. HandoverInv => InstallationsAreSound
  BY InstallationIsSound DEF HandoverInv, InstallationsAreSound, RegistryInv
<1> QED
  BY <1>1, HandoverInvariance, PTL

(* No file is withheld that changed, or that nobody was sure about; what   *)
(* is handed over of the artifacts is traced, within the budget with the   *)
(* nearest first, and readable in order when that was asked for.           *)
THEOREM InputsAreHandedOverAlways == HandoverSpec => []InputsAreHandedOver
<1>1. HandoverInv => InputsAreHandedOver
  BY OnlySureFiles, ArtifactsAreHanded DEF HandoverInv, InputsAreHandedOver
<1> QED
  BY <1>1, HandoverInvariance, PTL

(* A review that still counts is of the worktree and the head there are:   *)
(* no file was edited or added since, but files may have been deleted, and *)
(* one that was deleted may be back as it was committed.                   *)
THEOREM CandidatesArePresentAlways == HandoverSpec => []CandidatesArePresent
<1>1. HandoverInv => CandidatesArePresent
  BY CandidateIsPresent DEF HandoverInv, CandidatesArePresent
<1> QED
  BY <1>1, HandoverInvariance, PTL

(* What a person confirmed is what is done, unless a setting changed, and  *)
(* nothing is done to the lifecycle over open gaps.                        *)
THEOREM CardsAreKeptAlways == HandoverSpec => []CardsAreKept
<1>1. HandoverInv => CardsAreKept
  BY CardIsKept DEF HandoverInv, CardsAreKept
<1> QED
  BY <1>1, HandoverInvariance, PTL

(* The adapter runs what was charged, and a tier's budget is exceeded by   *)
(* the other hosts' launches and the attempts that were lost at most.      *)
THEOREM RunsArePaidForAlways == HandoverSpec => []RunsArePaidFor
<1>1. HandoverInv => RunsArePaidFor
  BY EnvelopeIsPaidFor DEF HandoverInv, RunsArePaidFor
<1> QED
  BY <1>1, HandoverInvariance, PTL

=============================================================================
