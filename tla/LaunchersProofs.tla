---------------------------- MODULE LaunchersProofs ----------------------------
(***************************************************************************)
(* For any number of hosts, launches, lost ledger writes and crashes of    *)
(* any launcher.  Inception: IInv is an inductive invariant, and with it   *)
(* the types and the safety of the sessions of a Work; the types alone are *)
(* not inductive, as that a retry number is free follows from the ids      *)
(* being given out in order.  Construction: the ledger balances and counts *)
(* every run, its sessions tell their own history, and the wizard's ids    *)
(* come out in order.  First come the steps all launchers share, each      *)
(* shown to preserve the types and the account of attempts and runs.       *)
(***************************************************************************)
EXTENDS InceptionLaunch, Launchers, FiniteSetTheorems, TLAPS

-----------------------------------------------------------------------------
(* The shared steps.                                                       *)

Exits == {NoExit, 0, 1, TimedOut}

(* The constants of the ids and jobs have their types.                     *)
LEMMA ConstantsType ==
  /\ NoId \in Ids /\ BaseId \in Ids
  /\ NoJob \in Job
BY DEF NoId, BaseId, Id, Ids, Kinds, NoJob, Job, Verdicts

(* A launcher's choice is a job.                                           *)
LEMMA JobsType ==
  /\ \A id, retryOf \in Ids, timeout \in Nat : StartJob(id, retryOf, timeout) \in Job
  /\ \A id \in Ids : LaunchJob(id) \in Job
BY ConstantsType DEF StartJob, LaunchJob, Job, NoJob, Verdicts

(* Core's rewrite of one SESSION.md leaves a store of sessions.            *)
LEMMA UpdateType ==
  ASSUME sessions \in Seq(Session), NEW id,
         NEW status \in Statuses, NEW exit \in Exits, NEW output \in Outputs,
         Update(id, status, exit, output)
  PROVE  sessions' \in Seq(Session)
<1> DEFINE i == IndexOf(id)
           s == [sessions[i] EXCEPT !.status = status, !.exit = exit,
                                    !.output = output]
<1>1. i \in DOMAIN sessions => s \in Session
  <2> SUFFICES ASSUME i \in DOMAIN sessions PROVE s \in Session
    OBVIOUS
  <2>1. sessions[i] \in Session
    OBVIOUS
  <2> QED
    BY <2>1 DEF Session, Exits
<1>2. sessions' = [sessions EXCEPT ![i] = s]
  BY DEF Update
<1>3. CASE i \in DOMAIN sessions
  <2> HIDE DEF i, s
  <2> QED
    BY <1>1, <1>2, <1>3
<1>4. CASE i \notin DOMAIN sessions
  <2>1. sessions' = sessions
    <3> HIDE DEF i, s
    <3>1. sessions' = [k \in DOMAIN sessions |-> IF k = i THEN s ELSE sessions[k]]
      BY <1>2
    <3>2. sessions = [k \in DOMAIN sessions |-> sessions[k]]
      OBVIOUS
    <3> QED
      BY <1>4, <3>1, <3>2
  <2> QED
    BY <2>1
<1> QED
  BY <1>3, <1>4

(* Every outcome TLC enumerates for a run is one a record can hold.        *)
LEMMA EndingsType ==
  \A e \in Endings : e.status \in Statuses /\ e.exit \in Exits /\ e.output \in Outputs
BY OutputsAssumption DEF Endings, Statuses, Exits, Outputs, NoExit, TimedOut

(* Initially every variable has its type.                                  *)
LEMMA InitTypeOK == Init => TypeOK
<1> SUFFICES ASSUME Init PROVE TypeOK
  OBVIOUS
<1>1. sessions \in Seq(Session)
  BY DEF Init
<1>2. ledger \in [Events -> Nat] /\ lost \in [Events -> Nat]
  BY DEF Init
<1>3. pc \in [Hosts -> Steps] /\ result \in [Hosts -> Results]
  BY DEF Init, Steps, Results
<1>4. job \in [Hosts -> Job]
  BY ConstantsType DEF Init
<1> QED
  BY <1>1, <1>2, <1>3, <1>4 DEF Init, TypeOK

(* Recording an event, or losing it, leaves two counters.                  *)
LEMMA RecordEventType ==
  ASSUME TypeOK, NEW e \in Events, RecordEvent(e)
  PROVE  ledger' \in [Events -> Nat] /\ lost' \in [Events -> Nat]
<1>1. ledger \in [Events -> Nat] /\ lost \in [Events -> Nat]
  BY DEF TypeOK
<1>2. ledger[e] + 1 \in Nat /\ lost[e] + 1 \in Nat
  BY <1>1
<1>3. CASE ledger' = [ledger EXCEPT ![e] = ledger[e] + 1] /\ lost' = lost
  BY <1>1, <1>2, <1>3
<1>4. CASE lost' = [lost EXCEPT ![e] = lost[e] + 1] /\ ledger' = ledger
  BY <1>1, <1>2, <1>4
<1> QED
  BY <1>3, <1>4 DEF RecordEvent

(* Each shared step keeps the types.                                       *)
LEMMA ReturnType ==
  ASSUME TypeOK, NEW h \in Hosts, NEW r \in Results, Return(h, r)
  PROVE  TypeOK'
BY DEF TypeOK, Return, storeVars

LEMMA BeginType ==
  ASSUME TypeOK, NEW h \in Hosts, NEW j \in Job, Begin(h, j)
  PROVE  TypeOK'
<1>1. pc' \in [Hosts -> Steps] /\ result' \in [Hosts -> Results] /\ launches' \in Nat
  BY DEF TypeOK, Begin, Steps, Results
<1>2. job' \in [Hosts -> Job]
  BY DEF TypeOK, Begin
<1> QED
  BY <1>1, <1>2 DEF TypeOK, Begin, storeVars

LEMMA RecordAttemptType ==
  ASSUME TypeOK, NEW h \in Hosts, NEW next \in Steps, RecordAttempt(h, next)
  PROVE  TypeOK'
<1>1. ledger' \in [Events -> Nat] /\ lost' \in [Events -> Nat]
  BY RecordEventType DEF RecordAttempt, Events
<1>2. pc' \in [Hosts -> Steps]
  BY DEF TypeOK, RecordAttempt
<1> QED
  BY <1>1, <1>2 DEF TypeOK, RecordAttempt

LEMMA TakeBaselineType ==
  ASSUME TypeOK, NEW h \in Hosts, TakeBaseline(h)
  PROVE  TypeOK'
<1>1. PICK trusted \in BOOLEAN :
        job' = [job EXCEPT ![h].trusted = trusted,
                           ![h].before = IF trusted THEN issues ELSE {}]
  BY DEF TakeBaseline
<1>2. job' \in [Hosts -> Job]
  <2>1. job[h] \in Job /\ issues \in SUBSET Issues
    BY DEF TypeOK
  <2>2. [job[h] EXCEPT !.trusted = trusted,
                       !.before = IF trusted THEN issues ELSE {}] \in Job
    BY <2>1 DEF Job
  <2> QED
    BY <1>1, <2>2 DEF TypeOK
<1>3. pc' \in [Hosts -> Steps]
  BY DEF TypeOK, TakeBaseline, Steps
<1> QED
  BY <1>2, <1>3 DEF TypeOK, TakeBaseline, storeVars

(* The verdict is the only field of a job that changes after the baseline. *)
LEMMA VerdictType ==
  ASSUME job \in [Hosts -> Job], NEW h \in Hosts, NEW v \in Verdicts
  PROVE  [job EXCEPT ![h].verdict = v] \in [Hosts -> Job]
<1>1. [job[h] EXCEPT !.verdict = v] \in Job
  BY DEF Job
<1> QED
  BY <1>1

LEMMA CoreStepType ==
  ASSUME TypeOK, NEW h \in Hosts, CoreStep(h)
  PROVE  TypeOK'
<1>1. CASE CoreRefuses(h)
  <2>1. job' \in [Hosts -> Job]
    BY <1>1, VerdictType DEF TypeOK, CoreRefuses, Verdicts
  <2>2. pc' \in [Hosts -> Steps]
    BY <1>1 DEF TypeOK, CoreRefuses, Steps
  <2> QED
    BY <1>1, <2>1, <2>2 DEF TypeOK, CoreRefuses, storeVars
<1>2. CASE CoreCreates(h)
  <2>1. sessions' \in Seq(Session)
    <3>1. job[h] \in Job
      BY DEF TypeOK
    <3>2. [id |-> job[h].id, status |-> "prepared", exit |-> NoExit,
           output |-> "none", retryOf |-> job[h].retryOf,
           timeout |-> job[h].timeout] \in Session
      BY <3>1 DEF Session, Job, Statuses, Outputs
    <3> QED
      BY <1>2, <3>2 DEF CoreCreates, TypeOK
  <2>2. pc' \in [Hosts -> Steps]
    BY <1>2 DEF TypeOK, CoreCreates, Steps
  <2> QED
    BY <1>2, <2>1, <2>2 DEF TypeOK, CoreCreates
<1>3. CASE CoreRuns(h)
  <2>1. sessions' \in Seq(Session)
    <3>1. Update(job[h].id, "running", NoExit, "none")
      BY <1>3 DEF CoreRuns
    <3> QED
      BY <3>1, UpdateType DEF TypeOK, Statuses, Outputs, Exits
  <2>2. pc' \in [Hosts -> Steps]
    BY <1>3 DEF TypeOK, CoreRuns, Steps
  <2> QED
    BY <1>3, <2>1, <2>2 DEF TypeOK, CoreRuns
<1> QED
  BY <1>1, <1>2, <1>3 DEF CoreStep

LEMMA ExecutorEndsType ==
  ASSUME TypeOK, NEW h \in Hosts, NEW next \in Steps, ExecutorEnds(h, next)
  PROVE  TypeOK'
<1>1. PICK e \in Endings, broke \in SUBSET Issues :
        /\ Update(job[h].id, e.status, e.exit, e.output)
        /\ issues' = issues \cup broke
        /\ introduced' = introduced \cup (broke \ issues)
        /\ \/ /\ pc' = [pc EXCEPT ![h] = next]
              /\ job' = [job EXCEPT ![h].verdict = "returned"]
           \/ /\ e.status = "failed"
              /\ pc' = [pc EXCEPT ![h] = "conclude"]
              /\ job' = [job EXCEPT ![h].verdict = "raised"]
  BY DEF ExecutorEnds
<1>2. sessions' \in Seq(Session)
  BY <1>1, EndingsType, UpdateType DEF TypeOK
<1>3. job' \in [Hosts -> Job]
  <2>1. job \in [Hosts -> Job]
    BY DEF TypeOK
  <2>2. [job EXCEPT ![h].verdict = "returned"] \in [Hosts -> Job]
    BY <2>1, VerdictType DEF Verdicts
  <2>3. [job EXCEPT ![h].verdict = "raised"] \in [Hosts -> Job]
    BY <2>1, VerdictType DEF Verdicts
  <2> QED
    BY <1>1, <2>2, <2>3
<1>4. pc' \in [Hosts -> Steps]
  BY <1>1 DEF TypeOK, Steps
<1>5. issues' \in SUBSET Issues /\ introduced' \in SUBSET Issues
  BY <1>1 DEF TypeOK
<1> QED
  BY <1>2, <1>3, <1>4, <1>5 DEF TypeOK, ExecutorEnds

LEMMA ValidateType ==
  ASSUME TypeOK, NEW h \in Hosts, Validate(h)
  PROVE  TypeOK'
<1>1. PICK v \in Verdicts : job' = [job EXCEPT ![h].verdict = v]
  <2>1. PICK available \in BOOLEAN :
          job' = [job EXCEPT ![h].verdict =
                    IF Regressed(h, issues, available) THEN "regression" ELSE @]
    BY DEF Validate
  <2>2. job[h].verdict \in Verdicts
    BY DEF TypeOK, Job
  <2> DEFINE w == IF Regressed(h, issues, available) THEN "regression"
                  ELSE job[h].verdict
  <2>3. w \in Verdicts
    BY <2>2 DEF Verdicts
  <2>4. job' = [job EXCEPT ![h].verdict = w]
    BY <2>1
  <2> HIDE DEF w
  <2> QED
    BY <2>3, <2>4
<1>2. job' \in [Hosts -> Job]
  BY <1>1, VerdictType DEF TypeOK
<1>3. pc' \in [Hosts -> Steps]
  BY DEF TypeOK, Validate, Steps
<1> QED
  BY <1>2, <1>3 DEF TypeOK, Validate, storeVars

LEMMA FinishType ==
  ASSUME TypeOK, NEW h \in Hosts, NEW event \in Events, NEW r \in Results,
         Finish(h, event, r)
  PROVE  TypeOK'
<1>1. ledger' \in [Events -> Nat] /\ lost' \in [Events -> Nat]
  BY RecordEventType DEF Finish
<1>2. pc' \in [Hosts -> Steps] /\ result' \in [Hosts -> Results]
  BY DEF TypeOK, Finish, Steps
<1>3. job' \in [Hosts -> Job]
  BY ConstantsType DEF TypeOK, Finish
<1> QED
  BY <1>1, <1>2, <1>3 DEF TypeOK, Finish

LEMMA CrashType ==
  ASSUME TypeOK, NEW h \in Hosts, Crash(h)
  PROVE  TypeOK'
<1>1. pc' \in [Hosts -> Steps] /\ result' \in [Hosts -> Results] /\ abandoned' \in Nat
  BY DEF TypeOK, Crash, Steps, Results
<1>2. job' \in [Hosts -> Job]
  BY ConstantsType DEF TypeOK, Crash
<1> QED
  BY <1>1, <1>2 DEF TypeOK, Crash, storeVars

LEMMA EscapeType ==
  ASSUME TypeOK, NEW h \in Hosts, Escape(h)
  PROVE  TypeOK'
<1>1. pc' \in [Hosts -> Steps] /\ result' \in [Hosts -> Results] /\ unrecorded' \in Nat
  BY DEF TypeOK, Escape, Steps, Results
<1>2. job' \in [Hosts -> Job]
  BY ConstantsType DEF TypeOK, Escape
<1> QED
  BY <1>1, <1>2 DEF TypeOK, Escape, storeVars

(* A launch concludes: it records an outcome, or raises before it can.     *)
Concludes(h) ==
  \/ \E event \in {"success", "failure"}, r \in Results : Finish(h, event, r)
  \/ Escape(h)

(* It then leaves the sessions and the other hosts alone.                  *)
LEMMA ConcludesLeaves ==
  ASSUME TypeOK, NEW h \in Hosts, Concludes(h)
  PROVE  /\ TypeOK'
         /\ sessions' = sessions
         /\ pc' = [pc EXCEPT ![h] = "idle"]
         /\ pc'[h] = "idle"
         /\ \A g \in Hosts : g # h => pc'[g] = pc[g] /\ job'[g] = job[g]
<1>1. CASE Escape(h)
  BY <1>1, EscapeType DEF TypeOK, Escape, storeVars
<1>2. ASSUME NEW event \in {"success", "failure"}, NEW r \in Results,
             Finish(h, event, r)
      PROVE  /\ TypeOK'
             /\ sessions' = sessions
             /\ pc' = [pc EXCEPT ![h] = "idle"]
             /\ pc'[h] = "idle"
             /\ \A g \in Hosts : g # h => pc'[g] = pc[g] /\ job'[g] = job[g]
  <2>1. TypeOK'
    BY <1>2, FinishType DEF Events
  <2> QED
    BY <1>2, <2>1 DEF TypeOK, Finish
<1> QED
  BY <1>1, <1>2 DEF Concludes

LEMMA OperatorEditType ==
  ASSUME TypeOK, OperatorEdit
  PROVE  TypeOK'
BY DEF TypeOK, OperatorEdit, hostVars

(* Every step under the guard, and every step without it.                  *)
LEMMA GuardedStepType ==
  ASSUME TypeOK, NEW h \in Hosts, GuardedStep(h)
  PROVE  TypeOK'
BY RecordAttemptType, TakeBaselineType, CoreStepType, ExecutorEndsType, ValidateType
   DEF GuardedStep, Steps

LEMMA UnguardedStepType ==
  ASSUME TypeOK, NEW h \in Hosts, UnguardedStep(h)
  PROVE  TypeOK'
BY RecordAttemptType, CoreStepType, ExecutorEndsType DEF UnguardedStep, Steps

LEMMA StutterType ==
  ASSUME TypeOK, UNCHANGED vars
  PROVE  TypeOK'
BY DEF TypeOK, vars, storeVars, hostVars

-----------------------------------------------------------------------------
(* The account: attempts, outcomes and runs.                               *)

Attempted == ledger["attempt"] + lost["attempt"]
Settled   == ledger["success"] + lost["success"] + ledger["failure"] + lost["failure"]

(* LedgerBalances in these terms.                                          *)
LEMMA Balance ==
  LedgerBalances <=> Attempted = Settled + abandoned + unrecorded + Cardinality(InLaunch)
BY DEF LedgerBalances, Attempted, Settled

LEMMA CountersType ==
  ASSUME TypeOK
  PROVE  Attempted \in Nat /\ Settled \in Nat /\ abandoned \in Nat /\ unrecorded \in Nat
BY DEF TypeOK, Events, Attempted, Settled

(* Whether it is written or lost, an event counts once.                    *)
LEMMA AttemptCounts ==
  ASSUME TypeOK, RecordEvent("attempt")
  PROVE  Attempted' = Attempted + 1 /\ Settled' = Settled
<1>1. ledger \in [Events -> Nat] /\ lost \in [Events -> Nat]
  BY DEF TypeOK
<1>2. CASE ledger' = [ledger EXCEPT !["attempt"] = ledger["attempt"] + 1] /\ lost' = lost
  BY <1>1, <1>2 DEF Events, Attempted, Settled
<1>3. CASE lost' = [lost EXCEPT !["attempt"] = lost["attempt"] + 1] /\ ledger' = ledger
  BY <1>1, <1>3 DEF Events, Attempted, Settled
<1> QED
  BY <1>2, <1>3 DEF RecordEvent

LEMMA OutcomeCounts ==
  ASSUME TypeOK, NEW e \in {"success", "failure"}, RecordEvent(e)
  PROVE  Attempted' = Attempted /\ Settled' = Settled + 1
<1>1. ledger \in [Events -> Nat] /\ lost \in [Events -> Nat]
  BY DEF TypeOK
<1>2. CASE e = "success"
  BY <1>1, <1>2 DEF Events, RecordEvent, Attempted, Settled
<1>3. CASE e = "failure"
  BY <1>1, <1>3 DEF Events, RecordEvent, Attempted, Settled
<1> QED
  BY <1>2, <1>3

(* The hosts past their attempt, and those whose session has yet to run.   *)
AboutToRun == {h \in Hosts : pc[h] \in {"baseline", "core", "created"}}

LEMMA HostSets ==
  /\ IsFiniteSet(InLaunch) /\ Cardinality(InLaunch) \in Nat
  /\ IsFiniteSet(AboutToRun) /\ Cardinality(AboutToRun) \in Nat
BY HostsAssumption, FS_Subset, FS_CardinalityType DEF InLaunch, AboutToRun

(* A step of host h moves it to step "to" and no other host.               *)
Moves(h, to) == pc' = [pc EXCEPT ![h] = to]

LEMMA MovesOne ==
  ASSUME TypeOK, NEW h \in Hosts, NEW to, Moves(h, to)
  PROVE  pc'[h] = to /\ \A g \in Hosts : g # h => pc'[g] = pc[g]
BY DEF TypeOK, Moves

LEMMA EntersLaunch ==
  ASSUME TypeOK, NEW h \in Hosts, NEW to, Moves(h, to),
         h \notin InLaunch, to \notin {"idle", "attempt"}
  PROVE  Cardinality(InLaunch)' = Cardinality(InLaunch) + 1
<1>1. InLaunch' = InLaunch \cup {h}
  BY MovesOne DEF InLaunch
<1> QED
  BY <1>1, HostSets, FS_AddElement

LEMMA LeavesLaunch ==
  ASSUME TypeOK, NEW h \in Hosts, Moves(h, "idle"), h \in InLaunch
  PROVE  Cardinality(InLaunch)' = Cardinality(InLaunch) - 1
<1>1. InLaunch' = InLaunch \ {h}
  BY MovesOne DEF InLaunch
<1> QED
  BY <1>1, HostSets, FS_RemoveElement

LEMMA StaysInLaunch ==
  ASSUME TypeOK, NEW h \in Hosts, NEW to, Moves(h, to),
         h \in InLaunch <=> to \notin {"idle", "attempt"}
  PROVE  InLaunch' = InLaunch
BY MovesOne DEF InLaunch

-----------------------------------------------------------------------------
(* Every shared step keeps the ledger in balance.                          *)

(* A step that records nothing and keeps the host in its launch.           *)
LEMMA BalanceKept ==
  ASSUME LedgerBalances, InLaunch' = InLaunch,
         UNCHANGED <<ledger, lost, abandoned, unrecorded>>
  PROVE  LedgerBalances'
BY DEF LedgerBalances

LEMMA RecordAttemptBalances ==
  ASSUME TypeOK, LedgerBalances, NEW h \in Hosts,
         NEW next \in Steps \ {"idle", "attempt"}, RecordAttempt(h, next)
  PROVE  LedgerBalances'
<1>1. Attempted' = Attempted + 1 /\ Settled' = Settled
  BY AttemptCounts DEF RecordAttempt
<1>2. Cardinality(InLaunch)' = Cardinality(InLaunch) + 1
  BY EntersLaunch DEF RecordAttempt, Moves, InLaunch
<1>3. abandoned' = abandoned /\ unrecorded' = unrecorded
  BY DEF RecordAttempt
<1>4. LedgerBalances' <=> Attempted' = Settled' + abandoned' + unrecorded' + Cardinality(InLaunch)'
  BY DEF LedgerBalances, Attempted, Settled
<1> QED
  BY <1>1, <1>2, <1>3, <1>4, Balance, CountersType, HostSets

LEMMA FinishBalances ==
  ASSUME TypeOK, LedgerBalances, NEW h \in Hosts,
         NEW event \in {"success", "failure"}, NEW r, Finish(h, event, r)
  PROVE  LedgerBalances'
<1>1. Attempted' = Attempted /\ Settled' = Settled + 1
  BY OutcomeCounts DEF Finish
<1>2. Cardinality(InLaunch)' = Cardinality(InLaunch) - 1
  BY LeavesLaunch DEF Finish, Moves, InLaunch
<1>3. abandoned' = abandoned /\ unrecorded' = unrecorded
  BY DEF Finish
<1>4. LedgerBalances' <=> Attempted' = Settled' + abandoned' + unrecorded' + Cardinality(InLaunch)'
  BY DEF LedgerBalances, Attempted, Settled
<1> QED
  BY <1>1, <1>2, <1>3, <1>4, Balance, CountersType, HostSets

LEMMA EscapeBalances ==
  ASSUME TypeOK, LedgerBalances, NEW h \in Hosts, Escape(h)
  PROVE  LedgerBalances'
<1>1. Cardinality(InLaunch)' = Cardinality(InLaunch) - 1
  BY LeavesLaunch DEF Escape, Moves, InLaunch
<1>2. abandoned' = abandoned /\ unrecorded' = unrecorded + 1
  BY DEF Escape
<1>3. Attempted' = Attempted /\ Settled' = Settled
  BY DEF Escape, storeVars, Attempted, Settled
<1>4. LedgerBalances' <=> Attempted' = Settled' + abandoned' + unrecorded' + Cardinality(InLaunch)'
  BY DEF LedgerBalances, Attempted, Settled
<1> QED
  BY <1>1, <1>2, <1>3, <1>4, Balance, CountersType, HostSets

LEMMA CrashBalances ==
  ASSUME TypeOK, LedgerBalances, NEW h \in Hosts, Crash(h)
  PROVE  LedgerBalances'
<1>1. ledger' = ledger /\ lost' = lost /\ Moves(h, "idle")
  BY DEF Crash, Moves, storeVars
<1>2. CASE pc[h] = "attempt"
  <2>1. InLaunch' = InLaunch
    BY <1>1, <1>2, StaysInLaunch DEF InLaunch
  <2> QED
    BY <1>1, <1>2, <2>1, BalanceKept DEF Crash
<1>3. CASE pc[h] # "attempt"
  <2>1. /\ Cardinality(InLaunch)' = Cardinality(InLaunch) - 1
        /\ abandoned' = abandoned + 1 /\ unrecorded' = unrecorded
    BY <1>1, <1>3, LeavesLaunch DEF Crash, InLaunch
  <2>2. Attempted' = Attempted /\ Settled' = Settled
    BY <1>1 DEF Attempted, Settled
  <2>3. LedgerBalances' <=> Attempted' = Settled' + abandoned' + unrecorded' + Cardinality(InLaunch)'
    BY DEF LedgerBalances, Attempted, Settled
  <2> QED
    BY <2>1, <2>2, <2>3, Balance, CountersType, HostSets
<1> QED
  BY <1>2, <1>3

-----------------------------------------------------------------------------
(* Every run was counted when its attempt was recorded.                    *)

RanSessions == {i \in DOMAIN sessions : sessions[i].status # "prepared"}

(* Ids are used once, and the session a host runs is no longer prepared,   *)
(* so that each host adds at most one run to the sessions that have run.   *)
IdsAreUnique ==
  \A i, j \in DOMAIN sessions : sessions[i].id = sessions[j].id => i = j

RunnersHaveRun ==
  \A h \in Hosts : pc[h] = "running" =>
    \E i \in RanSessions : sessions[i].id = job[h].id

AttemptsCoverRuns == Cardinality(RanSessions) + Cardinality(AboutToRun) <= Attempted

CoverInv == TypeOK /\ IdsAreUnique /\ RunnersHaveRun /\ AttemptsCoverRuns

LEMMA RanSessionsFinite ==
  ASSUME TypeOK
  PROVE  IsFiniteSet(RanSessions) /\ Cardinality(RanSessions) \in Nat
<1>1. IsFiniteSet(1 .. Len(sessions))
  BY FS_Interval DEF TypeOK
<1>2. RanSessions \subseteq 1 .. Len(sessions)
  BY DEF TypeOK, RanSessions
<1> QED
  BY <1>1, <1>2, FS_Subset, FS_CardinalityType

LEMMA CoverGivesCount == CoverInv => RunsAreCounted
<1> SUFFICES ASSUME CoverInv PROVE RunsAreCounted
  OBVIOUS
<1>1. RunsAreCounted <=> Cardinality(RanSessions) <= Attempted
  BY DEF RunsAreCounted, RanSessions, Attempted
<1> QED
  BY <1>1, RanSessionsFinite, HostSets, CountersType DEF CoverInv, AttemptsCoverRuns

LEMMA InitCover == Init => CoverInv
<1> SUFFICES ASSUME Init PROVE CoverInv
  OBVIOUS
<1>1. TypeOK
  BY InitTypeOK
<1>2. RanSessions = {} /\ AboutToRun = {}
  BY DEF Init, RanSessions, AboutToRun
<1>3. Attempted = 0
  BY DEF Init, Attempted, Events
<1>4. Cardinality(RanSessions) = 0 /\ Cardinality(AboutToRun) = 0
  BY <1>2, FS_EmptySet
<1> QED
  BY <1>1, <1>3, <1>4 DEF Init, CoverInv, IdsAreUnique, RunnersHaveRun, AttemptsCoverRuns

(* A step that leaves the sessions alone and lets no host run keeps it,    *)
(* if it counts an attempt for a host that is now about to run.            *)
LEMMA CoverSameSessions ==
  ASSUME CoverInv, TypeOK', sessions' = sessions,
         \A g \in Hosts : pc'[g] = "running" => pc[g] = "running" /\ job'[g] = job[g],
         \/ AboutToRun' \subseteq AboutToRun /\ Attempted' = Attempted
         \/ \E h \in Hosts : AboutToRun' = AboutToRun \cup {h} /\ Attempted' = Attempted + 1
  PROVE  CoverInv'
<1>1. RanSessions' = RanSessions
  BY DEF RanSessions
<1>2. IdsAreUnique' /\ RunnersHaveRun'
  BY <1>1 DEF CoverInv, IdsAreUnique, RunnersHaveRun
<1>3. Cardinality(RanSessions) \in Nat /\ Cardinality(AboutToRun) \in Nat
      /\ Attempted \in Nat /\ IsFiniteSet(AboutToRun)
  BY RanSessionsFinite, HostSets, CountersType DEF CoverInv
<1>4. CASE AboutToRun' \subseteq AboutToRun /\ Attempted' = Attempted
  <2>1. /\ IsFiniteSet(AboutToRun') /\ Cardinality(AboutToRun') \in Nat
        /\ Cardinality(AboutToRun') <= Cardinality(AboutToRun)
    BY <1>3, <1>4, FS_Subset, FS_CardinalityType
  <2> QED
    BY <1>1, <1>2, <1>3, <1>4, <2>1 DEF CoverInv, AttemptsCoverRuns
<1>5. ASSUME NEW h \in Hosts,
             AboutToRun' = AboutToRun \cup {h}, Attempted' = Attempted + 1
      PROVE  CoverInv'
  <2>1. Cardinality(AboutToRun \cup {h}) \in Nat
        /\ Cardinality(AboutToRun \cup {h}) <= Cardinality(AboutToRun) + 1
    <3>1. IsFiniteSet(AboutToRun \cup {h})
          /\ Cardinality(AboutToRun \cup {h})
               = IF h \in AboutToRun THEN Cardinality(AboutToRun)
                                     ELSE Cardinality(AboutToRun) + 1
      BY <1>3, FS_AddElement
    <3> QED
      BY <1>3, <3>1
  <2> QED
    BY <1>1, <1>2, <1>3, <1>5, <2>1 DEF CoverInv, AttemptsCoverRuns
<1> QED
  BY <1>4, <1>5

LEMMA RecordAttemptCovers ==
  ASSUME CoverInv, NEW h \in Hosts, NEW next \in {"baseline", "core"},
         RecordAttempt(h, next)
  PROVE  CoverInv'
<1>1. TypeOK'
  BY RecordAttemptType DEF CoverInv, Steps
<1>2. Attempted' = Attempted + 1
  BY AttemptCounts DEF CoverInv, RecordAttempt
<1>3. Moves(h, next) /\ sessions' = sessions /\ job' = job
  BY DEF RecordAttempt, Moves
<1>4. pc'[h] = next /\ \A g \in Hosts : g # h => pc'[g] = pc[g]
  BY <1>3, MovesOne DEF CoverInv
<1>5. AboutToRun' = AboutToRun \cup {h}
  BY <1>4 DEF AboutToRun
<1> QED
  BY <1>1, <1>2, <1>3, <1>4, <1>5, CoverSameSessions

(* A host that moves on without running or counting anything.              *)
LEMMA MovesCover ==
  ASSUME CoverInv, TypeOK', NEW h \in Hosts, NEW to \in Steps, Moves(h, to),
         sessions' = sessions, Attempted' = Attempted, to # "running",
         to \in {"baseline", "core", "created"} => h \in AboutToRun,
         \A g \in Hosts : g # h => job'[g] = job[g]
  PROVE  CoverInv'
<1>1. pc'[h] = to /\ \A g \in Hosts : g # h => pc'[g] = pc[g]
  BY MovesOne DEF CoverInv
<1>2. AboutToRun' \subseteq AboutToRun
  BY <1>1 DEF AboutToRun
<1> QED
  BY <1>1, <1>2, CoverSameSessions

(* Rewriting one session leaves the ids and every other session.           *)
LEMMA UpdateKeeps ==
  ASSUME sessions \in Seq(Session), NEW id, NEW status, NEW exit, NEW output,
         Update(id, status, exit, output)
  PROVE  /\ DOMAIN sessions' = DOMAIN sessions
         /\ \A i \in DOMAIN sessions :
              /\ sessions'[i].id = sessions[i].id
              /\ sessions'[i].retryOf = sessions[i].retryOf
              /\ sessions'[i].timeout = sessions[i].timeout
              /\ i # IndexOf(id) => sessions'[i] = sessions[i]
              /\ i = IndexOf(id) => /\ sessions'[i].status = status
                                    /\ sessions'[i].exit = exit
                                    /\ sessions'[i].output = output
<1> DEFINE k == IndexOf(id)
           s == [sessions[k] EXCEPT !.status = status, !.exit = exit,
                                    !.output = output]
<1>1. sessions' = [sessions EXCEPT ![k] = s]
  BY DEF Update
<1>2. k \in DOMAIN sessions =>
        /\ s.id = sessions[k].id /\ s.retryOf = sessions[k].retryOf
        /\ s.timeout = sessions[k].timeout
        /\ s.status = status /\ s.exit = exit /\ s.output = output
  <2> SUFFICES ASSUME k \in DOMAIN sessions
               PROVE  /\ s.id = sessions[k].id /\ s.retryOf = sessions[k].retryOf
                      /\ s.timeout = sessions[k].timeout
                      /\ s.status = status /\ s.exit = exit /\ s.output = output
    OBVIOUS
  <2>1. sessions[k] \in Session
    OBVIOUS
  <2> QED
    BY <2>1 DEF Session
<1>3. k = IndexOf(id)
  OBVIOUS
<1> HIDE DEF k, s
<1> QED
  BY <1>1, <1>2, <1>3

(* With unique ids the store holds one session under an id.                *)
LEMMA IndexOfUnique ==
  ASSUME IdsAreUnique, NEW i \in DOMAIN sessions
  PROVE  IndexOf(sessions[i].id) = i
BY DEF IndexOf, IdsAreUnique

LEMMA CoreCreatesCovers ==
  ASSUME CoverInv, NEW h \in Hosts, CoreCreates(h)
  PROVE  CoverInv'
<1> DEFINE L == Len(sessions)
           s == [id |-> job[h].id, status |-> "prepared", exit |-> NoExit,
                 output |-> "none", retryOf |-> job[h].retryOf,
                 timeout |-> job[h].timeout]
<1>1. TypeOK'
  BY CoreStepType DEF CoverInv, CoreStep
<1>2. sessions \in Seq(Session) /\ L \in Nat
  BY DEF CoverInv, TypeOK
<1>3. sessions' = Append(sessions, s) /\ s.status = "prepared" /\ s.id = job[h].id
  BY DEF CoreCreates
<1> HIDE DEF s
<1>4. /\ DOMAIN sessions = 1 .. L /\ DOMAIN sessions' = 1 .. L + 1
      /\ \A i \in 1 .. L : sessions'[i] = sessions[i]
      /\ sessions'[L + 1] = s
  BY <1>2, <1>3
<1> HIDE DEF L
<1>5. \A i \in 1 .. L : sessions[i].id # s.id
  BY <1>3, <1>4 DEF CoreCreates, UsedIds
<1>6. IdsAreUnique'
  BY <1>2, <1>4, <1>5 DEF CoverInv, IdsAreUnique
<1>7. RanSessions' = RanSessions
  BY <1>2, <1>3, <1>4 DEF RanSessions
<1>8. /\ Moves(h, "created") /\ job' = job /\ Attempted' = Attempted
      /\ pc[h] = "core"
  BY DEF CoreCreates, Moves, Attempted
<1>9. pc'[h] = "created" /\ \A g \in Hosts : g # h => pc'[g] = pc[g]
  BY <1>8, MovesOne DEF CoverInv
<1>10. RunnersHaveRun'
  <2>1. \A i \in RanSessions : sessions'[i] = sessions[i]
    BY <1>4 DEF RanSessions
  <2> QED
    BY <1>7, <1>8, <1>9, <2>1 DEF CoverInv, RunnersHaveRun
<1>11. AboutToRun' = AboutToRun
  BY <1>8, <1>9 DEF AboutToRun
<1> QED
  BY <1>1, <1>6, <1>7, <1>8, <1>10, <1>11 DEF CoverInv, AttemptsCoverRuns

(* A host that starts running leaves those about to run.                   *)
LEMMA CoreRunsCovers ==
  ASSUME CoverInv, NEW h \in Hosts, CoreRuns(h)
  PROVE  CoverInv'
<1> DEFINE k == IndexOf(job[h].id)
<1>1. TypeOK'
  BY CoreStepType DEF CoverInv, CoreStep
<1>2. sessions \in Seq(Session)
  BY DEF CoverInv, TypeOK
<1>3. k \in DOMAIN sessions /\ sessions[k].id = job[h].id
  BY DEF CoreRuns, UsedIds, IndexOf
<1>4. k = IndexOf(job[h].id)
  OBVIOUS
<1> HIDE DEF k
<1>5. /\ DOMAIN sessions' = DOMAIN sessions
      /\ \A i \in DOMAIN sessions :
           /\ sessions'[i].id = sessions[i].id
           /\ i # k => sessions'[i] = sessions[i]
           /\ i = k => sessions'[i].status = "running"
  BY <1>2, <1>4, UpdateKeeps DEF CoreRuns
<1>6. IdsAreUnique'
  BY <1>5 DEF CoverInv, IdsAreUnique
<1>7. RanSessions' = RanSessions \cup {k}
  BY <1>3, <1>5 DEF RanSessions
<1>8. /\ Moves(h, "running") /\ job' = job /\ Attempted' = Attempted
      /\ h \in AboutToRun
  BY DEF CoreRuns, Moves, Attempted, AboutToRun
<1>9. pc'[h] = "running" /\ \A g \in Hosts : g # h => pc'[g] = pc[g]
  BY <1>8, MovesOne DEF CoverInv
<1>10. RunnersHaveRun'
  <2> SUFFICES ASSUME NEW g \in Hosts, pc'[g] = "running"
               PROVE  \E i \in RanSessions' : sessions'[i].id = job'[g].id
    BY DEF RunnersHaveRun
  <2>1. CASE g = h
    BY <1>3, <1>5, <1>7, <1>8, <2>1
  <2>2. CASE g # h
    <3>1. PICK i \in RanSessions : sessions[i].id = job[g].id
      BY <1>9, <2>2 DEF CoverInv, RunnersHaveRun
    <3> QED
      BY <1>5, <1>7, <1>8, <3>1 DEF RanSessions
  <2> QED
    BY <2>1, <2>2
<1>11. AboutToRun' = AboutToRun \ {h}
  BY <1>9 DEF AboutToRun
<1>12. Cardinality(AboutToRun') = Cardinality(AboutToRun) - 1
  BY <1>8, <1>11, HostSets, FS_RemoveElement
<1>13. Cardinality(RanSessions') <= Cardinality(RanSessions) + 1
       /\ Cardinality(RanSessions') \in Nat
  <2>1. Cardinality(RanSessions')
          = IF k \in RanSessions THEN Cardinality(RanSessions)
                                 ELSE Cardinality(RanSessions) + 1
    BY <1>7, RanSessionsFinite, FS_AddElement DEF CoverInv
  <2> QED
    BY <2>1, RanSessionsFinite DEF CoverInv
<1> QED
  BY <1>1, <1>6, <1>8, <1>10, <1>12, <1>13, RanSessionsFinite, HostSets, CountersType
     DEF CoverInv, AttemptsCoverRuns

(* The session that ends had run already.                                  *)
LEMMA ExecutorEndsCovers ==
  ASSUME CoverInv, NEW h \in Hosts, NEW next \in {"validate", "conclude"},
         ExecutorEnds(h, next)
  PROVE  CoverInv'
<1>1. TypeOK'
  BY ExecutorEndsType DEF CoverInv, Steps
<1>2. PICK e \in Endings : Update(job[h].id, e.status, e.exit, e.output)
  BY DEF ExecutorEnds
<1>3. sessions \in Seq(Session)
  BY DEF CoverInv, TypeOK
<1>4. PICK k \in RanSessions : sessions[k].id = job[h].id
  BY DEF ExecutorEnds, CoverInv, RunnersHaveRun
<1>5. k \in DOMAIN sessions /\ sessions[k].status # "prepared" /\ IndexOf(job[h].id) = k
  BY <1>4, IndexOfUnique DEF RanSessions, CoverInv
<1>6. /\ DOMAIN sessions' = DOMAIN sessions
      /\ \A i \in DOMAIN sessions :
           /\ sessions'[i].id = sessions[i].id
           /\ i # k => sessions'[i] = sessions[i]
           /\ i = k => sessions'[i].status = e.status
  BY <1>2, <1>3, <1>5, UpdateKeeps
<1>7. e.status # "prepared"
  BY DEF Endings
<1>8. RanSessions' = RanSessions
  BY <1>5, <1>6, <1>7 DEF RanSessions
<1>9. IdsAreUnique'
  BY <1>6 DEF CoverInv, IdsAreUnique
<1>10. pc'[h] \in {"validate", "conclude"} /\ \A g \in Hosts : g # h => pc'[g] = pc[g]
  BY DEF CoverInv, TypeOK, ExecutorEnds
<1>11. \A g \in Hosts : g # h => job'[g] = job[g]
  BY DEF CoverInv, TypeOK, ExecutorEnds
<1>12. RunnersHaveRun'
  BY <1>6, <1>8, <1>10, <1>11 DEF CoverInv, RunnersHaveRun, RanSessions
<1>13. AboutToRun' = AboutToRun
  BY <1>10 DEF AboutToRun, ExecutorEnds
<1>14. Attempted' = Attempted
  BY DEF Attempted, ExecutorEnds
<1> QED
  BY <1>1, <1>8, <1>9, <1>12, <1>13, <1>14 DEF CoverInv, AttemptsCoverRuns

-----------------------------------------------------------------------------
(* Each shared step keeps the whole account.                               *)

Account == CoverInv /\ LedgerBalances

LEMMA AccountGives == Account => TypeOK /\ RunsAreCounted /\ LedgerBalances
BY CoverGivesCount DEF Account, CoverInv

LEMMA InitAccount == Init => Account
<1> SUFFICES ASSUME Init PROVE Account
  OBVIOUS
<1>1. InLaunch = {}
  BY DEF Init, InLaunch
<1>2. Cardinality(InLaunch) = 0
  BY <1>1, FS_EmptySet
<1>3. Attempted = 0 /\ Settled = 0 /\ abandoned = 0 /\ unrecorded = 0
  BY DEF Init, Attempted, Settled, Events
<1>4. LedgerBalances
  BY <1>2, <1>3, Balance
<1> QED
  BY <1>4, InitCover DEF Account

(* A step that leaves the store's account and the hosts alone.             *)
LEMMA UntouchedAccount ==
  ASSUME Account, TypeOK', UNCHANGED <<sessions, ledger, lost, abandoned, unrecorded, pc, job>>
  PROVE  Account'
<1>1. LedgerBalances'
  BY BalanceKept DEF Account, InLaunch
<1> QED
  BY <1>1, CoverSameSessions DEF Account, AboutToRun, Attempted

LEMMA ReturnAccount ==
  ASSUME Account, NEW h \in Hosts, NEW r \in Results, Return(h, r)
  PROVE  Account'
<1>1. TypeOK'
  BY ReturnType DEF Account, CoverInv
<1> QED
  BY <1>1, UntouchedAccount DEF Return, storeVars

LEMMA BeginAccount ==
  ASSUME Account, NEW h \in Hosts, NEW j \in Job, Begin(h, j)
  PROVE  Account'
<1>1. /\ UNCHANGED <<sessions, ledger, lost, abandoned, unrecorded>>
      /\ Moves(h, "attempt") /\ job' = [job EXCEPT ![h] = j] /\ pc[h] = "idle"
  BY DEF Begin, storeVars, Moves
<1>2. TypeOK /\ TypeOK' /\ "attempt" \in Steps
  BY BeginType DEF Account, CoverInv, Steps
<1>3. LedgerBalances'
  BY <1>1, <1>2, StaysInLaunch, BalanceKept DEF Account, InLaunch
<1>4. \A g \in Hosts : g # h => job'[g] = job[g]
  BY <1>1, <1>2 DEF TypeOK
<1>5. Attempted' = Attempted
  BY <1>1 DEF Attempted
<1> QED
  BY <1>1, <1>2, <1>3, <1>4, <1>5, MovesCover DEF Account

LEMMA RecordAttemptAccount ==
  ASSUME Account, NEW h \in Hosts, NEW next \in {"baseline", "core"},
         RecordAttempt(h, next)
  PROVE  Account'
<1>1. TypeOK /\ next \in Steps \ {"idle", "attempt"}
  BY DEF Account, CoverInv, Steps
<1> QED
  BY <1>1, RecordAttemptCovers, RecordAttemptBalances DEF Account

(* A host in its launch goes on to another step of it.                     *)
LEMMA StayAccount ==
  ASSUME Account, TypeOK', NEW h \in Hosts, NEW to \in Steps, Moves(h, to),
         UNCHANGED <<sessions, ledger, lost, abandoned, unrecorded>>,
         h \in InLaunch, to \notin {"idle", "attempt", "running"},
         to \in {"baseline", "core", "created"} => h \in AboutToRun,
         \A g \in Hosts : g # h => job'[g] = job[g]
  PROVE  Account'
<1>1. LedgerBalances'
  BY StaysInLaunch, BalanceKept DEF Account, CoverInv
<1>2. Attempted' = Attempted
  BY DEF Attempted
<1> QED
  BY <1>1, <1>2, MovesCover DEF Account

LEMMA TakeBaselineAccount ==
  ASSUME Account, NEW h \in Hosts, TakeBaseline(h)
  PROVE  Account'
<1>1. TypeOK /\ TypeOK' /\ "core" \in Steps
  BY TakeBaselineType DEF Account, CoverInv, Steps
<1>2. /\ UNCHANGED <<sessions, ledger, lost, abandoned, unrecorded>>
      /\ Moves(h, "core") /\ h \in InLaunch /\ h \in AboutToRun
  BY DEF TakeBaseline, storeVars, Moves, InLaunch, AboutToRun
<1>3. \A g \in Hosts : g # h => job'[g] = job[g]
  BY <1>1 DEF TypeOK, TakeBaseline
<1> QED
  BY <1>1, <1>2, <1>3, StayAccount

LEMMA ValidateAccount ==
  ASSUME Account, NEW h \in Hosts, Validate(h)
  PROVE  Account'
<1>1. TypeOK /\ TypeOK' /\ "conclude" \in Steps
  BY ValidateType DEF Account, CoverInv, Steps
<1>2. /\ UNCHANGED <<sessions, ledger, lost, abandoned, unrecorded>>
      /\ Moves(h, "conclude") /\ h \in InLaunch
  BY DEF Validate, storeVars, Moves, InLaunch
<1>3. \A g \in Hosts : g # h => job'[g] = job[g]
  BY <1>1 DEF TypeOK, Validate
<1> QED
  BY <1>1, <1>2, <1>3, StayAccount

LEMMA CoreStepAccount ==
  ASSUME Account, NEW h \in Hosts, CoreStep(h)
  PROVE  Account'
<1>1. TypeOK /\ TypeOK' /\ "conclude" \in Steps
  BY CoreStepType DEF Account, CoverInv, Steps
<1>2. CASE CoreRefuses(h)
  <2>1. /\ UNCHANGED <<sessions, ledger, lost, abandoned, unrecorded>>
        /\ Moves(h, "conclude") /\ h \in InLaunch
    BY <1>2 DEF CoreRefuses, storeVars, Moves, InLaunch
  <2>2. \A g \in Hosts : g # h => job'[g] = job[g]
    BY <1>1, <1>2 DEF TypeOK, CoreRefuses
  <2> QED
    BY <1>1, <2>1, <2>2, StayAccount
<1>3. CASE CoreCreates(h)
  <2>1. Moves(h, "created") /\ h \in InLaunch /\ UNCHANGED <<ledger, lost, abandoned, unrecorded>>
    BY <1>3 DEF CoreCreates, Moves, InLaunch
  <2>2. InLaunch' = InLaunch
    BY <1>1, <2>1, StaysInLaunch
  <2> QED
    BY <1>3, <2>1, <2>2, CoreCreatesCovers, BalanceKept DEF Account
<1>4. CASE CoreRuns(h)
  <2>1. Moves(h, "running") /\ h \in InLaunch /\ UNCHANGED <<ledger, lost, abandoned, unrecorded>>
    BY <1>4 DEF CoreRuns, Moves, InLaunch
  <2>2. InLaunch' = InLaunch
    BY <1>1, <2>1, StaysInLaunch
  <2> QED
    BY <1>4, <2>1, <2>2, CoreRunsCovers, BalanceKept DEF Account
<1> QED
  BY <1>2, <1>3, <1>4 DEF CoreStep

LEMMA ExecutorEndsAccount ==
  ASSUME Account, NEW h \in Hosts, NEW next \in {"validate", "conclude"},
         ExecutorEnds(h, next)
  PROVE  Account'
<1>1. PICK to \in {"validate", "conclude"} : Moves(h, to)
  BY DEF ExecutorEnds, Moves
<1>2. TypeOK /\ UNCHANGED <<ledger, lost, abandoned, unrecorded>> /\ h \in InLaunch
  BY DEF Account, CoverInv, ExecutorEnds, InLaunch
<1>3. InLaunch' = InLaunch
  BY <1>1, <1>2, StaysInLaunch
<1> QED
  BY <1>2, <1>3, ExecutorEndsCovers, BalanceKept DEF Account

LEMMA FinishAccount ==
  ASSUME Account, NEW h \in Hosts, NEW event \in {"success", "failure"},
         NEW r \in Results, Finish(h, event, r)
  PROVE  Account'
<1>1. TypeOK /\ TypeOK' /\ "idle" \in Steps
  BY FinishType DEF Account, CoverInv, Events, Steps
<1>2. Attempted' = Attempted
  BY <1>1, OutcomeCounts DEF Finish
<1>3. sessions' = sessions /\ Moves(h, "idle")
  BY DEF Finish, Moves
<1>4. \A g \in Hosts : g # h => job'[g] = job[g]
  BY <1>1 DEF TypeOK, Finish
<1>5. LedgerBalances'
  BY <1>1, FinishBalances DEF Account
<1> QED
  BY <1>1, <1>2, <1>3, <1>4, <1>5, MovesCover DEF Account

LEMMA ConcludesAccount ==
  ASSUME Account, NEW h \in Hosts, Concludes(h)
  PROVE  Account'
<1>1. ASSUME NEW event \in {"success", "failure"}, NEW r \in Results,
             Finish(h, event, r)
      PROVE  Account'
  BY <1>1, FinishAccount
<1>2. CASE Escape(h)
  <2>1. TypeOK /\ TypeOK' /\ "idle" \in Steps
    BY <1>2, EscapeType DEF Account, CoverInv, Steps
  <2>2. sessions' = sessions /\ Moves(h, "idle") /\ Attempted' = Attempted
    BY <1>2 DEF Escape, storeVars, Moves, Attempted
  <2>3. \A g \in Hosts : g # h => job'[g] = job[g]
    BY <1>2, <2>1 DEF TypeOK, Escape
  <2>4. LedgerBalances'
    BY <1>2, <2>1, EscapeBalances DEF Account
  <2> QED
    BY <2>1, <2>2, <2>3, <2>4, MovesCover DEF Account
<1> QED
  BY <1>1, <1>2 DEF Concludes

LEMMA CrashAccount ==
  ASSUME Account, NEW h \in Hosts, Crash(h)
  PROVE  Account'
<1>1. TypeOK /\ TypeOK' /\ "idle" \in Steps
  BY CrashType DEF Account, CoverInv, Steps
<1>2. sessions' = sessions /\ Moves(h, "idle") /\ Attempted' = Attempted
  BY DEF Crash, storeVars, Moves, Attempted
<1>3. \A g \in Hosts : g # h => job'[g] = job[g]
  BY <1>1 DEF TypeOK, Crash
<1>4. LedgerBalances'
  BY <1>1, CrashBalances DEF Account
<1> QED
  BY <1>1, <1>2, <1>3, <1>4, MovesCover DEF Account

LEMMA OperatorEditAccount ==
  ASSUME Account, OperatorEdit
  PROVE  Account'
<1>1. TypeOK'
  BY OperatorEditType DEF Account, CoverInv
<1> QED
  BY <1>1, UntouchedAccount DEF OperatorEdit, hostVars

LEMMA StutterAccount ==
  ASSUME Account, UNCHANGED vars
  PROVE  Account'
<1>1. TypeOK'
  BY StutterType DEF Account, CoverInv
<1> QED
  BY <1>1, UntouchedAccount DEF vars, storeVars, hostVars

LEMMA GuardedStepAccount ==
  ASSUME Account, NEW h \in Hosts, GuardedStep(h)
  PROVE  Account'
BY RecordAttemptAccount, TakeBaselineAccount, CoreStepAccount, ExecutorEndsAccount,
   ValidateAccount DEF GuardedStep

LEMMA UnguardedStepAccount ==
  ASSUME Account, NEW h \in Hosts, UnguardedStep(h)
  PROVE  Account'
BY RecordAttemptAccount, CoreStepAccount, ExecutorEndsAccount DEF UnguardedStep

-----------------------------------------------------------------------------
(* Ids.                                                                    *)

(* Session ids are distinct.                                               *)
LEMMA SessionIdInjective ==
  \A m, n \in Nat \ {0} : SessionId(m) = SessionId(n) => m = n
BY DEF SessionId, BaseId, Id

LEMMA SessionIdType == \A n \in Nat \ {0} : SessionId(n) \in Ids
BY DEF SessionId, BaseId, Id, Ids, Kinds

(* With ids in order, the used ids are those of the sessions so far.       *)
LEMMA UsedInOrder ==
  ASSUME sessions \in Seq(Session), IdsInOrder, NEW n \in Nat \ {0}
  PROVE  SessionId(n) \in UsedIds(sessions) <=> n <= Len(sessions)
<1>1. ASSUME n <= Len(sessions) PROVE SessionId(n) \in UsedIds(sessions)
  BY <1>1 DEF UsedIds, IdsInOrder
<1>2. ASSUME SessionId(n) \in UsedIds(sessions) PROVE n <= Len(sessions)
  <2>1. PICK i \in DOMAIN sessions : sessions[i].id = SessionId(n)
    BY <1>2 DEF UsedIds
  <2>2. i \in Nat \ {0} /\ i <= Len(sessions) /\ SessionId(i) = SessionId(n)
    BY <2>1 DEF IdsInOrder
  <2> QED
    BY <2>2, SessionIdInjective
<1> QED
  BY <1>1, <1>2

(* _retry_id returns the id that comes next.                               *)
LEMMA RetryIdIsNext ==
  ASSUME sessions \in Seq(Session), IdsInOrder, sessions # <<>>
  PROVE  RetryId(sessions) = SessionId(Len(sessions) + 1)
<1> DEFINE L    == Len(sessions)
           Free == {n \in 2 .. L + 2 : Id("retry", n) \notin UsedIds(sessions)}
<1>1. L \in Nat \ {0}
  OBVIOUS
<1>2. \A n \in 2 .. L + 2 : Id("retry", n) = SessionId(n)
  BY <1>1 DEF SessionId
<1>3. \A n \in 2 .. L + 2 : n \in Free <=> n > L
  BY <1>1, <1>2, UsedInOrder
<1> HIDE DEF L
<1>4. L + 1 \in Free /\ \A m \in Free : L + 1 <= m
  BY <1>1, <1>3
<1>5. \A n \in Free : (\A m \in Free : n <= m) => n = L + 1
  BY <1>1, <1>4
<1> HIDE DEF Free
<1>6. (CHOOSE n \in Free : \A m \in Free : n <= m) = L + 1
  BY <1>4, <1>5
<1>7. RetryId(sessions) = Id("retry", CHOOSE n \in Free : \A m \in Free : n <= m)
  BY DEF RetryId, Free, L
<1>8. Id("retry", L + 1) = SessionId(L + 1)
  BY <1>1, <1>2
<1> QED
  BY <1>6, <1>7, <1>8 DEF L

(* The store holds one session under an id.                                *)
LEMMA IndexOfInOrder ==
  ASSUME sessions \in Seq(Session), IdsInOrder, NEW i \in DOMAIN sessions
  PROVE  IndexOf(sessions[i].id) = i
<1> DEFINE k == IndexOf(sessions[i].id)
<1>1. k \in DOMAIN sessions /\ sessions[k].id = sessions[i].id
  BY DEF IndexOf
<1>2. SessionId(k) = SessionId(i)
  BY <1>1 DEF IdsInOrder
<1> QED
  BY <1>1, <1>2, SessionIdInjective

-----------------------------------------------------------------------------
(* What each launcher's choice establishes.                                *)

Fresh(j) == j.id = SessionId(Len(sessions) + 1) /\ CurrentChoice(j)

LEMMA LaunchTimeoutType ==
  /\ LaunchTimeout(sessions) \in Nat
  /\ sessions \in Seq(Session) /\ TimeoutsAreFailures
       /\ (\E i \in DOMAIN sessions : sessions[i].exit = TimedOut)
     => LaunchTimeout(sessions) = INCEPTION_RETRY_TIMEOUT_SECONDS
BY DEF LaunchTimeout, TimeoutsAreFailures, INCEPTION_RETRY_TIMEOUT_SECONDS,
       INCEPTION_TIMEOUT_SECONDS

(* A host that chooses an id for a new session has a fresh view of it.     *)
LEMMA ChoiceIsFresh ==
  ASSUME IInv, NEW h \in Hosts,
         Choose(h), pc' # pc
  PROVE  \E j \in Job : Begin(h, j) /\ (j.mode = "start" => Fresh(j))
<1> DEFINE L == Len(sessions)
<1>1. sessions \in Seq(Session)
  BY DEF IInv, TypeOK
<1>2. \A r : ~Return(h, r)
  BY DEF Return
<1>3. CASE ResumePrepared(h)
  <2>1. Latest(sessions) \in Session
    BY <1>1, <1>3 DEF ResumePrepared, LatestIs, Latest
  <2>2. LaunchJob(Latest(sessions).id) \in Job
    BY <2>1, JobsType DEF Session
  <2>3. LaunchJob(Latest(sessions).id).mode = "launch"
    BY DEF LaunchJob, NoJob
  <2> QED
    BY <1>3, <2>2, <2>3 DEF ResumePrepared
<1>4. CASE StartFirst(h)
  <2> DEFINE j == StartJob(BaseId, NoId, LaunchTimeout(sessions))
  <2>1. j \in Job
    BY JobsType, ConstantsType, LaunchTimeoutType
  <2>2. j.id = BaseId /\ j.retryOf = NoId
    BY DEF StartJob, NoJob
  <2>3. sessions = <<>>
    BY <1>4 DEF StartFirst
  <2>4. BaseId = SessionId(Len(sessions) + 1)
    BY <2>3 DEF SessionId
  <2>5. CurrentChoice(j)
    <3> HIDE DEF j
    <3> QED
      BY <2>2, <2>3 DEF CurrentChoice
  <2> HIDE DEF j
  <2> QED
    BY <1>4, <2>1, <2>2, <2>4, <2>5 DEF StartFirst, Fresh, j
<1>5. CASE RetryFailed(h)
  <2> DEFINE j == StartJob(RetryId(sessions), Latest(sessions).id,
                           LaunchTimeout(sessions))
  <2>1. sessions # <<>> /\ Latest(sessions).status = "failed"
    BY <1>5 DEF RetryFailed, LatestIs
  <2>2. Latest(sessions) \in Session
    BY <1>1, <2>1 DEF Latest
  <2>3. RetryId(sessions) = SessionId(L + 1) /\ SessionId(L + 1) \in Ids
    BY <1>1, <2>1, RetryIdIsNext, SessionIdType DEF IInv
  <2>4. j \in Job
    BY <2>2, <2>3, JobsType, LaunchTimeoutType DEF Session
  <2>5. /\ j.id = SessionId(L + 1)
        /\ j.retryOf = Latest(sessions).id
        /\ j.timeout = LaunchTimeout(sessions)
    BY <2>3 DEF StartJob, NoJob
  <2> HIDE DEF j
  <2>6. CurrentChoice(j)
    BY <1>1, <2>1, <2>5, LaunchTimeoutType DEF CurrentChoice, Superseded, IInv
  <2> QED
    BY <1>5, <2>4, <2>5, <2>6 DEF RetryFailed, Fresh, j
<1>6. CASE ReplaceUnusable(h)
  <2> DEFINE j == StartJob(RetryId(sessions), NoId, LaunchTimeout(sessions))
  <2>1. sessions # <<>> /\ Unusable(Latest(sessions))
    BY <1>6 DEF ReplaceUnusable
  <2>3. RetryId(sessions) = SessionId(L + 1) /\ SessionId(L + 1) \in Ids
    BY <1>1, <2>1, RetryIdIsNext, SessionIdType DEF IInv
  <2>4. j \in Job
    BY <2>3, JobsType, ConstantsType, LaunchTimeoutType
  <2>5. /\ j.id = SessionId(L + 1)
        /\ j.retryOf = NoId
        /\ j.timeout = LaunchTimeout(sessions)
    BY <2>3 DEF StartJob, NoJob
  <2> HIDE DEF j
  <2>6. CurrentChoice(j)
    BY <1>1, <2>1, <2>5, LaunchTimeoutType DEF CurrentChoice, Superseded, IInv
  <2> QED
    BY <1>6, <2>4, <2>5, <2>6 DEF ReplaceUnusable, Fresh, j
<1> QED
  BY <1>2, <1>3, <1>4, <1>5, <1>6
     DEF Choose, PlanFails, Reuse, RefuseMissing, RefuseRunning

-----------------------------------------------------------------------------
(* The steps that leave the sessions alone.                                *)

(* Such a step keeps IInv if no host starts running, and a host that is    *)
(* choosing keeps its choice or has just made a fresh one.                 *)
LEMMA SameSessions ==
  ASSUME IInv, TypeOK', sessions' = sessions,
         \A g \in Hosts : pc'[g] = "running" => pc[g] = "running" /\ job'[g] = job[g],
         \A g \in Hosts : Choosing(g)' =>
            \/ Fresh(job'[g])
            \/ /\ Choosing(g)
               /\ job'[g].id = job[g].id
               /\ job'[g].retryOf = job[g].retryOf
               /\ job'[g].timeout = job[g].timeout
  PROVE  IInv'
<1>1. sessions \in Seq(Session)
  BY DEF IInv, TypeOK
<1>2. /\ IdsInOrder' /\ OlderAreSuperseded' /\ TimeoutsAreFailures'
      /\ RetryChain' /\ TimeoutEscalates'
  BY DEF IInv, IdsInOrder, OlderAreSuperseded, TimeoutsAreFailures, RetryChain,
         TimeoutEscalates
<1>3. RunnersOwnLatest'
  BY DEF IInv, RunnersOwnLatest
<1>4. ChoicesAreCurrent'
  <2> SUFFICES ASSUME NEW g \in Hosts, Choosing(g)'
               PROVE  \E n \in 1 .. Len(sessions) + 1 :
                        /\ job'[g].id = SessionId(n)
                        /\ n = Len(sessions) + 1 => CurrentChoice(job'[g])
    BY DEF ChoicesAreCurrent, CurrentChoice
  <2>1. CASE Fresh(job'[g])
    BY <1>1, <2>1 DEF Fresh
  <2>2. CASE /\ Choosing(g)
             /\ job'[g].id = job[g].id
             /\ job'[g].retryOf = job[g].retryOf
             /\ job'[g].timeout = job[g].timeout
    <3>1. PICK n \in 1 .. Len(sessions) + 1 :
            /\ job[g].id = SessionId(n)
            /\ n = Len(sessions) + 1 => CurrentChoice(job[g])
      BY <2>2 DEF IInv, ChoicesAreCurrent
    <3>2. CurrentChoice(job[g]) => CurrentChoice(job'[g])
      BY <2>2 DEF CurrentChoice
    <3> QED
      BY <2>2, <3>1, <3>2
  <2> QED
    BY <2>1, <2>2
<1> QED
  BY <1>2, <1>3, <1>4 DEF IInv

LEMMA ChooseStep ==
  ASSUME IInv, NEW h \in Hosts, Choose(h)
  PROVE  IInv'
<1>1. CASE pc' = pc
  <2>1. PICK r \in Results : Return(h, r)
    <3>1. \A j : ~Begin(h, j)
      BY <1>1 DEF Begin, IInv, TypeOK
    <3> QED
      BY <3>1 DEF Choose, PlanFails, Reuse, RefuseMissing, RefuseRunning,
                  ResumePrepared, StartFirst, RetryFailed, ReplaceUnusable, Results
  <2>2. TypeOK'
    BY <2>1, ReturnType DEF IInv
  <2>3. sessions' = sessions /\ pc' = pc /\ job' = job
    BY <2>1 DEF Return, storeVars
  <2> QED
    BY <2>2, <2>3, SameSessions DEF Choosing
<1>2. CASE pc' # pc
  <2>1. PICK j \in Job : Begin(h, j) /\ (j.mode = "start" => Fresh(j))
    BY <1>2, ChoiceIsFresh
  <2>2. TypeOK'
    BY <2>1, BeginType DEF IInv
  <2>3. /\ sessions' = sessions
        /\ pc' = [pc EXCEPT ![h] = "attempt"]
        /\ job' = [job EXCEPT ![h] = j]
    BY <2>1 DEF Begin, storeVars
  <2>4. \A g \in Hosts : g # h => pc'[g] = pc[g] /\ job'[g] = job[g]
    BY <2>3 DEF IInv, TypeOK
  <2>5. pc'[h] = "attempt" /\ job'[h] = j
    BY <2>3 DEF IInv, TypeOK
  <2> QED
    BY <2>1, <2>2, <2>3, <2>4, <2>5, SameSessions DEF Choosing
<1> QED
  BY <1>1, <1>2

LEMMA RecordAttemptStep ==
  ASSUME IInv, NEW h \in Hosts, RecordAttempt(h, "baseline")
  PROVE  IInv'
<1>1. TypeOK'
  BY RecordAttemptType DEF IInv, Steps
<1>2. /\ sessions' = sessions /\ job' = job
      /\ pc[h] = "attempt" /\ pc'[h] = "baseline"
      /\ \A g \in Hosts : g # h => pc'[g] = pc[g]
  BY DEF IInv, TypeOK, RecordAttempt
<1> QED
  BY <1>1, <1>2, SameSessions DEF Choosing

LEMMA TakeBaselineStep ==
  ASSUME IInv, NEW h \in Hosts, TakeBaseline(h)
  PROVE  IInv'
<1>1. TypeOK'
  BY TakeBaselineType DEF IInv
<1>2. /\ sessions' = sessions
      /\ pc[h] = "baseline" /\ pc'[h] = "core"
      /\ \A g \in Hosts : g # h => pc'[g] = pc[g]
  BY DEF IInv, TypeOK, TakeBaseline, storeVars
<1>3. \A g \in Hosts : g # h => job'[g] = job[g]
  BY DEF IInv, TypeOK, TakeBaseline
<1>4. /\ job'[h].mode = job[h].mode
      /\ job'[h].id = job[h].id
      /\ job'[h].retryOf = job[h].retryOf
      /\ job'[h].timeout = job[h].timeout
  BY DEF IInv, TypeOK, TakeBaseline, Job
<1> QED
  BY <1>1, <1>2, <1>3, <1>4, SameSessions DEF Choosing

(* A step of one host past the choice that runs no executor.               *)
LEMMA LeaveStep ==
  ASSUME IInv, TypeOK', NEW h \in Hosts,
         sessions' = sessions,
         pc'[h] \in {"conclude", "idle"},
         \A g \in Hosts : g # h => pc'[g] = pc[g] /\ job'[g] = job[g]
  PROVE  IInv'
BY SameSessions DEF Choosing

LEMMA CoreRefusesStep ==
  ASSUME IInv, NEW h \in Hosts, CoreRefuses(h)
  PROVE  IInv'
<1>1. TypeOK'
  BY CoreStepType DEF IInv, CoreStep
<1>2. /\ sessions' = sessions /\ pc'[h] = "conclude"
      /\ \A g \in Hosts : g # h => pc'[g] = pc[g] /\ job'[g] = job[g]
  BY DEF IInv, TypeOK, CoreRefuses, storeVars
<1> QED
  BY <1>1, <1>2, LeaveStep

LEMMA ValidateStep ==
  ASSUME IInv, NEW h \in Hosts, Validate(h)
  PROVE  IInv'
<1>1. TypeOK'
  BY ValidateType DEF IInv
<1>2. /\ sessions' = sessions /\ pc'[h] = "conclude"
      /\ \A g \in Hosts : g # h => pc'[g] = pc[g]
  BY DEF IInv, TypeOK, Validate, storeVars
<1>3. \A g \in Hosts : g # h => job'[g] = job[g]
  BY DEF IInv, TypeOK, Validate
<1> QED
  BY <1>1, <1>2, <1>3, LeaveStep

(* However it concludes, an Inception launch does so by one of the two.    *)
LEMMA InceptionConcludes ==
  ASSUME NEW h \in Hosts, Conclude(h)
  PROVE  Concludes(h)
BY DEF Conclude, ConcludeRaised, ConcludeRegression, ConcludeReturned,
       ConcludeEscapes, Concludes, Results

LEMMA ConcludeStep ==
  ASSUME IInv, NEW h \in Hosts, Conclude(h)
  PROVE  IInv'
<1>1. /\ TypeOK' /\ sessions' = sessions /\ pc'[h] = "idle"
      /\ \A g \in Hosts : g # h => pc'[g] = pc[g] /\ job'[g] = job[g]
  BY InceptionConcludes, ConcludesLeaves DEF IInv
<1> QED
  BY <1>1, LeaveStep

LEMMA CrashStep ==
  ASSUME IInv, NEW h \in Hosts, Crash(h)
  PROVE  IInv'
<1>1. TypeOK'
  BY CrashType DEF IInv
<1>2. /\ sessions' = sessions /\ pc'[h] = "idle"
      /\ \A g \in Hosts : g # h => pc'[g] = pc[g] /\ job'[g] = job[g]
  BY DEF IInv, TypeOK, Crash, storeVars
<1> QED
  BY <1>1, <1>2, LeaveStep

LEMMA OperatorEditStep ==
  ASSUME IInv, OperatorEdit
  PROVE  IInv'
<1>1. TypeOK'
  BY OperatorEditType DEF IInv
<1>2. sessions' = sessions /\ pc' = pc /\ job' = job
  BY DEF OperatorEdit, hostVars
<1> QED
  BY <1>1, <1>2, SameSessions DEF Choosing

LEMMA StutterStep ==
  ASSUME IInv, UNCHANGED vars
  PROVE  IInv'
<1>1. TypeOK'
  BY StutterType DEF IInv
<1>2. sessions' = sessions /\ pc' = pc /\ job' = job
  BY DEF vars, storeVars, hostVars
<1> QED
  BY <1>1, <1>2, SameSessions DEF Choosing

-----------------------------------------------------------------------------
(* Core creates a session.                                                 *)

(* The id is new, so the host's view of the latest session is still true.  *)
LEMMA CreatesNext ==
  ASSUME IInv, NEW h \in Hosts, CoreCreates(h)
  PROVE  job[h].id = SessionId(Len(sessions) + 1) /\ CurrentChoice(job[h])
<1>1. Choosing(h)
  BY DEF CoreCreates, Choosing
<1>2. PICK n \in 1 .. Len(sessions) + 1 :
        /\ job[h].id = SessionId(n)
        /\ n = Len(sessions) + 1 => CurrentChoice(job[h])
  BY <1>1 DEF IInv, ChoicesAreCurrent
<1>3. ~(n <= Len(sessions))
  BY <1>2, UsedInOrder DEF IInv, TypeOK, CoreCreates
<1> QED
  BY <1>2, <1>3 DEF IInv, TypeOK

LEMMA CoreCreatesStep ==
  ASSUME IInv, NEW h \in Hosts, CoreCreates(h)
  PROVE  IInv'
<1> DEFINE L == Len(sessions)
           s == [id |-> job[h].id, status |-> "prepared", exit |-> NoExit,
                 output |-> "none", retryOf |-> job[h].retryOf,
                 timeout |-> job[h].timeout]
<1>1. sessions \in Seq(Session) /\ L \in Nat
  BY DEF IInv, TypeOK
<1>2. TypeOK'
  BY CoreStepType DEF IInv, CoreStep
<1>3. sessions' = Append(sessions, s)
  BY DEF CoreCreates
<1>4. /\ s.id = SessionId(L + 1) /\ s.retryOf = job[h].retryOf
      /\ s.timeout = job[h].timeout /\ s.exit # TimedOut /\ s.status = "prepared"
  BY CreatesNext DEF NoExit, TimedOut
<1>5. CurrentChoice(job[h])
  BY CreatesNext
<1> HIDE DEF s
<1>6. /\ Len(sessions') = L + 1
      /\ DOMAIN sessions' = 1 .. L + 1
      /\ \A i \in 1 .. L : sessions'[i] = sessions[i]
      /\ sessions'[L + 1] = s
  BY <1>1, <1>3
<1>7. L > 0 => sessions # <<>> /\ Latest(sessions) = sessions[L] /\ Superseded(sessions[L])
  BY <1>1, <1>5 DEF CurrentChoice, Latest
<1> HIDE DEF L
<1>8. IdsInOrder'
  BY <1>1, <1>4, <1>6 DEF IInv, IdsInOrder, L
<1>9. OlderAreSuperseded'
  <2> SUFFICES ASSUME NEW i \in 1 .. L PROVE Superseded(sessions[i])
    BY <1>1, <1>6 DEF OlderAreSuperseded, Superseded, Unusable
  <2> QED
    BY <1>1, <1>7 DEF IInv, OlderAreSuperseded, L
<1>10. TimeoutsAreFailures'
  BY <1>1, <1>4, <1>6 DEF IInv, TimeoutsAreFailures, L
<1>11. RetryChain'
  <2> SUFFICES ASSUME NEW i \in 1 .. L + 1, sessions'[i].retryOf # NoId
               PROVE  /\ i > 1
                      /\ sessions'[i].retryOf = sessions'[i - 1].id
                      /\ sessions'[i - 1].status = "failed"
    BY <1>6 DEF RetryChain
  <2>1. CASE i <= L
    <3>1. i > 1 /\ sessions[i].retryOf = sessions[i - 1].id
               /\ sessions[i - 1].status = "failed"
      BY <1>1, <1>6, <2>1 DEF IInv, RetryChain, L
    <3> QED
      BY <1>1, <1>6, <2>1, <3>1
  <2>2. CASE i = L + 1
    <3>1. /\ sessions # <<>> /\ job[h].retryOf = Latest(sessions).id
          /\ Latest(sessions).status = "failed"
      BY <1>4, <1>5, <1>6, <2>2 DEF CurrentChoice
    <3>2. L > 0
      BY <1>1, <3>1 DEF L
    <3> QED
      BY <1>1, <1>4, <1>6, <1>7, <2>2, <3>1, <3>2
  <2> QED
    BY <1>1, <2>1, <2>2
<1>12. TimeoutEscalates'
  <2> SUFFICES ASSUME NEW i \in 1 .. L + 1, NEW j \in 1 .. L + 1,
                      i < j, sessions'[i].exit = TimedOut
               PROVE  sessions'[j].timeout = INCEPTION_RETRY_TIMEOUT_SECONDS
    BY <1>6 DEF TimeoutEscalates
  <2>1. i \in 1 .. L /\ sessions[i].exit = TimedOut
    BY <1>1, <1>6
  <2>2. CASE j <= L
    BY <1>1, <1>6, <2>1, <2>2 DEF IInv, TimeoutEscalates, L
  <2>3. CASE j = L + 1
    <3>1. i \in DOMAIN sessions
      BY <1>1, <2>1 DEF L
    <3> QED
      BY <1>4, <1>5, <1>6, <2>1, <2>3, <3>1 DEF CurrentChoice
  <2> QED
    BY <1>1, <2>2, <2>3
<1>13. pc'[h] = "created" /\ job' = job /\ \A g \in Hosts : g # h => pc'[g] = pc[g]
  BY DEF IInv, TypeOK, CoreCreates
<1>14. ChoicesAreCurrent'
  <2> SUFFICES ASSUME NEW g \in Hosts, Choosing(g)
               PROVE  \E n \in 1 .. L + 1 : job[g].id = SessionId(n)
    <3>1. \A g \in Hosts : Choosing(g)' => Choosing(g)
      BY <1>13 DEF Choosing
    <3>2. \A n \in 1 .. L + 1 : n \in 1 .. Len(sessions') + 1 /\ n # Len(sessions') + 1
      BY <1>1, <1>6
    <3> QED
      BY <1>13, <3>1, <3>2 DEF ChoicesAreCurrent
  <2> QED
    BY DEF IInv, ChoicesAreCurrent, L
<1>15. RunnersOwnLatest'
  <2>1. \A g \in Hosts : pc[g] # "running"
    <3> SUFFICES ASSUME NEW g \in Hosts, pc[g] = "running" PROVE FALSE
      OBVIOUS
    <3>1. LatestIs(sessions, "running")
      BY DEF IInv, RunnersOwnLatest
    <3> QED
      BY <1>5, <3>1 DEF CurrentChoice, LatestIs, Superseded, Unusable
  <2> QED
    BY <1>13, <2>1 DEF RunnersOwnLatest
<1> QED
  BY <1>2, <1>8, <1>9, <1>10, <1>11, <1>12, <1>14, <1>15 DEF IInv

-----------------------------------------------------------------------------
(* Core rewrites the newest session as it runs and ends.                   *)

LEMMA LatestChanges ==
  ASSUME IInv, TypeOK',
         sessions # <<>>,
         ~Superseded(Latest(sessions)),
         NEW status \in Statuses, NEW exit \in Exits, NEW output \in Outputs,
         exit = TimedOut => status = "failed",
         Update(Latest(sessions).id, status, exit, output),
         \A g \in Hosts : Choosing(g)' => Choosing(g) /\ job'[g].id = job[g].id,
         \A g \in Hosts : pc'[g] = "running" =>
            /\ status = "running"
            /\ job'[g].id = Latest(sessions).id
            /\ \A k \in Hosts : pc'[k] = "running" => k = g
  PROVE  IInv'
<1> DEFINE L == Len(sessions)
           s == [sessions[L] EXCEPT !.status = status, !.exit = exit,
                                    !.output = output]
<1>1. /\ sessions \in Seq(Session) /\ L \in Nat \ {0} /\ L \in DOMAIN sessions
      /\ Latest(sessions) = sessions[L]
  BY DEF IInv, TypeOK, Latest
<1>2. IndexOf(Latest(sessions).id) = L /\ Latest(sessions).id \in UsedIds(sessions)
  BY <1>1, IndexOfInOrder DEF IInv, UsedIds
<1>3. /\ sessions' \in Seq(Session) /\ Len(sessions') = L
      /\ \A i \in 1 .. L : i # L => sessions'[i] = sessions[i]
      /\ sessions'[L] = s
  <2>1. sessions' = [sessions EXCEPT ![L] = s]
    BY <1>2 DEF Update
  <2>2. s \in Session
    <3>1. sessions[L] \in Session
      BY <1>1
    <3> QED
      BY <3>1 DEF Session, Exits
  <2>3. L = Len(sessions) /\ DOMAIN sessions = 1 .. L
    BY <1>1
  <2> HIDE DEF s, L
  <2>4. sessions' \in Seq(Session) /\ Len(sessions') = L
    BY <1>1, <2>1, <2>2, <2>3
  <2>5. \A i \in 1 .. L : sessions'[i] = IF i = L THEN s ELSE sessions[i]
    BY <2>1, <2>3
  <2> QED
    BY <1>1, <2>4, <2>5
<1>4. sessions[L] \in Session
  BY <1>1
<1>5. /\ s.id = sessions[L].id /\ s.retryOf = sessions[L].retryOf
      /\ s.timeout = sessions[L].timeout
      /\ s.status = status /\ s.exit = exit
  BY <1>4 DEF Session
<1> HIDE DEF s, L
<1>6. DOMAIN sessions = 1 .. L /\ DOMAIN sessions' = 1 .. L
  BY <1>1, <1>3 DEF L
<1>7. IdsInOrder'
  BY <1>3, <1>5, <1>6 DEF IInv, IdsInOrder
<1>8. OlderAreSuperseded'
  BY <1>1, <1>3, <1>6 DEF IInv, OlderAreSuperseded, Superseded, Unusable, L
<1>9. TimeoutsAreFailures'
  BY <1>3, <1>5, <1>6 DEF IInv, TimeoutsAreFailures
<1>10. RetryChain'
  <2> SUFFICES ASSUME NEW i \in 1 .. L, sessions'[i].retryOf # NoId
               PROVE  /\ i > 1
                      /\ sessions'[i].retryOf = sessions'[i - 1].id
                      /\ sessions'[i - 1].status = "failed"
    BY <1>6 DEF RetryChain
  <2>1. sessions'[i].retryOf = sessions[i].retryOf
    BY <1>3, <1>5
  <2>2. i > 1 /\ sessions[i].retryOf = sessions[i - 1].id
             /\ sessions[i - 1].status = "failed"
    BY <1>6, <2>1 DEF IInv, RetryChain
  <2>3. i - 1 \in 1 .. L /\ i - 1 # L
    BY <1>1, <2>2
  <2> QED
    BY <1>3, <2>1, <2>2, <2>3
<1>11. TimeoutEscalates'
  <2> SUFFICES ASSUME NEW i \in 1 .. L, NEW j \in 1 .. L,
                      i < j, sessions'[i].exit = TimedOut
               PROVE  sessions'[j].timeout = INCEPTION_RETRY_TIMEOUT_SECONDS
    BY <1>6 DEF TimeoutEscalates
  <2>1. i # L
    BY <1>1
  <2>2. sessions[i].exit = TimedOut /\ sessions'[j].timeout = sessions[j].timeout
    BY <1>3, <1>5, <2>1
  <2> QED
    BY <1>6, <2>2 DEF IInv, TimeoutEscalates
<1>12. ChoicesAreCurrent'
  <2> SUFFICES ASSUME NEW g \in Hosts, Choosing(g)
               PROVE  \E n \in 1 .. L : job[g].id = SessionId(n)
    <3>1. \A n \in 1 .. L : n \in 1 .. Len(sessions') + 1 /\ n # Len(sessions') + 1
      BY <1>1, <1>3
    <3> QED
      BY <3>1 DEF ChoicesAreCurrent
  <2>1. PICK n \in 1 .. L + 1 :
          job[g].id = SessionId(n) /\ (n = L + 1 => CurrentChoice(job[g]))
    BY DEF IInv, ChoicesAreCurrent, L
  <2>2. ~CurrentChoice(job[g])
    BY DEF CurrentChoice
  <2> QED
    BY <1>1, <2>1, <2>2
<1>13. RunnersOwnLatest'
  <2>1. Latest(sessions)' = s /\ (sessions # <<>>)'
    BY <1>1, <1>3 DEF Latest
  <2> QED
    BY <1>1, <1>5, <2>1 DEF RunnersOwnLatest, LatestIs
<1> QED
  BY <1>7, <1>8, <1>9, <1>10, <1>11, <1>12, <1>13 DEF IInv

LEMMA CoreRunsStep ==
  ASSUME IInv, NEW h \in Hosts, CoreRuns(h)
  PROVE  IInv'
<1> DEFINE i == IndexOf(job[h].id)
<1>1. sessions \in Seq(Session)
  BY DEF IInv, TypeOK
<1>2. i \in DOMAIN sessions /\ sessions[i].id = job[h].id /\ sessions[i].status = "prepared"
  BY DEF CoreRuns, UsedIds, IndexOf
<1>3. ~Superseded(sessions[i])
  BY <1>2 DEF Superseded, Unusable
<1>4. i = Len(sessions)
  BY <1>1, <1>2, <1>3 DEF IInv, OlderAreSuperseded
<1> HIDE DEF i
<1>5. sessions # <<>> /\ Latest(sessions) = sessions[i]
  BY <1>1, <1>2, <1>4 DEF Latest
<1>6. Update(Latest(sessions).id, "running", NoExit, "none")
  BY <1>2, <1>5 DEF CoreRuns
<1>7. \A g \in Hosts : pc[g] # "running"
  BY <1>2, <1>5 DEF IInv, RunnersOwnLatest, LatestIs
<1>8. pc'[h] = "running" /\ job' = job /\ \A g \in Hosts : g # h => pc'[g] = pc[g]
  BY DEF IInv, TypeOK, CoreRuns
<1>9. TypeOK'
  BY CoreStepType DEF IInv, CoreStep
<1>10. \A g \in Hosts : Choosing(g)' => Choosing(g) /\ job'[g].id = job[g].id
  BY <1>8 DEF Choosing
<1>11. \A g \in Hosts : pc'[g] = "running" => g = h /\ job'[g].id = Latest(sessions).id
  BY <1>2, <1>5, <1>7, <1>8
<1>12. /\ "running" \in Statuses /\ NoExit \in Exits /\ "none" \in Outputs
       /\ NoExit # TimedOut
  BY DEF Statuses, Exits, Outputs, NoExit, TimedOut
<1> QED
  BY <1>3, <1>5, <1>6, <1>9, <1>10, <1>11, <1>12, LatestChanges

LEMMA ExecutorEndsStep ==
  ASSUME IInv, NEW h \in Hosts, ExecutorEnds(h, "validate")
  PROVE  IInv'
<1>1. PICK e \in Endings : Update(job[h].id, e.status, e.exit, e.output)
  BY DEF ExecutorEnds
<1>2. /\ LatestIs(sessions, "running") /\ job[h].id = Latest(sessions).id
      /\ \A g \in Hosts : pc[g] = "running" => g = h
  BY DEF IInv, RunnersOwnLatest, ExecutorEnds
<1>3. sessions # <<>> /\ ~Superseded(Latest(sessions))
  BY <1>2 DEF LatestIs, Superseded, Unusable
<1>4. TypeOK'
  BY ExecutorEndsType DEF IInv, Steps
<1>5. pc'[h] \in {"validate", "conclude"} /\ \A g \in Hosts : g # h => pc'[g] = pc[g]
  BY DEF IInv, TypeOK, ExecutorEnds
<1>6. \A g \in Hosts : g # h => job'[g] = job[g]
  BY DEF IInv, TypeOK, ExecutorEnds
<1>7. \A g \in Hosts : Choosing(g)' => Choosing(g) /\ job'[g].id = job[g].id
  BY <1>5, <1>6 DEF Choosing
<1>8. \A g \in Hosts : pc'[g] # "running"
  BY <1>2, <1>5
<1>9. /\ e.status \in Statuses /\ e.exit \in Exits /\ e.output \in Outputs
      /\ e.exit = TimedOut => e.status = "failed"
  BY EndingsType DEF Endings, TimedOut
<1> QED
  BY <1>1, <1>2, <1>3, <1>4, <1>7, <1>8, <1>9, LatestChanges

-----------------------------------------------------------------------------
(* The invariant and what follows from it.                                 *)

LEMMA InitIInv == Init => IInv
<1> SUFFICES ASSUME Init PROVE IInv
  OBVIOUS
<1>1. TypeOK
  BY InitTypeOK
<1>2. sessions = <<>> /\ DOMAIN sessions = {} /\ \A h \in Hosts : pc[h] = "idle"
  BY DEF Init
<1> QED
  BY <1>1, <1>2 DEF IInv, IdsInOrder, OlderAreSuperseded, TimeoutsAreFailures,
       ChoicesAreCurrent, Choosing, RunnersOwnLatest, RetryChain, TimeoutEscalates

LEMMA NextIInv == IInv /\ [Next]_vars => IInv'
<1> SUFFICES ASSUME IInv, [Next]_vars PROVE IInv'
  OBVIOUS
<1>1. ASSUME NEW h \in Hosts, Choose(h) PROVE IInv'
  BY <1>1, ChooseStep
<1>2. ASSUME NEW h \in Hosts, GuardedStep(h) PROVE IInv'
  BY <1>2, RecordAttemptStep, TakeBaselineStep, CoreRefusesStep, CoreCreatesStep,
     CoreRunsStep, ExecutorEndsStep, ValidateStep DEF GuardedStep, CoreStep
<1>3. ASSUME NEW h \in Hosts, Conclude(h) PROVE IInv'
  BY <1>3, ConcludeStep
<1>4. ASSUME NEW h \in Hosts, Crash(h) PROVE IInv'
  BY <1>4, CrashStep
<1>5. CASE OperatorEdit
  BY <1>5, OperatorEditStep
<1>6. CASE UNCHANGED vars
  BY <1>6, StutterStep
<1> QED
  BY <1>1, <1>2, <1>3, <1>4, <1>5, <1>6 DEF Next

(* IInv is an invariant of the launches of any number of hosts.            *)
THEOREM Invariance == Spec => []IInv
BY InitIInv, NextIInv, PTL DEF Spec

(* Every variable keeps its type.                                          *)
THEOREM TypeCorrect == Spec => []TypeOK
<1>1. IInv => TypeOK
  BY DEF IInv
<1> QED
  BY <1>1, Invariance, PTL

(* The launchers' check and Core's unique ids suffice: there is at most    *)
(* one prepared or running session, the newest.                            *)
THEOREM OneLiveSessionHolds == Spec => []OneLiveSession
<1>1. IInv => OneLiveSession
  <2> SUFFICES ASSUME IInv, NEW i \in DOMAIN sessions, Live(sessions[i])
               PROVE  i = Len(sessions)
    BY DEF OneLiveSession
  <2>1. ~Superseded(sessions[i])
    BY DEF Live, Superseded, Unusable
  <2> QED
    BY <2>1 DEF IInv, TypeOK, OlderAreSuperseded
<1> QED
  BY <1>1, Invariance, PTL

(* Nothing is launched once a session has completed with usable output.    *)
THEOREM CompletedWorkIsFinalHolds == Spec => []CompletedWorkIsFinal
<1>1. IInv => CompletedWorkIsFinal
  <2> SUFFICES ASSUME IInv, NEW i \in DOMAIN sessions, Usable(sessions[i])
               PROVE  i = Len(sessions)
    BY DEF CompletedWorkIsFinal
  <2>1. ~Superseded(sessions[i])
    BY DEF Usable, Superseded, Unusable
  <2> QED
    BY <2>1 DEF IInv, TypeOK, OlderAreSuperseded
<1> QED
  BY <1>1, Invariance, PTL

(* retry_of is a true history of failures.                                 *)
THEOREM RetryChainHolds == Spec => []RetryChain
<1>1. IInv => RetryChain
  BY DEF IInv
<1> QED
  BY <1>1, Invariance, PTL

(* A timeout extends every later session, whichever host starts it.        *)
THEOREM TimeoutEscalatesHolds == Spec => []TimeoutEscalates
<1>1. IInv => TimeoutEscalates
  BY DEF IInv
<1> QED
  BY <1>1, Invariance, PTL

-----------------------------------------------------------------------------
(* The account of the shared steps, kept by every step of this launcher.   *)

LEMMA NextAccount == IInv /\ Account /\ [Next]_vars => Account'
<1> SUFFICES ASSUME IInv, Account, [Next]_vars PROVE Account'
  OBVIOUS
<1>1. ASSUME NEW h \in Hosts, Choose(h) PROVE Account'
  <2>1. CASE pc' = pc
    <3>1. \A j : ~Begin(h, j)
      BY <2>1 DEF Begin, IInv, TypeOK
    <3>2. PICK r \in Results : Return(h, r)
      BY <1>1, <3>1 DEF Choose, PlanFails, Reuse, RefuseMissing, RefuseRunning,
         ResumePrepared, StartFirst, RetryFailed, ReplaceUnusable, Results
    <3> QED
      BY <3>2, ReturnAccount
  <2>2. CASE pc' # pc
    BY <1>1, <2>2, ChoiceIsFresh, BeginAccount
  <2> QED
    BY <2>1, <2>2
<1>2. ASSUME NEW h \in Hosts, GuardedStep(h) PROVE Account'
  BY <1>2, GuardedStepAccount
<1>3. ASSUME NEW h \in Hosts, Conclude(h) PROVE Account'
  BY <1>3, InceptionConcludes, ConcludesAccount
<1>4. ASSUME NEW h \in Hosts, Crash(h) PROVE Account'
  BY <1>4, CrashAccount
<1>5. CASE OperatorEdit
  BY <1>5, OperatorEditAccount
<1>6. CASE UNCHANGED vars
  BY <1>6, StutterAccount
<1> QED
  BY <1>1, <1>2, <1>3, <1>4, <1>5, <1>6 DEF Next

(* No attempt at an Inception has two outcomes, the attempts without one   *)
(* are those in progress, of dead hosts and of launches that could not read *)
(* what they conclude from, and every run of its executor has an attempt.  *)
THEOREM InceptionIsAccounted == Spec => [](RunsAreCounted /\ LedgerBalances)
<1>1. Account => RunsAreCounted /\ LedgerBalances
  BY AccountGives
<1> QED
  BY <1>1, InitAccount, NextAccount, Invariance, PTL DEF Spec

-----------------------------------------------------------------------------
(* The launches implement SingleExecution.                                 *)

LEMMA LatestStates ==
  /\ sessions = <<>> => LatestState = "open"
  /\ sessions # <<>> =>
       /\ Latest(sessions).status = "prepared" => LatestState = "prepared"
       /\ Latest(sessions).status = "running" => LatestState = "running"
       /\ Superseded(Latest(sessions)) => LatestState = "open"
       /\ Latest(sessions).status \in {"completed", "failed"}
            => LatestState \in {"open", "done", "stuck"}
BY DEF LatestState, LatestIs, Superseded, Unusable, Usable, ResultMissing

LEMMA LatestStatesNext ==
  sessions' # <<>> =>
    /\ Latest(sessions').status = "prepared" => LatestState' = "prepared"
    /\ Latest(sessions').status = "running" => LatestState' = "running"
    /\ Latest(sessions').status \in {"completed", "failed"}
         => LatestState' \in {"open", "done", "stuck"}
BY DEF LatestState, LatestIs, Usable, ResultMissing, Latest

(* The rewritten session is the newest.                                    *)
LEMMA LatestRewritten ==
  ASSUME IInv, sessions # <<>>,
         NEW status, NEW exit, NEW output,
         Update(Latest(sessions).id, status, exit, output)
  PROVE  /\ Len(sessions') = Len(sessions)
         /\ sessions' # <<>>
         /\ Latest(sessions').status = status
<1> DEFINE L == Len(sessions)
           s == [sessions[L] EXCEPT !.status = status, !.exit = exit,
                                    !.output = output]
<1>1. /\ sessions \in Seq(Session) /\ L \in Nat \ {0} /\ L \in DOMAIN sessions
      /\ Latest(sessions) = sessions[L] /\ sessions[L] \in Session
  BY DEF IInv, TypeOK, Latest
<1>2. IndexOf(Latest(sessions).id) = L
  BY <1>1, IndexOfInOrder DEF IInv
<1>3. sessions' = [sessions EXCEPT ![L] = s]
  BY <1>2 DEF Update
<1>4. s.status = status
  BY <1>1 DEF Session
<1>5. L = Len(sessions)
  OBVIOUS
<1> HIDE DEF s, L
<1>6. DOMAIN sessions' = DOMAIN sessions /\ sessions'[L] = s
  BY <1>1, <1>3
<1>7. Len(sessions') = L
  <2>1. sessions' \in Seq(Session \cup {s})
    BY <1>1, <1>3, <1>5
  <2>2. DOMAIN sessions' = 1 .. L
    BY <1>1, <1>5, <1>6
  <2> QED
    BY <1>1, <2>1, <2>2
<1> QED
  BY <1>1, <1>4, <1>5, <1>6, <1>7 DEF Latest

LEMMA StepsImplement == IInv /\ [Next]_vars => [Execution!Next]_<<LatestState, Len(sessions)>>
<1> SUFFICES ASSUME IInv, [Next]_vars, sessions' # sessions
             PROVE  Execution!Next
  BY DEF LatestState, LatestIs, Usable, ResultMissing, Latest
<1>1. PICK h \in Hosts : CoreCreates(h) \/ CoreRuns(h) \/ ExecutorEnds(h, "validate")
  <2>1. ASSUME NEW h \in Hosts, Choose(h) PROVE FALSE
    BY <2>1 DEF Choose, PlanFails, Reuse, RefuseMissing, RefuseRunning, ResumePrepared,
         StartFirst, RetryFailed, ReplaceUnusable, Return, Begin, storeVars
  <2>2. ASSUME NEW h \in Hosts, Conclude(h) PROVE FALSE
    BY <2>2, InceptionConcludes, ConcludesLeaves DEF IInv
  <2>3. ASSUME NEW h \in Hosts, Crash(h) PROVE FALSE
    BY <2>3 DEF Crash, storeVars
  <2>4. ASSUME OperatorEdit PROVE FALSE
    BY <2>4 DEF OperatorEdit
  <2>5. ASSUME NEW h \in Hosts, GuardedStep(h)
        PROVE  CoreCreates(h) \/ CoreRuns(h) \/ ExecutorEnds(h, "validate")
    BY <2>5 DEF GuardedStep, CoreStep, RecordAttempt, TakeBaseline, CoreRefuses,
                Validate, storeVars
  <2>6. ~UNCHANGED vars
    BY DEF vars, storeVars
  <2> QED
    BY <2>1, <2>2, <2>3, <2>4, <2>5, <2>6 DEF Next
<1>2. sessions \in Seq(Session) /\ Len(sessions) \in Nat
  BY DEF IInv, TypeOK
<1>3. CASE CoreCreates(h)
  <2>1. CurrentChoice(job[h])
    BY <1>3, CreatesNext
  <2>2. LatestState = "open"
    BY <2>1, LatestStates DEF CurrentChoice
  <2>3. /\ Len(sessions') = Len(sessions) + 1
        /\ sessions' # <<>> /\ Latest(sessions').status = "prepared"
    BY <1>2, <1>3 DEF CoreCreates, Latest
  <2> QED
    BY <2>2, <2>3, LatestStatesNext DEF Execution!Next, Execution!Prepare
<1>4. CASE CoreRuns(h)
  <2> DEFINE i == IndexOf(job[h].id)
  <2>1. i \in DOMAIN sessions /\ sessions[i].id = job[h].id /\ sessions[i].status = "prepared"
    BY <1>4 DEF CoreRuns, UsedIds, IndexOf
  <2>2. i = Len(sessions)
    BY <1>2, <2>1 DEF IInv, OlderAreSuperseded, Superseded, Unusable
  <2> HIDE DEF i
  <2>3. /\ sessions # <<>> /\ Latest(sessions).id = job[h].id
        /\ Latest(sessions).status = "prepared"
    BY <1>2, <2>1, <2>2 DEF Latest
  <2>4. /\ Len(sessions') = Len(sessions)
        /\ sessions' # <<>> /\ Latest(sessions').status = "running"
    BY <1>4, <2>3, LatestRewritten DEF CoreRuns
  <2> QED
    BY <2>3, <2>4, LatestStates, LatestStatesNext DEF Execution!Next, Execution!Run
<1>5. CASE ExecutorEnds(h, "validate")
  <2>1. /\ sessions # <<>> /\ Latest(sessions).id = job[h].id
        /\ Latest(sessions).status = "running"
    BY <1>5 DEF ExecutorEnds, IInv, RunnersOwnLatest, LatestIs
  <2>2. PICK e \in Endings : Update(job[h].id, e.status, e.exit, e.output)
    BY <1>5 DEF ExecutorEnds
  <2>3. /\ Len(sessions') = Len(sessions)
        /\ sessions' # <<>> /\ Latest(sessions').status = e.status
    BY <2>1, <2>2, LatestRewritten
  <2>4. e.status \in {"completed", "failed"}
    BY DEF Endings
  <2> QED
    BY <2>1, <2>3, <2>4, LatestStates, LatestStatesNext DEF Execution!Next, Execution!End
<1> QED
  BY <1>1, <1>3, <1>4, <1>5

(* Any number of hosts, crashing anywhere, together execute a Work's       *)
(* Inception one run at a time and stop for good after a final one.        *)
THEOREM Implements == Spec => ImplementsSingleExecution
<1>1. Init => Execution!Init
  BY LatestStates DEF Init, Execution!Init
<1> QED
  BY <1>1, StepsImplement, Invariance, PTL DEF Spec, ImplementsSingleExecution, Execution!Spec

-----------------------------------------------------------------------------
(* Construction: the ids of its chain.                                     *)

LEMMA ChainIdType ==
  \A n \in Nat \ {0} :
    /\ ChainId(n) \in Ids /\ Id("rerun", n) \in Ids /\ Id("retry", n) \in Ids
    /\ ChainId(n).n = n
    /\ ChainId(n).kind = IF n = 1 THEN "base" ELSE "retry"
    /\ Id("rerun", n).n = n /\ Id("rerun", n).kind = "rerun"
BY DEF ChainId, BaseId, Id, Ids, Kinds

(* Each session's id holds its place, so ids are used once.                *)
LEMMA ChainIsUnique ==
  ASSUME sessions \in Seq(Session), ChainInOrder
  PROVE  /\ \A i \in DOMAIN sessions : sessions[i].id.n = i
         /\ IdsAreUnique
<1>1. \A i \in DOMAIN sessions : i \in Nat \ {0}
  OBVIOUS
<1>2. \A i \in DOMAIN sessions : sessions[i].id.n = i
  BY <1>1, ChainIdType DEF ChainInOrder
<1> QED
  BY <1>2 DEF IdsAreUnique

(* What _matching_sessions keeps: all but the rerun at the end.            *)
LEMMA MatchingIsChain ==
  ASSUME HistoryInv, NEW M,
         EndsInRerun => M = Len(sessions) - 1,
         ~EndsInRerun => M = Len(sessions)
  PROVE  /\ M \in Nat /\ M <= Len(sessions) /\ Matching(sessions) = 1 .. M
         /\ Cardinality(Matching(sessions)) = M
         /\ M = 0 <=> sessions = <<>>
         /\ M > 0 => LatestMatching(sessions) = sessions[M] /\ M \in DOMAIN sessions
         /\ EndsInRerun => /\ M > 0 /\ sessions[M].status = "completed"
                           /\ sessions[M + 1].id = Id("rerun", M + 1)
                           /\ M + 1 \in DOMAIN sessions
<1> DEFINE L == Len(sessions)
<1>1. sessions \in Seq(Session) /\ L \in Nat /\ DOMAIN sessions = 1 .. L
  BY DEF HistoryInv, TypeOK
<1>2. \A i \in 1 .. L :
        \/ sessions[i].id.kind \in {"base", "retry"}
        \/ i > 1 /\ i = L /\ sessions[i].id = Id("rerun", i) /\ sessions[i].id.kind = "rerun"
  <2> SUFFICES ASSUME NEW i \in 1 .. L
               PROVE  \/ sessions[i].id.kind \in {"base", "retry"}
                      \/ /\ i > 1 /\ i = L /\ sessions[i].id = Id("rerun", i)
                         /\ sessions[i].id.kind = "rerun"
    OBVIOUS
  <2>1. i \in Nat \ {0} /\ i \in DOMAIN sessions
    BY <1>1
  <2>2. ChainId(i).kind \in {"base", "retry"} /\ Id("rerun", i).kind = "rerun"
    BY <2>1, ChainIdType
  <2> QED
    BY <2>1, <2>2 DEF HistoryInv, ChainInOrder
<1>3. /\ Latest(sessions) = sessions[L]
      /\ sessions # <<>> <=> L > 0
  BY <1>1 DEF Latest
<1> HIDE DEF L
<1>4. EndsInRerun => L > 1 /\ sessions[L].id = Id("rerun", L) /\ sessions[L].id.kind = "rerun"
  <2> SUFFICES ASSUME EndsInRerun
               PROVE  L > 1 /\ sessions[L].id = Id("rerun", L) /\ sessions[L].id.kind = "rerun"
    OBVIOUS
  <2>1. L \in 1 .. L /\ sessions[L].id.kind = "rerun"
    BY <1>1, <1>3 DEF EndsInRerun
  <2> QED
    BY <1>2, <2>1
<1>5. ~EndsInRerun => \A i \in 1 .. L : sessions[i].id.kind \in {"base", "retry"}
  BY <1>1, <1>2, <1>3 DEF EndsInRerun
<1>6. M \in Nat /\ M <= L
  BY <1>1, <1>4 DEF L
<1>7. \A i \in 1 .. L : sessions[i].id.kind \in {"base", "retry"} <=> i <= M
  <2>1. CASE EndsInRerun
    <3>1. M = L - 1 /\ sessions[L].id.kind = "rerun"
      BY <1>4, <2>1 DEF L
    <3>2. \A i \in 1 .. L : i <= M <=> i # L
      BY <1>1, <3>1
    <3> QED
      BY <1>2, <3>1, <3>2
  <2>2. CASE ~EndsInRerun
    <3>1. \A i \in 1 .. L : i <= M
      BY <1>1, <2>2 DEF L
    <3> QED
      BY <1>5, <2>2, <3>1
  <2> QED
    BY <2>1, <2>2
<1>8. Matching(sessions) = 1 .. M
  <2>1. Matching(sessions) = {i \in 1 .. L : i <= M}
    BY <1>1, <1>7 DEF Matching
  <2> QED
    BY <1>1, <1>6, <2>1
<1>9. Cardinality(Matching(sessions)) = M
  BY <1>6, <1>8, FS_Interval
<1>10. M = 0 <=> sessions = <<>>
  BY <1>1, <1>3, <1>4
<1>11. M > 0 => LatestMatching(sessions) = sessions[M]
  <2> SUFFICES ASSUME M > 0
               PROVE  (CHOOSE i \in 1 .. M : \A j \in 1 .. M : j <= i) = M
    BY <1>8 DEF LatestMatching
  <2>1. M \in 1 .. M /\ \A j \in 1 .. M : j <= M
    BY <1>6
  <2>2. \A i \in 1 .. M : (\A j \in 1 .. M : j <= i) => i = M
    BY <1>6, <2>1
  <2> QED
    BY <2>1, <2>2
<1>12. EndsInRerun => sessions[M].status = "completed"
  <2> SUFFICES ASSUME EndsInRerun PROVE sessions[M].status = "completed"
    OBVIOUS
  <2>1. L \in DOMAIN sessions /\ L > 1 /\ sessions[L].id.kind = "rerun" /\ M = L - 1
    BY <1>1, <1>4 DEF L
  <2> QED
    BY <2>1 DEF HistoryInv, EachEndedAsTold
<1>13. M > 0 => M \in DOMAIN sessions
  BY <1>1, <1>6
<1>14. EndsInRerun => /\ M > 0 /\ M + 1 \in DOMAIN sessions
                      /\ sessions[M + 1].id = Id("rerun", M + 1)
  <2> SUFFICES ASSUME EndsInRerun
               PROVE  M > 0 /\ M + 1 \in DOMAIN sessions
                      /\ sessions[M + 1].id = Id("rerun", M + 1)
    OBVIOUS
  <2>1. L = M + 1
    BY <1>1, <1>6 DEF L
  <2> QED
    BY <1>1, <1>4, <1>6, <2>1
<1> QED
  BY <1>6, <1>8, <1>9, <1>10, <1>11, <1>12, <1>13, <1>14 DEF L

-----------------------------------------------------------------------------
(* Construction: a host that chooses gets an id Core refuses, or one that  *)
(* follows from the newest session.                                        *)

Current(j) == j.mode = "start" /\ (j.id \in UsedIds(sessions) \/ Follows(j))

LEMMA StartsWith ==
  ASSUME NEW id \in Ids, NEW retryOf \in Ids
  PROVE  LET j == StartJob(id, retryOf, CONSTRUCTION_TIMEOUT_SECONDS)
         IN  /\ j \in Job /\ j.mode = "start" /\ j.id = id /\ j.retryOf = retryOf
<1> DEFINE j == StartJob(id, retryOf, CONSTRUCTION_TIMEOUT_SECONDS)
<1>1. j \in Job
  BY JobsType DEF CONSTRUCTION_TIMEOUT_SECONDS
<1>2. j.mode = "start" /\ j.id = id /\ j.retryOf = retryOf
  BY DEF StartJob, NoJob
<1> QED
  BY <1>1, <1>2

LEMMA ConstructionChoice ==
  ASSUME HistoryInv, NEW h \in Hosts, ConstructionChoose(h)
  PROVE  \/ \E r \in Results : Return(h, r)
         \/ \E j \in Job : Begin(h, j) /\ Current(j)
<1> DEFINE L == Len(sessions)
<1>1. sessions \in Seq(Session) /\ L \in Nat /\ DOMAIN sessions = 1 .. L
  BY DEF HistoryInv, TypeOK
<1> PICK M : (EndsInRerun => M = L - 1) /\ (~EndsInRerun => M = L)
  OBVIOUS
<1>2. /\ M \in Nat /\ M <= L /\ Matching(sessions) = 1 .. M
      /\ Cardinality(Matching(sessions)) = M
      /\ M = 0 <=> sessions = <<>>
      /\ M > 0 => LatestMatching(sessions) = sessions[M] /\ M \in DOMAIN sessions
      /\ EndsInRerun => /\ M > 0 /\ sessions[M].status = "completed"
                        /\ sessions[M + 1].id = Id("rerun", M + 1)
                        /\ M + 1 \in DOMAIN sessions
  BY MatchingIsChain
<1>3. \A status : MatchingIs(sessions, status) => M > 0 /\ sessions[M].status = status
  BY <1>2 DEF MatchingIs
<1>4. ~EndsInRerun /\ M > 0 => sessions # <<>> /\ Latest(sessions) = sessions[M]
  BY <1>1 DEF Latest
<1>5. BaseId \in Ids /\ NoId \in Ids /\ Id("retry", M + 1) \in Ids /\ Id("rerun", M + 1) \in Ids
  BY <1>2, ConstantsType, ChainIdType
<1>6. M > 0 => BaseId \in UsedIds(sessions)
  <2> SUFFICES ASSUME M > 0 PROVE BaseId \in UsedIds(sessions)
    OBVIOUS
  <2>1. L >= 1
    <3>1. M \in Nat /\ M <= L /\ L \in Nat
      BY <1>1, <1>2
    <3> HIDE DEF L
    <3> QED
      BY <3>1
  <2>2. 1 \in DOMAIN sessions
    BY <1>1, <2>1
  <2>3. sessions[1].id = BaseId
    BY <2>2 DEF HistoryInv, ChainInOrder, ChainId
  <2> QED
    BY <2>2, <2>3 DEF UsedIds
<1>7. ~EndsInRerun => M = L
  OBVIOUS
<1>8. CASE StartBase(h)
  <2> DEFINE j == StartJob(BaseId, NoId, CONSTRUCTION_TIMEOUT_SECONDS)
  <2>1. j \in Job /\ j.mode = "start" /\ j.id = BaseId /\ j.retryOf = NoId
    BY <1>5, StartsWith
  <2>2. Begin(h, j) /\ (sessions = <<>> \/ M > 0)
    BY <1>2, <1>8 DEF StartBase
  <2> HIDE DEF j
  <2> QED
    BY <1>6, <2>1, <2>2 DEF Current, Follows
<1>9. CASE RetryMatching(h)
  <2> DEFINE j == StartJob(Superseding("retry", sessions), LatestMatching(sessions).id,
                           CONSTRUCTION_TIMEOUT_SECONDS)
  <2>1. M > 0 /\ sessions[M].status = "failed" /\ ~EndsInRerun
    BY <1>2, <1>3, <1>9 DEF RetryMatching
  <2>2. Superseding("retry", sessions) = Id("retry", M + 1)
    BY <1>2 DEF Superseding
  <2>3. LatestMatching(sessions) = Latest(sessions) /\ LatestMatching(sessions).id \in Ids
    <3>1. LatestMatching(sessions) = sessions[M] /\ M \in DOMAIN sessions
      BY <1>2, <2>1
    <3>2. sessions[M] \in Session
      BY <1>1, <3>1
    <3> QED
      BY <1>4, <2>1, <3>1, <3>2 DEF Session
  <2>4. /\ j \in Job /\ j.mode = "start" /\ j.id = Id("retry", M + 1)
        /\ j.retryOf = Latest(sessions).id
    BY <1>5, <2>2, <2>3, StartsWith
  <2>5. Begin(h, j)
    BY <1>9 DEF RetryMatching
  <2> HIDE DEF j
  <2> QED
    BY <1>4, <1>7, <2>1, <2>4, <2>5 DEF Current, Follows, LatestIs
<1>10. CASE RerunCompleted(h)
  <2> DEFINE j == StartJob(Superseding("rerun", sessions), NoId,
                           CONSTRUCTION_TIMEOUT_SECONDS)
  <2>1. M > 0 /\ sessions[M].status = "completed"
    BY <1>3, <1>10 DEF RerunCompleted
  <2>2. Superseding("rerun", sessions) = Id("rerun", M + 1)
    BY <1>2 DEF Superseding
  <2>3. j \in Job /\ j.mode = "start" /\ j.id = Id("rerun", M + 1) /\ j.retryOf = NoId
    BY <1>5, <2>2, StartsWith
  <2>4. Begin(h, j)
    BY <1>10 DEF RerunCompleted
  <2> HIDE DEF j
  <2>5. CASE EndsInRerun
    BY <1>2, <2>3, <2>4, <2>5 DEF Current, UsedIds
  <2>6. CASE ~EndsInRerun
    BY <1>4, <1>7, <2>1, <2>3, <2>4, <2>6 DEF Current, Follows, LatestIs
  <2> QED
    BY <2>5, <2>6
<1> QED
  BY <1>8, <1>9, <1>10
     DEF ConstructionChoose, NotInConstruction, ConstructionPlanFails, RefuseMatchingRunning, Results

-----------------------------------------------------------------------------
(* Construction: the steps that leave the sessions alone.                  *)

(* Such a step keeps HistoryInv if no host starts running, and a host that *)
(* is starting a session keeps its choice or has just made a current one.  *)
LEMMA HistorySameSessions ==
  ASSUME HistoryInv, TypeOK', sessions' = sessions,
         \A g \in Hosts : pc'[g] = "running" => pc[g] = "running" /\ job'[g] = job[g],
         \A g \in Hosts : Starting(g)' =>
            \/ Current(job'[g])
            \/ /\ Starting(g)
               /\ job'[g].mode = job[g].mode
               /\ job'[g].id = job[g].id
               /\ job'[g].retryOf = job[g].retryOf
  PROVE  HistoryInv'
<1>1. ChainInOrder' /\ EachEndedAsTold' /\ RetriesNameTheFailed'
  BY DEF HistoryInv, ChainInOrder, EachEndedAsTold, RetriesNameTheFailed
<1>2. RunnersOwnNewest'
  BY DEF HistoryInv, RunnersOwnNewest
<1>3. StartsAreCurrent'
  <2> SUFFICES ASSUME NEW g \in Hosts, Starting(g)' PROVE Current(job'[g])
    BY DEF StartsAreCurrent, Current, Follows, EndsInRerun
  <2>1. CASE /\ Starting(g)
             /\ job'[g].mode = job[g].mode
             /\ job'[g].id = job[g].id
             /\ job'[g].retryOf = job[g].retryOf
    BY <2>1 DEF HistoryInv, StartsAreCurrent, Current, Follows
  <2> QED
    BY <2>1
<1> QED
  BY <1>1, <1>2, <1>3 DEF HistoryInv

LEMMA ChooseHistory ==
  ASSUME HistoryInv, NEW h \in Hosts, ConstructionChoose(h)
  PROVE  HistoryInv'
<1>1. ASSUME NEW r \in Results, Return(h, r) PROVE HistoryInv'
  <2>1. TypeOK' /\ sessions' = sessions /\ pc' = pc /\ job' = job
    BY <1>1, ReturnType DEF HistoryInv, Return, storeVars
  <2> QED
    BY <2>1, HistorySameSessions DEF Starting
<1>2. ASSUME NEW j \in Job, Begin(h, j), Current(j) PROVE HistoryInv'
  <2>1. TypeOK' /\ sessions' = sessions /\ Moves(h, "attempt")
    BY <1>2, BeginType DEF HistoryInv, Begin, storeVars, Moves
  <2>2. job'[h] = j /\ \A g \in Hosts : g # h => job'[g] = job[g]
    BY <1>2 DEF HistoryInv, TypeOK, Begin
  <2>3. pc'[h] = "attempt" /\ \A g \in Hosts : g # h => pc'[g] = pc[g]
    BY <2>1, MovesOne DEF HistoryInv
  <2> QED
    BY <1>2, <2>1, <2>2, <2>3, HistorySameSessions DEF Starting
<1> QED
  BY <1>1, <1>2, ConstructionChoice

LEMMA RecordAttemptHistory ==
  ASSUME HistoryInv, NEW h \in Hosts, RecordAttempt(h, "baseline")
  PROVE  HistoryInv'
<1>1. TypeOK'
  BY RecordAttemptType DEF HistoryInv, Steps
<1>2. sessions' = sessions /\ job' = job /\ Moves(h, "baseline") /\ pc[h] = "attempt"
  BY DEF RecordAttempt, Moves
<1>3. pc'[h] = "baseline" /\ \A g \in Hosts : g # h => pc'[g] = pc[g]
  BY <1>2, MovesOne DEF HistoryInv
<1> QED
  BY <1>1, <1>2, <1>3, HistorySameSessions DEF Starting

LEMMA TakeBaselineHistory ==
  ASSUME HistoryInv, NEW h \in Hosts, TakeBaseline(h)
  PROVE  HistoryInv'
<1>1. TypeOK'
  BY TakeBaselineType DEF HistoryInv
<1>2. sessions' = sessions /\ Moves(h, "core") /\ pc[h] = "baseline"
  BY DEF TakeBaseline, Moves, storeVars
<1>3. pc'[h] = "core" /\ \A g \in Hosts : g # h => pc'[g] = pc[g]
  BY <1>2, MovesOne DEF HistoryInv
<1>4. \A g \in Hosts : g # h => job'[g] = job[g]
  BY DEF HistoryInv, TypeOK, TakeBaseline
<1>5. /\ job'[h].mode = job[h].mode /\ job'[h].id = job[h].id
      /\ job'[h].retryOf = job[h].retryOf
  BY DEF HistoryInv, TypeOK, TakeBaseline, Job
<1> QED
  BY <1>1, <1>2, <1>3, <1>4, <1>5, HistorySameSessions DEF Starting

(* A step of one host that is past starting and does not start running.    *)
LEMMA LeaveHistory ==
  ASSUME HistoryInv, TypeOK', NEW h \in Hosts, NEW to \in {"conclude", "idle"},
         Moves(h, to), sessions' = sessions,
         \A g \in Hosts : g # h => job'[g] = job[g]
  PROVE  HistoryInv'
<1>1. pc'[h] = to /\ \A g \in Hosts : g # h => pc'[g] = pc[g]
  BY MovesOne DEF HistoryInv
<1> QED
  BY <1>1, HistorySameSessions DEF Starting

LEMMA CoreRefusesHistory ==
  ASSUME HistoryInv, NEW h \in Hosts, CoreRefuses(h)
  PROVE  HistoryInv'
<1>1. TypeOK' /\ sessions' = sessions /\ Moves(h, "conclude")
  BY CoreStepType DEF HistoryInv, CoreStep, CoreRefuses, storeVars, Moves
<1>2. \A g \in Hosts : g # h => job'[g] = job[g]
  BY DEF HistoryInv, TypeOK, CoreRefuses
<1> QED
  BY <1>1, <1>2, LeaveHistory

LEMMA ValidateHistory ==
  ASSUME HistoryInv, NEW h \in Hosts, Validate(h)
  PROVE  HistoryInv'
<1>1. TypeOK' /\ sessions' = sessions /\ Moves(h, "conclude")
  BY ValidateType DEF HistoryInv, Validate, storeVars, Moves
<1>2. \A g \in Hosts : g # h => job'[g] = job[g]
  BY DEF HistoryInv, TypeOK, Validate
<1> QED
  BY <1>1, <1>2, LeaveHistory

(* However it concludes, a launch records one outcome or raises before.    *)
LEMMA ConstructionConcludes ==
  ASSUME NEW h \in Hosts, ConstructionConclude(h)
  PROVE  Concludes(h)
BY DEF ConstructionConclude, ConstructionRaised, ConstructionRegression,
       ConstructionReturned, ConstructionEscapes, Concludes, Results

LEMMA ConcludeHistory ==
  ASSUME HistoryInv, NEW h \in Hosts, ConstructionConclude(h)
  PROVE  HistoryInv'
<1>1. /\ TypeOK' /\ sessions' = sessions /\ Moves(h, "idle")
      /\ \A g \in Hosts : g # h => job'[g] = job[g]
  BY ConstructionConcludes, ConcludesLeaves DEF HistoryInv, Moves
<1> QED
  BY <1>1, LeaveHistory

LEMMA CrashHistory ==
  ASSUME HistoryInv, NEW h \in Hosts, Crash(h)
  PROVE  HistoryInv'
<1>1. TypeOK' /\ sessions' = sessions /\ Moves(h, "idle")
  BY CrashType DEF HistoryInv, Crash, storeVars, Moves
<1>2. \A g \in Hosts : g # h => job'[g] = job[g]
  BY DEF HistoryInv, TypeOK, Crash
<1> QED
  BY <1>1, <1>2, LeaveHistory

LEMMA OperatorEditHistory ==
  ASSUME HistoryInv, OperatorEdit
  PROVE  HistoryInv'
<1>1. TypeOK' /\ sessions' = sessions /\ pc' = pc /\ job' = job
  BY OperatorEditType DEF HistoryInv, OperatorEdit, hostVars
<1> QED
  BY <1>1, HistorySameSessions DEF Starting

LEMMA StutterHistory ==
  ASSUME HistoryInv, UNCHANGED vars
  PROVE  HistoryInv'
<1>1. TypeOK' /\ sessions' = sessions /\ pc' = pc /\ job' = job
  BY StutterType DEF HistoryInv, vars, storeVars, hostVars
<1> QED
  BY <1>1, HistorySameSessions DEF Starting

-----------------------------------------------------------------------------
(* Construction: Core creates a session.                                   *)

LEMMA CoreCreatesHistory ==
  ASSUME HistoryInv, NEW h \in Hosts, CoreCreates(h)
  PROVE  HistoryInv'
<1> DEFINE L == Len(sessions)
           s == [id |-> job[h].id, status |-> "prepared", exit |-> NoExit,
                 output |-> "none", retryOf |-> job[h].retryOf,
                 timeout |-> job[h].timeout]
<1>1. TypeOK' /\ sessions \in Seq(Session) /\ L \in Nat /\ DOMAIN sessions = 1 .. L
  BY CoreStepType DEF HistoryInv, TypeOK, CoreStep
<1>2. /\ sessions' = Append(sessions, s) /\ s.status = "prepared"
      /\ s.id = job[h].id /\ s.retryOf = job[h].retryOf
  BY DEF CoreCreates
<1> HIDE DEF s
<1>3. /\ Len(sessions') = L + 1 /\ DOMAIN sessions' = 1 .. L + 1
      /\ \A i \in 1 .. L : sessions'[i] = sessions[i]
      /\ sessions'[L + 1] = s
  BY <1>1, <1>2
<1>4. Latest(sessions) = sessions[L] /\ (sessions = <<>> <=> L = 0)
  BY <1>1 DEF Latest
<1>5. L = Len(sessions)
  OBVIOUS
<1> HIDE DEF L
<1>6. Follows(job[h])
  BY DEF HistoryInv, StartsAreCurrent, Starting, CoreCreates
<1>7. \A i \in 1 .. L : sessions[i].id = ChainId(i)
  <2>1. ASSUME L > 0 PROVE sessions[L].id.kind # "rerun"
    BY <1>4, <1>6, <2>1 DEF Follows, EndsInRerun
  <2> QED
    BY <1>1, <1>5, <2>1, ChainIdType DEF HistoryInv, ChainInOrder
<1>8. \/ L = 0 /\ s.id = BaseId /\ s.retryOf = NoId
      \/ /\ L > 0 /\ sessions[L].status = "failed"
         /\ s.id = Id("retry", L + 1) /\ s.retryOf = sessions[L].id
      \/ /\ L > 0 /\ sessions[L].status = "completed"
         /\ s.id = Id("rerun", L + 1) /\ s.retryOf = NoId
  BY <1>1, <1>2, <1>4, <1>5, <1>6 DEF Follows, LatestIs
<1>9. ChainInOrder'
  <2>1. s.id = ChainId(L + 1) \/ (L + 1 > 1 /\ s.id = Id("rerun", L + 1))
    BY <1>1, <1>8 DEF ChainId
  <2> QED
    BY <1>1, <1>3, <1>7, <2>1 DEF ChainInOrder
<1>10. /\ s.id.kind = "retry" <=> L > 0 /\ sessions[L].status = "failed"
       /\ s.id.kind = "rerun" <=> L > 0 /\ sessions[L].status = "completed"
  BY <1>1, <1>8 DEF Id, BaseId
<1>11. EachEndedAsTold'
  <2> SUFFICES ASSUME NEW i \in 1 .. L + 1, i > 1
               PROVE  sessions'[i - 1].status
                        = IF sessions'[i].id.kind = "rerun" THEN "completed" ELSE "failed"
    BY <1>3 DEF EachEndedAsTold
  <2>1. i - 1 \in 1 .. L /\ sessions'[i - 1] = sessions[i - 1]
    BY <1>1, <1>3
  <2>2. CASE i = L + 1
    BY <1>1, <1>3, <1>8, <1>10, <2>1, <2>2
  <2>3. CASE i # L + 1
    <3>1. i \in 1 .. L
      BY <1>1, <2>3
    <3> QED
      BY <1>1, <1>3, <2>1, <3>1 DEF HistoryInv, EachEndedAsTold
  <2> QED
    BY <2>2, <2>3
<1>12. RetriesNameTheFailed'
  <2> SUFFICES ASSUME NEW i \in 1 .. L + 1
               PROVE  sessions'[i].retryOf
                        = IF sessions'[i].id.kind = "retry" THEN sessions'[i - 1].id ELSE NoId
    BY <1>3 DEF RetriesNameTheFailed
  <2>1. CASE i = L + 1
    <3>1. L > 0 => sessions'[i - 1] = sessions[L]
      BY <1>1, <1>3, <2>1
    <3> QED
      BY <1>1, <1>3, <1>8, <1>10, <2>1, <3>1
  <2>2. CASE i # L + 1
    <3>1. i \in 1 .. L /\ sessions'[i] = sessions[i]
      BY <1>1, <1>3, <2>2
    <3>2. sessions[i].id.kind = "retry" => i > 1
      <4>1. i \in Nat \ {0}
        BY <1>1, <3>1
      <4>2. sessions[i].id.kind = IF i = 1 THEN "base" ELSE "retry"
        BY <1>7, <3>1, <4>1, ChainIdType
      <4> QED
        BY <4>1, <4>2
    <3>3. i > 1 => sessions'[i - 1] = sessions[i - 1]
      BY <1>1, <1>3, <3>1
    <3> QED
      BY <1>1, <3>1, <3>2, <3>3 DEF HistoryInv, RetriesNameTheFailed
  <2> QED
    BY <2>1, <2>2
<1>13. /\ Moves(h, "created") /\ job' = job
  BY DEF CoreCreates, Moves
<1>14. pc'[h] = "created" /\ \A g \in Hosts : g # h => pc'[g] = pc[g]
  BY <1>13, MovesOne DEF HistoryInv
<1>15. StartsAreCurrent'
  <2> SUFFICES ASSUME NEW g \in Hosts, Starting(g)'
               PROVE  job[g].mode = "start" /\ job[g].id \in UsedIds(sessions')
    BY <1>13 DEF StartsAreCurrent
  <2>1. Starting(g)
    BY <1>14 DEF Starting
  <2>2. job[g].mode = "start" /\ (job[g].id \in UsedIds(sessions) \/ Follows(job[g]))
    BY <2>1 DEF HistoryInv, StartsAreCurrent
  <2>3. UsedIds(sessions) \subseteq UsedIds(sessions') /\ s.id \in UsedIds(sessions')
    BY <1>1, <1>3 DEF UsedIds
  <2>4. Follows(job[g]) => job[g].id = s.id
    BY <1>2, <1>6 DEF Follows, LatestIs
  <2> QED
    BY <2>2, <2>3, <2>4
<1>16. RunnersOwnNewest'
  <2>1. ~LatestIs(sessions, "running")
    BY <1>6 DEF Follows, LatestIs
  <2> QED
    BY <1>14, <2>1 DEF HistoryInv, RunnersOwnNewest
<1> QED
  BY <1>1, <1>9, <1>11, <1>12, <1>15, <1>16 DEF HistoryInv

-----------------------------------------------------------------------------
(* Construction: the newest session changes.                               *)

(* Only a prepared or running session is rewritten, and it is the newest.  *)
LEMMA LiveIsLatest ==
  ASSUME HistoryInv, NEW i \in DOMAIN sessions, Live(sessions[i])
  PROVE  i = Len(sessions)
<1>1. sessions \in Seq(Session)
  BY DEF HistoryInv, TypeOK
<1> SUFFICES ASSUME i # Len(sessions) PROVE FALSE
  OBVIOUS
<1>2. i + 1 \in DOMAIN sessions /\ i + 1 > 1 /\ (i + 1) - 1 = i
  BY <1>1
<1>3. sessions[i].status \in {"completed", "failed"}
  BY <1>2 DEF HistoryInv, EachEndedAsTold
<1> QED
  BY <1>3 DEF Live

LEMMA HistoryLatestChanges ==
  ASSUME HistoryInv, TypeOK', NEW id, NEW status, NEW exit, NEW output,
         Update(id, status, exit, output), IndexOf(id) = Len(sessions),
         LatestIs(sessions, "prepared") \/ LatestIs(sessions, "running"),
         \A g \in Hosts : Starting(g)' => Starting(g) /\ job'[g] = job[g],
         \A g \in Hosts : pc'[g] = "running" =>
            /\ status = "running"
            /\ job'[g].id = Latest(sessions).id
            /\ \A k \in Hosts : pc'[k] = "running" => k = g
  PROVE  HistoryInv'
<1> DEFINE L == Len(sessions)
<1>1. /\ sessions \in Seq(Session) /\ sessions' \in Seq(Session)
      /\ L \in Nat /\ DOMAIN sessions = 1 .. L
  BY DEF HistoryInv, TypeOK
<1>2. L > 0 /\ Latest(sessions) = sessions[L] /\ Live(sessions[L])
  BY <1>1 DEF LatestIs, Latest, Live
<1>3. /\ DOMAIN sessions' = 1 .. L
      /\ \A i \in 1 .. L :
           /\ sessions'[i].id = sessions[i].id
           /\ sessions'[i].retryOf = sessions[i].retryOf
           /\ i # L => sessions'[i] = sessions[i]
      /\ sessions'[L].status = status
  BY <1>1, <1>2, UpdateKeeps
<1>4. L = Len(sessions) /\ Len(sessions') = L
  BY <1>1, <1>3
<1> HIDE DEF L
<1>5. ChainInOrder'
  BY <1>1, <1>3, <1>4 DEF HistoryInv, ChainInOrder
<1>6. EachEndedAsTold'
  <2> SUFFICES ASSUME NEW i \in 1 .. L, i > 1
               PROVE  sessions'[i - 1].status
                        = IF sessions'[i].id.kind = "rerun" THEN "completed" ELSE "failed"
    BY <1>3 DEF EachEndedAsTold
  <2>1. i - 1 \in 1 .. L /\ i - 1 # L
    BY <1>1
  <2> QED
    BY <1>1, <1>3, <2>1 DEF HistoryInv, EachEndedAsTold
<1>7. RetriesNameTheFailed'
  <2> SUFFICES ASSUME NEW i \in 1 .. L
               PROVE  sessions'[i].retryOf
                        = IF sessions'[i].id.kind = "retry" THEN sessions'[i - 1].id ELSE NoId
    BY <1>3 DEF RetriesNameTheFailed
  <2>1. sessions[i].id.kind = "retry" => i - 1 \in 1 .. L
    <3>1. i \in Nat \ {0}
      BY <1>1
    <3>2. i = 1 => sessions[i].id.kind = "base"
      BY <1>1, <3>1, ChainIdType DEF HistoryInv, ChainInOrder
    <3> QED
      BY <1>1, <3>1, <3>2
  <2> QED
    BY <1>1, <1>3, <2>1 DEF HistoryInv, RetriesNameTheFailed
<1>8. StartsAreCurrent'
  <2> SUFFICES ASSUME NEW g \in Hosts, Starting(g)'
               PROVE  job'[g].mode = "start" /\ job'[g].id \in UsedIds(sessions')
    BY DEF StartsAreCurrent
  <2>1. job'[g] = job[g] /\ job[g].mode = "start"
        /\ (job[g].id \in UsedIds(sessions) \/ Follows(job[g]))
    BY DEF HistoryInv, StartsAreCurrent
  <2>2. ~Follows(job[g])
    BY DEF Follows, LatestIs
  <2>3. UsedIds(sessions') = UsedIds(sessions)
    BY <1>1, <1>3 DEF UsedIds
  <2> QED
    BY <2>1, <2>2, <2>3
<1>9. RunnersOwnNewest'
  <2>1. /\ Latest(sessions') = sessions'[L] /\ sessions' # <<>>
        /\ sessions'[L].id = sessions[L].id
    BY <1>1, <1>2, <1>3, <1>4 DEF Latest
  <2> QED
    BY <1>2, <1>3, <2>1 DEF RunnersOwnNewest, LatestIs
<1> QED
  BY <1>5, <1>6, <1>7, <1>8, <1>9 DEF HistoryInv

LEMMA CoreRunsHistory ==
  ASSUME HistoryInv, NEW h \in Hosts, CoreRuns(h)
  PROVE  HistoryInv'
<1> DEFINE i == IndexOf(job[h].id)
<1>1. i \in DOMAIN sessions /\ sessions[i].id = job[h].id /\ sessions[i].status = "prepared"
  BY DEF CoreRuns, UsedIds, IndexOf
<1>2. i = Len(sessions)
  BY <1>1, LiveIsLatest DEF Live
<1> HIDE DEF i
<1>3. LatestIs(sessions, "prepared") /\ Latest(sessions).id = job[h].id
  <2>1. sessions # <<>>
    BY <1>1
  <2> QED
    BY <1>1, <1>2, <2>1 DEF LatestIs, Latest
<1>4. TypeOK'
  BY CoreStepType DEF HistoryInv, CoreStep
<1>5. /\ Update(job[h].id, "running", NoExit, "none") /\ Moves(h, "running")
      /\ job' = job
  BY DEF CoreRuns, Moves
<1>6. pc'[h] = "running" /\ \A g \in Hosts : g # h => pc'[g] = pc[g]
  BY <1>5, MovesOne DEF HistoryInv
<1>7. \A g \in Hosts : pc[g] # "running"
  BY <1>3 DEF HistoryInv, RunnersOwnNewest, LatestIs
<1>8. \A g \in Hosts : Starting(g)' => Starting(g) /\ job'[g] = job[g]
  BY <1>5, <1>6 DEF Starting
<1>9. \A g \in Hosts : pc'[g] = "running" => g = h
  BY <1>6, <1>7
<1> QED
  BY <1>2, <1>3, <1>4, <1>5, <1>8, <1>9, HistoryLatestChanges DEF i

LEMMA ExecutorEndsHistory ==
  ASSUME HistoryInv, NEW h \in Hosts, ExecutorEnds(h, "validate")
  PROVE  HistoryInv'
<1>1. PICK e \in Endings : Update(job[h].id, e.status, e.exit, e.output)
  BY DEF ExecutorEnds
<1>2. /\ LatestIs(sessions, "running") /\ job[h].id = Latest(sessions).id
      /\ \A g \in Hosts : pc[g] = "running" => g = h
  BY DEF HistoryInv, RunnersOwnNewest, ExecutorEnds
<1>3. IndexOf(job[h].id) = Len(sessions)
  <2>1. sessions \in Seq(Session) /\ IdsAreUnique
    BY ChainIsUnique DEF HistoryInv, TypeOK
  <2>2. Len(sessions) \in DOMAIN sessions
    BY <1>2, <2>1 DEF LatestIs
  <2> QED
    BY <1>2, <2>1, <2>2, IndexOfUnique DEF Latest
<1>4. TypeOK'
  BY ExecutorEndsType DEF HistoryInv, Steps
<1>5. pc'[h] \in {"validate", "conclude"} /\ \A g \in Hosts : g # h => pc'[g] = pc[g]
  BY DEF HistoryInv, TypeOK, ExecutorEnds
<1>6. \A g \in Hosts : g # h => job'[g] = job[g]
  BY DEF HistoryInv, TypeOK, ExecutorEnds
<1>7. \A g \in Hosts : Starting(g)' => Starting(g) /\ job'[g] = job[g]
  BY <1>5, <1>6 DEF Starting
<1>8. \A g \in Hosts : pc'[g] # "running"
  BY <1>2, <1>5
<1> QED
  BY <1>1, <1>2, <1>3, <1>4, <1>7, <1>8, HistoryLatestChanges

LEMMA InitHistory == Init => HistoryInv
<1> SUFFICES ASSUME Init PROVE HistoryInv
  OBVIOUS
<1>1. sessions = <<>> /\ DOMAIN sessions = {} /\ \A h \in Hosts : pc[h] = "idle"
  BY DEF Init
<1> QED
  BY <1>1, InitTypeOK DEF HistoryInv, ChainInOrder, EachEndedAsTold,
       RetriesNameTheFailed, StartsAreCurrent, Starting, RunnersOwnNewest

LEMMA ConstructionStep ==
  ASSUME HistoryInv, Account, ConstructionNext
  PROVE  HistoryInv' /\ Account'
<1>1. ASSUME NEW h \in Hosts, ConstructionChoose(h) PROVE HistoryInv' /\ Account'
  BY <1>1, ChooseHistory, ConstructionChoice, ReturnAccount, BeginAccount
<1>2. ASSUME NEW h \in Hosts, GuardedStep(h) PROVE HistoryInv' /\ Account'
  <2>1. Account'
    BY <1>2, GuardedStepAccount
  <2>2. HistoryInv'
    BY <1>2, RecordAttemptHistory, TakeBaselineHistory, CoreRefusesHistory,
       CoreCreatesHistory, CoreRunsHistory, ExecutorEndsHistory, ValidateHistory
       DEF GuardedStep, CoreStep
  <2> QED
    BY <2>1, <2>2
<1>3. ASSUME NEW h \in Hosts, ConstructionConclude(h) PROVE HistoryInv' /\ Account'
  BY <1>3, ConcludeHistory, ConstructionConcludes, ConcludesAccount
<1>4. ASSUME NEW h \in Hosts, Crash(h) PROVE HistoryInv' /\ Account'
  BY <1>4, CrashHistory, CrashAccount
<1>5. CASE OperatorEdit
  BY <1>5, OperatorEditHistory, OperatorEditAccount
<1> QED
  BY <1>1, <1>2, <1>3, <1>4, <1>5 DEF ConstructionNext

(* What HistoryInv says of the sessions a reader sees.                     *)
LEMMA HistoryGives ==
  ASSUME HistoryInv
  PROVE  OneLiveSession /\ RetryChain /\ IdTellsPredecessor
<1>1. sessions \in Seq(Session)
  BY DEF HistoryInv, TypeOK
<1>2. \A i \in DOMAIN sessions :
        /\ i \in Nat \ {0}
        /\ sessions[i].id.kind \in {"retry", "rerun"} => i > 1
  <2> SUFFICES ASSUME NEW i \in DOMAIN sessions, i = 1
               PROVE  sessions[i].id.kind = "base"
    BY <1>1
  <2> QED
    BY ChainIdType DEF HistoryInv, ChainInOrder
<1>3. OneLiveSession
  BY LiveIsLatest DEF OneLiveSession
<1>4. IdTellsPredecessor
  BY <1>2 DEF HistoryInv, EachEndedAsTold, IdTellsPredecessor
<1>5. RetryChain
  BY <1>2 DEF HistoryInv, EachEndedAsTold, RetriesNameTheFailed, RetryChain
<1> QED
  BY <1>3, <1>4, <1>5

-----------------------------------------------------------------------------
(* The wizard: ids.                                                        *)

LEMMA GuidedIdType ==
  \A n \in Nat \ {0} : GuidedId(n) \in Ids /\ GuidedId(n).n = n
BY DEF GuidedId, BaseId, Id, Ids, Kinds

LEMMA GuidedUsed ==
  ASSUME sessions \in Seq(Session), GuidedIds, NEW n \in Nat \ {0}
  PROVE  GuidedId(n) \in UsedIds(sessions) <=> n <= Len(sessions)
<1>1. ASSUME n <= Len(sessions) PROVE GuidedId(n) \in UsedIds(sessions)
  BY <1>1 DEF UsedIds, GuidedIds
<1>2. ASSUME GuidedId(n) \in UsedIds(sessions) PROVE n <= Len(sessions)
  <2>1. PICK i \in DOMAIN sessions : GuidedId(n) = GuidedId(i)
    BY <1>2 DEF UsedIds, GuidedIds
  <2>2. i \in Nat \ {0} /\ i <= Len(sessions)
    OBVIOUS
  <2> QED
    BY <2>1, <2>2, GuidedIdType
<1> QED
  BY <1>1, <1>2

(* The first id not in use is one past the newest session's.               *)
LEMMA FreeIdIsNext ==
  ASSUME sessions \in Seq(Session), GuidedIds
  PROVE  FreeId(sessions) = GuidedId(Len(sessions) + 1)
<1> DEFINE L     == Len(sessions)
           Tried == {BaseId} \cup {Id("next", n) : n \in 2 .. L + 1}
           Free  == {i \in Tried : i \notin UsedIds(sessions)}
<1>1. L \in Nat
  OBVIOUS
<1> HIDE DEF L
<1>2. Tried = {GuidedId(n) : n \in 1 .. L + 1}
  <2>1. ASSUME NEW i \in Tried PROVE \E n \in 1 .. L + 1 : i = GuidedId(n)
    <3>1. CASE i = BaseId
      <4>1. 1 \in 1 .. L + 1 /\ i = GuidedId(1)
        BY <1>1, <3>1 DEF GuidedId
      <4> QED
        BY <4>1
    <3>2. CASE i \in {Id("next", n) : n \in 2 .. L + 1}
      <4>1. PICK n \in 2 .. L + 1 : i = Id("next", n)
        BY <3>2
      <4>2. n \in 1 .. L + 1 /\ n # 1
        BY <1>1
      <4> QED
        BY <4>1, <4>2 DEF GuidedId
    <3> QED
      BY <3>1, <3>2
  <2>2. ASSUME NEW n \in 1 .. L + 1 PROVE GuidedId(n) \in Tried
    <3>1. n # 1 => n \in 2 .. L + 1
      BY <1>1
    <3> QED
      BY <3>1 DEF GuidedId
  <2> QED
    BY <2>1, <2>2
<1>3. \A n \in 1 .. L + 1 : GuidedId(n) \in Free <=> n = L + 1
  <2> SUFFICES ASSUME NEW n \in 1 .. L + 1
               PROVE  GuidedId(n) \in Free <=> n = L + 1
    OBVIOUS
  <2>1. n \in Nat \ {0} /\ (~(n <= L) <=> n = L + 1)
    BY <1>1
  <2>2. GuidedId(n) \in UsedIds(sessions) <=> n <= L
    BY <2>1, GuidedUsed DEF L
  <2>3. GuidedId(n) \in Tried
    BY <1>2
  <2> HIDE DEF Tried
  <2> QED
    BY <2>1, <2>2, <2>3
<1>4. Free = {GuidedId(L + 1)}
  <2>1. L + 1 \in 1 .. L + 1
    BY <1>1
  <2>2. \A i \in Free : \E n \in 1 .. L + 1 : i = GuidedId(n)
    BY <1>2
  <2> HIDE DEF Free
  <2> QED
    BY <1>3, <2>1, <2>2
<1>5. FreeId(sessions) = CHOOSE i \in Free : \A j \in Free : i.n <= j.n
  BY DEF FreeId, L
<1>6. GuidedId(L + 1).n <= GuidedId(L + 1).n
  BY <1>1, GuidedIdType
<1> HIDE DEF Free
<1>7. (CHOOSE i \in Free : \A j \in Free : i.n <= j.n) = GuidedId(L + 1)
  BY <1>4, <1>6
<1> QED
  BY <1>5, <1>7 DEF L

-----------------------------------------------------------------------------
(* The wizard: its steps.                                                  *)

(* A step that leaves the sessions' ids alone, in which no host changes    *)
(* the id it starts with but to the next one.                              *)
LEMMA GuidedSameIds ==
  ASSUME GuidedInv, GuidedTypeOK',
         DOMAIN sessions' = DOMAIN sessions,
         \A i \in DOMAIN sessions : sessions'[i].id = sessions[i].id,
         \A g \in Hosts : Starting(g)' =>
            \/ job'[g].id = GuidedId(Len(sessions) + 1)
            \/ Starting(g) /\ job'[g].id = job[g].id
  PROVE  GuidedInv'
<1>1. /\ sessions \in Seq(Session) /\ sessions' \in Seq(Session)
      /\ Len(sessions') = Len(sessions) /\ Len(sessions) \in Nat
  BY DEF GuidedInv, GuidedTypeOK, TypeOK
<1>2. GuidedIds'
  BY DEF GuidedInv, GuidedIds
<1>3. GuidedStarts'
  <2> SUFFICES ASSUME NEW g \in Hosts, Starting(g)'
               PROVE  \E n \in 1 .. Len(sessions) + 1 : job'[g].id = GuidedId(n)
    BY <1>1 DEF GuidedStarts, Starting
  <2>1. CASE job'[g].id = GuidedId(Len(sessions) + 1)
    BY <1>1, <2>1
  <2>2. CASE Starting(g) /\ job'[g].id = job[g].id
    BY <2>2 DEF GuidedInv, GuidedStarts, Starting
  <2> QED
    BY <2>1, <2>2
<1> QED
  BY <1>2, <1>3 DEF GuidedInv

(* A host past starting goes on, and no session is created.                *)
LEMMA GuidedMovesOn ==
  ASSUME GuidedInv, GuidedTypeOK', NEW h \in Hosts,
         NEW to \in {"idle", "running", "conclude"}, Moves(h, to),
         \A g \in Hosts : g # h => job'[g] = job[g],
         DOMAIN sessions' = DOMAIN sessions,
         \A i \in DOMAIN sessions : sessions'[i].id = sessions[i].id
  PROVE  GuidedInv'
<1>1. pc'[h] = to /\ \A g \in Hosts : g # h => pc'[g] = pc[g]
  BY MovesOne DEF GuidedInv, GuidedTypeOK
<1> QED
  BY <1>1, GuidedSameIds DEF Starting

LEMMA PrepareGuided ==
  ASSUME GuidedInv, NEW h \in Hosts, Prepare(h)
  PROVE  /\ GuidedInv'
         /\ \E j \in Job : Begin(h, j)
<1> DEFINE j == StartJob(FreeId(sessions), NoId, 600)
<1>1. sessions \in Seq(Session) /\ Len(sessions) + 1 \in Nat \ {0}
  BY DEF GuidedInv, GuidedTypeOK, TypeOK
<1>2. FreeId(sessions) = GuidedId(Len(sessions) + 1)
  BY <1>1, FreeIdIsNext DEF GuidedInv
<1>3. FreeId(sessions) \in Ids
  BY <1>1, <1>2, GuidedIdType
<1>4. j \in Job
  BY <1>3, JobsType, ConstantsType
<1>5. j.id = FreeId(sessions)
  BY DEF StartJob, NoJob
<1>6. Begin(h, j)
  BY DEF Prepare
<1> HIDE DEF j
<1>7. TypeOK'
  BY <1>4, <1>6, BeginType DEF GuidedInv, GuidedTypeOK
<1>8. context' \in [Hosts -> Contexts]
  BY DEF Prepare, GuidedInv, GuidedTypeOK, ContextOutcomes, Contexts
<1>9. sessions' = sessions /\ Moves(h, "attempt")
  BY <1>6 DEF Begin, storeVars, Moves
<1>10. pc'[h] = "attempt" /\ \A g \in Hosts : g # h => pc'[g] = pc[g]
  BY <1>9, MovesOne DEF GuidedInv, GuidedTypeOK
<1>11. job'[h] = j /\ \A g \in Hosts : g # h => job'[g] = job[g]
  BY <1>6 DEF Begin, GuidedInv, GuidedTypeOK, TypeOK
<1>12. GuidedInv'
  BY <1>2, <1>5, <1>7, <1>8, <1>9, <1>10, <1>11, GuidedSameIds DEF Starting, GuidedTypeOK
<1> QED
  BY <1>4, <1>6, <1>12

(* Core's unique ids decide the race: the id created is the next one.      *)
LEMMA CoreCreatesGuided ==
  ASSUME GuidedInv, NEW h \in Hosts, CoreCreates(h), context' = context
  PROVE  GuidedInv'
<1> DEFINE L == Len(sessions)
           s == [id |-> job[h].id, status |-> "prepared", exit |-> NoExit,
                 output |-> "none", retryOf |-> job[h].retryOf,
                 timeout |-> job[h].timeout]
<1>1. TypeOK' /\ sessions \in Seq(Session) /\ L \in Nat
  BY CoreStepType DEF GuidedInv, GuidedTypeOK, TypeOK, CoreStep
<1>2. sessions' = Append(sessions, s) /\ s.id = job[h].id
  BY DEF CoreCreates
<1> HIDE DEF s
<1>3. /\ Len(sessions') = L + 1 /\ DOMAIN sessions' = 1 .. L + 1
      /\ \A i \in 1 .. L : sessions'[i] = sessions[i]
      /\ sessions'[L + 1] = s /\ DOMAIN sessions = 1 .. L
  BY <1>1, <1>2
<1>4. PICK n \in 1 .. L + 1 : job[h].id = GuidedId(n)
  BY DEF GuidedInv, GuidedStarts, CoreCreates
<1>5. n = L + 1
  <2>1. ~(n <= L)
    BY <1>1, <1>4, GuidedUsed DEF GuidedInv, CoreCreates
  <2> QED
    BY <1>1, <2>1
<1>6. GuidedIds'
  BY <1>1, <1>2, <1>3, <1>4, <1>5 DEF GuidedInv, GuidedIds
<1>7. pc'[h] = "created" /\ job' = job /\ \A g \in Hosts : g # h => pc'[g] = pc[g]
  BY DEF CoreCreates, GuidedInv, GuidedTypeOK, TypeOK
<1>8. GuidedStarts'
  <2> SUFFICES ASSUME NEW g \in Hosts, Starting(g)'
               PROVE  \E m \in 1 .. (L + 1) + 1 : job[g].id = GuidedId(m)
    BY <1>3, <1>7 DEF GuidedStarts, Starting
  <2>1. PICK m \in 1 .. L + 1 : job[g].id = GuidedId(m)
    BY <1>7 DEF GuidedInv, GuidedStarts, Starting
  <2>2. m \in 1 .. (L + 1) + 1
    BY <1>1
  <2> QED
    BY <2>1, <2>2
<1> QED
  BY <1>1, <1>6, <1>8 DEF GuidedInv, GuidedTypeOK

LEMMA StepGuided ==
  ASSUME GuidedInv, NEW h \in Hosts, Step(h)
  PROVE  GuidedInv'
<1>1. GuidedTypeOK /\ context' = context /\ UnguardedStep(h) /\ GuidedTypeOK'
  BY UnguardedStepType DEF GuidedInv, GuidedTypeOK, Step
<1>2. CASE RecordAttempt(h, "core")
  <2>1. sessions' = sessions /\ job' = job /\ Moves(h, "core") /\ pc[h] = "attempt"
    BY <1>2 DEF RecordAttempt, Moves
  <2>2. pc'[h] = "core" /\ \A g \in Hosts : g # h => pc'[g] = pc[g]
    BY <1>1, <2>1, MovesOne DEF GuidedTypeOK
  <2> QED
    BY <1>1, <2>1, <2>2, GuidedSameIds DEF Starting
<1>3. CASE CoreRefuses(h)
  <2>1. sessions' = sessions /\ Moves(h, "conclude")
    BY <1>3 DEF CoreRefuses, storeVars, Moves
  <2>2. \A g \in Hosts : g # h => job'[g] = job[g]
    BY <1>1, <1>3 DEF GuidedTypeOK, TypeOK, CoreRefuses
  <2> QED
    BY <1>1, <2>1, <2>2, GuidedMovesOn
<1>4. CASE CoreCreates(h)
  BY <1>1, <1>4, CoreCreatesGuided
<1>5. CASE CoreRuns(h)
  <2>1. /\ Update(job[h].id, "running", NoExit, "none")
        /\ Moves(h, "running") /\ job' = job
    BY <1>5 DEF CoreRuns, Moves
  <2>2. /\ DOMAIN sessions' = DOMAIN sessions
        /\ \A i \in DOMAIN sessions : sessions'[i].id = sessions[i].id
    BY <1>1, <2>1, UpdateKeeps DEF GuidedTypeOK, TypeOK
  <2> QED
    BY <1>1, <2>1, <2>2, GuidedMovesOn
<1>6. CASE ExecutorEnds(h, "conclude")
  <2>1. PICK e \in Endings : Update(job[h].id, e.status, e.exit, e.output)
    BY <1>6 DEF ExecutorEnds
  <2>2. /\ DOMAIN sessions' = DOMAIN sessions
        /\ \A i \in DOMAIN sessions : sessions'[i].id = sessions[i].id
    BY <1>1, <2>1, UpdateKeeps DEF GuidedTypeOK, TypeOK
  <2>3. Moves(h, "conclude")
    BY <1>6 DEF ExecutorEnds, Moves
  <2>4. \A g \in Hosts : g # h => job'[g] = job[g]
    BY <1>1, <1>6 DEF GuidedTypeOK, TypeOK, ExecutorEnds
  <2> QED
    BY <1>1, <2>2, <2>3, <2>4, GuidedMovesOn
<1> QED
  BY <1>1, <1>2, <1>3, <1>4, <1>5, <1>6 DEF UnguardedStep, CoreStep

LEMMA GuidedConcludes ==
  ASSUME NEW h \in Hosts, GuidedConclude(h)
  PROVE  Concludes(h)
BY DEF GuidedConclude, GuidedRaised, GuidedReturned, GuidedEscapes, Concludes, Results

LEMMA GuidedEndGuided ==
  ASSUME GuidedInv, NEW h \in Hosts, GuidedConclude(h) \/ Die(h)
  PROVE  GuidedInv'
<1>1. GuidedTypeOK /\ context' = [context EXCEPT ![h] = "none"]
  BY DEF GuidedInv, GuidedConclude, Die
<1>2. context' \in [Hosts -> Contexts]
  BY <1>1 DEF GuidedTypeOK, Contexts
<1>3. CASE GuidedConclude(h)
  <2>1. /\ TypeOK' /\ sessions' = sessions /\ Moves(h, "idle")
        /\ \A g \in Hosts : g # h => job'[g] = job[g]
    BY <1>1, <1>3, GuidedConcludes, ConcludesLeaves DEF GuidedTypeOK, Moves
  <2> QED
    BY <1>2, <2>1, GuidedMovesOn DEF GuidedTypeOK
<1>4. CASE Die(h)
  <2>1. TypeOK' /\ sessions' = sessions /\ Moves(h, "idle")
    BY <1>1, <1>4, CrashType DEF GuidedTypeOK, Die, Crash, storeVars, Moves
  <2>2. \A g \in Hosts : g # h => job'[g] = job[g]
    BY <1>1, <1>4 DEF GuidedTypeOK, TypeOK, Die, Crash
  <2> QED
    BY <1>2, <2>1, <2>2, GuidedMovesOn DEF GuidedTypeOK
<1> QED
  BY <1>3, <1>4

(* A step that changes none of the variables the ids are about.            *)
LEMMA GuidedUntouched ==
  ASSUME GuidedInv, TypeOK', UNCHANGED <<sessions, pc, job, context>>
  PROVE  GuidedInv'
BY GuidedSameIds DEF GuidedInv, GuidedTypeOK, Starting

LEMMA GuidedStepKeeps ==
  ASSUME GuidedInv, Account, GuidedNext
  PROVE  GuidedInv' /\ Account'
<1>1. ASSUME NEW h \in Hosts, Refuse(h) PROVE GuidedInv' /\ Account'
  <2>1. Return(h, "error") /\ context' = context /\ "error" \in Results
    BY <1>1 DEF Refuse, Results
  <2>2. Account' /\ TypeOK'
    BY <2>1, ReturnAccount DEF Account, CoverInv
  <2> QED
    BY <2>1, <2>2, GuidedUntouched DEF Return, storeVars
<1>2. ASSUME NEW h \in Hosts, Prepare(h) PROVE GuidedInv' /\ Account'
  BY <1>2, PrepareGuided, BeginAccount
<1>3. ASSUME NEW h \in Hosts, Step(h) PROVE GuidedInv' /\ Account'
  BY <1>3, StepGuided, UnguardedStepAccount DEF Step
<1>4. ASSUME NEW h \in Hosts, GuidedConclude(h) PROVE GuidedInv' /\ Account'
  BY <1>4, GuidedEndGuided, GuidedConcludes, ConcludesAccount
<1>5. ASSUME NEW h \in Hosts, Die(h) PROVE GuidedInv' /\ Account'
  BY <1>5, GuidedEndGuided, CrashAccount DEF Die
<1>6. CASE Edit
  <2>1. Account' /\ TypeOK'
    BY <1>6, OperatorEditAccount DEF Edit, Account, CoverInv
  <2> QED
    BY <1>6, <2>1, GuidedUntouched DEF Edit, OperatorEdit, hostVars
<1> QED
  BY <1>1, <1>2, <1>3, <1>4, <1>5, <1>6 DEF GuidedNext

-----------------------------------------------------------------------------
(* The invariant and what follows from it.                                 *)

LaunchersInv ==
  /\ LaunchersTypeOK
  /\ Account
  /\ launcher = "construction" => HistoryInv
  /\ launcher = "guided" => GuidedInv

LEMMA InitLaunchersInv == LaunchersInit => LaunchersInv
<1> SUFFICES ASSUME LaunchersInit PROVE LaunchersInv
  OBVIOUS
<1>1. Init /\ context = [h \in Hosts |-> "none"] /\ launcher \in {"construction", "guided"}
  BY DEF LaunchersInit, GuidedInit
<1>2. TypeOK /\ Account /\ HistoryInv
  BY <1>1, InitTypeOK, InitAccount, InitHistory
<1>3. context \in [Hosts -> Contexts]
  BY <1>1 DEF Contexts
<1>4. GuidedIds /\ GuidedStarts
  BY <1>1 DEF Init, GuidedIds, GuidedStarts
<1> QED
  BY <1>1, <1>2, <1>3, <1>4 DEF LaunchersInv, LaunchersTypeOK, GuidedTypeOK, GuidedInv

LEMMA NextLaunchersInv ==
  LaunchersInv /\ [LaunchersNext]_launcherVars => LaunchersInv'
<1> SUFFICES ASSUME LaunchersInv, [LaunchersNext]_launcherVars PROVE LaunchersInv'
  OBVIOUS
<1>1. /\ launcher' = launcher /\ launcher \in {"construction", "guided"}
      /\ GuidedTypeOK /\ Account
  BY DEF LaunchersInv, LaunchersTypeOK, LaunchersNext, launcherVars
<1>2. CASE launcher = "construction" /\ ConstructionNext /\ context' = context
  <2>1. HistoryInv' /\ Account'
    BY <1>2, ConstructionStep DEF LaunchersInv
  <2> QED
    BY <1>1, <1>2, <2>1
       DEF LaunchersInv, LaunchersTypeOK, GuidedTypeOK, Account, CoverInv
<1>3. CASE launcher = "guided" /\ GuidedNext
  <2>1. GuidedInv' /\ Account'
    BY <1>3, GuidedStepKeeps DEF LaunchersInv
  <2> QED
    BY <1>1, <1>3, <2>1 DEF LaunchersInv, LaunchersTypeOK, GuidedInv
<1>4. CASE UNCHANGED launcherVars
  <2>1. UNCHANGED vars /\ context' = context /\ UNCHANGED <<sessions, pc, job, context>>
    BY <1>4 DEF launcherVars, guidedVars, vars, storeVars, hostVars
  <2>2. Account' /\ TypeOK'
    BY <1>1, <2>1, StutterAccount DEF Account, CoverInv
  <2>3. launcher = "construction" => HistoryInv'
    BY <2>1, StutterHistory DEF LaunchersInv
  <2>4. launcher = "guided" => GuidedInv'
    BY <2>1, <2>2, GuidedUntouched DEF LaunchersInv
  <2> QED
    BY <1>1, <2>1, <2>2, <2>3, <2>4 DEF LaunchersInv, LaunchersTypeOK, GuidedTypeOK
<1> QED
  BY <1>2, <1>3, <1>4 DEF LaunchersNext

(* LaunchersInv is an invariant of either launcher.                        *)
THEOREM LaunchersInvariance == LaunchersSpec => []LaunchersInv
BY InitLaunchersInv, NextLaunchersInv, PTL DEF LaunchersSpec

(* No attempt has two outcomes; those without one are in progress, of a    *)
(* dead host or of a launch that ended by an exit of Escape; every run has *)
(* an attempt.  This holds for either launcher and any lost ledger write.  *)
THEOREM LaunchesAreAccountedHolds == LaunchersSpec => []LaunchesAreAccounted
<1>1. LaunchersInv => LaunchesAreAccounted
  BY AccountGives DEF LaunchersInv, LaunchesAreAccounted
<1> QED
  BY <1>1, LaunchersInvariance, PTL

(* Construction's sessions: one live session, true retries, true ids.      *)
THEOREM ConstructionHistoryHolds == LaunchersSpec => []ConstructionHistory
<1>1. LaunchersInv => ConstructionHistory
  BY HistoryGives DEF LaunchersInv, ConstructionHistory
<1> QED
  BY <1>1, LaunchersInvariance, PTL

(* The wizard's sessions: ids in order and without a gap.                  *)
THEOREM GuidedHistoryHolds == LaunchersSpec => []GuidedHistory
<1>1. GuidedInv => GuidedIdsInOrder
  <2> SUFFICES ASSUME GuidedInv, NEW i \in DOMAIN sessions
               PROVE  sessions[i].id.n = i
    BY DEF GuidedIdsInOrder
  <2>1. i \in Nat \ {0} /\ sessions[i].id = GuidedId(i)
    BY DEF GuidedInv, GuidedTypeOK, TypeOK, GuidedIds
  <2> QED
    BY <2>1, GuidedIdType
<1>2. LaunchersInv => GuidedHistory
  BY <1>1 DEF LaunchersInv, GuidedHistory
<1> QED
  BY <1>2, LaunchersInvariance, PTL

=============================================================================
