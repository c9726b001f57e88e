---------------------------- MODULE SessionStore ----------------------------
(***************************************************************************)
(* What the executor launchers of Agora Flow share: the durable sessions   *)
(* Agora Core keeps for one Work, the economics ledger the launchers       *)
(* append to (their own events; the runner process adds others, see        *)
(* RuntimeEnvelope), the governed-state guard around a run, and the steps  *)
(* of one launch from the recorded attempt to the validated end of the     *)
(* executor.                                                               *)
(* InceptionLaunch and ConstructionLaunch add how a launcher chooses the   *)
(* session and how it concludes.                                           *)
(*                                                                         *)
(* Several hosts (`aisdlc` processes) may work on the same Work at once;   *)
(* nothing but the file system connects them, so every read of the store   *)
(* and every write to it is a step of its own.  Agora Core is a library    *)
(* outside the repository: its part is marked "Core" below and is modelled *)
(* from what the launchers rely on (a session id is created once, only a   *)
(* prepared session is launched, a failed run raises).                     *)
(***************************************************************************)
EXTENDS Integers, Sequences, FiniteSets

CONSTANTS
  Hosts,          \* `aisdlc` processes that launch executors for the Work
  Issues,         \* keys (code, path) of Core validation errors
  MaxLaunches,    \* bound: launches that record an attempt
  MaxLost,        \* bound: ledger writes that fail with OSError
  RunOutputs,     \* what a completed run can leave as its RESULT.md
  OperatorEdits   \* whether people edit governed state meanwhile

ASSUME HostsAssumption    == IsFiniteSet(Hosts)
ASSUME LaunchesAssumption == MaxLaunches \in Nat
ASSUME LostAssumption     == MaxLost \in Nat
ASSUME OutputsAssumption  == RunOutputs \subseteq {"missing", "empty", "invalid", "valid"}
ASSUME EditsAssumption    == OperatorEdits \in BOOLEAN

VARIABLES
  sessions,    \* the sessions of the Work, in (created_at, id) order
  ledger,      \* EVENTS.jsonl: how many events of each kind it holds
  lost,        \* how many events of each kind were swallowed by an OSError
  issues,      \* the validation errors of the governed state
  introduced,  \* those of them an executor run introduced
  pc, job,     \* where each host is in its launch, and its local variables
  result,      \* what each host's last launch returned or raised
  launches,    \* launches begun so far
  abandoned,   \* launches whose host died after recording its attempt
  unrecorded   \* launches that raised before they could record an outcome

storeVars == <<sessions, ledger, lost, issues, introduced>>
hostVars  == <<pc, job, result, launches, abandoned, unrecorded>>
vars      == <<storeVars, hostVars>>

-----------------------------------------------------------------------------
(* Session records and the ids of the Work's sessions.                     *)

NoExit   == -1
TimedOut == 124
Statuses == {"prepared", "running", "completed", "failed"}
Outputs  == {"none", "missing", "empty", "invalid", "valid"}
Kinds    == {"none", "base", "retry", "rerun", "next"}

Id(kind, n) == [kind |-> kind, n |-> n]
NoId   == Id("none", 0)
BaseId == Id("base", 1)
Ids    == [kind : Kinds, n : Nat]

Session == [id : Ids, status : Statuses, exit : {NoExit, 0, 1, TimedOut},
            output : Outputs, retryOf : Ids, timeout : Nat]

UsedIds(ss) == {ss[i].id : i \in DOMAIN ss}

Latest(ss) == ss[Len(ss)]

(* Mutant: a running session counts as failed. *)
LatestIsStale(ss, status) ==
  ss # <<>> /\ \/ Latest(ss).status = status
               \/ status = "failed" /\ Latest(ss).status = "running"

LatestIs(ss, status) == ss # <<>> /\ Latest(ss).status = status

IndexOf(id) == CHOOSE i \in DOMAIN sessions : sessions[i].id = id

(* Core rewrites SESSION.md as the session proceeds.                       *)
Update(id, status, exit, output) ==
  sessions' = [sessions EXCEPT ![IndexOf(id)] =
                 [@ EXCEPT !.status = status, !.exit = exit, !.output = output]]

(* An executor run can end in these ways: completed with each kind of      *)
(* RESULT.md, or failed with and without an exit code.                     *)
Endings ==
  [status : {"completed"}, exit : {0}, output : RunOutputs]
    \cup [status : {"failed"}, exit : {NoExit, 1, TimedOut}, output : {"none"}]

-----------------------------------------------------------------------------
(* The launch a host is in.                                                *)

Events   == {"attempt", "success", "failure"}
Results  == {"none", "reused", "success", "nonfinal", "recoverable", "error"}
Verdicts == {"none", "returned", "raised", "regression"}
Steps    == {"idle", "attempt", "baseline", "core", "created",
             "running", "validate", "conclude"}

Job == [mode : {"none", "start", "launch"}, id : Ids, retryOf : Ids,
        timeout : Nat, trusted : BOOLEAN, before : SUBSET Issues,
        verdict : Verdicts]

NoJob == [mode |-> "none", id |-> NoId, retryOf |-> NoId, timeout |-> 0,
          trusted |-> FALSE, before |-> {}, verdict |-> "none"]

(* Mutant: every retry is a retry of the base session. *)
StartJobOfBase(id, retryOf, timeout) ==
  [NoJob EXCEPT !.mode = "start", !.id = id, !.timeout = timeout,
                !.retryOf = IF retryOf = NoId THEN NoId ELSE BaseId]

StartJob(id, retryOf, timeout) ==
  [NoJob EXCEPT !.mode = "start", !.id = id, !.retryOf = retryOf,
                !.timeout = timeout]

LaunchJob(id) == [NoJob EXCEPT !.mode = "launch", !.id = id]

TypeOK ==
  /\ sessions \in Seq(Session)
  /\ ledger \in [Events -> Nat]
  /\ lost \in [Events -> Nat]
  /\ issues \in SUBSET Issues
  /\ introduced \in SUBSET Issues
  /\ pc \in [Hosts -> Steps]
  /\ job \in [Hosts -> Job]
  /\ result \in [Hosts -> Results]
  /\ launches \in Nat
  /\ abandoned \in Nat
  /\ unrecorded \in Nat

Init ==
  /\ sessions = <<>>
  /\ ledger = [e \in Events |-> 0]
  /\ lost = [e \in Events |-> 0]
  /\ issues \in SUBSET Issues
  /\ introduced = {}
  /\ pc = [h \in Hosts |-> "idle"]
  /\ job = [h \in Hosts |-> NoJob]
  /\ result = [h \in Hosts |-> "none"]
  /\ launches = 0
  /\ abandoned = 0
  /\ unrecorded = 0

-----------------------------------------------------------------------------
(* Steps of a launch.                                                      *)

(* The launch ends before an attempt is recorded.                          *)
Return(h, r) ==
  /\ pc[h] = "idle"
  /\ result' = [result EXCEPT ![h] = r]
  /\ UNCHANGED <<storeVars, pc, job, launches, abandoned, unrecorded>>

(* The launcher has chosen the session it will start or launch.            *)
Begin(h, j) ==
  /\ pc[h] = "idle"
  /\ launches < MaxLaunches
  /\ launches' = launches + 1
  /\ pc' = [pc EXCEPT ![h] = "attempt"]
  /\ job' = [job EXCEPT ![h] = j]
  /\ result' = [result EXCEPT ![h] = "none"]
  /\ UNCHANGED <<storeVars, abandoned, unrecorded>>

(* record_executor_event: a telemetry write that fails is swallowed.       *)
RecordEvent(e) ==
  \/ /\ ledger' = [ledger EXCEPT ![e] = @ + 1]
     /\ UNCHANGED lost
  \/ /\ lost["attempt"] + lost["success"] + lost["failure"] < MaxLost
     /\ lost' = [lost EXCEPT ![e] = @ + 1]
     /\ UNCHANGED ledger

(* Mutant: the attempt is not recorded. *)
SkipAttempt(h, next) ==
  /\ pc[h] = "attempt"
  /\ pc' = [pc EXCEPT ![h] = next]
  /\ UNCHANGED <<storeVars, job, result, launches, abandoned, unrecorded>>

(* The attempt is recorded before anything runs; "next" is the step after. *)
RecordAttempt(h, next) ==
  /\ pc[h] = "attempt"
  /\ RecordEvent("attempt")
  /\ pc' = [pc EXCEPT ![h] = next]
  /\ UNCHANGED <<sessions, issues, introduced, job, result, launches, abandoned, unrecorded>>

(* guard_governed_state before the run; validation itself may fail.        *)
TakeBaseline(h) ==
  /\ pc[h] = "baseline"
  /\ \E trusted \in BOOLEAN :
       job' = [job EXCEPT ![h].trusted = trusted,
                          ![h].before = IF trusted THEN issues ELSE {}]
  /\ pc' = [pc EXCEPT ![h] = "core"]
  /\ UNCHANGED <<storeVars, result, launches, abandoned, unrecorded>>

(* Core: start_session and launch_session raise without running anything.  *)
CoreRefuses(h) ==
  /\ pc[h] \in {"core", "created"}
  /\ pc' = [pc EXCEPT ![h] = "conclude"]
  /\ job' = [job EXCEPT ![h].verdict = "raised"]
  /\ UNCHANGED <<storeVars, result, launches, abandoned, unrecorded>>

(* Core: start_session writes SESSION.md for a new id, and only a new one. *)
CoreCreates(h) ==
  /\ pc[h] = "core"
  /\ job[h].mode = "start"
  /\ job[h].id \notin UsedIds(sessions)
  /\ sessions' = Append(sessions,
        [id |-> job[h].id, status |-> "prepared", exit |-> NoExit,
         output |-> "none", retryOf |-> job[h].retryOf,
         timeout |-> job[h].timeout])
  /\ pc' = [pc EXCEPT ![h] = "created"]
  /\ UNCHANGED <<ledger, lost, issues, introduced, job, result, launches, abandoned, unrecorded>>

(* Core: only a prepared session is launched.                              *)
CoreRuns(h) ==
  /\ pc[h] = "created" \/ (pc[h] = "core" /\ job[h].mode = "launch")
  /\ job[h].id \in UsedIds(sessions)
  /\ sessions[IndexOf(job[h].id)].status = "prepared"
  /\ Update(job[h].id, "running", NoExit, "none")
  /\ pc' = [pc EXCEPT ![h] = "running"]
  /\ UNCHANGED <<ledger, lost, issues, introduced, job, result, launches, abandoned, unrecorded>>

(* The executor ends, possibly leaving governed state worse.  Core returns *)
(* the session's record ("next" is the step after), or raises for a failed *)
(* run; when it raises, the guard's second validation does not happen.     *)
ExecutorEnds(h, next) ==
  /\ pc[h] = "running"
  /\ \E e \in Endings, broke \in SUBSET Issues :
       /\ Update(job[h].id, e.status, e.exit, e.output)
       /\ issues' = issues \cup broke
       /\ introduced' = introduced \cup (broke \ issues)
       /\ \/ /\ pc' = [pc EXCEPT ![h] = next]
             /\ job' = [job EXCEPT ![h].verdict = "returned"]
          \/ /\ e.status = "failed"
             /\ pc' = [pc EXCEPT ![h] = "conclude"]
             /\ job' = [job EXCEPT ![h].verdict = "raised"]
  /\ UNCHANGED <<ledger, lost, result, launches, abandoned, unrecorded>>

(* guard_governed_state after the run: without a baseline nothing blocks,  *)
(* a validation that fails now or a new error is a regression.             *)
Regressed(h, after, available) ==
  job[h].trusted /\ (~available \/ after \ job[h].before # {})

Validate(h) ==
  /\ pc[h] = "validate"
  /\ \E available \in BOOLEAN :
       job' = [job EXCEPT ![h].verdict =
                 IF Regressed(h, issues, available) THEN "regression" ELSE @]
  /\ pc' = [pc EXCEPT ![h] = "conclude"]
  /\ UNCHANGED <<storeVars, result, launches, abandoned, unrecorded>>

(* Mutant: the outcome is not recorded. *)
FinishSilently(h, event, r) ==
  /\ pc[h] = "conclude"
  /\ result' = [result EXCEPT ![h] = r]
  /\ pc' = [pc EXCEPT ![h] = "idle"]
  /\ job' = [job EXCEPT ![h] = NoJob]
  /\ UNCHANGED <<storeVars, launches, abandoned, unrecorded>>

(* The launch records its outcome and returns or raises.                   *)
Finish(h, event, r) ==
  /\ pc[h] = "conclude"
  /\ RecordEvent(event)
  /\ result' = [result EXCEPT ![h] = r]
  /\ pc' = [pc EXCEPT ![h] = "idle"]
  /\ job' = [job EXCEPT ![h] = NoJob]
  /\ UNCHANGED <<sessions, issues, introduced, launches, abandoned, unrecorded>>

(* What the launcher reads to conclude raises outside the handlers that    *)
(* record an outcome: the caller gets that error, the ledger gets nothing. *)
(* Each launcher says on which of its exits this can happen.               *)
Escape(h) ==
  /\ pc[h] = "conclude"
  /\ unrecorded' = unrecorded + 1
  /\ result' = [result EXCEPT ![h] = "error"]
  /\ pc' = [pc EXCEPT ![h] = "idle"]
  /\ job' = [job EXCEPT ![h] = NoJob]
  /\ UNCHANGED <<storeVars, launches, abandoned>>

(* Mutant: the result of a dead host is one no caller knows. *)
CrashVisibly(h) ==
  /\ pc[h] # "idle"
  /\ abandoned' = IF pc[h] = "attempt" THEN abandoned ELSE abandoned + 1
  /\ pc' = [pc EXCEPT ![h] = "idle"]
  /\ job' = [job EXCEPT ![h] = NoJob]
  /\ result' = [result EXCEPT ![h] = "crashed"]
  /\ UNCHANGED <<storeVars, launches, unrecorded>>

(* The host process dies.  Its session stays as Core last wrote it.        *)
Crash(h) ==
  /\ pc[h] # "idle"
  /\ abandoned' = IF pc[h] = "attempt" THEN abandoned ELSE abandoned + 1
  /\ pc' = [pc EXCEPT ![h] = "idle"]
  /\ job' = [job EXCEPT ![h] = NoJob]
  /\ result' = [result EXCEPT ![h] = "none"]
  /\ UNCHANGED <<storeVars, launches, unrecorded>>

(* People edit or restore governed files at any time.                      *)
OperatorEdit ==
  /\ OperatorEdits
  /\ issues' \in SUBSET Issues
  /\ introduced' = introduced \cap issues'
  /\ UNCHANGED <<sessions, ledger, lost, hostVars>>

CoreStep(h) == CoreRefuses(h) \/ CoreCreates(h) \/ CoreRuns(h)

(* Between choosing a session and concluding: under guard_governed_state,  *)
GuardedStep(h) ==
  \/ RecordAttempt(h, "baseline")
  \/ TakeBaseline(h)
  \/ CoreStep(h)
  \/ ExecutorEnds(h, "validate")
  \/ Validate(h)

(* and without it.                                                         *)
UnguardedStep(h) ==
  \/ RecordAttempt(h, "core")
  \/ CoreStep(h)
  \/ ExecutorEnds(h, "conclude")

-----------------------------------------------------------------------------
(* Properties every launcher is checked for.                               *)

Live(s) == s.status \in {"prepared", "running"}

(* However many hosts launch at once, at most one session of the Work is   *)
(* prepared or running, and it is the newest: the launchers take no lock,  *)
(* only the "already running" check and Core's unique ids stand between    *)
(* two hosts and a duplicate executor.                                     *)
OneLiveSession ==
  \A i \in DOMAIN sessions : Live(sessions[i]) => i = Len(sessions)

(* retry_of names the session just before, and that session had failed.    *)
RetryChain ==
  \A i \in DOMAIN sessions :
    sessions[i].retryOf # NoId =>
      /\ i > 1
      /\ sessions[i].retryOf = sessions[i - 1].id
      /\ sessions[i - 1].status = "failed"

InLaunch == {h \in Hosts : pc[h] \notin {"idle", "attempt"}}

(* No attempt is given two outcomes, and one is left without an outcome    *)
(* only while its launch goes on, when its host died, or when a launch     *)
(* ended by one of the exits of Escape: those are the attempts a reader of *)
(* the ledger sees open for ever.                                          *)
LedgerBalances ==
  ledger["attempt"] + lost["attempt"] =
    ledger["success"] + lost["success"] + ledger["failure"] + lost["failure"]
      + abandoned + unrecorded + Cardinality(InLaunch)

(* The call budget counts attempts: no executor runs uncounted.            *)
RunsAreCounted ==
  Cardinality({i \in DOMAIN sessions : sessions[i].status # "prepared"})
    <= ledger["attempt"] + lost["attempt"]

(* The guard validates "before and after the run": when a run with a       *)
(* trusted baseline is over and has left new errors, a regression is       *)
(* reported.                                                               *)
RunsAreValidated ==
  \A h \in Hosts :
    /\ pc[h] = "conclude"
    /\ job[h].trusted
    /\ introduced \ job[h].before # {}
    => job[h].verdict = "regression"

=============================================================================
