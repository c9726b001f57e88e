--------------------------- MODULE InceptionLaunch ---------------------------
(***************************************************************************)
(* launch_inception_executor: launch one governed Inception session for a  *)
(* Work, reuse completed work, retry failed or unusable work.              *)
(***************************************************************************)
EXTENDS SessionStore

INCEPTION_TIMEOUT_SECONDS       == 300
INCEPTION_RETRY_TIMEOUT_SECONDS == 600

(* _result accepts only a completed session with contract-valid output; it *)
(* raises a recoverable error for empty or violating output.               *)
Usable(s) == s.status = "completed" /\ s.output = "valid"

ResultMissing(s) == s.status = "completed" /\ s.output = "missing"

(* Mutant: any completed session is replaced. *)
UnusableAlways(s) == s.status = "completed"

Unusable(s) == s.status = "completed" /\ s.output \in {"empty", "invalid"}

(* _retry_id: the first retry number from 2 that no session uses.          *)
RetryId(ss) ==
  LET Free == {n \in 2 .. Len(ss) + 2 : Id("retry", n) \notin UsedIds(ss)}
  IN  Id("retry", CHOOSE n \in Free : \A m \in Free : n <= m)

(* Mutant: only the latest session is looked at. *)
LatestTimeout(ss) ==
  IF LatestIs(ss, "failed") /\ Latest(ss).exit = TimedOut
  THEN INCEPTION_RETRY_TIMEOUT_SECONDS
  ELSE INCEPTION_TIMEOUT_SECONDS

(* One earlier timeout extends every later attempt.                        *)
LaunchTimeout(ss) ==
  IF \E i \in DOMAIN ss : ss[i].status = "failed" /\ ss[i].exit = TimedOut
  THEN INCEPTION_RETRY_TIMEOUT_SECONDS
  ELSE INCEPTION_TIMEOUT_SECONDS

-----------------------------------------------------------------------------
(* Choosing the session.                                                   *)

(* There is no decision, or the runtime plan cannot be built: recoverable  *)
(* when selection failed, not when the envelope is refused.                *)
PlanFails(h) == \E r \in {"recoverable", "error"} : Return(h, r)

Reuse(h) ==
  /\ sessions # <<>> /\ Usable(Latest(sessions))
  /\ Return(h, "reused")

RefuseMissing(h) ==
  /\ sessions # <<>> /\ ResultMissing(Latest(sessions))
  /\ Return(h, "error")

RefuseRunning(h) ==
  /\ LatestIs(sessions, "running")
  /\ Return(h, "error")

ResumePrepared(h) ==
  /\ LatestIs(sessions, "prepared")
  /\ Begin(h, LaunchJob(Latest(sessions).id))

StartFirst(h) ==
  /\ sessions = <<>>
  /\ Begin(h, StartJob(BaseId, NoId, LaunchTimeout(sessions)))

RetryFailed(h) ==
  /\ LatestIs(sessions, "failed")
  /\ Begin(h, StartJob(RetryId(sessions), Latest(sessions).id,
                       LaunchTimeout(sessions)))

ReplaceUnusable(h) ==
  /\ sessions # <<>> /\ Unusable(Latest(sessions))
  /\ Begin(h, StartJob(RetryId(sessions), NoId, LaunchTimeout(sessions)))

Choose(h) ==
  \/ PlanFails(h) \/ Reuse(h) \/ RefuseMissing(h) \/ RefuseRunning(h)
  \/ ResumePrepared(h) \/ StartFirst(h) \/ RetryFailed(h) \/ ReplaceUnusable(h)

-----------------------------------------------------------------------------
(* Concluding.                                                             *)

LatestTimedOut(ss) == LatestIs(ss, "failed") /\ Latest(ss).exit = TimedOut

(* After an exception the launcher looks at the latest session, which need *)
(* not be its own: a timeout is recoverable; otherwise that depends on the *)
(* wording of the error and on what diagnostics can be read.               *)
ConcludeRaised(h) ==
  /\ job[h].verdict = "raised"
  /\ \/ job[h].mode = "launch" /\ Finish(h, "failure", "error")
     \/ job[h].mode = "start" /\ Finish(h, "failure", "recoverable")
     \/ /\ job[h].mode = "start"
        /\ ~LatestTimedOut(sessions)
        /\ Finish(h, "failure", "error")

ConcludeRegression(h) ==
  /\ job[h].verdict = "regression"
  /\ Finish(h, "failure", "error")

(* Core returned the record of the session that ran.                       *)
ConcludeReturned(h) ==
  LET s == sessions[IndexOf(job[h].id)]
  IN  /\ job[h].verdict = "returned"
      /\ \/ Usable(s) /\ Finish(h, "success", "success")
         \/ Unusable(s) /\ Finish(h, "failure", "recoverable")
         \/ ResultMissing(s) /\ Finish(h, "failure", "error")
         \/ /\ s.status # "completed"
            /\ Finish(h, "failure", IF job[h].mode = "launch" THEN "nonfinal" ELSE "error")

(* No outcome is recorded when the handler of a started session cannot     *)
(* read the sessions again, or when RESULT.md or the handoff of a completed *)
(* one cannot be read: that is no ExecutorLaunchError, the one kind of     *)
(* error the launcher catches around _result.                              *)
ConcludeEscapes(h) ==
  /\ \/ job[h].verdict = "raised" /\ job[h].mode = "start"
     \/ /\ job[h].verdict = "returned"
        /\ sessions[IndexOf(job[h].id)].status = "completed"
        /\ sessions[IndexOf(job[h].id)].output # "missing"
  /\ Escape(h)

Conclude(h) ==
  /\ pc[h] = "conclude"
  /\ \/ ConcludeRaised(h) \/ ConcludeRegression(h)
     \/ ConcludeReturned(h) \/ ConcludeEscapes(h)

Next ==
  \/ \E h \in Hosts : Choose(h) \/ GuardedStep(h) \/ Conclude(h) \/ Crash(h)
  \/ OperatorEdit

Spec == Init /\ [][Next]_vars

-----------------------------------------------------------------------------
(* Properties.                                                             *)

(* "reuse completed work idempotently": once a session has completed with  *)
(* usable output no host, however stale its view, starts another one.      *)
CompletedWorkIsFinal ==
  \A i \in DOMAIN sessions : Usable(sessions[i]) => i = Len(sessions)

(* After one timeout every later session runs with the extended timeout,   *)
(* whoever launches it and whatever happened in between.                   *)
TimeoutEscalates ==
  \A i, j \in DOMAIN sessions :
    i < j /\ sessions[i].exit = TimedOut
      => sessions[j].timeout = INCEPTION_RETRY_TIMEOUT_SECONDS

(* The ledger never shows two successes for the Inception of one Work.     *)
AtMostOneSuccess == ledger["success"] + lost["success"] <= 1

-----------------------------------------------------------------------------
(* Why they hold: the inductive invariant.                                 *)

SessionId(n) == IF n = 1 THEN BaseId ELSE Id("retry", n)

Superseded(s) == s.status = "failed" \/ Unusable(s)

(* Ids are given out in order, whichever host starts the session.          *)
IdsInOrder == \A i \in DOMAIN sessions : sessions[i].id = SessionId(i)

(* Only the newest session can still change or be final.                   *)
OlderAreSuperseded ==
  \A i \in DOMAIN sessions : i < Len(sessions) => Superseded(sessions[i])

TimeoutsAreFailures ==
  \A i \in DOMAIN sessions :
    sessions[i].exit = TimedOut => sessions[i].status = "failed"

(* A host that will start a session either has an id that is already used, *)
(* so that Core refuses it, or still has a true view of the latest session.*)
Choosing(h) ==
  pc[h] \in {"attempt", "baseline", "core"} /\ job[h].mode = "start"

CurrentChoice(j) ==
  /\ sessions # <<>> => Superseded(Latest(sessions))
  /\ j.retryOf # NoId =>
       /\ sessions # <<>>
       /\ j.retryOf = Latest(sessions).id
       /\ Latest(sessions).status = "failed"
  /\ (\E i \in DOMAIN sessions : sessions[i].exit = TimedOut)
       => j.timeout = INCEPTION_RETRY_TIMEOUT_SECONDS

ChoicesAreCurrent ==
  \A h \in Hosts : Choosing(h) =>
    \E n \in 1 .. Len(sessions) + 1 :
      /\ job[h].id = SessionId(n)
      /\ n = Len(sessions) + 1 => CurrentChoice(job[h])

(* At most one host runs an executor, that of the newest session.          *)
RunnersOwnLatest ==
  \A h \in Hosts : pc[h] = "running" =>
    /\ LatestIs(sessions, "running")
    /\ job[h].id = Latest(sessions).id
    /\ \A g \in Hosts : pc[g] = "running" => g = h

IInv ==
  /\ TypeOK
  /\ IdsInOrder
  /\ OlderAreSuperseded
  /\ TimeoutsAreFailures
  /\ ChoicesAreCurrent
  /\ RunnersOwnLatest
  /\ RetryChain
  /\ TimeoutEscalates

-----------------------------------------------------------------------------
(* What the launches promise together: a Work's Inception is one execution *)
(* at a time, repeated only while it has not produced usable output.       *)
LatestState ==
  CASE sessions = <<>>                -> "open"
    [] LatestIs(sessions, "prepared") -> "prepared"
    [] LatestIs(sessions, "running")  -> "running"
    [] OTHER -> IF Usable(Latest(sessions)) THEN "done"
                ELSE IF ResultMissing(Latest(sessions)) THEN "stuck" ELSE "open"

Execution == INSTANCE SingleExecution
               WITH state <- LatestState, executions <- Len(sessions)

ImplementsSingleExecution == Execution!Spec

=============================================================================
