-------------------------- MODULE ConstructionLaunch --------------------------
(***************************************************************************)
(* launch_construction_executor: launch one governed Construction session  *)
(* for a Work.  A failed session is retried, a completed one is meant to   *)
(* be superseded by a fresh run as long as the Work is in Construction.    *)
(***************************************************************************)
EXTENDS SessionStore

CONSTRUCTION_TIMEOUT_SECONDS == 900

(* _matching_sessions keeps the base session and its "-retry-" sessions:   *)
(* a session this launcher named "-rerun-" is not among them.              *)
Matching(ss) == {i \in DOMAIN ss : ss[i].id.kind \in {"base", "retry"}}

LatestMatching(ss) ==
  ss[CHOOSE i \in Matching(ss) : \A j \in Matching(ss) : j <= i]

MatchingIs(ss, status) == Matching(ss) # {} /\ LatestMatching(ss).status = status

Superseding(kind, ss) == Id(kind, Cardinality(Matching(ss)) + 1)

-----------------------------------------------------------------------------
(* Choosing the session.                                                   *)

(* The Work has left Construction, the bundle was not persisted or no      *)
(* decision can be resolved; or the runtime plan cannot be built.          *)
NotInConstruction(h)     == Return(h, "error")
ConstructionPlanFails(h) == Return(h, "recoverable")

RefuseMatchingRunning(h) ==
  /\ MatchingIs(sessions, "running")
  /\ Return(h, "error")

(* No session yet, or one that was prepared and never launched.            *)
StartBase(h) ==
  /\ Matching(sessions) = {} \/ MatchingIs(sessions, "prepared")
  /\ Begin(h, StartJob(BaseId, NoId, CONSTRUCTION_TIMEOUT_SECONDS))

RetryMatching(h) ==
  /\ MatchingIs(sessions, "failed")
  /\ Begin(h, StartJob(Superseding("retry", sessions), LatestMatching(sessions).id,
                       CONSTRUCTION_TIMEOUT_SECONDS))

(* Mutant: a failed session is rerun as well. *)
RerunFinal(h) ==
  /\ MatchingIs(sessions, "completed") \/ MatchingIs(sessions, "failed")
  /\ Begin(h, StartJob(Superseding("rerun", sessions), NoId,
                       CONSTRUCTION_TIMEOUT_SECONDS))

RerunCompleted(h) ==
  /\ MatchingIs(sessions, "completed")
  /\ Begin(h, StartJob(Superseding("rerun", sessions), NoId,
                       CONSTRUCTION_TIMEOUT_SECONDS))

ConstructionChoose(h) ==
  \/ NotInConstruction(h) \/ ConstructionPlanFails(h) \/ RefuseMatchingRunning(h)
  \/ StartBase(h) \/ RetryMatching(h) \/ RerunCompleted(h)

-----------------------------------------------------------------------------
(* Concluding.                                                             *)

(* Recoverable, unless the diagnostics of the latest session are missing.  *)
ConstructionRaised(h) ==
  /\ job[h].verdict = "raised"
  /\ \E r \in {"recoverable", "error"} : Finish(h, "failure", r)

ConstructionRegression(h) ==
  /\ job[h].verdict = "regression"
  /\ Finish(h, "failure", "error")

(* A completed run must also reconcile and show progress (both outcomes of *)
(* reconcile_construction_execution are possible here).  RESULT.md is read *)
(* only after the success was recorded.                                    *)
ConstructionReturned(h) ==
  LET s == sessions[IndexOf(job[h].id)]
  IN  /\ job[h].verdict = "returned"
      /\ \/ Finish(h, "failure", "error")
         \/ /\ s.status = "completed"
            /\ Finish(h, "success", IF s.output = "missing" THEN "error" ELSE "success")

(* No outcome is recorded when the handler cannot read the sessions again, *)
(* or when the files cannot be listed after the run was reconciled.        *)
ConstructionEscapes(h) ==
  /\ \/ job[h].verdict = "raised"
     \/ /\ job[h].verdict = "returned"
        /\ sessions[IndexOf(job[h].id)].status = "completed"
  /\ Escape(h)

ConstructionConclude(h) ==
  /\ pc[h] = "conclude"
  /\ \/ ConstructionRaised(h) \/ ConstructionRegression(h)
     \/ ConstructionReturned(h) \/ ConstructionEscapes(h)

ConstructionNext ==
  \/ \E h \in Hosts : ConstructionChoose(h) \/ GuardedStep(h) \/ ConstructionConclude(h) \/ Crash(h)
  \/ OperatorEdit

ConstructionSpec == Init /\ [][ConstructionNext]_vars

-----------------------------------------------------------------------------
(* Properties (those of SessionStore are checked here too).                *)

(* "a completed session that left the Work in Construction is superseded   *)
(* by a fresh run": the id chosen for it is not one a session already has. *)
CompletedIsSuperseded ==
  [][\A h \in Hosts : RerunCompleted(h) => job'[h].id \notin UsedIds(sessions)]_vars

(* A rerun never follows a failed session and a retry never a completed    *)
(* one: how a session came to be says how the one before it ended.         *)
IdTellsPredecessor ==
  \A i \in DOMAIN sessions :
    /\ sessions[i].id.kind = "retry" => sessions[i - 1].status = "failed"
    /\ sessions[i].id.kind = "rerun" => sessions[i - 1].status = "completed"

-----------------------------------------------------------------------------
(* Why the history holds: the inductive invariant.                         *)

(* The first session is the base, the next ones its retries.               *)
ChainId(n) == IF n = 1 THEN BaseId ELSE Id("retry", n)

(* The chain can end in one rerun, which the launcher then never sees.     *)
EndsInRerun == sessions # <<>> /\ Latest(sessions).id.kind = "rerun"

ChainInOrder ==
  \A i \in DOMAIN sessions :
    \/ sessions[i].id = ChainId(i)
    \/ /\ i > 1 /\ i = Len(sessions)
       /\ sessions[i].id = Id("rerun", i)

(* Each session but the newest has ended in the way the next one says, and *)
(* only a retry names it.                                                  *)
EachEndedAsTold ==
  \A i \in DOMAIN sessions : i > 1 =>
    sessions[i - 1].status = IF sessions[i].id.kind = "rerun" THEN "completed"
                                                              ELSE "failed"

RetriesNameTheFailed ==
  \A i \in DOMAIN sessions :
    sessions[i].retryOf =
      IF sessions[i].id.kind = "retry" THEN sessions[i - 1].id ELSE NoId

(* A host that will start a session has an id Core refuses, or one that    *)
(* still follows from the newest session.                                  *)
Starting(h) == pc[h] \in {"attempt", "baseline", "core"}

Follows(j) ==
  \/ sessions = <<>> /\ j.id = BaseId /\ j.retryOf = NoId
  \/ /\ LatestIs(sessions, "failed") /\ ~EndsInRerun
     /\ j.id = Id("retry", Len(sessions) + 1)
     /\ j.retryOf = Latest(sessions).id
  \/ /\ LatestIs(sessions, "completed") /\ ~EndsInRerun
     /\ j.id = Id("rerun", Len(sessions) + 1)
     /\ j.retryOf = NoId

StartsAreCurrent ==
  \A h \in Hosts : Starting(h) =>
    /\ job[h].mode = "start"
    /\ job[h].id \in UsedIds(sessions) \/ Follows(job[h])

(* At most one host runs an executor, that of the newest session.          *)
RunnersOwnNewest ==
  \A h \in Hosts : pc[h] = "running" =>
    /\ LatestIs(sessions, "running")
    /\ job[h].id = Latest(sessions).id
    /\ \A g \in Hosts : pc[g] = "running" => g = h

HistoryInv ==
  /\ TypeOK
  /\ ChainInOrder
  /\ EachEndedAsTold
  /\ RetriesNameTheFailed
  /\ StartsAreCurrent
  /\ RunnersOwnNewest

=============================================================================
