---------------------------- MODULE GuidedSession ----------------------------
(***************************************************************************)
(* run_interactive: the continuous wizard of one person in one process.    *)
(* It inspects Core, shows a decision card, and after the person confirms  *)
(* it runs executors, retrying cheap ones, obtaining bounded paid advice   *)
(* once per runtime, and giving a runtime up.  Two places share the        *)
(* counters: the loop around an executor that raised, and the inspection   *)
(* that finds a run without governed progress.                             *)
(*                                                                         *)
(* A decision is a version (what _decision_fingerprint compares) and the   *)
(* action advise_workflow gives for it; "ask" is a material question, and  *)
(* "clear" is no decision at all.                                          *)
(***************************************************************************)
EXTENDS Naturals, FiniteSets

CONSTANTS
  Runtimes,     \* runtimes (agent and model) the person can choose
  Cheap,        \* those of tier local or free
  RetryLimit,   \* retry_limits of the cheap tiers
  NoRuntime,    \* no runtime is selected
  MaxVersions,  \* bound: changes of the decision
  MaxConfirms   \* bound: confirmations of the person

ASSUME RuntimesAssumption == IsFiniteSet(Runtimes) /\ NoRuntime \notin Runtimes
ASSUME CheapAssumption    == Cheap \subseteq Runtimes
ASSUME RetryAssumption    == RetryLimit \in Nat
ASSUME BoundsAssumption  == MaxVersions \in Nat /\ MaxConfirms \in Nat

VARIABLES
  core,       \* the decision inspect_next would return now
  held,       \* the decision the session holds
  previous,   \* version of the decision a completed run worked on, or 0
  selected,   \* selected_runtime
  failed,     \* failed_runtimes
  attempts,   \* attempts_by_runtime
  advised,    \* advised_runtimes
  advice,     \* runtimes with repair advice
  pc,
  unattended, \* executor runs since the person's last input
  calls,      \* paid advisor calls made for each runtime
  repaired,   \* runtimes that have run with their advice
  chosen,     \* runtimes the person selected by hand
  confirms    \* confirmations so far

vars == <<core, held, previous, selected, failed, attempts, advised, advice,
          pc, unattended, calls, repaired, chosen, confirms>>

ledgers == <<failed, attempts, advised, advice, calls, repaired>>

-----------------------------------------------------------------------------
Actions  == {"prepare", "act", "review", "ask", "clear"}
Decision == [version : 1 .. MaxVersions + 1, action : Actions]
Human    == {"card", "question", "retry", "failure"}
Steps    == Human \cup {"inspect", "run", "executing", "over"}

TypeOK ==
  /\ core \in Decision /\ held \in Decision
  /\ previous \in 0 .. MaxVersions + 1
  /\ selected \in Runtimes \cup {NoRuntime}
  /\ \A s \in {failed, advised, advice, repaired, chosen} : s \subseteq Runtimes
  /\ attempts \in [Runtimes -> Nat] /\ calls \in [Runtimes -> Nat]
  /\ pc \in Steps
  /\ unattended \in Nat /\ confirms \in 0 .. MaxConfirms

(* The session may be given an initial runtime.                            *)
Init ==
  /\ core \in [version : {1}, action : Actions]
  /\ held = core
  /\ previous = 0
  /\ selected \in Runtimes \cup {NoRuntime}
  /\ chosen = {selected} \ {NoRuntime}
  /\ failed = {} /\ advised = {} /\ advice = {} /\ repaired = {}
  /\ attempts = [r \in Runtimes |-> 0]
  /\ calls = attempts
  /\ pc = "inspect"
  /\ unattended = 0 /\ confirms = 0

-----------------------------------------------------------------------------
(* What both loops do with a runtime that failed or made no progress.  "to"*)
(* is where the session continues, "ask" where the person is asked again.  *)

(* Mutant: one retry too few. *)
WithinFewerRetries(r) == r \in Cheap /\ attempts[r] + 1 < RetryLimit

WithinRetries(r) == r \in Cheap /\ attempts[r] + 1 <= RetryLimit

CountAttempt(r) == attempts' = [attempts EXCEPT ![r] = @ + 1]

CheapRetry(r, to) ==
  /\ WithinRetries(r)
  /\ CountAttempt(r)
  /\ pc' = to
  /\ UNCHANGED <<selected, failed, advised, advice, calls>>

(* Mutant: a runtime may be advised again. *)
AlwaysAdvisable(r) == r \in Cheap

Advisable(r) == r \in Cheap /\ r \notin advised

CallAdvisor(r) ==
  /\ ~WithinRetries(r)
  /\ Advisable(r)
  /\ CountAttempt(r)
  /\ advised' = advised \cup {r}
  /\ calls' = [calls EXCEPT ![r] = @ + 1]

(* Mutant: an advised runtime is given up at once. *)
AdviseInVain(r, to) ==
  /\ CallAdvisor(r)
  /\ advice' = advice \cup {r}
  /\ failed' = failed \cup {r}
  /\ pc' = to
  /\ UNCHANGED selected

Advise(r, to) ==
  /\ CallAdvisor(r)
  /\ advice' = advice \cup {r}
  /\ pc' = to
  /\ UNCHANGED <<selected, failed>>

(* No advice is left to ask for, or the advisor is not available.          *)
GiveUp(r, ask) ==
  /\ \/ CallAdvisor(r)
     \/ /\ ~WithinRetries(r) /\ ~Advisable(r)
        /\ CountAttempt(r)
        /\ UNCHANGED <<advised, calls>>
  /\ failed' = failed \cup {r}
  /\ selected' = NoRuntime
  /\ pc' = ask
  /\ UNCHANGED advice

-----------------------------------------------------------------------------
(* Inspection.                                                             *)

NoProgress == previous # 0 /\ core.version = previous

(* Mutant: the session waits for the next decision. *)
InspectWaits ==
  /\ pc = "inspect" /\ core.action = "clear"
  /\ UNCHANGED vars

InspectClear ==
  /\ pc = "inspect" /\ core.action = "clear"
  /\ pc' = "over"
  /\ UNCHANGED <<core, held, previous, selected, ledgers, unattended, chosen, confirms>>

InspectNoProgress ==
  /\ pc = "inspect" /\ core.action # "clear" /\ NoProgress
  /\ held' = core
  /\ previous' = 0
  /\ IF selected = NoRuntime
     THEN pc' = "retry" /\ UNCHANGED <<selected, failed, attempts, advised, advice, calls>>
     ELSE \/ CheapRetry(selected, "inspect")
          \/ Advise(selected, "inspect")
          \/ GiveUp(selected, "retry")
  /\ UNCHANGED <<core, repaired, unattended, chosen, confirms>>

(* Mutant: the recommendation is always taken over. *)
AnyRecommended == Runtimes

(* A recommended runtime is taken over unless it has failed before.        *)
Recommended == Runtimes \ failed

InspectDecision ==
  /\ pc = "inspect" /\ core.action # "clear" /\ ~NoProgress
  /\ held' = core
  /\ previous' = 0
  /\ pc' = IF core.action = "ask" THEN "question" ELSE "card"
  /\ \/ UNCHANGED selected
     \/ /\ core.action # "ask" /\ selected = NoRuntime
        /\ selected' \in Recommended
  /\ UNCHANGED <<core, ledgers, unattended, chosen, confirms>>

-----------------------------------------------------------------------------
(* The person.                                                             *)

Exit ==
  /\ pc \in Human
  /\ pc' = "over"
  /\ unattended' = 0
  /\ UNCHANGED <<core, held, previous, selected, ledgers, chosen, confirms>>

Answer ==
  /\ pc = "question"
  /\ pc' = "inspect"
  /\ unattended' = 0
  /\ UNCHANGED <<core, held, previous, selected, ledgers, chosen, confirms>>

(* Adjust: the choice replaces the selected runtime.                       *)
Adjust ==
  /\ pc \in Human \ {"question"}
  /\ \E r \in Runtimes : selected' = r /\ chosen' = chosen \cup {r}
  /\ unattended' = 0
  /\ UNCHANGED <<core, held, previous, ledgers, pc, confirms>>

Confirm ==
  /\ confirms < MaxConfirms
  /\ confirms' = confirms + 1
  /\ unattended' = 0

(* Mutant: a reviewed session stays open. *)
ConfirmToReview ==
  /\ pc = "card"
  /\ Confirm
  /\ pc' = IF held.action = "prepare" THEN "run" ELSE held.action
  /\ UNCHANGED <<core, held, previous, selected, ledgers, chosen>>

ConfirmCard ==
  /\ pc = "card"
  /\ Confirm
  /\ pc' = CASE held.action = "review" -> "over"
             [] held.action = "prepare" -> "run"
             [] OTHER -> "inspect"
  /\ UNCHANGED <<core, held, previous, selected, ledgers, chosen>>

(* After a failure the loop goes on where it was.                          *)
ConfirmRetry ==
  /\ pc \in {"retry", "failure"}
  /\ Confirm
  /\ pc' = IF pc = "retry" THEN "inspect" ELSE "run"
  /\ UNCHANGED <<core, held, previous, selected, ledgers, chosen>>

(* Without a selected runtime the person is asked for one; if none can be  *)
(* chosen, whether to try again.                                           *)
SelectRuntime ==
  /\ pc = "run" /\ selected = NoRuntime
  /\ unattended' = 0
  /\ \/ \E r \in Runtimes : /\ selected' = r /\ chosen' = chosen \cup {r}
                            /\ UNCHANGED pc
     \/ pc' = "failure" /\ UNCHANGED <<selected, chosen>>
  /\ UNCHANGED <<core, held, previous, ledgers, confirms>>

-----------------------------------------------------------------------------
(* Executor runs, on the held decision.                                    *)

Execute ==
  /\ pc = "run" /\ selected # NoRuntime
  /\ pc' = "executing"
  /\ unattended' = unattended + 1
  /\ repaired' = repaired \cup ({selected} \cap advice)
  /\ UNCHANGED <<core, held, previous, selected, failed, attempts, advised, advice,
                 calls, chosen, confirms>>

ExecutionCompletes ==
  /\ pc = "executing"
  /\ previous' = held.version
  /\ pc' = "inspect"
  /\ UNCHANGED <<core, held, selected, ledgers, unattended, chosen, confirms>>

ExecutionFails ==
  /\ pc = "executing"
  /\ \/ CheapRetry(selected, "run")
     \/ Advise(selected, "run")
     \/ GiveUp(selected, "failure")
  /\ UNCHANGED <<core, held, previous, repaired, unattended, chosen, confirms>>

(* The executor, an in-session action or another actor changes the Work.   *)
WorkChanges ==
  /\ core.version <= MaxVersions
  /\ core' \in [version : {core.version + 1}, action : Actions]
  /\ UNCHANGED <<held, previous, selected, ledgers, pc, unattended, chosen, confirms>>

-----------------------------------------------------------------------------
Automatic ==
  \/ InspectClear \/ InspectNoProgress \/ InspectDecision
  \/ Execute \/ ExecutionCompletes \/ ExecutionFails

Person ==
  Exit \/ Answer \/ Adjust \/ ConfirmCard \/ ConfirmRetry \/ SelectRuntime

Next == Automatic \/ Person \/ WorkChanges

Spec == Init /\ [][Next]_vars

(* The session's own code keeps running; a person need not answer.         *)
FairSpec == Spec /\ WF_vars(Automatic)

-----------------------------------------------------------------------------
(* Properties.                                                             *)

(* "retry_limits bounds automatic retries": between two inputs of the      *)
(* person there is the run they asked for, at most RetryLimit cheap        *)
(* retries and one repair attempt, whichever loop counts them.             *)
UnattendedRunsBounded == unattended <= RetryLimit + 2

(* A paid advisor is asked only after the cheap retries of that runtime    *)
(* are exhausted, and never twice in a session.                            *)
AdviceIsLastResort ==
  \A r \in Runtimes :
    calls[r] > 0 => r \in Cheap /\ attempts[r] > RetryLimit /\ calls[r] = 1

(* Advice is "handed back to the original cheap executor for one governed  *)
(* repair attempt": a runtime is not given up with advice it never used.   *)
AdviceIsTried == failed \cap advice \subseteq repaired

(* A runtime that was given up runs again only if the person chose it.     *)
FailedRunsOnlyByChoice ==
  pc = "executing" /\ selected \in failed => selected \in chosen

(* What the session does on its own always leads back to the person.       *)
AwaitsPerson ==
  pc \in Human \cup {"over"} \/ (pc = "run" /\ selected = NoRuntime)

ReturnsToPerson == ~AwaitsPerson ~> AwaitsPerson

=============================================================================
