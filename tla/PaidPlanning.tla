----------------------------- MODULE PaidPlanning -----------------------------
(***************************************************************************)
(* The paid reasoning around a cheap executor: maybe_plan_skill asks a     *)
(* planner for a plan before the executor runs and keeps it in two files,  *)
(* and run_escalation_advisor asks an advisor for repair advice when the   *)
(* executor keeps failing.  Both choose their runtime from the pool        *)
(* (RuntimeSelection), record what they do in the economics ledger of the  *)
(* Work and may account the advisor's usage in Core.  Several hosts work   *)
(* on one Work stage; a host may die at any step.                          *)
(*                                                                         *)
(* The planning input (skill, phase guidance, paths and risks of the       *)
(* execution bundle) is a number: an executor that touched files changes   *)
(* it, a person may change it or take it back.                             *)
(***************************************************************************)
EXTENDS RuntimeSelection

CONSTANTS
  Hosts,
  Pool,         \* the configured pool of runtimes
  ExecutorTiers, \* tiers the executors of the Work are chosen from
  Needs,        \* the planner needs Laya may answer
  Inputs,       \* planning inputs the stage may have
  RetryLimit,   \* retries before the advisor is asked
  MaxRounds,    \* bound: executor runs
  MaxEdits,     \* bound: changes people make to the planning input
  MaxMishaps    \* bound: deaths of hosts and writes that fail

ASSUME HostsAssumption  == IsFiniteSet(Hosts) /\ Hosts # {}
ASSUME TiersAssumption  == ExecutorTiers \subseteq ToSet(ExecutionTiers) /\ ExecutorTiers # {}
ASSUME InputsAssumption == Inputs \subseteq Nat /\ 0 \in Inputs
ASSUME BoundsAssumption ==
  RetryLimit \in Nat /\ MaxRounds \in Nat /\ MaxEdits \in Nat /\ MaxMishaps \in Nat
ASSUME PoolAssumption ==
  /\ Len(Pool.candidates) \in Nat
  /\ DOMAIN Pool.candidates = 1 .. Len(Pool.candidates)
  /\ \A i \in DOMAIN Pool.candidates : Pool.candidates[i].tier \in ToSet(ExecutionTiers)
  /\ DOMAIN Pool.budgets \subseteq ToSet(ExecutionTiers)
  /\ \A t \in DOMAIN Pool.budgets : Pool.budgets[t] \in Nat

VARIABLES
  need,      \* planner_needed of the stage's requirements; it never changes
  input,     \* the planning input of the stage as it is now
  plan,      \* <stage>-PLAN.md: the input its text was made for
  digest,    \* <stage>.json: the input digest it names
  ledger,    \* events of planner and advisor [attempts per tier, outcomes,
             \* unaccounted, recorded] and the executor's attempts per tier
  usage,     \* ids of the usage records Core holds for the advisor
  pc,
  host,      \* per host: its local variables
  spent,     \* ghost: paid calls begun late, planners never prepared,
             \* attempts without an outcome, plans since the last progress
  torn,      \* ghost: a save of the two files was disturbed, and since then
             \* there was no whole one, or a host still uses what it read
  counts     \* rounds, edits and mishaps so far

vars == <<need, input, plan, digest, ledger, usage, pc, host, spent, torn, counts>>

NoInput == -1

Steps == {"idle", "prepare", "planning", "savePlan", "saveDigest",
          "execute", "advise", "advising", "account"}

Local == [input : Inputs \cup {NoInput},   \* what the planner was asked
          tier : ToSet(ExecutionTiers) \cup {"none"},
          guide : Inputs \cup {NoInput},   \* the input the held plan was made for
          asked : Inputs \cup {NoInput},   \* the input it is used for
          failures : Nat, advice : {"none", "held", "used"}]

Fresh == [input |-> NoInput, tier |-> "none", guide |-> NoInput,
          asked |-> NoInput, failures |-> 0, advice |-> "none"]

TypeOK ==
  /\ need \in Needs /\ input \in Inputs
  /\ plan \in Inputs \cup {NoInput} /\ digest \in Inputs \cup {NoInput}
  /\ ledger \in [attempts : [ToSet(ExecutionTiers) -> Nat],
                 executor : [ToSet(ExecutionTiers) -> Nat],
                 outcomes : Nat, unaccounted : Nat, recorded : Nat]
  /\ spent \in [late : Nat, unprepared : Nat, abandoned : Nat, plans : Nat]
  /\ usage \subseteq Nat \X Inputs
  /\ pc \in [Hosts -> Steps]
  /\ host \in [Hosts -> Local]
  /\ \A h \in Hosts : pc[h] \in {"prepare", "planning", "advise", "advising", "account"}
                        => host[h].tier # "none"
  /\ \A h \in Hosts : pc[h] \in {"advise", "advising", "account"} => host[h].input \in Inputs

Init ==
  /\ need \in Needs
  /\ input = 0 /\ plan = NoInput /\ digest = NoInput
  /\ ledger = [attempts |-> [t \in ToSet(ExecutionTiers) |-> 0],
               executor |-> [t \in ToSet(ExecutionTiers) |-> 0],
               outcomes |-> 0, unaccounted |-> 0, recorded |-> 0]
  /\ usage = {}
  /\ pc = [h \in Hosts |-> "idle"]
  /\ host = [h \in Hosts |-> Fresh]
  /\ spent = [late |-> 0, unprepared |-> 0, abandoned |-> 0, plans |-> 0]
  /\ torn = FALSE
  /\ counts = [rounds |-> 0, edits |-> 0, mishaps |-> 0]

-----------------------------------------------------------------------------
(* Choosing a paid runtime.                                                *)

Ask(minimum, maximum, agents) ==
  [minimum |-> minimum, maximum |-> maximum, agents |-> agents,
   purpose |-> "planner", work |-> TRUE]

(* What maybe_plan_skill asks of the pool for each planner mode.           *)
PlannerAsk ==
  CASE need = "local"    -> Ask("local", PlannerTier([planner |-> need]), {"codex", "claude", "opencode"})
    [] need = "frontier" -> Ask("frontier", PlannerTier([planner |-> need]), {"codex", "claude"})
    [] OTHER             -> Ask("paid-efficient", PlannerTier([planner |-> need]), {"codex", "claude"})

PlannerRequirements ==
  RequirementsForActivity("exploration.read_only",
    CASE need = "local" -> "local" [] need = "frontier" -> "frontier" [] OTHER -> "standard")

AdvisorAsk == Ask("paid-efficient", "paid-standard", {"codex", "claude"})
AdvisorRequirements == RequirementsForActivity("exploration.read_only", "standard")

(* attempt_count: whoever made the attempt.                                *)
Counted ==
  [attempts |-> [t \in ToSet(ExecutionTiers) |-> ledger.attempts[t] + ledger.executor[t]],
   unaccounted |-> ledger.unaccounted]

(* The tiers the pool may answer, over the runtimes that may be responsive *)
(* at the time; "none" when nothing is permitted.                          *)
Selected(r, ask) ==
  {IF i = 0 THEN "none" ELSE Pool.candidates[i].tier :
     i \in {SelectFromPool(Pool, r, ask, Counted, [limited |-> FALSE],
                           [agents |-> responsive \cup {"opencode"}, models |-> TRUE, context |-> 0]) :
              responsive \in SUBSET {"codex", "claude"}}}

Attempt(t) == ledger' = [ledger EXCEPT !.attempts[t] = @ + 1]
Outcome    == ledger' = [ledger EXCEPT !.outcomes = @ + 1]

(* A call of a paid tier that begins while usage is unaccounted for.       *)
Late(t) == IF Paid(t) /\ ledger.unaccounted > 0 THEN 1 ELSE 0

-----------------------------------------------------------------------------
(* maybe_plan_skill.                                                       *)

Go(h, from, to) == pc[h] = from /\ pc' = [pc EXCEPT ![h] = to]

(* Mutant: the digest is not compared. *)
AnyCached(wanted) == plan # NoInput /\ digest # NoInput

(* _cached: both files are there and the metadata names this input.        *)
Cached(wanted) == plan # NoInput /\ digest = wanted

(* Nothing to plan: no planner is needed, or advice is at hand, which      *)
(* takes the plan's place in the prompt.                                   *)
SkipPlanning(h) ==
  /\ Go(h, "idle", "execute")
  /\ PlannerTier([planner |-> need]) = "none" \/ host[h].advice = "held"
  /\ host' = [host EXCEPT ![h].guide = NoInput, ![h].asked = input]
  /\ UNCHANGED <<need, input, plan, digest, ledger, usage, spent, torn, counts>>

WantsPlan(h) ==
  PlannerTier([planner |-> need]) # "none" /\ host[h].advice # "held"

(* The text read may be newer than the metadata it is read under.          *)
ReusePlan(h) ==
  /\ Go(h, "idle", "execute")
  /\ WantsPlan(h) /\ Cached(input)
  /\ host' = [host EXCEPT ![h].guide = plan, ![h].asked = input]
  /\ torn' = (torn \/ \E g \in Hosts \ {h} : pc[g] = "saveDigest")
  /\ UNCHANGED <<need, input, plan, digest, ledger, usage, spent, counts>>

ChoosePlanner(h) ==
  /\ pc[h] = "idle"
  /\ WantsPlan(h) /\ ~Cached(input)
  /\ \E t \in Selected(PlannerRequirements, PlannerAsk) :
       /\ Go(h, "idle", IF t = "none" THEN "execute" ELSE "prepare")
       /\ host' = [host EXCEPT ![h].tier = t, ![h].input = input,
                               ![h].guide = NoInput, ![h].asked = input]
  /\ UNCHANGED <<need, input, plan, digest, ledger, usage, spent, torn, counts>>

(* prepare_execution is inside the block whose handler records a failure,  *)
(* and comes before the attempt is recorded.                               *)
PreparePlanner(h) ==
  /\ \/ /\ Go(h, "prepare", "planning")
        /\ Attempt(host[h].tier)
        /\ spent' = [spent EXCEPT !.late = @ + Late(host[h].tier)]
     \/ /\ Go(h, "prepare", "execute")
        /\ Outcome
        /\ spent' = [spent EXCEPT !.unprepared = @ + 1]
  /\ UNCHANGED <<need, input, plan, digest, usage, host, torn, counts>>

(* Mutant: a planner that fails records no outcome. *)
PlannerEndsQuietly(h) ==
  /\ \/ Go(h, "planning", "execute") /\ UNCHANGED <<ledger, spent>>
     \/ /\ Go(h, "planning", "savePlan")
        /\ spent' = [spent EXCEPT !.plans = @ + 1]
        /\ Outcome
  /\ UNCHANGED <<need, input, plan, digest, usage, host, torn, counts>>

(* The outcome is recorded before the plan is saved.                       *)
PlannerEnds(h) ==
  /\ \/ Go(h, "planning", "execute") /\ UNCHANGED spent
     \/ /\ Go(h, "planning", "savePlan")
        /\ spent' = [spent EXCEPT !.plans = @ + 1]
  /\ Outcome
  /\ UNCHANGED <<need, input, plan, digest, usage, host, torn, counts>>

(* _persist: the text first,                                               *)
SavePlan(h) ==
  /\ Go(h, "savePlan", "saveDigest")
  /\ plan' = host[h].input
  /\ torn' = (torn \/ \E g \in Hosts \ {h} : pc[g] = "saveDigest")
  /\ UNCHANGED <<need, input, digest, ledger, usage, host, spent, counts>>

(* A save that leaves the files whole again: the text is its own, and      *)
(* nobody else is between the two files or uses what another input is for. *)
Mends(h) ==
  /\ plan = host[h].input
  /\ \A g \in Hosts \ {h} : pc[g] # "saveDigest" /\ host[g].guide \in {NoInput, host[g].asked}

(* then the metadata.                                                      *)
SaveDigest(h) ==
  /\ Go(h, "saveDigest", "execute")
  /\ digest' = host[h].input
  /\ host' = [host EXCEPT ![h].guide = host[h].input]
  /\ torn' = (torn /\ ~Mends(h))
  /\ UNCHANGED <<need, input, plan, ledger, usage, spent, counts>>

(* A write that fails raises; the launchers go on without a plan.          *)
SaveFails(h) ==
  /\ counts.mishaps < MaxMishaps
  /\ pc[h] \in {"savePlan", "saveDigest"}
  /\ pc' = [pc EXCEPT ![h] = "execute"]
  /\ torn' = (torn \/ pc[h] = "saveDigest")
  /\ counts' = [counts EXCEPT !.mishaps = @ + 1]
  /\ UNCHANGED <<need, input, plan, digest, ledger, usage, host, spent>>

-----------------------------------------------------------------------------
(* The executor and the loop around it.                                    *)

(* The executor works with the plan, the advice or neither.  Its launcher  *)
(* and its adapter each record an attempt of its tier, when it has one and *)
(* the event can be written.                                               *)
Executed(h) ==
  /\ pc[h] = "execute"
  /\ counts.rounds < MaxRounds
  /\ counts' = [counts EXCEPT !.rounds = @ + 1]
  /\ input' \in Inputs
  /\ \E t \in ExecutorTiers, recorded \in 0 .. 2 :
       ledger' = [ledger EXCEPT !.executor[t] = @ + recorded]
  /\ UNCHANGED <<need, plan, digest, usage, torn>>

(* It made progress: the next card starts afresh.                          *)
ExecutorSucceeds(h) ==
  /\ Executed(h)
  /\ pc' = [pc EXCEPT ![h] = "idle"]
  /\ host' = [host EXCEPT ![h] = Fresh]
  /\ spent' = [spent EXCEPT !.plans = 0]

(* It failed, having changed files or not: it is retried, the advisor is   *)
(* asked about the failure once (which fixes the package: the number of    *)
(* the attempt and the paths as they are), or a person takes over.         *)
ExecutorFails(h) ==
  LET tries == host[h].failures + 1
      used  == IF host[h].advice = "none" THEN "none" ELSE "used"
      Next(step, l) == pc' = [pc EXCEPT ![h] = step] /\ host' = [host EXCEPT ![h] = l]
  IN  /\ Executed(h)
      /\ UNCHANGED spent
      /\ \/ /\ tries <= RetryLimit
            /\ Next("idle", [Fresh EXCEPT !.failures = tries, !.advice = used])
         \/ /\ tries > RetryLimit /\ used = "none"
            /\ \E t \in Selected(AdvisorRequirements, AdvisorAsk) :
                 IF t = "none" THEN Next("idle", Fresh)
                 ELSE Next("advise", [Fresh EXCEPT !.tier = t, !.failures = tries, !.input = input'])
         \/ /\ tries > RetryLimit /\ used = "used"
            /\ Next("idle", Fresh)

-----------------------------------------------------------------------------
(* run_escalation_advisor.                                                 *)

CallAdvisor(h) ==
  /\ Go(h, "advise", "advising")
  /\ Attempt(host[h].tier)
  /\ spent' = [spent EXCEPT !.late = @ + Late(host[h].tier)]
  /\ UNCHANGED <<need, input, plan, digest, usage, host, torn, counts>>

(* A timeout, an exit code or an answer that is no advice is a failure.    *)
AdvisorEnds(h) ==
  /\ \/ /\ Go(h, "advising", "idle")
        /\ Outcome
        /\ host' = [host EXCEPT ![h] = Fresh]
     \/ /\ Go(h, "advising", "account")
        /\ UNCHANGED <<ledger, host>>
  /\ UNCHANGED <<need, input, plan, digest, usage, spent, torn, counts>>

(* _record_planner_usage: without a workspace, an actor or a count of      *)
(* tokens, or when Core refuses, the usage stays unaccounted; otherwise it *)
(* is added to Core under an id made of the package, unless it is there.   *)
AccountUsage(h) ==
  /\ Go(h, "account", "idle")
  /\ \/ /\ ledger' = [ledger EXCEPT !.unaccounted = @ + 1, !.outcomes = @ + 1]
        /\ UNCHANGED usage
     \/ /\ ledger' = [ledger EXCEPT !.recorded = @ + 1, !.outcomes = @ + 1]
        /\ usage' = usage \cup {<<host[h].failures, host[h].input>>}
  /\ host' = [host EXCEPT ![h].advice = "held", ![h].tier = "none", ![h].input = NoInput]
  /\ UNCHANGED <<need, input, plan, digest, spent, torn, counts>>

-----------------------------------------------------------------------------
Attempted(h) == pc[h] \in {"planning", "advising", "account"}

(* A host dies and is started again.                                       *)
Crash(h) ==
  /\ pc[h] # "idle"
  /\ counts.mishaps < MaxMishaps
  /\ counts' = [counts EXCEPT !.mishaps = @ + 1]
  /\ pc' = [pc EXCEPT ![h] = "idle"]
  /\ host' = [host EXCEPT ![h] = Fresh]
  /\ torn' = (torn \/ pc[h] = "saveDigest")
  /\ spent' = [spent EXCEPT !.abandoned = @ + (IF Attempted(h) THEN 1 ELSE 0)]
  /\ UNCHANGED <<need, input, plan, digest, ledger, usage>>

(* People change the files the input is made of, or take a change back.    *)
Edit ==
  /\ counts.edits < MaxEdits
  /\ counts' = [counts EXCEPT !.edits = @ + 1]
  /\ input' \in Inputs \ {input}
  /\ UNCHANGED <<need, plan, digest, ledger, usage, pc, host, spent, torn>>

HostStep(h) ==
  \/ SkipPlanning(h) \/ ReusePlan(h) \/ ChoosePlanner(h)
  \/ PreparePlanner(h) \/ PlannerEnds(h)
  \/ SavePlan(h) \/ SaveDigest(h) \/ SaveFails(h)
  \/ ExecutorSucceeds(h) \/ ExecutorFails(h)
  \/ CallAdvisor(h) \/ AdvisorEnds(h) \/ AccountUsage(h)

Next == Edit \/ \E h \in Hosts : HostStep(h) \/ Crash(h)

Spec == Init /\ [][Next]_vars

-----------------------------------------------------------------------------
(* Properties.                                                             *)

(* "identical Skill + bundle input reuses the existing plan": whatever     *)
(* order hosts plan, save and reuse in, the plan an executor is given was  *)
(* made for the input it is used for, except between a save of the two     *)
(* files that was cut short, overlapped another or was read halfway and    *)
(* the next whole one (_cached, _persist).                                 *)
PlanFitsItsInput ==
  \A h \in Hosts : host[h].guide # NoInput => host[h].guide = host[h].asked \/ torn

(* "exhausted tier call budgets remove that tier", where a budget is       *)
(* configured, and no call of a paid tier begins while the ledger holds    *)
(* usage as unaccounted: planner and advisor ask the pool before their     *)
(* attempt is recorded and nothing is locked, so that each further host    *)
(* may be one call late, and no more.  The attempts of executors use the   *)
(* same budgets up.                                                        *)
PaidCallsBounded ==
  LET late == Cardinality(Hosts) - 1
  IN  /\ spent.late <= late
      /\ \A t \in DOMAIN Pool.budgets : ledger.attempts[t] <= Pool.budgets[t] + late

(* The attempts of every tier.                                             *)
Attempts ==
  ledger.attempts["local"] + ledger.attempts["free"] + ledger.attempts["paid-efficient"]
    + ledger.attempts["paid-standard"] + ledger.attempts["frontier"]

(* Planner and advisor record one outcome for each attempt on each of      *)
(* their exit paths, except where the host died; a planner that could not  *)
(* be prepared has an outcome without an attempt.                          *)
LedgerBalances ==
  Attempts + spent.unprepared =
    ledger.outcomes + spent.abandoned + Cardinality({h \in Hosts : Attempted(h)})

(* "retries do not repeatedly consume a paid model": while one executor    *)
(* fails and is retried, and nobody else changes anything, at most one     *)
(* plan is paid for.                                                       *)
RetriesReusePlan ==
  Cardinality(Hosts) = 1 /\ counts.edits + counts.mishaps = 0 => spent.plans <= 1

(* "fail closed on additional paid routing when paid usage cannot be       *)
(* accounted": a paid call begins only when the usage of each one before   *)
(* it is recorded in Core.                                                 *)
PaidAttempts ==
  ledger.attempts["paid-efficient"] + ledger.attempts["paid-standard"]
    + ledger.attempts["frontier"]

PaidUsageIsKnown ==
  [][\A h \in Hosts :
       /\ pc[h] \in {"prepare", "advise"} /\ pc'[h] \in {"planning", "advising"}
       /\ Paid(host[h].tier)
       => PaidAttempts = ledger.recorded]_vars

-----------------------------------------------------------------------------
(* What keeps them true.  A host is admitted from the choice of its        *)
(* runtime to the attempt: what the pool was asked may have changed.       *)

Admitted(h)   == pc[h] \in {"prepare", "advise"}
AdmittedTo(t) == {h \in Hosts : Admitted(h) /\ host[h].tier = t}
AdmittedPaid  == {h \in Hosts : Admitted(h) /\ Paid(host[h].tier)}
Saving        == {h \in Hosts : pc[h] = "saveDigest"}

(* Every admitted host found a call left in its tier, if it has a budget.  *)
AdmittedInBudget ==
  \A t \in DOMAIN Pool.budgets :
    ledger.attempts[t] + Cardinality(AdmittedTo(t)) <= Pool.budgets[t] + Cardinality(Hosts) - 1

(* A host that is admitted to a paid tier found all usage accounted for.   *)
AdmittedWhileAccounted ==
  /\ ledger.unaccounted = 0 => spent.late = 0
  /\ ledger.unaccounted > 0 => spent.late + Cardinality(AdmittedPaid) <= Cardinality(Hosts) - 1

(* A plan is made for the input it will be used for.                       *)
AskedForItsInput ==
  \A h \in Hosts : pc[h] \in {"prepare", "planning", "savePlan", "saveDigest"}
                     => host[h].asked = host[h].input

(* The text and the metadata name the same input, except in the middle of  *)
(* the one save that is going on.                                          *)
FilesAgree ==
  ~torn => /\ Saving = {} => plan = digest
           /\ \A h \in Saving : plan = host[h].input /\ Saving = {h}

PlanningInv ==
  /\ TypeOK /\ AdmittedInBudget /\ AdmittedWhileAccounted
  /\ AskedForItsInput /\ FilesAgree /\ PlanFitsItsInput /\ LedgerBalances

=============================================================================
