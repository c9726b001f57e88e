--------------------------- MODULE RuntimeSelection ---------------------------
(***************************************************************************)
(* From the facts of a Work to the runtime that executes it, as functions  *)
(* of their inputs: advise_execution and project_requirements turn an      *)
(* execution bundle and Laya's answers into requirements,                  *)
(* execution_policy_for puts a price ceiling on them, _eligible filters    *)
(* the configured pool, and select_runtime takes the first candidate that  *)
(* nothing blocks.  A configured candidate stands for one binding of an    *)
(* agent with at most one model.                                           *)
(***************************************************************************)
EXTENDS Integers, Sequences, SequencesExt, FiniteSets, FiniteSetsExt

-----------------------------------------------------------------------------
(* Ordered vocabularies.                                                   *)

ReasoningTiers == <<"local", "standard", "frontier", "human">>
Risks          == <<"low", "moderate", "high">>
Security       == <<"normal", "required">>
Reviewers      == <<"none", "focused", "independent", "human">>
ExecutionTiers == <<"local", "free", "paid-efficient", "paid-standard", "frontier">>

Index(order, x) == CHOOSE i \in DOMAIN order : order[i] = x
Rank(tier)      == Index(ExecutionTiers, tier)
Paid(tier)      == Rank(tier) >= Rank("paid-efficient")

(* _max: the last of some values, those outside the order left out.        *)
Highest(order, values) ==
  order[Max({Index(order, v) : v \in values \cap ToSet(order)})]

-----------------------------------------------------------------------------
(* System 0 and Laya.  An answer is a value that was given with enough     *)
(* confidence, or "unsure"; "unasked" is a question without an answer.     *)

Questions == {"reasoning_tier", "security_review", "change_risk",
              "planner_needed", "reviewer_needed"}

(* Mutant: a security flag says nothing about the review. *)
RelaxedSystem0(bundle) ==
  IF bundle.approval
  THEN [reasoning_tier |-> "human", planner_needed |-> "none", reviewer_needed |-> "human"]
  ELSE [q \in {} |-> "none"]

(* resolve_system0: the answers that explicit facts give.                  *)
System0(bundle) ==
  LET human == IF bundle.approval
               THEN {"reasoning_tier", "planner_needed", "reviewer_needed"} ELSE {}
      risky == IF bundle.sensitive THEN {"security_review", "change_risk"} ELSE {}
  IN  [q \in human \cup risky |->
         CASE q \in {"reasoning_tier", "reviewer_needed"} -> "human"
           [] q = "planner_needed"  -> "none"
           [] q = "security_review" -> "required"
           [] q = "change_risk"     -> "moderate"]

(* advise_execution: Laya is asked only what System 0 leaves open.         *)
Accepted(bundle, laya) ==
  LET floor == System0(bundle)
  IN  [q \in Questions |-> IF q \in DOMAIN floor THEN floor[q] ELSE laya[q]]

-----------------------------------------------------------------------------
(* Requirements and policy.                                                *)

ActivityClass(bundle) ==
  IF bundle.approval THEN "human.authority"
  ELSE IF bundle.transition THEN "governance.transition"
  ELSE CASE bundle.stage = "inception"    -> "inception.elaboration"
         [] bundle.stage = "construction" -> "construction.implementation"
         [] bundle.stage = "operations"   -> "operations.verification"
         [] OTHER                         -> "exploration.read_only"

TierFloor(activity) ==
  CASE activity = "inception.elaboration" -> "standard"
    [] activity = "human.authority"       -> "human"
    [] OTHER                              -> "local"

ActivityCapabilities(activity) ==
  CASE activity = "exploration.read_only"       -> {"workspace.read", "git.read"}
    [] activity = "inception.elaboration"       -> {"workspace.read", "workspace.write"}
    [] activity = "construction.implementation" -> {"workspace.read", "workspace.write", "shell.execute"}
    [] activity = "operations.verification"     -> {"workspace.read", "shell.execute"}
    [] activity = "governance.transition"       -> {"workspace.read"}
    [] activity = "human.authority"             -> {}

(* Mutant: an accepted tier replaces the activity's floor. *)
AnsweredTier(activity, answers) ==
  IF answers["reasoning_tier"] \in ToSet(ReasoningTiers)
  THEN answers["reasoning_tier"] ELSE TierFloor(activity)

ReasoningTier(activity, answers) ==
  Highest(ReasoningTiers, {TierFloor(activity), answers["reasoning_tier"]})

(* project_requirements.                                                   *)
Requirements(bundle, answers, independent) ==
  LET activity == ActivityClass(bundle)
      tier     == ReasoningTier(activity, answers)
      security == Highest(Security, {"normal", answers["security_review"]})
      human    == activity = "human.authority" \/ tier = "human"
      reviewer == Highest(Reviewers, {IF independent THEN "independent" ELSE "none",
                                      answers["reviewer_needed"]})
  IN  [activity  |-> activity,
       reasoning |-> tier,
       risk      |-> Highest(Risks, {IF bundle.risks THEN "moderate" ELSE "low",
                                     answers["change_risk"]}),
       security  |-> security,
       human     |-> human,
       planner   |-> IF human \/ answers["planner_needed"] \in {"unsure", "unasked"}
                     THEN "none" ELSE answers["planner_needed"],
       capabilities |->
         IF human THEN {}
         ELSE ActivityCapabilities(activity)
                \cup (IF security = "required" THEN {"workspace.read", "git.read"} ELSE {})
                \cup (IF reviewer = "independent" THEN {"isolated_reviewer"} ELSE {})]

(* requirements_for_activity, without a bundle.                            *)
RequirementsForActivity(activity, tier) ==
  [activity  |-> activity,
   reasoning |-> Highest(ReasoningTiers, {TierFloor(activity), tier}),
   risk |-> "low", security |-> "normal", human |-> tier = "human",
   planner |-> "none", capabilities |-> ActivityCapabilities(activity)]

(* execution_policy_for: the most expensive tiers executor and planner may *)
(* be chosen from; nothing for what a person has to do.                    *)
MaximumTier(r) ==
  CASE r.reasoning = "local"    -> "paid-efficient"
    [] r.reasoning = "standard" -> "paid-standard"
    [] r.reasoning = "frontier" -> "frontier"

PlannerTier(r) ==
  CASE r.planner = "local"      -> "free"
    [] r.planner = "generative" -> "paid-efficient"
    [] r.planner = "frontier"   -> "frontier"
    [] OTHER                    -> "none"

-----------------------------------------------------------------------------
(* The pool.                                                               *)

(* Mutant: usage that could not be accounted for blocks nothing. *)
AlwaysAccounted(unaccounted) == TRUE

(* summarize_economics(...)["unaccounted_paid_usage"] = 0.                 *)
PaidAccounted(unaccounted) == unaccounted = 0

(* _eligible for one candidate: the pool's permissions, what the request   *)
(* asks, and the ledger of the Work, when the request names one.  A tier   *)
(* without a configured budget has no limit.                               *)
Allowed(pool, r, ask, ledger, c) ==
  /\ Rank(c.tier) >= Rank(ask.minimum)
  /\ Rank(c.tier) <= Rank(ask.maximum)
  /\ Rank(c.tier) <= Rank(MaximumTier(r))
  /\ c.agent \in ask.agents
  /\ ask.purpose \in c.purposes
  /\ c.activities # {} => r.activity \in c.activities
  /\ Paid(c.tier) => pool.paid
  /\ c.tier = "frontier" => pool.frontier
  /\ ask.work => /\ Paid(c.tier) => PaidAccounted(ledger.unaccounted)
                 /\ c.tier \in DOMAIN pool.budgets =>
                      ledger.attempts[c.tier] < pool.budgets[c.tier]

(* The positions that remain, cheapest tier first, then as configured.     *)
Remaining(pool, r, ask, ledger) ==
  {i \in DOMAIN pool.candidates : Allowed(pool, r, ask, ledger, pool.candidates[i])}

Before(pool, i, j) ==
  LET ti == Rank(pool.candidates[i].tier)
      tj == Rank(pool.candidates[j].tier)
  IN  ti < tj \/ (ti = tj /\ i < j)

Place(pool, left, i) == Cardinality({j \in left : j = i \/ Before(pool, j, i)})

Eligible(pool, r, ask, ledger) ==
  LET left == Remaining(pool, r, ask, ledger)
  IN  [n \in 1 .. Cardinality(left) |->
         CHOOSE i \in left : Place(pool, left, i) = n]

-----------------------------------------------------------------------------
(* select_runtime.                                                         *)

(* manifest_for: reviewer isolation is claimed by no agent.                *)
Supports(agent, capability) ==
  capability \notin {"isolated_reviewer", "skills", "mcp", "subagents"}

(* _budget_blockers: a limited Work needs a projection that fits.          *)
BudgetBlockers(c, budget) ==
  IF ~budget.limited THEN {}
  ELSE IF ~budget.known \/ c.usage = "unknown" THEN {"budget-unavailable"}
  ELSE IF c.usage > budget.remaining THEN {"budget-exhausted"} ELSE {}

(* _admission_blockers, as the two signals _admission_signal tells apart.  *)
Unavailable(c, site) ==
  \/ c.agent \notin site.agents
  \/ c.model /\ ~site.models

Mismatched(c, r, context) ==
  \/ \E k \in r.capabilities : ~Supports(c.agent, k)
  \/ r.reasoning = "local" /\ ~c.model
  \/ r.security = "required" /\ c.locality = "remote"
  \/ context > c.limit

AdmissionBlockers(c, r, site) ==
  (IF Unavailable(c, site) THEN {"runtime-unavailable"} ELSE {})
    \cup (IF Mismatched(c, r, site.context) THEN {"capability-mismatch"} ELSE {})

PolicyBlockers(c) == IF c.policy THEN {} ELSE {"policy"}

Blockers(c, r, budget, site) ==
  PolicyBlockers(c) \cup BudgetBlockers(c, budget) \cup AdmissionBlockers(c, r, site)

(* Why a blocked first candidate is passed over.                           *)
FallbackReason(blockers) ==
  CASE "budget-exhausted" \in blockers    -> "budget-exhausted"
    [] "budget-unavailable" \in blockers  -> "budget-unavailable"
    [] "runtime-unavailable" \in blockers -> "runtime-unavailable"
    [] OTHER                              -> "capability-mismatch"

(* Mutant: any reason passes over the first candidate. *)
AnyFallback(route, r, budget, site, signal, current) ==
  IF signal = "ordinary-failure" THEN 0 ELSE IF signal = "none" THEN 1 ELSE current + 1

(* Where the search starts: 0 if there is nothing to search.  A failure    *)
(* signal has to be one the route allows, and is answered after the        *)
(* current candidate; without a signal the first candidate may only be     *)
(* passed over for a reason the route allows.                              *)
SearchFrom(route, r, budget, site, signal, current) ==
  LET first == Blockers(route.candidates[1], r, budget, site)
  IN  IF r.human \/ signal = "ordinary-failure" THEN 0
      ELSE IF signal # "none"
      THEN IF signal \in route.fallbacks THEN current + 1 ELSE 0
      ELSE IF first = {} THEN 1
      ELSE IF "policy" \in first \/ FallbackReason(first) \notin route.fallbacks THEN 0
      ELSE 2

(* The position of the selected candidate, 0 if there is none.             *)
SelectRuntime(route, r, budget, site, signal, current) ==
  LET from  == SearchFrom(route, r, budget, site, signal, current)
      clear == {i \in DOMAIN route.candidates :
                  /\ i >= from
                  /\ Blockers(route.candidates[i], r, budget, site) = {}}
  IN  IF from = 0 \/ clear = {} THEN 0 ELSE Min(clear)

(* select_from_runtime_pool: the position in the pool, 0 for an error.     *)
PoolFallbacks == {"quota", "runtime-unavailable", "budget-exhausted",
                  "budget-unavailable", "capability-mismatch"}

SelectFromPool(pool, r, ask, ledger, budget, site) ==
  LET order == Eligible(pool, r, ask, ledger)
      route == [candidates |-> [i \in DOMAIN order |-> pool.candidates[order[i]]],
                fallbacks  |-> PoolFallbacks]
      found == IF order = <<>> THEN 0 ELSE SelectRuntime(route, r, budget, site, "none", 0)
  IN  IF found = 0 THEN 0 ELSE order[found]

=============================================================================
