--------------------------- MODULE RuntimeEnvelope ---------------------------
(***************************************************************************)
(* From the runtime plan to the adapter: build_governed_runtime_plan       *)
(* selects a runtime under the call budgets and writes the execution       *)
(* envelope of a Work stage; the launcher records an attempt and starts a  *)
(* Core session whose runner, adapter_runner, is a separate process that   *)
(* reads the envelope back, records an attempt of its own and runs the     *)
(* adapter.  Hosts share the envelope file (one per Work and stage), the   *)
(* economics ledger and Core.                                              *)
(*                                                                         *)
(* A tier stands for the one runtime configured for it.  Without a runtime *)
(* of the caller's (a Construction launch) the pool chooses; otherwise the *)
(* runtime is one a person chose, here with a known tier, which the        *)
(* launcher and the envelope's routing context both carry.  What Core knows*)
(* of the Work is its revision (the digest of the read set), whether an    *)
(* approval is missing, and whether the actor still holds the role.        *)
(***************************************************************************)
EXTENDS Integers, Sequences, FiniteSets, FiniteSetsExt

CONSTANTS
  Hosts,
  Tiers,          \* economic tiers with a candidate, cheapest first
  CallBudget,     \* calls the configuration allows of each tier
  MaxPlans,       \* bound: plans built
  MaxRevisions,   \* bound: changes other actors make to the Work
  MaxLost         \* bound: ledger writes that fail

TierSet == {Tiers[i] : i \in DOMAIN Tiers}

ASSUME HostsAssumption  == IsFiniteSet(Hosts) /\ Hosts # {}
ASSUME TiersAssumption  ==
  /\ Tiers \in Seq(STRING)
  /\ \A i, j \in DOMAIN Tiers : Tiers[i] = Tiers[j] => i = j
ASSUME BudgetAssumption == CallBudget \in [TierSet -> Nat]
ASSUME BoundsAssumption ==
  /\ MaxPlans \in Nat /\ MaxRevisions \in Nat /\ MaxLost \in Nat

VARIABLES
  explicit,   \* whether people choose the runtimes; it never changes
  core,       \* the Work as Core knows it
  envelope,   \* execution-envelopes/<work>/<stage>.json
  attempts,   \* "attempt" events in the ledger, per tier
  lost,       \* attempts whose ledger write was swallowed, per tier
  begun,      \* launches the launchers began, per tier
  runs,       \* adapter runs, per tier
  plans,      \* plans built
  pc,
  held,       \* per host: the missing approvals of the decision it holds
  plan        \* per host: the plan it built, later the envelope it runs

vars == <<explicit, core, envelope, attempts, lost, begun, runs, plans, pc, held, plan>>

-----------------------------------------------------------------------------
Core     == [revision : Nat, boundary : BOOLEAN, authorized : BOOLEAN]
Envelope == [owner : Hosts, tier : TierSet, revision : Nat]
None     == [tier |-> "none"]

TypeOK ==
  /\ explicit \in BOOLEAN
  /\ core \in Core
  /\ envelope \in Envelope \cup {None}
  /\ \A count \in {attempts, lost, begun, runs} : count \in [TierSet -> Nat]
  /\ plans \in Nat
  /\ pc \in [Hosts -> {"idle", "decided", "planned", "attempted", "session", "adapter"}]
  /\ held \in [Hosts -> BOOLEAN]
  /\ plan \in [Hosts -> Envelope \cup {None}]

Init ==
  /\ explicit \in BOOLEAN
  /\ core \in [revision : {0}, boundary : BOOLEAN, authorized : BOOLEAN]
  /\ envelope = None
  /\ attempts = [t \in TierSet |-> 0]
  /\ lost = attempts /\ begun = attempts /\ runs = attempts
  /\ plans = 0
  /\ pc = [h \in Hosts |-> "idle"]
  /\ held = [h \in Hosts |-> FALSE]
  /\ plan = [h \in Hosts |-> None]

At(h, from, to) ==
  /\ pc[h] = from
  /\ pc' = [pc EXCEPT ![h] = to]

-----------------------------------------------------------------------------
(* The launcher.                                                           *)

InspectNext(h) ==
  /\ At(h, "idle", "decided")
  /\ held' = [held EXCEPT ![h] = core.boundary]
  /\ UNCHANGED <<core, envelope, attempts, lost, begun, runs, plans, plan>>

(* Mutant: no call budget is applied. *)
AnyBudget(t) == t \in TierSet

(* The call-budget filter of _eligible.                                    *)
WithinBudget(t) == attempts[t] < CallBudget[t]

(* select_from_runtime_pool: the cheapest tier that is left; a runtime the *)
(* human chose is not subject to the pool.                                 *)
Selectable(t) ==
  \/ explicit
  \/ /\ WithinBudget(t)
     /\ \A i, j \in DOMAIN Tiers :
          i < j /\ Tiers[j] = t => ~WithinBudget(Tiers[i])

(* The envelope is built against Core's revision and assignments of now    *)
(* and the approvals of the held decision, checked against the same        *)
(* snapshot, and written over the one that is there.  A stop envelope or   *)
(* an unauthorized actor is an error.                                      *)
BuildPlan(h) ==
  /\ plans < MaxPlans
  /\ At(h, "decided", "planned")
  /\ ~held[h]
  /\ core.authorized
  /\ \E t \in TierSet :
       /\ Selectable(t)
       /\ envelope' = [owner |-> h, tier |-> t, revision |-> core.revision]
  /\ plan' = [plan EXCEPT ![h] = envelope']
  /\ plans' = plans + 1
  /\ UNCHANGED <<core, attempts, lost, begun, runs, held>>

PlanFails(h) ==
  /\ At(h, "decided", "idle")
  /\ UNCHANGED <<core, envelope, attempts, lost, begun, runs, plans, held, plan>>

(* The launcher finds a session to reuse, or one that is already running.  *)
Decline(h) ==
  /\ At(h, "planned", "idle")
  /\ plan' = [plan EXCEPT ![h] = None]
  /\ UNCHANGED <<core, envelope, attempts, lost, begun, runs, plans, held>>

(* One "attempt" event of a tier; a failing write is swallowed.            *)
ChargeAttempt(t) ==
  \/ attempts' = [attempts EXCEPT ![t] = @ + 1] /\ UNCHANGED lost
  \/ /\ MapThenSumSet(LAMBDA u : lost[u], TierSet) < MaxLost
     /\ lost' = [lost EXCEPT ![t] = @ + 1] /\ UNCHANGED attempts

RecordAttempt(h) ==
  /\ At(h, "planned", "attempted")
  /\ ChargeAttempt(plan[h].tier)
  /\ begun' = [begun EXCEPT ![plan[h].tier] = @ + 1]
  /\ UNCHANGED <<core, envelope, runs, plans, held, plan>>

(* Core starts the session and its runner, or refuses.                     *)
CoreStarts(h) ==
  /\ At(h, "attempted", "session")
  /\ UNCHANGED <<core, envelope, attempts, lost, begun, runs, plans, held, plan>>

CoreRefuses(h) ==
  /\ At(h, "attempted", "idle")
  /\ plan' = [plan EXCEPT ![h] = None]
  /\ UNCHANGED <<core, envelope, attempts, lost, begun, runs, plans, held>>

-----------------------------------------------------------------------------
(* adapter_runner: the runner process of the session.                      *)

(* Mutant: the runner records no attempt of its own. *)
PrepareSilently(h) ==
  /\ At(h, "session", "adapter")
  /\ plan' = [plan EXCEPT ![h] = envelope]
  /\ runs' = [runs EXCEPT ![envelope.tier] = @ + 1]
  /\ UNCHANGED <<core, envelope, attempts, lost, begun, plans, held>>

(* verify_integrity and prepare_execution, without Core's current state.   *)
PrepareExecution(h) ==
  /\ At(h, "session", "adapter")
  /\ plan' = [plan EXCEPT ![h] = envelope]
  /\ ChargeAttempt(envelope.tier)
  /\ runs' = [runs EXCEPT ![envelope.tier] = @ + 1]
  /\ UNCHANGED <<core, envelope, begun, plans, held>>

(* Mutant: a failed runner leaves its host in limbo. *)
RunnerHangs(h) ==
  /\ At(h, "session", "failed")
  /\ plan' = [plan EXCEPT ![h] = None]
  /\ UNCHANGED <<core, envelope, attempts, lost, begun, runs, plans, held>>

(* A file it cannot read, an adapter that is not registered.               *)
RunnerFails(h) ==
  /\ At(h, "session", "idle")
  /\ plan' = [plan EXCEPT ![h] = None]
  /\ UNCHANGED <<core, envelope, attempts, lost, begun, runs, plans, held>>

AdapterEnds(h) ==
  /\ At(h, "adapter", "idle")
  /\ plan' = [plan EXCEPT ![h] = None]
  /\ UNCHANGED <<core, envelope, attempts, lost, begun, runs, plans, held>>

-----------------------------------------------------------------------------
(* Another actor changes the Work through Core.                            *)
WorkChanges ==
  /\ core.revision < MaxRevisions
  /\ core' \in [revision : {core.revision + 1}, boundary : BOOLEAN, authorized : BOOLEAN]
  /\ UNCHANGED <<envelope, attempts, lost, begun, runs, plans, pc, held, plan>>

Step(h) ==
  \/ InspectNext(h) \/ BuildPlan(h) \/ PlanFails(h) \/ Decline(h)
  \/ RecordAttempt(h) \/ CoreStarts(h) \/ CoreRefuses(h)
  \/ PrepareExecution(h) \/ RunnerFails(h) \/ AdapterEnds(h)

Next ==
  /\ (\E h \in Hosts : Step(h)) \/ WorkChanges
  /\ UNCHANGED explicit

Spec == Init /\ [][Next]_vars

-----------------------------------------------------------------------------
(* Properties.                                                             *)

(* The budget check and the recorded attempt are separate steps and hosts  *)
(* take no lock; nevertheless a tier is run automatically beyond its call  *)
(* budget at most once per further host and per attempt of it whose ledger *)
(* write was lost.                                                         *)
BudgetOvershootBounded ==
  ~explicit => \A t \in TierSet :
    runs[t] <= CallBudget[t] + (Cardinality(Hosts) - 1) + lost[t]

(* Every adapter run is charged to the tier that really ran, although the  *)
(* launcher charged the tier it planned and the envelope may have been     *)
(* replaced by another host's in between.                                  *)
RunsAreChargedToTheirTier ==
  \A t \in TierSet : runs[t] <= attempts[t] + lost[t]

(* "exhausted tier call budgets remove that tier from automatic            *)
(* selection": automatic selection passes a cheaper tier over only when    *)
(* its budget of launches has been used.                                   *)
OnlyExhaustedTiersAreRemoved ==
  [][\A h \in Hosts :
       BuildPlan(h) /\ ~explicit =>
         \A i, j \in DOMAIN Tiers :
           i < j /\ Tiers[j] = plan'[h].tier => begun[Tiers[i]] >= CallBudget[Tiers[i]]]_vars

(* "Adapters call verify_integrity and validate_current before mutation;   *)
(* stale revision, a new human boundary, revoked authority ... require     *)
(* recalculation": what an adapter starts to run is current.               *)
RevalidatedBeforeRunning ==
  [][\A h \in Hosts :
       PrepareExecution(h) =>
         /\ envelope.revision = core.revision
         /\ ~core.boundary
         /\ core.authorized]_vars

=============================================================================
