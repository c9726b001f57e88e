---------------------------- MODULE MCPaidPlanning ----------------------------
(* A small instance of PaidPlanning for TLC.                               *)
EXTENDS PaidPlanning, TLC

Candidate(agent, tier) ==
  [agent |-> agent, model |-> TRUE, tier |-> tier, purposes |-> {"executor", "planner"},
   activities |-> {}, usage |-> 0, limit |-> 1, locality |-> "local", policy |-> TRUE]

(* A local model, two paid planners and a frontier one.                    *)
SmallPool ==
  [paid |-> TRUE, frontier |-> TRUE,
   budgets |-> [t \in {"paid-efficient"} |-> 1],
   candidates |-> <<Candidate("codex", "paid-standard"), Candidate("opencode", "local"),
                    Candidate("codex", "paid-efficient"), Candidate("claude", "paid-efficient"),
                    Candidate("codex", "frontier")>>]

HostSymmetry == Permutations(Hosts)

=============================================================================
