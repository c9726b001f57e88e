--------------------------- MODULE SingleExecution ---------------------------
(***************************************************************************)
(* What launching promises about the execution of one Work stage: there is *)
(* at most one execution at a time; a finished one is either final or      *)
(* leaves the stage open for the next; nothing runs after a final one.     *)
(***************************************************************************)
EXTENDS Naturals

VARIABLES state,       \* of the newest execution
          executions   \* how many there have been

Init == state = "open" /\ executions = 0

Prepare ==
  /\ state = "open"
  /\ state' = "prepared"
  /\ executions' = executions + 1

Run ==
  /\ state = "prepared"
  /\ state' = "running"
  /\ UNCHANGED executions

(* "done": usable output; "stuck": completed, but its result is missing.   *)
End ==
  /\ state = "running"
  /\ state' \in {"open", "done", "stuck"}
  /\ UNCHANGED executions

Next == Prepare \/ Run \/ End

Spec == Init /\ [][Next]_<<state, executions>>

=============================================================================
