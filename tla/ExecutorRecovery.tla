--------------------------- MODULE ExecutorRecovery ---------------------------
(***************************************************************************)
(* run_with_recovery around a step that needs an executor: when the run    *)
(* fails and a person is there, they choose a provider and a model, which  *)
(* may be downloaded first, and the step is run again with them.  The      *)
(* step is a run of OpenCode (OpenCodeRunner) or of another agent; what    *)
(* the launcher around it records is the subject of SessionStore.          *)
(***************************************************************************)
EXTENDS OpenCodeRunner

CONSTANTS
  MaxRuns    \* bound: runs of the step

ASSUME MaxRunsAssumption == MaxRuns \in Nat

VARIABLES
  interactive,  \* input and output are a terminal
  choice,       \* selected_agent and selected_model
  offered,      \* the choices of recovery_groups, as they were discovered
  group,        \* the group whose models are shown
  wish,         \* ghost: what the person asked for last
  runs

vars == <<listed, run, orphans, mishaps, interactive, choice, offered, group, wish, runs>>
ask  == <<interactive, choice, offered, group, wish, runs>>

Agents  == {"opencode", "other"}
Choices == [agent : {"opencode"}, model : Models \cup {NoModel}]
             \cup [agent : {"other"}, model : {NoModel}]

(* recovery_groups: one group per provider of an OpenCode model, one per   *)
(* other agent.                                                            *)
Group(c) == IF c.agent = "other" THEN "other" ELSE Kind[c.model]

TypeOK ==
  /\ RunTypeOK
  /\ step \in {"begin", "discover", "preflight", "reading", "waiting", "ran", "elsewhere",
               "provider", "models", "done", "failed", "cancelled"}
  /\ interactive \in BOOLEAN
  /\ choice \in Choices /\ wish \in Choices
  /\ offered \subseteq {c \in Choices : c.agent = "other" \/ c.model \in Models}
  /\ group \in {"none", "other", "ollama", "lmstudio", "free", "paid"}

Init ==
  /\ RunInit
  /\ step = "begin"
  /\ interactive \in BOOLEAN
  /\ choice \in Choices /\ wish = choice
  /\ offered = {} /\ group = "none" /\ runs = 0

(* operation(selected_agent, selected_model).                              *)
Begin ==
  /\ step = "begin"
  /\ runs < MaxRuns /\ runs' = runs + 1
  /\ step' = IF choice.agent = "other" THEN "elsewhere"
             ELSE IF choice.model = NoModel THEN "discover" ELSE "preflight"
  /\ model' = choice.model
  /\ orphans' = orphans + (IF child \in {"runs", "dies"} /\ verdict # Raised THEN 1 ELSE 0)
  /\ child' = "none" /\ helper' = FALSE
  /\ pipe' = [s \in Streams |-> <<>>] /\ pump' = [s \in Streams |-> "ended"]
  /\ queue' = <<>> /\ closed' = {} /\ fatal' = FALSE /\ verdict' = Unset
  /\ heard' = [pending |-> 0, lines |-> 0, error |-> FALSE]
  /\ UNCHANGED <<listed, mishaps, interactive, choice, offered, group, wish>>

(* What recovery_groups finds: runtimes that do not answer and lists that  *)
(* cannot be had are left out.                                             *)
Offers ==
  LET opencode == {[agent |-> "opencode", model |-> m] : m \in Available}
      local    == {c \in opencode : Ollama(c.model)}
      other    == {[agent |-> "other", model |-> NoModel]}
  IN  {a \cup b : a \in {{}, local, opencode \ local, opencode}, b \in {{}, other}}

(* A failed run is recoverable; without a person it ends the command.      *)
Recover ==
  IF interactive
  THEN /\ offered' \in Offers
       /\ step' = IF offered' = {} THEN "cancelled" ELSE "provider"
  ELSE step' = "failed" /\ UNCHANGED offered

Still == UNCHANGED <<listed, model, child, helper, pipe, pump, queue, closed, fatal,
                     verdict, heard, orphans, mishaps>>

RunReturns ==
  /\ step = "ran"
  /\ IF verdict = 0 THEN step' = "done" /\ UNCHANGED offered ELSE Recover
  /\ Still /\ UNCHANGED <<interactive, choice, group, wish, runs>>

(* The run of another agent; an error that is no failed run is not         *)
(* recoverable.                                                            *)
OtherReturns ==
  /\ step = "elsewhere"
  /\ \/ step' \in {"done", "failed"} /\ UNCHANGED offered
     \/ Recover
  /\ Still /\ UNCHANGED <<interactive, choice, group, wish, runs>>

-----------------------------------------------------------------------------
(* select_executor_model.                                                  *)

Cancel ==
  /\ step = "provider"
  /\ step' = "cancelled"
  /\ Still /\ UNCHANGED ask

ChooseProvider ==
  /\ step = "provider"
  /\ group' \in {Group(c) : c \in offered}
  /\ step' = "models"
  /\ Still /\ UNCHANGED <<interactive, choice, offered, wish, runs>>

Back ==
  /\ step = "models"
  /\ step' = "provider" /\ group' = "none"
  /\ Still /\ UNCHANGED <<interactive, choice, offered, wish, runs>>

(* Mutant: the loop keeps the model it began with. *)
AgentOnly(c) ==
  /\ step' = "begin" /\ wish' = c
  /\ choice' = [choice EXCEPT !.agent = c.agent]
  /\ group' = "none" /\ offered' = {}
  /\ UNCHANGED <<interactive, runs>>

(* The choice goes to the next run of the step.                            *)
Choose(c) ==
  /\ step' = "begin" /\ wish' = c
  /\ choice' = c
  /\ group' = "none" /\ offered' = {}
  /\ UNCHANGED <<interactive, runs>>

ChooseModel ==
  /\ step = "models"
  /\ \E c \in offered : Group(c) = group /\ Choose(c)
  /\ Still

(* pull_ollama_model; a model without tools stays installed but is not     *)
(* taken, and the models shown stay as they were.                          *)
Pull ==
  /\ step = "models" /\ group = "ollama"
  /\ \E m \in {n \in Models : Ollama(n)} :
       /\ listed' = listed \cup {m}
       /\ IF m \in Tools THEN Choose([agent |-> "opencode", model |-> m])
          ELSE UNCHANGED <<step, ask>>
  /\ UNCHANGED <<model, child, helper, pipe, pump, queue, closed, fatal, verdict,
                 heard, orphans, mishaps>>

Person == Cancel \/ ChooseProvider \/ Back \/ ChooseModel \/ Pull

(* A model goes away.                                                      *)
Withdraw ==
  /\ Mishap
  /\ \E m \in listed : listed' = listed \ {m}
  /\ UNCHANGED <<run, orphans, ask>>

Next ==
  \/ Begin \/ RunReturns \/ OtherReturns \/ Person \/ Withdraw
  \/ (Supervise \/ Environment \/ ChildDies \/ \E s \in Streams : Pump(s)) /\ UNCHANGED ask

Spec == Init /\ [][Next]_vars /\ RunFairness

-----------------------------------------------------------------------------
(* The model that runs is the one the person asked for last, by argument   *)
(* or when the step failed; when they named none it is a free or local     *)
(* one: "Paid Anthropic Claude and OpenAI GPT models are not selected      *)
(* automatically" (discover_free_model, run_with_recovery).                *)
RunsWhatWasAsked ==
  step \in {"reading", "waiting"} =>
    /\ wish.agent = "opencode"
    /\ \/ model = wish.model
       \/ wish.model = NoModel /\ Kind[model] # "paid"

(* An exit code is given only once the child is gone: a run begins while   *)
(* the child of an earlier one is alive only if the supervisor of that one *)
(* raised because its own output was closed.                               *)
NoRunLeftBehind == orphans = 0

-----------------------------------------------------------------------------
(* What keeps them true.                                                   *)

(* The loop runs the step with what the person asked for last, and the     *)
(* supervisor keeps to it, from the choice of a model on.                  *)
KeepsToTheWish ==
  /\ choice = wish
  /\ step \in {"discover", "preflight", "reading", "waiting"} => wish.agent = "opencode"
  /\ step = "discover" => wish.model = NoModel
  /\ step \in {"preflight", "reading", "waiting"} =>
       model = wish.model \/ (wish.model = NoModel /\ Kind[model] # "paid")

RecoveryInv == TypeOK /\ SupervisionInv /\ KeepsToTheWish /\ NoRunLeftBehind

=============================================================================
