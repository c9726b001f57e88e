---------------------------- MODULE OpenCodeRunner ----------------------------
(***************************************************************************)
(* run_opencode, the supervisor of one OpenCode process: it chooses a free *)
(* model when none is named, checks the model, starts the child and reads  *)
(* its two streams through two threads and a queue, until both are at      *)
(* their end or a line on stderr tells of a terminal provider error, upon  *)
(* which the child is killed.  There is no timeout.  The child may leave a *)
(* helper behind that keeps the streams open.                              *)
(***************************************************************************)
EXTENDS Integers, Sequences, FiniteSets

CONSTANTS
  Models,      \* names of models
  Ollamas,     \* those ollama serves,
  LMStudios,   \* those LM Studio serves,
  Paid,        \* and hosted ones that are not free
  Tools,       \* the ollama models that support tools
  NoModel,     \* no model is named
  MaxLines,    \* bound: lines a child writes
  MaxMishaps   \* bound: commands, threads and writes that fail

ASSUME ModelsAssumption == NoModel \notin Models /\ Tools \subseteq Models

ASSUME BoundsAssumption == MaxLines \in Nat /\ MaxMishaps \in Nat

VARIABLES
  listed,   \* models `opencode models` and `ollama list` know
  step,     \* where the supervisor and the command around it are
  model,    \* the model of the run
  child,    \* the OpenCode process
  helper,   \* a process the child started holds the streams open
  pipe,     \* per stream: the lines not read yet
  pump,     \* per stream: "reads", "ended" or "broken"
  queue,    \* what the threads read, NoLine for the end of a stream
  closed,   \* the streams the supervisor saw the end of
  fatal,    \* it saw a terminal provider error
  verdict,  \* its exit code
  heard,    \* ghost: the lines of the child that are still to be passed on,
            \* and whether it wrote a provider error
  orphans,  \* ghost: children still running when the next run began, and
            \* whose supervisor had not raised
  mishaps

run == <<step, model, child, helper, pipe, pump, queue, closed, fatal, verdict, heard>>

Streams == {"stdout", "stderr"}
Lines   == {"plain", "error"}
NoLine  == "end"

Exits  == {"succeeded", "failed"}
Unset  == -1
Raised == -2           \* the supervisor ended with an exception

(* What the name of a model tells of it: its provider, and whether it is   *)
(* free.                                                                   *)
Kind == [m \in Models |-> CASE m \in Ollamas -> "ollama"
                           [] m \in LMStudios \ Ollamas -> "lmstudio"
                           [] m \in Paid \ (Ollamas \cup LMStudios) -> "paid"
                           [] OTHER -> "free"]

Ollama(m) == Kind[m] = "ollama"

RunTypeOK ==
  /\ listed \subseteq Models
  /\ model \in Models \cup {NoModel}
  /\ child \in {"none", "runs", "dies", "killed"} \cup Exits
  /\ helper \in BOOLEAN
  /\ pipe \in [Streams -> Seq(Lines)]
  /\ pump \in [Streams -> {"reads", "ended", "broken"}]
  /\ queue \in Seq(Streams \X (Lines \cup {NoLine}))
  /\ closed \subseteq Streams /\ fatal \in BOOLEAN
  /\ verdict \in {0, 1, 69, 70, Unset, Raised}
  /\ heard \in [pending : Nat, lines : 0 .. MaxLines, error : BOOLEAN]
  /\ orphans \in Nat

RunInit ==
  /\ listed \in SUBSET Models
  /\ model = NoModel /\ child = "none" /\ helper = FALSE
  /\ pipe = [s \in Streams |-> <<>>] /\ pump = [s \in Streams |-> "ended"]
  /\ queue = <<>> /\ closed = {} /\ fatal = FALSE /\ verdict = Unset
  /\ heard = [pending |-> 0, lines |-> 0, error |-> FALSE]
  /\ orphans = 0 /\ mishaps = 0

Mishap == mishaps < MaxMishaps /\ mishaps' = mishaps + 1

-----------------------------------------------------------------------------
(* Which model.                                                            *)

(* list_available_models without ollama, and list_ollama_agent_models.     *)
Available  == {m \in listed : Ollama(m) => m \in Tools}

(* Mutant: anything that is available is a candidate. *)
AnyModel == Available

(* discover_free_model considers models that are free or local,            *)
FreeModels == {m \in Available : Kind[m] # "paid"}

(* _free_model_rank: and takes a local one first.                          *)
Preferred ==
  LET local == {m \in FreeModels : Kind[m] \in {"ollama", "lmstudio"}}
  IN  IF local # {} THEN local ELSE FreeModels

(* ollama_model_supports_tools, then _validate_selected_model with an      *)
(* environment that declares the ollama model to OpenCode.                 *)
Valid(m) == m \in listed /\ (Ollama(m) => m \in Tools)

(* The end of a run that did not start a child.                            *)
Refuse ==
  /\ step' = "ran" /\ verdict' = 69
  /\ UNCHANGED <<model, child, helper, pipe, pump, queue, closed, fatal, heard>>

Discover ==
  /\ step = "discover"
  /\ IF FreeModels = {} THEN Refuse
     ELSE /\ step' = "preflight"
          /\ model' \in Preferred
          /\ UNCHANGED <<child, helper, pipe, pump, queue, closed, fatal, verdict, heard>>
  /\ UNCHANGED <<listed, orphans, mishaps>>

Preflight ==
  /\ step = "preflight"
  /\ IF ~Valid(model) THEN Refuse
     ELSE /\ step' = "reading"
          /\ child' = "runs"
          /\ pump' = [s \in Streams |-> "reads"]
          /\ UNCHANGED <<model, helper, pipe, queue, closed, fatal, verdict, heard>>
  /\ UNCHANGED <<listed, orphans, mishaps>>

(* A command of either step times out or cannot be run.                    *)
CommandFails ==
  /\ step \in {"discover", "preflight"}
  /\ Mishap /\ Refuse
  /\ UNCHANGED <<listed, orphans>>

-----------------------------------------------------------------------------
(* The child.                                                              *)

Supervised == step \in {"reading", "waiting"}

ChildWrites(s, line) ==
  /\ Supervised /\ child = "runs"
  /\ heard.lines < MaxLines
  /\ pipe' = [pipe EXCEPT ![s] = Append(@, line)]
  /\ heard' = [pending |-> heard.pending + 1, lines |-> heard.lines + 1,
               error |-> heard.error \/ (s = "stderr" /\ line = "error")]
  /\ UNCHANGED <<listed, step, model, child, helper, pump, queue, closed, fatal,
                 verdict, orphans, mishaps>>

ChildExits ==
  /\ child = "runs"
  /\ child' \in Exits
  /\ helper' \in BOOLEAN
  /\ UNCHANGED <<listed, step, model, pipe, pump, queue, closed, fatal,
                 verdict, heard, orphans, mishaps>>

(* The signal arrives.                                                     *)
ChildDies ==
  /\ child = "dies"
  /\ child' = "killed"
  /\ helper' \in BOOLEAN
  /\ UNCHANGED <<listed, step, model, pipe, pump, queue, closed, fatal,
                 verdict, heard, orphans, mishaps>>

HelperEnds ==
  /\ helper /\ helper' = FALSE
  /\ UNCHANGED <<listed, step, model, child, pipe, pump, queue, closed, fatal,
                 verdict, heard, orphans, mishaps>>

-----------------------------------------------------------------------------
(* The threads (_pump): a line, or the end of the stream once nobody has   *)
(* it open, goes to the queue.  They end with the supervisor.              *)

Ended == child \in Exits \cup {"killed"}

Pump(s) ==
  /\ Supervised /\ pump[s] = "reads"
  /\ IF pipe[s] # <<>>
     THEN /\ queue' = Append(queue, <<s, Head(pipe[s])>>)
          /\ pipe' = [pipe EXCEPT ![s] = Tail(@)]
          /\ UNCHANGED pump
     ELSE /\ Ended /\ ~helper
          /\ queue' = Append(queue, <<s, NoLine>>)
          /\ pump' = [pump EXCEPT ![s] = "ended"]
          /\ UNCHANGED pipe
  /\ UNCHANGED <<listed, step, model, child, helper, closed, fatal, verdict,
                 heard, orphans, mishaps>>

(* A line that cannot be decoded ends the thread; the rest is never read.  *)
PumpBreaks(s) ==
  /\ Supervised /\ pump[s] = "reads" /\ pipe[s] # <<>>
  /\ Mishap
  /\ queue' = Append(queue, <<s, NoLine>>)
  /\ pump' = [pump EXCEPT ![s] = "broken"]
  /\ UNCHANGED <<listed, step, model, child, helper, pipe, closed, fatal, verdict,
                 heard, orphans>>

-----------------------------------------------------------------------------
(* The supervisor.                                                         *)

Got(s, line) == step = "reading" /\ queue # <<>> /\ Head(queue) = <<s, line>>

(* Mutant: the end of one stream is enough. *)
StopAtFirstEnd(s) ==
  /\ Got(s, NoLine)
  /\ queue' = Tail(queue) /\ closed' = closed \cup {s}
  /\ step' = "waiting"
  /\ UNCHANGED <<listed, model, child, helper, pipe, pump, fatal, verdict, heard,
                 orphans, mishaps>>

StreamEnds(s) ==
  /\ Got(s, NoLine)
  /\ queue' = Tail(queue)
  /\ closed' = closed \cup {s}
  /\ step' = IF closed' = Streams THEN "waiting" ELSE "reading"
  /\ UNCHANGED <<listed, model, child, helper, pipe, pump, fatal, verdict, heard,
                 orphans, mishaps>>

(* Mutant: after the kill the streams are read to their end. *)
KillAndReadOn(s, line) ==
  /\ Got(s, line)
  /\ queue' = Tail(queue)
  /\ heard' = [heard EXCEPT !.pending = @ - 1]
  /\ LET terminal == s = "stderr" /\ line = "error"
     IN  /\ fatal' = (fatal \/ terminal)
         /\ child' = IF terminal /\ child = "runs" THEN "dies" ELSE child
  /\ UNCHANGED <<listed, step, model, helper, pipe, pump, closed, verdict, orphans, mishaps>>

(* A line is passed on; a terminal error kills the child and ends the      *)
(* reading.                                                                *)
PassOn(s, line) ==
  /\ Got(s, line)
  /\ queue' = Tail(queue)
  /\ heard' = [heard EXCEPT !.pending = @ - 1]
  /\ IF s = "stderr" /\ line = "error"
     THEN /\ fatal' = TRUE /\ step' = "waiting"
          /\ child' = IF child = "runs" THEN "dies" ELSE child
     ELSE UNCHANGED <<fatal, step, child>>
  /\ UNCHANGED <<listed, model, helper, pipe, pump, closed, verdict, orphans, mishaps>>

(* The own output is closed: the exception leaves the child as it is.      *)
OutputFails ==
  /\ step = "reading" /\ queue # <<>> /\ Head(queue)[2] # NoLine
  /\ Mishap
  /\ step' = "ran" /\ verdict' = Raised
  /\ UNCHANGED <<listed, model, child, helper, pipe, pump, queue, closed, fatal, heard, orphans>>

(* Mutant: a child that was killed is not waited for. *)
EndAtOnce ==
  /\ step = "waiting"
  /\ fatal \/ Ended
  /\ step' = "ran"
  /\ verdict' = IF fatal THEN 70 ELSE IF child = "succeeded" THEN 0 ELSE 1
  /\ UNCHANGED <<listed, model, child, helper, pipe, pump, queue, closed, fatal, heard,
                 orphans, mishaps>>

(* process.wait() and the exit code.                                       *)
RunEnds ==
  /\ step = "waiting"
  /\ Ended
  /\ step' = "ran"
  /\ verdict' = IF fatal THEN 70 ELSE IF child = "succeeded" THEN 0 ELSE 1
  /\ UNCHANGED <<listed, model, child, helper, pipe, pump, queue, closed, fatal, heard,
                 orphans, mishaps>>

Supervise ==
  \/ Discover \/ Preflight
  \/ \E s \in Streams : StreamEnds(s) \/ \E line \in Lines : PassOn(s, line)
  \/ RunEnds

Environment ==
  \/ \E s \in Streams, line \in Lines : ChildWrites(s, line)
  \/ ChildExits \/ HelperEnds
  \/ CommandFails \/ OutputFails
  \/ \E s \in Streams : PumpBreaks(s)

RunFairness ==
  /\ WF_run(Supervise)
  /\ \A s \in Streams : WF_run(Pump(s))
  /\ WF_run(ChildDies)

-----------------------------------------------------------------------------
(* Properties.                                                             *)

(* The supervisor reports success only when OpenCode itself ended with     *)
(* success, all it wrote was passed on, and it wrote no terminal provider  *)
(* error (run_opencode), whatever the order the two threads fill the queue *)
(* in; a stream that could not be decoded is the exception.                *)
SuccessIsClean ==
  verdict = 0 => /\ child = "succeeded"
                 /\ \/ heard.pending = 0 /\ ~heard.error
                    \/ \E s \in Streams : pump[s] = "broken"

(* "Fail-fast supervisor": a terminal provider error on stderr ends the    *)
(* run, although the child hangs and although a helper keeps the streams   *)
(* open, if the thread that reads stderr lives.                            *)
ErrorEndsRun ==
  (step = "reading" /\ "error" \in {pipe["stderr"][i] : i \in DOMAIN pipe["stderr"]})
    ~> (step \notin {"reading", "waiting"} \/ pump["stderr"] = "broken")

-----------------------------------------------------------------------------
(* What keeps SuccessIsClean true.                                         *)

(* Whether the end of a stream waits in the queue.                         *)
Due(s) == IF pump[s] = "reads" \/ s \in closed THEN 0 ELSE 1

(* A line is in its pipe or in the queue until it is passed on.            *)
LinesKept ==
  Supervised =>
    heard.pending = Len(pipe["stdout"]) + Len(pipe["stderr"]) + Len(queue)
                      - Due("stdout") - Due("stderr")

(* The end of a stream is in the queue once its thread is done, and comes  *)
(* after all of its lines.                                                 *)
EndsAreLast ==
  Supervised =>
    \A s \in Streams :
      /\ s \in closed => pump[s] # "reads" /\ \A i \in DOMAIN queue : queue[i][1] # s
      /\ Due(s) = 1 <=> \E i \in DOMAIN queue : queue[i] = <<s, NoLine>>
      /\ \A i, j \in DOMAIN queue :
           queue[i] = <<s, NoLine>> /\ i < j => queue[j][1] # s

(* A thread ends when nothing is left to be read, ever.                    *)
EndedIsEmpty ==
  Supervised => \A s \in Streams : pump[s] = "ended" => pipe[s] = <<>> /\ Ended

(* A provider error is seen, or is where a line is.                        *)
ErrorIsKept ==
  Supervised /\ heard.error =>
    \/ fatal
    \/ \E i \in DOMAIN pipe["stderr"] : pipe["stderr"][i] = "error"
    \/ \E i \in DOMAIN queue : queue[i] = <<"stderr", "error">>

(* The reading stops at the end of both streams or at an error.            *)
ReadToTheEnd ==
  /\ step = "reading" => ~fatal
  /\ step = "waiting" => fatal \/ closed = Streams

(* Before the child is started nothing is left of the run before.          *)
Fresh ==
  step \in {"discover", "preflight"} =>
    /\ child = "none" /\ ~fatal /\ closed = {} /\ queue = <<>>
    /\ \A s \in Streams : pipe[s] = <<>>
    /\ heard.pending = 0 /\ ~heard.error

(* There is no exit code while the run lasts, and none but that of an      *)
(* exception while the child is alive.                                     *)
VerdictIsLast ==
  /\ Supervised \/ step \in {"discover", "preflight"} => verdict = Unset
  /\ child \in {"runs", "dies"} => Supervised \/ verdict = Raised

SupervisionInv ==
  /\ LinesKept /\ EndsAreLast /\ EndedIsEmpty /\ ErrorIsKept
  /\ ReadToTheEnd /\ Fresh /\ VerdictIsLast /\ SuccessIsClean

=============================================================================
