----------------------- MODULE ExecutorRecoveryProofs -----------------------
(***************************************************************************)
(* What TLAPS proves of the supervisor of OpenCode and of the loop around  *)
(* it, for every set of models, every number of lines and of runs.  The    *)
(* argument is that of a pipeline: a line is in one place only, and the    *)
(* end of a stream is behind all of its lines.                             *)
(***************************************************************************)
EXTENDS ExecutorRecovery, TLAPS

Entries == Streams \X (Lines \cup {NoLine})
Busy    == {"discover", "preflight", "reading", "waiting"}

-----------------------------------------------------------------------------
(* Sequences and streams.                                                  *)

(* What Append does.                                                       *)
LEMMA AppendIs ==
  ASSUME NEW S, NEW q \in Seq(S), NEW x \in S
  PROVE  /\ Append(q, x) \in Seq(S)
         /\ Len(q) \in Nat /\ Len(Append(q, x)) = Len(q) + 1
         /\ DOMAIN q = 1 .. Len(q) /\ DOMAIN Append(q, x) = 1 .. Len(q) + 1
         /\ \A i \in 1 .. Len(q) : Append(q, x)[i] = q[i]
         /\ Append(q, x)[Len(q) + 1] = x
  OBVIOUS

(* What Head and Tail do.                                                  *)
LEMMA TailIs ==
  ASSUME NEW S, NEW q \in Seq(S), q # <<>>
  PROVE  /\ Tail(q) \in Seq(S) /\ Head(q) \in S
         /\ Len(q) \in Nat \ {0} /\ Len(Tail(q)) = Len(q) - 1
         /\ DOMAIN q = 1 .. Len(q) /\ DOMAIN Tail(q) = 1 .. Len(q) - 1
         /\ \A i \in 1 .. Len(q) - 1 : Tail(q)[i] = q[i + 1]
         /\ q[1] = Head(q)
  OBVIOUS

(* The streams, the lines and what is queued are different things.         *)
LEMMA NamesAreDistinct ==
  /\ Streams = {"stdout", "stderr"} /\ "stdout" # "stderr"
  /\ Lines = {"plain", "error"} /\ NoLine \notin Lines
  /\ \A s, t \in Streams, a, b \in Lines \cup {NoLine} :
       <<s, a>> = <<t, b>> <=> s = t /\ a = b
  /\ \A s \in Streams, a \in Lines \cup {NoLine} :
       /\ <<s, a>> \in Entries
       /\ <<s, a>>[1] = s /\ <<s, a>>[2] = a
  BY DEF Streams, Lines, NoLine, Entries

(* A stream that is due is so once.                                        *)
LEMMA DueIs ==
  ASSUME NEW s
  PROVE  /\ Due(s) \in {0, 1}
         /\ Due(s) = 1 <=> pump[s] # "reads" /\ s \notin closed
  BY DEF Due

(* What is queued is at least the ends that are due.                       *)
LEMMA QueueHoldsTheEnds ==
  ASSUME queue \in Seq(Entries), EndsAreLast, Supervised
  PROVE  Len(queue) >= Due("stdout") + Due("stderr")
<1>1. Len(queue) \in Nat /\ DOMAIN queue = 1 .. Len(queue)
  OBVIOUS
<1>2. \A s \in Streams : Due(s) = 1 => \E i \in DOMAIN queue : queue[i] = <<s, NoLine>>
  BY DEF EndsAreLast
<1>3. Due("stdout") \in {0, 1} /\ Due("stderr") \in {0, 1}
  BY DueIs
<1>4. CASE Due("stdout") = 1 /\ Due("stderr") = 1
  <2>1. PICK i \in DOMAIN queue : queue[i] = <<"stdout", NoLine>>
    BY <1>2, <1>4 DEF Streams
  <2>2. PICK j \in DOMAIN queue : queue[j] = <<"stderr", NoLine>>
    BY <1>2, <1>4 DEF Streams
  <2>3. i # j
    BY <2>1, <2>2, NamesAreDistinct
  <2>4. QED
    BY <1>1, <1>4, <2>3
<1>5. CASE Due("stdout") = 1 /\ Due("stderr") = 0
  <2>1. PICK i \in DOMAIN queue : queue[i] = <<"stdout", NoLine>>
    BY <1>2, <1>5 DEF Streams
  <2>2. QED
    BY <1>1, <1>5
<1>6. CASE Due("stdout") = 0 /\ Due("stderr") = 1
  <2>1. PICK i \in DOMAIN queue : queue[i] = <<"stderr", NoLine>>
    BY <1>2, <1>6 DEF Streams
  <2>2. QED
    BY <1>1, <1>6
<1>7. QED
  BY <1>1, <1>3, <1>4, <1>5, <1>6

-----------------------------------------------------------------------------
(* Types.                                                                  *)

(* Each variable of the supervisor has its type after every step.          *)
LEMMA RunKeepsTypes ==
  ASSUME TypeOK, SupervisionInv,
         \/ Supervise \/ Environment \/ ChildDies \/ \E s \in Streams : Pump(s),
         UNCHANGED ask
  PROVE  TypeOK'
<1>1. RunTypeOK
  BY DEF TypeOK
<1>2. /\ step' \in {"begin", "discover", "preflight", "reading", "waiting", "ran", "elsewhere",
                     "provider", "models", "done", "failed", "cancelled"}
      /\ RunTypeOK'
  <2>1. CASE Discover
    <3>1. FreeModels \subseteq Models /\ Preferred \subseteq FreeModels
      BY <1>1 DEF RunTypeOK, FreeModels, Available, Preferred
    <3>2. QED
      BY <2>1, <1>1, <3>1 DEF TypeOK, RunTypeOK, Discover, Refuse
  <2>2. CASE Preflight
    BY <2>2, <1>1 DEF TypeOK, RunTypeOK, Preflight, Refuse
  <2>3. CASE \E s \in Streams : StreamEnds(s)
    <3>1. PICK s \in Streams : StreamEnds(s)
      BY <2>3
    <3>2. queue \in Seq(Entries) /\ queue # <<>>
      BY <3>1, <1>1 DEF RunTypeOK, StreamEnds, Got, Entries
    <3>3. queue' \in Seq(Entries)
      BY <3>1, <3>2, TailIs DEF StreamEnds
    <3>4. QED
      BY <3>1, <3>3, <1>1 DEF TypeOK, RunTypeOK, StreamEnds, Entries
  <2>4. CASE \E s \in Streams, line \in Lines : PassOn(s, line)
    <3>1. PICK s \in Streams, line \in Lines : PassOn(s, line)
      BY <2>4
    <3>2. queue \in Seq(Entries) /\ queue # <<>> /\ Head(queue) = <<s, line>> /\ Supervised
      BY <3>1, <1>1 DEF RunTypeOK, PassOn, Got, Entries, Supervised
    <3>3. queue' = Tail(queue) /\ queue' \in Seq(Entries) /\ Len(queue) \in Nat \ {0}
      BY <3>1, <3>2, TailIs DEF PassOn
    <3>4. Len(queue) - Due("stdout") - Due("stderr") > 0
      <4> DEFINE D == Due("stdout") + Due("stderr")
      <4>1. Due("stdout") \in {0, 1} /\ Due("stderr") \in {0, 1} /\ D <= Len(queue)
        BY <3>2, QueueHoldsTheEnds, DueIs DEF SupervisionInv
      <4>2. ASSUME D = Len(queue) PROVE FALSE
        <5>1. DOMAIN queue = 1 .. Len(queue) /\ queue[1] = <<s, line>> /\ line # NoLine
          BY <3>2, TailIs, NamesAreDistinct
        <5>2. \A t \in Streams : Due(t) = 1 => \E i \in 2 .. Len(queue) : queue[i] = <<t, NoLine>>
          <6>1. \A t \in Streams : queue[1] # <<t, NoLine>>
            BY <5>1, NamesAreDistinct
          <6>2. \A t \in Streams : Due(t) = 1 => \E i \in DOMAIN queue : queue[i] = <<t, NoLine>>
            BY <3>2 DEF SupervisionInv, EndsAreLast
          <6>3. \A i \in DOMAIN queue : i = 1 \/ i \in 2 .. Len(queue)
            BY <3>3, <5>1
          <6>4. QED
            BY <6>1, <6>2, <6>3
        <5>3. Len(queue) \in {1, 2}
          BY <4>1, <4>2, <3>3
        <5>4. \E t \in Streams : Due(t) = 1
          BY <4>1, <4>2, <3>3 DEF Streams
        <5>5. Len(queue) = 2
          BY <5>2, <5>3, <5>4
        <5>6. Due("stdout") = 1 /\ Due("stderr") = 1
          BY <4>1, <4>2, <5>5
        <5>7. queue[2] = <<"stdout", NoLine>> /\ queue[2] = <<"stderr", NoLine>>
          BY <5>2, <5>5, <5>6 DEF Streams
        <5>8. QED
          BY <5>7, NamesAreDistinct
      <4>3. QED
        BY <4>1, <4>2, <3>3
    <3>5. heard.pending > 0
      <4>1. Len(pipe["stdout"]) \in Nat /\ Len(pipe["stderr"]) \in Nat
        BY <1>1 DEF RunTypeOK, Streams
      <4>2. heard.pending = Len(pipe["stdout"]) + Len(pipe["stderr"]) + Len(queue)
                              - Due("stdout") - Due("stderr")
        BY <3>2 DEF SupervisionInv, LinesKept
      <4>3. Due("stdout") \in {0, 1} /\ Due("stderr") \in {0, 1}
        BY DueIs
      <4>4. \A a, b, c \in Nat, d, e \in {0, 1} : c - d - e > 0 => a + b + c - d - e > 0
        OBVIOUS
      <4>5. QED
        BY <3>3, <3>4, <4>1, <4>2, <4>3, <4>4
    <3>6. heard' \in [pending : Nat, lines : 0 .. MaxLines, error : BOOLEAN]
      <4>1. /\ heard \in [pending : Nat, lines : 0 .. MaxLines, error : BOOLEAN]
            /\ heard' = [heard EXCEPT !.pending = heard.pending - 1]
        BY <3>1, <1>1 DEF RunTypeOK, PassOn
      <4>2. heard.pending \in Nat /\ heard.pending - 1 \in Nat
        BY <3>5, <4>1
      <4>3. QED
        BY <4>1, <4>2
    <3>7. QED
      BY <3>1, <3>3, <3>6, <1>1 DEF TypeOK, RunTypeOK, PassOn, Entries
  <2>5. CASE RunEnds
    BY <2>5, <1>1 DEF TypeOK, RunTypeOK, RunEnds
  <2>6. CASE \E s \in Streams, line \in Lines : ChildWrites(s, line)
    <3>1. PICK s \in Streams, line \in Lines : ChildWrites(s, line)
      BY <2>6
    <3>2. pipe' \in [Streams -> Seq(Lines)]
      BY <3>1, <1>1, AppendIs DEF RunTypeOK, ChildWrites
    <3>3. heard' \in [pending : Nat, lines : 0 .. MaxLines, error : BOOLEAN]
      <4>1. heard.lines < MaxLines /\ heard.lines \in Nat /\ heard.pending \in Nat
            /\ heard.error \in BOOLEAN
        BY <3>1, <1>1, BoundsAssumption DEF RunTypeOK, ChildWrites
      <4>2. heard.lines + 1 \in 0 .. MaxLines
        BY <4>1, BoundsAssumption
      <4>3. QED
        BY <3>1, <4>1, <4>2 DEF ChildWrites
    <3>4. QED
      BY <3>1, <3>2, <3>3, <1>1 DEF TypeOK, RunTypeOK, ChildWrites
  <2>7. CASE ChildExits \/ ChildDies \/ HelperEnds
    <3>1. child' \in {"none", "runs", "dies", "killed"} \cup Exits /\ helper' \in BOOLEAN
      BY <2>7, <1>1 DEF RunTypeOK, ChildExits, ChildDies, HelperEnds
    <3>2. UNCHANGED <<listed, step, model, pipe, pump, queue, closed, fatal, verdict, heard,
                      orphans>>
      BY <2>7 DEF ChildExits, ChildDies, HelperEnds
    <3>3. QED
      BY <3>1, <3>2, <1>1 DEF TypeOK, RunTypeOK
  <2>8. CASE CommandFails \/ OutputFails
    BY <2>8, <1>1 DEF TypeOK, RunTypeOK, CommandFails, OutputFails, Refuse
  <2>9. CASE \E s \in Streams : PumpBreaks(s)
    <3>1. PICK s \in Streams : PumpBreaks(s)
      BY <2>9
    <3>2. queue \in Seq(Entries)
      BY <1>1 DEF RunTypeOK, Entries
    <3>3. queue' \in Seq(Entries)
      BY <3>1, <3>2, AppendIs, NamesAreDistinct DEF PumpBreaks
    <3>4. QED
      BY <3>1, <3>3, <1>1 DEF TypeOK, RunTypeOK, PumpBreaks, Entries
  <2>10. CASE \E s \in Streams : Pump(s)
    <3>1. PICK s \in Streams : Pump(s)
      BY <2>10
    <3>2. queue \in Seq(Entries) /\ pipe[s] \in Seq(Lines)
      BY <1>1 DEF RunTypeOK, Entries
    <3>3. UNCHANGED <<listed, step, model, child, helper, closed, fatal, verdict, heard, orphans>>
      BY <3>1 DEF Pump
    <3>4. CASE pipe[s] # <<>>
      <4>1. Head(pipe[s]) \in Lines /\ Tail(pipe[s]) \in Seq(Lines)
        BY <3>2, <3>4, TailIs
      <4>2. <<s, Head(pipe[s])>> \in Entries
        BY <4>1, NamesAreDistinct
      <4>3. /\ queue' = Append(queue, <<s, Head(pipe[s])>>)
            /\ pipe' = [pipe EXCEPT ![s] = Tail(pipe[s])] /\ pump' = pump
        BY <3>1, <3>4 DEF Pump
      <4>4. queue' \in Seq(Entries)
        BY <3>2, <4>2, <4>3, AppendIs
      <4>5. pipe' \in [Streams -> Seq(Lines)]
        BY <4>1, <4>3, <1>1 DEF RunTypeOK
      <4>6. QED
        BY <3>3, <4>3, <4>4, <4>5, <1>1 DEF TypeOK, RunTypeOK, Entries
    <3>5. CASE pipe[s] = <<>>
      <4>1. queue' = Append(queue, <<s, NoLine>>) /\ pipe' = pipe
            /\ pump' = [pump EXCEPT ![s] = "ended"]
        BY <3>1, <3>5 DEF Pump
      <4>2. queue' \in Seq(Entries)
        BY <3>2, <4>1, AppendIs, NamesAreDistinct
      <4>3. QED
        BY <3>3, <4>1, <4>2, <1>1 DEF TypeOK, RunTypeOK, Entries
    <3>6. QED
      BY <3>4, <3>5
  <2>11. QED
    BY <2>1, <2>2, <2>3, <2>4, <2>5, <2>6, <2>7, <2>8, <2>9, <2>10 DEF Supervise, Environment
<1>3. QED
  BY <1>2 DEF TypeOK, ask

(* What recovery_groups offers can be chosen.                              *)
LEMMA OffersAreChoices ==
  ASSUME listed \subseteq Models
  PROVE  \A o \in Offers : o \subseteq {c \in Choices : c.agent = "other" \/ c.model \in Models}
<1>1. Available \subseteq Models
  BY DEF Available
<1>2. QED
  BY <1>1 DEF Offers, Choices

(* And so has each variable of the loop.                                   *)
LEMMA LoopKeepsTypes ==
  ASSUME TypeOK, Begin \/ RunReturns \/ OtherReturns \/ Person \/ Withdraw
  PROVE  TypeOK'
<1>1. RunTypeOK /\ listed \subseteq Models
  BY DEF TypeOK, RunTypeOK
<1>2. CASE Begin
  <2>1. model' \in Models \cup {NoModel}
    BY <1>2 DEF Begin, TypeOK, Choices
  <2>2. orphans' \in Nat
    BY <1>2, <1>1 DEF Begin, RunTypeOK
  <2>3. heard' \in [pending : Nat, lines : 0 .. MaxLines, error : BOOLEAN]
    BY <1>2, BoundsAssumption DEF Begin
  <2>4. pipe' \in [Streams -> Seq(Lines)] /\ queue' \in Seq(Streams \X (Lines \cup {NoLine}))
    BY <1>2 DEF Begin
  <2>5. QED
    BY <1>2, <1>1, <2>1, <2>2, <2>3, <2>4 DEF Begin, TypeOK, RunTypeOK
<1>3. CASE RunReturns \/ OtherReturns
  <2>1. offered' \subseteq {c \in Choices : c.agent = "other" \/ c.model \in Models}
    BY <1>3, <1>1, OffersAreChoices DEF RunReturns, OtherReturns, Recover, TypeOK
  <2>2. QED
    BY <1>3, <1>1, <2>1 DEF RunReturns, OtherReturns, Recover, Still, TypeOK, RunTypeOK
<1>4. CASE Cancel \/ Back
  BY <1>4, <1>1 DEF Cancel, Back, Still, ask, TypeOK, RunTypeOK
<1>5. CASE ChooseProvider
  <2>1. group' \in {"other", "ollama", "lmstudio", "free", "paid"}
    BY <1>5 DEF ChooseProvider, Group, Kind, TypeOK
  <2>2. QED
    BY <1>5, <1>1, <2>1 DEF ChooseProvider, Still, TypeOK, RunTypeOK
<1>6. CASE ChooseModel
  BY <1>6, <1>1 DEF ChooseModel, Choose, Still, TypeOK, RunTypeOK
<1>7. CASE Pull
  <2>1. \A m \in Models : [agent |-> "opencode", model |-> m] \in Choices
    BY DEF Choices
  <2>2. QED
    BY <1>7, <1>1, <2>1 DEF Pull, Choose, ask, TypeOK, RunTypeOK
<1>8. CASE Withdraw
  BY <1>8, <1>1 DEF Withdraw, run, ask, TypeOK, RunTypeOK
<1>9. QED
  BY <1>2, <1>3, <1>4, <1>5, <1>6, <1>7, <1>8 DEF Person

-----------------------------------------------------------------------------
(* The queue.                                                              *)

(* What a thread puts in the queue comes after what is there: a thread     *)
(* that still reads has not queued the end of its stream.                  *)
LEMMA EnqueueKeepsEnds ==
  ASSUME EndsAreLast, Supervised, queue \in Seq(Entries),
         pump \in [Streams -> {"reads", "ended", "broken"}],
         NEW s \in Streams, pump[s] = "reads",
         NEW x \in Lines \cup {NoLine},
         queue' = Append(queue, <<s, x>>), closed' = closed,
         \/ x # NoLine /\ pump' = pump
         \/ /\ x = NoLine /\ pump'[s] # "reads"
            /\ \A t \in Streams \ {s} : pump'[t] = pump[t]
  PROVE  EndsAreLast'
<1> DEFINE n == Len(queue) + 1
<1>1. /\ Len(queue) \in Nat /\ DOMAIN queue = 1 .. Len(queue) /\ DOMAIN queue' = 1 .. n
      /\ \A i \in DOMAIN queue : queue'[i] = queue[i] /\ i \in DOMAIN queue'
      /\ queue'[n] = <<s, x>> /\ n \in DOMAIN queue'
      /\ \A i \in DOMAIN queue' : i \in DOMAIN queue \/ i = n
  BY AppendIs, NamesAreDistinct
<1>2. /\ s \notin closed
      /\ \A i \in DOMAIN queue : queue[i] # <<s, NoLine>>
  BY DueIs DEF EndsAreLast
<1> SUFFICES ASSUME NEW t \in Streams
             PROVE  /\ t \in closed' =>
                         pump'[t] # "reads" /\ \A i \in DOMAIN queue' : queue'[i][1] # t
                    /\ Due(t)' = 1 <=> \E i \in DOMAIN queue' : queue'[i] = <<t, NoLine>>
                    /\ \A i, j \in DOMAIN queue' :
                         queue'[i] = <<t, NoLine>> /\ i < j => queue'[j][1] # t
  BY DEF EndsAreLast
<1>3. /\ t \in closed => pump[t] # "reads" /\ \A i \in DOMAIN queue : queue[i][1] # t
      /\ Due(t) = 1 <=> \E i \in DOMAIN queue : queue[i] = <<t, NoLine>>
      /\ \A i, j \in DOMAIN queue :
           queue[i] = <<t, NoLine>> /\ i < j => queue[j][1] # t
  BY DEF EndsAreLast
<1>4. ASSUME t \in closed'
      PROVE  pump'[t] # "reads" /\ \A i \in DOMAIN queue' : queue'[i][1] # t
  BY <1>1, <1>2, <1>3, <1>4, NamesAreDistinct
<1>5. Due(t)' = 1 <=> \E i \in DOMAIN queue' : queue'[i] = <<t, NoLine>>
  <2>1. CASE t = s /\ x = NoLine
    <3>1. Due(t)' = 1
      BY <2>1, <1>2 DEF Due
    <3>2. QED
      BY <3>1, <2>1, <1>1
  <2>2. CASE t # s \/ x # NoLine
    <3>1. pump'[t] = pump[t]
      BY <2>2
    <3>2. Due(t)' = Due(t)
      BY <3>1 DEF Due
    <3>3. queue'[n] # <<t, NoLine>>
      BY <2>2, <1>1, NamesAreDistinct
    <3>4. QED
      BY <3>2, <3>3, <1>1, <1>3
  <2>3. QED
    BY <2>1, <2>2
<1>6. ASSUME NEW i \in DOMAIN queue', NEW j \in DOMAIN queue',
             queue'[i] = <<t, NoLine>>, i < j
      PROVE  queue'[j][1] # t
  <2>1. i \in DOMAIN queue
    BY <1>1, <1>6
  <2>2. t # s
    BY <2>1, <1>1, <1>2, <1>6
  <2>3. CASE j = n
    BY <2>2, <2>3, <1>1, NamesAreDistinct
  <2>4. CASE j \in DOMAIN queue
    BY <2>1, <2>4, <1>1, <1>3, <1>6
  <2>5. QED
    BY <2>3, <2>4, <1>1
<1>7. QED
  BY <1>4, <1>5, <1>6

(* Taking the head keeps the order; when it was the end of a stream, the   *)
(* stream is closed and has nothing more in the queue.                     *)
LEMMA DequeueKeepsEnds ==
  ASSUME EndsAreLast, Supervised, queue \in Seq(Entries), queue # <<>>,
         NEW s \in Streams, NEW x \in Lines \cup {NoLine}, Head(queue) = <<s, x>>,
         queue' = Tail(queue), pump' = pump,
         closed' = IF x = NoLine THEN closed \cup {s} ELSE closed
  PROVE  /\ EndsAreLast'
         /\ x = NoLine => Due(s) = 1 /\ Due(s)' = 0
         /\ \A t \in Streams : x # NoLine \/ t # s => Due(t)' = Due(t)
<1>1. /\ Len(queue) \in Nat \ {0} /\ DOMAIN queue = 1 .. Len(queue)
      /\ DOMAIN queue' = 1 .. Len(queue) - 1
      /\ \A i \in DOMAIN queue' : i + 1 \in DOMAIN queue /\ queue'[i] = queue[i + 1]
      /\ \A i \in DOMAIN queue : i = 1 \/ (i - 1 \in DOMAIN queue' /\ (i - 1) + 1 = i)
      /\ 1 \in DOMAIN queue /\ queue[1] = <<s, x>>
  <2>1. \A i \in DOMAIN queue' : i + 1 \in DOMAIN queue /\ queue'[i] = queue[i + 1]
    BY TailIs
  <2>2. QED
    BY <2>1, TailIs
<1>2. x = NoLine => /\ Due(s) = 1 /\ Due(s)' = 0
                    /\ pump[s] # "reads" /\ s \notin closed
                    /\ \A j \in DOMAIN queue : 1 < j => queue[j][1] # s
  <2>1. CASE x = NoLine
    <3>1. Due(s) = 1 /\ \A j \in DOMAIN queue : 1 < j => queue[j][1] # s
      <4>1. /\ Due(s) = 1 <=> \E i \in DOMAIN queue : queue[i] = <<s, NoLine>>
            /\ \A i, j \in DOMAIN queue :
                 queue[i] = <<s, NoLine>> /\ i < j => queue[j][1] # s
        BY DEF EndsAreLast
      <4>2. 1 \in DOMAIN queue /\ queue[1] = <<s, NoLine>>
        BY <2>1, <1>1
      <4>3. QED
        BY <4>1, <4>2
    <3>2. pump[s] # "reads" /\ s \notin closed
      BY <3>1, DueIs
    <3>3. Due(s)' = 0
      BY <2>1 DEF Due
    <3>4. QED
      BY <3>1, <3>2, <3>3
  <2>2. QED
    BY <2>1
<1>3. \A t \in Streams : x # NoLine \/ t # s => Due(t)' = Due(t)
  BY DEF Due
<1>4. ASSUME NEW t \in Streams
      PROVE  /\ t \in closed' =>
                  pump'[t] # "reads" /\ \A i \in DOMAIN queue' : queue'[i][1] # t
             /\ Due(t)' = 1 <=> \E i \in DOMAIN queue' : queue'[i] = <<t, NoLine>>
             /\ \A i, j \in DOMAIN queue' :
                  queue'[i] = <<t, NoLine>> /\ i < j => queue'[j][1] # t
  <2>1. /\ t \in closed => pump[t] # "reads" /\ \A i \in DOMAIN queue : queue[i][1] # t
        /\ Due(t) = 1 <=> \E i \in DOMAIN queue : queue[i] = <<t, NoLine>>
        /\ \A i, j \in DOMAIN queue :
             queue[i] = <<t, NoLine>> /\ i < j => queue[j][1] # t
    BY DEF EndsAreLast
  <2>2. \A i, j \in DOMAIN queue' :
           queue'[i] = <<t, NoLine>> /\ i < j => queue'[j][1] # t
    <3>1. \A i, j \in DOMAIN queue' : i < j => i + 1 < j + 1
      BY <1>1
    <3>2. QED
      BY <3>1, <1>1, <2>1
  <2>3. CASE x = NoLine /\ t = s
    <3>1. \A i \in DOMAIN queue' : 1 < i + 1
      BY <1>1
    <3>2. \A i \in DOMAIN queue' : queue'[i][1] # t
      BY <3>1, <1>1, <1>2, <2>3
    <3>3. \A i \in DOMAIN queue' : queue'[i] # <<t, NoLine>>
      BY <3>2, NamesAreDistinct
    <3>4. QED
      BY <3>2, <3>3, <2>2, <2>3, <1>2
  <2>4. CASE x # NoLine \/ t # s
    <3>1. queue[1] # <<t, NoLine>>
      BY <2>4, <1>1, NamesAreDistinct
    <3>2. (\E i \in DOMAIN queue : queue[i] = <<t, NoLine>>)
             <=> \E i \in DOMAIN queue' : queue'[i] = <<t, NoLine>>
      BY <3>1, <1>1
    <3>3. t \in closed' <=> t \in closed
      BY <2>4
    <3>4. QED
      BY <3>2, <3>3, <2>1, <2>2, <2>4, <1>1, <1>3
  <2>5. QED
    BY <2>3, <2>4
<1>5. QED
  BY <1>2, <1>3, <1>4 DEF EndsAreLast

-----------------------------------------------------------------------------
(* The steps of a run.                                                     *)

(* While the run lasts there is no verdict, so three parts of the          *)
(* invariant have nothing to say.                                          *)
LEMMA WhileItRuns ==
  ASSUME Supervised', verdict' = Unset
  PROVE  Fresh' /\ VerdictIsLast' /\ SuccessIsClean'
BY DEF Supervised, Fresh, VerdictIsLast, SuccessIsClean, Unset

(* Steps outside of a run: those of the loop, and of a child that was left *)
(* behind.                                                                 *)
LEMMA OutsideARun ==
  ASSUME SupervisionInv, step \notin Busy, step' \notin Busy,
         UNCHANGED <<pump, verdict, heard>>,
         child' \in {"runs", "dies"} => child \in {"runs", "dies"},
         child = "succeeded" => child' = "succeeded"
  PROVE  SupervisionInv'
<1>1. ~Supervised' /\ ~Supervised
  BY DEF Supervised, Busy
<1>2. LinesKept' /\ EndsAreLast' /\ EndedIsEmpty' /\ ErrorIsKept'
  BY <1>1 DEF LinesKept, EndsAreLast, EndedIsEmpty, ErrorIsKept
<1>3. ReadToTheEnd' /\ Fresh'
  BY DEF ReadToTheEnd, Fresh, Busy
<1>4. VerdictIsLast'
  BY <1>1 DEF VerdictIsLast, SupervisionInv, Busy
<1>5. SuccessIsClean'
  BY DEF SuccessIsClean, SupervisionInv
<1>6. QED
  BY <1>2, <1>3, <1>4, <1>5 DEF SupervisionInv

(* A run begins with nothing of the run before.                            *)
LEMMA BeginKeeps ==
  ASSUME SupervisionInv, Begin
  PROVE  SupervisionInv'
<1>1. ~Supervised' /\ verdict' = Unset
  BY DEF Begin, Supervised
<1>2. LinesKept' /\ EndsAreLast' /\ EndedIsEmpty' /\ ErrorIsKept'
  BY <1>1 DEF LinesKept, EndsAreLast, EndedIsEmpty, ErrorIsKept
<1>3. ReadToTheEnd'
  BY DEF ReadToTheEnd, Begin
<1>4. Fresh' /\ VerdictIsLast' /\ SuccessIsClean'
  BY <1>1 DEF Fresh, VerdictIsLast, SuccessIsClean, Begin, Unset
<1>5. QED
  BY <1>2, <1>3, <1>4 DEF SupervisionInv

(* A run that is refused ends with an exit code of its own, and no child.  *)
LEMMA RefuseKeeps ==
  ASSUME SupervisionInv, step \in {"discover", "preflight"}, Refuse
  PROVE  SupervisionInv'
<1>1. ~Supervised' /\ child' = "none"
  BY DEF Refuse, Supervised, SupervisionInv, Fresh
<1>2. LinesKept' /\ EndsAreLast' /\ EndedIsEmpty' /\ ErrorIsKept'
  BY <1>1 DEF LinesKept, EndsAreLast, EndedIsEmpty, ErrorIsKept
<1>3. ReadToTheEnd' /\ Fresh' /\ VerdictIsLast' /\ SuccessIsClean'
  BY <1>1 DEF ReadToTheEnd, Fresh, VerdictIsLast, SuccessIsClean, Refuse
<1>4. QED
  BY <1>2, <1>3 DEF SupervisionInv

LEMMA DiscoverKeeps ==
  ASSUME SupervisionInv, Discover
  PROVE  SupervisionInv'
<1>1. CASE FreeModels = {}
  BY <1>1, RefuseKeeps DEF Discover
<1>2. CASE FreeModels # {}
  <2>1. /\ step = "discover" /\ step' = "preflight"
        /\ UNCHANGED <<child, helper, pipe, pump, queue, closed, fatal, verdict, heard>>
    BY <1>2 DEF Discover
  <2>2. ~Supervised'
    BY <2>1 DEF Supervised
  <2>3. LinesKept' /\ EndsAreLast' /\ EndedIsEmpty' /\ ErrorIsKept'
    BY <2>2 DEF LinesKept, EndsAreLast, EndedIsEmpty, ErrorIsKept
  <2>4. ReadToTheEnd' /\ Fresh' /\ VerdictIsLast' /\ SuccessIsClean'
    BY <2>1 DEF ReadToTheEnd, Fresh, VerdictIsLast, SuccessIsClean, SupervisionInv, Supervised, Unset
  <2>5. QED
    BY <2>3, <2>4 DEF SupervisionInv
<1>3. QED
  BY <1>1, <1>2

(* The child starts with two empty pipes and nothing in the queue.         *)
LEMMA PreflightKeeps ==
  ASSUME SupervisionInv, Preflight
  PROVE  SupervisionInv'
<1>1. CASE ~Valid(model)
  BY <1>1, RefuseKeeps DEF Preflight
<1>2. CASE Valid(model)
  <2>1. /\ step = "preflight" /\ step' = "reading"
        /\ pump' = [s \in Streams |-> "reads"]
        /\ UNCHANGED <<pipe, queue, closed, fatal, verdict, heard>>
    BY <1>2 DEF Preflight
  <2>2. /\ ~fatal /\ closed = {} /\ queue = <<>> /\ heard.pending = 0 /\ ~heard.error
        /\ pipe["stdout"] = <<>> /\ pipe["stderr"] = <<>> /\ verdict = Unset
    BY <2>1 DEF SupervisionInv, Fresh, VerdictIsLast, Streams
  <2>3. Supervised'
    BY <2>1 DEF Supervised
  <2>4. \A s \in Streams : Due(s)' = 0 /\ pump'[s] = "reads"
    BY <2>1 DEF Due
  <2>5. LinesKept'
    <3>1. Due("stdout")' = 0 /\ Due("stderr")' = 0
      BY <2>4 DEF Streams
    <3>2. QED
      BY <2>1, <2>2, <3>1 DEF LinesKept
  <2>6. EndsAreLast' /\ EndedIsEmpty'
    BY <2>1, <2>2, <2>4 DEF EndsAreLast, EndedIsEmpty
  <2>7. ErrorIsKept' /\ ReadToTheEnd'
    BY <2>1, <2>2 DEF ErrorIsKept, ReadToTheEnd
  <2>8. QED
    BY <2>1, <2>2, <2>3, <2>5, <2>6, <2>7, WhileItRuns DEF SupervisionInv
<1>3. QED
  BY <1>1, <1>2

(* The exception of a closed output, and the end of the process.           *)
LEMMA OutputFailsKeeps ==
  ASSUME SupervisionInv, OutputFails
  PROVE  SupervisionInv'
<1>1. ~Supervised' /\ verdict' = Raised /\ step' = "ran"
  BY DEF OutputFails, Supervised
<1>2. LinesKept' /\ EndsAreLast' /\ EndedIsEmpty' /\ ErrorIsKept'
  BY <1>1 DEF LinesKept, EndsAreLast, EndedIsEmpty, ErrorIsKept
<1>3. ReadToTheEnd' /\ Fresh' /\ VerdictIsLast' /\ SuccessIsClean'
  BY <1>1 DEF ReadToTheEnd, Fresh, VerdictIsLast, SuccessIsClean, Raised, Unset
<1>4. QED
  BY <1>2, <1>3 DEF SupervisionInv

(* What the two threads and the child leave when the supervisor stops      *)
(* reading without an error: both streams are closed, so nothing is in the *)
(* queue; a stream whose thread was not broken is empty.                   *)
LEMMA NothingIsLeft ==
  ASSUME RunTypeOK, SupervisionInv, step = "waiting", ~fatal
  PROVE  \/ heard.pending = 0 /\ ~heard.error
         \/ \E s \in Streams : pump[s] = "broken"
<1> SUFFICES ASSUME \A s \in Streams : pump[s] # "broken"
             PROVE  heard.pending = 0 /\ ~heard.error
  OBVIOUS
<1>1. Supervised /\ closed = Streams
  BY DEF Supervised, SupervisionInv, ReadToTheEnd
<1>2. queue = <<>>
  <2>1. queue \in Seq(Entries)
    BY DEF RunTypeOK, Entries
  <2>2. \A s \in Streams, i \in DOMAIN queue : queue[i][1] # s
    BY <1>1 DEF SupervisionInv, EndsAreLast
  <2>3. ASSUME queue # <<>> PROVE FALSE
    <3>1. 1 \in DOMAIN queue /\ queue[1] \in Entries
      BY <2>1, <2>3, TailIs
    <3>2. queue[1][1] \in Streams
      BY <3>1 DEF Entries
    <3>3. QED
      BY <2>2, <3>1, <3>2
  <2>4. QED
    BY <2>3
<1>3. \A s \in Streams : pump[s] = "ended"
  BY <1>1 DEF RunTypeOK, SupervisionInv, EndsAreLast
<1>4. pipe["stdout"] = <<>> /\ pipe["stderr"] = <<>>
  BY <1>1, <1>3 DEF SupervisionInv, EndedIsEmpty, Streams
<1>5. Due("stdout") = 0 /\ Due("stderr") = 0
  BY <1>1 DEF Due, Streams
<1>6. heard.pending = 0
  BY <1>1, <1>2, <1>4, <1>5 DEF SupervisionInv, LinesKept
<1>7. ~heard.error
  BY <1>1, <1>2, <1>4 DEF SupervisionInv, ErrorIsKept, RunTypeOK
<1>8. QED
  BY <1>6, <1>7

LEMMA RunEndsKeeps ==
  ASSUME RunTypeOK, SupervisionInv, RunEnds
  PROVE  SupervisionInv'
<1>1. /\ step = "waiting" /\ step' = "ran" /\ Ended /\ ~Supervised'
      /\ UNCHANGED <<child, pump, fatal, heard>>
  BY DEF RunEnds, Supervised
<1>2. LinesKept' /\ EndsAreLast' /\ EndedIsEmpty' /\ ErrorIsKept'
  BY <1>1 DEF LinesKept, EndsAreLast, EndedIsEmpty, ErrorIsKept
<1>3. ReadToTheEnd' /\ Fresh' /\ VerdictIsLast'
  BY <1>1 DEF ReadToTheEnd, Fresh, VerdictIsLast, Ended, Exits
<1>4. ASSUME verdict' = 0
      PROVE  /\ child' = "succeeded"
             /\ \/ heard'.pending = 0 /\ ~heard'.error
                \/ \E s \in Streams : pump'[s] = "broken"
  <2>1. ~fatal /\ child = "succeeded"
    BY <1>4 DEF RunEnds
  <2>2. QED
    BY <2>1, <1>1, NothingIsLeft
<1>5. SuccessIsClean'
  BY <1>4 DEF SuccessIsClean
<1>6. QED
  BY <1>2, <1>3, <1>5 DEF SupervisionInv

-----------------------------------------------------------------------------
(* The steps while the child is read.                                      *)

(* A line that is written is one more to pass on.                          *)
LEMMA ChildWritesKeeps ==
  ASSUME TypeOK, SupervisionInv, NEW s \in Streams, NEW line \in Lines, ChildWrites(s, line)
  PROVE  SupervisionInv'
<1>1. /\ Supervised /\ Supervised' /\ child = "runs"
      /\ pipe' = [pipe EXCEPT ![s] = Append(pipe[s], line)]
      /\ heard' = [pending |-> heard.pending + 1, lines |-> heard.lines + 1,
                   error |-> heard.error \/ (s = "stderr" /\ line = "error")]
      /\ UNCHANGED <<step, child, pump, queue, closed, fatal, verdict>>
  BY DEF ChildWrites, Supervised
<1>2. /\ pipe[s] \in Seq(Lines) /\ s \in DOMAIN pipe
      /\ \A t \in Streams : t # s => pipe'[t] = pipe[t]
      /\ pipe'[s] = Append(pipe[s], line)
  BY <1>1 DEF TypeOK, RunTypeOK
<1>3. Fresh' /\ VerdictIsLast' /\ SuccessIsClean'
  BY <1>1, WhileItRuns DEF SupervisionInv, VerdictIsLast
<1>4. EndsAreLast'
  <2>1. \A t \in Streams : Due(t)' = Due(t)
    BY <1>1 DEF Due
  <2>2. QED
    BY <1>1, <2>1 DEF SupervisionInv, EndsAreLast
<1>5. LinesKept'
  <2>1. /\ Due("stdout")' = Due("stdout") /\ Due("stderr")' = Due("stderr")
        /\ Due("stdout") \in {0, 1} /\ Due("stderr") \in {0, 1}
    BY <1>1, DueIs DEF Due
  <2>2. /\ heard'.pending = heard.pending + 1 /\ queue' = queue
        /\ Len(queue) \in Nat /\ Len(pipe["stdout"]) \in Nat /\ Len(pipe["stderr"]) \in Nat
    BY <1>1 DEF TypeOK, RunTypeOK, Streams
  <2> DEFINE a == Len(pipe["stdout"])
             b == Len(pipe["stderr"])
             c == Len(queue)
             d == Due("stdout")
             e == Due("stderr")
  <2>3. heard.pending = a + b + c - d - e
    BY <1>1 DEF SupervisionInv, LinesKept
  <2>4. \/ Len(pipe'["stdout"]) = a + 1 /\ Len(pipe'["stderr"]) = b
        \/ Len(pipe'["stdout"]) = a /\ Len(pipe'["stderr"]) = b + 1
    <3>1. CASE s = "stdout"
      BY <3>1, <1>2, AppendIs, NamesAreDistinct
    <3>2. CASE s = "stderr"
      BY <3>2, <1>2, AppendIs, NamesAreDistinct
    <3>3. QED
      BY <3>1, <3>2 DEF Streams
  <2>5. /\ a \in Nat /\ b \in Nat /\ c \in Nat /\ d \in {0, 1} /\ e \in {0, 1}
        /\ Len(queue') = c /\ Due("stdout")' = d /\ Due("stderr")' = e
    BY <2>1, <2>2
  <2> HIDE DEF a, b, c, d, e
  <2>6. /\ heard.pending + 1 = (a + 1) + b + c - d - e
        /\ heard.pending + 1 = a + (b + 1) + c - d - e
    BY <2>3, <2>5
  <2>7. heard'.pending = Len(pipe'["stdout"]) + Len(pipe'["stderr"]) + Len(queue')
                           - Due("stdout")' - Due("stderr")'
    BY <2>2, <2>4, <2>5, <2>6
  <2>8. QED
    BY <2>7 DEF LinesKept
<1>6. EndedIsEmpty'
  BY <1>1 DEF SupervisionInv, EndedIsEmpty, Ended, Exits
<1>7. ErrorIsKept'
  <2> SUFFICES ASSUME heard'.error, ~fatal
               PROVE  \/ \E i \in DOMAIN pipe'["stderr"] : pipe'["stderr"][i] = "error"
                      \/ \E i \in DOMAIN queue' : queue'[i] = <<"stderr", "error">>
    BY <1>1 DEF ErrorIsKept
  <2>1. CASE s = "stderr" /\ line = "error"
    <3>1. /\ Len(pipe[s]) + 1 \in DOMAIN pipe'[s]
          /\ pipe'[s][Len(pipe[s]) + 1] = "error"
      BY <2>1, <1>2, AppendIs
    <3>2. QED
      BY <2>1, <3>1
  <2>2. CASE ~(s = "stderr" /\ line = "error")
    <3>1. heard.error
      BY <2>2, <1>1 DEF TypeOK, RunTypeOK
    <3>2. \/ \E i \in DOMAIN pipe["stderr"] : pipe["stderr"][i] = "error"
          \/ \E i \in DOMAIN queue : queue[i] = <<"stderr", "error">>
      BY <3>1, <1>1 DEF SupervisionInv, ErrorIsKept
    <3>3. ASSUME NEW i \in DOMAIN pipe["stderr"]
          PROVE  i \in DOMAIN pipe'["stderr"] /\ pipe'["stderr"][i] = pipe["stderr"][i]
      <4>1. CASE s = "stderr"
        BY <4>1, <1>2, AppendIs
      <4>2. CASE s # "stderr"
        BY <4>2, <1>2 DEF Streams
      <4>3. QED
        BY <4>1, <4>2
    <3>4. QED
      BY <3>2, <3>3, <1>1
  <2>3. QED
    BY <2>1, <2>2
<1>8. ReadToTheEnd'
  BY <1>1 DEF SupervisionInv, ReadToTheEnd
<1>9. QED
  BY <1>3, <1>4, <1>5, <1>6, <1>7, <1>8 DEF SupervisionInv

(* The end of the child, of its helper and the arrival of the signal, with *)
(* or without a supervisor.                                                *)
LEMMA ChildEndsKeeps ==
  ASSUME SupervisionInv, ChildExits \/ ChildDies \/ HelperEnds
  PROVE  SupervisionInv'
<1>1. /\ UNCHANGED <<step, pipe, pump, queue, closed, fatal, verdict, heard>>
      /\ child' = child \/ (child \in {"runs", "dies"} /\ child' \in Exits \cup {"killed"})
  BY DEF ChildExits, ChildDies, HelperEnds
<1>2. LinesKept' /\ EndsAreLast'
  BY <1>1 DEF SupervisionInv, LinesKept, EndsAreLast, Due, Supervised
<1>3. EndedIsEmpty'
  BY <1>1 DEF SupervisionInv, EndedIsEmpty, Ended, Supervised
<1>4. ErrorIsKept' /\ ReadToTheEnd'
  BY <1>1 DEF SupervisionInv, ErrorIsKept, ReadToTheEnd, Supervised
<1>5. Fresh'
  BY <1>1 DEF SupervisionInv, Fresh
<1>6. VerdictIsLast'
  BY <1>1 DEF SupervisionInv, VerdictIsLast, Supervised, Exits
<1>7. SuccessIsClean'
  BY <1>1 DEF SupervisionInv, SuccessIsClean
<1>8. QED
  BY <1>2, <1>3, <1>4, <1>5, <1>6, <1>7 DEF SupervisionInv

(* A thread moves the first line of its pipe to the end of the queue.      *)
LEMMA PumpLineKeeps ==
  ASSUME TypeOK, SupervisionInv, NEW s \in Streams, Pump(s), pipe[s] # <<>>
  PROVE  SupervisionInv'
<1>1. /\ Supervised /\ Supervised' /\ pump[s] = "reads"
      /\ queue' = Append(queue, <<s, Head(pipe[s])>>)
      /\ pipe' = [pipe EXCEPT ![s] = Tail(pipe[s])]
      /\ UNCHANGED <<step, child, helper, pump, closed, fatal, verdict, heard>>
  BY DEF Pump, Supervised
<1>2. /\ pipe[s] \in Seq(Lines) /\ pipe'[s] = Tail(pipe[s])
      /\ \A t \in Streams : t # s => pipe'[t] = pipe[t]
      /\ queue \in Seq(Entries) /\ pump \in [Streams -> {"reads", "ended", "broken"}]
  BY <1>1 DEF TypeOK, RunTypeOK, Entries
<1> DEFINE x == Head(pipe[s])
<1>3. x \in Lines /\ x # NoLine /\ <<s, x>> \in Entries
  <2>1. x \in Lines
    BY <1>2, TailIs
  <2>2. QED
    BY <2>1, NamesAreDistinct
<1>4. Fresh' /\ VerdictIsLast' /\ SuccessIsClean'
  BY <1>1, WhileItRuns DEF SupervisionInv, VerdictIsLast
<1>5. EndsAreLast'
  BY <1>1, <1>2, <1>3, EnqueueKeepsEnds DEF SupervisionInv
<1>6. LinesKept'
  <2>1. /\ Due("stdout")' = Due("stdout") /\ Due("stderr")' = Due("stderr")
        /\ Due("stdout") \in {0, 1} /\ Due("stderr") \in {0, 1}
    BY <1>1, DueIs DEF Due
  <2>2. /\ heard'.pending = heard.pending
        /\ Len(queue) \in Nat /\ Len(pipe["stdout"]) \in Nat /\ Len(pipe["stderr"]) \in Nat
    BY <1>1 DEF TypeOK, RunTypeOK, Streams
  <2> DEFINE a == Len(pipe["stdout"])
             b == Len(pipe["stderr"])
             c == Len(queue)
             d == Due("stdout")
             e == Due("stderr")
  <2>3. heard.pending = a + b + c - d - e
    BY <1>1 DEF SupervisionInv, LinesKept
  <2>4. \/ Len(pipe'["stdout"]) = a - 1 /\ Len(pipe'["stderr"]) = b
        \/ Len(pipe'["stdout"]) = a /\ Len(pipe'["stderr"]) = b - 1
    <3>1. CASE s = "stdout"
      BY <3>1, <1>2, TailIs, NamesAreDistinct
    <3>2. CASE s = "stderr"
      BY <3>2, <1>2, TailIs, NamesAreDistinct
    <3>3. QED
      BY <3>1, <3>2 DEF Streams
  <2>5. Len(queue') = c + 1
    BY <1>1, <1>2, <1>3, AppendIs
  <2>6. /\ a \in Nat /\ b \in Nat /\ c \in Nat /\ d \in {0, 1} /\ e \in {0, 1}
        /\ Due("stdout")' = d /\ Due("stderr")' = e
    BY <2>1, <2>2
  <2> HIDE DEF a, b, c, d, e
  <2>7. /\ heard.pending = (a - 1) + b + (c + 1) - d - e
        /\ heard.pending = a + (b - 1) + (c + 1) - d - e
    BY <2>3, <2>6
  <2>8. heard'.pending = Len(pipe'["stdout"]) + Len(pipe'["stderr"]) + Len(queue')
                           - Due("stdout")' - Due("stderr")'
    BY <2>2, <2>4, <2>5, <2>6, <2>7
  <2>9. QED
    BY <2>8 DEF LinesKept
<1>7. EndedIsEmpty'
  <2>1. \A t \in Streams : pump'[t] = "ended" => t # s /\ pipe[t] = <<>> /\ Ended
    BY <1>1 DEF SupervisionInv, EndedIsEmpty
  <2>2. QED
    BY <2>1, <1>1, <1>2 DEF EndedIsEmpty, Ended
<1>8. ErrorIsKept'
  <2> SUFFICES ASSUME heard'.error, ~fatal
               PROVE  \/ \E i \in DOMAIN pipe'["stderr"] : pipe'["stderr"][i] = "error"
                      \/ \E i \in DOMAIN queue' : queue'[i] = <<"stderr", "error">>
    BY <1>1 DEF ErrorIsKept
  <2>1. \/ \E i \in DOMAIN pipe["stderr"] : pipe["stderr"][i] = "error"
        \/ \E i \in DOMAIN queue : queue[i] = <<"stderr", "error">>
    BY <1>1 DEF SupervisionInv, ErrorIsKept
  <2>2. CASE \E i \in DOMAIN queue : queue[i] = <<"stderr", "error">>
    BY <2>2, <1>1, <1>2, <1>3, AppendIs
  <2>3. CASE \E i \in DOMAIN pipe["stderr"] : pipe["stderr"][i] = "error"
    <3>1. PICK i \in DOMAIN pipe["stderr"] : pipe["stderr"][i] = "error"
      BY <2>3
    <3>2. CASE s # "stderr"
      BY <3>1, <3>2, <1>2 DEF Streams
    <3>3. CASE s = "stderr" /\ i = 1
      <4>1. queue' = Append(queue, <<"stderr", "error">>)
        BY <3>1, <3>3, <1>1, <1>2, TailIs
      <4>2. Len(queue) + 1 \in DOMAIN queue'
            /\ queue'[Len(queue) + 1] = <<"stderr", "error">>
        BY <4>1, <3>3, <1>1, <1>2, <1>3, AppendIs
      <4>3. QED
        BY <4>2
    <3>4. CASE s = "stderr" /\ i # 1
      <4>1. i - 1 \in 1 .. Len(pipe[s]) - 1 /\ (i - 1) + 1 = i
        BY <3>1, <3>4, <1>2
      <4>2. i - 1 \in DOMAIN pipe'[s] /\ pipe'[s][i - 1] = "error"
        BY <4>1, <3>1, <3>4, <1>2, TailIs
      <4>3. QED
        BY <4>2, <3>4
    <3>5. QED
      BY <3>2, <3>3, <3>4
  <2>4. QED
    BY <2>1, <2>2, <2>3
<1>9. ReadToTheEnd'
  BY <1>1 DEF SupervisionInv, ReadToTheEnd
<1>10. QED
  BY <1>4, <1>5, <1>6, <1>7, <1>8, <1>9 DEF SupervisionInv

(* A thread puts the end of its stream in the queue: the pipe is empty and *)
(* nobody writes to it any more, or the thread is broken.                  *)
LEMMA PumpEndKeeps ==
  ASSUME TypeOK, SupervisionInv, NEW s \in Streams,
         (Pump(s) /\ pipe[s] = <<>>) \/ PumpBreaks(s)
  PROVE  SupervisionInv'
<1>1. /\ Supervised /\ Supervised' /\ pump[s] = "reads"
      /\ queue' = Append(queue, <<s, NoLine>>)
      /\ \/ pump' = [pump EXCEPT ![s] = "ended"] /\ pipe[s] = <<>> /\ Ended
         \/ pump' = [pump EXCEPT ![s] = "broken"]
      /\ UNCHANGED <<step, child, pipe, closed, fatal, verdict, heard>>
  BY DEF Pump, PumpBreaks, Supervised
<1>2. queue \in Seq(Entries) /\ pump \in [Streams -> {"reads", "ended", "broken"}]
  BY DEF TypeOK, RunTypeOK, Entries
<1>3. /\ pump'[s] \in {"ended", "broken"}
      /\ pump'[s] = "ended" => pipe[s] = <<>> /\ Ended
      /\ \A t \in Streams \ {s} : pump'[t] = pump[t]
  BY <1>1, <1>2
<1>4. Fresh' /\ VerdictIsLast' /\ SuccessIsClean'
  BY <1>1, WhileItRuns DEF SupervisionInv, VerdictIsLast
<1>5. EndsAreLast'
  <2>1. pump'[s] # "reads" /\ NoLine \in Lines \cup {NoLine}
    BY <1>3
  <2>2. QED
    BY <2>1, <1>1, <1>2, <1>3, EnqueueKeepsEnds DEF SupervisionInv
<1>6. s \notin closed
  BY <1>1 DEF SupervisionInv, EndsAreLast
<1>7. LinesKept'
  <2>1. /\ Due(s) = 0 /\ Due(s)' = 1
        /\ \A t \in Streams \ {s} : Due(t)' = Due(t)
        /\ \A t \in Streams : Due(t) \in {0, 1}
    BY <1>1, <1>3, <1>6 DEF Due
  <2>2. /\ Len(queue') = Len(queue) + 1 /\ Len(queue) \in Nat
        /\ Len(pipe["stdout"]) \in Nat /\ Len(pipe["stderr"]) \in Nat
    BY <1>1, <1>2, AppendIs, NamesAreDistinct DEF TypeOK, RunTypeOK, Streams
  <2> DEFINE a == Len(pipe["stdout"])
             b == Len(pipe["stderr"])
             c == Len(queue)
             d == Due("stdout")
             e == Due("stderr")
  <2>3. heard.pending = a + b + c - d - e
    BY <1>1 DEF SupervisionInv, LinesKept
  <2>4. \/ d = 0 /\ Due("stdout")' = 1 /\ Due("stderr")' = e
        \/ e = 0 /\ Due("stderr")' = 1 /\ Due("stdout")' = d
    BY <2>1 DEF Streams
  <2>5. /\ a \in Nat /\ b \in Nat /\ c \in Nat /\ d \in {0, 1} /\ e \in {0, 1}
        /\ Len(queue') = c + 1 /\ Len(pipe'["stdout"]) = a /\ Len(pipe'["stderr"]) = b
        /\ heard'.pending = heard.pending
    BY <2>1, <2>2, <1>1 DEF Streams
  <2> HIDE DEF a, b, c, d, e
  <2>6. /\ d = 0 => heard.pending = a + b + (c + 1) - 1 - e
        /\ e = 0 => heard.pending = a + b + (c + 1) - d - 1
    BY <2>3, <2>5
  <2>7. heard'.pending = Len(pipe'["stdout"]) + Len(pipe'["stderr"]) + Len(queue')
                           - Due("stdout")' - Due("stderr")'
    BY <2>4, <2>5, <2>6
  <2>8. QED
    BY <2>7 DEF LinesKept
<1>8. EndedIsEmpty'
  BY <1>1, <1>3 DEF SupervisionInv, EndedIsEmpty, Ended
<1>9. ErrorIsKept'
  <2>1. \A i \in DOMAIN queue : i \in DOMAIN queue' /\ queue'[i] = queue[i]
    BY <1>1, <1>2, AppendIs, NamesAreDistinct
  <2>2. QED
    BY <2>1, <1>1 DEF SupervisionInv, ErrorIsKept
<1>10. ReadToTheEnd'
  BY <1>1 DEF SupervisionInv, ReadToTheEnd
<1>11. QED
  BY <1>4, <1>5, <1>7, <1>8, <1>9, <1>10 DEF SupervisionInv

(* The supervisor sees the end of a stream.                                *)
LEMMA StreamEndsKeeps ==
  ASSUME TypeOK, SupervisionInv, NEW s \in Streams, StreamEnds(s)
  PROVE  SupervisionInv'
<1>1. /\ step = "reading" /\ queue # <<>> /\ Head(queue) = <<s, NoLine>>
      /\ queue' = Tail(queue) /\ closed' = closed \cup {s}
      /\ step' = IF closed' = Streams THEN "waiting" ELSE "reading"
      /\ UNCHANGED <<child, pipe, pump, fatal, verdict, heard>>
  BY DEF StreamEnds, Got
<1>2. Supervised /\ Supervised' /\ queue \in Seq(Entries)
  BY <1>1 DEF Supervised, TypeOK, RunTypeOK, Entries
<1>3. Fresh' /\ VerdictIsLast' /\ SuccessIsClean'
  BY <1>1, <1>2, WhileItRuns DEF SupervisionInv, VerdictIsLast
<1>4. /\ EndsAreLast'
      /\ Due(s) = 1 /\ Due(s)' = 0
      /\ \A t \in Streams : t # s => Due(t)' = Due(t)
  BY <1>1, <1>2, DequeueKeepsEnds DEF SupervisionInv
<1>5. LinesKept'
  <2>1. /\ Len(queue') = Len(queue) - 1 /\ Len(queue) \in Nat
        /\ Len(pipe["stdout"]) \in Nat /\ Len(pipe["stderr"]) \in Nat
        /\ Due("stdout") \in {0, 1} /\ Due("stderr") \in {0, 1}
    BY <1>1, <1>2, TailIs, DueIs DEF TypeOK, RunTypeOK, Streams
  <2> DEFINE a == Len(pipe["stdout"])
             b == Len(pipe["stderr"])
             c == Len(queue)
             d == Due("stdout")
             e == Due("stderr")
  <2>2. heard.pending = a + b + c - d - e
    BY <1>2 DEF SupervisionInv, LinesKept
  <2>3. \/ d = 1 /\ Due("stdout")' = 0 /\ Due("stderr")' = e
        \/ e = 1 /\ Due("stderr")' = 0 /\ Due("stdout")' = d
    BY <1>4 DEF Streams
  <2>4. /\ a \in Nat /\ b \in Nat /\ c \in Nat /\ d \in {0, 1} /\ e \in {0, 1}
        /\ Len(queue') = c - 1 /\ Len(pipe'["stdout"]) = a /\ Len(pipe'["stderr"]) = b
        /\ heard'.pending = heard.pending
    BY <2>1, <1>1
  <2> HIDE DEF a, b, c, d, e
  <2>5. /\ d = 1 => heard.pending = a + b + (c - 1) - 0 - e
        /\ e = 1 => heard.pending = a + b + (c - 1) - d - 0
    BY <2>2, <2>4
  <2>6. heard'.pending = Len(pipe'["stdout"]) + Len(pipe'["stderr"]) + Len(queue')
                           - Due("stdout")' - Due("stderr")'
    BY <2>3, <2>4, <2>5
  <2>7. QED
    BY <2>6 DEF LinesKept
<1>6. EndedIsEmpty'
  BY <1>1, <1>2 DEF SupervisionInv, EndedIsEmpty, Ended
<1>7. ErrorIsKept'
  <2> SUFFICES ASSUME heard'.error, ~fatal
               PROVE  \/ \E i \in DOMAIN pipe'["stderr"] : pipe'["stderr"][i] = "error"
                      \/ \E i \in DOMAIN queue' : queue'[i] = <<"stderr", "error">>
    BY <1>1 DEF ErrorIsKept
  <2>1. \/ \E i \in DOMAIN pipe["stderr"] : pipe["stderr"][i] = "error"
        \/ \E i \in DOMAIN queue : queue[i] = <<"stderr", "error">>
    BY <1>1, <1>2 DEF SupervisionInv, ErrorIsKept
  <2>2. CASE \E i \in DOMAIN queue : queue[i] = <<"stderr", "error">>
    <3>1. PICK i \in DOMAIN queue : queue[i] = <<"stderr", "error">>
      BY <2>2
    <3>2. queue[1] = <<s, NoLine>>
      BY <1>1, <1>2, TailIs
    <3>3. i # 1
      BY <3>1, <3>2, NamesAreDistinct
    <3>4. i - 1 \in 1 .. Len(queue) - 1 /\ (i - 1) + 1 = i
      BY <3>1, <3>3, <1>2
    <3>5. i - 1 \in DOMAIN queue' /\ queue'[i - 1] = queue[i]
      BY <3>4, <1>1, <1>2, TailIs
    <3>6. QED
      BY <3>1, <3>5
  <2>3. QED
    BY <2>1, <2>2, <1>1
<1>8. ReadToTheEnd'
  BY <1>1 DEF SupervisionInv, ReadToTheEnd
<1>9. QED
  BY <1>3, <1>4, <1>5, <1>6, <1>7, <1>8 DEF SupervisionInv

(* The supervisor passes a line on, or kills the child because of it.      *)
LEMMA PassOnKeeps ==
  ASSUME TypeOK, SupervisionInv, NEW s \in Streams, NEW line \in Lines, PassOn(s, line)
  PROVE  SupervisionInv'
<1>1. /\ step = "reading" /\ queue # <<>> /\ Head(queue) = <<s, line>>
      /\ queue' = Tail(queue) /\ heard' = [heard EXCEPT !.pending = heard.pending - 1]
      /\ \/ /\ s = "stderr" /\ line = "error" /\ fatal' = TRUE /\ step' = "waiting"
            /\ child' = IF child = "runs" THEN "dies" ELSE child
         \/ ~(s = "stderr" /\ line = "error") /\ UNCHANGED <<fatal, step, child>>
      /\ UNCHANGED <<pipe, pump, closed, verdict>>
  BY DEF PassOn, Got
<1>2. /\ Supervised /\ Supervised' /\ queue \in Seq(Entries)
      /\ line # NoLine /\ line \in Lines \cup {NoLine}
  BY <1>1, NamesAreDistinct DEF Supervised, TypeOK, RunTypeOK, Entries
<1>3. Fresh' /\ VerdictIsLast' /\ SuccessIsClean'
  BY <1>1, <1>2, WhileItRuns DEF SupervisionInv, VerdictIsLast
<1>4. EndsAreLast' /\ \A t \in Streams : Due(t)' = Due(t)
  BY <1>1, <1>2, DequeueKeepsEnds DEF SupervisionInv
<1>5. LinesKept'
  <2>1. /\ Len(queue') = Len(queue) - 1 /\ Len(queue) \in Nat
        /\ Len(pipe["stdout"]) \in Nat /\ Len(pipe["stderr"]) \in Nat
        /\ Due("stdout") \in {0, 1} /\ Due("stderr") \in {0, 1}
    BY <1>1, <1>2, TailIs, DueIs DEF TypeOK, RunTypeOK, Streams
  <2> DEFINE a == Len(pipe["stdout"])
             b == Len(pipe["stderr"])
             c == Len(queue)
             d == Due("stdout")
             e == Due("stderr")
  <2>2. heard.pending = a + b + c - d - e
    BY <1>2 DEF SupervisionInv, LinesKept
  <2>3. heard'.pending = heard.pending - 1
    BY <1>1 DEF TypeOK, RunTypeOK
  <2>4. /\ a \in Nat /\ b \in Nat /\ c \in Nat /\ d \in {0, 1} /\ e \in {0, 1}
        /\ Len(queue') = c - 1 /\ Len(pipe'["stdout"]) = a /\ Len(pipe'["stderr"]) = b
        /\ Due("stdout")' = d /\ Due("stderr")' = e
    BY <2>1, <1>1, <1>4 DEF Streams
  <2> HIDE DEF a, b, c, d, e
  <2>5. heard.pending - 1 = a + b + (c - 1) - d - e
    BY <2>2, <2>4
  <2>6. heard'.pending = Len(pipe'["stdout"]) + Len(pipe'["stderr"]) + Len(queue')
                           - Due("stdout")' - Due("stderr")'
    BY <2>3, <2>4, <2>5
  <2>7. QED
    BY <2>6 DEF LinesKept
<1>6. EndedIsEmpty'
  BY <1>1, <1>2 DEF SupervisionInv, EndedIsEmpty, Ended, Exits
<1>7. ErrorIsKept'
  <2> SUFFICES ASSUME heard'.error, ~fatal'
               PROVE  \/ \E i \in DOMAIN pipe'["stderr"] : pipe'["stderr"][i] = "error"
                      \/ \E i \in DOMAIN queue' : queue'[i] = <<"stderr", "error">>
    BY <1>1 DEF ErrorIsKept
  <2>1. heard.error /\ ~fatal /\ ~(s = "stderr" /\ line = "error")
    BY <1>1 DEF TypeOK, RunTypeOK
  <2>2. \/ \E i \in DOMAIN pipe["stderr"] : pipe["stderr"][i] = "error"
        \/ \E i \in DOMAIN queue : queue[i] = <<"stderr", "error">>
    BY <2>1, <1>2 DEF SupervisionInv, ErrorIsKept
  <2>3. CASE \E i \in DOMAIN queue : queue[i] = <<"stderr", "error">>
    <3>1. PICK i \in DOMAIN queue : queue[i] = <<"stderr", "error">>
      BY <2>3
    <3>2. queue[1] = <<s, line>>
      BY <1>1, <1>2, TailIs
    <3>3. i # 1
      BY <3>1, <3>2, <2>1, NamesAreDistinct
    <3>4. i - 1 \in 1 .. Len(queue) - 1 /\ (i - 1) + 1 = i
      BY <3>1, <3>3, <1>2
    <3>5. i - 1 \in DOMAIN queue' /\ queue'[i - 1] = queue[i]
      BY <3>4, <1>1, <1>2, TailIs
    <3>6. QED
      BY <3>1, <3>5
  <2>4. QED
    BY <2>2, <2>3, <1>1
<1>8. ReadToTheEnd'
  BY <1>1 DEF SupervisionInv, ReadToTheEnd
<1>9. QED
  BY <1>3, <1>4, <1>5, <1>6, <1>7, <1>8 DEF SupervisionInv

-----------------------------------------------------------------------------
(* The loop.                                                               *)

LEMMA SupervisionIsKept ==
  ASSUME TypeOK, SupervisionInv, [Next]_vars
  PROVE  SupervisionInv'
<1>1. CASE Begin
  BY <1>1, BeginKeeps
<1>2. CASE RunReturns \/ OtherReturns
  <2>1. step \notin Busy /\ step' \notin Busy /\ UNCHANGED <<child, pump, verdict, heard>>
    BY <1>2 DEF RunReturns, OtherReturns, Recover, Still, Busy
  <2>2. QED
    BY <2>1, OutsideARun
<1>3. CASE Person
  <2>1. step \in {"provider", "models"} /\ step' \in {"cancelled", "models", "provider", "begin"}
        /\ UNCHANGED <<child, pump, verdict, heard>>
    BY <1>3 DEF Person, Cancel, ChooseProvider, Back, ChooseModel, Pull, Choose, Still
  <2>2. QED
    BY <2>1, OutsideARun DEF Busy
<1>4. CASE Withdraw \/ UNCHANGED vars
  <2>1. UNCHANGED run
    BY <1>4 DEF Withdraw, vars
  <2>2. UNCHANGED <<step, child, pipe, pump, queue, closed, fatal, verdict, heard>>
    BY <2>1 DEF run
  <2>3. QED
    BY <2>2 DEF SupervisionInv, LinesKept, EndsAreLast, EndedIsEmpty, ErrorIsKept, ReadToTheEnd,
                Fresh, VerdictIsLast, SuccessIsClean, Due, Supervised, Ended
<1>5. CASE Supervise
  <2>1. CASE Discover
    BY <2>1, DiscoverKeeps
  <2>2. CASE Preflight
    BY <2>2, PreflightKeeps
  <2>3. CASE \E s \in Streams : StreamEnds(s) \/ \E line \in Lines : PassOn(s, line)
    BY <2>3, StreamEndsKeeps, PassOnKeeps
  <2>4. CASE RunEnds
    BY <2>4, RunEndsKeeps DEF TypeOK
  <2>5. QED
    BY <1>5, <2>1, <2>2, <2>3, <2>4 DEF Supervise
<1>6. CASE Environment
  <2>1. CASE \E s \in Streams, line \in Lines : ChildWrites(s, line)
    BY <2>1, ChildWritesKeeps
  <2>2. CASE ChildExits \/ HelperEnds
    BY <2>2, ChildEndsKeeps
  <2>3. CASE CommandFails
    BY <2>3, RefuseKeeps DEF CommandFails
  <2>4. CASE OutputFails
    BY <2>4, OutputFailsKeeps
  <2>5. CASE \E s \in Streams : PumpBreaks(s)
    BY <2>5, PumpEndKeeps
  <2>6. QED
    BY <1>6, <2>1, <2>2, <2>3, <2>4, <2>5 DEF Environment
<1>7. CASE ChildDies
  BY <1>7, ChildEndsKeeps
<1>8. CASE \E s \in Streams : Pump(s)
  BY <1>8, PumpLineKeeps, PumpEndKeeps
<1>9. QED
  BY <1>1, <1>2, <1>3, <1>4, <1>5, <1>6, <1>7, <1>8 DEF Next

(* The choice is what the person asked for: Choose sets both, and a run    *)
(* changes neither.                                                        *)
LEMMA WishIsKept ==
  ASSUME TypeOK, SupervisionInv, KeepsToTheWish, [Next]_vars
  PROVE  KeepsToTheWish'
<1>1. choice \in Choices /\ wish = choice
  BY DEF TypeOK, KeepsToTheWish
<1>2. CASE Begin
  <2>1. choice.agent \in {"opencode", "other"}
    BY <1>1 DEF Choices
  <2>2. QED
    BY <1>1, <1>2, <2>1 DEF Begin, KeepsToTheWish
<1>3. CASE RunReturns \/ OtherReturns
  BY <1>1, <1>3 DEF RunReturns, OtherReturns, Recover, KeepsToTheWish
<1>4. CASE Cancel \/ ChooseProvider \/ Back
  BY <1>1, <1>4 DEF Cancel, ChooseProvider, Back, ask, KeepsToTheWish
<1>5. CASE ChooseModel
  BY <1>5 DEF ChooseModel, Choose, KeepsToTheWish
<1>6. CASE Pull
  <2>1. CASE UNCHANGED <<step, ask>>
    BY <1>6, <2>1 DEF Pull, ask, KeepsToTheWish
  <2>2. CASE \E c : Choose(c)
    BY <2>2 DEF Choose, KeepsToTheWish
  <2>3. QED
    BY <1>6, <2>1, <2>2 DEF Pull
<1>7. CASE Withdraw \/ UNCHANGED vars
  BY <1>7 DEF Withdraw, vars, run, ask, KeepsToTheWish
<1>8. CASE /\ Supervise \/ Environment \/ ChildDies \/ \E s \in Streams : Pump(s)
           /\ UNCHANGED ask
  <2>1. choice' = wish' /\ wish' = wish
    BY <1>1, <1>8 DEF ask
  <2>2. CASE Discover
    <3>1. Preferred \subseteq FreeModels /\ \A m \in FreeModels : Kind[m] # "paid"
      BY DEF Preferred, FreeModels
    <3>2. /\ step = "discover" /\ step' \in {"preflight", "ran"}
          /\ step' = "preflight" => model' \in Preferred
      BY <2>2 DEF Discover, Refuse
    <3>3. wish.agent = "opencode" /\ wish.model = NoModel
      BY <3>2 DEF KeepsToTheWish
    <3>4. CASE step' = "preflight"
      <4>1. Kind[model'] # "paid"
        BY <3>1, <3>2, <3>4
      <4>2. QED
        BY <2>1, <3>3, <3>4, <4>1 DEF KeepsToTheWish
    <3>5. CASE step' = "ran"
      BY <2>1, <3>5 DEF KeepsToTheWish
    <3>6. QED
      BY <3>2, <3>4, <3>5
  <2>3. CASE Preflight
    BY <2>1, <2>3 DEF Preflight, Refuse, KeepsToTheWish
  <2>4. CASE CommandFails \/ OutputFails \/ RunEnds
    BY <2>1, <2>4 DEF CommandFails, Refuse, OutputFails, RunEnds, KeepsToTheWish
  <2>5. CASE \E s \in Streams : StreamEnds(s) \/ \E line \in Lines : PassOn(s, line)
    <3>1. step = "reading" /\ step' \in {"reading", "waiting"} /\ model' = model
      BY <2>5 DEF StreamEnds, PassOn, Got
    <3>2. QED
      BY <2>1, <3>1 DEF KeepsToTheWish
  <2>6. CASE \/ \E s \in Streams, line \in Lines : ChildWrites(s, line)
             \/ ChildExits \/ ChildDies \/ HelperEnds
             \/ \E s \in Streams : Pump(s) \/ PumpBreaks(s)
    <3>1. step' = step /\ model' = model
      BY <2>6 DEF ChildWrites, ChildExits, ChildDies, HelperEnds, Pump, PumpBreaks
    <3>2. QED
      BY <2>1, <3>1 DEF KeepsToTheWish
  <2>7. QED
    BY <1>8, <2>2, <2>3, <2>4, <2>5, <2>6 DEF Supervise, Environment
<1>9. QED
  BY <1>2, <1>3, <1>4, <1>5, <1>6, <1>7, <1>8 DEF Next, Person

(* Only Begin counts the children that were left behind, and it finds none *)
(* that did not raise.                                                     *)
LEMMA OrphansAreKept ==
  ASSUME SupervisionInv, NoRunLeftBehind, [Next]_vars
  PROVE  NoRunLeftBehind'
<1>1. CASE Begin
  <2>1. ~Supervised
    BY <1>1 DEF Begin, Supervised
  <2>2. child \in {"runs", "dies"} => verdict = Raised
    BY <2>1 DEF SupervisionInv, VerdictIsLast
  <2>3. QED
    BY <1>1, <2>2 DEF Begin, NoRunLeftBehind
<1>2. CASE ~Begin
  <2>1. orphans' = orphans
    <3>1. CASE RunReturns \/ OtherReturns \/ Person
      BY <3>1 DEF RunReturns, OtherReturns, Person, Cancel, ChooseProvider, Back, ChooseModel,
                  Pull, Still
    <3>2. CASE Withdraw \/ UNCHANGED vars
      BY <3>2 DEF Withdraw, vars
    <3>3. CASE Supervise
      BY <3>3 DEF Supervise, Discover, Preflight, StreamEnds, PassOn, RunEnds
    <3>4. CASE Environment
      BY <3>4 DEF Environment, ChildWrites, ChildExits, HelperEnds, CommandFails, OutputFails,
                  PumpBreaks
    <3>5. CASE ChildDies \/ \E s \in Streams : Pump(s)
      BY <3>5 DEF ChildDies, Pump
    <3>6. QED
      BY <1>2, <3>1, <3>2, <3>3, <3>4, <3>5 DEF Next
  <2>2. QED
    BY <2>1 DEF NoRunLeftBehind
<1>3. QED
  BY <1>1, <1>2

(* Whatever the child writes, in whatever order the two threads deliver    *)
(* it, and whatever fails: the types, the account of the lines, the order  *)
(* of the queue and the person's choice are kept by every step of          *)
(* run_opencode and of run_with_recovery.                                  *)
THEOREM RecoveryInvariance == Spec => []RecoveryInv
<1>1. Init => RecoveryInv
  <2> SUFFICES ASSUME Init PROVE RecoveryInv
    OBVIOUS
  <2>1. TypeOK
    <3>1. heard \in [pending : Nat, lines : 0 .. MaxLines, error : BOOLEAN]
      BY BoundsAssumption DEF Init, RunInit
    <3>2. /\ listed \subseteq Models /\ pump \in [Streams -> {"reads", "ended", "broken"}]
          /\ pipe \in [Streams -> Seq(Lines)]
          /\ queue \in Seq(Streams \X (Lines \cup {NoLine}))
      BY DEF Init, RunInit
    <3>3. RunTypeOK
      BY <3>1, <3>2 DEF Init, RunInit, RunTypeOK
    <3>4. QED
      BY <3>3 DEF Init, TypeOK
  <2>2. step = "begin" /\ ~Supervised /\ child = "none" /\ verdict = Unset
    BY DEF Init, RunInit, Supervised
  <2>3. SupervisionInv
    <3>1. LinesKept /\ EndsAreLast /\ EndedIsEmpty /\ ErrorIsKept
      BY <2>2 DEF LinesKept, EndsAreLast, EndedIsEmpty, ErrorIsKept
    <3>2. ReadToTheEnd /\ Fresh /\ VerdictIsLast /\ SuccessIsClean
      BY <2>2 DEF ReadToTheEnd, Fresh, VerdictIsLast, SuccessIsClean, Unset
    <3>3. QED
      BY <3>1, <3>2 DEF SupervisionInv
  <2>4. KeepsToTheWish /\ NoRunLeftBehind
    BY DEF Init, RunInit, KeepsToTheWish, NoRunLeftBehind
  <2>5. QED
    BY <2>1, <2>3, <2>4 DEF RecoveryInv
<1>2. RecoveryInv /\ [Next]_vars => RecoveryInv'
  <2> SUFFICES ASSUME RecoveryInv, [Next]_vars PROVE RecoveryInv'
    OBVIOUS
  <2>1. TypeOK /\ SupervisionInv /\ KeepsToTheWish /\ NoRunLeftBehind
    BY DEF RecoveryInv
  <2>2. TypeOK'
    <3>1. CASE UNCHANGED vars
      BY <2>1, <3>1 DEF vars, run, TypeOK, RunTypeOK
    <3>2. QED
      BY <2>1, <3>1, RunKeepsTypes, LoopKeepsTypes DEF Next
  <2>3. QED
    BY <2>1, <2>2, SupervisionIsKept, WishIsKept, OrphansAreKept DEF RecoveryInv
<1>3. QED
  BY <1>1, <1>2, PTL DEF Spec

(* run_opencode reports success only when OpenCode ended with success and  *)
(* all it wrote was passed on and told of no provider error, but for a     *)
(* stream that could not be decoded.                                       *)
THEOREM SuccessIsAlwaysClean == Spec => []SuccessIsClean
<1>1. RecoveryInv => SuccessIsClean
  BY DEF RecoveryInv, SupervisionInv
<1>2. QED
  BY <1>1, RecoveryInvariance, PTL

(* When run_with_recovery runs the step again, the child of an earlier run *)
(* is alive only if its supervisor raised.                                 *)
THEOREM ChildrenAreEnded == Spec => []NoRunLeftBehind
<1>1. RecoveryInv => NoRunLeftBehind
  BY DEF RecoveryInv
<1>2. QED
  BY <1>1, RecoveryInvariance, PTL

(* The model that runs is the one that was asked for last; when none was   *)
(* named it is no paid one.                                                *)
THEOREM TheWishIsRun == Spec => []RunsWhatWasAsked
<1>1. RecoveryInv => RunsWhatWasAsked
  BY DEF RecoveryInv, KeepsToTheWish, RunsWhatWasAsked
<1>2. QED
  BY <1>1, RecoveryInvariance, PTL

=============================================================================
