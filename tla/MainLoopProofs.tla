--------------------------- MODULE MainLoopProofs ---------------------------
(***************************************************************************)
(* What holds of the signal queue and the safe points of MainLoop for      *)
(* every size of the queue, every trap call and every script: types, that  *)
(* every signal is accounted for, and that the queue is a refinement of    *)
(* SignalDelivery.                                                         *)
(***************************************************************************)
EXTENDS MainLoop, FunctionTheorems, FiniteSetTheorems, TLAPS

-----------------------------------------------------------------------------
(* Types *)

LEMMA InitTypeOK == Init => TypeOK
<1> SUFFICES ASSUME Init PROVE TypeOK
    OBVIOUS
<1>1. /\ safe_points \in Seq(Frame)
      /\ SIGNAL_QUEUE \in Seq(Event) /\ Len(SIGNAL_QUEUE) <= MaxSignalQueueSize
    <2>1. safe_points = <<>> /\ SIGNAL_QUEUE = <<>>
        BY DEF Init
    <2> QED
        BY <2>1, MainLoopAssumption
<1>2. traps \in [Signal \cup {"EXIT"} -> {NoTrap, Ignored, Handler}]
    BY DEF Init
<1>3. phase \in Phases
    BY DEF Init, Phases
<1>4. /\ pending \subseteq Signal /\ thread = "idle" /\ SHUTDOWN \in BOOLEAN
      /\ mode \in Mode /\ more_lines \in BOOLEAN /\ commands \in Nat
      /\ last_exit_code \in Statuses /\ received \in Nat
      /\ collecting_heredoc \in BOOLEAN /\ exit_requested \in BOOLEAN
      /\ exit_trap_executed \in BOOLEAN
    BY MainLoopAssumption DEF Init, Statuses
<1> QED
    BY <1>1, <1>2, <1>3, <1>4 DEF TypeOK

\* An event is put on the queue.
LEMMA EnqueueType ==
    ASSUME TypeOK, NEW signal \in Signal, enqueue_signal(signal)
    PROVE  /\ SIGNAL_QUEUE' \in Seq(Event)
           /\ Len(SIGNAL_QUEUE') <= MaxSignalQueueSize
           /\ received' \in Nat
<1>1. [signal |-> signal, number |-> received'] \in Event /\ received' \in Nat
    BY DEF TypeOK, enqueue_signal, Event
<1>2. SIGNAL_QUEUE \in Seq(Event) /\ Len(SIGNAL_QUEUE) \in Nat
    BY DEF TypeOK
<1>3. CASE Len(SIGNAL_QUEUE) >= MaxSignalQueueSize
    <2>1. SIGNAL_QUEUE # <<>>
        BY <1>3, MainLoopAssumption
    <2>2. Tail(SIGNAL_QUEUE) \in Seq(Event) /\ Len(Tail(SIGNAL_QUEUE)) = Len(SIGNAL_QUEUE) - 1
        BY <1>2, <2>1
    <2> QED
        BY <1>1, <1>2, <1>3, <2>2, MainLoopAssumption DEF enqueue_signal, QueueWith, TypeOK
<1>4. CASE ~ (Len(SIGNAL_QUEUE) >= MaxSignalQueueSize)
    BY <1>1, <1>2, <1>4, MainLoopAssumption DEF enqueue_signal, QueueWith
<1> QED
    BY <1>3, <1>4

\* A safe point is entered.
LEMMA SafePointType ==
    ASSUME TypeOK, NEW outer \in Seq(Frame), SafePointWithin(outer)
    PROVE  /\ safe_points' \in Seq(Frame)
           /\ SIGNAL_QUEUE' \in Seq(Event) /\ Len(SIGNAL_QUEUE') <= MaxSignalQueueSize
           /\ UNCHANGED <<pending, thread, SHUTDOWN, received>>
<1>1. [batch |-> SIGNAL_QUEUE, handling |-> FALSE, commands |-> 0,
       status |-> last_exit_code, before |-> last_exit_code] \in Frame
    BY DEF TypeOK, Frame
<1>2. SIGNAL_QUEUE' = <<>> /\ UNCHANGED <<pending, thread, SHUTDOWN, received>>
    BY DEF SafePointWithin
<1> QED
    BY <1>1, <1>2, MainLoopAssumption DEF SafePointWithin

\* The innermost safe point goes on.
LEMMA InnermostType ==
    ASSUME TypeOK, ~ NotHandling
    PROVE  /\ Innermost \in Frame /\ Len(safe_points) \in DOMAIN safe_points
           /\ Front(safe_points) \in Seq(Frame)
           /\ \A frame \in Frame :
                 [safe_points EXCEPT ![Len(safe_points)] = frame] \in Seq(Frame)
BY DEF TypeOK, NotHandling, Innermost, Last, Front

LEMMA HandlersType == ASSUME TypeOK, Handlers PROVE TypeOK'
<1> DEFINE n == Len(safe_points)
<1>1. ~ NotHandling
    BY DEF Handlers, TakeEvent, EndHandler, EndSafePoint
<1>2. /\ Innermost \in Frame /\ Innermost = safe_points[n] /\ n \in DOMAIN safe_points
      /\ Front(safe_points) \in Seq(Frame)
      /\ \A frame \in Frame : [safe_points EXCEPT ![n] = frame] \in Seq(Frame)
    BY <1>1, InnermostType DEF Innermost, Last
<1>3. CASE TakeEvent
    <2> DEFINE rest == [Innermost EXCEPT !.batch = Tail(@), !.status = last_exit_code]
               started == [rest EXCEPT !.handling = TRUE, !.commands = MaxCommands]
    <2>1. Tail(Innermost.batch) \in Seq(Event) /\ last_exit_code \in Statuses
        BY <1>2, <1>3 DEF Frame, TakeEvent, TypeOK
    <2>2. rest \in Frame
        BY <1>2, <2>1 DEF Frame
    <2>3. started \in Frame
        <3> HIDE DEF rest
        <3> QED
            BY <2>2, MainLoopAssumption DEF Frame
    <2>4. safe_points' = [safe_points EXCEPT ![n] = started]
          \/ safe_points' = [safe_points EXCEPT ![n] = rest]
        BY <1>2, <1>3 DEF TakeEvent
    <2>5. safe_points' \in Seq(Frame)
        <3> HIDE DEF rest, started
        <3> QED
            BY <1>2, <2>2, <2>3, <2>4
    <2> QED
        BY <1>3, <2>5 DEF TakeEvent, TypeOK, signalVars, controlVars, shellVars, exitVars
<1>4. CASE EndHandler
    <2> DEFINE frame == [Innermost EXCEPT !.handling = FALSE, !.commands = 0]
    <2>1. frame \in Frame /\ Innermost.status \in Statuses
        BY <1>2 DEF Frame
    <2>2. safe_points' = [safe_points EXCEPT ![n] = frame]
        BY <1>2, <1>4 DEF EndHandler
    <2>3. safe_points' \in Seq(Frame)
        BY <1>2, <2>1, <2>2
    <2> QED
        BY <1>4, <2>1, <2>3 DEF EndHandler, TypeOK, signalVars, controlVars, exitVars
<1>5. CASE EndSafePoint
    BY <1>2, <1>5 DEF EndSafePoint, TypeOK, signalVars, controlVars, shellVars, exitVars
<1> QED
    BY <1>3, <1>4, <1>5 DEF Handlers

\* One command fewer for the line or the innermost handler.
LEMMA UseCommandType ==
    ASSUME TypeOK, MayRun, UseCommand
    PROVE  safe_points' \in Seq(Frame) /\ commands' \in Nat
<1>1. CASE NotHandling
    BY <1>1 DEF TypeOK, MayRun, UseCommand, CommandsLeft
<1>2. CASE ~ NotHandling
    <2> DEFINE n == Len(safe_points)
               frame == [Innermost EXCEPT !.commands = @ - 1]
    <2>1. /\ Innermost \in Frame /\ Innermost = safe_points[n] /\ n \in DOMAIN safe_points
          /\ \A fr \in Frame : [safe_points EXCEPT ![n] = fr] \in Seq(Frame)
        BY <1>2, InnermostType DEF Innermost, Last
    <2>2. Innermost.commands > 0
        BY <1>2 DEF MayRun, CommandsLeft
    <2> DEFINE left == Innermost.commands - 1
    <2>5. left \in Nat
        BY <2>1, <2>2 DEF Frame
    <2>3. frame \in Frame
        <3>1. frame = [Innermost EXCEPT !.commands = left]
            OBVIOUS
        <3> HIDE DEF left
        <3> QED
            BY <2>1, <2>5, <3>1 DEF Frame
    <2>4. safe_points' = [safe_points EXCEPT ![n] = frame] /\ commands' = commands
        BY <1>2, <2>1 DEF UseCommand
    <2> QED
        BY <2>1, <2>3, <2>4 DEF TypeOK
<1> QED
    BY <1>1, <1>2

LEMMA TrapType ==
    ASSUME TypeOK, NEW call \in TrapCall
    PROVE  /\ TrapsAfter(call) \in [Signal \cup {"EXIT"} -> {NoTrap, Ignored, Handler}]
           /\ TrapStatus(call) \in Statuses
<1>1. ASSUME NEW name \in Signal \cup {"EXIT"}
      PROVE  TrapsAfter(call)[name] \in {NoTrap, Ignored, Handler}
    <2>1. traps[name] \in {NoTrap, Ignored, Handler} /\ name \in DOMAIN traps
        BY DEF TypeOK
    <2>2. CASE call.form = "set"
        BY <2>1, <2>2, MainLoopAssumption DEF TrapsAfter, NoTrap, Ignored, Handler
    <2>3. CASE call.form = "reset"
        BY <2>1, <2>3 DEF TrapsAfter
    <2>4. CASE call.form \notin {"set", "reset"}
        BY <2>1, <2>4 DEF TrapsAfter
    <2> QED
        BY <2>2, <2>3, <2>4
<1>2. TrapStatus(call) \in {0, 1}
    <2>1. CASE call.form \in {"set", "reset"}
        BY <2>1 DEF TrapStatus
    <2>2. CASE call.form \notin {"set", "reset"}
        BY <2>2 DEF TrapStatus
    <2> QED
        BY <2>1, <2>2
<1> QED
    BY <1>1, <1>2 DEF TypeOK, TrapsAfter, Statuses

LEMMA CommandsType == ASSUME TypeOK, Commands PROVE TypeOK'
<1> USE DEF otherControlVars, signalVars, controlVars, shellVars, exitVars
<1>1. CASE RunCommand
    <2>1. last_exit_code' \in Statuses
        BY <1>1 DEF RunCommand, Statuses
    <2> QED
        BY <1>1, <2>1, UseCommandType DEF RunCommand, TypeOK
<1>2. CASE Trap
    <2>1. last_exit_code' \in Statuses
          /\ traps' \in [Signal \cup {"EXIT"} -> {NoTrap, Ignored, Handler}]
        BY <1>2, TrapType DEF Trap
    <2> QED
        BY <1>2, <2>1, UseCommandType DEF Trap, TypeOK
<1>3. CASE Exit
    BY <1>3, UseCommandType DEF Exit, TypeOK
<1>4. CASE ForTurn
    <2>1. CASE NotHandling
        <3>1. SafePointWithin(safe_points) /\ safe_points \in Seq(Frame)
            BY <1>4, <2>1 DEF ForTurn, SafePoint, TypeOK
        <3>2. commands' \in Nat
            BY <1>4, <2>1 DEF ForTurn, CommandsLeft, TypeOK
        <3> QED
            BY <1>4, <3>1, <3>2, SafePointType DEF ForTurn, TypeOK
    <2>2. CASE ~ NotHandling
        <3> DEFINE n == Len(safe_points)
                   frame == [Innermost EXCEPT !.commands = @ - 1]
                   outer == [safe_points EXCEPT ![n] = frame]
        <3>1. /\ Innermost \in Frame /\ Innermost = safe_points[n] /\ n \in DOMAIN safe_points
              /\ \A fr \in Frame : [safe_points EXCEPT ![n] = fr] \in Seq(Frame)
            BY <2>2, InnermostType DEF Innermost, Last
        <3>2. Innermost.commands > 1
            BY <1>4, <2>2 DEF ForTurn, CommandsLeft
        <3> DEFINE left == Innermost.commands - 1
        <3>6. left \in Nat
            BY <3>1, <3>2 DEF Frame
        <3>3. frame \in Frame
            <4>1. frame = [Innermost EXCEPT !.commands = left]
                OBVIOUS
            <4> HIDE DEF left
            <4> QED
                BY <3>1, <3>6, <4>1 DEF Frame
        <3>4. outer \in Seq(Frame)
            BY <3>1, <3>3
        <3>5. SafePointWithin(outer) /\ commands' = commands
            BY <1>4, <2>2, <3>1 DEF ForTurn
        <3> HIDE DEF outer
        <3> QED
            BY <1>4, <3>4, <3>5, SafePointType DEF ForTurn, TypeOK
    <2> QED
        BY <2>1, <2>2
<1>5. CASE EndLine
    BY <1>5 DEF EndLine, TypeOK, Phases
<1> QED
    BY <1>1, <1>2, <1>3, <1>4, <1>5 DEF Commands

LEMMA ScriptLoopType == ASSUME TypeOK, ScriptLoop PROVE TypeOK'
<1> USE DEF Step, ExecuteLine, unchangedShell, signalVars, shellVars, exitVars, TypeOK
<1>1. CASE Start
    BY <1>1 DEF Start, Phases
<1>2. CASE NextLine
    <2>1. SafePointWithin(safe_points) /\ safe_points \in Seq(Frame)
        BY <1>2 DEF NextLine, SafePoint
    <2> QED
        BY <1>2, <2>1, SafePointType DEF NextLine, Phases
<1>3. CASE StartCommand \/ StartLine
    BY <1>3, MainLoopAssumption DEF StartCommand, StartLine, Phases
<1>4. CASE EndScript
    BY <1>4 DEF EndScript, Phases
<1> QED
    BY <1>1, <1>2, <1>3, <1>4 DEF ScriptLoop

LEMMA InteractiveLoopType == ASSUME TypeOK, InteractiveLoop \/ Terminal PROVE TypeOK'
<1> USE DEF Step, ExecuteLine, unchangedShell, signalVars, shellVars, exitVars, TypeOK
<1>1. ASSUME SafePoint
      PROVE  /\ safe_points' \in Seq(Frame)
             /\ SIGNAL_QUEUE' \in Seq(Event) /\ Len(SIGNAL_QUEUE') <= MaxSignalQueueSize
             /\ UNCHANGED <<pending, thread, SHUTDOWN, received>>
    <2>1. SafePointWithin(safe_points) /\ safe_points \in Seq(Frame)
        BY <1>1 DEF SafePoint
    <2> QED
        BY <2>1, SafePointType
<1>2. MaxCommands \in Nat
    BY MainLoopAssumption
<1>3. CASE Prompt
    BY <1>1, <1>3 DEF Prompt, Phases
<1>4. CASE ReadLine
    BY <1>4 DEF ReadLine, Phases
<1>5. CASE Typed
    BY <1>2, <1>5 DEF Typed, Phases
<1>6. CASE Pasted
    BY <1>2, <1>6 DEF Pasted, Phases
<1>7. CASE Collect
    BY <1>2, <1>7 DEF Collect, Phases
<1>8. CASE AfterLine
    BY <1>8 DEF AfterLine, Phases
<1>9. CASE AfterInput
    BY <1>1, <1>9 DEF AfterInput, Phases
<1>10. CASE NoLine
    <2>1. CASE SHUTDOWN
        BY <1>2, <1>10, <2>1 DEF NoLine, Phases
    <2>2. CASE ~ SHUTDOWN
        BY <1>2, <1>10, <2>2 DEF NoLine, Phases
    <2> QED
        BY <2>1, <2>2
<1>11. CASE EnterLines
    <2>1. phase' \in Phases
        BY <1>11 DEF EnterLines, Phases
    <2> QED
        BY <1>11, <2>1 DEF EnterLines
<1>12. CASE EnterNothing
    BY <1>1, <1>12 DEF EnterNothing, Phases
<1> QED
    BY <1>3, <1>4, <1>5, <1>6, <1>7, <1>8, <1>9, <1>10, <1>11, <1>12
    DEF InteractiveLoop, Terminal

LEMMA ExitType == ASSUME TypeOK, ExitTrap \/ End PROVE TypeOK'
<1> USE DEF Step, unchangedShell, signalVars, shellVars, exitVars
<1>1. ASSUME NEW from \in Phases, NEW to \in Phases, execute_exit_trap(from, to)
      PROVE  TypeOK'
    <2> DEFINE frame == [batch |-> <<>>, handling |-> TRUE, commands |-> MaxCommands,
                         status |-> last_exit_code, before |-> last_exit_code]
    <2>1. frame \in Frame
        BY MainLoopAssumption DEF Frame, TypeOK
    <2>2. safe_points' \in {safe_points, <<frame>>} /\ exit_trap_executed' \in BOOLEAN
        BY <1>1 DEF execute_exit_trap, TypeOK
    <2>3. safe_points' \in Seq(Frame)
        <3>1. safe_points \in Seq(Frame)
            BY DEF TypeOK
        <3> HIDE DEF frame
        <3>2. <<frame>> \in Seq(Frame)
            BY <2>1
        <3> QED
            BY <2>2, <3>1, <3>2
    <2> QED
        BY <1>1, <2>2, <2>3 DEF execute_exit_trap, TypeOK
<1>2. CASE ExitTrap
    <2>1. {"exiting", "leaving", "left", "paste exits", "after input"} \subseteq Phases
        BY DEF Phases
    <2> QED
        BY <1>1, <1>2, <2>1 DEF ExitTrap
<1>3. CASE End
    BY <1>3 DEF End, TypeOK, Phases
<1> QED
    BY <1>2, <1>3

LEMMA SignalThreadType == ASSUME TypeOK, SignalThread PROVE TypeOK'
<1> USE DEF controlVars, shellVars, exitVars
<1>1. CASE thread = "TERM"
    <2>1. enqueue_signal("TERM") /\ thread' = "idle" /\ UNCHANGED <<pending, SHUTDOWN>>
        BY <1>1 DEF SignalThread
    <2> QED
        BY <2>1, EnqueueType DEF SignalThread, TypeOK
<1>2. CASE thread # "TERM"
    <2>1. PICK signal \in pending :
            /\ pending' = pending \ {signal}
            /\ IF signal = "TERM"
               THEN SHUTDOWN' = TRUE /\ thread' = "TERM"
                    /\ UNCHANGED <<SIGNAL_QUEUE, received, dropped>>
               ELSE enqueue_signal(signal) /\ UNCHANGED <<thread, SHUTDOWN>>
        BY <1>2 DEF SignalThread
    <2>2. signal \in Signal
        BY DEF TypeOK
    <2> QED
        BY <2>1, <2>2, EnqueueType DEF SignalThread, TypeOK
<1> QED
    BY <1>1, <1>2

LEMMA StepTypeOK == TypeOK /\ [Next]_vars => TypeOK'
<1> SUFFICES ASSUME TypeOK, [Next]_vars PROVE TypeOK'
    OBVIOUS
<1>1. CASE Deliver
    BY <1>1 DEF Deliver, TypeOK, controlVars, shellVars, exitVars
<1>2. CASE UNCHANGED vars
    BY <1>2 DEF vars, TypeOK, signalVars, controlVars, shellVars, exitVars
<1> QED
    BY <1>1, <1>2, SignalThreadType, HandlersType, CommandsType, ScriptLoopType,
       InteractiveLoopType, ExitType DEF Next, MainThread

\* The fields keep their types, whatever the two threads and the user do.
THEOREM TypeCorrect == Spec => []TypeOK
BY InitTypeOK, StepTypeOK, PTL DEF Spec

-----------------------------------------------------------------------------
(* No signal is lost, and none is taken twice or out of order *)

\* Two stacks of safe points with the same left to handle.
SameLeft(a, b) == /\ DOMAIN a = DOMAIN b
                  /\ \A i \in DOMAIN a : a[i].batch = b[i].batch

LEMMA Untouched ==
    ASSUME EventsAccounted, SameLeft(safe_points', safe_points),
           UNCHANGED <<SIGNAL_QUEUE, received, taken, dropped>>
    PROVE  EventsAccounted'
<1>1. OneFate'
    BY DEF EventsAccounted, OneFate
<1>2. \A i \in DOMAIN safe_points' : Left(i)' = Left(i) /\ i \in DOMAIN safe_points
    BY DEF SameLeft, Left
<1>3. InOrder'
    BY <1>2 DEF EventsAccounted, InOrder, SameLeft
<1> QED
    BY <1>1, <1>3 DEF EventsAccounted

LEMMA EventNumbers ==
    ASSUME NEW batch \in Seq(Event)
    PROVE  \A i \in DOMAIN batch : batch[i].number \in Nat
<1>1. \A i \in DOMAIN batch : batch[i] \in Event
    OBVIOUS
<1>2. \A event \in Event : event.number \in Nat
    BY DEF Event
<1> QED
    BY <1>1, <1>2

LEMMA NumbersOf ==
    ASSUME NEW batch \in Seq(Event)
    PROVE  /\ Numbers(batch) \subseteq Nat
           /\ \A i \in DOMAIN batch : batch[i].number \in Numbers(batch)
           /\ batch = <<>> => Numbers(batch) = {}
           /\ batch # <<>> =>
                 /\ Numbers(Tail(batch)) \subseteq Numbers(batch)
                 /\ Numbers(batch) = Numbers(Tail(batch)) \cup {Head(batch).number}
           /\ \A event \in Event :
                 Numbers(Append(batch, event)) = Numbers(batch) \cup {event.number}
<1>1. Numbers(batch) \subseteq Nat /\ \A i \in DOMAIN batch : batch[i].number \in Numbers(batch)
    BY EventNumbers DEF Numbers
<1>2. batch = <<>> => Numbers(batch) = {}
    BY DEF Numbers
<1>3. ASSUME batch # <<>>
      PROVE  Numbers(batch) = Numbers(Tail(batch)) \cup {Head(batch).number}
    <2>1. Len(batch) \in Nat \ {0} /\ DOMAIN batch = 1..Len(batch)
          /\ DOMAIN Tail(batch) = 1..Len(batch) - 1
        BY <1>3
    <2>2. \A i \in DOMAIN Tail(batch) : Tail(batch)[i] = batch[i + 1] /\ i + 1 \in DOMAIN batch
        BY <1>3, <2>1
    <2>3. \A i \in DOMAIN batch : i # 1 => i - 1 \in DOMAIN Tail(batch)
                                          /\ Tail(batch)[i - 1] = batch[i]
        BY <1>3, <2>1, <2>2
    <2>4. Head(batch) = batch[1] /\ 1 \in DOMAIN batch
        BY <1>3, <2>1
    <2> DEFINE rest == Tail(batch)
    <2>5. \A n \in Numbers(batch) : n \in Numbers(rest) \/ n = Head(batch).number
        BY <2>3, <2>4 DEF Numbers
    <2>6. \A n \in Numbers(rest) : n \in Numbers(batch)
        BY <2>2 DEF Numbers
    <2>7. Head(batch).number \in Numbers(batch)
        BY <2>4 DEF Numbers
    <2> QED
        BY <2>5, <2>6, <2>7
<1>4. ASSUME NEW event \in Event
      PROVE  Numbers(Append(batch, event)) = Numbers(batch) \cup {event.number}
    <2> DEFINE longer == Append(batch, event)
    <2>1. /\ DOMAIN batch = 1..Len(batch) /\ Len(batch) \in Nat
          /\ DOMAIN longer = 1..Len(batch) + 1
          /\ \A i \in DOMAIN batch : longer[i] = batch[i]
          /\ longer[Len(batch) + 1] = event
        OBVIOUS
    <2>2. \A i \in DOMAIN longer : i \in DOMAIN batch \/ i = Len(batch) + 1
        BY <2>1
    <2>3. DOMAIN batch \subseteq DOMAIN longer /\ Len(batch) + 1 \in DOMAIN longer
        BY <2>1
    <2> HIDE DEF longer
    <2> QED
        BY <2>1, <2>2, <2>3 DEF Numbers, longer
<1> QED
    BY <1>1, <1>2, <1>3, <1>4

LEMMA TailOrdered ==
    ASSUME NEW batch \in Seq(Event), batch # <<>>, Increasing(batch)
    PROVE  /\ Increasing(Tail(batch))
           /\ Head(batch).number \notin Numbers(Tail(batch))
<1>1. /\ Len(batch) \in Nat \ {0} /\ DOMAIN batch = 1..Len(batch)
      /\ DOMAIN Tail(batch) = 1..Len(batch) - 1
      /\ \A i \in DOMAIN Tail(batch) : Tail(batch)[i] = batch[i + 1] /\ i + 1 \in DOMAIN batch
      /\ Head(batch) = batch[1] /\ 1 \in DOMAIN batch
    OBVIOUS
<1>2. Increasing(Tail(batch))
    BY <1>1 DEF Increasing
<1>3. \A i \in DOMAIN batch : batch[i].number \in Nat
    BY EventNumbers
<1>4. \A i \in DOMAIN Tail(batch) : batch[1].number < Tail(batch)[i].number
    BY <1>1 DEF Increasing
<1>5. \A i \in DOMAIN Tail(batch) : batch[1].number # Tail(batch)[i].number
    BY <1>1, <1>3, <1>4
<1> QED
    BY <1>1, <1>2, <1>5 DEF Numbers

LEMMA AppendOrdered ==
    ASSUME NEW batch \in Seq(Event), NEW event \in Event, Increasing(batch),
           \A n \in Numbers(batch) : n < event.number
    PROVE  Increasing(Append(batch, event))
<1> DEFINE longer == Append(batch, event)
<1>1. /\ DOMAIN batch = 1..Len(batch) /\ Len(batch) \in Nat
      /\ DOMAIN longer = 1..Len(batch) + 1
      /\ \A i \in DOMAIN batch : longer[i] = batch[i]
      /\ longer[Len(batch) + 1] = event
    OBVIOUS
<1>2. \A i \in DOMAIN batch : batch[i].number < event.number
    BY NumbersOf
<1> SUFFICES ASSUME NEW i \in DOMAIN longer, NEW j \in DOMAIN longer, i < j
             PROVE  longer[i].number < longer[j].number
    BY DEF Increasing
<1>3. i \in DOMAIN batch /\ (j \in DOMAIN batch \/ j = Len(batch) + 1)
    BY <1>1
<1> HIDE DEF longer
<1> QED
    BY <1>1, <1>2, <1>3 DEF Increasing

\* What stays on the queue when an event comes, without what falls off it.
Kept == IF Len(SIGNAL_QUEUE) >= MaxSignalQueueSize THEN Tail(SIGNAL_QUEUE) ELSE SIGNAL_QUEUE

LEMMA KeptOrdered ==
    ASSUME TypeOK, Increasing(SIGNAL_QUEUE)
    PROVE  /\ Kept \in Seq(Event) /\ Increasing(Kept)
           /\ Numbers(Kept) = Numbers(SIGNAL_QUEUE) \ Overflow
           /\ Overflow \subseteq Numbers(SIGNAL_QUEUE)
<1>1. SIGNAL_QUEUE \in Seq(Event)
    BY DEF TypeOK
<1>2. CASE Len(SIGNAL_QUEUE) >= MaxSignalQueueSize
    <2>1. SIGNAL_QUEUE # <<>>
        BY <1>2, MainLoopAssumption
    <2>2. Kept = Tail(SIGNAL_QUEUE) /\ Overflow = {Head(SIGNAL_QUEUE).number}
        BY <1>2 DEF Kept, Overflow
    <2>3. Kept \in Seq(Event)
        BY <1>1, <2>1, <2>2
    <2>4. Increasing(Kept) /\ Head(SIGNAL_QUEUE).number \notin Numbers(Kept)
        BY <1>1, <2>1, <2>2, TailOrdered
    <2>5. Numbers(SIGNAL_QUEUE) = Numbers(Kept) \cup {Head(SIGNAL_QUEUE).number}
        BY <1>1, <2>1, <2>2, NumbersOf
    <2> QED
        BY <2>2, <2>3, <2>4, <2>5
<1>3. CASE ~ (Len(SIGNAL_QUEUE) >= MaxSignalQueueSize)
    <2>1. Kept = SIGNAL_QUEUE /\ Overflow = {}
        BY <1>3 DEF Kept, Overflow
    <2> QED
        BY <1>1, <2>1
<1> QED
    BY <1>2, <1>3

LEMMA EnqueueAccounted ==
    ASSUME TypeOK, EventsAccounted, NEW signal \in Signal, enqueue_signal(signal),
           UNCHANGED <<safe_points, taken>>
    PROVE  EventsAccounted'
<1> DEFINE event == [signal |-> signal, number |-> received + 1]
<1>1. event \in Event /\ event.number = received + 1 /\ received \in Nat
    BY DEF TypeOK, Event
<1>2. /\ Kept \in Seq(Event) /\ Increasing(Kept)
      /\ Numbers(Kept) = Numbers(SIGNAL_QUEUE) \ Overflow
      /\ Overflow \subseteq Numbers(SIGNAL_QUEUE)
    BY KeptOrdered DEF EventsAccounted, InOrder
<1>3. /\ SIGNAL_QUEUE' = Append(Kept, event)
      /\ received' = received + 1
      /\ dropped' = dropped \cup Overflow
    BY DEF enqueue_signal, QueueWith, Kept
<1> HIDE DEF event
<1>4. Numbers(SIGNAL_QUEUE') = Numbers(Kept) \cup {received + 1}
    BY <1>1, <1>2, <1>3, NumbersOf
<1>5. /\ taken \cup dropped \cup Numbers(SIGNAL_QUEUE) = 1..received
      /\ taken \cap dropped = {}
      /\ (taken \cup dropped) \cap Numbers(SIGNAL_QUEUE) = {}
    BY DEF EventsAccounted, OneFate
<1>6. OneFate'
    <2>1. 1..received + 1 = (1..received) \cup {received + 1}
        BY <1>1
    <2>2. received + 1 \notin 1..received
        BY <1>1
    <2> QED
        BY <1>2, <1>3, <1>4, <1>5, <2>1, <2>2 DEF OneFate
<1>7. \A n \in taken \cup Numbers(SIGNAL_QUEUE) : n < received + 1
    BY <1>1, <1>5
<1>8. Increasing(SIGNAL_QUEUE')
    BY <1>1, <1>2, <1>3, <1>7, AppendOrdered
<1>9. \A i \in DOMAIN safe_points : Older(Left(i), SIGNAL_QUEUE')
    BY <1>2, <1>4, <1>7 DEF EventsAccounted, InOrder, Older
<1>10. InOrder'
    BY <1>8, <1>9 DEF EventsAccounted, InOrder, Left
<1> QED
    BY <1>6, <1>10 DEF EventsAccounted

LEMMA SafePointAccounted ==
    ASSUME TypeOK, EventsAccounted, NEW outer \in Seq(Frame),
           SameLeft(outer, safe_points), SafePointWithin(outer)
    PROVE  EventsAccounted'
<1> DEFINE n == Len(outer)
<1>1. /\ DOMAIN safe_points' = DOMAIN safe_points \cup {n + 1}
      /\ n + 1 \notin DOMAIN safe_points /\ n \in Nat
      /\ \A i \in DOMAIN safe_points : Left(i)' = Left(i) /\ i < n + 1 /\ i \in Nat
      /\ Left(n + 1)' = SIGNAL_QUEUE
    <2> DEFINE frame == [batch |-> SIGNAL_QUEUE, handling |-> FALSE, commands |-> 0,
                         status |-> last_exit_code, before |-> last_exit_code]
    <2>1. safe_points' = Append(outer, frame) /\ frame.batch = SIGNAL_QUEUE
        BY DEF SafePointWithin
    <2> HIDE DEF frame
    <2>2. /\ DOMAIN outer = 1..n /\ DOMAIN safe_points' = 1..n + 1 /\ n \in Nat
          /\ \A i \in 1..n : safe_points'[i] = outer[i]
          /\ safe_points'[n + 1] = frame
        BY <2>1
    <2>3. DOMAIN safe_points = 1..n /\ \A i \in 1..n : outer[i].batch = safe_points[i].batch
        BY <2>2 DEF SameLeft
    <2> QED
        BY <2>1, <2>2, <2>3 DEF Left
<1>2. /\ SIGNAL_QUEUE' = <<>> /\ taken' = taken \cup Numbers(SIGNAL_QUEUE)
      /\ UNCHANGED <<received, dropped>>
    BY DEF SafePointWithin
<1>3. Numbers(SIGNAL_QUEUE') = {}
    BY <1>2 DEF Numbers
<1>4. OneFate'
    BY <1>2, <1>3 DEF EventsAccounted, OneFate
<1>5. Increasing(SIGNAL_QUEUE')
    BY <1>2 DEF Increasing
<1>6. ASSUME NEW i \in DOMAIN safe_points'
      PROVE  /\ Increasing(Left(i)')
             /\ Numbers(Left(i)') \subseteq taken'
             /\ Older(Left(i)', SIGNAL_QUEUE')
             /\ \A j \in DOMAIN safe_points' : i < j => Older(Left(i)', Left(j)')
    <2>1. Older(Left(i)', SIGNAL_QUEUE')
        BY <1>3 DEF Older
    <2>2. CASE i \in DOMAIN safe_points
        <3>1. /\ Increasing(Left(i)) /\ Numbers(Left(i)) \subseteq taken
              /\ Older(Left(i), SIGNAL_QUEUE)
              /\ \A j \in DOMAIN safe_points : i < j => Older(Left(i), Left(j))
            BY <2>2 DEF EventsAccounted, InOrder
        <3>2. ASSUME NEW j \in DOMAIN safe_points', i < j PROVE Older(Left(i)', Left(j)')
            BY <1>1, <2>2, <3>1, <3>2
        <3> QED
            BY <1>1, <1>2, <2>1, <2>2, <3>1, <3>2
    <2>3. CASE i = n + 1
        <3>1. \A j \in DOMAIN safe_points' : ~ (i < j)
            BY <1>1, <2>3
        <3> QED
            BY <1>1, <1>2, <2>1, <2>3, <3>1 DEF EventsAccounted, InOrder
    <2> QED
        BY <1>1, <2>2, <2>3
<1>7. InOrder'
    BY <1>5, <1>6 DEF InOrder
<1> QED
    BY <1>4, <1>7 DEF EventsAccounted

\* Changing the innermost safe point, but for its batch.
LEMMA InnermostSameLeft ==
    ASSUME TypeOK, ~ NotHandling, NEW frame \in Frame, frame.batch = Innermost.batch
    PROVE  SameLeft([safe_points EXCEPT ![Len(safe_points)] = frame], safe_points)
BY InnermostType DEF SameLeft, Innermost, Last, TypeOK

LEMMA HandlersAccounted == ASSUME TypeOK, EventsAccounted, Handlers PROVE EventsAccounted'
<1> DEFINE n == Len(safe_points)
<1>1. ~ NotHandling
    BY DEF Handlers, TakeEvent, EndHandler, EndSafePoint
<1>2. /\ Innermost \in Frame /\ Innermost = safe_points[n] /\ n \in DOMAIN safe_points
      /\ DOMAIN safe_points = 1..n /\ n \in Nat
    BY <1>1, InnermostType DEF Innermost, Last, TypeOK
<1>3. UNCHANGED <<SIGNAL_QUEUE, received, dropped, taken>>
    BY DEF Handlers, TakeEvent, EndHandler, EndSafePoint, signalVars
<1>4. OneFate'
    BY <1>3 DEF EventsAccounted, OneFate
<1>5. CASE TakeEvent
    <2>1. /\ DOMAIN safe_points' = DOMAIN safe_points
          /\ \A i \in DOMAIN safe_points : i # n => safe_points'[i] = safe_points[i]
          /\ safe_points'[n].batch = Tail(Innermost.batch)
          /\ Innermost.batch # <<>>
        BY <1>2, <1>5 DEF TakeEvent, Frame
    <2>2. Innermost.batch \in Seq(Event)
        BY <1>2 DEF Frame
    <2>3. /\ Increasing(Left(n)) /\ Numbers(Left(n)) \subseteq taken
          /\ Older(Left(n), SIGNAL_QUEUE) /\ Left(n) = Innermost.batch
        BY <1>2 DEF EventsAccounted, InOrder, Left
    <2>4. Increasing(safe_points'[n].batch)
          /\ Numbers(safe_points'[n].batch) \subseteq Numbers(Left(n))
        BY <2>1, <2>2, <2>3, TailOrdered, NumbersOf DEF Left
    <2>5. ASSUME NEW i \in DOMAIN safe_points
          PROVE  Increasing(Left(i)') /\ Numbers(Left(i)') \subseteq Numbers(Left(i))
        <3>1. CASE i = n
            BY <2>4, <3>1 DEF Left
        <3>2. CASE i # n
            BY <2>1, <3>2 DEF EventsAccounted, InOrder, Left
        <3> QED
            BY <3>1, <3>2
    <2>6. InOrder'
        BY <1>3, <2>1, <2>5 DEF EventsAccounted, InOrder, Older
    <2> QED
        BY <1>4, <2>6 DEF EventsAccounted
<1>6. CASE EndHandler
    <2> DEFINE frame == [Innermost EXCEPT !.handling = FALSE, !.commands = 0]
    <2>1. frame \in Frame /\ frame.batch = Innermost.batch
        BY <1>2 DEF Frame
    <2>2. safe_points' = [safe_points EXCEPT ![n] = frame]
        BY <1>2, <1>6 DEF EndHandler
    <2>3. SameLeft(safe_points', safe_points)
        <3> HIDE DEF frame
        <3> QED
            BY <1>1, <2>1, <2>2, InnermostSameLeft
    <2> QED
        BY <1>3, <2>3, Untouched
<1>7. CASE EndSafePoint
    <2>1. DOMAIN safe_points' = 1..n - 1 /\ \A i \in 1..n - 1 : safe_points'[i] = safe_points[i]
        BY <1>2, <1>7 DEF EndSafePoint, Front
    <2>2. DOMAIN safe_points' \subseteq DOMAIN safe_points
          /\ \A i \in DOMAIN safe_points' : Left(i)' = Left(i)
        BY <1>2, <2>1 DEF Left
    <2>3. InOrder'
        BY <1>3, <2>2 DEF EventsAccounted, InOrder
    <2> QED
        BY <1>4, <2>3 DEF EventsAccounted
<1> QED
    BY <1>5, <1>6, <1>7 DEF Handlers

\* A safe point between lines, or at a turn of a line's loop.
LEMMA OuterSafePointAccounted ==
    ASSUME TypeOK, EventsAccounted, SafePoint
    PROVE  EventsAccounted'
<1>1. safe_points \in Seq(Frame) /\ SameLeft(safe_points, safe_points)
    BY DEF TypeOK, SameLeft
<1> QED
    BY <1>1, SafePointAccounted DEF SafePoint

LEMMA CommandsAccounted == ASSUME TypeOK, EventsAccounted, Commands PROVE EventsAccounted'
<1>1. CASE RunCommand \/ Trap \/ Exit
    <2>1. MayRun /\ UseCommand /\ UNCHANGED <<SIGNAL_QUEUE, received, dropped, taken>>
        BY <1>1 DEF RunCommand, Trap, Exit, signalVars
    <2>2. SameLeft(safe_points', safe_points)
        <3>1. CASE NotHandling
            BY <2>1, <3>1 DEF UseCommand, SameLeft
        <3>2. CASE ~ NotHandling
            <4> DEFINE n == Len(safe_points)
                       frame == [Innermost EXCEPT !.commands = @ - 1]
            <4>1. Innermost \in Frame /\ Innermost = safe_points[n] /\ n \in DOMAIN safe_points
                BY <3>2, InnermostType DEF Innermost, Last
            <4>2. frame.batch = Innermost.batch
                BY <4>1 DEF Frame
            <4>3. safe_points' = [safe_points EXCEPT ![n] = frame]
                BY <2>1, <3>2, <4>1 DEF UseCommand
            <4> HIDE DEF frame
            <4> QED
                BY <4>1, <4>2, <4>3 DEF SameLeft
        <3> QED
            BY <3>1, <3>2
    <2> QED
        BY <2>1, <2>2, Untouched
<1>2. CASE ForTurn
    <2>1. CASE NotHandling
        BY <1>2, <2>1, OuterSafePointAccounted DEF ForTurn
    <2>2. CASE ~ NotHandling
        <3> DEFINE n == Len(safe_points)
                   frame == [Innermost EXCEPT !.commands = @ - 1]
                   outer == [safe_points EXCEPT ![n] = frame]
        <3>1. /\ Innermost \in Frame /\ Innermost = safe_points[n] /\ n \in DOMAIN safe_points
              /\ \A fr \in Frame : [safe_points EXCEPT ![n] = fr] \in Seq(Frame)
            BY <2>2, InnermostType DEF Innermost, Last
        <3> DEFINE left == Innermost.commands - 1
        <3>2. left \in Nat
            BY <1>2, <2>2, <3>1 DEF ForTurn, CommandsLeft, Frame
        <3>3. frame \in Frame /\ frame.batch = Innermost.batch
            <4>1. frame = [Innermost EXCEPT !.commands = left]
                OBVIOUS
            <4> HIDE DEF left
            <4> QED
                BY <3>1, <3>2, <4>1 DEF Frame
        <3>4. SafePointWithin(outer)
            BY <1>2, <2>2, <3>1 DEF ForTurn
        <3>5. outer \in Seq(Frame) /\ SameLeft(outer, safe_points)
            <4> HIDE DEF frame
            <4> QED
                BY <2>2, <3>1, <3>3, InnermostSameLeft
        <3> HIDE DEF outer
        <3> QED
            BY <3>4, <3>5, SafePointAccounted
    <2> QED
        BY <2>1, <2>2
<1>3. CASE EndLine
    <2>1. UNCHANGED <<SIGNAL_QUEUE, received, dropped, taken, safe_points>>
        BY <1>3 DEF EndLine, signalVars
    <2> QED
        BY <2>1, Untouched DEF SameLeft
<1> QED
    BY <1>1, <1>2, <1>3 DEF Commands

LEMMA StepAccounted ==
    TypeOK /\ EventsAccounted /\ [Next]_vars => EventsAccounted'
<1> SUFFICES ASSUME TypeOK, EventsAccounted, [Next]_vars PROVE EventsAccounted'
    OBVIOUS
<1>1. ASSUME UNCHANGED <<SIGNAL_QUEUE, received, dropped, taken, safe_points>>
      PROVE  EventsAccounted'
    BY <1>1, Untouched DEF SameLeft
<1>2. CASE Deliver \/ UNCHANGED vars \/ End
    BY <1>1, <1>2 DEF Deliver, End, vars, signalVars, unchangedShell
<1>3. CASE SignalThread
    <2>1. UNCHANGED <<safe_points, taken>>
          /\ (\/ \E signal \in Signal : enqueue_signal(signal)
              \/ UNCHANGED <<SIGNAL_QUEUE, received, dropped>>)
        BY <1>3 DEF SignalThread, TypeOK
    <2> QED
        BY <1>1, <2>1, EnqueueAccounted
<1>4. CASE ScriptLoop
    BY <1>1, <1>4, OuterSafePointAccounted
    DEF ScriptLoop, Start, StartCommand, NextLine, StartLine, EndScript, unchangedShell, signalVars
<1>5. CASE InteractiveLoop \/ Terminal
    BY <1>1, <1>5, OuterSafePointAccounted
    DEF InteractiveLoop, Terminal, Prompt, ReadLine, Typed, Pasted, Collect, AfterLine,
        AfterInput, NoLine, EnterLines, EnterNothing, unchangedShell, signalVars
<1>6. CASE ExitTrap
    <2>1. NotHandling /\ UNCHANGED <<SIGNAL_QUEUE, received, dropped, taken>>
        BY <1>6 DEF ExitTrap, execute_exit_trap, Step, signalVars
    <2> DEFINE frame == [batch |-> <<>>, handling |-> TRUE, commands |-> MaxCommands,
                         status |-> last_exit_code, before |-> last_exit_code]
    <2>2. safe_points' \in {safe_points, <<frame>>}
        BY <1>6 DEF ExitTrap, execute_exit_trap
    <2>3. CASE safe_points' = safe_points
        BY <1>1, <2>1, <2>3
    <2>4. CASE safe_points' = <<frame>>
        <3>1. DOMAIN safe_points' = {1} /\ Left(1)' = <<>>
            BY <2>4 DEF Left
        <3>2. Numbers(<<>>) = {} /\ Increasing(<<>>)
            BY DEF Numbers, Increasing
        <3>3. InOrder'
            BY <2>1, <3>1, <3>2 DEF EventsAccounted, InOrder, Older
        <3> QED
            BY <2>1, <3>3 DEF EventsAccounted, OneFate
    <2> QED
        BY <2>2, <2>3, <2>4
<1> QED
    BY <1>2, <1>3, <1>4, <1>5, <1>6, HandlersAccounted, CommandsAccounted DEF Next, MainThread

LEMMA InitAccounted == Init => EventsAccounted
<1> SUFFICES ASSUME Init PROVE EventsAccounted
    OBVIOUS
<1>1. SIGNAL_QUEUE = <<>> /\ safe_points = <<>> /\ received = 0 /\ taken = {} /\ dropped = {}
    BY DEF Init
<1>2. Numbers(SIGNAL_QUEUE) = {} /\ 1..received = {}
    BY <1>1 DEF Numbers
<1> QED
    BY <1>1, <1>2 DEF EventsAccounted, OneFate, InOrder, Increasing

\* Every signal that was received has one fate, and signals are handled in
\* the order of their arrival but for those that a handler's own safe point
\* takes.
THEOREM AccountsForEvents == Spec => []EventsAccounted
<1>1. TypeOK /\ EventsAccounted /\ [Next]_vars => (TypeOK /\ EventsAccounted)'
    BY StepTypeOK, StepAccounted
<1> QED
    BY <1>1, InitTypeOK, InitAccounted, PTL DEF Spec

-----------------------------------------------------------------------------
(* The queue is a refinement of SignalDelivery *)

\* Events in order have as many numbers as they are.
LEMMA AsManyNumbers ==
    ASSUME NEW batch \in Seq(Event), Increasing(batch)
    PROVE  Cardinality(Numbers(batch)) = Len(batch)
<1> DEFINE numbering == [i \in 1..Len(batch) |-> batch[i].number]
<1>1. DOMAIN batch = 1..Len(batch) /\ Len(batch) \in Nat
    OBVIOUS
<1>2. \A i \in DOMAIN batch : batch[i].number \in Nat
    BY EventNumbers
<1>3. numbering \in [1..Len(batch) -> Numbers(batch)]
    BY <1>1 DEF Numbers
<1>4. \A n \in Numbers(batch) : \E i \in 1..Len(batch) : numbering[i] = n
    BY <1>1 DEF Numbers
<1>5. ASSUME NEW i \in 1..Len(batch), NEW j \in 1..Len(batch), numbering[i] = numbering[j]
      PROVE  i = j
    <2>1. batch[i].number = batch[j].number /\ batch[i].number \in Nat
        BY <1>1, <1>2, <1>5
    <2>2. ~ (batch[i].number < batch[j].number) /\ ~ (batch[j].number < batch[i].number)
        BY <2>1
    <2> QED
        BY <1>1, <2>2 DEF Increasing
<1> HIDE DEF numbering
<1>6. numbering \in Bijection(1..Len(batch), Numbers(batch))
    BY <1>3, <1>4, <1>5, Fun_IsBij
<1>7. ExistsBijection(1..Len(batch), Numbers(batch))
    BY <1>6 DEF ExistsBijection
<1>8. IsFiniteSet(1..Len(batch)) /\ Cardinality(1..Len(batch)) = Len(batch)
    BY <1>1, FS_Interval
<1> QED
    BY <1>7, <1>8, FS_Bijection

\* The head of events in order is the oldest.
LEMMA HeadIsOldest ==
    ASSUME NEW batch \in Seq(Event), batch # <<>>, Increasing(batch)
    PROVE  /\ Head(batch).number \in Numbers(batch)
           /\ \A n \in Numbers(batch) : Head(batch).number <= n
<1>1. /\ DOMAIN batch = 1..Len(batch) /\ Len(batch) \in Nat
      /\ Head(batch) = batch[1] /\ 1 \in DOMAIN batch
    OBVIOUS
<1>2. \A i \in DOMAIN batch : batch[i].number \in Nat
    BY EventNumbers
<1>3. ASSUME NEW i \in DOMAIN batch PROVE batch[1].number <= batch[i].number
    <2>1. i = 1 \/ 1 < i
        BY <1>1
    <2>2. 1 < i => batch[1].number < batch[i].number
        BY <1>1 DEF Increasing
    <2> QED
        BY <1>1, <1>2, <2>1, <2>2
<1> QED
    BY <1>1, <1>3 DEF Numbers

LEMMA SameCardinality ==
    ASSUME NEW S
    PROVE  Delivery!Cardinality(S) = Cardinality(S)
BY DEF Delivery!Cardinality, Cardinality

LEMMA EnqueueIsReceive ==
    ASSUME TypeOK, EventsAccounted, NEW signal \in Signal, enqueue_signal(signal),
           UNCHANGED taken
    PROVE  Delivery!Receive
<1> DEFINE event == [signal |-> signal, number |-> received + 1]
           waiting == Numbers(SIGNAL_QUEUE)
<1>1. SIGNAL_QUEUE \in Seq(Event) /\ Len(SIGNAL_QUEUE) <= MaxSignalQueueSize
      /\ Increasing(SIGNAL_QUEUE) /\ Cardinality(waiting) = Len(SIGNAL_QUEUE)
    BY AsManyNumbers DEF TypeOK, EventsAccounted, InOrder
<1>2. event \in Event /\ event.number = received + 1
    BY DEF TypeOK, Event
<1>3. /\ Kept \in Seq(Event) /\ Numbers(Kept) = waiting \ Overflow
    BY <1>1, KeptOrdered
<1>4. /\ SIGNAL_QUEUE' = Append(Kept, event) /\ received' = received + 1
      /\ dropped' = dropped \cup Overflow
    BY DEF enqueue_signal, QueueWith, Kept
<1>5. Numbers(SIGNAL_QUEUE)' = (waiting \ Overflow) \cup {received'}
    <2> HIDE DEF event
    <2> QED
        BY <1>2, <1>3, <1>4, NumbersOf
<1>6. CASE Len(SIGNAL_QUEUE) >= MaxSignalQueueSize
    <2>1. Len(SIGNAL_QUEUE) = MaxSignalQueueSize /\ SIGNAL_QUEUE # <<>>
        BY <1>1, <1>6, MainLoopAssumption
    <2>2. Overflow = {Head(SIGNAL_QUEUE).number}
        BY <1>6 DEF Overflow
    <2>3. Delivery!Oldest(Head(SIGNAL_QUEUE).number)
        BY <1>1, <2>1, HeadIsOldest DEF Delivery!Oldest
    <2> HIDE DEF waiting
    <2>4. Head(SIGNAL_QUEUE).number \in Numbers(SIGNAL_QUEUE)
        BY <1>1, <2>1, HeadIsOldest
    <2>5. Numbers(SIGNAL_QUEUE)'
              = (Numbers(SIGNAL_QUEUE) \ {Head(SIGNAL_QUEUE).number}) \cup {received'}
        BY <1>5, <2>2 DEF waiting
    <2>6. dropped' = dropped \cup {Head(SIGNAL_QUEUE).number} /\ received' = received + 1
        BY <1>4, <2>2
    <2>7. Cardinality(Numbers(SIGNAL_QUEUE)) = MaxSignalQueueSize
        BY <1>1, <2>1 DEF waiting
    <2> QED
        BY <2>3, <2>4, <2>5, <2>6, <2>7, SameCardinality DEF Delivery!Receive
<1>7. CASE ~ (Len(SIGNAL_QUEUE) >= MaxSignalQueueSize)
    <2>1. Overflow = {} /\ Len(SIGNAL_QUEUE) < MaxSignalQueueSize
        BY <1>1, <1>7, MainLoopAssumption DEF Overflow
    <2>2. Numbers(SIGNAL_QUEUE)' = Numbers(SIGNAL_QUEUE) \cup {received'}
        BY <1>5, <2>1
    <2>3. dropped' = dropped /\ received' = received + 1
        BY <1>4, <2>1
    <2>4. Cardinality(Numbers(SIGNAL_QUEUE)) < MaxSignalQueueSize
        BY <1>1, <2>1
    <2> QED
        BY <2>2, <2>3, <2>4, SameCardinality DEF Delivery!Receive
<1> QED
    BY <1>6, <1>7

LEMMA SafePointIsTake ==
    ASSUME NEW outer, SafePointWithin(outer)
    PROVE  Delivery!Take
<1>1. SIGNAL_QUEUE' = <<>> /\ taken' = taken \cup Numbers(SIGNAL_QUEUE)
      /\ UNCHANGED <<received, dropped>>
    BY DEF SafePointWithin
<1>2. Numbers(SIGNAL_QUEUE)' = {}
    BY <1>1 DEF Numbers
<1> QED
    BY <1>1, <1>2 DEF Delivery!Take

LEMMA StepDelivers ==
    TypeOK /\ EventsAccounted /\ [Next]_vars => [Delivery!Next]_(Delivery!vars)
<1> SUFFICES ASSUME TypeOK, EventsAccounted, [Next]_vars
             PROVE  [Delivery!Next]_(Delivery!vars)
    OBVIOUS
<1>1. ASSUME UNCHANGED <<SIGNAL_QUEUE, received, dropped, taken>>
      PROVE  UNCHANGED Delivery!vars
    BY <1>1 DEF Delivery!vars
<1>2. ASSUME NEW outer, SafePointWithin(outer) PROVE Delivery!Next
    BY <1>2, SafePointIsTake DEF Delivery!Next
<1>3. CASE Deliver \/ UNCHANGED vars \/ End \/ ExitTrap
    BY <1>1, <1>3
    DEF Deliver, End, ExitTrap, execute_exit_trap, vars, signalVars, unchangedShell
<1>4. CASE SignalThread
    <2>1. UNCHANGED taken
          /\ (\/ \E signal \in Signal : enqueue_signal(signal)
              \/ UNCHANGED <<SIGNAL_QUEUE, received, dropped>>)
        BY <1>4 DEF SignalThread, TypeOK
    <2> QED
        BY <1>1, <2>1, EnqueueIsReceive DEF Delivery!Next
<1>5. CASE Handlers
    BY <1>1, <1>5 DEF Handlers, TakeEvent, EndHandler, EndSafePoint, signalVars
<1>6. CASE Commands
    BY <1>1, <1>2, <1>6
    DEF Commands, RunCommand, Trap, Exit, ForTurn, EndLine, SafePoint, signalVars
<1>7. CASE ScriptLoop
    BY <1>1, <1>2, <1>7
    DEF ScriptLoop, Start, StartCommand, NextLine, StartLine, EndScript, SafePoint, unchangedShell, signalVars
<1>8. CASE InteractiveLoop \/ Terminal
    BY <1>1, <1>2, <1>8
    DEF InteractiveLoop, Terminal, Prompt, ReadLine, Typed, Pasted, Collect, AfterLine,
        AfterInput, NoLine, EnterLines, EnterNothing, SafePoint, unchangedShell, signalVars
<1> QED
    BY <1>3, <1>4, <1>5, <1>6, <1>7, <1>8 DEF Next, MainThread

\* The queue, its signal thread and the safe points do what SignalDelivery
\* promises of them.
THEOREM ImplementsDelivery == Spec => Delivers
<1>1. Init => Delivery!Init
    BY DEF Init, Delivery!Init, Numbers
<1>2. Spec => [](TypeOK /\ EventsAccounted)
    BY TypeCorrect, AccountsForEvents, PTL
<1> QED
    BY <1>1, <1>2, StepDelivers, PTL DEF Spec, Delivers, Delivery!Spec

-----------------------------------------------------------------------------
(* $? at a safe point *)

\* A handler is to restore what $? was before its safe point, and only
\* handlers have safe points within.
FramesOK(frames) ==
    \A i \in DOMAIN frames :
        /\ frames[i].handling => frames[i].status = frames[i].before
        /\ i < Len(frames) => frames[i].handling

StatusInv == FramesOK(safe_points) /\ HandlersKeepStatus

LEMMA NoFrames ==
    ASSUME NotHandling'
    PROVE  StatusInv'
BY DEF NotHandling, StatusInv, FramesOK, HandlersKeepStatus

LEMMA SameFrames ==
    ASSUME StatusInv, UNCHANGED <<safe_points, last_exit_code>>
    PROVE  StatusInv'
BY DEF StatusInv, FramesOK, HandlersKeepStatus, NotHandling, Innermost, Last

\* A safe point of the line, or of the innermost handler.
LEMMA SafePointStatus ==
    ASSUME NEW outer \in Seq(Frame), FramesOK(outer), SafePointWithin(outer),
           outer # <<>> => outer[Len(outer)].handling,
           UNCHANGED last_exit_code
    PROVE  StatusInv'
<1> DEFINE frame == [batch |-> SIGNAL_QUEUE, handling |-> FALSE, commands |-> 0,
                     status |-> last_exit_code, before |-> last_exit_code]
           n == Len(outer)
<1>1. safe_points' = Append(outer, frame)
    BY DEF SafePointWithin
<1>2. ~ frame.handling /\ frame.before = last_exit_code
    OBVIOUS
<1> HIDE DEF frame
<1>3. /\ n \in Nat
      /\ DOMAIN outer = 1..n
      /\ DOMAIN safe_points' = 1..(n + 1)
      /\ Len(safe_points') = n + 1
      /\ \A i \in 1..n : safe_points'[i] = outer[i]
      /\ safe_points'[n + 1] = frame
    BY <1>1
<1>4. ASSUME NEW i \in 1..n PROVE outer[i].handling
    <2>1. CASE i < n
        <3>1. i \in DOMAIN outer /\ i < Len(outer)
            BY <1>3, <2>1
        <3> QED
            BY <3>1 DEF FramesOK
    <2>2. CASE i = n
        <3>1. outer # <<>>
            BY <1>3
        <3> QED
            BY <2>2, <3>1
    <2>3. i < n \/ i = n
        <3> HIDE DEF n
        <3> QED
            BY <1>3
    <2> QED
        BY <2>1, <2>2, <2>3
<1>5. FramesOK(safe_points')
    BY <1>2, <1>3, <1>4 DEF FramesOK
<1>6. HandlersKeepStatus'
    BY <1>2, <1>3 DEF HandlersKeepStatus, Innermost, Last
<1> QED
    BY <1>5, <1>6 DEF StatusInv

\* The innermost safe point is replaced by one of the same beginning.
LEMMA InnermostStatus ==
    ASSUME TypeOK, StatusInv, ~ NotHandling, NEW frame,
           safe_points' = [safe_points EXCEPT ![Len(safe_points)] = frame],
           frame.handling => frame.status = frame.before,
           ~ frame.handling => last_exit_code' = frame.before
    PROVE  StatusInv'
<1> DEFINE n == Len(safe_points)
<1>1. n \in DOMAIN safe_points /\ safe_points \in Seq(Frame)
    BY InnermostType DEF TypeOK
<1>2. /\ DOMAIN safe_points' = DOMAIN safe_points
      /\ Len(safe_points') = n
      /\ \A i \in DOMAIN safe_points :
            safe_points'[i] = IF i = n THEN frame ELSE safe_points[i]
    BY <1>1
<1>3. FramesOK(safe_points')
    BY <1>1, <1>2 DEF StatusInv, FramesOK
<1>4. HandlersKeepStatus'
    BY <1>1, <1>2 DEF HandlersKeepStatus, Innermost, Last
<1> QED
    BY <1>3, <1>4 DEF StatusInv

\* What is left of the safe points when the innermost ends.
LEMMA WithoutLast ==
    ASSUME NEW frames \in Seq(Frame), frames # <<>>
    PROVE  /\ Len(frames) \in Nat \ {0} /\ DOMAIN frames = 1..Len(frames)
           /\ Len(Front(frames)) = Len(frames) - 1
           /\ DOMAIN Front(frames) = 1..(Len(frames) - 1)
           /\ \A i \in 1..(Len(frames) - 1) : Front(frames)[i] = frames[i]
<1>1. Front(frames) = SubSeq(frames, 1, Len(frames) - 1)
    BY DEF Front
<1>2. Len(frames) \in Nat \ {0} /\ DOMAIN frames = 1..Len(frames)
    OBVIOUS
<1> QED
    BY <1>1, <1>2

LEMMA HandlersStatus == ASSUME TypeOK, StatusInv, Handlers PROVE StatusInv'
<1> DEFINE n == Len(safe_points)
<1>1. ~ NotHandling
    BY DEF Handlers, TakeEvent, EndHandler, EndSafePoint
<1>2. /\ Innermost \in Frame /\ Innermost = safe_points[n] /\ n \in DOMAIN safe_points
      /\ safe_points \in Seq(Frame)
    BY <1>1, InnermostType DEF Innermost, Last, TypeOK
<1>3. CASE TakeEvent
    <2> DEFINE rest == [Innermost EXCEPT !.batch = Tail(@), !.status = last_exit_code]
               started == [rest EXCEPT !.handling = TRUE, !.commands = MaxCommands]
    <2>1. last_exit_code = Innermost.before /\ ~ Innermost.handling
        BY <1>1, <1>3 DEF TakeEvent, StatusInv, HandlersKeepStatus
    <2>2. /\ ~ rest.handling /\ rest.before = last_exit_code
          /\ started.status = last_exit_code /\ started.before = last_exit_code
        BY <1>2, <2>1 DEF Frame
    <2>3. /\ safe_points' = [safe_points EXCEPT ![n] = started]
             \/ safe_points' = [safe_points EXCEPT ![n] = rest]
          /\ last_exit_code' = last_exit_code
        BY <1>2, <1>3 DEF TakeEvent, shellVars
    <2> HIDE DEF rest, started
    <2> QED
        BY <1>1, <2>2, <2>3, InnermostStatus
<1>4. CASE EndHandler
    <2> DEFINE frame == [Innermost EXCEPT !.handling = FALSE, !.commands = 0]
    <2>1. ~ frame.handling /\ frame.before = Innermost.before
        BY <1>2 DEF Frame
    <2>2. last_exit_code' = Innermost.before
        BY <1>2, <1>4 DEF EndHandler, StatusInv, FramesOK
    <2>3. safe_points' = [safe_points EXCEPT ![n] = frame]
        BY <1>2, <1>4 DEF EndHandler
    <2> HIDE DEF frame
    <2> QED
        BY <1>1, <2>1, <2>2, <2>3, InnermostStatus
<1>5. CASE EndSafePoint
    <2>1. /\ Len(safe_points') = n - 1 /\ n \in Nat
          /\ DOMAIN safe_points' = 1..(n - 1) /\ DOMAIN safe_points = 1..n
          /\ \A i \in 1..(n - 1) : safe_points'[i] = safe_points[i]
        BY <1>1, <1>2, <1>5, WithoutLast DEF EndSafePoint, NotHandling
    <2>2. \A i \in 1..(n - 1) : safe_points'[i].handling
                                /\ safe_points'[i].status = safe_points'[i].before
        BY <2>1 DEF StatusInv, FramesOK
    <2>3. FramesOK(safe_points')
        BY <2>1, <2>2 DEF FramesOK
    <2>4. HandlersKeepStatus'
        <3>1. CASE n = 1
            <4>1. safe_points' = <<>>
                BY <1>2, <1>5, <3>1 DEF EndSafePoint, Front
            <4> QED
                BY <4>1 DEF HandlersKeepStatus, NotHandling
        <3>2. CASE n # 1
            <4>1. n - 1 \in 1..(n - 1)
                BY <1>2, <2>1, <3>2
            <4> QED
                BY <2>1, <2>2, <4>1 DEF HandlersKeepStatus, Innermost, Last
        <3> QED
            BY <3>1, <3>2
    <2> QED
        BY <2>3, <2>4 DEF StatusInv
<1> QED
    BY <1>3, <1>4, <1>5 DEF Handlers

\* A command of a handler: the handler has one fewer, and goes on.
LEMMA OneFewer ==
    ASSUME TypeOK, StatusInv, ~ NotHandling, Innermost.handling
    PROVE  LET left == [safe_points EXCEPT ![Len(safe_points)].commands = @ - 1]
           IN  /\ left = [safe_points EXCEPT ![Len(safe_points)] =
                            [Innermost EXCEPT !.commands = @ - 1]]
               /\ [Innermost EXCEPT !.commands = @ - 1].handling
               /\ [Innermost EXCEPT !.commands = @ - 1].status
                    = [Innermost EXCEPT !.commands = @ - 1].before
<1> DEFINE n == Len(safe_points)
<1>1. Innermost \in Frame /\ Innermost = safe_points[n] /\ n \in DOMAIN safe_points
    BY InnermostType DEF Innermost, Last
<1>2. Innermost.status = Innermost.before
    BY <1>1 DEF StatusInv, FramesOK
<1> QED
    BY <1>1, <1>2 DEF Frame

LEMMA CommandsStatus == ASSUME TypeOK, StatusInv, Commands PROVE StatusInv'
<1> DEFINE n == Len(safe_points)
           frame == [Innermost EXCEPT !.commands = @ - 1]
<1>1. CASE RunCommand \/ Trap \/ Exit
    <2>1. MayRun /\ UseCommand
        BY <1>1 DEF RunCommand, Trap, Exit
    <2>2. CASE NotHandling
        <3>1. safe_points' = safe_points
            BY <2>1, <2>2 DEF UseCommand
        <3>2. NotHandling'
            BY <2>2, <3>1 DEF NotHandling
        <3> QED
            BY <3>2, NoFrames
    <2>3. CASE ~ NotHandling
        <3>1. /\ safe_points' = [safe_points EXCEPT ![n] = frame]
              /\ frame.handling /\ frame.status = frame.before
            BY <2>1, <2>3, OneFewer DEF UseCommand, MayRun
        <3> HIDE DEF frame
        <3> QED
            BY <2>3, <3>1, InnermostStatus
    <2> QED
        BY <2>2, <2>3
<1>2. CASE ForTurn
    <2>1. UNCHANGED last_exit_code /\ MayRun
        BY <1>2 DEF ForTurn, shellVars
    <2>2. CASE NotHandling
        <3>1. SafePointWithin(<<>>) /\ <<>> \in Seq(Frame) /\ FramesOK(<<>>)
            BY <1>2, <2>2 DEF ForTurn, SafePoint, NotHandling, FramesOK
        <3> QED
            BY <2>1, <3>1, SafePointStatus
    <2>3. CASE ~ NotHandling
        <3> DEFINE outer == [safe_points EXCEPT ![n] = frame]
        <3>1. /\ SafePointWithin(outer)
              /\ frame.handling /\ frame.status = frame.before
            BY <1>2, <2>1, <2>3, OneFewer DEF ForTurn, MayRun
        <3>2. /\ Innermost \in Frame /\ n \in DOMAIN safe_points
              /\ safe_points \in Seq(Frame)
            BY <2>3, InnermostType DEF TypeOK
        <3>5. frame \in Frame
            <4> DEFINE left == Innermost.commands - 1
            <4>3. Innermost.commands > 1
                BY <1>2, <2>3 DEF ForTurn, CommandsLeft
            <4>1. left \in Nat
                BY <3>2, <4>3 DEF Frame
            <4>2. frame = [Innermost EXCEPT !.commands = left]
                OBVIOUS
            <4> HIDE DEF frame, left
            <4> QED
                BY <3>2, <4>1, <4>2 DEF Frame
        <3> HIDE DEF frame
        <3>6. /\ outer \in Seq(Frame) /\ Len(outer) = n
              /\ DOMAIN outer = DOMAIN safe_points
              /\ \A i \in DOMAIN outer : outer[i] = IF i = n THEN frame ELSE safe_points[i]
            BY <3>2, <3>5
        <3>7. FramesOK(outer)
            BY <3>1, <3>2, <3>6 DEF FramesOK, StatusInv
        <3>8. outer[Len(outer)].handling
            BY <3>1, <3>2, <3>6
        <3> HIDE DEF outer
        <3> QED
            BY <2>1, <3>1, <3>6, <3>7, <3>8, SafePointStatus
    <2> QED
        BY <2>2, <2>3
<1>3. CASE EndLine
    BY <1>3, SameFrames DEF EndLine, shellVars
<1> QED
    BY <1>1, <1>2, <1>3 DEF Commands

LEMMA StepStatus == TypeOK /\ StatusInv /\ [Next]_vars => StatusInv'
<1> SUFFICES ASSUME TypeOK, StatusInv, [Next]_vars PROVE StatusInv'
    OBVIOUS
<1>1. ASSUME NotHandling, SafePoint, UNCHANGED last_exit_code PROVE StatusInv'
    <2>1. SafePointWithin(<<>>) /\ <<>> \in Seq(Frame) /\ FramesOK(<<>>)
        BY <1>1 DEF SafePoint, NotHandling, FramesOK
    <2> QED
        BY <1>1, <2>1, SafePointStatus
<1>2. CASE Deliver \/ SignalThread \/ UNCHANGED vars \/ End
    BY <1>2, SameFrames DEF Deliver, SignalThread, End, vars, shellVars, unchangedShell
<1>3. CASE Handlers
    BY <1>3, HandlersStatus
<1>4. CASE Commands
    BY <1>4, CommandsStatus
<1>5. CASE ScriptLoop
    BY <1>1, <1>5, SameFrames
    DEF ScriptLoop, Start, StartCommand, NextLine, StartLine, EndScript, ExecuteLine, Step,
        unchangedShell, shellVars
<1>6. CASE InteractiveLoop \/ Terminal
    BY <1>1, <1>6, SameFrames
    DEF InteractiveLoop, Terminal, Prompt, ReadLine, Typed, Pasted, Collect, AfterLine,
        AfterInput, NoLine, EnterLines, EnterNothing, Step, unchangedShell, shellVars
<1>7. CASE ExitTrap
    <2> DEFINE frame == [batch |-> <<>>, handling |-> TRUE, commands |-> MaxCommands,
                         status |-> last_exit_code, before |-> last_exit_code]
    <2>1. /\ UNCHANGED last_exit_code
          /\ safe_points' = safe_points \/ safe_points' = <<frame>>
        BY <1>7 DEF ExitTrap, execute_exit_trap, shellVars
    <2>2. ASSUME safe_points' = <<frame>> PROVE StatusInv'
        <3>1. frame.handling /\ frame.status = frame.before
            OBVIOUS
        <3> HIDE DEF frame
        <3>2. /\ Len(safe_points') = 1 /\ DOMAIN safe_points' = {1}
              /\ safe_points'[1] = frame
            BY <2>2
        <3> QED
            BY <3>1, <3>2 DEF StatusInv, FramesOK, HandlersKeepStatus, Innermost, Last
    <2> QED
        BY <2>1, <2>2, SameFrames
<1> QED
    BY <1>2, <1>3, <1>4, <1>5, <1>6, <1>7 DEF Next, MainThread

\* However handlers nest, fail or exit, $? after a safe point is what it was
\* before.
THEOREM StatusIsKept == Spec => []HandlersKeepStatus
<1>1. Init => StatusInv
    BY DEF Init, StatusInv, FramesOK, HandlersKeepStatus, NotHandling
<1>2. Spec => []StatusInv
    BY <1>1, TypeCorrect, StepStatus, PTL DEF Spec
<1>3. StatusInv => HandlersKeepStatus
    BY DEF StatusInv
<1> QED
    BY <1>2, <1>3, PTL

-----------------------------------------------------------------------------
(* The EXIT trap *)

\* The shell ends only after both calls, and the trap of the last one is
\* still running, or is over, when the shell is about to end.
ExitInv ==
    /\ exit_traps = (IF exit_trap_executed THEN 1 ELSE 0)
    /\ phase = "ended" => NotHandling
    /\ phase = "left" /\ ~ NotHandling => exit_trap_executed
    /\ phase \in {"left", "ended"} /\ mode # "unreadable" /\ traps["EXIT"] = Handler
          => exit_trap_executed

LEMMA SameExit ==
    ASSUME ExitInv, UNCHANGED <<exit_trap_executed, exit_traps>>,
           phase' \notin {"left", "ended"}
    PROVE  ExitInv'
BY DEF ExitInv

\* A handler that ends, or takes the next event, before the shell left.
LEMMA HandlersExit == ASSUME ExitInv, Handlers PROVE ExitInv'
<1>1. /\ UNCHANGED <<phase, mode, traps, exit_trap_executed, exit_traps>>
      /\ ~ NotHandling
    BY DEF Handlers, TakeEvent, EndHandler, EndSafePoint, controlVars, shellVars, exitVars
<1> QED
    BY <1>1 DEF ExitInv

\* A handler may set the EXIT trap, but after the shell left only that
\* trap itself can, and it has been run.
LEMMA CommandsExit == ASSUME ExitInv, Commands PROVE ExitInv'
<1>1. CASE RunCommand \/ Trap \/ Exit \/ ForTurn
    <2>1. /\ UNCHANGED <<phase, mode, exit_trap_executed, exit_traps>>
          /\ MayRun
        BY <1>1 DEF RunCommand, Trap, Exit, ForTurn, otherControlVars, exitVars
    <2>2. CASE NotHandling
        <3>1. phase = "line"
            BY <2>1, <2>2 DEF MayRun
        <3> QED
            BY <2>1, <3>1, SameExit
    <2>3. CASE ~ NotHandling
        BY <2>1, <2>3 DEF ExitInv
    <2> QED
        BY <2>2, <2>3
<1>2. CASE EndLine
    BY <1>2, SameExit DEF EndLine, exitVars
<1> QED
    BY <1>1, <1>2 DEF Commands

LEMMA ScriptLoopExit == ASSUME ExitInv, ScriptLoop PROVE ExitInv'
<1>1. CASE Start
    <2>1. /\ UNCHANGED <<mode, traps, exit_trap_executed, exit_traps, safe_points>>
          /\ NotHandling
          /\ phase' = "ended" => mode = "unreadable"
          /\ phase' # "left"
        BY <1>1 DEF Start, Step, unchangedShell, shellVars, exitVars
    <2> QED
        BY <2>1 DEF ExitInv, NotHandling
<1>2. CASE StartCommand \/ NextLine \/ StartLine \/ EndScript
    BY <1>2, SameExit
    DEF StartCommand, NextLine, StartLine, EndScript, ExecuteLine, Step, unchangedShell,
        exitVars
<1> QED
    BY <1>1, <1>2 DEF ScriptLoop

LEMMA InteractiveLoopExit ==
    ASSUME ExitInv, InteractiveLoop \/ Terminal
    PROVE  ExitInv'
<1>1. UNCHANGED <<exit_trap_executed, exit_traps>>
    BY DEF InteractiveLoop, Terminal, Prompt, ReadLine, Typed, Pasted, Collect, AfterLine,
        AfterInput, NoLine, EnterLines, EnterNothing, unchangedShell, exitVars
<1>2. phase' \notin {"left", "ended"}
    BY DEF InteractiveLoop, Terminal, Prompt, ReadLine, Typed, Pasted, Collect, AfterLine,
        AfterInput, NoLine, EnterLines, EnterNothing, ExecuteLine, Step
<1> QED
    BY <1>1, <1>2, SameExit

LEMMA ExitTrapExit ==
    ASSUME TypeOK, ExitInv, ExitTrap \/ End
    PROVE  ExitInv'
<1>1. CASE End
    BY <1>1 DEF End, Step, ExitInv, unchangedShell, shellVars, exitVars, NotHandling
<1>2. ASSUME NEW from, NEW to \in Phases, execute_exit_trap(from, to), to # "ended"
      PROVE  ExitInv'
    <2>1. /\ NotHandling /\ phase' = to /\ UNCHANGED <<mode, traps>>
        BY <1>2 DEF execute_exit_trap, Step, shellVars
    <2>2. CASE ExitTrapDue
        <3>1. ~ exit_trap_executed /\ exit_trap_executed' /\ exit_traps' = exit_traps + 1
            BY <1>2, <2>2 DEF execute_exit_trap, ExitTrapDue
        <3>2. exit_traps = 0
            BY <3>1 DEF ExitInv
        <3> QED
            BY <1>2, <2>1, <3>1, <3>2 DEF ExitInv
    <2>3. CASE ~ ExitTrapDue
        <3>1. UNCHANGED <<exit_trap_executed, exit_traps, safe_points>>
            BY <1>2, <2>3 DEF execute_exit_trap, exitVars
        <3> QED
            BY <1>2, <2>1, <2>3, <3>1 DEF ExitInv, ExitTrapDue, NotHandling
    <2> QED
        BY <2>2, <2>3
<1>3. {"leaving", "left", "after input"} \subseteq Phases
    BY DEF Phases
<1>4. CASE ExitTrap
    BY <1>2, <1>3, <1>4 DEF ExitTrap
<1> QED
    BY <1>1, <1>4

LEMMA StepExit == TypeOK /\ ExitInv /\ [Next]_vars => ExitInv'
<1> SUFFICES ASSUME TypeOK, ExitInv, [Next]_vars PROVE ExitInv'
    OBVIOUS
<1>1. CASE Deliver \/ SignalThread \/ UNCHANGED vars
    BY <1>1
    DEF Deliver, SignalThread, vars, controlVars, shellVars, exitVars, ExitInv, NotHandling
<1>2. CASE Handlers \/ Commands
    BY <1>2, HandlersExit, CommandsExit
<1>3. CASE ScriptLoop
    BY <1>3, ScriptLoopExit
<1>4. CASE InteractiveLoop \/ Terminal
    BY <1>4, InteractiveLoopExit
<1>5. CASE ExitTrap \/ End
    BY <1>5, ExitTrapExit
<1> QED
    BY <1>1, <1>2, <1>3, <1>4, <1>5 DEF Next, MainThread

\* The EXIT trap runs once at the most, and has run when a shell that could
\* read its input ends with one set, wherever it was set.
THEOREM ExitTrapRunsOnce == Spec => []ExitTrapOnce
<1>1. Init => ExitInv
    BY DEF Init, ExitInv, NotHandling
<1>2. Spec => []ExitInv
    BY <1>1, TypeCorrect, StepExit, PTL DEF Spec
<1>3. ExitInv => ExitTrapOnce
    BY DEF ExitInv, ExitTrapOnce
<1> QED
    BY <1>2, <1>3, PTL

=============================================================================
