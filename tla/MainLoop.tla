------------------------------ MODULE MainLoop ------------------------------
(***************************************************************************)
(* The two threads of the shell (src/src/main.rs): the signal thread puts  *)
(* what the kernel delivers on a bounded queue, the main thread takes      *)
(* lines from a script or the terminal and empties the queue at its safe   *)
(* points, running the trap handlers of what it took.                      *)
(*                                                                         *)
(* A line and a handler run a bounded number of commands, each of which is *)
(* a plain command, exit, trap, or a turn of a for loop, which is a safe   *)
(* point of its own.  What commands are otherwise is Executor's matter,    *)
(* and what handle_sigchld does is JobControl's.                           *)
(***************************************************************************)
EXTENDS Integers, Sequences, FiniteSets, SequencesExt

CONSTANTS
    MaxSignalQueueSize,
    Code,               \* exit statuses
    Signal,             \* the signals to consider
    Mode,               \* ways to start the shell
    TrapCall,           \* the invocations of trap to consider
    Input,              \* what the user may enter: a sequence of lines
    MaxSignals,         \* bound: signals received, for each mode
    MaxCommands,        \* bound: commands of a line or a handler
    MaxNesting          \* bound: safe points within handlers

ASSUME MainLoopAssumption ==
    /\ \A call \in TrapCall : call.form = "set" => call.action \in {"ignored", "handler"}
    /\ MaxSignalQueueSize \in Nat \ {0}
    /\ Mode \subseteq {"command", "script", "unreadable", "interactive"}
    /\ Code \subseteq Nat /\ 0 \in Code
    /\ Signal \subseteq {"INT", "TERM", "CHLD"}
    /\ MaxSignals \in [Mode -> Nat]
    /\ MaxCommands \in Nat /\ MaxNesting \in Nat
    /\ Input \subseteq Seq({"command", "exit", "heredoc", "delimiter",
                            "EOF", "Interrupted", "failure"}) \ {<<>>}

VARIABLES
    \* the signal thread
    pending,            \* signals the thread has still to read; a set: the
                        \* same signal twice is one
    thread,             \* "idle", or "TERM" between SHUTDOWN and the queue
    SHUTDOWN,
    SIGNAL_QUEUE,
    \* the main thread
    mode,
    phase,
    more_lines,         \* whether the script has more lines
    entered,            \* lines of what was entered that are still to do
    collecting_heredoc,
    commands,           \* how many commands the line may still run
    safe_points,        \* those being executed, the innermost last: what is left
                        \* of the batch, the handler being run, $? before it
                        \* and (auxiliary) before the safe point
    last_exit_code,
    exit_requested,
    traps,
    exit_trap_executed,
    \* auxiliary
    received,           \* number of signals received
    taken, dropped,     \* their fates
    exit_traps          \* how often the EXIT trap was started

signalVars == <<pending, thread, SHUTDOWN, SIGNAL_QUEUE, received, dropped>>
controlVars == <<mode, phase, more_lines, entered, collecting_heredoc, commands>>
shellVars == <<last_exit_code, exit_requested, traps>>
exitVars == <<exit_trap_executed, exit_traps>>
vars == <<signalVars, controlVars, safe_points, shellVars, exitVars, taken>>

NoTrap == "none"
Ignored == "ignored"
Handler == "handler"

-----------------------------------------------------------------------------
(* The signal thread *)

\* The kernel delivers a signal, which signal_hook notes.
Deliver ==
    /\ phase # "ended" /\ received + Cardinality(pending) < MaxSignals[mode]
    /\ \E signal \in Signal : pending' = pending \cup {signal}
    /\ UNCHANGED <<thread, SHUTDOWN, SIGNAL_QUEUE, received, dropped,
                   controlVars, safe_points, shellVars, exitVars, taken>>

\* Slip: the queue may hold one event more.
QueueWithOneMore(event) ==
    Append(IF Len(SIGNAL_QUEUE) > MaxSignalQueueSize
           THEN Tail(SIGNAL_QUEUE) ELSE SIGNAL_QUEUE, event)

\* Slip: a full queue does not take the new event.
QueueWithNewestDropped(event) ==
    IF Len(SIGNAL_QUEUE) >= MaxSignalQueueSize
    THEN SIGNAL_QUEUE ELSE Append(SIGNAL_QUEUE, event)

\* The queue when one more event comes, and what falls off it.
QueueWith(event) ==
    Append(IF Len(SIGNAL_QUEUE) >= MaxSignalQueueSize
           THEN Tail(SIGNAL_QUEUE) ELSE SIGNAL_QUEUE, event)

Overflow ==
    IF Len(SIGNAL_QUEUE) >= MaxSignalQueueSize
    THEN {Head(SIGNAL_QUEUE).number} ELSE {}

enqueue_signal(signal) ==
    /\ received' = received + 1
    /\ SIGNAL_QUEUE' = QueueWith([signal |-> signal, number |-> received'])
    /\ dropped' = dropped \cup Overflow

\* INT and CHLD are queued at once, TERM after SHUTDOWN was set.
SignalThread ==
    /\ phase # "ended"
    /\ \/ /\ thread = "TERM"
          /\ enqueue_signal("TERM")
          /\ thread' = "idle"
          /\ UNCHANGED <<pending, SHUTDOWN>>
       \/ /\ thread = "idle"
          /\ \E signal \in pending :
               /\ pending' = pending \ {signal}
               /\ IF signal = "TERM"
                  THEN /\ SHUTDOWN' = TRUE
                       /\ thread' = "TERM"
                       /\ UNCHANGED <<SIGNAL_QUEUE, received, dropped>>
                  ELSE /\ enqueue_signal(signal)
                       /\ UNCHANGED <<thread, SHUTDOWN>>
    /\ UNCHANGED <<controlVars, safe_points, shellVars, exitVars, taken>>

-----------------------------------------------------------------------------
(* Safe points: process_pending_signals and execute_trap_handler *)

Innermost == Last(safe_points)

\* No handler is running.
NotHandling == safe_points = <<>>

Numbers(batch) == {batch[i].number : i \in DOMAIN batch}

\* Slip: what is taken stays on the queue.
SafePointWithoutDrain(outer) ==
    /\ safe_points' = Append(outer, [batch    |-> SIGNAL_QUEUE,
                                     handling |-> FALSE,
                                     commands |-> 0,
                                     status   |-> last_exit_code,
                                     before   |-> last_exit_code])
    /\ taken' = taken \cup Numbers(SIGNAL_QUEUE)
    /\ UNCHANGED <<SIGNAL_QUEUE, pending, thread, SHUTDOWN, received, dropped>>

\* A safe point, within the outer ones, takes all that is queued.
SafePointWithin(outer) ==
    /\ safe_points' = Append(outer, [batch    |-> SIGNAL_QUEUE,
                                     handling |-> FALSE,
                                     commands |-> 0,
                                     status   |-> last_exit_code,
                                     before   |-> last_exit_code])
    /\ SIGNAL_QUEUE' = <<>>
    /\ taken' = taken \cup Numbers(SIGNAL_QUEUE)
    /\ UNCHANGED <<pending, thread, SHUTDOWN, received, dropped>>

SafePoint == SafePointWithin(safe_points)

\* The next event of the batch: a handler is started if its signal is trapped.
TakeEvent ==
    /\ ~ NotHandling /\ ~ Innermost.handling /\ Innermost.batch # <<>>
    /\ LET trap == traps[Head(Innermost.batch).signal]
           rest == [Innermost EXCEPT !.batch = Tail(@), !.status = last_exit_code]
       IN  \/ /\ trap = Handler
              /\ safe_points' = [safe_points EXCEPT ![Len(safe_points)] =
                                   [rest EXCEPT !.handling = TRUE, !.commands = MaxCommands]]
           \/ /\ trap # Handler
              /\ safe_points' = [safe_points EXCEPT ![Len(safe_points)] = rest]
    /\ UNCHANGED <<signalVars, controlVars, shellVars, exitVars, taken>>

\* Slip: $? is that of the handler's last command.
EndHandlerKeepsStatus ==
    /\ ~ NotHandling /\ Innermost.handling
    /\ safe_points' = [safe_points EXCEPT ![Len(safe_points)] =
                         [@ EXCEPT !.handling = FALSE, !.commands = 0]]
    /\ UNCHANGED <<last_exit_code, signalVars, controlVars, exit_requested, traps,
                   exitVars, taken>>

EndHandler ==
    /\ ~ NotHandling /\ Innermost.handling
    /\ last_exit_code' = Innermost.status
    /\ safe_points' = [safe_points EXCEPT ![Len(safe_points)] =
                         [@ EXCEPT !.handling = FALSE, !.commands = 0]]
    /\ UNCHANGED <<signalVars, controlVars, exit_requested, traps, exitVars, taken>>

EndSafePoint ==
    /\ ~ NotHandling /\ ~ Innermost.handling /\ Innermost.batch = <<>>
    /\ safe_points' = Front(safe_points)
    /\ UNCHANGED <<signalVars, controlVars, shellVars, exitVars, taken>>

-----------------------------------------------------------------------------
(* The trap builtin *)

\* SIGNAL_MAP
SignalNumber ==
    LET first == <<"HUP", "INT", "QUIT", "ILL", "TRAP", "ABRT", "BUS", "FPE", "KILL",
                   "USR1", "SEGV", "USR2", "PIPE", "ALRM", "TERM">>
        later == <<"CHLD", "CONT", "STOP", "TSTP", "TTIN", "TTOU", "URG", "XCPU",
                   "XFSZ", "VTALRM", "PROF", "WINCH", "IO", "PWR", "SYS">>
    IN  [name \in ToSet(first) \cup ToSet(later) \cup {"EXIT"} |->
            IF name = "EXIT" THEN 0
            ELSE IF name \in ToSet(first)
            THEN CHOOSE n \in DOMAIN first : first[n] = name
            ELSE 16 + CHOOSE n \in DOMAIN later : later[n] = name]

\* A word that denotes a signal has a number or a name (whose case and SIG
\* do not matter).  The names it denotes: one, or none.
SignalNames(word) ==
    {name \in DOMAIN SignalNumber :
        IF "number" \in DOMAIN word THEN SignalNumber[name] = word.number
                                    ELSE name = word.name}

Trappable == DOMAIN SignalNumber \ {"KILL", "STOP"}

\* The signals of a call, those it may change, and whether a word was wrong.
Denoted(call) == UNION {SignalNames(call.signals[i]) : i \in DOMAIN call.signals}

Wrong(word, form) ==
    \/ SignalNames(word) = {}
    \/ form = "set" /\ ~ SignalNames(word) \subseteq Trappable

\* Setting and resetting fail if a word is wrong, -p if the last one is.
TrapStatus(call) ==
    CASE call.form \in {"set", "reset"} ->
            IF \E i \in DOMAIN call.signals : Wrong(call.signals[i], call.form)
            THEN 1 ELSE 0
      [] call.form = "-p" /\ call.signals # <<>> ->
            IF Wrong(Last(call.signals), "-p") THEN 1 ELSE 0
      [] call.form = "usage" -> 1
      [] OTHER -> 0

TrapsAfter(call) ==
    [name \in DOMAIN traps |->
        IF name \notin Denoted(call) THEN traps[name]
        ELSE CASE call.form = "set" /\ name \in Trappable -> call.action
               [] call.form = "reset" -> NoTrap
               [] OTHER -> traps[name]]

-----------------------------------------------------------------------------
(* Commands, of the line or of the innermost handler *)

\* How many commands the line or the handler may still run.
CommandsLeft == IF NotHandling THEN commands ELSE Innermost.commands

\* A command is run if exit was not requested, or if it is the first one:
\* execute looks at exit_requested after a command, not before.
MayRun ==
    /\ IF NotHandling THEN phase = "line" ELSE Innermost.handling
    /\ CommandsLeft > 0
    /\ ~ exit_requested \/ CommandsLeft = MaxCommands

UseCommand ==
    IF NotHandling
    THEN commands' = commands - 1 /\ UNCHANGED safe_points
    ELSE /\ safe_points' = [safe_points EXCEPT ![Len(safe_points)].commands = @ - 1]
         /\ UNCHANGED commands

otherControlVars == <<mode, phase, more_lines, entered, collecting_heredoc>>

RunCommand ==
    /\ MayRun
    /\ UseCommand
    /\ last_exit_code' \in Code
    /\ UNCHANGED <<signalVars, otherControlVars, exit_requested, traps, exitVars, taken>>

Trap ==
    /\ MayRun
    /\ UseCommand
    /\ \E call \in TrapCall :
         /\ traps' = TrapsAfter(call)
         /\ last_exit_code' = TrapStatus(call)
    /\ UNCHANGED <<signalVars, otherControlVars, exit_requested, exitVars, taken>>

Exit ==
    /\ MayRun
    /\ UseCommand
    /\ exit_requested' = TRUE
    /\ UNCHANGED <<signalVars, otherControlVars, last_exit_code, traps, exitVars, taken>>

\* A turn of a for loop begins with a safe point.
ForTurn ==
    /\ MayRun /\ CommandsLeft > 1
    /\ Len(safe_points) <= MaxNesting
    /\ IF NotHandling
       THEN /\ commands' = commands - 1
            /\ SafePoint
       ELSE /\ SafePointWithin([safe_points EXCEPT ![Len(safe_points)].commands = @ - 1])
            /\ UNCHANGED commands
    /\ UNCHANGED <<otherControlVars, shellVars, exitVars>>

EndLine ==
    /\ phase = "line" /\ NotHandling
    /\ phase' = IF mode = "script" \/ mode = "command" THEN "next line" ELSE "after line"
    /\ UNCHANGED <<signalVars, mode, more_lines, entered, collecting_heredoc, commands,
                   safe_points, shellVars, exitVars, taken>>

-----------------------------------------------------------------------------
(* main, execute_script and the interactive loop *)

\* A step of the main thread between lines, from one phase to another.
Step(from, to) ==
    /\ phase = from /\ NotHandling
    /\ phase' = to
    /\ UNCHANGED mode

ExecuteLine(from) == Step(from, "line") /\ commands' = MaxCommands

unchangedShell == <<signalVars, safe_points, shellVars, exitVars, taken>>

\* The shell looks at SHUTDOWN, then a script that cannot be read ends it.
Start ==
    /\ \E to \in {"next line", "prompt", "exiting", "ended"} :
         /\ Step("start", to)
         /\ to = CASE mode = "interactive" -> "prompt"
                   [] mode = "unreadable" -> "ended"
                   [] OTHER -> IF SHUTDOWN THEN "exiting" ELSE "next line"
    /\ UNCHANGED <<more_lines, entered, collecting_heredoc, commands, unchangedShell>>

\* The safe point before a line of a script; -c has none.
NextLine ==
    /\ mode # "command"
    /\ Step("next line", "checks") /\ more_lines
    /\ SafePoint
    /\ UNCHANGED <<more_lines, entered, collecting_heredoc, commands, shellVars, exitVars>>

\* -c runs its line.
StartCommand ==
    /\ mode = "command" /\ more_lines
    /\ ExecuteLine("next line")
    /\ more_lines' = FALSE
    /\ UNCHANGED <<entered, collecting_heredoc, unchangedShell>>

\* Slip: SIGTERM is not looked at.
StartLineAfterTerm ==
    /\ ~ exit_requested
    /\ ExecuteLine("checks")
    /\ more_lines' \in BOOLEAN
    /\ UNCHANGED <<entered, collecting_heredoc, unchangedShell>>

\* A script looks at SHUTDOWN and exit_requested before a line.
StartLine ==
    /\ ~ (SHUTDOWN \/ exit_requested)
    /\ ExecuteLine("checks")
    /\ more_lines' \in BOOLEAN
    /\ UNCHANGED <<entered, collecting_heredoc, unchangedShell>>

EndScript ==
    /\ \/ Step("next line", "exiting") /\ (~ more_lines \/ exit_requested)
       \/ Step("checks", "exiting") /\ (SHUTDOWN \/ exit_requested)
    /\ UNCHANGED <<more_lines, entered, collecting_heredoc, commands, unchangedShell>>

\* Before the prompt: a safe point, the jobs that ended, SHUTDOWN.
Prompt ==
    /\ Step("prompt", "prompt checks")
    /\ SafePoint
    /\ UNCHANGED <<more_lines, entered, collecting_heredoc, commands, shellVars, exitVars>>

ReadLine ==
    /\ \E to \in {"exiting", "reading"} :
         Step("prompt checks", to) /\ to = (IF SHUTDOWN THEN "exiting" ELSE "reading")
    /\ UNCHANGED <<more_lines, entered, collecting_heredoc, commands, unchangedShell>>

\* A line or a paste was entered: each of its lines is dealt with in turn if
\* a here-document is being collected or begins in it, otherwise it is one.
EnterLines ==
    /\ \E input \in Input :
         /\ input[1] \notin {"EOF", "Interrupted", "failure"}
         /\ entered' = IF collecting_heredoc \/ Len(input) = 1 \/ Contains(input, "heredoc")
                       THEN input ELSE <<"command">>
         /\ Step("reading", CASE collecting_heredoc -> "collect"
                              [] ~ collecting_heredoc /\ Len(input) = 1 -> "typed"
                              [] OTHER -> "pasted")
    /\ UNCHANGED <<more_lines, collecting_heredoc, commands, unchangedShell>>

\* A typed line: exit leaves the loop, a here-document is collected before
\* its command is executed, without the safe point after the line.
Typed ==
    /\ phase = "typed"
    /\ \/ /\ entered = <<"exit">>
          /\ Step("typed", "exiting")
          /\ UNCHANGED <<collecting_heredoc, commands>>
       \/ /\ entered = <<"heredoc">>
          /\ Step("typed", "prompt")
          /\ collecting_heredoc' = TRUE
          /\ UNCHANGED commands
       \/ /\ entered \notin {<<"exit">>, <<"heredoc">>}
          /\ ExecuteLine("typed")
          /\ UNCHANGED collecting_heredoc
    /\ entered' = <<>>
    /\ UNCHANGED <<more_lines, unchangedShell>>

\* What follows the line that ends a here-document, or nothing.
Delimited(input) == SelectInSeq(input, LAMBDA line : line = "delimiter")
After(input, i) == SubSeq(input, i + 1, Len(input))

\* A pasted line: exit runs the EXIT trap and leaves the paste only.
Pasted ==
    /\ phase = "pasted" /\ NotHandling
    /\ IF entered[1] = "heredoc"
       THEN LET end == Delimited(entered)
            IN  IF end > 0
                THEN /\ ExecuteLine("pasted")
                     /\ entered' = After(entered, end)
                     /\ UNCHANGED collecting_heredoc
                ELSE /\ Step("pasted", "after input")
                     /\ entered' = <<>>
                     /\ collecting_heredoc' = TRUE
                     /\ UNCHANGED commands
       ELSE IF entered[1] = "exit"
       THEN Step("pasted", "paste exits") /\ entered' = <<>>
            /\ UNCHANGED <<collecting_heredoc, commands>>
       ELSE ExecuteLine("pasted") /\ entered' = Tail(entered)
            /\ UNCHANGED collecting_heredoc
    /\ UNCHANGED <<more_lines, unchangedShell>>

\* Lines of a here-document, up to its delimiter; then its command is
\* executed, and the lines that were pasted after it.
Collect ==
    /\ phase = "collect" /\ NotHandling
    /\ LET end == Delimited(entered)
       IN  IF end > 0
           THEN /\ ExecuteLine("collect")
                /\ entered' = [i \in DOMAIN After(entered, end) |-> "command"]
                /\ collecting_heredoc' = FALSE
           ELSE /\ Step("collect", "after input")
                /\ entered' = <<>>
                /\ UNCHANGED <<collecting_heredoc, commands>>
    /\ UNCHANGED <<more_lines, unchangedShell>>

\* What was entered goes on after one of its lines.
AfterLine ==
    /\ \/ entered = <<"EOF">> /\ Step("after line", "prompt")
       \/ entered \notin {<<>>, <<"EOF">>} /\ Step("after line", "pasted")
       \/ entered = <<>> /\ Step("after line", "after input")
    /\ UNCHANGED <<more_lines, entered, collecting_heredoc, commands, unchangedShell>>

\* The safe point after what was entered.
AfterInput ==
    /\ Step("after input", "prompt")
    /\ SafePoint
    /\ UNCHANGED <<more_lines, entered, collecting_heredoc, commands, shellVars, exitVars>>

\* The end of the input, Ctrl-C or an error: a safe point first.
EnterNothing ==
    /\ Step("reading", "no line")
    /\ entered' \in {input \in Input : input[1] \in {"EOF", "Interrupted", "failure"}}
    /\ SafePoint
    /\ UNCHANGED <<more_lines, collecting_heredoc, commands, shellVars, exitVars>>

NoLine ==
    /\ phase = "no line" /\ NotHandling
    /\ UNCHANGED entered
    /\ IF SHUTDOWN THEN Step("no line", "exiting") /\ UNCHANGED <<collecting_heredoc, commands>>
       ELSE CASE entered[1] = "EOF" /\ collecting_heredoc ->
                   ExecuteLine("no line") /\ collecting_heredoc' = FALSE
              [] entered[1] = "EOF" /\ ~ collecting_heredoc ->
                   Step("no line", "exiting") /\ UNCHANGED <<collecting_heredoc, commands>>
              [] entered[1] = "Interrupted" ->
                   /\ Step("no line", "prompt")
                   /\ collecting_heredoc' = FALSE
                   /\ UNCHANGED commands
              [] OTHER -> Step("no line", "prompt")
                          /\ UNCHANGED <<collecting_heredoc, commands>>
    /\ UNCHANGED <<more_lines, unchangedShell>>

\* Slip: the second call runs the trap again.
ExitTrapDueAgain == traps["EXIT"] = Handler

ExitTrapDue == ~ exit_trap_executed /\ traps["EXIT"] = Handler

\* execute_exit_trap, called where the shell leaves and again by main.
execute_exit_trap(from, to) ==
    /\ Step(from, to)
    /\ IF ExitTrapDue
       THEN /\ exit_trap_executed' = TRUE
            /\ exit_traps' = exit_traps + 1
            /\ safe_points' = <<[batch |-> <<>>, handling |-> TRUE,
                                 commands |-> MaxCommands, status |-> last_exit_code,
                                 before |-> last_exit_code]>>
       ELSE UNCHANGED <<exitVars, safe_points>>
    /\ UNCHANGED <<signalVars, more_lines, entered, collecting_heredoc, commands,
                   shellVars, taken>>

ExitTrap == \/ execute_exit_trap("exiting", "leaving")
            \/ execute_exit_trap("leaving", "left")
            \/ execute_exit_trap("paste exits", "after input")

End ==
    /\ Step("left", "ended")
    /\ UNCHANGED <<more_lines, entered, collecting_heredoc, commands, unchangedShell>>

-----------------------------------------------------------------------------
Init ==
    /\ pending = {}
    /\ thread = "idle"
    /\ SHUTDOWN = FALSE
    /\ SIGNAL_QUEUE = <<>>
    /\ mode \in Mode
    /\ phase = "start"
    /\ more_lines = TRUE
    /\ entered = <<>>
    /\ collecting_heredoc = FALSE
    /\ commands = 0
    /\ safe_points = <<>>
    /\ last_exit_code = 0
    /\ exit_requested = FALSE
    /\ traps = [name \in Signal \cup {"EXIT"} |-> NoTrap]
    /\ exit_trap_executed = FALSE
    /\ received = 0 /\ taken = {} /\ dropped = {}
    /\ exit_traps = 0

Handlers == TakeEvent \/ EndHandler \/ EndSafePoint
Commands == RunCommand \/ Trap \/ Exit \/ ForTurn \/ EndLine
ScriptLoop == Start \/ StartCommand \/ NextLine \/ StartLine \/ EndScript
Terminal == EnterLines \/ EnterNothing
InteractiveLoop == \/ Prompt \/ ReadLine \/ Typed \/ Pasted \/ Collect
                   \/ AfterLine \/ AfterInput \/ NoLine

MainThread == Handlers \/ Commands \/ ScriptLoop \/ InteractiveLoop \/ ExitTrap \/ End

Next == Deliver \/ SignalThread \/ MainThread \/ Terminal

\* The two threads run; the user need not type, nor the kernel signal.
Spec == Init /\ [][Next]_vars /\ WF_vars(SignalThread) /\ WF_vars(MainThread)

-----------------------------------------------------------------------------
(* Properties *)

Event == [signal : Signal, number : Nat]

Phases == {"start", "next line", "checks", "line", "prompt", "prompt checks", "reading",
           "typed", "pasted", "collect", "after line", "after input", "no line",
           "paste exits", "exiting", "leaving", "left", "ended"}

Statuses == Code \cup {0, 1}

Frame == [batch : Seq(Event), handling : BOOLEAN, commands : Nat,
          status : Statuses, before : Statuses]

\* The fields have their types, and the queue keeps within its size.
TypeOK ==
    /\ pending \subseteq Signal
    /\ thread \in {"idle"} \cup (Signal \cap {"TERM"})
    /\ SHUTDOWN \in BOOLEAN
    /\ SIGNAL_QUEUE \in Seq(Event) /\ Len(SIGNAL_QUEUE) <= MaxSignalQueueSize
    /\ mode \in Mode /\ phase \in Phases
    /\ more_lines \in BOOLEAN /\ commands \in Nat
    /\ safe_points \in Seq(Frame)
    /\ traps \in [Signal \cup {"EXIT"} -> {NoTrap, Ignored, Handler}]
    /\ last_exit_code \in Statuses
    /\ collecting_heredoc \in BOOLEAN
    /\ exit_requested \in BOOLEAN
    /\ exit_trap_executed \in BOOLEAN
    /\ received \in Nat

Increasing(batch) == \A i, j \in DOMAIN batch : i < j => batch[i].number < batch[j].number

Older(batch, later) == \A n \in Numbers(batch), m \in Numbers(later) : n < m

\* What a safe point has still to handle.
Left(i) == safe_points[i].batch

OneFate ==
    /\ taken \cup dropped \cup Numbers(SIGNAL_QUEUE) = 1..received
    /\ taken \cap dropped = {}
    /\ (taken \cup dropped) \cap Numbers(SIGNAL_QUEUE) = {}

InOrder ==
    /\ Increasing(SIGNAL_QUEUE)
    /\ \A i \in DOMAIN safe_points :
          /\ Increasing(Left(i))
          /\ Numbers(Left(i)) \subseteq taken
          /\ Older(Left(i), SIGNAL_QUEUE)
          /\ \A j \in DOMAIN safe_points : i < j => Older(Left(i), Left(j))

\* Every signal that was received is on the queue, was taken by one safe
\* point or was dropped, and only one of these; what a safe point has still
\* to handle is in the order of arrival, and older than what the safe points
\* of its handlers have taken and than the queue.
EventsAccounted == OneFate /\ InOrder

\* The queue is what SignalDelivery promises: nothing is dropped unless it is
\* full, then the oldest event is, and a safe point takes all there is.
Delivery == INSTANCE SignalDelivery WITH waiting <- Numbers(SIGNAL_QUEUE)
Delivers == Delivery!Spec

\* $? does not change at a safe point, whichever handlers it runs and
\* whatever these run, fail at or nest.
HandlersKeepStatus ==
    ~ NotHandling /\ ~ Innermost.handling => last_exit_code = Innermost.before

\* The EXIT trap is run once at the most, though the places where the shell
\* leaves and main each call it, and it was run when the shell has ended
\* with one set.
ExitTrapOnce ==
    /\ exit_traps = (IF exit_trap_executed THEN 1 ELSE 0)
    /\ phase = "ended" /\ mode # "unreadable" /\ traps["EXIT"] = Handler => exit_traps = 1

\* After SIGTERM the shell ends, or asks the user for a line.
TermEnds == SHUTDOWN ~> phase \in {"ended", "reading"}

\* Every signal the shell was sent is taken or dropped in the end, unless the
\* shell ends or waits for the user first.
SignalsAreTaken ==
    pending # {} ~> \/ pending = {} /\ thread = "idle" /\ SIGNAL_QUEUE = <<>>
                    \/ phase \in {"ended", "reading"}

=============================================================================
