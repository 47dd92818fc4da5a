------------------------------ MODULE Executor ------------------------------
(***************************************************************************)
(* The executor (src/src/executor/mod.rs) and its callers: a script is     *)
(* executed line by line, a line is a syntax tree, and a tree is executed  *)
(* by a recursive function.  break, continue, return, exit and errexit do  *)
(* not unwind that recursion: they set fields of ShellState, and every     *)
(* construct has to look at the right fields after each of its parts.      *)
(*                                                                         *)
(* The recursion is a stack of frames, one for each construct whose part   *)
(* is being executed, and a focus: a tree to execute, a result to hand to  *)
(* the frame on top, or a loop's next turn.  A command is only a name; its *)
(* exit status is arbitrary.  breaking, continuing and returning are       *)
(* represented by a level or a value that is not the neutral one.          *)
(***************************************************************************)
EXTENDS Naturals, Sequences, FiniteSets

CONSTANTS
    Code,                \* exit statuses of commands
    NoCode,              \* None
    Name,                \* names of commands and functions
    Tree,                \* syntax trees (Ast)
    Script,              \* the scripts: a syntax tree per line, or NoTree
    ExitTrap,            \* what "trap ... EXIT" may have been given: trees, NoTree
    Errexit,             \* set -e: the settings to consider
    HandlerExit,         \* what the handler of a pending signal may exit with
    MayFailToStart,      \* whether commands may fail before they run
    Shutdown,            \* whether SIGTERM has come: the cases to consider
    MaxRecursionDepth,
    MaxSubshellDepth,
    MaxCommands          \* bound: commands that one script runs

NoTree == [op |-> "none"]

\* Trees of these kinds.
TreesOf(ops) == {t \in Tree : t.op \in ops}

ASSUME ExecutorAssumption == /\ Code \subseteq Nat
                             /\ NoCode \notin Nat
                             /\ HandlerExit \subseteq Nat
                             /\ Errexit \subseteq BOOLEAN
                             /\ MayFailToStart \in BOOLEAN
                             /\ Shutdown \subseteq BOOLEAN
                             /\ MaxRecursionDepth \in Nat
                             /\ MaxSubshellDepth \in Nat
                             /\ MaxCommands \in Nat
                             /\ Script \subseteq Seq(Tree \cup {NoTree}) \ {<<>>}
                             /\ ExitTrap \subseteq Tree \cup {NoTree}

\* What each kind of tree consists of.
ASSUME TreeAssumption ==
    /\ \A t \in TreesOf({"command"}) : t.name \in Name
    /\ \A t \in TreesOf({"define"}) : t.name \in Name /\ t.body \in Tree
    /\ \A t \in TreesOf({"break", "continue"}) : t.level \in Nat \ {0}
    /\ \A t \in TreesOf({"exit", "return"}) : t.code \in Nat \cup {NoCode}
    /\ \A t \in TreesOf({"sequence"}) : t.parts \in Seq(Tree) \ {<<>>}
    /\ \A t \in TreesOf({"if"}) : /\ t.condition \in Tree
                                 /\ t.then \in Tree
                                 /\ t.else \in Tree \cup {NoTree}
    /\ \A t \in TreesOf({"and", "or"}) : t.left \in Tree /\ t.right \in Tree
    /\ \A t \in TreesOf({"negation"}) : t.command \in Tree
    /\ \A t \in TreesOf({"for"}) : t.items \in Nat /\ t.body \in Tree
    /\ \A t \in TreesOf({"while", "until"}) : t.condition \in Tree /\ t.body \in Tree
    /\ \A t \in TreesOf({"subshell"}) : t.body \in Tree

VARIABLES
    script,         \* the lines
    line,           \* the next line
    phase,          \* "lines", then "exiting", "trap", "ended"
    focus,
    stack,
    shell,          \* ShellState
    log,            \* auxiliary: the commands that were run and their status,
                    \* handlers that exited, the line that SIGTERM prevented
    status          \* exit status of the shell process

vars == <<script, line, phase, focus, stack, shell, log, status>>

-----------------------------------------------------------------------------
(* ShellState, and its fields that steer the executor *)

InitialShell(errexit) ==
    [errexit           |-> errexit,
     exit_requested    |-> FALSE,
     exit_code         |-> 0,
     last_exit_code    |-> 0,
     loop_depth        |-> 0,
     break_level       |-> 0,
     continue_level    |-> 0,
     function_depth    |-> 0,
     return_value      |-> NoCode,
     subshell_depth    |-> 0,
     in_condition      |-> FALSE,
     in_logical_chain  |-> FALSE,
     in_negation       |-> FALSE,
     last_was_negation |-> FALSE,
     functions         |-> [name \in Name |-> NoTree]]

IsBreaking(sh) == sh.break_level # 0
IsContinuing(sh) == sh.continue_level # 0
IsReturning(sh) == sh.return_value # NoCode

RequestExit(sh, code) == [sh EXCEPT !.exit_requested = TRUE, !.exit_code = code]

\* The context in which a failure does not end the shell.
Exempt(sh) == sh.in_condition \/ sh.in_logical_chain \/ sh.in_negation

\* Slip: conditions are not exempt.
CheckErrexitInConditions(sh, code) ==
    IF sh.errexit /\ code # 0 /\ ~ (sh.in_logical_chain \/ sh.in_negation)
    THEN RequestExit(sh, code)
    ELSE sh

\* The errexit check after a command and after a subshell.
CheckErrexit(sh, code) ==
    IF sh.errexit /\ code # 0 /\ ~ Exempt(sh) THEN RequestExit(sh, code) ELSE sh

\* process_pending_signals: no signal with a handler that exits, or one.
AfterSignals(sh) == {sh} \cup {RequestExit(sh, code) : code \in HandlerExit}

\* The log after pending signals have left the shell in sh.
LogWithSignal(sh) ==
    IF sh = shell THEN log ELSE Append(log, [name |-> "signal", code |-> sh.exit_code])

-----------------------------------------------------------------------------
(* Frames and focus *)

Idle == [do |-> "idle"]
Execute(tree) == [do |-> "execute", tree |-> tree]
Result(code) == [do |-> "result", code |-> code]
NextTurn == [do |-> "turn"]

Executing(op) == focus.do = "execute" /\ focus.tree.op = op

Top == stack[Len(stack)]
Below == SubSeq(stack, 1, Len(stack) - 1)
Enter(frame) == stack' = Append(stack, frame)
Leave == stack' = Below

\* A part of the construct on top has a result.
Resuming(kinds) == focus.do = "result" /\ Len(stack) > 0 /\ Top.in \in kinds

scriptVars == <<script, line, phase, status>>

-----------------------------------------------------------------------------
(* Simple commands: execute_single_command *)

\* The function that a command is the name of, or NoTree.
FunctionOf(tree) == shell.functions[tree.name]

Executed(code) ==
    /\ log' = Append(log, [name |-> focus.tree.name, code |-> code])
    /\ focus' = Result(code)

\* A command that cannot be started, or has a bad redirection or pattern,
\* has status 1 without the errexit check.
RunCommand ==
    /\ Executing("command")
    /\ FunctionOf(focus.tree) = NoTree
    /\ Len(log) < MaxCommands
    /\ \/ \E code \in Code :
            /\ Executed(code)
            /\ shell' = CheckErrexit(shell, code)
       \/ /\ MayFailToStart
          /\ Executed(1)
          /\ UNCHANGED shell
    /\ UNCHANGED <<stack, scriptVars>>

\* Slip: the level is not compared with the depth of the loops.
BreakAny ==
    /\ Executing("break")
    /\ shell' = [shell EXCEPT !.break_level = focus.tree.level]
    /\ focus' = Result(0)
    /\ UNCHANGED <<stack, log, scriptVars>>

Break ==
    /\ Executing("break")
    /\ IF focus.tree.level <= shell.loop_depth
       THEN /\ shell' = [shell EXCEPT !.break_level = focus.tree.level]
            /\ focus' = Result(0)
       ELSE /\ shell' = CheckErrexit(shell, 1)
            /\ focus' = Result(1)
    /\ UNCHANGED <<stack, log, scriptVars>>

Continue ==
    /\ Executing("continue")
    /\ IF focus.tree.level <= shell.loop_depth
       THEN /\ shell' = [shell EXCEPT !.continue_level = focus.tree.level]
            /\ focus' = Result(0)
       ELSE /\ shell' = CheckErrexit(shell, 1)
            /\ focus' = Result(1)
    /\ UNCHANGED <<stack, log, scriptVars>>

\* exit without an operand takes $?.
Exit ==
    /\ Executing("exit")
    /\ LET code == IF focus.tree.code = NoCode
                   THEN shell.last_exit_code ELSE focus.tree.code
       IN  /\ shell' = RequestExit(shell, code)
           /\ focus' = Result(code)
    /\ UNCHANGED <<stack, log, scriptVars>>

Return ==
    /\ Executing("return")
    /\ IF shell.function_depth = 0
       THEN focus' = Result(1) /\ UNCHANGED shell
       ELSE LET code == IF focus.tree.code = NoCode THEN 0 ELSE focus.tree.code
            IN  /\ shell' = [shell EXCEPT !.return_value = code]
                /\ focus' = Result(code)
    /\ UNCHANGED <<stack, log, scriptVars>>

-----------------------------------------------------------------------------
(* Sequences *)

EnterSequence ==
    /\ Executing("sequence")
    /\ Enter([in |-> "sequence", rest |-> Tail(focus.tree.parts)])
    /\ shell' = [shell EXCEPT !.last_was_negation = FALSE]
    /\ focus' = Execute(Head(focus.tree.parts))
    /\ UNCHANGED <<log, scriptVars>>

\* Slip: exit does not end the sequence.
UnwindingNotExit(sh) == IsReturning(sh) \/ IsBreaking(sh) \/ IsContinuing(sh)

\* What ends a sequence before its last command.
Unwinding(sh) ==
    IsReturning(sh) \/ sh.exit_requested \/ IsBreaking(sh) \/ IsContinuing(sh)

Unwound(sh, code) ==
    IF ~ IsReturning(sh) /\ sh.exit_requested THEN sh.exit_code ELSE code

Fails(sh, code) ==
    sh.errexit /\ code # 0 /\ ~ Exempt(sh) /\ ~ sh.last_was_negation

AfterPart ==
    /\ Resuming({"sequence"})
    /\ \/ /\ Unwinding(shell)
          /\ focus' = Result(Unwound(shell, focus.code))
          /\ Leave
          /\ UNCHANGED shell
       \/ /\ ~ Unwinding(shell)
          /\ Fails(shell, focus.code)
          /\ shell' = RequestExit(shell, focus.code)
          /\ Leave
          /\ UNCHANGED focus
       \/ /\ ~ Unwinding(shell)
          /\ ~ Fails(shell, focus.code)
          /\ Top.rest = <<>>
          /\ Leave
          /\ UNCHANGED <<focus, shell>>
       \/ /\ ~ Unwinding(shell)
          /\ ~ Fails(shell, focus.code)
          /\ Top.rest # <<>>
          /\ stack' = [stack EXCEPT ![Len(stack)].rest = Tail(@)]
          /\ shell' = [shell EXCEPT !.last_was_negation = FALSE]
          /\ focus' = Execute(Head(Top.rest))
    /\ UNCHANGED <<log, scriptVars>>

-----------------------------------------------------------------------------
(* if, &&, ||, ! *)

EnterIf ==
    /\ Executing("if")
    /\ Enter([in |-> "if", tree |-> focus.tree])
    /\ shell' = [shell EXCEPT !.in_condition = TRUE]
    /\ focus' = Execute(focus.tree.condition)
    /\ UNCHANGED <<log, scriptVars>>

\* Only the status of the condition counts here, not how it ended.
AfterCondition ==
    /\ Resuming({"if"})
    /\ shell' = [shell EXCEPT !.in_condition = FALSE]
    /\ focus' = IF focus.code = 0 THEN Execute(Top.tree.then)
                ELSE IF Top.tree.else = NoTree THEN Result(0)
                ELSE Execute(Top.tree.else)
    /\ Leave
    /\ UNCHANGED <<log, scriptVars>>

EnterChain ==
    /\ Executing("and") \/ Executing("or")
    /\ Enter([in |-> focus.tree.op, right |-> focus.tree.right])
    /\ shell' = [shell EXCEPT !.in_logical_chain = TRUE]
    /\ focus' = Execute(focus.tree.left)
    /\ UNCHANGED <<log, scriptVars>>

\* Slip: only exit ends the list, not break, continue or return.
AfterLeftNoJump ==
    /\ Resuming({"and", "or"})
    /\ IF ~ shell.exit_requested /\ (Top.in = "and") = (focus.code = 0)
       THEN /\ stack' = Append(Below, [in |-> "right"])
            /\ focus' = Execute(Top.right)
            /\ UNCHANGED shell
       ELSE /\ shell' = [shell EXCEPT !.in_logical_chain = FALSE]
            /\ Leave
            /\ UNCHANGED focus
    /\ UNCHANGED <<log, scriptVars>>

AfterLeft ==
    /\ Resuming({"and", "or"})
    /\ IF ~ Unwinding(shell) /\ (Top.in = "and") = (focus.code = 0)
       THEN /\ stack' = Append(Below, [in |-> "right"])
            /\ focus' = Execute(Top.right)
            /\ UNCHANGED shell
       ELSE /\ shell' = [shell EXCEPT !.in_logical_chain = FALSE]
            /\ Leave
            /\ UNCHANGED focus
    /\ UNCHANGED <<log, scriptVars>>

AfterRight ==
    /\ Resuming({"right"})
    /\ shell' = [shell EXCEPT !.in_logical_chain = FALSE]
    /\ Leave
    /\ UNCHANGED <<focus, log, scriptVars>>

EnterNegation ==
    /\ Executing("negation")
    /\ Enter([in |-> "negation"])
    /\ shell' = [shell EXCEPT !.in_negation = TRUE]
    /\ focus' = Execute(focus.tree.command)
    /\ UNCHANGED <<log, scriptVars>>

AfterNegated ==
    /\ Resuming({"negation"})
    /\ LET code == IF focus.code = 0 THEN 1 ELSE 0
       IN  /\ shell' = [shell EXCEPT !.in_negation = FALSE,
                                     !.last_was_negation = TRUE,
                                     !.last_exit_code = code]
           /\ focus' = Result(code)
    /\ Leave
    /\ UNCHANGED <<log, scriptVars>>

-----------------------------------------------------------------------------
(* Loops *)

EnterFor ==
    /\ Executing("for")
    /\ Enter([in |-> "for", tree |-> focus.tree, left |-> focus.tree.items, code |-> 0])
    /\ shell' = [shell EXCEPT !.loop_depth = @ + 1]
    /\ focus' = NextTurn
    /\ UNCHANGED <<log, scriptVars>>

EnterWhile ==
    /\ Executing("while") \/ Executing("until")
    /\ Enter([in |-> focus.tree.op, tree |-> focus.tree, code |-> 0])
    /\ shell' = [shell EXCEPT !.loop_depth = @ + 1]
    /\ focus' = NextTurn
    /\ UNCHANGED <<log, scriptVars>>

ExitLoop(sh) == [sh EXCEPT !.loop_depth = IF @ > 0 THEN @ - 1 ELSE @]

\* The next item of a for loop, with a safe point before its body.
ForTurn ==
    /\ focus.do = "turn" /\ Top.in = "for"
    /\ \/ /\ Top.left = 0
          /\ shell' = ExitLoop(shell)
          /\ focus' = Result(Top.code)
          /\ Leave
          /\ UNCHANGED log
       \/ /\ Top.left > 0
          /\ \E sh \in AfterSignals(shell) :
               /\ log' = LogWithSignal(sh)
               /\ IF sh.exit_requested
                  THEN /\ shell' = ExitLoop(sh)
                       /\ focus' = Result(sh.exit_code)
                       /\ Leave
                  ELSE /\ shell' = sh
                       /\ focus' = Execute(Top.tree.body)
                       /\ stack' = [stack EXCEPT ![Len(stack)].left = @ - 1]
    /\ UNCHANGED scriptVars

\* The condition of a while or until loop is a frame of its own.
WhileTurn ==
    /\ focus.do = "turn" /\ Top.in \in {"while", "until"}
    /\ Enter([in |-> "condition"])
    /\ shell' = [shell EXCEPT !.in_condition = TRUE]
    /\ focus' = Execute(Top.tree.condition)
    /\ UNCHANGED <<log, scriptVars>>

AfterLoopCondition ==
    /\ Resuming({"condition"})
    /\ LET sh   == [shell EXCEPT !.in_condition = FALSE]
           loop == stack[Len(stack) - 1]
           outer == SubSeq(stack, 1, Len(stack) - 2)
       IN  \/ /\ IsReturning(sh) \/ sh.exit_requested
              /\ shell' = ExitLoop(sh)
              /\ focus' = Result(Unwound(sh, focus.code))
              /\ stack' = outer
           \/ /\ ~ (IsReturning(sh) \/ sh.exit_requested)
              /\ (loop.in = "while") # (focus.code = 0)
              /\ shell' = ExitLoop(sh)
              /\ focus' = Result(loop.code)
              /\ stack' = outer
           \/ /\ ~ (IsReturning(sh) \/ sh.exit_requested)
              /\ (loop.in = "while") = (focus.code = 0)
              /\ shell' = sh
              /\ focus' = Execute(loop.tree.body)
              /\ stack' = Below
    /\ UNCHANGED <<log, scriptVars>>

\* Slip: break leaves the loop without leaving its depth.
AfterBodyKeepsDepth ==
    /\ Resuming({"for", "while", "until"})
    /\ \/ /\ IsReturning(shell) \/ shell.exit_requested
          /\ shell' = ExitLoop(shell)
          /\ focus' = Result(Unwound(shell, focus.code))
          /\ Leave
       \/ /\ ~ (IsReturning(shell) \/ shell.exit_requested)
          /\ IsBreaking(shell)
          /\ shell' = [shell EXCEPT !.break_level = @ - 1]
          /\ Leave
          /\ UNCHANGED focus
       \/ /\ ~ (IsReturning(shell) \/ shell.exit_requested \/ IsBreaking(shell))
          /\ shell' = [shell EXCEPT !.continue_level = 0]
          /\ stack' = [stack EXCEPT ![Len(stack)].code = focus.code]
          /\ focus' = NextTurn
    /\ UNCHANGED <<log, scriptVars>>

AfterBody ==
    /\ Resuming({"for", "while", "until"})
    /\ \/ /\ IsReturning(shell) \/ shell.exit_requested
          /\ shell' = ExitLoop(shell)
          /\ focus' = Result(Unwound(shell, focus.code))
          /\ Leave
       \/ /\ ~ (IsReturning(shell) \/ shell.exit_requested)
          /\ IsBreaking(shell)
          /\ shell' = ExitLoop([shell EXCEPT !.break_level = @ - 1])
          /\ Leave
          /\ UNCHANGED focus
       \/ /\ ~ (IsReturning(shell) \/ shell.exit_requested \/ IsBreaking(shell))
          /\ shell.continue_level > 1
          /\ shell' = ExitLoop([shell EXCEPT !.continue_level = @ - 1])
          /\ Leave
          /\ UNCHANGED focus
       \/ /\ ~ (IsReturning(shell) \/ shell.exit_requested \/ IsBreaking(shell))
          /\ shell.continue_level <= 1
          /\ shell' = [shell EXCEPT !.continue_level = 0]
          /\ stack' = [stack EXCEPT ![Len(stack)].code = focus.code]
          /\ focus' = NextTurn
    /\ UNCHANGED <<log, scriptVars>>

-----------------------------------------------------------------------------
(* Functions and subshells *)

Define ==
    /\ Executing("define")
    /\ shell' = [shell EXCEPT !.functions[focus.tree.name] = focus.tree.body]
    /\ focus' = Result(0)
    /\ UNCHANGED <<stack, log, scriptVars>>

\* Slip: no limit on the depth of calls.
CallUnlimited ==
    /\ Executing("command")
    /\ FunctionOf(focus.tree) # NoTree
    /\ Enter([in |-> "call"])
    /\ shell' = [shell EXCEPT !.function_depth = @ + 1]
    /\ focus' = Execute(FunctionOf(focus.tree))
    /\ UNCHANGED <<log, scriptVars>>

Call ==
    /\ Executing("command")
    /\ FunctionOf(focus.tree) # NoTree
    /\ IF shell.function_depth >= MaxRecursionDepth
       THEN focus' = Result(1) /\ UNCHANGED <<stack, shell>>
       ELSE /\ Enter([in |-> "call"])
            /\ shell' = [shell EXCEPT !.function_depth = @ + 1]
            /\ focus' = Execute(FunctionOf(focus.tree))
    /\ UNCHANGED <<log, scriptVars>>

\* Slip: the return stays pending in the caller.
AfterCallStillReturning ==
    /\ Resuming({"call"})
    /\ LET code == IF IsReturning(shell) THEN shell.return_value ELSE focus.code
       IN  /\ shell' = [shell EXCEPT !.function_depth = @ - 1,
                                     !.last_exit_code = code]
           /\ focus' = Result(code)
    /\ Leave
    /\ UNCHANGED <<log, scriptVars>>

AfterCall ==
    /\ Resuming({"call"})
    /\ LET code == IF IsReturning(shell) THEN shell.return_value ELSE focus.code
       IN  /\ shell' = [shell EXCEPT !.function_depth = @ - 1,
                                     !.return_value = NoCode,
                                     !.last_exit_code = code]
           /\ focus' = Result(code)
    /\ Leave
    /\ UNCHANGED <<log, scriptVars>>

EnterSubshell ==
    /\ Executing("subshell")
    /\ IF shell.subshell_depth >= MaxSubshellDepth
       THEN /\ shell' = CheckErrexit([shell EXCEPT !.last_exit_code = 1], 1)
            /\ focus' = Result(1)
            /\ UNCHANGED stack
       ELSE /\ Enter([in |-> "subshell", parent |-> shell])
            /\ shell' = [shell EXCEPT !.subshell_depth = @ + 1]
            /\ focus' = Execute(focus.tree.body)
    /\ UNCHANGED <<log, scriptVars>>

\* The subshell ran on a clone of ShellState: the parent gets its own back.
AfterSubshell ==
    /\ Resuming({"subshell"})
    /\ LET code == IF shell.exit_requested THEN shell.exit_code
                   ELSE IF IsReturning(shell) THEN shell.return_value
                   ELSE focus.code
       IN  /\ shell' = CheckErrexit([Top.parent EXCEPT !.last_exit_code = code], code)
           /\ focus' = Result(code)
    /\ Leave
    /\ UNCHANGED <<log, scriptVars>>

-----------------------------------------------------------------------------
(* The script: execute_script, execute_line, and main after it *)

\* A line starts with a safe point: signals, SIGTERM's flag, exit_requested.
\* A line without a tree does not parse.
StartLine ==
    /\ focus = Idle /\ phase = "lines"
    /\ line <= Len(script)
    /\ \E sh \in AfterSignals(shell), terminated \in Shutdown :
         /\ shell' = sh
         /\ IF terminated \/ sh.exit_requested
            THEN phase' = "exiting" /\ UNCHANGED <<focus, line>>
            ELSE /\ focus' = IF script[line] = NoTree THEN Result(1)
                             ELSE Execute(script[line])
                 /\ line' = line + 1
                 /\ UNCHANGED phase
         /\ log' = IF terminated /\ ~ sh.exit_requested
                   THEN Append(log, [name |-> "TERM", code |-> line])
                   ELSE LogWithSignal(sh)
    /\ UNCHANGED <<script, stack, status>>

\* exit_requested is looked at after some lines, those that end a block,
\* and otherwise before the next line.
AfterLine ==
    /\ focus.do = "result" /\ stack = <<>> /\ phase = "lines"
    /\ shell' = [shell EXCEPT !.last_exit_code = focus.code]
    /\ focus' = Idle
    /\ \/ phase' = "exiting" /\ (shell.exit_requested \/ line > Len(script))
       \/ phase' = "lines" /\ line <= Len(script)
    /\ UNCHANGED <<script, line, stack, log, status>>

\* execute_exit_trap, through execute_trap_handler.
StartExitTrap ==
    /\ phase = "exiting"
    /\ \E trap \in ExitTrap \ {NoTree} :
         /\ stack' = <<[in |-> "trap", tree |-> trap, last |-> shell.last_exit_code]>>
         /\ focus' = Execute(trap)
    /\ phase' = "trap"
    /\ log' = <<>>
    /\ UNCHANGED <<script, line, shell, status>>

AfterExitTrap ==
    /\ Resuming({"trap"})
    /\ shell' = [shell EXCEPT !.last_exit_code = Top.last]
    /\ focus' = Idle
    /\ Leave
    /\ phase' = "ended"
    /\ status' = 0
    /\ UNCHANGED <<script, line, log>>

\* main returns.
EndWithoutTrap ==
    /\ phase = "exiting"
    /\ NoTree \in ExitTrap
    /\ phase' = "ended"
    /\ status' = 0
    /\ UNCHANGED <<script, line, focus, stack, shell, log>>

-----------------------------------------------------------------------------
Init ==
    /\ script \in Script
    /\ line = 1
    /\ phase = "lines"
    /\ focus = Idle
    /\ stack = <<>>
    /\ \E errexit \in Errexit : shell = InitialShell(errexit)
    /\ log = <<>>
    /\ status = NoCode

Simple == RunCommand \/ Break \/ Continue \/ Exit \/ Return

Lists == \/ EnterSequence \/ AfterPart \/ EnterIf \/ AfterCondition
         \/ EnterChain \/ AfterLeft \/ AfterRight \/ EnterNegation \/ AfterNegated

Loops == \/ EnterFor \/ EnterWhile \/ ForTurn \/ WhileTurn
         \/ AfterLoopCondition \/ AfterBody

Calls == Define \/ Call \/ AfterCall \/ EnterSubshell \/ AfterSubshell

ScriptSteps == StartLine \/ AfterLine \/ StartExitTrap \/ AfterExitTrap \/ EndWithoutTrap

Next == Simple \/ Lists \/ Loops \/ Calls \/ ScriptSteps

Spec == Init /\ [][Next]_vars

-----------------------------------------------------------------------------
(* Properties *)

Shell ==
    [errexit           : BOOLEAN,
     exit_requested    : BOOLEAN,
     exit_code         : Nat,
     last_exit_code    : Nat,
     loop_depth        : Nat,
     break_level       : Nat,
     continue_level    : Nat,
     function_depth    : 0..MaxRecursionDepth,
     return_value      : Nat \cup {NoCode},
     subshell_depth    : 0..MaxSubshellDepth,
     in_condition      : BOOLEAN,
     in_logical_chain  : BOOLEAN,
     in_negation       : BOOLEAN,
     last_was_negation : BOOLEAN,
     functions         : [Name -> Tree \cup {NoTree}]]

LoopKinds == {"for", "while", "until"}

Frame ==
    [in : {"sequence"}, rest : Seq(Tree)]
    \cup [in : {"if"}, tree : TreesOf({"if"})]
    \cup [in : {"and", "or"}, right : Tree]
    \cup [in : {"right", "negation", "condition", "call"}]
    \cup [in : {"for"}, tree : TreesOf({"for"}), left : Nat, code : Nat]
    \cup [in : {"while", "until"}, tree : TreesOf({"while", "until"}), code : Nat]
    \cup [in : {"subshell"}, parent : Shell]
    \cup [in : {"trap"}, tree : Tree, last : Nat]

Focus ==
    [do : {"idle", "turn"}]
    \cup [do : {"execute"}, tree : Tree]
    \cup [do : {"result"}, code : Nat]

\* The fields of ShellState have their types, with depths within the limits
\* on the recursion of functions and the nesting of subshells; every frame
\* has the parts its construct has; a loop's turn comes with the loop on
\* top, its condition directly above it, and idle means that all have ended.
TypeOK ==
    /\ script \in Script
    /\ line \in 1..Len(script) + 1
    /\ phase \in {"lines", "exiting", "trap", "ended"}
    /\ focus \in Focus
    /\ stack \in Seq(Frame)
    /\ shell \in Shell
    /\ log \in Seq([name : Name \cup {"signal", "TERM"}, code : Nat])
    /\ status \in {NoCode, 0}
    /\ focus.do = "idle" => stack = <<>>
    /\ phase \in {"exiting", "ended"} => focus = Idle
    /\ focus.do = "turn" => Len(stack) > 0 /\ Top.in \in LoopKinds
    /\ \A i \in DOMAIN stack : stack[i].in = "condition" =>
          i > 1 /\ stack[i - 1].in \in {"while", "until"}

\* How many of the first n frames of a stack are of these kinds.
Count(s, kinds, n) == Cardinality({i \in 1..n : s[i].in \in kinds})

\* loop_depth and function_depth count the loops and the calls that are
\* being executed, on every way out of them, so that break, continue and
\* return are accepted exactly where there is something for them to leave.
DepthsAgree ==
    /\ shell.loop_depth = Count(stack, LoopKinds, Len(stack))
    /\ shell.function_depth = Count(stack, {"call"}, Len(stack))

\* A return that is being carried out is inside the call it ends: it never
\* outlives it, nor leaks out of a subshell.
ReturnHasCaller ==
    IsReturning(shell) => \E i \in DOMAIN stack : stack[i].in = "call"

\* Nothing jumps out of a condition, and nothing in it ends the exemption
\* from errexit: in all of its parts that run in the same ShellState, called
\* functions included, there is no jump, no if and no loop.  Plain has the
\* conditions and those parts.
PlainConditions(Plain) ==
    /\ \A t \in TreesOf({"if", "while", "until"}) : t.condition \in Plain
    /\ \A t \in Plain :
          /\ t.op \in {"command", "define", "sequence", "and", "or", "negation", "subshell"}
          /\ t.op = "sequence" => t.parts \in Seq(Plain)
          /\ t.op \in {"and", "or"} => t.left \in Plain /\ t.right \in Plain
          /\ t.op = "negation" => t.command \in Plain
          /\ t.op = "command" =>
                \A d \in TreesOf({"define"}) : d.name = t.name => d.body \in Plain

\* Between two lines nothing is left of break, continue and return.
NothingPending ==
    focus = Idle /\ phase \in {"lines", "exiting"} =>
        ~ (IsBreaking(shell) \/ IsContinuing(shell) \/ IsReturning(shell))

\* No command of the script is run while a break, continue, return or exit
\* is being carried out: every construct that it passes stops, with its part
\* that jumped.
NothingAfterJump ==
    [][phase = "lines" /\ RunCommand =>
           /\ ~ shell.exit_requested
           /\ ~ (IsBreaking(shell) \/ IsContinuing(shell) \/ IsReturning(shell))]_vars

=============================================================================
