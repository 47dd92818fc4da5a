--------------------------- MODULE ShellSemantics ---------------------------
(***************************************************************************)
(* What a script means, without flags: a tree evaluates to an outcome,     *)
(* which says how it ended (normally, or by break, continue, return, exit) *)
(* and which part of the log of commands it accounts for.  The statuses of *)
(* the commands are taken from that log.  errexit is the rule of POSIX: a  *)
(* command that fails ends the shell unless it is tested, where every      *)
(* command of a condition or a negation is tested, and every command of an *)
(* && or || list but its last.                                             *)
(***************************************************************************)
EXTENDS Naturals, Sequences

\* n is an exit status or, for break and continue, the number of loops to go.
Outcome(how, n, at) == [how |-> how, n |-> n, at |-> at]

Normal(code, at) == Outcome("normal", code, at)

\* A simple command that ends with this status.
Status(code, at, env) ==
    Outcome(IF env.errexit /\ ~ env.tested /\ code # 0 THEN "exit" ELSE "normal",
            code, at)

Tested(env) == [env EXCEPT !.tested = TRUE]

InLoop(env) == [env EXCEPT !.loops = @ + 1]

Signalled(log, at) == at <= Len(log) /\ log[at].name = "signal"

RECURSIVE Meaning(_, _, _, _), CallMeaning(_, _, _, _), SequenceMeaning(_, _, _, _),
          LoopMeaning(_, _, _, _, _, _), LoopGoesOn(_, _, _, _, _)

Meaning(tree, env, log, at) ==
    CASE tree.op = "command" ->
           IF env.functions[tree.name].op # "none" THEN CallMeaning(tree, env, log, at)
           ELSE IF at > Len(log) \/ log[at].name # tree.name THEN Outcome("cut", 0, at)
           ELSE Status(log[at].code, at + 1, env)
      [] tree.op \in {"break", "continue"} ->
           IF tree.level > env.loops THEN Status(1, at, env)
           ELSE Outcome(tree.op, tree.level, at)
      [] tree.op = "exit" -> Outcome("exit", tree.code, at)
      [] tree.op = "return" ->
           IF env.calls = 0 THEN Status(1, at, env)
           ELSE Outcome("return", tree.code, at)
      [] tree.op = "define" -> Normal(0, at)
      [] tree.op = "sequence" -> SequenceMeaning(tree.parts, env, log, at)
      [] tree.op = "if" ->
           LET c == Meaning(tree.condition, Tested(env), log, at)
           IN  IF c.how # "normal" THEN c
               ELSE IF c.n = 0 THEN Meaning(tree.then, env, log, c.at)
               ELSE IF tree.else.op = "none" THEN Normal(0, c.at)
               ELSE Meaning(tree.else, env, log, c.at)
      [] tree.op \in {"and", "or"} ->
           LET l == Meaning(tree.left, Tested(env), log, at)
           IN  IF l.how = "normal" /\ (tree.op = "and") = (l.n = 0)
               THEN Meaning(tree.right, env, log, l.at) ELSE l
      [] tree.op = "negation" ->
           LET c == Meaning(tree.command, Tested(env), log, at)
           IN  IF c.how # "normal" THEN c
               ELSE Normal(IF c.n = 0 THEN 1 ELSE 0, c.at)
      [] tree.op = "for" -> LoopMeaning(tree, tree.items, 0, env, log, at)
      [] tree.op \in {"while", "until"} -> LoopMeaning(tree, 0, 0, env, log, at)
      [] tree.op = "subshell" ->
           IF env.subshells >= env.maxSubshells THEN Status(1, at, env)
           ELSE LET b == Meaning(tree.body, [env EXCEPT !.subshells = @ + 1], log, at)
                IN  CASE b.how \in {"normal", "exit", "return"} -> Status(b.n, b.at, env)
                      [] b.how \in {"break", "continue"} -> Normal(0, b.at)
                      [] b.how = "cut" -> b

CallMeaning(tree, env, log, at) ==
    IF env.calls >= env.maxCalls THEN Normal(1, at)
    ELSE LET body == env.functions[tree.name]
             b    == Meaning(body, [env EXCEPT !.calls = @ + 1], log, at)
         IN  IF b.how = "return" THEN Normal(b.n, b.at) ELSE b

SequenceMeaning(parts, env, log, at) ==
    LET first == Meaning(Head(parts), env, log, at)
    IN  IF first.how = "normal" /\ Tail(parts) # <<>>
        THEN SequenceMeaning(Tail(parts), env, log, first.at)
        ELSE first

\* A loop that has items items left, whose body last ended with code.
LoopMeaning(tree, items, code, env, log, at) ==
    IF tree.op = "for"
    THEN IF items = 0 THEN Normal(code, at)
         ELSE IF Signalled(log, at) THEN Outcome("exit", log[at].code, at + 1)
         ELSE LoopGoesOn(tree, items - 1, Meaning(tree.body, InLoop(env), log, at), env, log)
    ELSE LET c == Meaning(tree.condition, Tested(InLoop(env)), log, at)
         IN  IF c.how # "normal" THEN LoopGoesOn(tree, 0, c, env, log)
             ELSE IF (tree.op = "while") # (c.n = 0) THEN Normal(code, c.at)
             ELSE LoopGoesOn(tree, 0, Meaning(tree.body, InLoop(env), log, c.at), env, log)

\* What follows a turn of a loop.
LoopGoesOn(tree, items, turn, env, log) ==
    CASE turn.how = "normal" ->
           LoopMeaning(tree, items, turn.n, env, log, turn.at)
      [] turn.how = "break" /\ turn.n = 1 -> Normal(0, turn.at)
      [] turn.how = "continue" /\ turn.n = 1 ->
           LoopMeaning(tree, items, 0, env, log, turn.at)
      [] turn.how \in {"break", "continue"} /\ turn.n > 1 ->
           [turn EXCEPT !.n = @ - 1]
      [] turn.how \in {"return", "exit", "cut"} -> turn

\* Signals that are pending when a line ends by exit: a handler that exits
\* too has the last word.
AfterExit(exit, log) ==
    IF Signalled(log, exit.at) THEN Outcome("exit", log[exit.at].code, exit.at + 1)
    ELSE exit

\* The lines of a script from the i-th on, when the one before it had this
\* status.  Before any of them a signal's handler may exit, or SIGTERM end the
\* script.  A line that does not parse has status 1.
RECURSIVE ScriptMeaning(_, _, _, _, _, _)

ScriptMeaning(lines, i, code, env, log, at) ==
    IF i > Len(lines) THEN Normal(code, at)
    ELSE IF Signalled(log, at) THEN Outcome("exit", log[at].code, at + 1)
    ELSE IF at <= Len(log) /\ log[at] = [name |-> "TERM", code |-> i] THEN Normal(code, at + 1)
    ELSE LET line == IF lines[i].op = "none" THEN Normal(1, at)
                     ELSE Meaning(lines[i], env, log, at)
         IN  IF line.how = "normal"
             THEN ScriptMeaning(lines, i + 1, line.n, env, log, line.at)
             ELSE IF i = Len(lines) THEN line
             ELSE AfterExit(line, log)

=============================================================================
