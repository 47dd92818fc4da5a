----------------------------- MODULE MCExecutor -----------------------------
(* Model-checking instance of Executor: families of scripts, and the       *)
(* comparison of a run with what ShellSemantics says the script means.     *)
EXTENDS Executor, ShellSemantics, Functions

-----------------------------------------------------------------------------
(* Syntax trees *)

Command(name) == [op |-> "command", name |-> name]
Jump(op, level) == [op |-> op, level |-> level]
Leaving(op, code) == [op |-> op, code |-> code]
Sequence(parts) == [op |-> "sequence", parts |-> parts]
Branch(c, t, e) == [op |-> "if", condition |-> c, then |-> t, else |-> e]
Chain(op, l, r) == [op |-> op, left |-> l, right |-> r]
Not(t) == [op |-> "negation", command |-> t]
Repeat(n, b) == [op |-> "for", items |-> n, body |-> b]
Loop(op, c, b) == [op |-> op, condition |-> c, body |-> b]
Subshell(b) == [op |-> "subshell", body |-> b]
Function(name, b) == [op |-> "define", name |-> name, body |-> b]
A == Command("a")
B == Command("b")
C == Command("c")
D == Command("d")
F == Command("f")
G == Command("g")

Jumps == {Jump(op, n) : op \in {"break", "continue"}, n \in 1..2}
         \cup {Leaving(op, 2) : op \in {"return", "exit"}}

-----------------------------------------------------------------------------
(* Run control: jumps in bodies, out of up to two loops, a function, and a *)
(* subshell, reached directly, from a branch, or through a list.           *)

Bodies == {Sequence(<<A, j, B>>) : j \in Jumps}
          \cup {Sequence(<<Branch(A, j, t), B>>) : j \in Jumps, t \in {NoTree, B}}
          \cup {Sequence(<<Chain(op, A, j), B>>) : op \in {"and", "or"}, j \in Jumps}
          \cup {Chain("or", j, B) : j \in Jumps}
          \cup {Sequence(<<Subshell(Sequence(<<j, A>>)), B>>) : j \in Jumps}

ForLoops == {Repeat(2, b) : b \in Bodies}

WhileLoops == {Loop("while", D, Sequence(<<Branch(A, j, B), C>>)) : j \in Jumps}

NestedLoops == {Repeat(2, Sequence(<<l, C>>)) : l \in ForLoops \cup WhileLoops}
               \cup {Loop("until", Not(D), Sequence(<<l, C>>)) : l \in WhileLoops}

Main(t) == <<Function("f", t), Sequence(<<F, C>>)>>

ControlScripts ==
    {<<Sequence(<<t, C>>)>> : t \in Bodies \cup NestedLoops}
    \cup {Main(t) : t \in Bodies \cup NestedLoops}
    \cup {<<Function("f", Sequence(<<j, B>>)), Sequence(<<Repeat(2, Sequence(<<F, A>>)), C>>)>> :
            j \in Jumps}
    \cup {<<Function("f", Chain("and", A, F)), F, C>>,
          <<Subshell(Sequence(<<A, Subshell(Subshell(B)), C>>))>>,
          <<A, NoTree, B>>}

-----------------------------------------------------------------------------
(* Run errexit: failing commands in and out of conditions *)

Tests == {A, Not(A), Sequence(<<A, B>>), Subshell(A)}

Checked == {Branch(t, B, e) : t \in Tests, e \in {NoTree, C}}
           \cup {Loop(op, t, Sequence(<<B, Jump("break", 1)>>)) :
                   op \in {"while", "until"}, t \in Tests}
           \cup {Subshell(Sequence(<<B, t>>)) : t \in Tests}
           \cup {Not(t) : t \in {A, Sequence(<<A, B>>)}}

ErrexitScripts ==
    {<<Sequence(<<t, D>>), C>> : t \in Checked}
    \cup {<<Sequence(<<Repeat(2, Sequence(<<t, D>>)), C>>)>> : t \in Checked}
    \cup {<<Function("f", Sequence(<<t, D>>)), Sequence(<<F, C>>), A>> : t \in Checked}
    \cup {<<Sequence(<<Subshell(Sequence(<<t, D>>)), C>>)>> : t \in Checked}
    \cup {<<Function("g", Sequence(<<A, B>>)), Sequence(<<t, D, G, C>>)>> :
            t \in {Branch(G, B, C), Loop("until", Chain("and", G, Not(D)), C)}}

-----------------------------------------------------------------------------
(* The scripts of the counterexamples *)

\* a && b; c
ChainInSequence == {<<Sequence(<<Chain("and", A, B), C>>)>>}

\* a; exit 2    with or without    trap "b; c" EXIT
ExitScript == {<<A, Leaving("exit", 2)>>}
TwoCommands == {Sequence(<<B, C>>)}
NoTrap == {NoTree}
MaybeTrap == {NoTree, B}

Scripts == ControlScripts \cup ErrexitScripts \cup ChainInSequence \cup ExitScript

-----------------------------------------------------------------------------
(* The trees that these scripts consist of *)

Parts(t) ==
    CASE t.op = "sequence" -> Range(t.parts)
      [] t.op = "if" -> {t.condition, t.then, t.else} \ {NoTree}
      [] t.op \in {"and", "or"} -> {t.left, t.right}
      [] t.op = "negation" -> {t.command}
      [] t.op \in {"while", "until"} -> {t.condition, t.body}
      [] t.op \in {"for", "subshell", "define"} -> {t.body}
      [] OTHER -> {}

PartsOf(trees) == UNION {Parts(t) : t \in trees}

\* The trees at each depth below a line; none is higher than 8.
Depth1 == TwoCommands \cup (UNION {Range(s) : s \in Scripts} \ {NoTree})
Depth2 == PartsOf(Depth1)
Depth3 == PartsOf(Depth2)
Depth4 == PartsOf(Depth3)
Depth5 == PartsOf(Depth4)
Depth6 == PartsOf(Depth5)
Depth7 == PartsOf(Depth6)
Depth8 == PartsOf(Depth7)

Trees == UNION {Depth1, Depth2, Depth3, Depth4, Depth5, Depth6, Depth7, Depth8}

\* The trees that are executed in conditions.
TestTrees == Tests \cup {B, D, Not(D), G, Chain("and", G, Not(D))}

ASSUME TestTreesArePlain == TestTrees \subseteq Trees /\ PlainConditions(TestTrees)

-----------------------------------------------------------------------------
(* Properties *)

Environment ==
    [errexit |-> shell.errexit, tested |-> FALSE, functions |-> shell.functions,
     loops |-> 0, calls |-> 0, maxCalls |-> MaxRecursionDepth,
     subshells |-> 0, maxSubshells |-> MaxSubshellDepth]

\* A script that has ended has run exactly the commands it means to run, in
\* their order, and has exited, or ended with $?, as it means to.
RunsAsItMeans ==
    phase = "exiting" =>
        LET r == ScriptMeaning(script, 1, 0, Environment, log, 1)
        IN  /\ r.at = Len(log) + 1
            /\ r.how \in {"normal", "exit"}
            /\ (r.how = "exit") = shell.exit_requested
            /\ r.n = IF shell.exit_requested
                     THEN shell.exit_code ELSE shell.last_exit_code

=============================================================================
