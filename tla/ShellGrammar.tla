---------------------------- MODULE ShellGrammar ----------------------------
(***************************************************************************)
(* What a script says: the lines in which a program, given as trees of the *)
(* parser, is written.  layout[n] says of the constructs at nesting level  *)
(* n whether their bodies stand on lines of their own.                     *)
(***************************************************************************)
EXTENDS Parser

\* Two pieces of text one after the other, on the same line or not.
Beside(x, y) == Front(x) \o <<Last(x) \o y[1]>> \o Tail(y)
Below(x, y) == x \o y

IsAsync(ast) == ast.node = "AsyncCommand"
Parts(ast) == IF ast.node = "Sequence" THEN ast.asts ELSE <<ast>>

RECURSIVE Write(_, _), WriteList(_, _, _)

\* A list of commands, each on lines of its own or not.
WriteList(asts, apart, layout) ==
    LET first == Write(asts[1], layout)
        rest == WriteList(Tail(asts), apart, layout)
    IN  IF Len(asts) = 1 THEN first
        ELSE IF apart THEN Below(first, rest)
        ELSE Beside(IF IsAsync(asts[1]) THEN first ELSE Beside(first, <<(<<";">>)>>), rest)

\* A body between two words.
Enclose(opening, body, closing, layout) ==
    LET text == WriteList(Parts(body), layout[1], Tail(layout))
        ended == IF IsAsync(Last(Parts(body))) \/ closing \in {<<")">>, <<";;">>}
                 THEN text ELSE Beside(text, <<(<<";">>)>>)
    IN  IF layout[1] THEN Below(<<opening>>, Below(text, <<closing>>))
        ELSE Beside(<<opening>>, Beside(ended, <<closing>>))

WriteStage(command, layout) ==
    LET words == IF command.compound = <<>> THEN <<command.args>>
                 ELSE Write(command.compound[1], layout)
    IN  Beside(words, <<FlattenSeq([n \in DOMAIN command.redirections |->
                                    <<command.redirections[n]>> \o
                                    IF command.redirections[n] \in FileRedirection
                                    THEN <<"f">> ELSE <<>>])>>)

\* One line with a condition, which is written on one.
Condition(word, ast) == <<word>> \o FlattenSeq(WriteList(Parts(ast), FALSE, <<FALSE, FALSE, FALSE>>)) \o <<";">>

Write(ast, layout) ==
    CASE ast.node = "Pipeline" ->
           LET stages == [n \in DOMAIN ast.commands |-> WriteStage(ast.commands[n], layout)]
           IN  FoldLeft(LAMBDA text, stage : Beside(Beside(text, <<(<<"|">>)>>), stage),
                        stages[1], Tail(stages))
      [] ast.node \in {"And", "Or"} ->
           Beside(Write(ast.left, layout),
                  Beside(<<(<<IF ast.node = "And" THEN "&&" ELSE "||">>)>>,
                         Write(ast.right, layout)))
      [] ast.node = "Negation" -> Beside(<<(<<"!">>)>>, Write(ast.command, layout))
      [] ast.node = "AsyncCommand" -> Beside(Write(ast.command, layout), <<(<<"&">>)>>)
      [] ast.node = "Subshell" -> Enclose(<<"(">>, ast.body, <<")">>, layout)
      [] ast.node = "CommandGroup" -> Enclose(<<"{">>, ast.body, <<"}">>, layout)
      [] ast.node = "FunctionDefinition" ->
           Enclose(<<"f", "(", ")", "{">>, ast.body, <<"}">>, layout)
      [] ast.node \in {"While", "Until"} ->
           Enclose(Condition(IF ast.node = "While" THEN "while" ELSE "until", ast.condition)
                     \o <<"do">>, ast.body, <<"done">>, layout)
      [] ast.node = "For" ->
           Enclose(<<"for", "x", "in">> \o ast.items \o <<";", "do">>, ast.body,
                   <<"done">>, layout)
      [] ast.node = "If" ->
           LET else_body == IF ast.else_branch = <<>> THEN <<>> ELSE <<"else">>
               branch(n) ==
                 LET b == ast.branches[n]
                     more == Len(ast.branches) > n
                 IN  Enclose(Condition(IF n = 1 THEN "if" ELSE "elif", b.condition)
                               \o <<"then">>, b.body,
                             IF more THEN <<>>
                             ELSE IF else_body = <<>> THEN <<"fi">> ELSE else_body, layout)
               branches == FoldLeft(Beside, branch(1),
                                    [n \in 1..Len(ast.branches) - 1 |-> branch(n + 1)])
           IN  IF else_body = <<>> THEN branches
               ELSE Beside(branches, Enclose(<<>>, ast.else_branch[1], <<"fi">>, layout))
      [] ast.node = "Case" ->
           LET cases == [n \in DOMAIN ast.cases |->
                           Enclose(FlattenSeq([p \in DOMAIN ast.cases[n].patterns |->
                                                 IF p = 1 THEN <<ast.cases[n].patterns[p]>>
                                                 ELSE <<"|", ast.cases[n].patterns[p]>>])
                                     \o <<")">>,
                                   ast.cases[n].body, <<";;">>, layout)]
               join(x, y) == IF layout[1] THEN Below(x, y) ELSE Beside(x, y)
           IN  join(FoldLeft(join, <<(<<"case", "a", "in">>)>>, cases), <<(<<"esac">>)>>)

=============================================================================
