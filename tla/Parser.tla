------------------------------- MODULE Parser -------------------------------
(***************************************************************************)
(* The parser (src/src/parser): from the tokens of a line or a block to    *)
(* its tree.  A token is a string: an operator, a keyword, a redirection   *)
(* with its file in it ("n>f") or before it (">"), or one of a few words:  *)
(* plain ones, "v=" for VAR=value, "#" and "#!" for comments, "\\", "EOF". *)
(*                                                                         *)
(* An error message is the node Err.  There is a third outcome, Hang: the  *)
(* parser may fail to advance over a token and then loops for ever.        *)
(***************************************************************************)
EXTENDS Integers, Sequences, FiniteSets, SequencesExt

Word == {"a", "b", "c", "f", "x", "true", "exit", "EOF",
         "v=", "#", "#!", "\\"}
Keyword == {"if", "then", "else", "elif", "fi", "case", "in", "esac",
            "for", "while", "until", "do", "done"}
Builtin == {"local", "return", "break", "continue"}
LoopStart == {"for", "while", "until"}
Blank == {"nl"}
Separator == {"nl", ";"}
ChainOperator == {"&&", "||"}

\* Redirections followed by their file, and those that carry it.
FileRedirection == {">", "<", ">>", ">|"}
FdRedirection == {"n>f", "n>|f", "n<f", "n>>f", "n>&m", "n>&-", "n<>f", "<<", "<<<"}

Err == [node |-> "error"]
Hang == [node |-> "hang"]
Bad(ast) == ast \in {Err, Hang}

-----------------------------------------------------------------------------
(* Trees *)

Command(args, redirections, compound) ==
    [args |-> args, redirections |-> redirections, compound |-> compound]
NoCommand == Command(<<>>, <<>>, <<>>)

Pipeline(commands) == [node |-> "Pipeline", commands |-> commands]
Sequence(asts) == [node |-> "Sequence", asts |-> asts]
Assignment == [node |-> "Assignment"]
LocalAssignment == [node |-> "LocalAssignment"]
Return == [node |-> "Return"]
If(branches, else_branch) ==
    [node |-> "If", branches |-> branches, else_branch |-> else_branch]
Case(cases) == [node |-> "Case", cases |-> cases]
For(items, body) == [node |-> "For", items |-> items, body |-> body]
Loop(kind, condition, body) == [node |-> kind, condition |-> condition, body |-> body]
FunctionDefinition(body) == [node |-> "FunctionDefinition", body |-> body]
Chain(kind, left, right) == [node |-> kind, left |-> left, right |-> right]
Subshell(body) == [node |-> "Subshell", body |-> body]
CommandGroup(body) == [node |-> "CommandGroup", body |-> body]
Negation(command) == [node |-> "Negation", command |-> command]
AsyncCommand(command) == [node |-> "AsyncCommand", command |-> command]

Simple(args) == Pipeline(<<Command(args, <<>>, <<>>)>>)
create_empty_body_ast == Simple(<<"true">>)

-----------------------------------------------------------------------------
(* Stretches of tokens *)

From(tokens, i) == SubSeq(tokens, i, Len(tokens))
Starts(tokens, set) == tokens # <<>> /\ tokens[1] \in set

\* The first index that satisfies P, or the one after the last.
FirstIndex(tokens, P(_)) ==
    LET i == SelectInSeq(tokens, P) IN IF i = 0 THEN Len(tokens) + 1 ELSE i

Before(tokens, set) ==
    SubSeq(tokens, 1, FirstIndex(tokens, LAMBDA t : t \in set) - 1)
After(tokens, set) == From(tokens, Len(Before(tokens, set)) + 1)

skip_newlines(tokens) ==
    From(tokens, FirstIndex(tokens, LAMBDA t : t \notin Blank))

\* One separator is skipped if there is one.
SkipOne(tokens) == IF Starts(tokens, Separator) THEN Tail(tokens) ELSE tokens

WithoutTrailingNewlines(tokens) ==
    SubSeq(tokens, 1, Len(tokens) - (FirstIndex(Reverse(tokens), LAMBDA t : t \notin Blank) - 1))

\* How deep token i is, by openings and closings after token from.
Depth(tokens, from, i, openings, closing) ==
      Cardinality({j \in from + 1..i : tokens[j] \in openings})
    - Cardinality({j \in from + 1..i : tokens[j] = closing})

\* The token that closes what token from opened, or 0 if there is none.
LeastOrZero(indices) == IF indices = {} THEN 0 ELSE Min(indices)
Matching(tokens, from, openings, closing) ==
    LeastOrZero({i \in from + 1..Len(tokens) : Depth(tokens, from, i, openings, closing) = -1})

\* Where the construct ends that begins with the first token.  Only if,
\* loops, parentheses and braces are matched: a case ends at the first esac.
\* Without its end a keyword's construct takes all tokens.
Closing(t) == CASE t = "(" -> ")" [] t = "{" -> "}" [] t = "if" -> "fi" [] t \in LoopStart -> "done"
Alike(t) == IF t \in LoopStart THEN LoopStart ELSE {t}
OrAll(end, tokens) == IF end = 0 THEN Len(tokens) ELSE end
ConstructEnd(tokens) ==
    LET t == tokens[1]
    IN  CASE t \in {"(", "{"} -> Matching(tokens, 1, {t}, Closing(t))
          [] t \in {"if"} \cup LoopStart -> OrAll(Matching(tokens, 1, Alike(t), Closing(t)), tokens)
          [] t = "case" -> OrAll(SelectInSeq(tokens, LAMBDA u : u = "esac"), tokens)

Constructs == {"(", "{", "if", "case"} \cup LoopStart

\* What a keyword's construct encloses, from its first token on, up to the
\* closing keyword at its own depth: a trailing newline is not part of it.
\* 0 is returned as the end when there is no such keyword.
Body(tokens, openings, closings) ==
    LET upTo(end) ==
          [tokens |-> WithoutTrailingNewlines(
                          SubSeq(tokens, 1, IF end = 0 THEN Len(tokens) ELSE end - 1)),
           end |-> end]
    IN  upTo(LeastOrZero({i \in DOMAIN tokens :
                            /\ tokens[i] \in closings
                            /\ \A closing \in closings \cap {"fi", "done"} :
                                 Depth(tokens, 0, i - 1, openings, closing) = 0}))

\* Where a simple command or pipeline ends: at a separator or operator that
\* no parenthesis or brace encloses and no | precedes, or at a closing one
\* of its enclosing construct.  0 if an operator follows |.
RECURSIVE Scan(_, _, _, _, _)
Scan(tokens, i, braces, parens, last_was_pipe) ==
    LET t == tokens[i]
        outside == braces = 0 /\ parens = 0
    IN  IF i > Len(tokens) THEN i
        ELSE IF i > 1 /\ outside /\ t \in ChainOperator
        THEN IF last_was_pipe THEN 0 ELSE i
        ELSE IF i > 1 /\ \/ outside /\ t \in Separator \cup {"&"} /\ ~ last_was_pipe
                         \/ braces = 0 /\ t = "}"
                         \/ parens = 0 /\ t = ")"
        THEN i
        ELSE Scan(tokens, i + 1,
                  CASE t = "{" -> braces + 1
                    [] t = "}" /\ braces > 0 -> braces - 1
                    [] OTHER -> braces,
                  CASE t = "(" -> parens + 1
                    [] t = ")" /\ parens > 0 -> parens - 1
                    [] OTHER -> parens,
                  t = "|")

\* Where a pipeline ends that a compound command leads: && and || do not
\* end it.
RECURSIVE PipelineEnd(_, _, _, _, _)
PipelineEnd(tokens, i, braces, parens, last_was_pipe) ==
    LET t == tokens[i]
    IN  IF \/ i > Len(tokens)
           \/ t = "}" /\ braces = 0
           \/ t = ")" /\ parens = 0
           \/ t \in Separator /\ braces = 0 /\ parens = 0 /\ ~ last_was_pipe
        THEN i
        ELSE PipelineEnd(tokens, i + 1,
                  CASE t = "{" -> braces + 1 [] t = "}" -> braces - 1 [] OTHER -> braces,
                  CASE t = "(" -> parens + 1 [] t = ")" -> parens - 1 [] OTHER -> parens,
                  t = "|" \/ (last_was_pipe /\ t \notin Word \cup {"(", ")", "{", "}"}))

\* The redirections after a compound command, and the tokens after them.  A
\* redirection whose file is missing is skipped, except for >|.
RECURSIVE CompoundRedirections(_, _)
CompoundRedirections(tokens, known) ==
    IF Starts(tokens, known)
    THEN LET more == CompoundRedirections(Tail(tokens), known)
         IN  [more EXCEPT !.redirections = <<tokens[1]>> \o @]
    ELSE IF Starts(tokens, FileRedirection)
    THEN IF Len(tokens) > 1 /\ tokens[2] \in Word
         THEN LET more == CompoundRedirections(From(tokens, 3), known)
              IN  [more EXCEPT !.redirections = <<tokens[1]>> \o @]
         ELSE IF tokens[1] = ">|"
         THEN [redirections |-> <<"error">>, rest |-> <<>>]
         ELSE CompoundRedirections(Tail(tokens), known)
    ELSE [redirections |-> <<>>, rest |-> tokens]

\* The brace that closes a function's body.  Whatever a construct or an inner
\* function encloses is passed over.
RECURSIVE FunctionEnd(_, _, _)
FunctionEnd(tokens, i, braces) ==
    IF i > Len(tokens) THEN 0
    ELSE LET t == tokens[i]
             rest == From(tokens, i)
         IN  CASE t = "{" -> FunctionEnd(tokens, i + 1, braces + 1)
               [] t = "}" -> IF braces = 0 THEN i ELSE FunctionEnd(tokens, i + 1, braces - 1)
               [] t \in {"if", "case"} \cup LoopStart ->
                     FunctionEnd(tokens, i + ConstructEnd(rest), braces)
               [] OTHER -> FunctionEnd(tokens, i + 1, braces)

IsFunctionHead(tokens) ==
    Len(tokens) >= 4 /\ tokens[1] \in Word /\ SubSeq(tokens, 2, 4) = <<"(", ")", "{">>

-----------------------------------------------------------------------------
(* The mutually recursive parsers *)

\* Parse("commands", tokens) is ParseCommands(tokens), and so on: what these
\* parsers need of one another.
RECURSIVE Parse(_, _), ParsePipeline(_, _, _)

\* parse_commands_sequentially, of a body that may be empty.
ParseBody(tokens) ==
    IF tokens = <<>> THEN create_empty_body_ast ELSE Parse("commands", tokens)

\* The first outcome that is no tree, or the tree made of all of them.
FirstBad(asts, tree) ==
    IF \E i \in DOMAIN asts : Bad(asts[i])
    THEN asts[SelectInSeq(asts, Bad)] ELSE tree

Node(kind, body) ==
    IF Bad(body) THEN body
    ELSE CASE kind = "FunctionDefinition" -> FunctionDefinition(body)
           [] kind = "CommandGroup" -> CommandGroup(body)
           [] kind = "Subshell" -> Subshell(body)

parse_function_definition(tokens) ==
    LET end == FunctionEnd(tokens, 5, 0)
    IN  IF end = 0 THEN Err ELSE Node("FunctionDefinition", ParseBody(SubSeq(tokens, 5, end - 1)))

\* A list of commands joined by && and ||, all of one precedence and grouped
\* to the left: what has been parsed, and what is left.
RECURSIVE ParseChain(_, _)
ParseRest(first) == ParseChain(first.ast, first.rest)
Joined(operator, left, right) ==
    [right EXCEPT !.ast = IF Bad(@) THEN @ ELSE Chain(IF operator = "&&" THEN "And" ELSE "Or", left, @)]
ParseChain(ast, tokens) ==
    IF Bad(ast) \/ ~ Starts(tokens, ChainOperator) THEN [ast |-> ast, rest |-> tokens]
    ELSE ParseRest(Joined(tokens[1], ast, Parse("command", Tail(tokens))))

parse_next_command(tokens) == ParseRest(Parse("command", tokens))

\* if: each branch has a condition, which ends at the first separator.
RECURSIVE ParseBranches(_)
Failed(ast) == [branches |-> <<ast>>, rest |-> <<>>]
NextBranches(branch, after) ==
    IF Bad(branch.body) \/ Bad(branch.condition)
    THEN Failed(FirstBad(<<branch.body, branch.condition>>, Err))
    ELSE IF after = <<>> THEN Failed(Err)
    ELSE IF after[1] # "elif" THEN [branches |-> <<branch>>, rest |-> after]
    ELSE LET more == ParseBranches(Tail(after))
         IN  [more EXCEPT !.branches = IF Bad(@[1]) THEN @ ELSE <<branch>> \o @]
\* From then on.
ParseThen(condition, tokens) ==
    LET body == Body(tokens, {"if"}, {"else", "elif", "fi"})
    IN  NextBranches([condition |-> Parse("list", condition).ast, body |-> ParseBody(body.tokens)],
                     IF body.end = 0 THEN <<>> ELSE From(tokens, body.end))
ParseBranches(tokens) ==
    LET condition == Before(tokens, Separator \cup {"then"})
        rest == skip_newlines(SkipOne(From(tokens, Len(condition) + 1)))
    IN  IF Starts(rest, {"then"}) THEN ParseThen(condition, skip_newlines(Tail(rest)))
        ELSE Failed(Err)

IfElse(branches, body, else_ast) ==
    IF Bad(else_ast) THEN else_ast ELSE IF body.end = 0 THEN Err ELSE If(branches, <<else_ast>>)
ParseElse(branches, body) == IfElse(branches, body, ParseBody(body.tokens))
EndIf(parsed) ==
    IF Bad(parsed.branches[1]) THEN parsed.branches[1]
    ELSE IF parsed.rest[1] = "fi" THEN If(parsed.branches, <<>>)
    ELSE ParseElse(parsed.branches, Body(skip_newlines(Tail(parsed.rest)), {"if"}, {"fi"}))
parse_if(tokens) == EndIf(ParseBranches(Tail(tokens)))

\* while and until: the separators within the condition are dropped.
LoopOf(kind, condition_ast, body_ast) ==
    FirstBad(<<condition_ast, body_ast>>, Loop(kind, condition_ast, body_ast))
ParseLoop(kind, tokens, openings) ==
    LET condition == SelectSeq(Before(Tail(tokens), {"do"}), LAMBDA t : t \notin Separator)
        body == Body(skip_newlines(Tail(After(tokens, {"do"}))), openings, {"done"})
    IN  IF condition = <<>> \/ ~ Contains(tokens, "do") \/ body.end = 0 THEN Err
        ELSE LoopOf(kind, Parse("list", condition).ast, ParseBody(body.tokens))

\* Slip: as in parse_for, loops of the other kinds are not counted.
parse_whileOnly(tokens) == ParseLoop("While", tokens, {"while"})
parse_while(tokens) == ParseLoop("While", tokens, LoopStart)
parse_until(tokens) == ParseLoop("Until", tokens, LoopStart)

\* for: only inner for loops count where its body ends.
parse_for(tokens) ==
    LET head == Before(tokens, {"do"})
        items == SelectSeq(From(head, 4), LAMBDA t : t \notin Separator)
        body == Body(skip_newlines(Tail(After(tokens, {"do"}))), {"for"}, {"done"})
        over(body_ast) == FirstBad(<<body_ast>>, For(items, body_ast))
    IN  IF \/ Len(head) < 3 \/ ~ (tokens[2] \in Word /\ tokens[3] = "in")
           \/ ~ ToSet(items) \subseteq Word
           \/ ~ Contains(tokens, "do") \/ body.end = 0
        THEN Err
        ELSE over(ParseBody(body.tokens))

\* case: from one pattern to the next; of the commands of a case only the
\* first list is parsed.
RECURSIVE ParseCases(_)
WithCase(pattern, ast, rest) ==
    IF Bad(ast) THEN <<ast>>
    ELSE IF rest = <<>> THEN <<Err>>
    ELSE <<[patterns |-> SelectSeq(pattern, LAMBDA t : t \in Word), body |-> ast]>>
         \o (IF rest[1] = "esac" THEN <<>> ELSE ParseCases(Tail(rest)))
ParseCase(pattern, tokens) ==
    LET commands == Before(tokens, {";;", "esac"})
    IN  WithCase(pattern, Parse("list", commands).ast, From(tokens, Len(commands) + 1))
ParseCases(tokens) ==
    LET pattern == Before(tokens, {")"})
    IN  IF Starts(tokens, Blank) THEN ParseCases(Tail(tokens))
        ELSE IF tokens = <<>> THEN <<Err>>
        ELSE IF tokens[1] = "esac" THEN <<>>
        ELSE IF ~ ToSet(pattern) \subseteq Word \cup {"|", "nl"} \/ ~ Contains(tokens, ")")
        THEN <<Err>>
        ELSE ParseCase(pattern, From(tokens, Len(pattern) + 2))

CaseOf(cases) == FirstBad(cases, Case(cases))
parse_case(tokens) ==
    IF Len(tokens) < 3 \/ ~ (tokens[2] \in Word /\ tokens[3] = "in") THEN Err
    ELSE CaseOf(ParseCases(From(tokens, 4)))

-----------------------------------------------------------------------------
(* One construct or command *)

\* VAR=value alone or with one more word, local, return: no pipelines.
IsAssignment(tokens) ==
    /\ Len(tokens) \in {1, 2} /\ tokens[1] = "v="
    /\ Len(tokens) = 2 => tokens[2] \in Word
IsLocal(tokens) ==
    /\ Len(tokens) \in {2, 3} /\ tokens[1] = "local"
    /\ ToSet(Tail(tokens)) \subseteq Word
IsReturn(tokens) ==
    /\ Len(tokens) \in {1, 2} /\ tokens[1] = "return"
    /\ Len(tokens) = 2 => tokens[2] \in Word

parse_slice(tokens) ==
    CASE IsAssignment(tokens) -> Assignment
      [] IsLocal(tokens) -> LocalAssignment
      [] IsReturn(tokens) -> Return
      [] tokens[1] = "if" -> parse_if(tokens)
      [] tokens[1] = "case" -> parse_case(tokens)
      [] tokens[1] = "for" -> parse_for(tokens)
      [] tokens[1] = "while" -> parse_while(tokens)
      [] tokens[1] = "until" -> parse_until(tokens)
      [] IsFunctionHead(tokens) -> parse_function_definition(tokens)
      [] OTHER -> ParsePipeline(tokens, <<>>, NoCommand)

\* A command with the & that follows it, and the tokens after it.
WithAmpersand(ast, rest) ==
    IF Starts(rest, {"&"})
    THEN [ast |-> FirstBad(<<ast>>, AsyncCommand(ast)), rest |-> Tail(rest)]
    ELSE [ast |-> ast, rest |-> rest]

\* The next command, and what is left: a negated one, a construct, or a
\* pipeline, with the & that follows it.
UpTo(tokens, end) ==
    IF end <= 0 THEN [ast |-> Err, rest |-> <<>>]
    ELSE WithAmpersand(parse_slice(SubSeq(tokens, 1, end)), From(tokens, end + 1))
Negated(next) == [next EXCEPT !.ast = IF Bad(@) THEN @ ELSE Negation(@)]
Single(tokens) ==
    IF tokens = <<>> THEN [ast |-> Err, rest |-> <<>>]
    ELSE IF tokens[1] = "!" THEN Negated(Parse("command", Tail(tokens)))
    ELSE UpTo(tokens, IF tokens[1] \in Constructs THEN ConstructEnd(tokens)
                      ELSE Scan(tokens, 1, 0, 0, FALSE) - 1)
ParseSingle(tokens) == Single(skip_newlines(tokens))

-----------------------------------------------------------------------------
(* Pipelines *)

\* A stage is complete; one without words or a compound command is no stage.
WithStage(commands, current) ==
    IF current.args = <<>> /\ current.compound = <<>> THEN commands
    ELSE Append(commands, current)

AsPipeline(stages) == IF stages = <<>> THEN Err ELSE Pipeline(stages)
EndPipeline(commands, current) == AsPipeline(WithStage(commands, current))

ParseStage(compound, after, commands, current) ==
    IF Bad(compound) THEN compound
    ELSE IF Contains(after.redirections, "error") THEN Err
    ELSE ParsePipeline(after.rest, commands,
                       [current EXCEPT !.compound = <<compound>>,
                                       !.redirections = @ \o after.redirections])
CompoundStage(kind, tokens, end, commands, current) ==
    ParseStage(IF end = 0 THEN Err ELSE Node(kind, ParseBody(SubSeq(tokens, 2, end - 1))),
               CompoundRedirections(From(tokens, end + 1), FdRedirection), commands, current)
ParseGroupStage(tokens, commands, current) ==
    CompoundStage("CommandGroup", tokens, ConstructEnd(tokens), commands, current)
ParseSubshellStage(tokens, commands, current) ==
    CompoundStage("Subshell", tokens, ConstructEnd(tokens), commands, current)

IsArgument(t) == t \in Word \cup Keyword \cup Builtin

\* From the first of the remaining tokens, with the stages so far.  A file
\* redirection takes the next token, whatever it is.
ParsePipeline(tokens, commands, current) ==
    IF tokens = <<>> THEN EndPipeline(commands, current)
    ELSE LET t == tokens[1]
         IN  CASE t = "{" -> ParseGroupStage(tokens, commands, current)
               [] t = "(" -> ParseSubshellStage(tokens, commands, current)
               [] IsArgument(t) ->
                     ParsePipeline(Tail(tokens), commands,
                                   [current EXCEPT !.args = Append(@, t)])
               [] t = "|" ->
                     LET stages == WithStage(commands, current)
                     IN  ParsePipeline(Tail(tokens), stages,
                                       IF stages = commands THEN current ELSE NoCommand)
               [] t \in FileRedirection /\ Len(tokens) > 1 /\ tokens[2] \in Word ->
                     ParsePipeline(From(tokens, 3), commands,
                                   [current EXCEPT !.redirections = Append(@, t)])
               [] t \in FileRedirection /\ ~ (Len(tokens) > 1 /\ tokens[2] \in Word) ->
                     IF t = ">|" THEN Err
                     ELSE ParsePipeline(From(tokens, 3), commands, current)
               [] t \in FdRedirection ->
                     ParsePipeline(Tail(tokens), commands,
                                   [current EXCEPT !.redirections = Append(@, t)])
               [] t = "nl" /\ WithStage(commands, current) = commands ->
                     ParsePipeline(Tail(tokens), commands, current)
               [] \/ t \in ChainOperator \cup {";"}
                  \/ t = "nl" /\ WithStage(commands, current) # commands ->
                     EndPipeline(commands, current)
               [] OTHER -> Err

-----------------------------------------------------------------------------
(* Lists of commands *)

\* Newlines and comments before a command.
RECURSIVE SkipBlank(_)
SkipBlank(tokens) ==
    IF Starts(tokens, Blank) THEN SkipBlank(Tail(tokens))
    ELSE IF Starts(tokens, {"#"})
    THEN SkipBlank(From(tokens, FirstIndex(tokens, LAMBDA t : t \in Blank)))
    ELSE tokens

\* Slip: the & is left for the next command to begin with.
SkipAmpersandNot(tokens) == tokens
SkipAmpersand(tokens) == SkipOne(Tail(tokens))

\* A command of a list, with the separator after it.
Separated(next) == [next EXCEPT !.rest = SkipOne(@)]
NextOfList(first) == Separated(WithAmpersand(first.ast, first.rest))

\* What follows a subshell or a group, and its redirections: the commands
\* that follow it on the line are those of a pipeline, or the rest of a list,
\* which it is grouped apart from.
AfterCompound(tokens, ast, rest) ==
    LET pipe_end == Len(tokens) - Len(rest) + PipelineEnd(rest, 1, 0, 0, TRUE) - 1
    IN  IF Starts(rest, {"|"})
        THEN [ast  |-> ParsePipeline(SubSeq(tokens, 1, pipe_end), <<>>, NoCommand),
              rest |-> From(tokens, pipe_end + 1)]
        ELSE IF Starts(rest, {"&"})
        THEN [ast |-> AsyncCommand(ast), rest |-> SkipAmpersand(rest)]
        ELSE IF Starts(rest, ChainOperator)
        THEN Separated(Joined(rest[1], ast, Parse("list", skip_newlines(Tail(rest)))))
        ELSE [ast |-> ast, rest |-> SkipOne(rest)]

ParseCompound(tokens, compound, after) ==
    IF Bad(compound) \/ Contains(after.redirections, "error")
    THEN [ast |-> IF Bad(compound) THEN compound ELSE Err, rest |-> <<>>]
    ELSE AfterCompound(tokens,
                       IF after.redirections = <<>> THEN compound
                       ELSE Pipeline(<<Command(<<>>, after.redirections, <<compound>>)>>),
                       after.rest)

Compound(kind, tokens, end, known) ==
    ParseCompound(tokens,
                  IF end = 0 THEN Err
                  ELSE Node(kind, Parse("commands", SubSeq(tokens, 2, end - 1))),
                  CompoundRedirections(From(tokens, end + 1), known))
ParseSubshell(tokens) ==
    Compound("Subshell", tokens, ConstructEnd(tokens), FdRedirection)
ParseGroup(tokens) ==
    Compound("CommandGroup", tokens, ConstructEnd(tokens), FdRedirection \ {"n>|f"})

\* A keyword without its construct, as all there is of a command.
IsOrphan(tokens) ==
    /\ tokens[1] \in {"else", "elif", "fi"}
    /\ Len(tokens) > 1 => tokens[2] \in Separator \cup ChainOperator \cup {"&", ")", "}"}

\* The trees of a list of commands.  No token is consumed where a command
\* would begin with ), } or &: the loop does not end.
RECURSIVE Commands(_)
Listed(next) ==
    IF Bad(next.ast) THEN <<next.ast>> ELSE <<next.ast>> \o Commands(next.rest)
CommandsFrom(tokens) ==
    CASE tokens = <<>> -> <<>>
      [] Starts(tokens, ChainOperator \cup {";"}) -> <<Err>>
      [] Starts(tokens, {")", "}", "&"}) -> <<Hang>>
      [] Starts(tokens, {"("}) -> Listed(ParseSubshell(tokens))
      [] Starts(tokens, {"{"}) -> Listed(ParseGroup(tokens))
      [] OTHER -> IF IsOrphan(tokens) THEN Commands(SkipOne(Tail(tokens)))
                  ELSE Listed(NextOfList(Parse("list", tokens)))
Commands(input) == CommandsFrom(SkipBlank(input))

AsTree(asts) ==
    IF asts = <<>> THEN Err
    ELSE FirstBad(asts, IF Len(asts) = 1 THEN asts[1] ELSE Sequence(asts))
ParseCommands(tokens) == AsTree(Commands(tokens))

Parse(what, tokens) ==
    CASE what = "commands" -> ParseCommands(tokens)
      [] what = "list" -> parse_next_command(tokens)
      [] what = "command" -> ParseSingle(tokens)

\* parse: a function definition first, and what follows it.
Defined(definition, rest) ==
    IF Bad(definition) \/ rest = <<>> THEN definition
    ELSE AsTree(<<definition, Parse("commands", rest)>>)
Definition(tokens, end) ==
    IF end = 0 THEN Parse("commands", tokens)
    ELSE Defined(parse_function_definition(SubSeq(tokens, 1, end)), From(tokens, end + 1))
parse(tokens) ==
    Definition(tokens, IF IsFunctionHead(tokens) THEN FunctionEnd(tokens, 5, 0) ELSE 0)

=============================================================================
