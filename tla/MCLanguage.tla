----------------------------- MODULE MCLanguage -----------------------------
(***************************************************************************)
(* The script engine over the programs of a small grammar, each in several *)
(* layouts, over strings, comments and here-documents that contain what    *)
(* would be keywords elsewhere, and over lines of arbitrary operators.     *)
(***************************************************************************)
EXTENDS ScriptEngine, ShellGrammar

CONSTANTS
    Operators,              \* the tokens of arbitrary lines
    LongestLine,            \* their length
    Texts                   \* words within strings and here-documents

A == Simple(<<"a">>)
B == Simple(<<"b">>)
C == Simple(<<"c">>)
X == Simple(<<"x">>)
Exit == Simple(<<"exit">>)

Plain ==
    { A, Simple(<<"a", "b">>),
      Pipeline(<<Command(<<"a">>, <<>>, <<>>), Command(<<"b">>, <<>>, <<>>)>>),
      Pipeline(<<Command(<<"a">>, <<">", "n>f">>, <<>>)>>),
      Chain("And", A, B), Chain("Or", Chain("And", A, B), C),
      Negation(A), Chain("And", Negation(A), B), AsyncCommand(A) }
Lists == Plain \cup { Sequence(<<A, B>>), Sequence(<<AsyncCommand(A), B>>) }

\* The constructs around a body.
Around(body) ==
    { If(<<[condition |-> A, body |-> body]>>, <<>>),
      If(<<[condition |-> Chain("And", A, B), body |-> A]>>, <<body>>),
      If(<<[condition |-> A, body |-> A], [condition |-> B, body |-> body]>>, <<>>),
      Loop("While", A, body), Loop("Until", Negation(A), body),
      For(<<"a", "b">>, body),
      Case(<<[patterns |-> <<"a", "b">>, body |-> A], [patterns |-> <<"c">>, body |-> body]>>),
      FunctionDefinition(body), CommandGroup(body), Subshell(body) }

Compounds == UNION {Around(body) : body \in Lists}
Nested ==
    UNION {Around(body) : body \in
             UNION {{inner, Sequence(<<inner, B>>), Sequence(<<B, inner>>)} : inner \in Around(A)}}

\* Compound commands as parts of pipelines and lists.
Stage(ast) == Command(<<>>, <<>>, <<ast>>)
Combined ==
    UNION {{ Pipeline(<<Stage(g), Command(<<"b">>, <<>>, <<>>)>>),
             Pipeline(<<Command(<<"b">>, <<>>, <<>>), Stage(g)>>),
             Pipeline(<<Command(<<>>, <<">">>, <<g>>)>>),
             Pipeline(<<Command(<<>>, <<"n>f">>, <<g>>)>>),
             AsyncCommand(g), Negation(g) } : g \in {CommandGroup(A), Subshell(Sequence(<<A, B>>))}}
      \cup UNION {{ Chain("And", g, B), Chain("Or", B, g), Chain("Or", Chain("And", g, B), C) }
                    : g \in Around(A)}

Layouts == {<<FALSE, FALSE, FALSE>>, <<TRUE, FALSE, FALSE>>, <<TRUE, TRUE, FALSE>>}

-----------------------------------------------------------------------------
(* Which programs are executed as they are written *)

CompoundNodes == {"If", "While", "Until", "For", "Case", "FunctionDefinition",
                  "CommandGroup", "Subshell"}
IsCompound(ast) == ast.node \in CompoundNodes

\* The bodies of a construct.
BodiesOf(ast) ==
    CASE ast.node = "If" -> {ast.branches[n].body : n \in DOMAIN ast.branches} \cup ToSet(ast.else_branch)
      [] ast.node = "Case" -> {ast.cases[n].body : n \in DOMAIN ast.cases}
      [] OTHER -> {ast.body}
InnerOf(ast) == UNION {{inner \in ToSet(Parts(body)) : IsCompound(inner)} : body \in BodiesOf(ast)}
InnerNodes(ast) == {inner.node : inner \in InnerOf(ast)}

\* The construct a command begins with, if it does.
RECURSIVE Leading(_)
Leading(ast) ==
    CASE ast.node \in {"And", "Or"} -> Leading(ast.left)
      [] ast.node = "AsyncCommand" -> Leading(ast.command)
      [] ast.node = "Pipeline" /\ ast.commands[1].compound # <<>> -> ast.commands[1].compound
      [] IsCompound(ast) -> <<ast>>
      [] OTHER -> <<>>
\* A construct behind another word, where the engine looks for functions only.
RECURSIVE Behind(_)
Behind(ast) ==
    CASE ast.node \in {"And", "Or"} ->
           Behind(ast.left) \/ {n.node : n \in ToSet(Leading(ast.right))} \ {"FunctionDefinition"} # {}
      [] ast.node = "Negation" -> Leading(ast.command) # <<>>
      [] ast.node = "Pipeline" -> \E n \in 2..Len(ast.commands) : ast.commands[n].compound # <<>>
      [] OTHER -> FALSE

\* What the parser misreads.  An arm of a case has one list of commands, and
\* its ) ends a subshell; a case ends at the first esac; only inner for loops
\* count where a for ends; && and || after a group or subshell take all that
\* is on their right, and nothing may follow a function on its line.
Misparsed(ast) ==
    \/ \E c \in {ast} \cup InnerOf(ast) :
         /\ c.node = "Case"
         /\ \/ \E body \in BodiesOf(c) : body.node = "Sequence"
            \/ "Case" \in InnerNodes(c)
    \/ ast.node = "Subshell" /\ "Case" \in InnerNodes(ast)
    \/ ast.node = "For" /\ InnerNodes(ast) \cap {"While", "Until"} # {}
MisparsedChain(ast) ==
    LET first == Leading(ast)[1].node
    IN  /\ ast.node \in {"And", "Or"} /\ Leading(ast) # <<>>
        /\ \/ first = "FunctionDefinition"
           \/ first \in {"CommandGroup", "Subshell"} /\ ast.left.node = "And"

\* What the engine keeps together within a construct on several lines: the
\* same construct, and those whose end it does not take for the end of all.
KeepsInside(node) ==
    CASE node = "FunctionDefinition" -> CompoundNodes
      [] node \in {"CommandGroup"} -> {}
      [] node = "Subshell" -> {"Subshell"}
      [] node = "If" -> {"If", "Subshell"}
      [] node \in {"For", "While", "Until"} -> {node, "If", "Subshell"}
      [] node = "Case" -> {"If", "Subshell"}

Supported(ast, layout) ==
    LET first == Leading(ast)
    IN  /\ ~ MisparsedChain(ast)
        /\ first # <<>> =>
             /\ ~ Misparsed(first[1])
             \* A line with a keyword first and a function in it closes neither.
             /\ "FunctionDefinition" \in InnerNodes(first[1]) =>
                  first[1].node \in {"FunctionDefinition", "CommandGroup", "Subshell"}
             /\ layout[1] =>
                  /\ first[1].node # "CommandGroup"
                  /\ InnerNodes(first[1]) \subseteq KeepsInside(first[1].node)
        /\ layout[1] => ~ Behind(ast)

-----------------------------------------------------------------------------
(* Scripts, with what they say and whether they are executed so *)

Script(text, written, heredocs, supported) ==
    [text |-> text, written |-> written, heredocs |-> heredocs, supported |-> supported]

Grammatical ==
    {Script(WriteList(<<p, X>>, TRUE, l), <<p, X>>, <<>>, Supported(p, l)) :
       p \in Plain \cup Compounds \cup Nested \cup Combined, l \in Layouts}

\* Nothing is read after exit.
Exiting ==
    {Script(<<(<<"exit">>), (<<"x">>)>>, <<Exit>>, <<>>, TRUE),
     Script(<<(<<"a", ";", "exit">>), (<<"x">>)>>, <<A, Exit>>, <<>>, TRUE)}

Commented ==
    {Script(FlattenSeq([n \in DOMAIN s.text |-> <<(<<"#", "if">>), <<>>, s.text[n]>>]),
            s.written, s.heredocs, s.supported) :
       s \in {Script(WriteList(<<p, X>>, TRUE, l), <<p, X>>, <<>>, Supported(p, l)) :
                p \in Around(A), l \in Layouts}}
      \cup {Script(<<(<<"#!", "b">>), (<<"x">>)>>, <<X>>, <<>>, TRUE)}

\* A string over three lines: its last line may not look like a beginning.
Strings ==
    {Script(<<(<<"a", "\"", s>>), <<t>>, <<u, "\"">>, (<<"x">>)>>,
            <<Simple(<<"a", "b">>), X>>, <<>>,
            u \notin Counted \cup {"case", "{", "(", "#"}) : s \in Texts, t \in Texts \ {"#!"}, u \in Texts \ {"#!"}}

\* A here-document, at the top level or within a construct.
HereDocs ==
    {Script(<<(<<"a", "<<">>), <<t>>, <<"EOF">>, (<<"x">>)>>,
            <<Pipeline(<<Command(<<"a">>, <<"<<">>, <<>>)>>), X>>, <<(<<t>>)>>, TRUE) : t \in Texts}

\* A command continued on the next line: the lexer does not join them.
Continued ==
    {Script(<<(<<"a", "\\">>), (<<"b">>), (<<"x">>)>>, <<Simple(<<"a", "b">>), X>>, <<>>, FALSE)}

Lines == {Script(<<l>>, <<>>, <<>>, FALSE) :
            l \in UNION {[1..n -> Operators] : n \in 1..LongestLine}}

VARIABLE script
MCInit ==
    /\ script \in Grammatical \cup Exiting \cup Commented \cup Strings \cup HereDocs
                    \cup Continued \cup Lines
    /\ Start(script.text)
MCNext == Next /\ UNCHANGED script
MCSpec == MCInit /\ [][MCNext]_<<vars, script>>

-----------------------------------------------------------------------------
(* Properties *)

\* A compound command alone in a pipeline is that command.
RECURSIVE Meaning(_)
Meaning(ast) ==
    LET all(asts) == [n \in DOMAIN asts |-> Meaning(asts[n])]
    IN  CASE ast.node = "Pipeline" ->
               IF /\ Len(ast.commands) = 1 /\ ast.commands[1].compound # <<>>
                  /\ ast.commands[1].args = <<>> /\ ast.commands[1].redirections = <<>>
               THEN Meaning(ast.commands[1].compound[1])
               ELSE [ast EXCEPT !.commands = [n \in DOMAIN @ |->
                        [@[n] EXCEPT !.compound = all(@)]]]
          [] ast.node = "Sequence" -> [ast EXCEPT !.asts = all(@)]
          [] ast.node \in {"And", "Or"} ->
               [ast EXCEPT !.left = Meaning(@), !.right = Meaning(@)]
          [] ast.node \in {"Negation", "AsyncCommand"} -> [ast EXCEPT !.command = Meaning(@)]
          [] ast.node \in {"Subshell", "CommandGroup", "FunctionDefinition", "For"} ->
               [ast EXCEPT !.body = Meaning(@)]
          [] ast.node \in {"While", "Until"} ->
               [ast EXCEPT !.condition = Meaning(@), !.body = Meaning(@)]
          [] ast.node = "If" ->
               [ast EXCEPT !.branches = [n \in DOMAIN @ |->
                                           [condition |-> Meaning(@[n].condition),
                                            body |-> Meaning(@[n].body)]],
                           !.else_branch = all(@)]
          [] ast.node = "Case" ->
               [ast EXCEPT !.cases = [n \in DOMAIN @ |-> [@[n] EXCEPT !.body = Meaning(@)]]]
          [] OTHER -> ast

Done == ~ executing /\ (i > Len(lines) \/ exit_requested)
Commanded == FlattenSeq([n \in DOMAIN ran |-> Parts(Meaning(ran[n].ast))])
HereDocsRead == FlattenSeq([n \in DOMAIN ran |-> ran[n].heredoc])

\* The shell executes exactly the commands a script says, each with the tree
\* it was written for, whatever lines the script is laid out on, whatever its
\* strings, comments and here-documents contain, and however the constructs
\* nest, but for the constructs and layouts that Supported lists; and each
\* of those it gets wrong.
RunsAsWritten ==
    Done /\ script \notin Lines =>
        (script.supported <=> /\ Commanded = [n \in DOMAIN script.written |-> Meaning(script.written[n])]
                              /\ HereDocsRead = script.heredocs
                              /\ current_block = <<>>)

\* The parser comes to an end on every line in which parentheses and braces
\* match and no & stands where a command should.
RECURSIVE Matched(_, _)
Matched(tokens, open) ==
    IF tokens = <<>> THEN open = <<>>
    ELSE CASE tokens[1] \in {"(", "{"} -> Matched(Tail(tokens), <<tokens[1]>> \o open)
           [] tokens[1] \in {")", "}"} ->
                /\ open # <<>>
                /\ open[1] = (IF tokens[1] = ")" THEN "(" ELSE "{")
                /\ Matched(Tail(tokens), Tail(open))
           [] OTHER -> Matched(Tail(tokens), open)
StrayAmpersand(tokens) ==
    \E n \in DOMAIN tokens :
        /\ tokens[n] = "&"
        /\ \/ n = 1
           \/ tokens[n - 1] \in {";", "nl", "&", "(", "{"}
           \/ tokens[n - 1] = "}" /\ IsFunctionHead(tokens)
OnlyStraysHang ==
    script \in Lines =>
        \A n \in DOMAIN ran :
            ran[n].ast = Hang => ~ Matched(ran[n].tokens, <<>>) \/ StrayAmpersand(ran[n].tokens)

=============================================================================
