---------------------------- MODULE ScriptEngine ----------------------------
(***************************************************************************)
(* The script engine (src/src/script_engine.rs, execute_script): a script  *)
(* is read line by line, lines are collected into a block while a          *)
(* construct, a function, a group, a subshell or a string is open, and     *)
(* each complete block is parsed and executed.                             *)
(*                                                                         *)
(* A line is a sequence of the parser's tokens, and of: a double quote,    *)
(* a quote of the other kind being treated alike; "#" and "#!" for what    *)
(* follows them; "EOF", the delimiter of every here-document.  Signals and *)
(* the shutdown flag, looked at between two lines, belong to MainLoop.     *)
(***************************************************************************)
EXTENDS Parser

VARIABLES
    lines,                  \* the script
    i,                      \* the number of the next line
    current_block,          \* the tokens collected so far
    in_quote,               \* in_double_quote or in_single_quote
    in_block,               \* the kinds of blocks that are open
    depth,                  \* if_depth, for_depth, ..., brace_depth, paren_depth
    executing,              \* current_block is complete and given to execute_line
    pending_heredoc_content,
    exit_requested,
    ran                     \* what has been executed: trees with their here-document

vars == <<lines, i, current_block, in_quote, in_block, depth, executing,
          pending_heredoc_content, exit_requested, ran>>

Counted == {"if", "for", "while", "until"}
BlockKinds == Counted \cup {"case", "function", "group", "subshell"}
MAX_PAREN_DEPTH == 100

Start(script) ==
    /\ lines = script
    /\ i = 1
    /\ current_block = <<>>
    /\ in_quote = FALSE
    /\ in_block = {}
    /\ depth = [k \in Counted \cup {"brace", "paren"} |-> 0]
    /\ executing = FALSE
    /\ pending_heredoc_content = <<>>
    /\ exit_requested = FALSE
    /\ ran = <<>>

-----------------------------------------------------------------------------
(* What the engine looks for in a line *)

Count(line, t) == Cardinality({j \in DOMAIN line : line[j] = t})
Braces(line) == Count(line, "{") - Count(line, "}")

\* The tokens of a line outside quotes and before a comment, and whether a
\* string is open at its end.
RECURSIVE Scanned(_, _)
Scanned(line, quoted) ==
    IF line = <<>> \/ (~ quoted /\ Starts(line, {"#", "#!"}))
    THEN [outside |-> <<>>, open |-> quoted]
    ELSE IF line[1] = "\""
    THEN Scanned(Tail(line), ~ quoted)
    ELSE LET more == Scanned(Tail(line), quoted)
         IN  IF quoted THEN more ELSE [more EXCEPT !.outside = <<line[1]>> \o @]

\* A line is searched as if no string were open at its start.
contains_keyword(line, keyword) == Contains(Scanned(line, FALSE).outside, keyword)
starts_with_keyword(line, keyword) == Starts(line, {keyword})

\* The word () {, anywhere in the line, or () at its end.
HasFunctionHead(line) ==
    \E j \in 1..Len(line) - 2 : SubSeq(line, j, j + 2) = <<"(", ")", "{">>
EndsWithParens(line) ==
    Len(line) >= 2 /\ SubSeq(line, Len(line) - 1, Len(line)) = <<"(", ")">>

\* The depth after the parentheses of a line, kept within its bounds.
RECURSIVE ParenDepth(_, _)
ParenDepth(tokens, d) ==
    IF tokens = <<>> THEN d
    ELSE ParenDepth(Tail(tokens),
                    CASE tokens[1] = "(" /\ d < MAX_PAREN_DEPTH -> d + 1
                      [] tokens[1] = ")" /\ d > 0 -> d - 1
                      [] OTHER -> d)

\* What the lexer makes of a block: a string is one word.
RECURSIVE lex(_)
lex(block) ==
    IF ~ Contains(block, "\"") THEN block
    ELSE LET before == Before(block, {"\""})
             string == Before(From(block, Len(before) + 2), {"\""})
         IN  before \o <<"b">> \o lex(From(block, Len(before) + Len(string) + 3))

-----------------------------------------------------------------------------
(* The line at hand *)

line == lines[i]
quote_after == Scanned(line, in_quote).open
keywords_active == ~ quote_after

\* Keywords at its start are counted, but within a function.
Opened ==
    LET blocks == [in |-> in_block, depth |-> depth]
        kind == line[1]
    IN  IF ~ keywords_active \/ "function" \in in_block \/ line = <<>> THEN blocks
        ELSE CASE kind \in Counted ->
                    [in |-> in_block \cup {kind}, depth |-> [depth EXCEPT ![kind] = @ + 1]]
               [] kind = "case" -> [blocks EXCEPT !.in = @ \cup {"case"}]
               [] kind = "{" ->
                    [in |-> in_block \cup {"group"},
                     depth |-> [depth EXCEPT !.brace = @ + Braces(line)]]
               [] OTHER -> blocks

\* Then the braces of a function or group are, be they quoted or not: those
\* of a group's first line for the second time.
Braced ==
    LET opened == Opened
        head == /\ keywords_active
                /\ HasFunctionHead(line) \/ (EndsWithParens(line) /\ "function" \notin opened.in)
    IN  [in |-> IF head THEN opened.in \cup {"function"} ELSE opened.in,
         depth |-> IF head \/ opened.in \cap {"function", "group"} # {}
                   THEN [opened.depth EXCEPT !.brace = @ + Braces(line)]
                   ELSE opened.depth]

\* Then the parentheses, from a line on that begins with one.
Tracked ==
    LET braced == Braced
        in == IF Starts(line, {"("}) /\ braced.depth.paren = 0
              THEN braced.in \cup {"subshell"} ELSE braced.in
    IN  IF ~ keywords_active \/ "function" \in braced.in THEN braced
        ELSE [in |-> in,
              depth |-> IF "subshell" \in in \/ braced.depth.paren > 0
                        THEN [braced.depth EXCEPT !.paren =
                                ParenDepth(Scanned(line, FALSE).outside, @)]
                        ELSE braced.depth]

block == IF current_block = <<>> THEN line ELSE current_block \o <<"nl">> \o line

\* Which open block the line closes: the first in this order.
Order == <<"subshell", "braces", "if", "for", "while", "until", "case", "none">>
Closes(kind, open) ==
    CASE kind = "subshell" -> "subshell" \in open.in /\ open.depth.paren = 0
      [] kind = "braces" -> open.in \cap {"function", "group"} # {} /\ open.depth.brace = 0
      [] kind = "if" -> "if" \in open.in /\ contains_keyword(line, "fi")
      [] kind \in LoopStart -> kind \in open.in /\ contains_keyword(line, "done")
      [] kind = "case" -> "case" \in open.in /\ contains_keyword(line, "esac")
      [] kind = "none" -> TRUE
Closed(open) == Order[SelectInSeq(Order, LAMBDA kind : Closes(kind, open))]

-----------------------------------------------------------------------------
(* Execution of a block *)

\* The command exit asks for the end of the script.
Exits(ast) ==
    \/ ast = Simple(<<"exit">>)
    \/ ast.node = "Sequence" /\ Contains(ast.asts, Simple(<<"exit">>))

Executed(tokens, ast) ==
    /\ ran' = Append(ran, [tokens |-> tokens, ast |-> ast, heredoc |-> pending_heredoc_content])
    /\ exit_requested' = Exits(ast)

execute_line ==
    /\ executing
    /\ Executed(lex(current_block), parse(lex(current_block)))
    /\ current_block' = <<>>
    /\ pending_heredoc_content' = <<>>
    /\ executing' = FALSE
    /\ UNCHANGED <<lines, i, in_quote, in_block, depth>>

\* The line ends a block, or is kept for it.
Complete(heredoc) ==
    /\ current_block' = block
    /\ executing' = TRUE
    /\ pending_heredoc_content' = heredoc
    /\ UNCHANGED <<ran, exit_requested>>
Keep ==
    /\ current_block' = block
    /\ UNCHANGED <<executing, pending_heredoc_content, ran, exit_requested>>

-----------------------------------------------------------------------------
(* One action per way to deal with a line *)

Reading == i <= Len(lines) /\ ~ exit_requested /\ ~ executing
Shebang == Starts(line, {"#!"})
Skipped == Shebang \/ (keywords_active /\ (line = <<>> \/ Starts(line, {"#"})))

Go(open, next) ==
    /\ i' = next
    /\ in_quote' = quote_after
    /\ in_block' = open.in
    /\ depth' = open.depth
    /\ UNCHANGED lines

\* Empty lines and comments outside a string, and shebangs anywhere.
SkipLine ==
    /\ i' = i + 1
    /\ in_quote' = IF Shebang THEN in_quote ELSE quote_after
    /\ UNCHANGED <<lines, current_block, in_block, depth, executing,
                   pending_heredoc_content, exit_requested, ran>>

\* A string is open at the end of the line.
ReadString(open) == ~ keywords_active /\ Go(open, i + 1) /\ Keep

\* A subshell, or an if, is executed unless another block is open around it.
CloseSubshell(open) ==
    LET in == open.in \ {"subshell"}
    IN  /\ Go([open EXCEPT !.in = in], i + 1)
        /\ IF in = {} THEN Complete(<<>>) ELSE Keep

CloseIf(open) ==
    LET left == open.depth["if"] - 1
        in == IF left = 0 THEN open.in \ {"if"} ELSE open.in
    IN  /\ Go([in |-> in, depth |-> [open.depth EXCEPT !["if"] = left]], i + 1)
        /\ IF left = 0 /\ in \subseteq {"subshell"} THEN Complete(<<>>) ELSE Keep

\* A function or group is executed whatever is open around it.
CloseBraces(open) ==
    /\ Go([open EXCEPT !.in = @ \ {"function", "group"}], i + 1)
    /\ Complete(<<>>)

\* So is a loop, or a case.
CloseLoop(open, kind) ==
    LET left == open.depth[kind] - 1
    IN  /\ Go([in |-> IF left = 0 THEN open.in \ {kind} ELSE open.in,
               depth |-> [open.depth EXCEPT ![kind] = left]], i + 1)
        /\ IF left = 0 THEN Complete(<<>>) ELSE Keep

CloseCase(open) ==
    /\ Go([open EXCEPT !.in = @ \ {"case"}], i + 1)
    /\ Complete(<<>>)

ReadInside(open) == open.in # {} /\ Go(open, i + 1) /\ Keep

\* Outside every block a here-document is read up to its delimiter.
ReadHereDoc(open) ==
    LET rest == From(lines, i + 1)
        length == FirstIndex(rest, LAMBDA l : l = <<"EOF">>) - 1
    IN  /\ open.in = {} /\ Contains(lex(block), "<<")
        /\ Go(open, i + length + 2)
        /\ Complete(SubSeq(rest, 1, length))

\* A line that ends with \ is continued by the next.
ReadPlain(open) ==
    /\ open.in = {} /\ ~ Contains(lex(block), "<<")
    /\ Go(open, i + 1)
    /\ IF Last(line) = "\\" THEN Keep ELSE Complete(<<>>)

ReadLine(open) ==
    LET kind == Closed(open)
    IN  /\ keywords_active
        /\ \/ kind = "subshell" /\ CloseSubshell(open)
           \/ kind = "braces" /\ CloseBraces(open)
           \/ kind = "if" /\ CloseIf(open)
           \/ kind \in LoopStart /\ CloseLoop(open, kind)
           \/ kind = "case" /\ CloseCase(open)
           \/ kind = "none" /\ (ReadInside(open) \/ ReadHereDoc(open) \/ ReadPlain(open))

Next ==
    \/ execute_line
    \/ /\ Reading
       /\ \/ Skipped /\ SkipLine
          \/ ~ Skipped /\ LET open == Tracked IN ReadString(open) \/ ReadLine(open)

=============================================================================
