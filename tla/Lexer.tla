------------------------------- MODULE Lexer -------------------------------
(***************************************************************************)
(* The lexer, character by character (src/src/lexer/mod.rs): one action    *)
(* for each arm of its match, which consumes at least the character it     *)
(* looks at.  When the line is used up, an alias at its start is replaced  *)
(* by its value, which is lexed in turn.                                   *)
(*                                                                         *)
(* A token is a tuple: <<"Word", w>>, <<"Keyword", w>>, an operator such   *)
(* as <<"|">>, or a redirection such as <<">", 2, file>>.  "nl" is the     *)
(* newline, "bq" a backquote, and " " is any blank.                        *)
(***************************************************************************)
EXTENDS ParameterExpansion

CONSTANTS
    aliases,                \* the value of every alias
    HOME, PWD, OLDPWD,      \* what ~, ~+ and ~- stand for
    UserHomes,              \* the home directories that exist, by user
    nounset                 \* the option -u

\* The table of aliases is finite, and an alias stands for a text, as a line is one.
ASSUME AliasesAssumption ==
    /\ IsFiniteSet(DOMAIN aliases)
    /\ \A name \in DOMAIN aliases : aliases[name] \in Seq(STRING)

VARIABLES
    chars,                  \* what is left of the line
    current,                \* the word so far
    tokens,
    in_double_quote, in_single_quote,
    just_closed_quote,      \* a quote was closed and the word was empty
    was_quoted,             \* part of the word was quoted
    variables,              \* what get_var knows when a name is expanded
    expanded,               \* the aliases being expanded
    after_alias,            \* the tokens that follow the alias
    phase                   \* "lexing", "lexed", "aliased" or "error"

quotes == <<in_double_quote, in_single_quote, just_closed_quote, was_quoted>>
lexer_vars == <<chars, current, tokens, quotes, variables, expanded, after_alias, phase>>

-----------------------------------------------------------------------------
(* Looking ahead *)

Peek(i) == IF i <= Len(chars) THEN chars[i] ELSE "end"
Quoted == in_double_quote \/ in_single_quote

skip_whitespace(s) == First({i \in 1..Len(s) : s[i] # " "}, s) - 1

\* The quote that is open after a text, "" if none is.
OpenQuote(s) ==
    FoldLeft(LAMBDA q, c : IF q = "" /\ c \in Quotes THEN c ELSE IF q = c THEN "" ELSE q, "", s)
Outside(s, i) == OpenQuote(SubSeq(s, 1, i - 1)) = ""
Unquote(s) ==
    FoldLeft(LAMBDA a, c : IF a.quote = "" /\ c \in Quotes THEN [a EXCEPT !.quote = c]
                           ELSE IF a.quote = c THEN [a EXCEPT !.quote = ""]
                           ELSE [a EXCEPT !.text = Append(@, c)],
             [quote |-> "", text |-> <<>>], s).text

\* The text up to the first of some characters outside quotes.
UpTo(s, stops) == SubSeq(s, 1, First({i \in 1..Len(s) : s[i] \in stops /\ Outside(s, i)}, s) - 1)

\* How deep the brackets outside quotes are at the end of a text.
DepthOutside(s, open, close) ==
    Depth(FoldLeft(LAMBDA t, i : IF Outside(s, i) THEN Append(t, s[i]) ELSE t, <<>>, [i \in 1..Len(s) |-> i]),
          open, close)

\* Where the bracket that is open before s is closed.
collect_until_closing_brace(s) == First({i \in 1..Len(s) : s[i] = "}"}, s)
collect_with_paren_depth(s) ==
    First({i \in 1..Len(s) : DepthOutside(SubSeq(s, 1, i), "(", ")") = -1}, s)

\* The name after a $: one special character, or letters and digits.
parse_variable_name(s) ==
    IF s # <<>> /\ (s[1] \in {"?", "$", "#", "@", "*", "!"} \/ IsDigit(s[1])) THEN SubSeq(s, 1, 1)
    ELSE SubSeq(s, 1, First({i \in 1..Len(s) : ~IsAlphanumeric(s[i])}, s) - 1)

-----------------------------------------------------------------------------
(* ${...} *)

Literal(content) == <<"$", "{">> \o content \o <<"}">>
IsLength(content) == Len(content) > 1 /\ content[1] = "#"
Parsed(content) == IF content = <<>> THEN Err ELSE parse_parameter_expansion(content)

\* The value of a ${...} that parses; ${#name} is a length.
Expanded(content) ==
    IF IsLength(content) THEN Some(ToChars(Len(Value(variables, Drop(content, 1)))))
    ELSE expand_parameter(Parsed(content).value, variables, nounset)

\* A pass over a text that replaces what refers to a variable; where it
\* refers to none the text stays.
Reference(s) ==
    IF Len(s) > 1 /\ s[2] = "{"
    THEN LET content == SubSeq(Drop(s, 2), 1, collect_until_closing_brace(Drop(s, 2)) - 1)
         IN IF (IsLength(content) \/ Parsed(content).ok) /\ Expanded(content).ok
            THEN Expanded(content).value
            ELSE Literal(content)
    ELSE LET name == parse_variable_name(Drop(s, 1))
         IN IF name \in DOMAIN variables THEN variables[name] ELSE <<"$">> \o name
ReferenceLength(s) ==
    IF Len(s) > 1 /\ s[2] = "{" THEN 2 + collect_until_closing_brace(Drop(s, 2))
    ELSE 1 + Len(parse_variable_name(Drop(s, 1)))

Pass(s) ==
    LET p[i \in 1..(Len(s) + 2)] ==
          IF i > Len(s) THEN <<>>
          ELSE IF s[i] = "$" THEN Reference(Drop(s, i - 1)) \o p[i + ReferenceLength(Drop(s, i - 1))]
          ELSE <<s[i]>> \o p[i + 1]
    IN p[1]

\* Twice, so that a $ in a value is expanded as well.
expand_variables_in_command(s) ==
    IF \E i \in 1..Len(s) : s[i] = "bq" \/ (s[i] = "$" /\ i < Len(s) /\ s[i + 1] = "(") THEN s
    ELSE Pass(Pass(s))

-----------------------------------------------------------------------------
(* The parts of a step *)

Consume(n) == chars' = Drop(chars, n)
Same == UNCHANGED <<variables, expanded, after_alias, phase>>
SameWord == UNCHANGED <<current, tokens>>
SameQuotes == UNCHANGED quotes

\* An empty word that was written as a pair of quotes.
EmptyQuoted == just_closed_quote /\ current = <<>>

\* Slip: a quoted keyword is a keyword.
AsTokenUnquoted(word, quoted) == <<IF is_keyword(word) THEN "Keyword" ELSE "Word", word>>
AsToken(word, quoted) == IF ~quoted /\ is_keyword(word) THEN <<"Keyword", word>> ELSE <<"Word", word>>
flush_current_token(word, quoted) ==
    IF word = <<>> THEN tokens ELSE Append(tokens, AsToken(word, quoted))

\* A character that belongs to the word.
Push(text) == current' = current \o text /\ UNCHANGED tokens

\* An operator ends the word, which may become a keyword although it was
\* quoted, and the flags of the quotes are left for the next word.
Operator(token, n) ==
    /\ tokens' = Append(flush_current_token(current, FALSE), token)
    /\ current' = <<>>
    /\ Consume(n)
    /\ SameQuotes /\ Same

\* An operator of n characters and the blanks after it.
SpacedOperator(token, n) == Operator(token, n + skip_whitespace(Drop(chars, n)))
-----------------------------------------------------------------------------
(* Blanks and quotes *)

\* A blank or a newline ends the word.
Separator ==
    /\ chars[1] \in {" ", "nl"} /\ ~Quoted
    /\ LET word == IF EmptyQuoted THEN Append(tokens, <<"Word", <<>>>>)
                   ELSE flush_current_token(current, was_quoted)
       IN tokens' = IF chars[1] = "nl" THEN Append(word, <<"nl">>) ELSE word
    /\ current' = <<>>
    /\ just_closed_quote' = (just_closed_quote /\ current # <<>>)
    /\ was_quoted' = FALSE
    /\ Consume(1)
    /\ UNCHANGED <<in_double_quote, in_single_quote>> /\ Same

EscapedQuote == in_double_quote /\ current # <<>> /\ Last(current) = "\\"

\* A double quote, or one that a backslash before it makes part of the word.
DoubleQuote ==
    /\ chars[1] = "\"" /\ ~in_single_quote
    /\ Consume(1)
    /\ IF EscapedQuote
       THEN /\ current' = Append(Front(current), "\"")
            /\ just_closed_quote' = FALSE
            /\ UNCHANGED <<in_double_quote, was_quoted>>
       ELSE /\ in_double_quote' = ~in_double_quote
            /\ just_closed_quote' = (in_double_quote /\ current = <<>>)
            /\ was_quoted' = (was_quoted \/ in_double_quote)
            /\ UNCHANGED current
    /\ UNCHANGED <<in_single_quote, tokens>> /\ Same

\* A single quote; between double quotes it is dropped.
SingleQuote ==
    /\ chars[1] = "'"
    /\ Consume(1)
    /\ IF in_double_quote THEN UNCHANGED <<in_single_quote, just_closed_quote, was_quoted>>
       ELSE /\ in_single_quote' = ~in_single_quote
            /\ just_closed_quote' = (in_single_quote /\ current = <<>>)
            /\ was_quoted' = (was_quoted \/ in_single_quote)
    /\ UNCHANGED in_double_quote /\ SameWord /\ Same

\* A backslash between double quotes.
Backslash ==
    /\ chars[1] = "\\" /\ in_double_quote
    /\ IF Peek(2) = "end" THEN Push(<<"\\">>) /\ Consume(1)
       ELSE /\ Consume(2)
            /\ Push(IF Peek(2) \in {"$", "bq", "\"", "\\", "nl"} THEN <<Peek(2)>> ELSE <<"\\", Peek(2)>>)
    /\ SameQuotes /\ Same

-----------------------------------------------------------------------------
(* What starts with a $ *)

Dollar == chars[1] = "$" /\ ~in_single_quote

SameFlags == just_closed_quote' = FALSE /\ UNCHANGED <<in_double_quote, in_single_quote, was_quoted>>

\* The word before a ${...} that ends it.
EndedWord ==
    IF current = <<>> THEN tokens
    ELSE Append(tokens, IF is_keyword(current) THEN <<"Keyword", current>>
                        ELSE <<"Word", expand_variables_in_command(current)>>)

\* A ${...} that cannot be expanded becomes one word, or two at its first blank.
LiteralWords(content) ==
    LET n == First({i \in 1..Len(content) : content[i] = " "}, content)
    IN IF n > Len(content) THEN <<<<"Word", Literal(content)>>>>
       ELSE <<<<"Word", Literal(SubSeq(content, 1, n - 1))>>, <<"Word", Append(Drop(content, n), "}")>>>>

\* ${...} is expanded while the line is lexed.  An empty value outside quotes
\* is a word of its own and ends the word before it.
Parameter ==
    /\ Dollar /\ Peek(2) = "{"
    /\ LET n == collect_until_closing_brace(Drop(chars, 2))
           content == SubSeq(Drop(chars, 2), 1, n - 1)
       IN /\ Consume(2 + n)
          /\ IF ~IsLength(content) /\ ~Parsed(content).ok THEN Push(Literal(content))
             ELSE LET result == Expanded(content)
                  IN IF result.ok /\ (result.value # <<>> \/ in_double_quote) THEN Push(result.value)
                     ELSE /\ current' = <<>>
                          /\ tokens' = EndedWord \o IF result.ok THEN <<<<"Word", <<>>>>>>
                                                    ELSE LiteralWords(content)
    /\ SameFlags /\ Same

\* $((...)) and $(...) are kept for the executor; the second closing
\* parenthesis of the first may be missing, and that of the second is added.
CommandSubstitution ==
    /\ Dollar /\ Peek(2) = "("
    /\ LET k == IF Peek(3) = "(" THEN 3 ELSE 2
           n == collect_with_paren_depth(Drop(chars, k))
           body == SubSeq(Drop(chars, k), 1, n - 1)
           twice == Peek(k + n + 1) = ")"
       IN IF k = 2 THEN Push(<<"$", "(">> \o body \o <<")">>) /\ Consume(k + n)
          ELSE IF twice THEN Push(<<"$", "(", "(">> \o body \o <<")", ")">>) /\ Consume(k + n + 1)
          ELSE Push(<<"$", "(", "(">> \o body) /\ Consume(k + n)
    /\ SameFlags /\ Same

\* Slip: the $ is not counted in what is consumed.
VariableKeepsDollar ==
    /\ Dollar /\ Peek(2) \notin {"{", "("}
    /\ LET name == parse_variable_name(Drop(chars, 1))
       IN Push(<<"$">> \o name) /\ Consume(Len(name))
    /\ SameFlags /\ Same

\* $name is kept for the executor.
Variable ==
    /\ Dollar /\ Peek(2) \notin {"{", "("}
    /\ LET name == parse_variable_name(Drop(chars, 1))
       IN Push(<<"$">> \o name) /\ Consume(1 + Len(name))
    /\ SameFlags /\ Same

-----------------------------------------------------------------------------
(* Operators *)

\* An operator that is written as one character or twice that character.
Doubled(c) == IF Peek(2) = c THEN 2 ELSE 1

Pipe ==
    /\ chars[1] = "|" /\ ~Quoted
    /\ SpacedOperator(<<IF Peek(2) = "|" THEN "||" ELSE "|">>, Doubled("|"))

Ampersand ==
    /\ chars[1] = "&" /\ ~Quoted
    /\ SpacedOperator(<<IF Peek(2) = "&" THEN "&&" ELSE "&">>, Doubled("&"))

\* The tokens after which ! negates a command; | and & are not among them.
StartsCommand(token) ==
    token[1] \in {"nl", ";", "&&", "||", "(", "{"} \/ token = <<"Keyword", <<"if">>>>

Bang ==
    /\ chars[1] = "!" /\ ~Quoted
    /\ IF current = <<>> /\ (tokens = <<>> \/ StartsCommand(Last(tokens)))
       THEN SpacedOperator(<<"!">>, 1)
       ELSE Push(<<"!">>) /\ Consume(1) /\ SameFlags /\ Same

Bracket ==
    /\ chars[1] \in {")", "}", "("} /\ ~Quoted
    /\ Operator(<<chars[1]>>, 1)

\* A semicolon ends the word, an empty one too.
Semicolon ==
    /\ chars[1] = ";" /\ ~Quoted
    /\ tokens' = Append(IF EmptyQuoted THEN Append(tokens, <<"Word", <<>>>>)
                        ELSE flush_current_token(current, FALSE),
                        <<IF Peek(2) = ";" THEN ";;" ELSE ";">>)
    /\ current' = <<>>
    /\ just_closed_quote' = (just_closed_quote /\ current # <<>>)
    /\ was_quoted' = (was_quoted /\ ~EmptyQuoted)
    /\ Consume(Doubled(";"))
    /\ UNCHANGED <<in_double_quote, in_single_quote>> /\ Same

\* Whether a text has a comma or two dots outside its quotes.
HasBraceExpansion(s) ==
    \E i \in 1..Len(s) :
       /\ Outside(s, i)
       /\ s[i] = "," \/ (s[i] = "." /\ i < Len(s) /\ s[i + 1] = ".")

\* An opening brace is part of the word when it starts a brace expansion.
\* Where that ends is found with regard to quotes, and what is consumed
\* without.
OpenBrace ==
    /\ chars[1] = "{" /\ ~Quoted
    /\ LET rest == Drop(chars, 1)
           n == First({i \in 1..Len(rest) : DepthOutside(SubSeq(rest, 1, i), "{", "}") = -1}, rest)
           content == SubSeq(rest, 1, n - 1)
           consumed == First({i \in 1..Len(rest) : Depth(SubSeq(rest, 1, i), "{", "}") = -1}, rest)
       IN IF n <= Len(rest) /\ HasBraceExpansion(content)
          THEN Push(<<"{">> \o content \o <<"}">>) /\ Consume(1 + consumed) /\ SameQuotes /\ Same
          ELSE Operator(<<"{">>, 1)

\* A backquote ends the word before it, between quotes too.
Backquote ==
    /\ chars[1] = "bq"
    /\ LET rest == Drop(chars, 1)
           n == First({i \in 1..Len(rest) : rest[i] = "bq"}, rest)
       IN current' = <<"bq">> \o SubSeq(rest, 1, n - 1) \o <<"bq">> /\ Consume(1 + n)
    /\ tokens' = flush_current_token(current, FALSE)
    /\ SameQuotes /\ Same

-----------------------------------------------------------------------------
(* Redirections *)

FilenameEnd == {" ", "nl", ";", "|", "&", ">", "<"}

\* The file descriptor is a digit at the end of the word, whatever the rest
\* of that word is.
HasFd == current # <<>> /\ IsDigit(Last(current))
Fd(default) == IF HasFd THEN DigitValue(Last(current)) ELSE default
\* Slip: the digit of the descriptor stays in the word.
WordBeforeWithFd == flush_current_token(current, FALSE)
WordBefore == flush_current_token(IF HasFd THEN Front(current) ELSE current, FALSE)

RedirectionOperator ==
    CASE chars[1] = ">" /\ Peek(2) \in {"|", "&", ">"} -> chars[1] \o Peek(2)
      [] chars[1] = ">" /\ Peek(2) \notin {"|", "&", ">"} -> ">"
      [] chars[1] = "<" /\ Peek(2) = "<" /\ Peek(3) = "<" -> "<<<"
      [] chars[1] = "<" /\ Peek(2) = "<" /\ Peek(3) # "<" -> "<<"
      [] chars[1] = "<" /\ Peek(2) \in {"&", ">"} -> chars[1] \o Peek(2)
      [] chars[1] = "<" /\ Peek(2) \notin {"<", "&", ">"} -> "<"

OperatorLength(op) == IF op = "<<<" THEN 3 ELSE IF op \in {">", "<"} THEN 1 ELSE 2

AtRedirection == chars[1] \in {">", "<"} /\ ~Quoted

\* The line is refused.
Fail ==
    /\ phase' = "error" /\ chars' = <<>>
    /\ SameWord /\ SameQuotes /\ UNCHANGED <<variables, expanded, after_alias>>

Redirected(redirection, n) ==
    /\ tokens' = WordBefore \o redirection
    /\ current' = <<>>
    /\ Consume(n)
    /\ SameQuotes /\ Same

\* A redirection and the word that belongs to it, up to one of the stops
\* outside quotes; without such a word the line is refused.
WithWord(op, stops, Redirection(_)) ==
    LET k == OperatorLength(op) + skip_whitespace(Drop(chars, OperatorLength(op)))
        text == UpTo(Drop(chars, k), stops)
    IN IF Unquote(text) = <<>> THEN Fail ELSE Redirected(Redirection(text), k + Len(text))

\* A file; <> always has a descriptor, and the others may stand before the
\* file as a token of their own.
RedirectFile ==
    /\ AtRedirection /\ RedirectionOperator \in {">", ">|", ">>", "<", "<>"}
    /\ WithWord(RedirectionOperator, FilenameEnd,
                LAMBDA text : IF HasFd \/ RedirectionOperator = "<>"
                              THEN <<<<RedirectionOperator, Fd(0), Unquote(text)>>>>
                              ELSE <<<<RedirectionOperator>>, <<"Word", Unquote(text)>>>>)

\* A here-string or a here-document, whose delimiter may be quoted.
RedirectHere ==
    /\ AtRedirection /\ RedirectionOperator \in {"<<", "<<<"}
    /\ WithWord(RedirectionOperator, {" ", "nl"},
                LAMBDA text : IF RedirectionOperator = "<<<" THEN <<<<"<<<", Unquote(text)>>>>
                              ELSE <<<<"<<", Unquote(text), \E i \in 1..Len(text) : text[i] \in Quotes>>>>)

\* Another descriptor's number, - to close, or neither.
Target(source, text) ==
    IF text = <<"-">> THEN Some(<<<<"close", source>>>>)
    ELSE IF IsNumber(text) THEN Some(<<<<"dup", source, SignedNumberOf(text)>>>>)
    ELSE Err

RedirectDescriptor ==
    /\ AtRedirection /\ RedirectionOperator \in {">&", "<&"}
    /\ LET rest == Drop(chars, 2)
           text == SubSeq(rest, 1, First({i \in 1..Len(rest) : ~IsDigit(rest[i]) /\ rest[i] # "-"}, rest) - 1)
           target == Target(Fd(IF chars[1] = ">" THEN 1 ELSE 0), text)
           n == 2 + Len(text)
       IN IF target.ok THEN Redirected(target.value, n + skip_whitespace(Drop(chars, n))) ELSE Fail

-----------------------------------------------------------------------------
(* The rest of a word *)

AtTilde == chars[1] = "~" /\ current = <<>> /\ ~Quoted

\* The directory that ~, ~+ and ~- stand for.
Tilde ==
    /\ AtTilde /\ Peek(2) \in {"+", "-", "/", " ", "nl", "end"}
    /\ CASE Peek(2) = "+" -> Push(PWD) /\ Consume(2)
         [] Peek(2) = "-" -> Push(OLDPWD) /\ Consume(2)
         [] Peek(2) \notin {"+", "-"} -> Push(HOME) /\ Consume(1)
    /\ SameQuotes /\ Same

\* ~user: the name goes on to the next slash or blank, operators included.
TildeUser ==
    /\ AtTilde /\ Peek(2) \notin {"+", "-", "/", " ", "nl", "end"}
    /\ LET rest == Drop(chars, 1)
           user == SubSeq(rest, 1, First({i \in 1..Len(rest) : rest[i] \in {"/", " ", "nl"}}, rest) - 1)
       IN /\ Push(IF user \in DOMAIN UserHomes THEN UserHomes[user] ELSE <<"~">> \o user)
          /\ Consume(1 + Len(user))
    /\ SameQuotes /\ Same

\* What no other arm takes: every other character, and the special ones
\* between quotes.
Special ==
    \/ chars[1] \in {" ", "nl", "|", "&", "!", ">", "<", ")", "}", "(", "{", ";"} /\ ~Quoted
    \/ chars[1] \in {"\"", "$"} /\ ~in_single_quote
    \/ chars[1] = "\\" /\ in_double_quote
    \/ chars[1] \in {"'", "bq"}
    \/ AtTilde

Character ==
    /\ ~Special
    /\ Push(<<chars[1]>>) /\ Consume(1)
    /\ SameFlags /\ Same

-----------------------------------------------------------------------------
(* The end of the line, and aliases *)

\* A quote that is still open is closed by the end of the line.
EndOfInput ==
    /\ phase = "lexing" /\ chars = <<>>
    /\ phase' = "lexed"
    /\ tokens' = IF EmptyQuoted THEN Append(tokens, <<"Word", <<>>>>)
                 ELSE flush_current_token(current, was_quoted)
    /\ current' = <<>>
    /\ SameQuotes /\ UNCHANGED <<chars, variables, expanded, after_alias>>

\* The line starts with an alias.  After an alias was replaced, another one
\* at the start of its value is replaced too, if it is not the same one and
\* not being expanded already.
StartsWithAlias == tokens # <<>> /\ tokens[1][1] = "Word" /\ tokens[1][2] \in DOMAIN aliases
\* Slip: only the last alias that was expanded is remembered.
FollowsOtherAlias == expanded # <<>> => tokens[1][2] # Last(expanded)
FollowsAlias ==
    expanded # <<>> => tokens[1][2] # Last(expanded) /\ tokens[1][2] \notin ToSet(expanded)

expand_aliases ==
    /\ phase = "lexed" /\ StartsWithAlias /\ FollowsAlias
    /\ IF tokens[1][2] \in ToSet(expanded)
       THEN phase' = "error" /\ UNCHANGED <<chars, tokens, quotes, expanded, after_alias>>
       ELSE /\ phase' = "lexing"
            /\ chars' = aliases[tokens[1][2]]
            /\ tokens' = <<>>
            /\ expanded' = Append(expanded, tokens[1][2])
            /\ after_alias' = Tail(tokens) \o after_alias
            /\ in_double_quote' = FALSE /\ in_single_quote' = FALSE
            /\ just_closed_quote' = FALSE /\ was_quoted' = FALSE
    /\ UNCHANGED <<current, variables>>

\* Otherwise the tokens of the value are put before the rest of the line.
AliasesExpanded ==
    /\ phase = "lexed" /\ ~(StartsWithAlias /\ FollowsAlias)
    /\ phase' = "aliased"
    /\ tokens' = tokens \o after_alias
    /\ after_alias' = <<>> /\ expanded' = <<>>
    /\ SameQuotes /\ UNCHANGED <<chars, current, variables>>

-----------------------------------------------------------------------------
Arm ==
    \/ Separator \/ DoubleQuote \/ SingleQuote \/ Backslash
    \/ Parameter \/ CommandSubstitution \/ Variable
    \/ Pipe \/ Ampersand \/ Bang \/ Bracket \/ Semicolon \/ OpenBrace \/ Backquote
    \/ RedirectFile \/ RedirectHere \/ RedirectDescriptor
    \/ Tilde \/ TildeUser \/ Character

lex == phase = "lexing" /\ chars # <<>> /\ Arm

LexLine(line) ==
    /\ chars = line /\ current = <<>> /\ tokens = <<>>
    /\ in_double_quote = FALSE /\ in_single_quote = FALSE
    /\ just_closed_quote = FALSE /\ was_quoted = FALSE
    /\ expanded = <<>> /\ after_alias = <<>>
    /\ phase = "lexing"

LexerNext == lex \/ EndOfInput \/ expand_aliases \/ AliasesExpanded

-----------------------------------------------------------------------------
(* What is left to do becomes less with every step, in this order: aliases *)
(* that were not replaced yet, characters, the end of the line.  So the    *)
(* loop of lex ends whatever the characters are, expand_aliases calls      *)
(* itself at most once for every alias however aliases lead to each other, *)
(* and it never comes to its error for a recursion.                        *)
LexerAdvances ==
    [][CASE phase = "lexing" /\ chars # <<>> ->
              /\ Len(chars') < Len(chars)
              /\ expanded' = expanded /\ phase' \in {"lexing", "error"}
         [] phase = "lexing" /\ chars = <<>> ->
              expanded' = expanded /\ phase' = "lexed"
         [] phase = "lexed" ->
              \/ phase' = "aliased"
              \/ /\ phase' = "lexing"
                 /\ Len(expanded') = Len(expanded) + 1
                 /\ Len(expanded') <= Cardinality(DOMAIN aliases)
         [] OTHER -> TRUE]_lexer_vars
=============================================================================
