------------------------------ MODULE MCWords ------------------------------
(***************************************************************************)
(* Lines whose meaning is known because they are made from it: words of    *)
(* quoted and unquoted parts, redirections, aliases, parameters, braces    *)
(* and arithmetic.  A meaning is what the shell's grammar says, in tokens  *)
(* whose words are expanded; what the program is known to do otherwise is  *)
(* named, and left out of the properties.                                  *)
(***************************************************************************)
EXTENDS Words, FiniteSetsExt

VARIABLE line               \* the line as it was meant

vars == <<words_vars, line>>

-----------------------------------------------------------------------------
(* Values of the constants *)

X == <<"x">>
MCVariables ==
    X :> <<"v">> @@ <<"e">> :> <<>> @@ <<"n">> :> <<"3">> @@ <<"p">> :> <<"a", "b", "a", "c">> @@ <<"r">> :> <<"p">>
MCAssignments == {X :> <<"w">>, <<"q">> :> <<"r">>}
MCNameOrder == <<<<"e">>, <<"n">>, <<"p">>, <<"q">>, <<"r">>, X>>
MCFileNames == <<<<"f", "1">>, <<"f", "2">>>>
MCHOME == <<"/", "h">>
MCPWD == <<"/", "d">>
MCOLDPWD == <<"/", "o">>
MCUserHomes == <<"o">> :> <<"/", "h", "/", "o">>
MCCommandOutputs == <<"a">> :> <<"o", "k">>

\* The words of the aliases: a cycle of three, one that starts with itself, one
\* that leads to it, one that leads to a lexical error, and one without words.
AliasWords ==
    "g" :> <<"h", "c">> @@ "h" :> <<"i">> @@ "i" :> <<"g", "x">> @@ "s" :> <<"s", "x">> @@ "t" :> <<"s">>
      @@ "k" :> <<"l", "x">> @@ "l" :> <<">">> @@ "z" :> <<>>
MCAliases ==
    [name \in {<<n>> : n \in DOMAIN AliasWords} |->
       FlattenSeq([i \in DOMAIN AliasWords[name[1]] |-> <<AliasWords[name[1]][i], " ">>])]

-----------------------------------------------------------------------------
(* Words: a part is a quote and its items, an item has a text and a meaning *)

Item(kind, source, name) == [kind |-> kind, source |-> source, name |-> name]
Lit(c) == Item("literal", <<c>>, <<c>>)
Esc(c) == Item("literal", <<"\\", c>>, <<c>>)
Var(x) == Item("variable", <<"$">> \o x, x)
Brace(x) == Item("variable", <<"$", "{">> \o x \o <<"}">>, x)
Home(user) == Item("home", <<"~">> \o user, user)
Command == Item("command", <<"$", "(", "a", ")">>, <<"a">>)
Old == Item("command", <<"bq", "a", "bq">>, <<"a">>)
Homes == {Home(<<>>), Home(<<"+">>), Home(<<"-">>), Home(<<"o">>), Home(<<"b">>)}

Part(quote, items) == [quote |-> quote, items |-> items]
Unquoted == {Lit("a"), Lit("1"), Lit("done"), Lit("*"), Lit("!"), Lit("$"), Esc("a"), Var(X), Var(<<"u">>),
             Var(<<"@">>), Brace(X), Brace(<<"e">>), Command, Old} \cup Homes
InSingle == {Lit("a"), Lit("done"), Lit(" "), Lit("|"), Lit("\""), Lit("$"), Lit("bq"), Lit("{"), Lit("*")}
InDouble == {Lit("a"), Lit("done"), Lit(" "), Lit("|"), Lit("'"), Lit("*"), Var(X), Brace(X), Brace(<<"e">>),
             Command, Old, Esc("\""), Esc("$"), Esc("\\")}
Parts ==
    {Part("", <<i>>) : i \in Unquoted} \cup {Part("'", <<i>>) : i \in InSingle}
      \cup {Part("\"", <<i>>) : i \in InDouble} \cup {Part("'", <<>>), Part("\"", <<>>)}
      \cup {Part("", <<i, Lit("/")>>) : i \in Homes}
      \cup {Part("", <<Lit("f"), Lit("*")>>), Part("\"", <<Lit("a"), Lit(" ")>>), Part("'", <<Lit("$"), Lit("x")>>),
            Part("'", <<Lit("{"), Lit("a"), Lit("}")>>)}

PartSource(part) ==
    LET text == FlattenSeq([i \in DOMAIN part.items |-> part.items[i].source])
    IN IF part.quote = "" THEN text ELSE <<part.quote>> \o text \o <<part.quote>>
WordSource(word) == FlattenSeq([i \in DOMAIN word |-> PartSource(word[i])])

HomeMeaning(user) ==
    CASE user = <<>> -> HOME
      [] user = <<"+">> -> PWD
      [] user = <<"-">> -> OLDPWD
      [] user \notin {<<>>, <<"+">>, <<"-">>} ->
            IF user \in DOMAIN UserHomes THEN UserHomes[user] ELSE <<"~">> \o user
ItemMeaning(item) ==
    CASE item.kind = "literal" -> item.name
      [] item.kind = "variable" -> Value(variables, item.name)
      [] item.kind = "home" -> HomeMeaning(item.name)
      [] item.kind = "command" -> CommandOutputs[item.name]

\* The items of a word one after the other, each with its quote.
Flat(word) ==
    FlattenSeq([i \in DOMAIN word |->
      [j \in DOMAIN word[i].items |-> [quote |-> word[i].quote, item |-> word[i].items[j]]]])
Has(flat, quoted, item) == \E k \in DOMAIN flat : flat[k].item = item /\ (flat[k].quote # "") = quoted
TextOf(flat) == FlattenSeq([k \in DOMAIN flat |-> ItemMeaning(flat[k].item)])
IsPlain(word) == \A i \in DOMAIN word : word[i].quote = ""

Word(text) == <<"Word", text>>
FilesOrWord(text) ==
    IF Glob(text) = {} THEN <<Word(text)>>
    ELSE LET files == SelectSeq(FileNames, LAMBDA f : f \in Glob(text))
         IN [i \in DOMAIN files |-> Word(files[i])]
WordMeaning(word) ==
    LET flat == Flat(word)
        text == TextOf(flat)
    IN IF IsPlain(word) /\ is_keyword(WordSource(word)) THEN <<<<"Keyword", text>>>>
       ELSE IF Has(flat, FALSE, Lit("*")) THEN FilesOrWord(text)
       ELSE <<Word(text)>>

-----------------------------------------------------------------------------
(* Lines of two words: the second may be a keyword, quoted or not *)

Sep(text, meaning) == [text |-> text, tokens |-> meaning]
Blank == Sep(<<" ">>, <<>>)
Newline == Sep(<<"nl">>, <<<<"nl">>>>)
Separators ==
    {Blank, Newline, Sep(<<";">>, <<<<";">>>>), Sep(<<" ", ";", " ">>, <<<<";">>>>), Sep(<<"|">>, <<<<"|">>>>),
     Sep(<<" ", "&", "&">>, <<<<"&&">>>>), Sep(<<")">>, <<<<")">>>>),
     Sep(<<";", " ", "!", " ">>, <<<<";">>, <<"!">>>>), Sep(<<"&", " ", "!", " ">>, <<<<"&">>, <<"!">>>>)}
FewSeparators == {Blank, Sep(<<";">>, <<<<";">>>>), Sep(<<"|">>, <<<<"|">>>>)}

Plain(c) == <<Part("", <<Lit(c)>>)>>
QuotedDone == <<Part("\"", <<Lit("done")>>)>>
TwoParts == {w \in Parts \X Parts : w[1].quote # w[2].quote /\ (w[2].items = <<>> \/ w[2].items[1] \notin Homes)}
WordLines ==
    [kind : {"words"}, first : {<<p>> : p \in Parts}, sep : Separators, second : {Plain("a"), Plain("done"), QuotedDone}]
      \cup [kind : {"words"}, first : TwoParts, sep : FewSeparators, second : {Plain("a")}]
WordLineSource(l) == WordSource(l.first) \o l.sep.text \o WordSource(l.second)
WordLineMeaning(l) == WordMeaning(l.first) \o l.sep.tokens \o WordMeaning(l.second)

-----------------------------------------------------------------------------
(* Where the program is known to lose the meaning of a word *)

\* What was quoted is forgotten before the word is expanded.
QuotesForgotten(flat) ==
    \/ \E k \in 1..(Len(flat) - 1) :
         LET next == flat[k + 1].item.source[1]
         IN \/ flat[k].item \in {Lit("$"), Esc("$")} /\ (IsAlphanumeric(next) \/ next \in {"*", "!", "$", "\\"})
            \/ flat[k].item = Var(X) /\ (IsAlphanumeric(next) \/ flat[k + 1].item = Brace(X))
    \/ Has(flat, TRUE, Lit("*")) /\ ~Has(flat, FALSE, Lit("*")) /\ Glob(TextOf(flat)) # {}
    \/ Has(flat, TRUE, Lit("}"))

\* Items that are dropped, kept as they are written, or end the word.
ItemsLost(word, flat) ==
    \/ Has(flat, TRUE, Lit("'")) \/ Has(flat, TRUE, Lit("bq")) \/ Has(flat, FALSE, Esc("a"))
    \/ Has(flat, FALSE, Var(<<"u">>)) \/ Has(flat, FALSE, Brace(<<"e">>))
    \/ \E i \in DOMAIN word : word[i].items # <<>> /\ Last(word[i].items) = Esc("\\")
    \/ \E k \in DOMAIN flat :
         \/ flat[k].item = Old /\ (k > 1 \/ word[1].items = <<>>)
         \/ flat[k].item = Lit("!") /\ TextOf(SubSeq(flat, 1, k - 1)) = <<>>
    \/ Len(word) > 1 /\ word[1].items # <<>> /\ Last(word[1].items) \in Homes

\* An operator after a word makes a quoted keyword a keyword and an empty word
\* nothing, its flags of quotes stay for the next word, and ~ swallows it.
BeforeOperator(word, flat, sep, second) ==
    \/ ~IsPlain(word) /\ (is_keyword(TextOf(flat)) \/ (second = Plain("done") /\ Last(sep.text) # " "))
    \/ Last(word).items # <<>> /\ Last(Last(word).items) \in Homes

SupportedWords(l) ==
    LET flat == Flat(l.first)
    IN /\ ~QuotesForgotten(flat) /\ ~ItemsLost(l.first, flat)
       /\ ran => ~Has(flat, FALSE, Brace(X)) /\ ~Has(flat, TRUE, Brace(X))
       /\ l.sep \notin {Blank, Newline} => ~BeforeOperator(l.first, flat, l.sep, l.second)
       /\ l.sep.text[1] \notin {" ", "nl", ";"} => TextOf(flat) # <<>>
       /\ l.sep.text[1] # "&"
Ended == phase \in {"ran", "error"}
WordsAsWritten ==
    line.kind = "words" /\ Ended /\ SupportedWords(line) => tokens = WordLineMeaning(line)

-----------------------------------------------------------------------------
(* Redirections: the word before one is its descriptor when it is a number *)

Text(source, meaning) == [source |-> source, words |-> meaning]
Befores == {Text(<<>>, <<>>), Text(<<"a">>, <<<<"a">>>>), Text(<<"a", " ">>, <<<<"a">>>>), Text(<<"2">>, <<<<"2">>>>),
            Text(<<"a", " ", "2">>, <<<<"a">>, <<"2">>>>), Text(<<"a", "2">>, <<<<"a", "2">>>>),
            Text(<<"2", " ">>, <<<<"2">>>>), Text(<<"\"", "2", "\"">>, <<<<"2">>>>)}
Files == {Text(<<"f">>, <<<<"f">>>>), Text(<<"\"", "f", " ", ">", "\"">>, <<<<"f", " ", ">">>>>), Text(<<"'", "'">>, <<<<>>>>),
          Text(<<"2">>, <<<<"2">>>>), Text(<<"-">>, <<<<"-">>>>), Text(<<"$", "x">>, <<>>)}
Afters == {Sep(<<>>, <<>>), Sep(<<" ", "b">>, <<Word(<<"b">>)>>), Sep(<<";", "b">>, <<<<";">>, Word(<<"b">>)>>)}
RedirectionLines ==
    [kind : {"redirection"}, before : Befores, op : {">", ">|", ">>", "<", "<>", "<<", "<<<", ">&", "<&"},
     blank : {<<>>, <<" ">>}, file : Files, after : Afters]
OperatorSource(op) ==
    CASE op \in {">", "<"} -> <<op>>
      [] op = ">>" -> <<">", ">">> [] op = ">|" -> <<">", "|">> [] op = ">&" -> <<">", "&">>
      [] op = "<>" -> <<"<", ">">> [] op = "<&" -> <<"<", "&">> [] op = "<<" -> <<"<", "<">>
      [] op = "<<<" -> <<"<", "<", "<">>
RedirectionSource(l) == l.before.source \o OperatorSource(l.op) \o l.blank \o l.file.source \o l.after.text

HasDescriptor(before) == before.source # <<>> /\ Last(before.source) = "2" /\ Last(before.words) = <<"2">>
WordsBefore(before) ==
    LET words == IF HasDescriptor(before) THEN Front(before.words) ELSE before.words
    IN [i \in DOMAIN words |-> Word(words[i])]
FileMeaning(file) == IF file.words = <<>> THEN variables[X] ELSE file.words[1]
Redirection(l) ==
    LET fd == IF HasDescriptor(l.before) THEN 2 ELSE IF l.op = ">&" THEN 1 ELSE 0
    IN CASE l.op \in {">", ">|", ">>", "<"} ->
              IF HasDescriptor(l.before) THEN <<<<l.op, fd, FileMeaning(l.file)>>>>
              ELSE <<<<l.op>>, Word(FileMeaning(l.file))>>
         [] l.op = "<>" -> <<<<"<>", fd, FileMeaning(l.file)>>>>
         [] l.op = "<<<" -> <<<<"<<<", FileMeaning(l.file)>>>>
         [] l.op = "<<" -> <<<<"<<", IF l.file.words = <<>> THEN l.file.source ELSE l.file.words[1],
                                     l.file.source[1] \in Quotes>>>>
         [] l.op \in {">&", "<&"} -> IF l.file.source = <<"2">> THEN <<<<"dup", fd, 2>>>> ELSE <<<<"close", fd>>>>

\* The digit at the end of a word is taken off whatever the word is, and for a
\* here-document too; an empty file name is an error, a target of >& that is
\* no descriptor too, and what follows a here-document's delimiter belongs to it.
SupportedRedirection(l) ==
    /\ l.before.source # <<>> /\ Last(l.before.source) \in {"2", "\""} => HasDescriptor(l.before)
    /\ l.op \in {"<<", "<<<"} => ~HasDescriptor(l.before) /\ l.after.text # <<";", "b">>
    /\ l.file.words # <<<<>>>>
    /\ l.op \in {">&", "<&"} => l.file.source \in {<<"2">>, <<"-">>} /\ l.blank = <<>>

\* A redirection takes its own descriptor and its own file, and leaves the
\* words around it as they are.
RedirectionsAsWritten ==
    line.kind = "redirection" /\ Ended /\ SupportedRedirection(line) =>
      /\ phase = "ran"
      /\ tokens = WordsBefore(line.before) \o Redirection(line) \o line.after.tokens

-----------------------------------------------------------------------------
(* Aliases *)

AliasLines == [kind : {"alias"}, first : DOMAIN AliasWords \cup {"a"}, after : Afters]
AliasSource(l) == <<l.first>> \o l.after.text

\* The aliases that are replaced one after the other: each is the first word of
\* the one before it, and none comes twice.
Follow(names) ==
    LET words == AliasWords[Last(names)]
    IN IF words # <<>> /\ words[1] \in DOMAIN AliasWords \ ToSet(names) THEN Append(names, words[1]) ELSE names
ChainOf(name) == FoldLeft(LAMBDA names, i : Follow(names), <<name>>, [i \in 1..Cardinality(DOMAIN AliasWords) |-> i])
\* The words of the last one, and of each before it what follows its first word.
AliasMeaning(name) ==
    IF name \notin DOMAIN AliasWords THEN <<<<name>>>>
    ELSE LET chain == ChainOf(name)
             At(i) == AliasWords[chain[Len(chain) + 1 - i]]
             words == FlattenSeq([i \in DOMAIN chain |-> IF i = 1 THEN At(i) ELSE Tail(At(i))])
         IN [i \in DOMAIN words |-> <<words[i]>>]

\* Aliases that lead to each other, or to themselves, are replaced once each and
\* never reported as a recursion; only a value that cannot be lexed is an error.
AliasesEnd ==
    line.kind = "alias" /\ Ended =>
      IF line.first \in {"k", "l"} THEN phase = "error"
      ELSE LET words == AliasMeaning(line.first)
           IN phase = "ran" /\ tokens = [i \in DOMAIN words |-> Word(words[i])] \o line.after.tokens

-----------------------------------------------------------------------------
(* Parameters, between double quotes *)

Patterns == UNION {[1..k -> {"a", "b", "*"}] : k \in 0..3}
ParameterLines ==
    [kind : {"parameter"}, name : {<<"p">>}, op : {"#", "##", "%", "%%"}, args : {<<pattern>> : pattern \in Patterns}]
      \cup [kind : {"parameter"}, name : {X, <<"e">>, <<"u">>}, op : {":-", ":=", ":+", ":?"}, args : {<<<<"a">>>>}]
      \cup [kind : {"parameter"}, name : {<<"p">>}, op : {"/", "//"}, args : {<<<<t>>, <<"d", "a">>>> : t \in {"a", "b", "d"}}]
      \cup [kind : {"parameter"}, name : {<<"p">>}, op : {":"}, args : {<<ToChars(i)>> : i \in 0..5}]
      \cup [kind : {"parameter"}, name : {<<"p">>}, op : {":"}, args : {<<ToChars(i), ToChars(k)>> : i \in 0..5, k \in 0..5}]
      \cup [kind : {"parameter"}, name : {X, <<"p">>, <<"e">>, <<"u">>}, op : {"", "length", "!", "!*"}, args : {<<>>}]
OperatorText(op) ==
    CASE op = ":-" -> <<":", "-">> [] op = ":=" -> <<":", "=">> [] op = ":+" -> <<":", "+">> [] op = ":?" -> <<":", "?">>
      [] op \in {"#", "%", "/", ":"} -> <<op>>
      [] op = "##" -> <<"#", "#">> [] op = "%%" -> <<"%", "%">> [] op = "//" -> <<"/", "/">>
ParameterSource(l) ==
    LET inner ==
          CASE l.op = "" -> l.name
            [] l.op = "length" -> <<"#">> \o l.name
            [] l.op = "!" -> <<"!">> \o l.name
            [] l.op = "!*" -> <<"!">> \o l.name \o <<"*">>
            [] l.op \notin {"", "length", "!", "!*"} ->
                 l.name \o OperatorText(l.op) \o l.args[1]
                   \o IF Len(l.args) = 1 THEN <<>> ELSE <<IF l.op = ":" THEN ":" ELSE "/">> \o l.args[2]
    IN <<"\"", "$", "{">> \o inner \o <<"}", "\"">>

\* A text is cut into as many pieces as the pattern has characters, one for each.
Matches(pattern, text) ==
    \E cut \in [0..Len(pattern) -> 0..Len(text)] :
       /\ cut[0] = 0 /\ cut[Len(pattern)] = Len(text)
       /\ \A i \in 1..Len(pattern) :
            IF pattern[i] = "*" THEN cut[i - 1] <= cut[i]
            ELSE cut[i] = cut[i - 1] + 1 /\ text[cut[i]] = pattern[i]
\* What is left when the shortest or longest matching prefix or suffix is taken off.
Without(op, pattern, text) ==
    LET n == Len(text)
        left == IF op \in {"#", "##"} THEN {i \in 0..n : Matches(pattern, SubSeq(text, 1, n - i))}
                ELSE {i \in 0..n : Matches(pattern, Drop(text, i))}
        best == IF left = {} THEN n ELSE IF op \in {"#", "%"} THEN Max(left) ELSE Min(left)
    IN IF op \in {"#", "##"} THEN Drop(text, n - best) ELSE SubSeq(text, 1, best)
Piece(text, offset, length) ==
    SelectSeq([i \in DOMAIN text |-> IF i > offset /\ i <= offset + length THEN text[i] ELSE ""], LAMBDA c : c # "")
ParameterMeaning(l) ==
    LET val == Value(MCVariables, l.name)
    IN CASE l.op = "" -> val
         [] l.op = "length" -> ToChars(Len(val))
         [] l.op = "!" -> Value(MCVariables, val)
         [] l.op = "!*" -> IF l.name \in DOMAIN MCVariables THEN l.name ELSE <<>>
         [] l.op \in {":-", ":="} -> IF val = <<>> THEN l.args[1] ELSE val
         [] l.op = ":+" -> IF val = <<>> THEN <<>> ELSE l.args[1]
         [] l.op = ":?" -> val
         [] l.op = ":" -> Piece(val, NumberOf(l.args[1]), IF Len(l.args) = 1 THEN Len(val) ELSE NumberOf(l.args[2]))
         [] l.op \in {"#", "##", "%", "%%"} -> Without(l.op, l.args[1], val)
         [] l.op \in {"/", "//"} -> FlattenSeq([i \in DOMAIN val |-> IF <<val[i]>> = l.args[1] THEN l.args[2] ELSE <<val[i]>>])
\* One / replaces every occurrence, and :? of what is empty is no error.
SupportedParameter(l) ==
    /\ l.op = "/" => l.args[1] # <<"a">>
    /\ l.op = ":?" => Value(MCVariables, l.name) # <<>>

\* A parameter between quotes is one word, and its modifier changes its value
\* as the shell's definition of it says.
ParametersAsWritten ==
    line.kind = "parameter" /\ Ended /\ SupportedParameter(line) => tokens = <<Word(ParameterMeaning(line))>>

-----------------------------------------------------------------------------
(* Braces: a text, alternatives, a text, perhaps other alternatives, a text *)

Braced ==
    {Text(<<"{", "a", ",", "b", "}">>, <<<<"a">>, <<"b">>>>), Text(<<"{", "1", ".", ".", "3", "}">>, <<<<"1">>, <<"2">>, <<"3">>>>),
     Text(<<"{", "b", ".", ".", "c", "}">>, <<<<"b">>, <<"c">>>>), Text(<<"{", ",", "a", "}">>, <<<<>>, <<"a">>>>),
     Text(<<"{", "a", ",", "{", "b", ",", "c", "}", "}">>, <<<<"a">>, <<"b">>, <<"c">>>>),
     Text(<<"{", "-", "1", ".", ".", "1", "}">>, <<<<"-", "1">>, <<"0">>, <<"1">>>>),
     Text(<<"{", "a", ",", "}">>, <<<<"a">>, <<>>>>), Text(<<"{", "2", ".", ".", "1", "}">>, <<<<"2">>, <<"1">>>>),
     Text(<<"{", "a", ",", "b", "{", "c", ",", "d", "}", "}">>, <<<<"a">>, <<"b", "c">>, <<"b", "d">>>>)}
NoAlternatives == Text(<<>>, <<<<>>>>)
BraceLines ==
    [kind : {"brace"}, before : {<<>>, <<"a">>, <<"x", "y">>}, first : Braced, between : {<<>>, <<"b">>},
     second : Braced \cup {NoAlternatives}, end : {<<>>, <<"d">>}, after : Afters]
BraceSource(l) == l.before \o l.first.source \o l.between \o l.second.source \o l.end \o l.after.text
BraceMeaning(l) ==
    FlattenSeq([i \in DOMAIN l.first.words |-> [k \in DOMAIN l.second.words |->
      Word(l.before \o l.first.words[i] \o l.between \o l.second.words[k] \o l.end)]])

\* A text between two alternatives is lost, and so are an empty alternative at
\* the end and alternatives within one that has a text of its own; a range that
\* descends is an error.
SupportedBraces(l) ==
    /\ l.between # <<>> => l.second = NoAlternatives
    /\ \A text \in {l.first, l.second} :
         \A i \in DOMAIN text.source :
            /\ text.source[i] \in {"{", ","} => i < Len(text.source) /\ text.source[i + 1] # "}"
            /\ text.source[i] = "{" => i = 1 \/ text.source[i - 1] = ","
            /\ text.source[i] # "2"

\* A word with braces becomes every combination of their alternatives, the last
\* ones varying first, each with the texts around them, in the words' place.
BracesAsWritten ==
    line.kind = "brace" /\ Ended /\ SupportedBraces(line) => tokens = BraceMeaning(line) \o line.after.tokens

-----------------------------------------------------------------------------
(* Arithmetic: two operators, the first one's result to the left or the second's *)
(* to the right, with the parentheses that the operators' order needs           *)

Leaf(source, value) == [source |-> source, value |-> Some(value)]
LeftLeaves == {Leaf(<<"5">>, 5), Leaf(<<"~", "2">>, -3)}
MiddleLeaves == {Leaf(<<"2">>, 2), Leaf(<<"0">>, 0)}
RightLeaves == {Leaf(<<"$", "n">>, 3), Leaf(<<"~", "n">>, -4), Leaf(<<"2">>, 2)}
\* The operators from those that bind most.
Levels == <<{"*", "/", "%"}, {"+", "-"}, {"<<", ">>"}, {"<", ">="}, {"==", "!="}, {"&"}, {"^"}, {"|"}, {"&&"}, {"||"}>>
Level(op) == CHOOSE k \in DOMAIN Levels : op \in Levels[k]
Operators == UNION ToSet(Levels)
Symbols(op) ==
    CASE op = "<<" -> <<"<", "<">> [] op = ">>" -> <<">", ">">> [] op = ">=" -> <<">", "=">> [] op = "==" -> <<"=", "=">>
      [] op = "!=" -> <<"!", "=">> [] op = "&&" -> <<"&", "&">> [] op = "||" -> <<"|", "|">>
      [] op \notin {"<<", ">>", ">=", "==", "!=", "&&", "||"} -> <<op>>
ArithmeticLines ==
    [kind : {"arithmetic"}, leftmost : BOOLEAN, a : LeftLeaves, op1 : Operators, b : MiddleLeaves, op2 : Operators, c : RightLeaves]
Abs(n) == IF n < 0 THEN -n ELSE n
InParens(yes, text) == IF yes THEN <<"(">> \o text \o <<")">> ELSE text
ExpressionSource(l) ==
    IF l.leftmost
    THEN InParens(Level(l.op1) > Level(l.op2), l.a.source \o Symbols(l.op1) \o l.b.source) \o Symbols(l.op2) \o l.c.source
    ELSE l.a.source \o Symbols(l.op1) \o InParens(Level(l.op2) >= Level(l.op1), l.b.source \o Symbols(l.op2) \o l.c.source)
ArithmeticSource(l) == <<"$", "(", "(">> \o ExpressionSource(l) \o <<")", ")">>

\* The bits of an integer, from the lowest; -1 - n has the others.
BitsOf(n) == {k \in 0..WIDTH : (IF n < 0 THEN (-1 - n) \div 2^k % 2 = 0 ELSE n \div 2^k % 2 = 1)}
IntegerOf(bits) == CHOOSE n \in -(2^WIDTH)..(2^WIDTH - 1) : BitsOf(n) = bits
\* a = b * q + r with the remainder smaller than b and on a's side of 0.
DivRem(a, b) ==
    CHOOSE qr \in (-Abs(a)..Abs(a)) \X (-Abs(b)..Abs(b)) :
      a = b * qr[1] + qr[2] /\ Abs(qr[2]) < Abs(b) /\ qr[2] * a >= 0
Holds(op, a, b) ==
    CASE op = "<" -> a < b [] op = ">=" -> a >= b [] op = "==" -> a = b [] op = "!=" -> a # b
      [] op = "&&" -> a # 0 /\ b # 0 [] op = "||" -> a # 0 \/ b # 0
Compute(op, a, b) ==
    CASE op = "*" -> a * b [] op = "+" -> a + b [] op = "-" -> a - b
      [] op = "/" -> DivRem(a, b)[1] [] op = "%" -> DivRem(a, b)[2]
      [] op = "<<" -> a * 2^b [] op = ">>" -> a \div 2^b
      [] op \in {"<", ">=", "==", "!=", "&&", "||"} ->
           IF Holds(op, a, b) THEN 1 ELSE 0
      [] op = "&" -> IntegerOf(BitsOf(a) \cap BitsOf(b))
      [] op = "|" -> IntegerOf(BitsOf(a) \cup BitsOf(b))
      [] op = "^" -> IntegerOf((BitsOf(a) \cup BitsOf(b)) \ (BitsOf(a) \cap BitsOf(b)))
\* && and || leave their right side out when the left one decides.
Decided(op, left) == left.ok /\ ((op = "&&" /\ left.value = 0) \/ (op = "||" /\ left.value # 0))
Result(op, left, right) ==
    IF Decided(op, left) THEN Some(IF op = "&&" THEN 0 ELSE 1)
    ELSE IF ~left.ok \/ ~right.ok \/ (op \in {"/", "%"} /\ right.value = 0)
            \/ (op \in {"<<", ">>"} /\ right.value \notin 0..(WIDTH - 1)) THEN Err
    ELSE Some(Compute(op, left.value, right.value))
Inner(l) == IF l.leftmost THEN Result(l.op1, l.a.value, l.b.value) ELSE Result(l.op2, l.b.value, l.c.value)
Outer(l) == IF l.leftmost THEN Result(l.op2, Inner(l), l.c.value) ELSE Result(l.op1, l.a.value, Inner(l))
\* Left out: results beyond the width, shifts by less than 0, and errors on the
\* right of && and ||, which are reported.
SupportedArithmetic(l) ==
    /\ Inner(l).ok => Inner(l).value \in MIN..MAX
    /\ Outer(l).ok => Outer(l).value \in MIN..MAX
    /\ ~Inner(l).ok \/ ~Outer(l).ok => {l.op1, l.op2} \cap {"<<", ">>", "&&", "||"} = {}

\* An expression's value is that of the tree it was written from: the operators
\* bind as in C, those of a level from the left, and a division by 0 is an error.
ArithmeticAsWritten ==
    line.kind = "arithmetic" /\ Ended /\ SupportedArithmetic(line) =>
      tokens = <<Word(IF Outer(line).ok THEN ToChars(Outer(line).value) ELSE ArithmeticError)>>

MCInit ==
    /\ \/ \E l \in WordLines : line = l /\ Start(WordLineSource(l))
       \/ \E l \in RedirectionLines : line = l /\ Start(RedirectionSource(l))
       \/ \E l \in AliasLines : line = l /\ Start(AliasSource(l))
       \/ \E l \in ParameterLines : line = l /\ Start(ParameterSource(l))
       \/ \E l \in BraceLines : line = l /\ Start(BraceSource(l))
       \/ \E l \in ArithmeticLines : line = l /\ Start(ArithmeticSource(l))
    /\ variables = MCVariables
MCNext == Next /\ UNCHANGED line
MCSpec == MCInit /\ [][MCNext]_vars
=============================================================================
