---------------------------- MODULE LexerProofs ----------------------------
(***************************************************************************)
(* What holds of the lexer for every line and every set of aliases: each   *)
(* step of its loop uses up at least one character, and no alias is        *)
(* replaced twice, so that lexing a line ends.                             *)
(***************************************************************************)
EXTENDS Lexer, SequenceTheorems, FiniteSetTheorems, WellFoundedInduction, TLAPS

-----------------------------------------------------------------------------
(* Positions and parts of a text *)

\* A set of positions that is not empty has a least one.
LEMMA LeastPosition ==
    ASSUME NEW n \in Nat, NEW S \in SUBSET (1..n), S # {}
    PROVE  \E i \in S : \A j \in S : i <= j
<1>1. IsWellFoundedOn(OpToRel(<, Nat), Nat)
    BY NatLessThanWellFounded
<1>2. S \subseteq Nat
    OBVIOUS
<1>3. PICK i \in S : \A j \in S : <<j, i>> \notin OpToRel(<, Nat)
    BY <1>1, <1>2, WFMin
<1>4. \A j \in S : ~(j < i)
    BY <1>2, <1>3 DEF OpToRel
<1> QED
    BY <1>2, <1>4

\* First is a position, or the one past the end.
LEMMA FirstIsPosition ==
    ASSUME NEW s \in Seq(STRING), NEW S \in SUBSET (1..Len(s))
    PROVE  First(S, s) \in 1..(Len(s) + 1)
<1>1. CASE S = {}
    BY <1>1 DEF First
<1>2. CASE S # {}
    <2>1. \E i \in S : \A j \in S : i <= j
        BY <1>2, Len(s) \in Nat, LeastPosition
    <2>2. First(S, s) \in S
        BY <1>2, <2>1 DEF First
    <2>3. First(S, s) \in 1..Len(s)
        BY <2>2
    <2> QED
        BY <2>3, Len(s) \in Nat
<1> QED
    BY <1>1, <1>2

\* The text before it is a text.
LEMMA UpToFirst ==
    ASSUME NEW s \in Seq(STRING), NEW S \in SUBSET (1..Len(s))
    PROVE  /\ First(S, s) - 1 \in Nat
           /\ SubSeq(s, 1, First(S, s) - 1) \in Seq(STRING)
           /\ Len(SubSeq(s, 1, First(S, s) - 1)) \in Nat
<1>1. First(S, s) \in 1..(Len(s) + 1)
    BY FirstIsPosition
<1>2. \A i \in 1..(First(S, s) - 1) : s[i] \in STRING
    BY <1>1
<1>3. SubSeq(s, 1, First(S, s) - 1) \in Seq(STRING)
    BY <1>1, <1>2, SubSeqProperties
<1> QED
    BY <1>1, <1>3

\* What is left of a text.
LEMMA DropIsText ==
    ASSUME NEW s \in Seq(STRING), NEW n \in Nat
    PROVE  /\ Drop(s, n) \in Seq(STRING)
           /\ Len(Drop(s, n)) = IF n < Len(s) THEN Len(s) - n ELSE 0
<1>1. n + 1 \in Int /\ Len(s) \in Int
    OBVIOUS
<1>2. \A i \in (n + 1)..Len(s) : s[i] \in STRING
    OBVIOUS
<1>3. /\ SubSeq(s, n + 1, Len(s)) \in Seq(STRING)
      /\ Len(SubSeq(s, n + 1, Len(s))) = IF n + 1 <= Len(s) THEN Len(s) - (n + 1) + 1 ELSE 0
    BY <1>1, <1>2, SubSeqProperties
<1> QED
    BY <1>3 DEF Drop

\* A step that consumes at least one character.
Shortens == chars' \in Seq(STRING) /\ Len(chars') < Len(chars)

LEMMA ConsumeShortens ==
    ASSUME chars \in Seq(STRING), chars # <<>>, NEW n \in Nat \ {0}, Consume(n)
    PROVE  Shortens
<1>1. Len(chars) > 0
    OBVIOUS
<1>2. chars' = Drop(chars, n)
    BY DEF Consume
<1>3. /\ Drop(chars, n) \in Seq(STRING)
      /\ Len(Drop(chars, n)) = IF n < Len(chars) THEN Len(chars) - n ELSE 0
    BY DropIsText
<1>4. Len(Drop(chars, n)) < Len(chars)
    BY <1>1, <1>3
<1> QED
    BY <1>2, <1>3, <1>4 DEF Shortens

LEMMA ConsumeOneShortens ==
    ASSUME chars \in Seq(STRING), chars # <<>>, Consume(1)
    PROVE  Shortens
<1>1. 1 \in Nat \ {0}
    OBVIOUS
<1> QED
    BY <1>1, ConsumeShortens

LEMMA ConsumeTwoShortens ==
    ASSUME chars \in Seq(STRING), chars # <<>>, Consume(2)
    PROVE  Shortens
<1>1. 2 \in Nat \ {0}
    OBVIOUS
<1> QED
    BY <1>1, ConsumeShortens

LEMMA BlanksCount ==
    ASSUME NEW s \in Seq(STRING)
    PROVE  skip_whitespace(s) \in Nat
BY UpToFirst DEF skip_whitespace

-----------------------------------------------------------------------------
(* The arms of the lexer's match *)

LEMMA SpacedOperatorShortens ==
    ASSUME chars \in Seq(STRING), chars # <<>>, NEW token, NEW n \in Nat \ {0},
           SpacedOperator(token, n)
    PROVE  Shortens
<1>1. Drop(chars, n) \in Seq(STRING)
    BY DropIsText
<1>2. n + skip_whitespace(Drop(chars, n)) \in Nat \ {0}
    BY <1>1, BlanksCount
<1>3. Consume(n + skip_whitespace(Drop(chars, n)))
    BY DEF SpacedOperator, Operator
<1> QED
    BY <1>2, <1>3, ConsumeShortens

\* A name after a $ may be empty; the $ is consumed all the same.
LEMMA NameIsText ==
    ASSUME NEW s \in Seq(STRING)
    PROVE  Len(parse_variable_name(s)) \in Nat
<1> DEFINE special == s # <<>> /\ (s[1] \in {"?", "$", "#", "@", "*", "!"} \/ IsDigit(s[1]))
           stops == {i \in 1..Len(s) : ~IsAlphanumeric(s[i])}
<1>1. CASE special
    <2>1. SubSeq(s, 1, 1) \in Seq(STRING)
        BY <1>1, SubSeqProperties
    <2>2. parse_variable_name(s) = SubSeq(s, 1, 1)
        BY <1>1 DEF parse_variable_name
    <2> QED
        BY <2>1, <2>2
<1>2. CASE ~special
    <2>1. parse_variable_name(s) = SubSeq(s, 1, First(stops, s) - 1)
        BY <1>2 DEF parse_variable_name
    <2>2. stops \in SUBSET (1..Len(s))
        OBVIOUS
    <2> QED
        BY <2>1, <2>2, UpToFirst
<1> QED
    BY <1>1, <1>2

LEMMA ParameterShortens ==
    ASSUME chars \in Seq(STRING), chars # <<>>, Parameter
    PROVE  Shortens
<1> DEFINE rest == Drop(chars, 2)
           n == collect_until_closing_brace(rest)
<1>1. rest \in Seq(STRING)
    BY DropIsText
<1>2. {i \in 1..Len(rest) : rest[i] = "}"} \in SUBSET (1..Len(rest))
    OBVIOUS
<1>3. n \in 1..(Len(rest) + 1)
    BY <1>1, <1>2, FirstIsPosition DEF collect_until_closing_brace
<1>4. 2 + n \in Nat \ {0}
    BY <1>1, <1>3
<1>5. Consume(2 + n)
    BY DEF Parameter
<1> QED
    BY <1>4, <1>5, ConsumeShortens

LEMMA CommandSubstitutionShortens ==
    ASSUME chars \in Seq(STRING), chars # <<>>, CommandSubstitution
    PROVE  Shortens
<1> DEFINE k == IF Peek(3) = "(" THEN 3 ELSE 2
           rest == Drop(chars, k)
           n == collect_with_paren_depth(rest)
<1>1. k \in Nat
    OBVIOUS
<1>2. rest \in Seq(STRING)
    BY <1>1, DropIsText
<1>3. {i \in 1..Len(rest) : DepthOutside(SubSeq(rest, 1, i), "(", ")") = -1} \in SUBSET (1..Len(rest))
    OBVIOUS
<1>4. n \in 1..(Len(rest) + 1)
    BY <1>2, <1>3, FirstIsPosition DEF collect_with_paren_depth
<1>5. k + n \in Nat \ {0} /\ k + n + 1 \in Nat \ {0}
    BY <1>1, <1>2, <1>4
<1>6. Consume(k + n) \/ Consume(k + n + 1)
    BY DEF CommandSubstitution
<1> HIDE DEF k, n
<1> QED
    BY <1>5, <1>6, ConsumeShortens

LEMMA VariableShortens ==
    ASSUME chars \in Seq(STRING), chars # <<>>, Variable
    PROVE  Shortens
<1>1. Drop(chars, 1) \in Seq(STRING)
    BY DropIsText
<1>2. Len(parse_variable_name(Drop(chars, 1))) \in Nat
    BY <1>1, NameIsText
<1>3. 1 + Len(parse_variable_name(Drop(chars, 1))) \in Nat \ {0}
    BY <1>2
<1>4. Consume(1 + Len(parse_variable_name(Drop(chars, 1))))
    BY DEF Variable
<1> QED
    BY <1>3, <1>4, ConsumeShortens

\* The closing brace that is consumed may be another one than was found.
LEMMA OpenBraceShortens ==
    ASSUME chars \in Seq(STRING), chars # <<>>, OpenBrace
    PROVE  Shortens
<1> DEFINE rest == Drop(chars, 1)
           closed == {i \in 1..Len(rest) : Depth(SubSeq(rest, 1, i), "{", "}") = -1}
           consumed == First(closed, rest)
<1>1. rest \in Seq(STRING)
    BY DropIsText
<1>2. closed \in SUBSET (1..Len(rest))
    OBVIOUS
<1>3. consumed \in 1..(Len(rest) + 1)
    BY <1>1, <1>2, FirstIsPosition
<1>4. Consume(1 + consumed) \/ Consume(1)
    BY DEF OpenBrace, Operator
<1> HIDE DEF consumed, closed
<1>5. 1 + consumed \in Nat \ {0}
    BY <1>1, <1>3
<1> QED
    BY <1>4, <1>5, ConsumeShortens, ConsumeOneShortens

LEMMA BackquoteShortens ==
    ASSUME chars \in Seq(STRING), chars # <<>>, Backquote
    PROVE  Shortens
<1> DEFINE rest == Drop(chars, 1)
           closing == {i \in 1..Len(rest) : rest[i] = "bq"}
<1>1. rest \in Seq(STRING)
    BY DropIsText
<1>2. closing \in SUBSET (1..Len(rest))
    OBVIOUS
<1>3. First(closing, rest) \in 1..(Len(rest) + 1)
    BY <1>1, <1>2, FirstIsPosition
<1>4. 1 + First(closing, rest) \in Nat \ {0}
    BY <1>1, <1>3
<1>5. Consume(1 + First(closing, rest))
    BY DEF Backquote
<1> QED
    BY <1>4, <1>5, ConsumeShortens

-----------------------------------------------------------------------------
(* Redirections *)

LEMMA FailShortens ==
    ASSUME chars \in Seq(STRING), chars # <<>>, Fail
    PROVE  Shortens
<1>1. chars' = <<>>
    BY DEF Fail
<1> QED
    BY <1>1 DEF Shortens

\* The word of a redirection and the blanks before it.
LEMMA WordLength ==
    ASSUME chars \in Seq(STRING), NEW stops
    PROVE  LET n == OperatorLength(RedirectionOperator)
               k == n + skip_whitespace(Drop(chars, n))
           IN k + Len(UpTo(Drop(chars, k), stops)) \in Nat \ {0}
<1> DEFINE n == OperatorLength(RedirectionOperator)
           k == n + skip_whitespace(Drop(chars, n))
           rest == Drop(chars, k)
           ends == {i \in 1..Len(rest) : rest[i] \in stops /\ Outside(rest, i)}
<1>1. n \in {1, 2, 3}
    BY DEF OperatorLength
<1> HIDE DEF n
<1>2. Drop(chars, n) \in Seq(STRING)
    BY <1>1, DropIsText
<1>3. skip_whitespace(Drop(chars, n)) \in Nat
    BY <1>2, BlanksCount
<1>4. k \in Nat \ {0}
    BY <1>1, <1>3
<1> HIDE DEF k
<1>5. rest \in Seq(STRING)
    BY <1>4, DropIsText
<1>6. ends \in SUBSET (1..Len(rest))
    OBVIOUS
<1>7. Len(SubSeq(rest, 1, First(ends, rest) - 1)) \in Nat
    BY <1>5, <1>6, UpToFirst
<1>8. Len(UpTo(rest, stops)) \in Nat
    BY <1>7 DEF UpTo
<1> HIDE DEF rest
<1>9. k + Len(UpTo(rest, stops)) \in Nat \ {0}
    BY <1>4, <1>8
<1> QED
    BY <1>9 DEF rest, k, n

LEMMA RedirectFileShortens ==
    ASSUME chars \in Seq(STRING), chars # <<>>, RedirectFile
    PROVE  Shortens
<1> DEFINE n == OperatorLength(RedirectionOperator)
           k == n + skip_whitespace(Drop(chars, n))
           length == k + Len(UpTo(Drop(chars, k), FilenameEnd))
<1>1. length \in Nat \ {0}
    BY WordLength
<1>2. Fail \/ Consume(length)
    BY DEF RedirectFile, WithWord, Redirected
<1> HIDE DEF length
<1> QED
    BY <1>1, <1>2, FailShortens, ConsumeShortens

LEMMA RedirectHereShortens ==
    ASSUME chars \in Seq(STRING), chars # <<>>, RedirectHere
    PROVE  Shortens
<1> DEFINE n == OperatorLength(RedirectionOperator)
           k == n + skip_whitespace(Drop(chars, n))
           length == k + Len(UpTo(Drop(chars, k), {" ", "nl"}))
<1>1. length \in Nat \ {0}
    BY WordLength
<1>2. Fail \/ Consume(length)
    BY DEF RedirectHere, WithWord, Redirected
<1> HIDE DEF length
<1> QED
    BY <1>1, <1>2, FailShortens, ConsumeShortens

LEMMA RedirectDescriptorShortens ==
    ASSUME chars \in Seq(STRING), chars # <<>>, RedirectDescriptor
    PROVE  Shortens
<1> DEFINE rest == Drop(chars, 2)
           ends == {i \in 1..Len(rest) : ~IsDigit(rest[i]) /\ rest[i] # "-"}
           text == SubSeq(rest, 1, First(ends, rest) - 1)
           n == 2 + Len(text)
<1>1. rest \in Seq(STRING)
    BY DropIsText
<1>2. ends \in SUBSET (1..Len(rest))
    OBVIOUS
<1>3. Len(text) \in Nat
    BY <1>1, <1>2, UpToFirst
<1>4. Fail \/ Consume(n + skip_whitespace(Drop(chars, n)))
    BY DEF RedirectDescriptor, Redirected
<1> HIDE DEF text
<1>5. n \in Nat \ {0}
    BY <1>3
<1> HIDE DEF n
<1>6. Drop(chars, n) \in Seq(STRING)
    BY <1>5, DropIsText
<1>7. skip_whitespace(Drop(chars, n)) \in Nat
    BY <1>6, BlanksCount
<1>8. n + skip_whitespace(Drop(chars, n)) \in Nat \ {0}
    BY <1>5, <1>7
<1> QED
    BY <1>4, <1>8, FailShortens, ConsumeShortens

-----------------------------------------------------------------------------
LEMMA TildeUserShortens ==
    ASSUME chars \in Seq(STRING), chars # <<>>, TildeUser
    PROVE  Shortens
<1> DEFINE rest == Drop(chars, 1)
           ends == {i \in 1..Len(rest) : rest[i] \in {"/", " ", "nl"}}
           user == SubSeq(rest, 1, First(ends, rest) - 1)
<1>1. rest \in Seq(STRING)
    BY DropIsText
<1>2. ends \in SUBSET (1..Len(rest))
    OBVIOUS
<1>3. Len(user) \in Nat
    BY <1>1, <1>2, UpToFirst
<1>4. Consume(1 + Len(user))
    BY DEF TildeUser
<1> HIDE DEF user
<1>5. 1 + Len(user) \in Nat \ {0}
    BY <1>3
<1> QED
    BY <1>4, <1>5, ConsumeShortens

\* Every arm of the match uses up at least one character.
LEMMA ArmShortens ==
    ASSUME chars \in Seq(STRING), chars # <<>>, Arm
    PROVE  Shortens
<1>1. CASE Separator
    BY <1>1, ConsumeOneShortens DEF Separator
<1>2. CASE DoubleQuote
    BY <1>2, ConsumeOneShortens DEF DoubleQuote
<1>3. CASE SingleQuote
    BY <1>3, ConsumeOneShortens DEF SingleQuote
<1>4. CASE Backslash
    <2>1. Consume(1) \/ Consume(2)
        BY <1>4 DEF Backslash
    <2> QED
        BY <2>1, ConsumeOneShortens, ConsumeTwoShortens
<1>5. CASE Parameter
    BY <1>5, ParameterShortens
<1>6. CASE CommandSubstitution
    BY <1>6, CommandSubstitutionShortens
<1>7. CASE Variable
    BY <1>7, VariableShortens
<1>8. CASE Pipe
    <2>1. Doubled("|") \in Nat \ {0}
        BY DEF Doubled
    <2> QED
        BY <1>8, <2>1, SpacedOperatorShortens DEF Pipe
<1>9. CASE Ampersand
    <2>1. Doubled("&") \in Nat \ {0}
        BY DEF Doubled
    <2> QED
        BY <1>9, <2>1, SpacedOperatorShortens DEF Ampersand
<1>10. CASE Bang
    <2>1. SpacedOperator(<<"!">>, 1) \/ Consume(1)
        BY <1>10 DEF Bang
    <2> QED
        BY <2>1, 1 \in Nat \ {0}, SpacedOperatorShortens, ConsumeOneShortens
<1>11. CASE Bracket
    BY <1>11, ConsumeOneShortens DEF Bracket, Operator
<1>12. CASE Semicolon
    <2>1. Doubled(";") \in Nat \ {0}
        BY DEF Doubled
    <2>2. Consume(Doubled(";"))
        BY <1>12 DEF Semicolon
    <2> QED
        BY <2>1, <2>2, ConsumeShortens
<1>13. CASE OpenBrace
    BY <1>13, OpenBraceShortens
<1>14. CASE Backquote
    BY <1>14, BackquoteShortens
<1>15. CASE RedirectFile
    BY <1>15, RedirectFileShortens
<1>16. CASE RedirectHere
    BY <1>16, RedirectHereShortens
<1>17. CASE RedirectDescriptor
    BY <1>17, RedirectDescriptorShortens
<1>18. CASE Tilde
    <2>1. Consume(2) \/ Consume(1)
        BY <1>18 DEF Tilde
    <2> QED
        BY <2>1, ConsumeOneShortens, ConsumeTwoShortens
<1>19. CASE TildeUser
    BY <1>19, TildeUserShortens
<1>20. CASE Character
    BY <1>20, ConsumeOneShortens DEF Character
<1> QED
    BY <1>1, <1>2, <1>3, <1>4, <1>5, <1>6, <1>7, <1>8, <1>9, <1>10, <1>11, <1>12, <1>13, <1>14, <1>15,
       <1>16, <1>17, <1>18, <1>19, <1>20 DEF Arm
-----------------------------------------------------------------------------
(* Lexing a line, the values of its aliases included *)

Text == chars \in Seq(STRING)

LEMMA StepKeepsText ==
    ASSUME Text, [LexerNext]_lexer_vars
    PROVE  Text'
<1>1. CASE lex
    BY <1>1, ArmShortens DEF lex, Text, Shortens
<1>2. CASE EndOfInput
    BY <1>2 DEF EndOfInput, Text
<1>3. CASE expand_aliases
    <2>1. CASE tokens[1][2] \in ToSet(expanded)
        BY <1>3, <2>1 DEF expand_aliases, Text
    <2>2. CASE tokens[1][2] \notin ToSet(expanded)
        BY <1>3, <2>2, AliasesAssumption DEF expand_aliases, StartsWithAlias, Text
    <2> QED
        BY <2>1, <2>2
<1>4. CASE AliasesExpanded
    BY <1>4 DEF AliasesExpanded, Text
<1>5. CASE UNCHANGED lexer_vars
    BY <1>5 DEF lexer_vars, Text
<1> QED
    BY <1>1, <1>2, <1>3, <1>4, <1>5 DEF LexerNext

-----------------------------------------------------------------------------
\* The aliases that were replaced are different ones.
EachOnce ==
    /\ expanded \in Seq(DOMAIN aliases)
    /\ \A i, j \in 1..Len(expanded) : expanded[i] = expanded[j] => i = j

LEMMA ArmKeepsAliases ==
    ASSUME Arm, phase = "lexing"
    PROVE  UNCHANGED expanded /\ phase' \in {"lexing", "error"}
BY DEF Arm, Separator, DoubleQuote, SingleQuote, Backslash, Parameter, CommandSubstitution, Variable,
       Pipe, Ampersand, Bang, Bracket, Semicolon, OpenBrace, Backquote, RedirectFile, RedirectHere,
       RedirectDescriptor, Tilde, TildeUser, Character, SpacedOperator, Operator, WithWord, Redirected,
       Fail, Same

LEMMA StepKeepsEachOnce ==
    ASSUME EachOnce, [LexerNext]_lexer_vars
    PROVE  EachOnce'
<1>1. CASE lex
    BY <1>1, ArmKeepsAliases DEF lex, EachOnce
<1>2. CASE EndOfInput
    BY <1>2 DEF EndOfInput, EachOnce
<1>3. CASE expand_aliases
    <2>1. CASE tokens[1][2] \in ToSet(expanded)
        BY <1>3, <2>1 DEF expand_aliases, EachOnce
    <2>2. CASE tokens[1][2] \notin ToSet(expanded)
        <3> DEFINE name == tokens[1][2]
        <3>1. name \in DOMAIN aliases
            BY <1>3 DEF expand_aliases, StartsWithAlias
        <3>2. expanded' = Append(expanded, name)
            BY <1>3, <2>2 DEF expand_aliases
        <3>3. \A i \in 1..Len(expanded) : expanded[i] # name
            BY <2>2 DEF ToSet, EachOnce
        <3>4. /\ expanded' \in Seq(DOMAIN aliases)
              /\ Len(expanded') = Len(expanded) + 1
              /\ \A i \in 1..Len(expanded) : expanded'[i] = expanded[i]
              /\ expanded'[Len(expanded) + 1] = name
            BY <3>1, <3>2, AppendProperties DEF EachOnce
        <3> HIDE DEF name
        <3>5. \A i, j \in 1..Len(expanded') : expanded'[i] = expanded'[j] => i = j
            BY <3>3, <3>4 DEF EachOnce
        <3> QED
            BY <3>4, <3>5 DEF EachOnce
    <2> QED
        BY <2>1, <2>2
<1>4. CASE AliasesExpanded
    BY <1>4 DEF AliasesExpanded, EachOnce
<1>5. CASE UNCHANGED lexer_vars
    BY <1>5 DEF lexer_vars, EachOnce
<1> QED
    BY <1>1, <1>2, <1>3, <1>4, <1>5 DEF LexerNext

\* No alias is replaced twice for one line, so that aliases which lead to each
\* other come to an end: expand_aliases asks both whether the name is the one
\* that was just replaced and whether it is being expanded.
THEOREM EachAliasOnce ==
    ASSUME NEW line \in Seq(STRING)
    PROVE  LexLine(line) /\ [][LexerNext]_lexer_vars => []EachOnce
<1>1. LexLine(line) => EachOnce
    BY DEF LexLine, EachOnce
<1>2. EachOnce /\ [LexerNext]_lexer_vars => EachOnce'
    BY StepKeepsEachOnce
<1> QED
    BY <1>1, <1>2, PTL

\* There are no more different ones than aliases.
LEMMA NoMoreThanAliases ==
    ASSUME NEW names \in Seq(DOMAIN aliases),
           \A i, j \in 1..Len(names) : names[i] = names[j] => i = j
    PROVE  Len(names) <= Cardinality(DOMAIN aliases)
<1> DEFINE n == Len(names)
<1>1. n \in Nat /\ names \in [1..n -> DOMAIN aliases]
    OBVIOUS
<1>2. names \in Injection(1..n, DOMAIN aliases)
    BY <1>1 DEF Injection, IsInjective
<1>3. Cardinality(1..n) <= Cardinality(DOMAIN aliases)
    BY <1>2, FS_Injection, AliasesAssumption
<1>4. Cardinality(1..n) = n
    <2>1. Cardinality(1..n) = IF 1 > n THEN 0 ELSE n - 1 + 1
        BY <1>1, FS_Interval
    <2> QED
        BY <1>1, <2>1
<1> QED
    BY <1>1, <1>3, <1>4

\* Whatever the line and the aliases are, lexing ends: every step of the loop
\* over the characters, the one that refuses the line included, leaves fewer of
\* them (the while let of lex, whose arms move the iterator in helpers of their
\* own, some of which read ahead with another idea of quotes), and the value of
\* an alias is lexed at most once for every alias there is.
THEOREM LexerAlwaysAdvances ==
    ASSUME NEW line \in Seq(STRING)
    PROVE  LexLine(line) /\ [][LexerNext]_lexer_vars => LexerAdvances
<1> DEFINE Advance ==
       CASE phase = "lexing" /\ chars # <<>> ->
              /\ Len(chars') < Len(chars)
              /\ expanded' = expanded /\ phase' \in {"lexing", "error"}
         [] phase = "lexing" /\ chars = <<>> ->
              expanded' = expanded /\ phase' = "lexed"
         [] phase = "lexed" ->
              \/ phase' = "aliased"
              \/ /\ phase' = "lexing"
                 /\ Len(expanded') = Len(expanded) + 1
                 /\ Len(expanded') <= Cardinality(DOMAIN aliases)
         [] OTHER -> TRUE
<1>1. LexLine(line) => Text /\ EachOnce
    BY DEF LexLine, Text, EachOnce
<1>2. Text /\ EachOnce /\ [LexerNext]_lexer_vars => Text' /\ EachOnce'
    BY StepKeepsText, StepKeepsEachOnce
<1>3. Text /\ EachOnce /\ [LexerNext]_lexer_vars => [Advance]_lexer_vars
    <2> SUFFICES ASSUME Text, EachOnce, LexerNext
                 PROVE  Advance
        OBVIOUS
    <2>1. CASE lex
        <3>1. phase = "lexing" /\ chars # <<>>
            BY <2>1 DEF lex
        <3>2. Len(chars') < Len(chars)
            BY <2>1, ArmShortens DEF lex, Text, Shortens
        <3>3. expanded' = expanded /\ phase' \in {"lexing", "error"}
            BY <2>1, ArmKeepsAliases DEF lex
        <3> QED
            BY <3>1, <3>2, <3>3
    <2>2. CASE EndOfInput
        BY <2>2 DEF EndOfInput
    <2>3. CASE expand_aliases
        <3> DEFINE name == tokens[1][2]
        <3>1. name \notin ToSet(expanded)
            BY <2>3 DEF expand_aliases, FollowsAlias, EachOnce, ToSet
        <3>2. phase = "lexed" /\ phase' = "lexing" /\ expanded' = Append(expanded, name)
            BY <2>3, <3>1 DEF expand_aliases
        <3>3. Len(expanded') = Len(expanded) + 1
            BY <3>2, AppendProperties DEF EachOnce
        <3>4. Len(expanded') <= Cardinality(DOMAIN aliases)
            <4>1. EachOnce'
                BY StepKeepsEachOnce
            <4> QED
                BY <4>1, NoMoreThanAliases DEF EachOnce
        <3> QED
            BY <3>2, <3>3, <3>4
    <2>4. CASE AliasesExpanded
        BY <2>4 DEF AliasesExpanded
    <2> QED
        BY <2>1, <2>2, <2>3, <2>4 DEF LexerNext
<1> QED
    BY <1>1, <1>2, <1>3, PTL DEF LexerAdvances
=============================================================================
