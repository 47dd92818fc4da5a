---------------------------- MODULE WordExpansion ----------------------------
(***************************************************************************)
(* What the executor does to the words of a command just before it runs:   *)
(* variables, command substitutions and arithmetic, then file names        *)
(* (src/src/executor/expansion.rs).  Which parts of a word were quoted is  *)
(* no longer known.                                                        *)
(***************************************************************************)
EXTENDS Arithmetic

CONSTANTS
    CommandOutputs,         \* the output of every command that can be executed
    FileNames,              \* the files there are, sorted
    noglob                  \* the option -f

\* The text an arithmetic error leaves in the word.
ArithmeticError == <<"arithmetic error">>

SpecialNames == {"?", "$", "#", "*", "@", "!"}

\* The name after a $, which may be one special character.
NameAfter(s) ==
    IF s # <<>> /\ (s[1] \in SpecialNames \/ IsDigit(s[1])) THEN SubSeq(s, 1, 1)
    ELSE SubSeq(s, 1, First({i \in 1..Len(s) : ~IsAlphanumeric(s[i])}, s) - 1)

\* A name that is not set is nothing if it is special, and otherwise stays.
ValueOr(vars, name, literal) ==
    IF name \in DOMAIN vars THEN vars[name]
    ELSE IF name \in {<<c>> : c \in SpecialNames} \/ IsDigit(name[1]) THEN <<>> ELSE literal

\* Where the parenthesis that is open before a text is closed, quoted or not.
ClosingParen(s) == First({i \in 1..Len(s) : Depth(SubSeq(s, 1, i), "(", ")") = -1}, s)

-----------------------------------------------------------------------------
(* What a $ or a backquote at the start of a text stands for, and how many *)
(* characters that takes.  A panic is the character "panic".               *)

Expansion(text, n) == [text |-> text, n |-> n]

ExpandName(s, vars) ==
    LET name == NameAfter(Drop(s, 1))
    IN Expansion(IF name = <<>> THEN <<"$">> ELSE ValueOr(vars, name, <<"$">> \o name), 1 + Len(name))

\* ${name}, without any modifier; ${} loses its brace.
ExpandBraced(s, vars) ==
    LET rest == Drop(s, 2)
        n == First({i \in 1..Len(rest) : rest[i] = "}"}, rest)
        name == SubSeq(rest, 1, n - 1)
    IN Expansion(IF n > Len(rest) \/ name = <<>> THEN <<"$", "{">> \o name
                 ELSE ValueOr(vars, name, <<"$", "{">> \o name \o <<"}">>),
                 2 + n)

\* The variables of an expression; an unset one is 0.
VariableText(name, vars) ==
    IF name = <<>> THEN <<"$">> ELSE IF name \in DOMAIN vars THEN vars[name] ELSE <<"0">>
ArithmeticText(s, vars) ==
    LET p[i \in 1..(Len(s) + 1)] ==
          IF i > Len(s) THEN <<>>
          ELSE IF s[i] # "$" THEN <<s[i]>> \o p[i + 1]
          ELSE VariableText(NameAfter(Drop(s, i)), vars) \o p[i + 1 + Len(NameAfter(Drop(s, i)))]
    IN p[1]

ResultText(result) ==
    IF result.ok THEN ToChars(result.value) ELSE IF result = Panic THEN <<"panic">> ELSE ArithmeticError
ArithmeticResult(expr, vars) ==
    ResultText(evaluate_arithmetic_expression(ArithmeticText(expr, vars), vars))

\* $((...)); when only one parenthesis closes it, its text is kept twice.
ExpandArithmetic(s, vars) ==
    LET rest == Drop(s, 3)
        n == ClosingParen(rest)
        expr == SubSeq(rest, 1, n - 1)
        opened == <<"$", "(", "(">> \o expr
    IN IF n > Len(rest) THEN Expansion(opened, 3 + n)
       ELSE IF n < Len(rest) /\ rest[n + 1] = ")" THEN Expansion(ArithmeticResult(expr, vars), 4 + n)
       ELSE Expansion(opened \o <<")">> \o opened, 3 + n)

\* A command that cannot be lexed, parsed or executed stays as it is.
Output(command, literal) == IF command \in DOMAIN CommandOutputs THEN CommandOutputs[command] ELSE literal

ExpandCommand(s) ==
    LET rest == Drop(s, 2)
        n == ClosingParen(rest)
        command == SubSeq(rest, 1, n - 1)
    IN Expansion(Output(command, <<"$", "(">> \o command \o <<")">>), 2 + n)

ExpandBackquote(s) ==
    LET rest == Drop(s, 1)
        n == First({i \in 1..Len(rest) : rest[i] = "bq"}, rest)
        command == SubSeq(rest, 1, n - 1)
    IN Expansion(Output(command, <<"bq">> \o command \o <<"bq">>), 1 + n)

ExpandAt(s, vars) ==
    LET second == IF Len(s) > 1 THEN s[2] ELSE "end"
        third == IF Len(s) > 2 THEN s[3] ELSE "end"
    IN CASE s[1] = "bq" -> ExpandBackquote(s)
         [] s[1] = "$" /\ second = "(" /\ third = "(" -> ExpandArithmetic(s, vars)
         [] s[1] = "$" /\ second = "(" /\ third # "(" -> ExpandCommand(s)
         [] s[1] = "$" /\ second = "{" -> ExpandBraced(s, vars)
         [] s[1] = "$" /\ second \notin {"(", "{"} -> ExpandName(s, vars)
         [] s[1] \notin {"bq", "$"} -> Expansion(<<s[1]>>, 1)

\* What a value expands to is not expanded again.
Before(rest, i, at) == at.text \o rest[i + at.n]
expand_variables_in_string(s, vars) ==
    LET p[i \in 1..(Len(s) + 2)] ==
          IF i > Len(s) THEN <<>> ELSE Before(p, i, ExpandAt(Drop(s, i - 1), vars))
    IN p[1]

\* The files that match a word, or the word when none does.
expand_wildcards(word, matches(_)) ==
    IF noglob \/ ~\E i \in 1..Len(word) : word[i] \in {"*", "?", "["} THEN <<word>>
    ELSE LET files == SelectSeq(FileNames, LAMBDA f : f \in matches(word))
         IN IF files = <<>> THEN <<word>> ELSE files
=============================================================================
