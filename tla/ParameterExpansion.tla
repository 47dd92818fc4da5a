------------------------- MODULE ParameterExpansion -------------------------
(***************************************************************************)
(* ${...}: the text between the braces is parsed into a variable's name    *)
(* and a modifier, and the modifier is applied to the variable's value     *)
(* (src/src/parameter_expansion.rs).  vars is the function from the names  *)
(* that get_var knows to their values.                                     *)
(***************************************************************************)
EXTENDS Characters

CONSTANT NameOrder          \* every variable name, sorted

-----------------------------------------------------------------------------
(* Patterns: "*" stands for any text, every other character for itself *)

glob_match(pattern, text) ==
    LET m[pi \in 0..Len(pattern), ti \in 0..Len(text)] ==
          IF pi = Len(pattern) THEN ti = Len(text)
          ELSE IF ti = Len(text) THEN \A i \in (pi + 1)..Len(pattern) : pattern[i] = "*"
          ELSE IF pattern[pi + 1] = "*" THEN m[pi + 1, ti] \/ m[pi, ti + 1]
          ELSE pattern[pi + 1] = text[ti + 1] /\ m[pi + 1, ti + 1]
    IN m[0, 0]

\* Where a matching prefix ends and where a matching suffix starts.
PrefixMatches(pattern, text) == {i \in 0..Len(text) : glob_match(pattern, SubSeq(text, 1, i))}
SuffixMatches(pattern, text) == {i \in 0..Len(text) : glob_match(pattern, Drop(text, i))}

Least(S, none) == IF S = {} THEN none ELSE CHOOSE i \in S : \A j \in S : i <= j
Greatest(S, none) == IF S = {} THEN none ELSE CHOOSE i \in S : \A j \in S : j <= i

\* Where the text is cut; at its very start or end when nothing matches, which
\* removes as little as the code's None does.
find_shortest_prefix_match(pattern, text) ==
    IF pattern = <<>> THEN 0 ELSE Least(PrefixMatches(pattern, text), 0)
\* Slip: the whole text does not count as a prefix.
longest_prefix_match_shorter(pattern, text) ==
    IF pattern = <<>> THEN 0 ELSE Greatest(PrefixMatches(pattern, text) \ {Len(text)}, 0)
find_longest_prefix_match(pattern, text) ==
    IF pattern = <<>> THEN 0 ELSE Greatest(PrefixMatches(pattern, text), 0)
find_shortest_suffix_match(pattern, text) ==
    IF pattern = <<>> THEN Len(text) ELSE Greatest(SuffixMatches(pattern, text), Len(text))
find_longest_suffix_match(pattern, text) ==
    IF pattern = <<>> THEN Len(text) ELSE Least(SuffixMatches(pattern, text), Len(text))

\* Every occurrence of a pattern is replaced, from the left; an empty pattern
\* occurs before every character and at the end.
Replace(text, pattern, replacement) ==
    LET At(i) == i + Len(pattern) <= Len(text) /\ SubSeq(text, i + 1, i + Len(pattern)) = pattern
        r[i \in 0..Len(text)] ==
          IF pattern = <<>> /\ i < Len(text) THEN replacement \o <<text[i + 1]>> \o r[i + 1]
          ELSE IF pattern = <<>> THEN replacement
          ELSE IF i = Len(text) THEN <<>>
          ELSE IF At(i) THEN replacement \o r[i + Len(pattern)]
          ELSE <<text[i + 1]>> \o r[i + 1]
    IN r[0]

-----------------------------------------------------------------------------
(* Parsing *)

\* What ParameterModifier's variants hold is args.
Modifier(kind, args) == Some([kind |-> kind, args |-> args])

\* name and replacement of /pattern/replacement
Substitution(kind, rest) ==
    LET n == First({i \in 1..Len(rest) : rest[i] = "/"}, rest)
    IN IF n > Len(rest) THEN Err
       ELSE Modifier(kind, <<SubSeq(rest, 1, n - 1), Drop(rest, n)>>)

\* :offset and :offset:length; what follows the second colon is ignored
\* unless it is a number.
SubstringOf(rest) ==
    LET n == First({i \in 1..Len(rest) : rest[i] = ":"}, rest)
        offset == SubSeq(rest, 1, n - 1)
        length == Drop(rest, n)
    IN IF ~AllDigits(offset) THEN Err
       ELSE IF AllDigits(length)
            THEN Modifier("SubstringWithLength", <<NumberOf(offset), NumberOf(length)>>)
            ELSE Modifier("Substring", <<NumberOf(offset)>>)

WordModifier == [c \in {"=", "-", "+", "?"} |->
    CASE c = "=" -> "AssignDefault" [] c = "-" -> "Default" [] c = "+" -> "Alternative"
      [] c = "?" -> "Error"]

parse_modifier(s) ==
    LET second == IF Len(s) > 1 THEN s[2] ELSE ""
    IN CASE s[1] = ":" /\ second \in DOMAIN WordModifier ->
                Modifier(WordModifier[second], <<Drop(s, 2)>>)
         [] s[1] = ":" /\ IsDigit(second) -> SubstringOf(Drop(s, 1))
         [] s[1] = ":" /\ second \notin DOMAIN WordModifier /\ ~IsDigit(second) -> Err
         [] s[1] = "#" /\ second = "#" -> Modifier("RemoveLongestPrefix", <<Drop(s, 2)>>)
         [] s[1] = "#" /\ second # "#" -> Modifier("RemoveShortestPrefix", <<Drop(s, 1)>>)
         [] s[1] = "%" /\ second = "%" -> Modifier("RemoveLongestSuffix", <<Drop(s, 2)>>)
         [] s[1] = "%" /\ second # "%" -> Modifier("RemoveShortestSuffix", <<Drop(s, 1)>>)
         [] s[1] = "/" /\ second = "/" -> Substitution("SubstituteAll", Drop(s, 2))
         [] s[1] = "/" /\ second # "/" -> Substitution("Substitute", Drop(s, 1))

\* ${name}, ${!name} and ${!prefix*}: a name without a modifier.
NoModifier(name) ==
    IF name[1] # "!" THEN Some([var_name |-> name, modifier |-> [kind |-> "None", args |-> <<>>]])
    ELSE IF name[Len(name)] = "*"
         THEN Some([var_name |-> SubSeq(name, 2, Len(name) - 1),
                    modifier |-> [kind |-> "IndirectPrefix", args |-> <<>>]])
         ELSE Some([var_name |-> Drop(name, 1), modifier |-> [kind |-> "Indirect", args |-> <<>>]])

WithModifier(name, modifier) ==
    IF modifier.ok THEN Some([var_name |-> name, modifier |-> modifier.value]) ELSE Err

\* content is not empty.
parse_parameter_expansion(content) ==
    LET n == First({i \in 1..Len(content) :
                      ~IsAlphanumeric(content[i]) /\ content[i] \notin {"!", "*"}}, content)
    IN IF n > Len(content) THEN NoModifier(content)
       ELSE IF content[n] \in {":", "#", "%", "/"}
            THEN WithModifier(SubSeq(content, 1, n - 1), parse_modifier(Drop(content, n - 1)))
            ELSE Err

-----------------------------------------------------------------------------
(* Expansion *)

\* The names that start with a prefix, in order, with a blank between them.
collect_variable_names_with_prefix(prefix, vars) ==
    LET names == SelectSeq(NameOrder, LAMBDA n : n \in DOMAIN vars /\ IsPrefix(prefix, n))
    IN FoldLeft(LAMBDA s, n : IF s = <<>> THEN n ELSE s \o <<" ">> \o n, <<>>, names)

Value(vars, name) == IF name \in DOMAIN vars THEN vars[name] ELSE <<>>

\* The value with a modifier that only changes a value applied to it.
Modified(kind, args, val) ==
    CASE kind = "Substring" -> Drop(val, args[1])
      [] kind = "SubstringWithLength" ->
                SubSeq(val, args[1] + 1, Least({args[1] + args[2], Len(val)}, 0))
      [] kind = "RemoveShortestPrefix" -> Drop(val, find_shortest_prefix_match(args[1], val))
      [] kind = "RemoveLongestPrefix" -> Drop(val, find_longest_prefix_match(args[1], val))
      [] kind = "RemoveShortestSuffix" -> SubSeq(val, 1, find_shortest_suffix_match(args[1], val))
      [] kind = "RemoveLongestSuffix" -> SubSeq(val, 1, find_longest_suffix_match(args[1], val))
      [] kind \in {"Substitute", "SubstituteAll"} -> Replace(val, args[1], args[2])

\* An unset variable is an error only to :? and, with nounset, to the plain form;
\* := takes its word and assigns nothing.
expand_parameter(expansion, vars, nounset) ==
    LET name == expansion.var_name
        kind == expansion.modifier.kind
        args == expansion.modifier.args
        val == Value(vars, name)
    IN CASE kind = "None" -> IF nounset /\ name \notin DOMAIN vars THEN Err ELSE Some(val)
         [] kind = "Indirect" -> Some(IF name \in DOMAIN vars THEN Value(vars, val) ELSE <<>>)
         [] kind = "IndirectPrefix" -> Some(collect_variable_names_with_prefix(name, vars))
         [] kind \in {"Default", "AssignDefault"} -> Some(IF val = <<>> THEN args[1] ELSE val)
         [] kind = "Alternative" -> Some(IF val = <<>> THEN <<>> ELSE args[1])
         [] kind = "Error" -> IF val = <<>> THEN Err ELSE Some(val)
         [] kind \notin {"None", "Indirect", "IndirectPrefix", "Default", "AssignDefault",
                         "Alternative", "Error"} ->
                Some(IF name \in DOMAIN vars THEN Modified(kind, args, val) ELSE <<>>)
=============================================================================
