--------------------------- MODULE BraceExpansion ---------------------------
(***************************************************************************)
(* Brace expansion of the words of a line, after it was lexed              *)
(* (src/src/brace_expansion.rs).  Whether a word was quoted is no longer   *)
(* known then.                                                             *)
(***************************************************************************)
EXTENDS Characters

\* A range's ends lie on both sides of its only two dots.
Dots(s) == {i \in 1..(Len(s) - 1) : s[i] = "." /\ s[i + 1] = "."}
ContainsDots(s) == Dots(s) # {}

-----------------------------------------------------------------------------
(* Ranges and lists *)

IsLetter(s) == Len(s) = 1 /\ s[1] \in Letters
LetterIndex(c) == CHOOSE i \in 1..26 : Alphabet[i] = c

Ascending(from, to, At(_)) ==
    IF from > to THEN Err ELSE Some([i \in 1..(to - from + 1) |-> At(from + i - 1)])

expand_char_range(start, end) ==
    Ascending(LetterIndex(start), LetterIndex(end), LAMBDA i : <<Alphabet[i]>>)
expand_numeric_range(start, end) == Ascending(start, end, ToChars)

Between(start, end) ==
    IF IsLetter(start) /\ IsLetter(end) THEN expand_char_range(start[1], end[1])
    ELSE IF IsNumber(start) /\ IsNumber(end)
         THEN expand_numeric_range(SignedNumberOf(start), SignedNumberOf(end))
    ELSE Some(<<start, end>>)

\* The two dots are the first ones, at i, and there may be no others after them.
RangeAt(s, i) ==
    IF ContainsDots(Drop(s, i + 1)) THEN Err
    ELSE Between(trim(SubSeq(s, 1, i - 1)), trim(Drop(s, i + 1)))
expand_range(s) == RangeAt(s, First(Dots(s), s))

\* The parts between the commas that are in no inner braces; an empty part
\* at the end is none.
PartsBetween(s, ends) ==
    [k \in 1..Len(ends) |-> SubSeq(s, IF k = 1 THEN 1 ELSE ends[k - 1] + 1, ends[k] - 1)]
WithoutLastEmpty(parts) == IF Last(parts) = <<>> THEN Front(parts) ELSE parts
split_top_level(s) ==
    LET commas == {i \in 1..Len(s) : s[i] = "," /\ Depth(SubSeq(s, 1, i - 1), "{", "}") = 0}
    IN IF Depth(s, "{", "}") # 0 THEN Err
       ELSE Some(WithoutLastEmpty(PartsBetween(s, SetToSortSeq(commas \cup {Len(s) + 1}, <))))

\* The results of the parts one after the other; one error is an error.
Concatenated(results) ==
    FoldLeft(LAMBDA a, r : IF a.ok /\ r.ok THEN Some(a.value \o r.value) ELSE Err, Some(<<>>), results)

RECURSIVE parse_brace_content(_)
Alternatives(part) ==
    IF part # <<>> /\ part[1] = "{" /\ Last(part) = "}" /\ Len(part) > 1
    THEN parse_brace_content(SubSeq(part, 2, Len(part) - 1))
    ELSE IF ContainsDots(part) THEN expand_range(part)
    ELSE Some(<<part>>)
AllAlternatives(parts) ==
    IF parts.ok THEN Concatenated([k \in 1..Len(parts.value) |-> Alternatives(trim(parts.value[k]))]) ELSE Err
parse_brace_content(content) == AllAlternatives(split_top_level(content))

-----------------------------------------------------------------------------
(* Words *)

\* Where the brace that opens at i is closed; past the end when it is not.
Closing(word, i) ==
    First({j \in i..Len(word) : Depth(SubSeq(word, i, j), "{", "}") = 0}, word)

\* The outermost braces, as pairs of positions.
find_brace_patterns(word) ==
    LET p[i \in 1..(Len(word) + 2)] ==
          IF i > Len(word) THEN <<>>
          ELSE IF word[i] = "{" THEN <<<<i, Closing(word, i)>>>> \o p[Closing(word, i) + 1]
          ELSE p[i + 1]
    IN p[1]

\* The text before the first braces, one alternative of each, and the text
\* after the last ones: the texts between the braces are left out.
Each(results, alternatives) ==
    FlattenSeq([i \in 1..Len(results) |-> [k \in 1..Len(alternatives) |-> results[i] \o alternatives[k]]])
\* Slip: what stands after the last brace is lost.
generate_expansions_without_suffix(word, patterns, alternatives) ==
    FoldLeft(Each, <<SubSeq(word, 1, patterns[1][1] - 1)>>, alternatives)
generate_expansions(word, patterns, alternatives) ==
    Each(FoldLeft(Each, <<SubSeq(word, 1, patterns[1][1] - 1)>>, alternatives),
         <<Drop(word, Last(patterns)[2])>>)

AlternativesAt(word, pattern) ==
    IF pattern[2] > Len(word) THEN Err
    ELSE parse_brace_content(SubSeq(word, pattern[1] + 1, pattern[2] - 1))
Combine(word, patterns, parsed) ==
    IF \E k \in DOMAIN parsed : ~parsed[k].ok THEN Err
    ELSE Some(generate_expansions(word, patterns, [k \in DOMAIN parsed |-> parsed[k].value]))
ExpandPatterns(word, patterns) ==
    IF patterns = <<>> THEN Some(<<word>>)
    ELSE Combine(word, patterns, [k \in 1..Len(patterns) |-> AlternativesAt(word, patterns[k])])
expand_braces_in_word(word) ==
    IF ToSet(word) \cap {"{", "}"} # {"{", "}"} THEN Some(<<word>>)
    ELSE ExpandPatterns(word, find_brace_patterns(word))

\* Every token that is a word is replaced by the words it expands to.
AsWords(words) ==
    IF words.ok THEN Some([i \in 1..Len(words.value) |-> <<"Word", words.value[i]>>]) ELSE Err
expand_braces(tokens) ==
    Concatenated([k \in 1..Len(tokens) |->
      IF tokens[k][1] = "Word" THEN AsWords(expand_braces_in_word(tokens[k][2])) ELSE Some(<<tokens[k]>>)])
=============================================================================
