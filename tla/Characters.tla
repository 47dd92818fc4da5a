----------------------------- MODULE Characters -----------------------------
(***************************************************************************)
(* Strings are sequences of characters, and a character is a TLA+ string.  *)
(* "if" and "done" are one character each: they stand for the letters of a *)
(* keyword, so that a word is a keyword when it is that one character.     *)
(***************************************************************************)
EXTENDS Integers, Sequences, SequencesExt

Digits == <<"0", "1", "2", "3", "4", "5", "6", "7", "8", "9">>
DigitChars == {Digits[i] : i \in 1..10}
Alphabet == <<"a", "b", "c", "d", "e", "f", "g", "h", "i", "j", "k", "l", "m", "n", "o", "p",
              "q", "r", "s", "t", "u", "v", "w", "x", "y", "z">>
Letters == {Alphabet[i] : i \in 1..26}
Words == {"if", "done"}
Keywords == {<<"if">>, <<"done">>}
Quotes == {"\"", "'"}
Blanks == {" ", "nl"}

IsDigit(c) == c \in DigitChars
IsAlphanumeric(c) == c \in Letters \cup DigitChars \cup Words \cup {"_"}
is_keyword(word) == word \in Keywords

\* s without its first n characters.
Drop(s, n) == SubSeq(s, n + 1, Len(s))

\* The least of a set of positions of s, and one past its end when there is none.
First(S, s) == IF S = {} THEN Len(s) + 1 ELSE CHOOSE i \in S : \A j \in S : i <= j

AllDigits(s) == s # <<>> /\ \A i \in 1..Len(s) : IsDigit(s[i])
DigitValue(c) == (CHOOSE i \in 1..10 : Digits[i] = c) - 1
\* Digits, with a sign or not.
IsNumber(s) == AllDigits(s) \/ (s # <<>> /\ s[1] = "-" /\ AllDigits(Tail(s)))
NumberOf(s) == FoldLeft(LAMBDA n, c : 10 * n + DigitValue(c), 0, s)
SignedNumberOf(s) == IF s[1] = "-" THEN -NumberOf(Tail(s)) ELSE NumberOf(s)

\* Without the blanks at its ends.
trim(s) ==
    LET inner == {i \in 1..Len(s) : s[i] \notin Blanks}
    IN IF inner = {} THEN <<>>
       ELSE SubSeq(s, CHOOSE i \in inner : \A j \in inner : i <= j,
                      CHOOSE i \in inner : \A j \in inner : j <= i)

\* The decimal digits of an integer.
ToChars(n) ==
    LET digits[k \in Nat] ==
          IF k < 10 THEN <<Digits[k + 1]>> ELSE Append(digits[k \div 10], Digits[(k % 10) + 1])
    IN IF n < 0 THEN <<"-">> \o digits[-n] ELSE digits[n]

\* How deep the brackets are at the end of a text.
Depth(s, open, close) ==
    FoldLeft(LAMBDA d, c : IF c = open THEN d + 1 ELSE IF c = close THEN d - 1 ELSE d, 0, s)

\* Some(v) and Err are the results of what may fail.
Some(v) == [ok |-> TRUE, value |-> v]
Err == [ok |-> FALSE, value |-> <<>>]
=============================================================================
