--------------------------- MODULE ExecutorProofs ---------------------------
(***************************************************************************)
(* Proofs about the executor, for any scripts, trees and limits.  The      *)
(* counters of ShellState are compared with the frames of the stack.  What *)
(* makes that inductive is that it also holds of every ShellState that a   *)
(* subshell has set aside, of the frames below that subshell: it is put    *)
(* back when the subshell ends.                                            *)
(***************************************************************************)
EXTENDS Executor, FiniteSetTheorems, SequenceTheorems, TLAPS

-----------------------------------------------------------------------------
(* Counting frames *)

LEMMA CountZero == \A s, kinds : Count(s, kinds, 0) = 0
<1> SUFFICES ASSUME NEW s, NEW kinds PROVE Count(s, kinds, 0) = 0
    OBVIOUS
<1>1. {i \in 1..0 : s[i].in \in kinds} = {}
    OBVIOUS
<1> QED
    BY <1>1, FS_EmptySet DEF Count

LEMMA CountNext ==
    ASSUME NEW s, NEW kinds, NEW n \in Nat
    PROVE  /\ Count(s, kinds, n) \in Nat
           /\ Count(s, kinds, n + 1) =
                Count(s, kinds, n) + (IF s[n + 1].in \in kinds THEN 1 ELSE 0)
<1> DEFINE S(m) == {i \in 1..m : s[i].in \in kinds}
<1>1. IsFiniteSet(S(n)) /\ Cardinality(S(n)) \in Nat
    <2>1. IsFiniteSet(1..n)
        BY FS_Interval
    <2>2. S(n) \in SUBSET (1..n)
        OBVIOUS
    <2> QED
        BY <2>1, <2>2, FS_Subset, FS_CardinalityType
<1>2. n + 1 \notin S(n)
    OBVIOUS
<1>3. /\ Count(s, kinds, n) = Cardinality(S(n))
      /\ Count(s, kinds, n + 1) = Cardinality(S(n + 1))
    BY DEF Count
<1>4. CASE s[n + 1].in \in kinds
    <2>1. S(n + 1) = S(n) \cup {n + 1}
        BY <1>4
    <2> HIDE DEF S
    <2>2. Cardinality(S(n) \cup {n + 1}) = Cardinality(S(n)) + 1
        BY <1>1, <1>2, FS_AddElement
    <2> QED
        BY <1>1, <1>3, <1>4, <2>1, <2>2
<1>5. CASE s[n + 1].in \notin kinds
    <2>1. S(n + 1) = S(n)
        BY <1>5
    <2> HIDE DEF S
    <2> QED
        BY <1>1, <1>3, <1>5, <2>1
<1> QED
    BY <1>4, <1>5

\* Only the kinds of the frames that are counted matter.
LEMMA CountSame ==
    ASSUME NEW s, NEW t, NEW kinds, NEW n \in Nat,
           \A i \in 1..n : s[i].in = t[i].in
    PROVE  Count(s, kinds, n) = Count(t, kinds, n)
<1>1. {i \in 1..n : s[i].in \in kinds} = {i \in 1..n : t[i].in \in kinds}
    OBVIOUS
<1> QED
    BY <1>1 DEF Count

LEMMA CountPositive ==
    ASSUME NEW s, NEW kinds, NEW n \in Nat, Count(s, kinds, n) # 0
    PROVE  \E i \in 1..n : s[i].in \in kinds
<1>1. SUFFICES ASSUME {i \in 1..n : s[i].in \in kinds} = {} PROVE FALSE
    OBVIOUS
<1> QED
    BY <1>1, FS_EmptySet DEF Count

-----------------------------------------------------------------------------
(* The inductive invariant *)

\* The depths in sh are those of the first n frames.
Agrees(s, sh, n) ==
    /\ sh.loop_depth = Count(s, LoopKinds, n)
    /\ sh.function_depth = Count(s, {"call"}, n)
    /\ IsReturning(sh) => sh.function_depth # 0

Balanced(s, sh) ==
    /\ Agrees(s, sh, Len(s))
    /\ \A i \in DOMAIN s : s[i].in = "subshell" => Agrees(s, s[i].parent, i - 1)

WellNested(s) ==
    /\ s \in Seq(Frame)
    /\ \A i \in DOMAIN s : s[i].in = "condition" =>
          i > 1 /\ s[i - 1].in \in {"while", "until"}
    /\ \A i \in DOMAIN s : s[i].in = "trap" => i = 1

Good(s, sh) == WellNested(s) /\ sh \in Shell /\ Balanced(s, sh)

IInv == TypeOK /\ Good(stack, shell)

-----------------------------------------------------------------------------
(* What the operations on the stack do to it *)

LEMMA Prefix ==
    ASSUME NEW S, NEW s \in Seq(S), NEW n \in 0..Len(s)
    PROVE  LET t == SubSeq(s, 1, n)
           IN  /\ t \in Seq(S) /\ Len(t) = n /\ DOMAIN t = 1..n
               /\ \A i \in 1..n : t[i] = s[i]
<1> DEFINE t == SubSeq(s, 1, n)
<1>1. \A i \in 1..n : s[i] \in S
    OBVIOUS
<1>2. t = [i \in 1..n |-> s[i]]
    OBVIOUS
<1>3. t \in Seq(S)
    BY <1>1
<1> HIDE DEF t
<1>4. Len(t) = n /\ DOMAIN t = 1..n
    BY <1>2, <1>3
<1>5. \A i \in 1..n : t[i] = s[i]
    BY <1>2
<1> QED
    BY <1>3, <1>4, <1>5 DEF t

LEMMA BelowCondition ==
    ASSUME NEW s, WellNested(s), NEW i \in 1..Len(s), s[i].in = "condition"
    PROVE  i - 1 \in 1..Len(s) /\ s[i - 1].in \in {"while", "until"}
<1>1. s \in Seq(Frame) /\ Len(s) \in Nat /\ DOMAIN s = 1..Len(s)
    BY DEF WellNested
<1>2. i > 1 /\ s[i - 1].in \in {"while", "until"}
    BY <1>1 DEF WellNested
<1> QED
    BY <1>1, <1>2

LoopsOf(frame) == IF frame.in \in LoopKinds THEN 1 ELSE 0
CallsOf(frame) == IF frame.in = "call" THEN 1 ELSE 0

LEMMA GoodSame ==
    ASSUME NEW s, NEW sh, NEW sh2 \in Shell, Good(s, sh),
           sh2.loop_depth = sh.loop_depth,
           sh2.function_depth = sh.function_depth,
           IsReturning(sh2) => sh2.function_depth # 0
    PROVE  Good(s, sh2)
BY DEF Good, Balanced, Agrees

LEMMA GoodPush ==
    ASSUME NEW s, NEW sh, NEW frame \in Frame, NEW sh2 \in Shell, Good(s, sh),
           frame.in = "condition" =>
              Len(s) > 0 /\ s[Len(s)].in \in {"while", "until"},
           frame.in = "trap" => s = <<>>,
           frame.in = "subshell" => frame.parent = sh,
           sh2.loop_depth = sh.loop_depth + LoopsOf(frame),
           sh2.function_depth = sh.function_depth + CallsOf(frame),
           IsReturning(sh2) => sh2.function_depth # 0
    PROVE  Good(Append(s, frame), sh2)
<1> DEFINE t == Append(s, frame)
           n == Len(s)
<1>1. /\ s \in Seq(Frame) /\ n \in Nat /\ DOMAIN s = 1..n
      /\ t \in Seq(Frame) /\ Len(t) = n + 1 /\ DOMAIN t = 1..(n + 1)
      /\ t[n + 1] = frame
      /\ \A i \in 1..n : t[i] = s[i]
    BY DEF Good, WellNested
<1> HIDE DEF t, n
<1>2. \A kinds : \A m \in 0..n : Count(t, kinds, m) = Count(s, kinds, m)
    BY <1>1, CountSame
<1>3. \A kinds : Count(t, kinds, n + 1) =
          Count(s, kinds, n) + (IF frame.in \in kinds THEN 1 ELSE 0)
    <2> TAKE kinds
    <2>1. n \in Nat /\ n \in 0..n
        BY <1>1
    <2>2. Count(t, kinds, n + 1) =
            Count(t, kinds, n) + (IF t[n + 1].in \in kinds THEN 1 ELSE 0)
        BY ONLY <2>1, CountNext
    <2>3. Count(t, kinds, n) = Count(s, kinds, n)
        BY <1>2, <2>1
    <2> QED
        BY <1>1, <2>2, <2>3
<1>4. Agrees(t, sh2, n + 1)
    BY <1>1, <1>3 DEF Good, Balanced, Agrees, LoopsOf, CallsOf, n
<1>5. ASSUME NEW i \in 1..(n + 1), t[i].in = "subshell"
      PROVE  Agrees(t, t[i].parent, i - 1)
    <2>1. CASE i = n + 1
        BY <1>1, <1>2, <1>5, <2>1 DEF Good, Balanced, Agrees, n
    <2>2. CASE i # n + 1
        <3>1. i \in 1..n /\ i - 1 \in 0..n
            BY <1>1, <2>2
        <3>2. Agrees(s, s[i].parent, i - 1)
            BY <1>1, <1>5, <3>1 DEF Good, Balanced
        <3> QED
            BY <1>1, <1>2, <3>1, <3>2 DEF Agrees
    <2> QED
        BY <2>1, <2>2
<1>6. ASSUME NEW i \in 1..(n + 1), t[i].in = "condition"
      PROVE  i > 1 /\ t[i - 1].in \in {"while", "until"}
    <2>1. CASE i = n + 1
        <3>1. n > 0 /\ s[n].in \in {"while", "until"}
            BY <1>1, <1>6, <2>1 DEF n
        <3>2. t[n] = s[n] /\ i - 1 = n
            BY <1>1, <2>1, <3>1
        <3> QED
            BY <1>1, <2>1, <3>1, <3>2
    <2>2. CASE i # n + 1
        <3>1. i \in 1..n /\ s[i].in = "condition"
            BY <1>1, <1>6, <2>2
        <3>2. i - 1 \in 1..n /\ s[i - 1].in \in {"while", "until"}
            BY <3>1, BelowCondition DEF Good, n
        <3> QED
            BY <1>1, <3>2
    <2> QED
        BY <2>1, <2>2
<1>7. ASSUME NEW i \in 1..(n + 1), t[i].in = "trap" PROVE i = 1
    <2>1. CASE i = n + 1
        <3>1. s = <<>>
            BY <1>1, <1>7, <2>1
        <3> QED
            BY <2>1, <3>1 DEF n
    <2>2. CASE i # n + 1
        BY <1>1, <1>7, <2>2 DEF Good, WellNested
    <2> QED
        BY <2>1, <2>2
<1> QED
    BY <1>1, <1>4, <1>5, <1>6, <1>7 DEF Good, WellNested, Balanced, t

LEMMA GoodPop ==
    ASSUME NEW s, NEW sh, NEW sh2 \in Shell, Good(s, sh), s # <<>>,
           LET top == s[Len(s)]
           IN  IF top.in = "subshell"
               THEN /\ sh2.loop_depth = top.parent.loop_depth
                    /\ sh2.function_depth = top.parent.function_depth
               ELSE /\ sh2.loop_depth = sh.loop_depth - LoopsOf(top)
                    /\ sh2.function_depth = sh.function_depth - CallsOf(top),
           IsReturning(sh2) => sh2.function_depth # 0
    PROVE  Good(SubSeq(s, 1, Len(s) - 1), sh2)
<1> DEFINE t == SubSeq(s, 1, Len(s) - 1)
           n == Len(s) - 1
<1>1. /\ s \in Seq(Frame) /\ n \in Nat /\ DOMAIN s = 1..(n + 1) /\ Len(s) = n + 1
      /\ t \in Seq(Frame) /\ Len(t) = n /\ DOMAIN t = 1..n
      /\ \A i \in 1..n : t[i] = s[i]
    <2>1. /\ s \in Seq(Frame) /\ n \in Nat
          /\ DOMAIN s = 1..(n + 1) /\ Len(s) = n + 1
        BY DEF Good, WellNested
    <2>2. n \in 0..Len(s) /\ t = SubSeq(s, 1, n)
        BY <2>1
    <2> HIDE DEF t, n
    <2>3. /\ t \in Seq(Frame) /\ Len(t) = n /\ DOMAIN t = 1..n
          /\ \A i \in 1..n : t[i] = s[i]
        BY <2>1, <2>2, Prefix
    <2> QED
        BY <2>1, <2>3
<1> HIDE DEF t, n
<1>2. \A kinds : \A m \in 0..n : Count(t, kinds, m) = Count(s, kinds, m)
    BY <1>1, CountSame
<1>3. \A kinds : /\ Count(s, kinds, n) \in Nat
                 /\ Count(s, kinds, n + 1) =
                      Count(s, kinds, n) + (IF s[n + 1].in \in kinds THEN 1 ELSE 0)
    <2> TAKE kinds
    <2>1. n \in Nat
        BY <1>1
    <2> QED
        BY ONLY <2>1, CountNext
<1>4. Agrees(t, sh2, n)
    <2>1. CASE s[n + 1].in = "subshell"
        <3>1. Agrees(s, s[n + 1].parent, n)
            BY <1>1, <2>1 DEF Good, Balanced
        <3> QED
            BY <1>1, <1>2, <2>1, <3>1 DEF Agrees
    <2>2. CASE s[n + 1].in # "subshell"
        <3>1. Agrees(s, sh, n + 1)
            BY <1>1 DEF Good, Balanced
        <3> QED
            BY <1>1, <1>2, <1>3, <2>2, <3>1 DEF Agrees, LoopsOf, CallsOf
    <2> QED
        BY <2>1, <2>2
<1>5. ASSUME NEW i \in 1..n, t[i].in = "subshell"
      PROVE  Agrees(t, t[i].parent, i - 1)
    <2>1. Agrees(s, s[i].parent, i - 1)
        BY <1>1, <1>5 DEF Good, Balanced
    <2>2. i - 1 \in 0..n
        BY <1>1
    <2> QED
        BY <1>1, <1>2, <2>1, <2>2 DEF Agrees
<1>6. ASSUME NEW i \in 1..n, t[i].in = "condition"
      PROVE  i > 1 /\ t[i - 1].in \in {"while", "until"}
    <2>1. i \in 1..Len(s) /\ s[i].in = "condition"
        BY <1>1, <1>6
    <2>2. i - 1 \in 1..Len(s) /\ s[i - 1].in \in {"while", "until"}
        BY <2>1, BelowCondition DEF Good
    <2> QED
        BY <1>1, <2>2
<1>7. ASSUME NEW i \in 1..n, t[i].in = "trap" PROVE i = 1
    <2>1. WellNested(s)
        BY DEF Good
    <2>2. i \in DOMAIN s /\ s[i].in = "trap"
        BY <1>1, <1>7
    <2> QED
        BY ONLY <2>1, <2>2 DEF WellNested
<1> QED
    BY <1>1, <1>4, <1>5, <1>6, <1>7 DEF Good, WellNested, Balanced, t

\* Frames change, but neither their kinds nor what a subshell will restore.
LEMMA GoodSameKinds ==
    ASSUME NEW s, NEW sh, NEW sh2 \in Shell, Good(s, sh),
           NEW t \in Seq(Frame), Len(t) = Len(s),
           \A i \in 1..Len(s) : t[i].in = s[i].in,
           \A i \in 1..Len(s) : t[i].in = "subshell" => t[i] = s[i],
           sh2.loop_depth = sh.loop_depth,
           sh2.function_depth = sh.function_depth,
           IsReturning(sh2) => sh2.function_depth # 0
    PROVE  Good(t, sh2)
<1> DEFINE n == Len(s)
<1>1. /\ s \in Seq(Frame) /\ n \in Nat /\ DOMAIN s = 1..n
      /\ t \in Seq(Frame) /\ Len(t) = n /\ DOMAIN t = 1..n
      /\ \A i \in 1..n : t[i].in = s[i].in
      /\ \A i \in 1..n : t[i].in = "subshell" => t[i] = s[i]
    BY DEF Good, WellNested
<1>2. \A kinds : \A m \in 0..n : Count(t, kinds, m) = Count(s, kinds, m)
    BY <1>1, CountSame
<1>3. Agrees(t, sh2, n)
    BY <1>1, <1>2 DEF Good, Balanced, Agrees
<1>4. ASSUME NEW i \in 1..n, t[i].in = "subshell"
      PROVE  Agrees(t, t[i].parent, i - 1)
    <2>1. Agrees(s, s[i].parent, i - 1)
        BY <1>1, <1>4 DEF Good, Balanced
    <2>2. i - 1 \in 0..n
        BY <1>1
    <2> QED
        BY <1>1, <1>2, <1>4, <2>1, <2>2 DEF Agrees
<1>5. ASSUME NEW i \in 1..n, t[i].in = "condition"
      PROVE  i > 1 /\ t[i - 1].in \in {"while", "until"}
    <2>1. s[i].in = "condition"
        BY <1>1, <1>5
    <2>2. i - 1 \in 1..n /\ s[i - 1].in \in {"while", "until"}
        BY <2>1, BelowCondition DEF Good
    <2> QED
        BY <1>1, <2>2
<1>6. ASSUME NEW i \in 1..n, t[i].in = "trap" PROVE i = 1
    <2>1. WellNested(s)
        BY DEF Good
    <2>2. i \in DOMAIN s /\ s[i].in = "trap"
        BY <1>1, <1>6
    <2> QED
        BY ONLY <2>1, <2>2 DEF WellNested
<1> HIDE DEF n
<1>7. WellNested(t)
    <2>1. t \in Seq(Frame) /\ DOMAIN t = 1..n
        BY <1>1
    <2>2. \A i \in 1..n : t[i].in = "condition" => i > 1 /\ t[i - 1].in \in {"while", "until"}
        BY <1>5
    <2>3. \A i \in 1..n : t[i].in = "trap" => i = 1
        BY <1>6
    <2> QED
        BY ONLY <2>1, <2>2, <2>3 DEF WellNested
<1>8. Balanced(t, sh2)
    <2>1. Len(t) = n /\ DOMAIN t = 1..n
        BY <1>1
    <2> QED
        BY ONLY <1>3, <1>4, <2>1, Zenon DEF Balanced
<1>9. sh2 \in Shell
    OBVIOUS
<1> QED
    BY ONLY <1>7, <1>8, <1>9 DEF Good

\* The top frame changes, but not its kind.
LEMMA GoodChange ==
    ASSUME NEW s, NEW sh, NEW sh2 \in Shell, Good(s, sh), s # <<>>,
           NEW frame \in Frame, frame.in = s[Len(s)].in, frame.in # "subshell",
           sh2.loop_depth = sh.loop_depth,
           sh2.function_depth = sh.function_depth,
           IsReturning(sh2) => sh2.function_depth # 0
    PROVE  Good([s EXCEPT ![Len(s)] = frame], sh2)
<1> DEFINE t == [s EXCEPT ![Len(s)] = frame]
<1>1. s \in Seq(Frame) /\ Len(s) \in Nat /\ DOMAIN s = 1..Len(s) /\ Len(s) > 0
    BY DEF Good, WellNested
<1>2. t \in Seq(Frame) /\ Len(t) = Len(s)
    BY <1>1
<1>3. \A i \in 1..Len(s) : t[i] = IF i = Len(s) THEN frame ELSE s[i]
    BY <1>1
<1>4. /\ \A i \in 1..Len(s) : t[i].in = s[i].in
      /\ \A i \in 1..Len(s) : t[i].in = "subshell" => t[i] = s[i]
    <2> HIDE DEF t
    <2> QED
        BY <1>3
<1> QED
    BY <1>2, <1>4, GoodSameKinds, Zenon

-----------------------------------------------------------------------------
(* What the operations on ShellState do to it *)

\* A change that has nothing to do with loops, calls and returns.
Steady(sh, sh2) ==
    /\ sh2 \in Shell
    /\ sh2.loop_depth = sh.loop_depth
    /\ sh2.function_depth = sh.function_depth
    /\ sh2.return_value = sh.return_value

LEMMA SteadyExit ==
    ASSUME NEW sh \in Shell, NEW code \in Nat
    PROVE  /\ Steady(sh, sh)
           /\ Steady(sh, RequestExit(sh, code))
           /\ Steady(sh, CheckErrexit(sh, code))
<1>1. Steady(sh, sh)
    BY DEF Steady
<1>2. Steady(sh, RequestExit(sh, code))
    BY DEF Steady, RequestExit, Shell
<1> QED
    BY <1>1, <1>2 DEF CheckErrexit

LEMMA SteadyStatus ==
    ASSUME NEW sh \in Shell, NEW code \in Nat
    PROVE  /\ Steady(sh, [sh EXCEPT !.last_exit_code = code])
           /\ Steady(sh, [sh EXCEPT !.break_level = code])
           /\ Steady(sh, [sh EXCEPT !.continue_level = code])
<1>1. Steady(sh, [sh EXCEPT !.last_exit_code = code])
    BY DEF Steady, Shell
<1>2. Steady(sh, [sh EXCEPT !.break_level = code])
    BY DEF Steady, Shell
<1>3. Steady(sh, [sh EXCEPT !.continue_level = code])
    BY DEF Steady, Shell
<1> QED
    BY <1>1, <1>2, <1>3

LEMMA SteadyFlags ==
    ASSUME NEW sh \in Shell, NEW flag \in BOOLEAN
    PROVE  /\ Steady(sh, [sh EXCEPT !.in_condition = flag])
           /\ Steady(sh, [sh EXCEPT !.in_logical_chain = flag])
           /\ Steady(sh, [sh EXCEPT !.in_negation = flag])
           /\ Steady(sh, [sh EXCEPT !.last_was_negation = flag])
<1>1. Steady(sh, [sh EXCEPT !.in_condition = flag])
    BY DEF Steady, Shell
<1>2. Steady(sh, [sh EXCEPT !.in_logical_chain = flag])
    BY DEF Steady, Shell
<1>3. Steady(sh, [sh EXCEPT !.in_negation = flag])
    BY DEF Steady, Shell
<1>4. Steady(sh, [sh EXCEPT !.last_was_negation = flag])
    BY DEF Steady, Shell
<1> QED
    BY <1>1, <1>2, <1>3, <1>4

LEMMA SteadyTwice ==
    ASSUME NEW sh, NEW sh2, NEW sh3, Steady(sh, sh2), Steady(sh2, sh3)
    PROVE  Steady(sh, sh3)
BY DEF Steady

LEMMA SteadyGood ==
    ASSUME NEW s, NEW sh, NEW sh2, Good(s, sh), Steady(sh, sh2)
    PROVE  Good(s, sh2)
BY GoodSame DEF Steady, Good, Balanced, Agrees, IsReturning

LEMMA SignalsSteady ==
    ASSUME NEW sh \in Shell, NEW sh2 \in AfterSignals(sh)
    PROVE  Steady(sh, sh2)
<1>1. CASE sh2 = sh
    BY <1>1 DEF Steady
<1>2. ASSUME NEW code \in HandlerExit, sh2 = RequestExit(sh, code)
      PROVE  Steady(sh, sh2)
    BY <1>2, SteadyExit, ExecutorAssumption
<1> QED
    BY <1>1, <1>2 DEF AfterSignals

\* A frame is counted as long as it is there.
LEMMA DepthsPositive ==
    ASSUME NEW s, NEW sh, Good(s, sh), s # <<>>
    PROVE  /\ s[Len(s)].in \in LoopKinds => sh.loop_depth - 1 \in Nat
           /\ s[Len(s)].in = "call" => sh.function_depth - 1 \in Nat
<1> DEFINE n == Len(s) - 1
<1>1. n \in Nat /\ Len(s) = n + 1
    BY DEF Good, WellNested
<1> HIDE DEF n
<1>2. \A kinds : /\ Count(s, kinds, n) \in Nat
                 /\ Count(s, kinds, n + 1) =
                      Count(s, kinds, n) + (IF s[n + 1].in \in kinds THEN 1 ELSE 0)
    <2> TAKE kinds
    <2>1. n \in Nat
        BY <1>1
    <2> QED
        BY ONLY <2>1, CountNext
<1>3. /\ sh.loop_depth = Count(s, LoopKinds, n + 1)
      /\ sh.function_depth = Count(s, {"call"}, n + 1)
    BY <1>1 DEF Good, Balanced, Agrees
<1>4. CASE s[Len(s)].in \in LoopKinds
    <2>1. /\ Count(s, LoopKinds, n + 1) = Count(s, LoopKinds, n) + 1
          /\ Count(s, LoopKinds, n) \in Nat
        BY <1>1, <1>2, <1>4
    <2> QED
        BY <1>3, <1>4, <2>1 DEF LoopKinds
<1>5. CASE s[Len(s)].in = "call"
    <2>1. /\ Count(s, {"call"}, n + 1) = Count(s, {"call"}, n) + 1
          /\ Count(s, {"call"}, n) \in Nat
        BY <1>1, <1>2, <1>5
    <2> QED
        BY <1>3, <1>5, <2>1 DEF LoopKinds
<1> QED
    BY <1>4, <1>5

\* Leaving a construct that is neither a loop, a call nor a subshell.
LEMMA LeaveSteady ==
    ASSUME NEW s, NEW sh, NEW sh2, Good(s, sh), s # <<>>, Steady(sh, sh2),
           s[Len(s)].in \notin LoopKinds \cup {"call", "subshell"}
    PROVE  Good(SubSeq(s, 1, Len(s) - 1), sh2)
<1>1. sh \in Shell /\ sh2 \in Shell /\ (IsReturning(sh) => sh.function_depth # 0)
    BY DEF Steady, Good, Balanced, Agrees
<1>2. /\ sh2.loop_depth = sh.loop_depth /\ sh2.function_depth = sh.function_depth
      /\ IsReturning(sh2) <=> IsReturning(sh)
    BY DEF Steady, IsReturning
<1>3. sh.loop_depth \in Nat /\ sh.function_depth \in Nat
    BY ONLY <1>1 DEF Shell
<1>4. LoopsOf(s[Len(s)]) = 0 /\ CallsOf(s[Len(s)]) = 0
    BY DEF LoopsOf, CallsOf
<1>5. /\ sh2.loop_depth = sh.loop_depth - LoopsOf(s[Len(s)])
      /\ sh2.function_depth = sh.function_depth - CallsOf(s[Len(s)])
    BY <1>2, <1>3, <1>4
<1> QED
    BY <1>1, <1>2, <1>5, GoodPop

LEMMA LeaveLoop ==
    ASSUME NEW s, NEW sh, NEW sh2, Good(s, sh), s # <<>>, Steady(sh, sh2),
           s[Len(s)].in \in LoopKinds
    PROVE  Good(SubSeq(s, 1, Len(s) - 1), ExitLoop(sh2))
<1>1. sh.loop_depth - 1 \in Nat
    BY DepthsPositive
<1>2. /\ ExitLoop(sh2) \in Shell
      /\ ExitLoop(sh2).loop_depth = sh.loop_depth - 1
      /\ ExitLoop(sh2).function_depth = sh.function_depth
      /\ ExitLoop(sh2).return_value = sh.return_value
    <2>1. sh2 \in Shell /\ sh2.loop_depth - 1 \in Nat
        BY <1>1 DEF Steady
    <2>2. ExitLoop(sh2) = [sh2 EXCEPT !.loop_depth = sh2.loop_depth - 1]
        <3>1. sh2.loop_depth \in Nat
            BY ONLY <2>1 DEF Shell
        <3>2. sh2.loop_depth > 0
            BY <2>1, <3>1
        <3> QED
            BY <3>2 DEF ExitLoop
    <2>3. [sh2 EXCEPT !.loop_depth = sh2.loop_depth - 1] \in Shell
        BY <2>1 DEF Shell
    <2> QED
        BY <2>1, <2>2, <2>3 DEF Steady, Shell
<1>3. s[Len(s)].in # "subshell" /\ s[Len(s)].in # "call"
    BY DEF LoopKinds
<1>4. IsReturning(ExitLoop(sh2)) => ExitLoop(sh2).function_depth # 0
    BY <1>2 DEF Good, Balanced, Agrees, IsReturning
<1>5. /\ ExitLoop(sh2).loop_depth = sh.loop_depth - LoopsOf(s[Len(s)])
      /\ ExitLoop(sh2).function_depth = sh.function_depth - CallsOf(s[Len(s)])
    BY <1>2, <1>3 DEF LoopsOf, CallsOf, Good, Shell
<1> QED
    BY <1>2, <1>3, <1>4, <1>5, GoodPop

\* Entering a construct that is neither a loop, a call nor a subshell.
LEMMA EnterSteady ==
    ASSUME NEW s, NEW sh, NEW sh2, Good(s, sh), Steady(sh, sh2),
           NEW frame \in Frame,
           frame.in \notin LoopKinds \cup {"call", "subshell"},
           frame.in = "condition" =>
              Len(s) > 0 /\ s[Len(s)].in \in {"while", "until"},
           frame.in = "trap" => s = <<>>
    PROVE  Good(Append(s, frame), sh2)
<1>1. /\ sh2 \in Shell
      /\ sh2.loop_depth = sh.loop_depth + LoopsOf(frame)
      /\ sh2.function_depth = sh.function_depth + CallsOf(frame)
      /\ IsReturning(sh2) => sh2.function_depth # 0
    BY DEF Steady, Good, Balanced, Agrees, Shell, LoopsOf, CallsOf, IsReturning
<1> QED
    BY <1>1, GoodPush

LEMMA EnterLoop ==
    ASSUME NEW s, NEW sh, Good(s, sh), NEW frame \in Frame,
           frame.in \in LoopKinds
    PROVE  Good(Append(s, frame), [sh EXCEPT !.loop_depth = @ + 1])
<1> DEFINE sh2 == [sh EXCEPT !.loop_depth = @ + 1]
<1>1. /\ sh2 \in Shell
      /\ sh2.loop_depth = sh.loop_depth + 1
      /\ sh2.function_depth = sh.function_depth
      /\ sh2.return_value = sh.return_value
    BY DEF Good, Shell
<1> HIDE DEF sh2
<1>2. /\ frame.in # "condition" /\ frame.in # "trap"
      /\ frame.in # "subshell" /\ frame.in # "call"
    BY DEF LoopKinds
<1>3. /\ sh2.loop_depth = sh.loop_depth + LoopsOf(frame)
      /\ sh2.function_depth = sh.function_depth + CallsOf(frame)
    BY <1>1, <1>2 DEF LoopsOf, CallsOf, Good, Shell
<1>4. IsReturning(sh2) => sh2.function_depth # 0
    BY <1>1 DEF Good, Balanced, Agrees, IsReturning
<1>5. Good(Append(s, frame), sh2)
    BY <1>1, <1>2, <1>3, <1>4, GoodPush
<1> QED
    BY <1>5 DEF sh2

-----------------------------------------------------------------------------
(* What is the same for every step inside a line or a trap *)

LEMMA FocusCases ==
    /\ \A tree \in Tree : /\ Execute(tree) \in Focus
                          /\ Execute(tree).do = "execute"
    /\ \A code \in Nat : Result(code) \in Focus /\ Result(code).do = "result"
    /\ NextTurn \in Focus /\ NextTurn.do = "turn"
BY DEF Execute, Result, NextTurn, Focus

LEMMA FocusParts ==
    ASSUME NEW f \in Focus
    PROVE  /\ f.do = "execute" => f.tree \in Tree
           /\ f.do = "result" => f.code \in Nat
           /\ f.do \in {"idle", "turn", "execute", "result"}
BY DEF Focus

LEMMA FrameParts ==
    ASSUME NEW f \in Frame
    PROVE  /\ f.in = "sequence" => f.rest \in Seq(Tree)
           /\ f.in = "if" => f.tree \in TreesOf({"if"})
           /\ f.in \in {"and", "or"} => f.right \in Tree
           /\ f.in = "for" => f.tree \in TreesOf({"for"}) /\ f.left \in Nat
           /\ f.in \in {"while", "until"} => f.tree \in TreesOf({"while", "until"})
           /\ f.in \in LoopKinds => f.code \in Nat
           /\ f.in = "subshell" => f.parent \in Shell
           /\ f.in = "trap" => f.last \in Nat
BY DEF Frame, LoopKinds

LogEntry == [name : Name \cup {"signal", "TERM"}, code : Nat]

LEMMA Resumed ==
    ASSUME IInv, NEW kinds, Resuming(kinds)
    PROVE  /\ focus.code \in Nat /\ focus = Result(focus.code)
           /\ stack # <<>> /\ Len(stack) \in Nat \ {0}
           /\ Top \in Frame /\ Top = stack[Len(stack)] /\ Top.in \in kinds
           /\ focus.do # "idle"
<1>1. focus \in Focus /\ stack \in Seq(Frame)
    BY DEF IInv, TypeOK
<1>2. focus.do = "result" /\ Len(stack) > 0 /\ Top.in \in kinds
    BY DEF Resuming
<1>3. focus.code \in Nat /\ focus = Result(focus.code)
    BY <1>1, <1>2 DEF Focus, Result
<1> QED
    BY <1>1, <1>2, <1>3 DEF Top

LEMMA Started ==
    ASSUME IInv, NEW op, Executing(op)
    PROVE  focus.tree \in TreesOf({op}) /\ focus.do # "idle"
BY DEF IInv, TypeOK, Focus, Executing, TreesOf

LEMMA InnerStep ==
    ASSUME IInv, focus.do # "idle", UNCHANGED scriptVars,
           Good(stack', shell'),
           focus' \in Focus, focus'.do # "idle",
           focus'.do = "turn" => stack' # <<>> /\ stack'[Len(stack')].in \in LoopKinds,
           log' \in Seq(LogEntry)
    PROVE  IInv'
<1>1. stack' \in Seq(Frame) /\ shell' \in Shell
    BY DEF Good, WellNested
<1>2. focus # Idle /\ focus' # Idle
    BY DEF Idle
<1>3. focus'.do = "turn" => Len(stack') > 0 /\ Top'.in \in LoopKinds
    BY <1>1 DEF Top
<1>4. \A i \in DOMAIN stack' : stack'[i].in = "condition" =>
          i > 1 /\ stack'[i - 1].in \in {"while", "until"}
    BY DEF Good, WellNested
<1> QED
    BY <1>1, <1>2, <1>3, <1>4 DEF IInv, TypeOK, scriptVars, LogEntry

LEMMA InvParts ==
    ASSUME IInv
    PROVE  /\ Good(stack, shell) /\ shell \in Shell
           /\ stack \in Seq(Frame) /\ Len(stack) \in Nat
           /\ focus \in Focus /\ log \in Seq(LogEntry)
BY DEF IInv, TypeOK, LogEntry

-----------------------------------------------------------------------------
(* Simple commands *)

LEMMA StepSimple ==
    ASSUME IInv, Simple
    PROVE  IInv'
<1> USE InvParts
<1>1. CASE RunCommand
    <2>1. focus.tree \in TreesOf({"command"}) /\ focus.do # "idle"
        BY <1>1, Started DEF RunCommand
    <2>2. focus.tree.name \in Name
        BY <2>1, TreeAssumption
    <2>3. PICK code \in Nat : Executed(code) /\ shell' \in {shell, CheckErrexit(shell, code)}
        BY <1>1, ExecutorAssumption DEF RunCommand
    <2>4. Good(stack, shell')
        <3>1. shell \in Shell /\ code \in Nat
            OBVIOUS
        <3>2. Steady(shell, shell)
            BY ONLY <3>1, SteadyExit
        <3>3. Steady(shell, CheckErrexit(shell, code))
            BY ONLY <3>1, SteadyExit
        <3> QED
            BY <2>3, <3>2, <3>3, SteadyGood
    <2>5. [name |-> focus.tree.name, code |-> code] \in LogEntry
        BY <2>2 DEF LogEntry
    <2>6. log' \in Seq(LogEntry)
        BY <2>3, <2>5 DEF Executed
    <2>7. focus' \in Focus /\ focus'.do = "result"
        BY <2>3, FocusCases DEF Executed
    <2> QED
        BY <1>1, <2>1, <2>4, <2>6, <2>7, InnerStep DEF RunCommand
<1>2. CASE Break \/ Continue
    <2>1. focus.tree \in TreesOf({"break", "continue"}) /\ focus.do # "idle"
        BY <1>2, Started DEF Break, Continue, TreesOf
    <2>2. focus.tree.level \in Nat
        BY <2>1, TreeAssumption
    <2>3. Steady(shell, shell')
        BY <1>2, <2>2, SteadyExit, SteadyStatus DEF Break, Continue
    <2>4. Good(stack, shell')
        BY <2>3, SteadyGood
    <2>5. focus' \in Focus /\ focus'.do = "result"
        BY <1>2, FocusCases DEF Break, Continue
    <2> QED
        BY <1>2, <2>1, <2>4, <2>5, InnerStep DEF Break, Continue
<1>3. CASE Exit
    <2>1. focus.tree \in TreesOf({"exit", "return"}) /\ focus.do # "idle"
        BY <1>3, Started DEF Exit, TreesOf
    <2>2. focus.tree.code \in Nat \cup {NoCode} /\ shell.last_exit_code \in Nat
        BY <2>1, TreeAssumption DEF Shell
    <2>3. PICK code \in Nat : shell' = RequestExit(shell, code) /\ focus' = Result(code)
        BY <1>3, <2>2 DEF Exit
    <2>4. Good(stack, shell')
        BY <2>3, SteadyExit, SteadyStatus, SteadyFlags, SteadyGood
    <2>5. focus' \in Focus /\ focus'.do = "result"
        BY <2>3, FocusCases
    <2> QED
        BY <1>3, <2>1, <2>4, <2>5, InnerStep DEF Exit
<1>4. CASE Return
    <2>1. focus.tree \in TreesOf({"exit", "return"}) /\ focus.do # "idle"
        BY <1>4, Started DEF Return, TreesOf
    <2>2. focus.tree.code \in Nat \cup {NoCode}
        BY <2>1, TreeAssumption
    <2>3. CASE shell.function_depth = 0
        <3>1. Good(stack, shell') /\ focus' = Result(1)
            BY <1>4, <2>3 DEF Return
        <3> QED
            BY <1>4, <2>1, <3>1, FocusCases, InnerStep DEF Return
    <2>4. CASE shell.function_depth # 0
        <3>1. PICK code \in Nat : /\ shell' = [shell EXCEPT !.return_value = code]
                                  /\ focus' = Result(code)
            BY <1>4, <2>2, <2>4 DEF Return
        <3>2. /\ shell' \in Shell
              /\ shell'.loop_depth = shell.loop_depth
              /\ shell'.function_depth = shell.function_depth
            BY <3>1 DEF Shell
        <3>3. Good(stack, shell')
            BY <2>4, <3>2, GoodSame
        <3>4. focus' \in Focus /\ focus'.do = "result"
            BY <3>1, FocusCases
        <3> QED
            BY <1>4, <2>1, <3>3, <3>4, InnerStep DEF Return
    <2> QED
        BY <2>3, <2>4
<1> QED
    BY <1>1, <1>2, <1>3, <1>4 DEF Simple

-----------------------------------------------------------------------------
(* Lists *)

\* What is common to the steps that enter a construct.
LEMMA EnterStep ==
    ASSUME IInv, focus.do # "idle", UNCHANGED <<log, scriptVars>>,
           NEW frame \in Frame, Enter(frame),
           frame.in \notin LoopKinds \cup {"call", "subshell", "trap"},
           frame.in = "condition" =>
              Len(stack) > 0 /\ stack[Len(stack)].in \in {"while", "until"},
           Steady(shell, shell'),
           NEW tree \in Tree, focus' = Execute(tree)
    PROVE  IInv'
<1>1. Good(stack', shell')
    BY InvParts, EnterSteady DEF Enter
<1>2. focus' \in Focus /\ focus'.do = "execute"
    BY FocusCases
<1> QED
    BY <1>1, <1>2, InvParts, InnerStep

\* What is common to the steps that leave a construct, no loop, call or
\* subshell, with a result or for another part of it.
LEMMA LeaveStep ==
    ASSUME IInv, UNCHANGED <<log, scriptVars>>,
           NEW kinds, Resuming(kinds),
           kinds \cap (LoopKinds \cup {"call", "subshell"}) = {},
           Leave, Steady(shell, shell'),
           focus' \in Focus, focus'.do \in {"execute", "result"}
    PROVE  IInv'
<1>1. stack # <<>> /\ Top \in Frame /\ Top.in \in kinds /\ focus.do # "idle"
    BY Resumed
<1>2. stack[Len(stack)].in \notin LoopKinds \cup {"call", "subshell"}
    BY <1>1 DEF Top
<1>3. Good(stack', shell')
    BY <1>1, <1>2, InvParts, LeaveSteady DEF Leave, Below
<1> QED
    BY <1>1, <1>3, InvParts, InnerStep

LEMMA SequencePart ==
    ASSUME NEW parts \in Seq(Tree) \ {<<>>}
    PROVE  Head(parts) \in Tree /\ Tail(parts) \in Seq(Tree)
OBVIOUS

LEMMA StepSequence ==
    ASSUME IInv, EnterSequence \/ AfterPart
    PROVE  IInv'
<1> USE InvParts
<1>1. CASE EnterSequence
    <2>1. focus.tree \in TreesOf({"sequence"}) /\ focus.do # "idle"
        BY <1>1, Started DEF EnterSequence
    <2>2. focus.tree.parts \in Seq(Tree) \ {<<>>}
        BY <2>1, TreeAssumption
    <2> DEFINE frame == [in |-> "sequence", rest |-> Tail(focus.tree.parts)]
    <2>3. frame \in Frame /\ frame.in = "sequence"
        BY <2>2, SequencePart DEF Frame
    <2>4. Steady(shell, shell')
        BY <1>1, SteadyExit, SteadyStatus, SteadyFlags DEF EnterSequence
    <2>5. Head(focus.tree.parts) \in Tree
        BY <2>2, SequencePart
    <2>6. Enter(frame) /\ focus' = Execute(Head(focus.tree.parts))
        BY <1>1 DEF EnterSequence
    <2> HIDE DEF frame
    <2> QED
        BY <1>1, <2>1, <2>3, <2>4, <2>5, <2>6, EnterStep DEF EnterSequence, LoopKinds
<1>2. CASE AfterPart
    <2>1. Resuming({"sequence"}) /\ UNCHANGED <<log, scriptVars>>
        BY <1>2 DEF AfterPart
    <2>2. /\ focus.code \in Nat /\ focus = Result(focus.code) /\ focus.do # "idle"
          /\ stack # <<>> /\ Len(stack) \in Nat \ {0}
          /\ Top \in Frame /\ Top = stack[Len(stack)] /\ Top.in = "sequence"
        BY <2>1, Resumed
    <2> DEFINE GoesOn == /\ Top.rest # <<>>
                         /\ stack' = [stack EXCEPT ![Len(stack)].rest = Tail(@)]
                         /\ shell' = [shell EXCEPT !.last_was_negation = FALSE]
                         /\ focus' = Execute(Head(Top.rest))
    <2>3. CASE ~ GoesOn
        <3>1. /\ Leave
              /\ shell' \in {shell, RequestExit(shell, focus.code)}
              /\ focus' \in {focus, Result(Unwound(shell, focus.code))}
            BY <1>2, <2>3 DEF AfterPart
        <3> HIDE DEF GoesOn
        <3>2. Steady(shell, shell')
            BY <2>2, <3>1, SteadyExit, SteadyStatus, SteadyFlags
        <3>3. Unwound(shell, focus.code) \in Nat
            BY <2>2 DEF Unwound, Shell
        <3>4. focus' \in Focus /\ focus'.do = "result"
            BY <2>2, <3>1, <3>3, FocusCases
        <3> QED
            BY <2>1, <3>1, <3>2, <3>4, LeaveStep DEF LoopKinds
    <2>4. CASE GoesOn
        <3>1. Top.rest \in Seq(Tree) \ {<<>>}
            BY <2>2, <2>4, FrameParts
        <3> DEFINE frame == [Top EXCEPT !.rest = Tail(@)]
        <3>2. Top \in [in : {"sequence"}, rest : Seq(Tree)]
            BY <2>2 DEF Frame
        <3>3. frame \in [in : {"sequence"}, rest : Seq(Tree)]
            BY <3>1, <3>2, SequencePart
        <3>4. frame \in Frame /\ frame.in = "sequence"
            BY <3>3 DEF Frame
        <3>5. stack' = [stack EXCEPT ![Len(stack)] = frame]
            BY <2>2, <2>4
        <3> HIDE DEF frame
        <3>6. Steady(shell, shell')
            BY <2>4, SteadyExit, SteadyStatus, SteadyFlags
        <3>7. IsReturning(shell') => shell'.function_depth # 0
            BY <3>6 DEF Steady, IsReturning, Good, Balanced, Agrees
        <3>8. Good(stack', shell')
            BY <2>2, <3>4, <3>5, <3>6, <3>7, GoodChange DEF Steady
        <3>9. focus' \in Focus /\ focus'.do = "execute"
            BY <2>4, <3>1, SequencePart, FocusCases
        <3> QED
            BY <2>1, <2>2, <3>8, <3>9, InnerStep
    <2> QED
        BY <2>3, <2>4
<1> QED
    BY <1>1, <1>2

LEMMA StepConditions ==
    ASSUME IInv, EnterIf \/ AfterCondition \/ EnterNegation \/ AfterNegated
    PROVE  IInv'
<1> USE InvParts
<1>1. CASE EnterIf
    <2>1. focus.tree \in TreesOf({"if"}) /\ focus.do # "idle"
        BY <1>1, Started DEF EnterIf
    <2> DEFINE frame == [in |-> "if", tree |-> focus.tree]
    <2>2. frame \in Frame /\ frame.in = "if"
        BY <2>1 DEF Frame
    <2>3. focus.tree.condition \in Tree
        BY <2>1, TreeAssumption
    <2>4. Steady(shell, shell')
        BY <1>1, SteadyExit, SteadyStatus, SteadyFlags DEF EnterIf
    <2>5. Enter(frame) /\ focus' = Execute(focus.tree.condition)
        BY <1>1 DEF EnterIf
    <2> HIDE DEF frame
    <2> QED
        BY <1>1, <2>1, <2>2, <2>3, <2>4, <2>5, EnterStep DEF EnterIf, LoopKinds
<1>2. CASE AfterCondition
    <2>1. Resuming({"if"}) /\ UNCHANGED <<log, scriptVars>> /\ Leave
        BY <1>2 DEF AfterCondition
    <2>2. Top \in Frame /\ Top.in = "if"
        BY <2>1, Resumed
    <2>3. Top.tree.then \in Tree /\ Top.tree.else \in Tree \cup {NoTree}
        BY <2>2, FrameParts, TreeAssumption
    <2>4. Steady(shell, shell')
        BY <1>2, SteadyExit, SteadyStatus, SteadyFlags DEF AfterCondition
    <2>5. focus' \in Focus /\ focus'.do \in {"execute", "result"}
        BY <1>2, <2>3, FocusCases DEF AfterCondition
    <2> QED
        BY <2>1, <2>4, <2>5, LeaveStep DEF LoopKinds
<1>3. CASE EnterNegation
    <2>1. focus.tree \in TreesOf({"negation"}) /\ focus.do # "idle"
        BY <1>3, Started DEF EnterNegation
    <2> DEFINE frame == [in |-> "negation"]
    <2>2. frame \in Frame /\ frame.in = "negation"
        BY DEF Frame
    <2>3. focus.tree.command \in Tree
        BY <2>1, TreeAssumption
    <2>4. Steady(shell, shell')
        BY <1>3, SteadyExit, SteadyStatus, SteadyFlags DEF EnterNegation
    <2>5. Enter(frame) /\ focus' = Execute(focus.tree.command)
        BY <1>3 DEF EnterNegation
    <2> HIDE DEF frame
    <2> QED
        BY <1>3, <2>1, <2>2, <2>3, <2>4, <2>5, EnterStep DEF EnterNegation, LoopKinds
<1>4. CASE AfterNegated
    <2>1. Resuming({"negation"}) /\ UNCHANGED <<log, scriptVars>> /\ Leave
        BY <1>4 DEF AfterNegated
    <2>2. PICK code \in Nat :
              /\ shell' = [shell EXCEPT !.in_negation = FALSE,
                                        !.last_was_negation = TRUE,
                                        !.last_exit_code = code]
              /\ focus' = Result(code)
        BY <1>4 DEF AfterNegated
    <2>3. Steady(shell, shell')
        BY <2>2 DEF Steady, Shell
    <2>4. focus' \in Focus /\ focus'.do = "result"
        BY <2>2, FocusCases
    <2> QED
        BY <2>1, <2>3, <2>4, LeaveStep DEF LoopKinds
<1> QED
    BY <1>1, <1>2, <1>3, <1>4

LEMMA StepChain ==
    ASSUME IInv, EnterChain \/ AfterLeft \/ AfterRight
    PROVE  IInv'
<1> USE InvParts
<1>1. CASE EnterChain
    <2>1. /\ focus.tree \in TreesOf({"and", "or"}) /\ focus.do # "idle"
          /\ focus.tree.op \in {"and", "or"}
        BY <1>1, Started DEF EnterChain, TreesOf
    <2>2. focus.tree.left \in Tree /\ focus.tree.right \in Tree
        BY <2>1, TreeAssumption
    <2> DEFINE frame == [in |-> focus.tree.op, right |-> focus.tree.right]
    <2>3. frame \in Frame /\ frame.in \in {"and", "or"}
        BY <2>1, <2>2 DEF Frame
    <2>4. Steady(shell, shell')
        BY <1>1, SteadyExit, SteadyStatus, SteadyFlags DEF EnterChain
    <2>5. Enter(frame) /\ focus' = Execute(focus.tree.left)
        BY <1>1 DEF EnterChain
    <2> HIDE DEF frame
    <2>6. frame.in \notin LoopKinds \cup {"call", "subshell", "trap"} /\ frame.in # "condition"
        BY <2>3 DEF LoopKinds
    <2> QED
        BY <1>1, <2>1, <2>2, <2>3, <2>4, <2>5, <2>6, EnterStep DEF EnterChain
<1>2. CASE AfterLeft
    <2>1. Resuming({"and", "or"}) /\ UNCHANGED <<log, scriptVars>>
        BY <1>2 DEF AfterLeft
    <2>2. /\ focus.code \in Nat /\ focus = Result(focus.code) /\ focus.do # "idle"
          /\ stack # <<>> /\ Len(stack) \in Nat \ {0}
          /\ Top \in Frame /\ Top = stack[Len(stack)] /\ Top.in \in {"and", "or"}
        BY <2>1, Resumed
    <2> DEFINE GoesOn == ~ Unwinding(shell) /\ (Top.in = "and") = (focus.code = 0)
    <2>3. CASE GoesOn
        <3> DEFINE frame == [in |-> "right"]
        <3>1. /\ UNCHANGED shell /\ focus' = Execute(Top.right)
              /\ stack' = Append(Below, frame)
              /\ Top.right \in Tree
            BY <1>2, <2>2, <2>3, FrameParts DEF AfterLeft
        <3>2. Top.in \notin LoopKinds \cup {"call", "subshell"}
            BY <2>2 DEF LoopKinds
        <3>3. Steady(shell, shell) /\ Steady(shell, shell')
            BY <3>1, SteadyExit, SteadyStatus, SteadyFlags
        <3>4. Good(Below, shell)
            BY <2>2, <3>2, <3>3, LeaveSteady DEF Below
        <3>5. frame \in Frame /\ frame.in = "right"
            BY DEF Frame
        <3> HIDE DEF frame
        <3>6. Good(Append(Below, frame), shell')
            BY <3>3, <3>4, <3>5, EnterSteady DEF LoopKinds
        <3>7. Good(stack', shell')
            BY <3>1, <3>6
        <3>8. focus' \in Focus /\ focus'.do = "execute"
            BY <3>1, FocusCases
        <3> QED
            BY <2>1, <2>2, <3>7, <3>8, InnerStep
    <2>4. CASE ~ GoesOn
        <3>1. /\ Leave /\ UNCHANGED focus
              /\ shell' = [shell EXCEPT !.in_logical_chain = FALSE]
            BY <1>2, <2>4 DEF AfterLeft
        <3>2. Steady(shell, shell')
            BY <3>1, SteadyExit, SteadyStatus, SteadyFlags
        <3>3. focus' \in Focus /\ focus'.do = "result"
            BY <2>2, <3>1, FocusCases
        <3> QED
            BY <2>1, <3>1, <3>2, <3>3, LeaveStep DEF LoopKinds
    <2> QED
        BY <2>3, <2>4
<1>3. CASE AfterRight
    <2>1. Resuming({"right"}) /\ UNCHANGED <<log, scriptVars>> /\ Leave
        BY <1>3 DEF AfterRight
    <2>2. Steady(shell, shell')
        BY <1>3, SteadyExit, SteadyStatus, SteadyFlags DEF AfterRight
    <2>3. focus' = Result(focus.code) /\ focus.code \in Nat
        BY <1>3, <2>1, Resumed DEF AfterRight
    <2> QED
        BY <2>1, <2>2, <2>3, FocusCases, LeaveStep DEF LoopKinds
<1> QED
    BY <1>1, <1>2, <1>3

-----------------------------------------------------------------------------
(* Loops *)

\* What is common to the steps that leave a loop.
LEMMA LeaveLoopStep ==
    ASSUME IInv, focus.do # "idle", UNCHANGED scriptVars, log' \in Seq(LogEntry),
           stack # <<>>, Top.in \in LoopKinds, Leave,
           NEW sh, Steady(shell, sh), shell' = ExitLoop(sh),
           NEW code \in Nat, focus' = Result(code)
    PROVE  IInv'
<1>1. Good(stack', shell')
    BY InvParts, LeaveLoop DEF Leave, Below, Top
<1>2. focus' \in Focus /\ focus'.do = "result"
    BY FocusCases
<1> QED
    BY <1>1, <1>2, InnerStep

\* What is common to the steps that change a loop's frame.
LEMMA ChangeLoopStep ==
    ASSUME IInv, focus.do # "idle", UNCHANGED scriptVars, log' \in Seq(LogEntry),
           stack # <<>>, Top.in \in LoopKinds,
           NEW frame \in Frame, frame.in = Top.in,
           stack' = [stack EXCEPT ![Len(stack)] = frame],
           Steady(shell, shell'),
           focus' \in Focus, focus'.do \in {"turn", "execute"}
    PROVE  IInv'
<1> USE InvParts
<1>1. frame.in # "subshell" /\ frame.in = stack[Len(stack)].in
    BY DEF LoopKinds, Top
<1>2. IsReturning(shell') => shell'.function_depth # 0
    BY DEF Steady, IsReturning, Good, Balanced, Agrees
<1>3. Good(stack', shell')
    BY <1>1, <1>2, GoodChange DEF Steady
<1>4. stack' # <<>> /\ stack'[Len(stack')] = frame
    OBVIOUS
<1> QED
    BY <1>3, <1>4, InnerStep

\* What a loop's frame may be changed to.
LEMMA LoopFrames ==
    ASSUME NEW f \in Frame, f.in \in LoopKinds, NEW n \in Nat
    PROVE  /\ [f EXCEPT !.code = n] \in Frame /\ [f EXCEPT !.code = n].in = f.in
           /\ f.in = "for" => /\ [f EXCEPT !.left = n] \in Frame
                              /\ [f EXCEPT !.left = n].in = f.in
<1>1. CASE f.in = "for"
    <2> DEFINE ForFrame == [in : {"for"}, tree : TreesOf({"for"}), left : Nat, code : Nat]
    <2>1. f \in ForFrame
        BY <1>1 DEF Frame
    <2>2. [f EXCEPT !.code = n] \in ForFrame /\ [f EXCEPT !.left = n] \in ForFrame
        BY <2>1
    <2>3. \A g \in ForFrame : g \in Frame /\ g.in = "for"
        BY DEF Frame
    <2> QED
        BY <1>1, <2>2, <2>3
<1>2. CASE f.in \in {"while", "until"}
    <2> DEFINE WhileFrame ==
            [in : {"while", "until"}, tree : TreesOf({"while", "until"}), code : Nat]
    <2>1. f \in WhileFrame
        BY <1>2 DEF Frame
    <2>2. [f EXCEPT !.code = n] \in WhileFrame /\ [f EXCEPT !.code = n].in = f.in
        BY <2>1
    <2>3. \A g \in WhileFrame : g \in Frame
        BY DEF Frame
    <2> QED
        BY <1>2, <2>2, <2>3
<1> QED
    BY <1>1, <1>2 DEF LoopKinds

LEMMA StepEnterLoop ==
    ASSUME IInv, EnterFor \/ EnterWhile \/ WhileTurn
    PROVE  IInv'
<1> USE InvParts
<1>1. ASSUME EnterFor \/ EnterWhile,
             NEW frame \in Frame, frame.in \in LoopKinds, Enter(frame)
      PROVE  IInv'
    <2>1. /\ UNCHANGED <<log, scriptVars>> /\ focus' = NextTurn /\ focus.do # "idle"
          /\ shell' = [shell EXCEPT !.loop_depth = @ + 1]
        BY <1>1 DEF EnterFor, EnterWhile, Executing
    <2>2. Good(stack', shell')
        BY <1>1, <2>1, EnterLoop DEF Enter
    <2>3. stack' # <<>> /\ stack'[Len(stack')] = frame
        BY <1>1 DEF Enter
    <2> QED
        BY <1>1, <2>1, <2>2, <2>3, FocusCases, InnerStep
<1>2. CASE EnterFor
    <2>1. focus.tree \in TreesOf({"for"})
        BY <1>2, Started DEF EnterFor
    <2>2. focus.tree.items \in Nat
        BY <2>1, TreeAssumption
    <2> DEFINE frame == [in |-> "for", tree |-> focus.tree,
                         left |-> focus.tree.items, code |-> 0]
    <2>3. frame \in Frame /\ frame.in \in LoopKinds
        BY <2>1, <2>2 DEF Frame, LoopKinds
    <2>4. Enter(frame)
        BY <1>2 DEF EnterFor
    <2> QED
        BY <1>1, <1>2, <2>3, <2>4
<1>3. CASE EnterWhile
    <2>1. /\ focus.tree \in TreesOf({"while", "until"})
          /\ focus.tree.op \in {"while", "until"}
        BY <1>3, Started DEF EnterWhile, TreesOf
    <2> DEFINE frame == [in |-> focus.tree.op, tree |-> focus.tree, code |-> 0]
    <2>2. frame \in Frame /\ frame.in \in LoopKinds
        BY <2>1 DEF Frame, LoopKinds
    <2>3. Enter(frame)
        BY <1>3 DEF EnterWhile
    <2> QED
        BY <1>1, <1>3, <2>2, <2>3
<1>4. CASE WhileTurn
    <2>1. focus.do = "turn" /\ Top.in \in {"while", "until"}
        BY <1>4 DEF WhileTurn
    <2>2. Len(stack) > 0 /\ Top \in Frame
        BY <2>1 DEF IInv, TypeOK, Top
    <2>3. Top.tree.condition \in Tree
        BY <2>1, <2>2, FrameParts, TreeAssumption
    <2> DEFINE frame == [in |-> "condition"]
    <2>4. frame \in Frame /\ frame.in = "condition"
        BY DEF Frame
    <2>5. Steady(shell, shell')
        BY <1>4, SteadyExit, SteadyStatus, SteadyFlags DEF WhileTurn
    <2>6. Enter(frame) /\ focus' = Execute(Top.tree.condition)
        BY <1>4 DEF WhileTurn
    <2>7. Len(stack) > 0 /\ stack[Len(stack)].in \in {"while", "until"}
        BY <2>1, <2>2 DEF Top
    <2> HIDE DEF frame
    <2> QED
        BY <1>4, <2>1, <2>3, <2>4, <2>5, <2>6, <2>7, EnterStep DEF WhileTurn, LoopKinds
<1> QED
    BY <1>2, <1>3, <1>4

LEMMA StepForTurn ==
    ASSUME IInv, ForTurn
    PROVE  IInv'
<1> USE InvParts
<1>1. focus.do = "turn" /\ Top.in = "for" /\ UNCHANGED scriptVars
    BY DEF ForTurn
<1>2. /\ stack # <<>> /\ Len(stack) \in Nat \ {0}
      /\ Top \in Frame /\ Top = stack[Len(stack)] /\ Top.in \in LoopKinds
    BY <1>1 DEF IInv, TypeOK, Top, LoopKinds
<1>3. CASE Top.left = 0
    <2>1. Leave /\ shell' = ExitLoop(shell) /\ focus' = Result(Top.code) /\ UNCHANGED log
        BY <1>3 DEF ForTurn
    <2>2. Top.code \in Nat /\ Steady(shell, shell)
        BY <1>2, FrameParts, SteadyExit, SteadyStatus, SteadyFlags
    <2> QED
        BY <1>1, <1>2, <2>1, <2>2, LeaveLoopStep
<1>4. CASE Top.left # 0
    <2>1. PICK sh \in AfterSignals(shell) :
             /\ log' = LogWithSignal(sh)
             /\ IF sh.exit_requested
                THEN /\ shell' = ExitLoop(sh)
                     /\ focus' = Result(sh.exit_code)
                     /\ Leave
                ELSE /\ shell' = sh
                     /\ focus' = Execute(Top.tree.body)
                     /\ stack' = [stack EXCEPT ![Len(stack)].left = @ - 1]
        BY <1>4 DEF ForTurn
    <2>2. Steady(shell, sh) /\ sh.exit_code \in Nat
        BY SignalsSteady DEF Steady, Shell
    <2>3. log' \in Seq(LogEntry)
        <3>1. [name |-> "signal", code |-> sh.exit_code] \in LogEntry
            BY <2>2 DEF LogEntry
        <3> QED
            BY <2>1, <3>1 DEF LogWithSignal
    <2>4. CASE sh.exit_requested
        BY <1>1, <1>2, <2>1, <2>2, <2>3, <2>4, LeaveLoopStep
    <2>5. CASE ~ sh.exit_requested
        <3>1. Top.left - 1 \in Nat
            BY <1>1, <1>2, <1>4, FrameParts
        <3> DEFINE frame == [Top EXCEPT !.left = Top.left - 1]
        <3>2. frame \in Frame /\ frame.in = Top.in
            BY <1>1, <1>2, <3>1, LoopFrames
        <3>3. stack' = [stack EXCEPT ![Len(stack)] = frame]
            BY <1>2, <2>1, <2>5
        <3> HIDE DEF frame
        <3>4. Top.tree.body \in Tree
            BY <1>1, <1>2, FrameParts, TreeAssumption
        <3>5. focus' \in Focus /\ focus'.do = "execute"
            BY <2>1, <2>5, <3>4, FocusCases
        <3> QED
            BY <1>1, <1>2, <2>1, <2>2, <2>3, <2>5, <3>2, <3>3, <3>5, ChangeLoopStep
    <2> QED
        BY <2>4, <2>5
<1> QED
    BY <1>3, <1>4

LEMMA StepLoopCondition ==
    ASSUME IInv, AfterLoopCondition
    PROVE  IInv'
<1> USE InvParts
<1> DEFINE sh == [shell EXCEPT !.in_condition = FALSE]
           loop == stack[Len(stack) - 1]
           outer == SubSeq(stack, 1, Len(stack) - 2)
<1>1. Resuming({"condition"}) /\ UNCHANGED <<log, scriptVars>>
    BY DEF AfterLoopCondition
<1>2. /\ focus.code \in Nat /\ focus.do # "idle"
      /\ stack # <<>> /\ Len(stack) \in Nat \ {0}
      /\ Top = stack[Len(stack)] /\ Top.in = "condition"
    BY <1>1, Resumed
<1>3. /\ Len(stack) - 1 \in 1..Len(stack)
      /\ loop \in Frame /\ loop.in \in {"while", "until"}
    BY <1>2, BelowCondition DEF Good
<1>4. Steady(shell, sh) /\ Steady(sh, sh)
    BY SteadyExit, SteadyStatus, SteadyFlags DEF Steady
<1>5. Good(Below, sh)
    BY <1>2, <1>4, LeaveSteady DEF Below, LoopKinds
<1>6. /\ Below \in Seq(Frame) /\ Len(Below) = Len(stack) - 1 /\ Below # <<>>
      /\ Below[Len(Below)] = loop
    <2>1. Len(stack) - 1 \in 0..Len(stack)
        BY <1>2
    <2>2. /\ Below \in Seq(Frame) /\ Len(Below) = Len(stack) - 1
          /\ \A i \in 1..(Len(stack) - 1) : Below[i] = stack[i]
        BY <2>1, Prefix DEF Below
    <2> QED
        BY <1>2, <1>3, <2>2
<1>7. SubSeq(Below, 1, Len(Below) - 1) = outer
    BY <1>2, <1>3 DEF Below
<1>8. Good(outer, ExitLoop(sh))
    BY <1>3, <1>4, <1>5, <1>6, <1>7, LeaveLoop DEF LoopKinds
<1>9. loop.code \in Nat /\ Unwound(sh, focus.code) \in Nat /\ loop.tree.body \in Tree
    <2>1. loop.in \in LoopKinds
        BY <1>3 DEF LoopKinds
    <2>2. loop.code \in Nat /\ loop.tree.body \in Tree
        BY <1>3, <2>1, FrameParts, TreeAssumption
    <2>3. sh.exit_code \in Nat
        BY <1>4 DEF Steady, Shell
    <2> QED
        BY <1>2, <2>2, <2>3 DEF Unwound
<1>10. \/ /\ shell' = ExitLoop(sh)
          /\ focus' \in {Result(Unwound(sh, focus.code)), Result(loop.code)}
          /\ stack' = outer
       \/ /\ shell' = sh
          /\ focus' = Execute(loop.tree.body)
          /\ stack' = Below
    BY DEF AfterLoopCondition
<1> HIDE DEF sh, loop, outer
<1>11. Good(stack', shell')
    BY <1>5, <1>8, <1>10
<1>12. focus' \in Focus /\ focus'.do \in {"execute", "result"}
    BY <1>9, <1>10, FocusCases
<1> QED
    BY <1>1, <1>2, <1>11, <1>12, InnerStep

LEMMA StepAfterBody ==
    ASSUME IInv, AfterBody
    PROVE  IInv'
<1> USE InvParts
<1>1. Resuming({"for", "while", "until"}) /\ UNCHANGED <<log, scriptVars>>
    BY DEF AfterBody
<1>2. /\ focus.code \in Nat /\ focus = Result(focus.code) /\ focus.do # "idle"
      /\ stack # <<>> /\ Len(stack) \in Nat \ {0}
      /\ Top \in Frame /\ Top = stack[Len(stack)] /\ Top.in \in LoopKinds
    BY <1>1, Resumed DEF LoopKinds
<1>3. CASE IsReturning(shell) \/ shell.exit_requested
    <2>1. /\ Leave /\ shell' = ExitLoop(shell)
          /\ focus' = Result(Unwound(shell, focus.code))
        BY <1>3 DEF AfterBody
    <2>2. Unwound(shell, focus.code) \in Nat /\ Steady(shell, shell)
        BY <1>2, SteadyExit, SteadyStatus, SteadyFlags DEF Unwound, Shell
    <2> QED
        BY <1>1, <1>2, <2>1, <2>2, LeaveLoopStep
<1>4. CASE ~ (IsReturning(shell) \/ shell.exit_requested) /\ IsBreaking(shell)
    <2> DEFINE sh == [shell EXCEPT !.break_level = @ - 1]
    <2>1. Leave /\ shell' = ExitLoop(sh) /\ UNCHANGED focus
        BY <1>4 DEF AfterBody
    <2>2. shell.break_level - 1 \in Nat
        BY <1>4 DEF Shell, IsBreaking
    <2>3. Steady(shell, sh)
        BY <2>2, SteadyExit, SteadyStatus, SteadyFlags
    <2> HIDE DEF sh
    <2> QED
        BY <1>1, <1>2, <2>1, <2>3, LeaveLoopStep
<1>5. CASE /\ ~ (IsReturning(shell) \/ shell.exit_requested \/ IsBreaking(shell))
           /\ shell.continue_level > 1
    <2> DEFINE sh == [shell EXCEPT !.continue_level = @ - 1]
    <2>1. Leave /\ shell' = ExitLoop(sh) /\ UNCHANGED focus
        BY <1>5 DEF AfterBody, Shell
    <2>2. shell.continue_level - 1 \in Nat
        BY <1>5 DEF Shell
    <2>3. Steady(shell, sh)
        BY <2>2, SteadyExit, SteadyStatus, SteadyFlags
    <2> HIDE DEF sh
    <2> QED
        BY <1>1, <1>2, <2>1, <2>3, LeaveLoopStep
<1>6. CASE /\ ~ (IsReturning(shell) \/ shell.exit_requested \/ IsBreaking(shell))
           /\ ~ (shell.continue_level > 1)
    <2>1. /\ shell' = [shell EXCEPT !.continue_level = 0]
          /\ stack' = [stack EXCEPT ![Len(stack)].code = focus.code]
          /\ focus' = NextTurn
        BY <1>6 DEF AfterBody
    <2> DEFINE frame == [Top EXCEPT !.code = focus.code]
    <2>2. frame \in Frame /\ frame.in = Top.in
        BY <1>2, LoopFrames
    <2>3. stack' = [stack EXCEPT ![Len(stack)] = frame]
        BY <1>2, <2>1
    <2> HIDE DEF frame
    <2>4. Steady(shell, shell')
        BY <2>1, SteadyExit, SteadyStatus, SteadyFlags
    <2>5. focus' \in Focus /\ focus'.do = "turn"
        BY <2>1, FocusCases
    <2> QED
        BY <1>1, <1>2, <2>2, <2>3, <2>4, <2>5, ChangeLoopStep
<1> QED
    BY <1>3, <1>4, <1>5, <1>6

-----------------------------------------------------------------------------
(* Functions and subshells *)

LEMMA StepDefine ==
    ASSUME IInv, Define
    PROVE  IInv'
<1> USE InvParts
<1>1. focus.tree \in TreesOf({"define"}) /\ focus.do # "idle"
    BY Started DEF Define
<1>2. focus.tree.name \in Name /\ focus.tree.body \in Tree
    BY <1>1, TreeAssumption
<1>3. Steady(shell, shell')
    <2>1. shell.functions \in [Name -> Tree \cup {NoTree}]
        BY DEF Shell
    <2> DEFINE functions == [shell.functions EXCEPT ![focus.tree.name] = focus.tree.body]
    <2>2. functions \in [Name -> Tree \cup {NoTree}]
        BY <1>2, <2>1
    <2>3. shell' = [shell EXCEPT !.functions = functions]
        BY DEF Define, Shell
    <2> HIDE DEF functions
    <2> QED
        BY <2>2, <2>3 DEF Steady, Shell
<1>4. Good(stack, shell')
    BY <1>3, SteadyGood
<1>5. focus' \in Focus /\ focus'.do = "result"
    BY FocusCases DEF Define
<1> QED
    BY <1>1, <1>4, <1>5, InnerStep DEF Define

LEMMA StepCall ==
    ASSUME IInv, Call
    PROVE  IInv'
<1> USE InvParts
<1>1. focus.tree \in TreesOf({"command"}) /\ focus.do # "idle"
    BY Started DEF Call
<1>2. FunctionOf(focus.tree) \in Tree
    <2>1. focus.tree.name \in Name
        BY <1>1, TreeAssumption
    <2> QED
        BY <2>1 DEF Call, FunctionOf, Shell
<1>3. CASE shell.function_depth >= MaxRecursionDepth
    <2>1. Good(stack', shell') /\ focus' = Result(1)
        BY <1>3 DEF Call
    <2> QED
        BY <1>1, <2>1, FocusCases, InnerStep DEF Call
<1>4. CASE ~ (shell.function_depth >= MaxRecursionDepth)
    <2> DEFINE frame == [in |-> "call"]
    <2>1. /\ stack' = Append(stack, frame)
          /\ shell' = [shell EXCEPT !.function_depth = @ + 1]
          /\ focus' = Execute(FunctionOf(focus.tree))
        BY <1>4 DEF Call, Enter
    <2>2. frame \in Frame /\ frame.in = "call"
        BY DEF Frame
    <2> HIDE DEF frame
    <2>3. /\ shell.function_depth + 1 \in 0..MaxRecursionDepth
          /\ shell.function_depth \in Nat /\ shell.loop_depth \in Nat
        BY <1>4, ExecutorAssumption DEF Shell
    <2>4. /\ shell' \in Shell
          /\ shell'.loop_depth = shell.loop_depth
          /\ shell'.function_depth = shell.function_depth + 1
        BY <2>1, <2>3 DEF Shell
    <2>5. /\ shell'.loop_depth = shell.loop_depth + LoopsOf(frame)
          /\ shell'.function_depth = shell.function_depth + CallsOf(frame)
          /\ shell'.function_depth # 0
        BY <2>2, <2>3, <2>4 DEF LoopsOf, CallsOf, LoopKinds
    <2>6. Good(stack', shell')
        BY <2>1, <2>2, <2>4, <2>5, GoodPush
    <2>7. focus' \in Focus /\ focus'.do = "execute"
        BY <1>2, <2>1, FocusCases
    <2> QED
        BY <1>1, <2>6, <2>7, InnerStep DEF Call
<1> QED
    BY <1>3, <1>4

LEMMA StepAfterCall ==
    ASSUME IInv, AfterCall
    PROVE  IInv'
<1> USE InvParts
<1>1. Resuming({"call"}) /\ UNCHANGED <<log, scriptVars>> /\ Leave
    BY DEF AfterCall
<1>2. /\ focus.code \in Nat /\ focus.do # "idle" /\ stack # <<>>
      /\ Top = stack[Len(stack)] /\ Top.in = "call"
    BY <1>1, Resumed
<1>3. PICK code \in Nat : /\ shell' = [shell EXCEPT !.function_depth = @ - 1,
                                                    !.return_value = NoCode,
                                                    !.last_exit_code = code]
                          /\ focus' = Result(code)
    BY <1>2 DEF AfterCall, IsReturning, Shell
<1>4. shell.function_depth - 1 \in Nat
    BY <1>2, DepthsPositive
<1>5. shell.function_depth - 1 \in 0..MaxRecursionDepth
    BY <1>4, ExecutorAssumption DEF Shell
<1>6. /\ shell' \in Shell
      /\ shell'.loop_depth = shell.loop_depth
      /\ shell'.function_depth = shell.function_depth - 1
      /\ ~ IsReturning(shell')
    BY <1>3, <1>5 DEF Shell, IsReturning
<1>7. /\ shell'.loop_depth = shell.loop_depth - LoopsOf(Top)
      /\ shell'.function_depth = shell.function_depth - CallsOf(Top)
    BY <1>2, <1>6 DEF LoopsOf, CallsOf, LoopKinds, Shell
<1>8. Good(stack', shell')
    BY <1>1, <1>2, <1>6, <1>7, GoodPop DEF Leave, Below
<1>9. focus' \in Focus /\ focus'.do = "result"
    BY <1>3, FocusCases
<1> QED
    BY <1>1, <1>2, <1>8, <1>9, InnerStep

LEMMA StepEnterSubshell ==
    ASSUME IInv, EnterSubshell
    PROVE  IInv'
<1> USE InvParts
<1>1. focus.tree \in TreesOf({"subshell"}) /\ focus.do # "idle"
    BY Started DEF EnterSubshell
<1>2. focus.tree.body \in Tree
    BY <1>1, TreeAssumption
<1>3. CASE shell.subshell_depth >= MaxSubshellDepth
    <2> DEFINE sh == [shell EXCEPT !.last_exit_code = 1]
    <2>1. /\ shell' = CheckErrexit(sh, 1)
          /\ focus' = Result(1) /\ UNCHANGED stack
        BY <1>3 DEF EnterSubshell
    <2>2. Steady(shell, sh)
        BY SteadyExit, SteadyStatus, SteadyFlags
    <2> HIDE DEF sh
    <2>3. Steady(sh, CheckErrexit(sh, 1))
        <3>1. sh \in Shell
            BY <2>2 DEF Steady
        <3> QED
            BY <3>1, SteadyExit, SteadyStatus, SteadyFlags
    <2>4. Good(stack, shell')
        BY <2>1, <2>2, <2>3, SteadyTwice, SteadyGood
    <2> QED
        BY <1>1, <2>1, <2>4, FocusCases, InnerStep DEF EnterSubshell
<1>4. CASE ~ (shell.subshell_depth >= MaxSubshellDepth)
    <2> DEFINE frame == [in |-> "subshell", parent |-> shell]
    <2>1. /\ stack' = Append(stack, frame)
          /\ shell' = [shell EXCEPT !.subshell_depth = @ + 1]
          /\ focus' = Execute(focus.tree.body)
        BY <1>4 DEF EnterSubshell, Enter
    <2>2. frame \in Frame /\ frame.in = "subshell" /\ frame.parent = shell
        BY DEF Frame
    <2> HIDE DEF frame
    <2>3. shell.subshell_depth + 1 \in 0..MaxSubshellDepth
        BY <1>4, ExecutorAssumption DEF Shell
    <2>4. Steady(shell, shell')
        BY <2>1, <2>3 DEF Steady, Shell
    <2>5. /\ shell'.loop_depth = shell.loop_depth + LoopsOf(frame)
          /\ shell'.function_depth = shell.function_depth + CallsOf(frame)
          /\ IsReturning(shell') => shell'.function_depth # 0
        BY <2>2, <2>4 DEF Steady, LoopsOf, CallsOf, LoopKinds, Shell, IsReturning,
                          Good, Balanced, Agrees
    <2>6. Good(stack', shell')
        <3>1. shell' \in Shell /\ frame.in # "condition" /\ frame.in # "trap"
            BY <2>2, <2>4 DEF Steady
        <3>2. Good(Append(stack, frame), shell')
            BY <2>2, <2>5, <3>1, GoodPush
        <3> QED
            BY <2>1, <3>2
    <2>7. focus' \in Focus /\ focus'.do = "execute"
        BY <1>2, <2>1, FocusCases
    <2> QED
        BY <1>1, <2>6, <2>7, InnerStep DEF EnterSubshell
<1> QED
    BY <1>3, <1>4

LEMMA StepAfterSubshell ==
    ASSUME IInv, AfterSubshell
    PROVE  IInv'
<1> USE InvParts
<1>1. Resuming({"subshell"}) /\ UNCHANGED <<log, scriptVars>> /\ Leave
    BY DEF AfterSubshell
<1>2. /\ focus.code \in Nat /\ focus.do # "idle" /\ stack # <<>>
      /\ Len(stack) \in Nat \ {0} /\ Top \in Frame
      /\ Top = stack[Len(stack)] /\ Top.in = "subshell"
    BY <1>1, Resumed
<1>3. Top.parent \in Shell
    BY <1>2, FrameParts
<1>4. PICK code \in Nat :
          /\ shell' = CheckErrexit([Top.parent EXCEPT !.last_exit_code = code], code)
          /\ focus' = Result(code)
    BY <1>2 DEF AfterSubshell, IsReturning, Shell
<1>5. Steady(Top.parent, shell')
    <2> DEFINE sh == [Top.parent EXCEPT !.last_exit_code = code]
    <2>1. Steady(Top.parent, sh)
        BY ONLY <1>3, SteadyStatus
    <2>2. shell' = CheckErrexit(sh, code)
        BY <1>4
    <2> HIDE DEF sh
    <2>3. sh \in Shell
        BY <2>1 DEF Steady
    <2>4. Steady(sh, shell')
        BY ONLY <2>2, <2>3, SteadyExit
    <2> QED
        BY ONLY <2>1, <2>4, SteadyTwice
<1>6. IsReturning(Top.parent) => Top.parent.function_depth # 0
    BY <1>2 DEF Good, Balanced, Agrees
<1>7. /\ shell'.loop_depth = Top.parent.loop_depth
      /\ shell'.function_depth = Top.parent.function_depth
      /\ IsReturning(shell') => shell'.function_depth # 0
    BY <1>5, <1>6 DEF Steady, IsReturning
<1>8. Good(stack', shell')
    BY <1>1, <1>2, <1>5, <1>7, GoodPop DEF Leave, Below, Steady
<1>9. focus' \in Focus /\ focus'.do = "result"
    BY <1>4, FocusCases
<1> QED
    BY <1>1, <1>2, <1>8, <1>9, InnerStep

-----------------------------------------------------------------------------
(* The script *)

\* What is common to the steps between lines.
LEMMA OuterStep ==
    ASSUME IInv, script' = script, line' \in 1..Len(script) + 1,
           phase' \in {"lines", "exiting", "trap", "ended"},
           status' \in {NoCode, 0}, log' \in Seq(LogEntry),
           Good(stack', shell'), focus' \in Focus,
           focus'.do = "idle" => stack' = <<>>,
           phase' \in {"exiting", "ended"} => focus' = Idle,
           focus'.do # "turn"
    PROVE  IInv'
<1>1. stack' \in Seq(Frame) /\ shell' \in Shell
    BY DEF Good, WellNested
<1>2. \A i \in DOMAIN stack' : stack'[i].in = "condition" =>
          i > 1 /\ stack'[i - 1].in \in {"while", "until"}
    BY DEF Good, WellNested
<1> QED
    BY <1>1, <1>2 DEF IInv, TypeOK, LogEntry

LEMMA IdleIsFocus == Idle \in Focus /\ Idle.do = "idle"
BY DEF Idle, Focus

LEMMA ScriptParts ==
    ASSUME IInv
    PROVE  /\ script \in Seq(Tree \cup {NoTree}) /\ Len(script) \in Nat
           /\ line \in 1..Len(script) + 1
           /\ phase \in {"lines", "exiting", "trap", "ended"}
           /\ status \in {NoCode, 0}
           /\ focus.do = "idle" => stack = <<>>
           /\ phase \in {"exiting", "ended"} => focus = Idle
<1>1. script \in Seq(Tree \cup {NoTree})
    BY ExecutorAssumption DEF IInv, TypeOK
<1> QED
    BY <1>1 DEF IInv, TypeOK

LEMMA StepStartLine ==
    ASSUME IInv, StartLine
    PROVE  IInv'
<1> USE InvParts, ScriptParts
<1>1. /\ focus = Idle /\ phase = "lines" /\ line <= Len(script)
      /\ UNCHANGED <<script, stack, status>>
    BY DEF StartLine
<1>2. PICK sh \in AfterSignals(shell), terminated \in Shutdown :
         /\ shell' = sh
         /\ IF terminated \/ sh.exit_requested
            THEN phase' = "exiting" /\ UNCHANGED <<focus, line>>
            ELSE /\ focus' = IF script[line] = NoTree THEN Result(1)
                             ELSE Execute(script[line])
                 /\ line' = line + 1
                 /\ UNCHANGED phase
         /\ log' = IF terminated /\ ~ sh.exit_requested
                   THEN Append(log, [name |-> "TERM", code |-> line])
                   ELSE LogWithSignal(sh)
    BY DEF StartLine
<1>3. Steady(shell, sh) /\ sh.exit_code \in Nat
    BY SignalsSteady DEF Steady, Shell
<1>4. Good(stack', shell')
    BY <1>1, <1>2, <1>3, SteadyGood
<1>5. log' \in Seq(LogEntry)
    <2>1. /\ [name |-> "signal", code |-> sh.exit_code] \in LogEntry
          /\ [name |-> "TERM", code |-> line] \in LogEntry
        BY <1>3 DEF LogEntry
    <2> QED
        BY <1>2, <2>1 DEF LogWithSignal
<1>6. stack = <<>>
    BY <1>1, IdleIsFocus
<1>7. CASE terminated \/ sh.exit_requested
    BY <1>1, <1>2, <1>4, <1>5, <1>6, <1>7, IdleIsFocus, OuterStep
<1>8. CASE ~ (terminated \/ sh.exit_requested)
    <2>1. line \in 1..Len(script) /\ line + 1 \in 1..Len(script) + 1
        BY <1>1
    <2>2. script[line] \in Tree \cup {NoTree}
        BY <2>1
    <2>3. focus' \in Focus /\ focus'.do \in {"execute", "result"}
        BY <1>2, <1>8, <2>2, FocusCases
    <2> QED
        BY <1>1, <1>2, <1>4, <1>5, <1>8, <2>1, <2>3, OuterStep
<1> QED
    BY <1>7, <1>8

LEMMA StepAfterLine ==
    ASSUME IInv, AfterLine
    PROVE  IInv'
<1> USE InvParts, ScriptParts
<1>1. focus.code \in Nat
    BY FocusParts DEF AfterLine
<1>2. Steady(shell, shell')
    BY <1>1, SteadyExit, SteadyStatus, SteadyFlags DEF AfterLine
<1>3. Good(stack', shell')
    BY <1>2, SteadyGood DEF AfterLine
<1>4. focus' = Idle /\ stack' = <<>> /\ phase' \in {"lines", "exiting"}
    BY DEF AfterLine
<1> QED
    BY <1>3, <1>4, IdleIsFocus, OuterStep DEF AfterLine

LEMMA StepStartExitTrap ==
    ASSUME IInv, StartExitTrap
    PROVE  IInv'
<1> USE InvParts, ScriptParts
<1>1. PICK trap \in ExitTrap \ {NoTree} :
         /\ stack' = <<[in |-> "trap", tree |-> trap, last |-> shell.last_exit_code]>>
         /\ focus' = Execute(trap)
    BY DEF StartExitTrap
<1>2. /\ phase = "exiting" /\ phase' = "trap" /\ log' = <<>>
      /\ UNCHANGED <<script, line, shell, status>>
    BY DEF StartExitTrap
<1>3. trap \in Tree /\ shell.last_exit_code \in Nat
    BY ExecutorAssumption DEF Shell
<1> DEFINE frame == [in |-> "trap", tree |-> trap, last |-> shell.last_exit_code]
<1>4. frame \in Frame /\ frame.in = "trap"
    BY <1>3 DEF Frame
<1>5. stack = <<>> /\ stack' = Append(stack, frame)
    BY <1>1, <1>2, IdleIsFocus
<1> HIDE DEF frame
<1>6. Steady(shell, shell')
    BY <1>2, SteadyExit, SteadyStatus, SteadyFlags
<1>7. Good(stack', shell')
    BY <1>4, <1>5, <1>6, EnterSteady DEF LoopKinds
<1>8. focus' \in Focus /\ focus'.do = "execute"
    BY <1>1, <1>3, FocusCases
<1>9. log' \in Seq(LogEntry)
    BY <1>2
<1> QED
    BY <1>2, <1>7, <1>8, <1>9, OuterStep

LEMMA StepAfterExitTrap ==
    ASSUME IInv, AfterExitTrap
    PROVE  IInv'
<1> USE InvParts, ScriptParts
<1>1. /\ Resuming({"trap"}) /\ Leave /\ focus' = Idle
      /\ UNCHANGED <<script, line, log>> /\ phase' = "ended" /\ status' = 0
      /\ shell' = [shell EXCEPT !.last_exit_code = Top.last]
    BY DEF AfterExitTrap
<1>2. /\ stack # <<>> /\ Len(stack) \in Nat \ {0} /\ Top \in Frame
      /\ Top = stack[Len(stack)] /\ Top.in = "trap"
    BY <1>1, Resumed
<1>3. Steady(shell, shell')
    BY <1>1, <1>2, FrameParts, SteadyExit, SteadyStatus, SteadyFlags
<1>4. Good(stack', shell')
    BY <1>1, <1>2, <1>3, LeaveSteady DEF Leave, Below, LoopKinds
<1>5. Len(stack) = 1
    <2>1. Len(stack) \in DOMAIN stack
        BY <1>2
    <2>2. WellNested(stack) /\ stack[Len(stack)].in = "trap"
        BY <1>2 DEF Good
    <2> QED
        BY <2>1, <2>2 DEF WellNested
<1>6. stack' = <<>>
    BY <1>1, <1>5 DEF Leave, Below
<1> QED
    BY <1>1, <1>4, <1>6, IdleIsFocus, OuterStep

LEMMA StepEndWithoutTrap ==
    ASSUME IInv, EndWithoutTrap
    PROVE  IInv'
<1> USE InvParts, ScriptParts
<1>1. /\ focus = Idle /\ phase' = "ended" /\ status' = 0
      /\ UNCHANGED <<script, line, focus, stack, shell, log>>
    BY DEF EndWithoutTrap
<1>2. stack = <<>> /\ Good(stack', shell')
    BY <1>1, IdleIsFocus
<1> QED
    BY <1>1, <1>2, IdleIsFocus, OuterStep

-----------------------------------------------------------------------------
(* The theorems *)

LEMMA InitGood == Init => IInv
<1> SUFFICES ASSUME Init PROVE IInv
    OBVIOUS
<1>1. PICK errexit \in Errexit : shell = InitialShell(errexit)
    BY DEF Init
<1>2. shell \in Shell
    BY <1>1, ExecutorAssumption DEF InitialShell, Shell
<1>3. /\ shell.loop_depth = 0 /\ shell.function_depth = 0
      /\ shell.return_value = NoCode
    BY <1>1 DEF InitialShell
<1>4. stack = <<>> /\ Len(stack) = 0 /\ DOMAIN stack = {}
    BY DEF Init
<1>5. Good(stack, shell)
    BY <1>2, <1>3, <1>4, CountZero DEF Good, WellNested, Balanced, Agrees, IsReturning
<1>6. script \in Seq(Tree \cup {NoTree}) \ {<<>>}
    BY ExecutorAssumption DEF Init
<1>7. 1 \in 1..Len(script) + 1
    BY <1>6
<1>8. focus = Idle /\ focus \in Focus
    BY IdleIsFocus DEF Init
<1>9. focus.do = "idle"
    BY <1>8, IdleIsFocus
<1>10. log \in Seq(LogEntry)
    BY DEF Init
<1> QED
    BY <1>2, <1>4, <1>5, <1>7, <1>8, <1>9, <1>10 DEF Init, IInv, TypeOK, LogEntry

LEMMA NextGood == IInv /\ [Next]_vars => IInv'
<1> SUFFICES ASSUME IInv, [Next]_vars PROVE IInv'
    OBVIOUS
<1>1. CASE Simple
    BY <1>1, StepSimple
<1>2. CASE Lists
    BY <1>2, StepSequence, StepConditions, StepChain DEF Lists
<1>3. CASE Loops
    BY <1>3, StepEnterLoop, StepForTurn, StepLoopCondition, StepAfterBody DEF Loops
<1>4. CASE Calls
    BY <1>4, StepDefine, StepCall, StepAfterCall, StepEnterSubshell, StepAfterSubshell
       DEF Calls
<1>5. CASE ScriptSteps
    BY <1>5, StepStartLine, StepAfterLine, StepStartExitTrap, StepAfterExitTrap,
       StepEndWithoutTrap DEF ScriptSteps
<1>6. CASE UNCHANGED vars
    BY <1>6 DEF vars, IInv, TypeOK, Good, WellNested, Balanced, Agrees, Top, IsReturning
<1> QED
    BY <1>1, <1>2, <1>3, <1>4, <1>5, <1>6 DEF Next

\* IInv, with all that the stack and the fields of ShellState have to do
\* with each other, holds in every state (executor/mod.rs, state/mod.rs).
THEOREM Inductive == Spec => []IInv
BY InitGood, NextGood, PTL DEF Spec

\* Types, and the limits on the recursion of functions (state/mod.rs,
\* enter_function) and on the nesting of subshells (executor/subshell.rs).
THEOREM TypeCorrect == Spec => []TypeOK
<1>1. IInv => TypeOK
    BY DEF IInv
<1> QED
    BY <1>1, Inductive, PTL

\* loop_depth and function_depth are what the execution really is inside
\* of, whichever way loops, functions and subshells were left.
THEOREM DepthsCorrect == Spec => []DepthsAgree
<1>1. IInv => DepthsAgree
    BY DEF IInv, Good, Balanced, Agrees, DepthsAgree
<1> QED
    BY <1>1, Inductive, PTL

\* A pending return has a call to end, in the same shell or further out:
\* return outside a function, or past the end of one, is never pending.
THEOREM ReturnsCorrect == Spec => []ReturnHasCaller
<1>1. ASSUME IInv, IsReturning(shell) PROVE \E i \in DOMAIN stack : stack[i].in = "call"
    <2>1. /\ stack \in Seq(Frame) /\ Len(stack) \in Nat /\ DOMAIN stack = 1..Len(stack)
          /\ Count(stack, {"call"}, Len(stack)) # 0
        BY <1>1, InvParts DEF Good, Balanced, Agrees
    <2>2. PICK i \in 1..Len(stack) : stack[i].in \in {"call"}
        BY <2>1, CountPositive
    <2> QED
        BY <2>1, <2>2
<1>2. IInv => ReturnHasCaller
    BY <1>1 DEF ReturnHasCaller
<1> QED
    BY <1>2, Inductive, PTL

-----------------------------------------------------------------------------
(* break, continue, return and exit: each is carried out, or refused,      *)
(* before the line ends, and no command runs in between.                   *)
(*                                                                         *)
(* Only the status of a condition is looked at, not how it ended: a jump   *)
(* out of the condition of an if or of a loop lets the next branch or body *)
(* run, and a second jump may then be taken.  So these theorems are about  *)
(* scripts with plain conditions (PlainConditions in Executor).            *)

Jumping(sh) == IsReturning(sh) \/ IsBreaking(sh) \/ IsContinuing(sh)

\* At most one of exit, return, break and continue is being carried out.
OneJump(sh) ==
    /\ sh.exit_requested => ~ Jumping(sh)
    /\ IsReturning(sh) => ~ (IsBreaking(sh) \/ IsContinuing(sh))
    /\ ~ (IsBreaking(sh) /\ IsContinuing(sh))

\* Functions are what a definition in the script says.
FunctionsDefined(sh) ==
    \A name \in Name : sh.functions[name] # NoTree =>
        \E d \in TreesOf({"define"}) : d.name = name /\ d.body = sh.functions[name]

Steered(sh) ==
    /\ OneJump(sh)
    /\ sh.break_level <= sh.loop_depth
    /\ sh.continue_level <= sh.loop_depth
    /\ FunctionsDefined(sh)

TestKinds == {"if", "condition"}

\* The first n frames of s end inside a condition, in its own ShellState.
OpenTest(s, n) ==
    \E i \in 1..n : /\ s[i].in \in TestKinds
                    /\ \A j \in (i + 1)..n : s[j].in # "subshell"

\* What may be directly or indirectly in a plain condition.
PlainFrame(Plain, f) ==
    \/ f.in = "sequence" /\ f.rest \in Seq(Plain)
    \/ f.in \in {"and", "or"} /\ f.right \in Plain
    \/ f.in \in {"right", "negation", "call", "subshell"}

\* A ShellState inside a condition is exempt, and not about to leave it.
Testing(sh) == sh.in_condition /\ ~ Unwinding(sh)

Settled(Plain, s, sh) ==
    /\ Steered(sh) /\ (OpenTest(s, Len(s)) => Testing(sh))
    /\ \A i \in DOMAIN s : s[i].in = "subshell" =>
          /\ Steered(s[i].parent) /\ ~ Unwinding(s[i].parent)
          /\ OpenTest(s, i - 1) => Testing(s[i].parent)
    /\ \A i \in DOMAIN s : OpenTest(s, i - 1) => PlainFrame(Plain, s[i])

Placed(Plain, s, sh, f) ==
    /\ Settled(Plain, s, sh)
    /\ f.do \in {"execute", "turn"} => ~ Unwinding(sh)
    /\ f.do = "execute" /\ OpenTest(s, Len(s)) => f.tree \in Plain

\* An EXIT trap runs in the ShellState that the script has left, so the
\* invariant is about the script itself.
JumpInv(Plain) ==
    phase \in {"lines", "exiting"} => Placed(Plain, stack, shell, focus)

-----------------------------------------------------------------------------
(* Open conditions, frame by frame *)

LEMMA OpenZero == \A s : ~ OpenTest(s, 0)
BY DEF OpenTest

LEMMA OpenNext ==
    ASSUME NEW s, NEW n \in Nat
    PROVE  OpenTest(s, n + 1) <=>
              \/ s[n + 1].in \in TestKinds
              \/ s[n + 1].in # "subshell" /\ OpenTest(s, n)
<1>1. ASSUME s[n + 1].in \in TestKinds PROVE OpenTest(s, n + 1)
    <2>1. n + 1 \in 1..(n + 1) /\ \A j \in (n + 1 + 1)..(n + 1) : FALSE
        OBVIOUS
    <2> QED
        BY <1>1, <2>1 DEF OpenTest
<1>2. ASSUME s[n + 1].in # "subshell", OpenTest(s, n) PROVE OpenTest(s, n + 1)
    <2>1. PICK i \in 1..n : /\ s[i].in \in TestKinds
                            /\ \A j \in (i + 1)..n : s[j].in # "subshell"
        BY <1>2 DEF OpenTest
    <2>2. i \in 1..(n + 1) /\ \A j \in (i + 1)..(n + 1) : j = n + 1 \/ j \in (i + 1)..n
        OBVIOUS
    <2> QED
        BY <1>2, <2>1, <2>2 DEF OpenTest
<1>3. ASSUME OpenTest(s, n + 1), s[n + 1].in \notin TestKinds
      PROVE  s[n + 1].in # "subshell" /\ OpenTest(s, n)
    <2>1. PICK i \in 1..(n + 1) : /\ s[i].in \in TestKinds
                                  /\ \A j \in (i + 1)..(n + 1) : s[j].in # "subshell"
        BY <1>3 DEF OpenTest
    <2>2. i \in 1..n /\ n + 1 \in (i + 1)..(n + 1)
        BY <1>3, <2>1
    <2>3. \A j \in (i + 1)..n : j \in (i + 1)..(n + 1)
        OBVIOUS
    <2> QED
        BY <2>1, <2>2, <2>3 DEF OpenTest
<1> QED
    BY <1>1, <1>2, <1>3

\* Only the kinds of the frames matter.
LEMMA OpenSame ==
    ASSUME NEW s, NEW t, NEW n \in Nat, \A i \in 1..n : s[i].in = t[i].in
    PROVE  OpenTest(s, n) <=> OpenTest(t, n)
<1>1. \A i \in 1..n : \A j \in (i + 1)..n : j \in 1..n
    OBVIOUS
<1> QED
    BY <1>1 DEF OpenTest

-----------------------------------------------------------------------------
(* What the operations on the stack do to it *)

LEMMA SettledSame ==
    ASSUME NEW Plain, NEW s, NEW sh, NEW sh2, Settled(Plain, s, sh),
           Steered(sh2), OpenTest(s, Len(s)) => Testing(sh2)
    PROVE  Settled(Plain, s, sh2)
BY DEF Settled

\* Whether a condition is open once this frame is on top of s.
Opens(s, frame) ==
    \/ frame.in \in TestKinds
    \/ frame.in # "subshell" /\ OpenTest(s, Len(s))

LEMMA SettledPush ==
    ASSUME NEW Plain, NEW s \in Seq(Frame), NEW sh, NEW frame \in Frame, NEW sh2,
           Settled(Plain, s, sh),
           OpenTest(s, Len(s)) => PlainFrame(Plain, frame),
           frame.in = "subshell" => frame.parent = sh /\ ~ Unwinding(sh),
           Steered(sh2), Opens(s, frame) => Testing(sh2)
    PROVE  Settled(Plain, Append(s, frame), sh2)
<1> DEFINE t == Append(s, frame)
           n == Len(s)
<1>1. /\ n \in Nat /\ DOMAIN s = 1..n
      /\ Len(t) = n + 1 /\ DOMAIN t = 1..(n + 1)
      /\ t[n + 1] = frame
      /\ \A i \in 1..n : t[i] = s[i]
    OBVIOUS
<1> HIDE DEF t
<1>2. \A m \in 0..n : OpenTest(t, m) <=> OpenTest(s, m)
    BY <1>1, OpenSame
<1>3. OpenTest(t, n + 1) <=> Opens(s, frame)
    <2>1. OpenTest(t, n + 1) <=> (t[n + 1].in \in TestKinds \/ (t[n + 1].in # "subshell" /\ OpenTest(t, n)))
        <3>1. n \in Nat
            BY <1>1
        <3> QED
            BY ONLY <3>1, OpenNext, Zenon
    <2>2. t[n + 1] = frame
        BY <1>1
    <2>3. OpenTest(t, n) <=> OpenTest(s, n)
        <3>1. n \in 0..n
            BY <1>1
        <3> QED
            BY ONLY <1>2, <3>1, Zenon
    <2> QED
        BY ONLY <2>1, <2>2, <2>3, Zenon DEF Opens
<1>4. ASSUME NEW i \in 1..(n + 1), t[i].in = "subshell"
      PROVE  /\ Steered(t[i].parent) /\ ~ Unwinding(t[i].parent)
             /\ OpenTest(t, i - 1) => Testing(t[i].parent)
    <2>1. CASE i = n + 1
        BY <1>1, <1>2, <1>4, <2>1 DEF Settled
    <2>2. CASE i # n + 1
        BY <1>1, <1>2, <1>4, <2>2 DEF Settled
    <2> QED
        BY <2>1, <2>2
<1>5. ASSUME NEW i \in 1..(n + 1), OpenTest(t, i - 1)
      PROVE  PlainFrame(Plain, t[i])
    <2>1. CASE i = n + 1
        BY <1>1, <1>2, <1>5, <2>1
    <2>2. CASE i # n + 1
        BY <1>1, <1>2, <1>5, <2>2 DEF Settled
    <2> QED
        BY <2>1, <2>2
<1>6. Settled(Plain, t, sh2)
    BY <1>1, <1>3, <1>4, <1>5 DEF Settled
<1> QED
    BY <1>6 DEF t

LEMMA SettledPop ==
    ASSUME NEW Plain, NEW s \in Seq(Frame), s # <<>>, NEW sh, NEW sh2,
           Settled(Plain, s, sh), Steered(sh2),
           OpenTest(s, Len(s) - 1) => Testing(sh2)
    PROVE  Settled(Plain, SubSeq(s, 1, Len(s) - 1), sh2)
<1> DEFINE t == SubSeq(s, 1, Len(s) - 1)
           n == Len(s) - 1
<1>1. n \in Nat /\ DOMAIN s = 1..(n + 1) /\ n \in 0..Len(s)
    OBVIOUS
<1>2. /\ Len(t) = n /\ DOMAIN t = 1..n
      /\ \A i \in 1..n : t[i] = s[i]
    BY <1>1, Prefix
<1> HIDE DEF t
<1>3. \A m \in 0..n : OpenTest(t, m) <=> OpenTest(s, m)
    BY <1>1, <1>2, OpenSame
<1>4. ASSUME NEW i \in 1..n
      PROVE  /\ i \in DOMAIN s /\ t[i] = s[i]
             /\ OpenTest(t, i - 1) <=> OpenTest(s, i - 1)
    <2>1. i \in 1..(n + 1) /\ i - 1 \in 0..n
        BY <1>1
    <2> QED
        BY <1>1, <1>2, <1>3, <2>1
<1>5. OpenTest(t, Len(t)) => Testing(sh2)
    <2>1. n \in 0..n /\ n = Len(s) - 1
        BY <1>1
    <2> QED
        BY <1>2, <1>3, <2>1
<1> HIDE DEF n
<1>6. Settled(Plain, t, sh2)
    BY <1>2, <1>4, <1>5 DEF Settled
<1> QED
    BY <1>6 DEF t

\* The top frame changes, but not its kind.
LEMMA SettledChange ==
    ASSUME NEW Plain, NEW s \in Seq(Frame), s # <<>>, NEW sh, NEW sh2,
           Settled(Plain, s, sh), Steered(sh2),
           OpenTest(s, Len(s)) => Testing(sh2),
           NEW frame \in Frame, frame.in = s[Len(s)].in, frame.in # "subshell",
           OpenTest(s, Len(s) - 1) => PlainFrame(Plain, frame)
    PROVE  Settled(Plain, [s EXCEPT ![Len(s)] = frame], sh2)
<1> DEFINE t == [s EXCEPT ![Len(s)] = frame]
           n == Len(s)
<1>0. n \in Nat /\ n > 0
    OBVIOUS
<1>1. /\ n = Len(s) /\ DOMAIN s = 1..n
      /\ Len(t) = n /\ DOMAIN t = 1..n /\ t[n] = frame
      /\ \A i \in 1..n : i # n => t[i] = s[i]
    OBVIOUS
<1> HIDE DEF t, n
<1>2. \A i \in 1..n : t[i].in = s[i].in
    BY <1>1
<1>3. \A m \in 0..n : OpenTest(t, m) <=> OpenTest(s, m)
    <2> TAKE m \in 0..n
    <2>1. m \in Nat /\ \A i \in 1..m : i \in 1..n
        BY <1>0
    <2> QED
        BY <1>2, <2>1, OpenSame
<1>4. ASSUME NEW i \in 1..n, OpenTest(t, i - 1) PROVE PlainFrame(Plain, t[i])
    <2>1. i - 1 \in 0..n
        BY <1>0
    <2>2. OpenTest(s, i - 1)
        BY <1>3, <1>4, <2>1
    <2>3. PlainFrame(Plain, s[i])
        BY <1>1, <2>2 DEF Settled
    <2> QED
        BY <1>1, <2>2, <2>3
<1>5. ASSUME NEW i \in 1..n, t[i].in = "subshell"
      PROVE  /\ Steered(t[i].parent) /\ ~ Unwinding(t[i].parent)
             /\ OpenTest(t, i - 1) => Testing(t[i].parent)
    <2>1. i - 1 \in 0..n
        BY <1>0
    <2>2. i \in DOMAIN s /\ t[i] = s[i]
        BY <1>1, <1>2, <1>5
    <2> QED
        BY <1>3, <1>5, <2>1, <2>2 DEF Settled
<1>6. OpenTest(t, Len(t)) => Testing(sh2)
    <2>1. n \in 0..n
        BY <1>0
    <2> QED
        BY <1>1, <1>3, <2>1
<1>7. Settled(Plain, t, sh2)
    BY <1>1, <1>4, <1>5, <1>6 DEF Settled
<1> QED
    BY <1>7 DEF t, n

\* What is known of the frame on top, and of the frames below it.
LEMMA TopFacts ==
    ASSUME NEW Plain, NEW s \in Seq(Frame), s # <<>>, NEW sh, Settled(Plain, s, sh)
    PROVE  LET top == s[Len(s)]
               open == OpenTest(s, Len(s) - 1)
           IN  /\ top.in \in TestKinds => Testing(sh) /\ ~ open
               /\ top.in \in LoopKinds \cup {"trap"} => ~ open /\ ~ OpenTest(s, Len(s))
               /\ top.in \in {"sequence", "and", "or", "right", "negation", "call"} =>
                    /\ open <=> OpenTest(s, Len(s))
                    /\ open => Testing(sh) /\ PlainFrame(Plain, top)
               /\ top.in = "subshell" =>
                    /\ Steered(top.parent) /\ ~ Unwinding(top.parent)
                    /\ open => Testing(top.parent)
                    /\ ~ OpenTest(s, Len(s))
<1> DEFINE n == Len(s) - 1
<1>1. n \in Nat /\ Len(s) = n + 1 /\ n + 1 \in DOMAIN s
    OBVIOUS
<1>2. OpenTest(s, n + 1) <=>
         \/ s[n + 1].in \in TestKinds
         \/ s[n + 1].in # "subshell" /\ OpenTest(s, n)
    BY <1>1, OpenNext
<1>3. /\ OpenTest(s, n) => PlainFrame(Plain, s[n + 1])
      /\ OpenTest(s, n + 1) => Testing(sh)
      /\ s[n + 1].in = "subshell" =>
            /\ Steered(s[n + 1].parent) /\ ~ Unwinding(s[n + 1].parent)
            /\ OpenTest(s, n) => Testing(s[n + 1].parent)
    <2>1. (n + 1) - 1 = n
        BY <1>1
    <2> QED
        BY <1>1, <2>1 DEF Settled
<1> QED
    BY <1>1, <1>2, <1>3 DEF PlainFrame, TestKinds, LoopKinds

LEMMA OpenPush ==
    ASSUME NEW s \in Seq(Frame), NEW frame \in Frame
    PROVE  OpenTest(Append(s, frame), Len(Append(s, frame))) <=> Opens(s, frame)
<1> DEFINE t == Append(s, frame)
           n == Len(s)
<1>1. /\ n \in Nat /\ Len(t) = n + 1 /\ t[n + 1] = frame
      /\ \A i \in 1..n : t[i] = s[i]
    OBVIOUS
<1> HIDE DEF t
<1>2. OpenTest(t, n) <=> OpenTest(s, n)
    BY <1>1, OpenSame
<1>3. OpenTest(t, Len(t)) <=> Opens(s, frame)
    BY <1>1, <1>2, OpenNext DEF Opens
<1> QED
    BY <1>3 DEF t

LEMMA OpenPop ==
    ASSUME NEW s \in Seq(Frame), s # <<>>
    PROVE  LET t == SubSeq(s, 1, Len(s) - 1)
           IN  OpenTest(t, Len(t)) <=> OpenTest(s, Len(s) - 1)
<1> DEFINE t == SubSeq(s, 1, Len(s) - 1)
           n == Len(s) - 1
<1>1. n \in Nat /\ n \in 0..Len(s)
    OBVIOUS
<1>2. Len(t) = n /\ \A i \in 1..n : t[i] = s[i]
    BY <1>1, Prefix
<1> HIDE DEF t
<1>3. OpenTest(t, n) <=> OpenTest(s, n)
    BY <1>1, <1>2, OpenSame
<1> QED
    BY <1>2, <1>3 DEF t

-----------------------------------------------------------------------------
(* What the operations on ShellState do to it *)

\* A change that has nothing to do with jumps.
SameCourse(sh, sh2) ==
    /\ sh2.exit_requested = sh.exit_requested
    /\ sh2.break_level = sh.break_level
    /\ sh2.continue_level = sh.continue_level
    /\ sh2.return_value = sh.return_value
    /\ sh2.loop_depth = sh.loop_depth
    /\ sh2.functions = sh.functions

LEMMA SteeredSame ==
    ASSUME NEW sh, NEW sh2, SameCourse(sh, sh2)
    PROVE  /\ Steered(sh) => Steered(sh2)
           /\ Unwinding(sh2) <=> Unwinding(sh)
BY DEF SameCourse, Steered, OneJump, Jumping, Unwinding, IsReturning, IsBreaking,
       IsContinuing, FunctionsDefined

LEMMA SameCourseShell ==
    ASSUME NEW sh \in Shell, NEW value
    PROVE  /\ \A sh2 \in {sh, [sh EXCEPT !.last_exit_code = value],
                          [sh EXCEPT !.in_logical_chain = value],
                          [sh EXCEPT !.in_negation = value],
                          [sh EXCEPT !.last_was_negation = value],
                          [sh EXCEPT !.function_depth = value],
                          [sh EXCEPT !.subshell_depth = value]} :
                 SameCourse(sh, sh2) /\ sh2.in_condition = sh.in_condition
           /\ SameCourse(sh, [sh EXCEPT !.in_condition = value])
           /\ [sh EXCEPT !.in_condition = value].in_condition = value
BY DEF SameCourse, Shell

\* A jump is taken when no other is being carried out.
LEMMA Jumps ==
    ASSUME NEW sh \in Shell, Steered(sh), NEW code \in Nat
    PROVE  /\ ~ Jumping(sh) => Steered(RequestExit(sh, code))
           /\ ~ Unwinding(sh) => Steered(CheckErrexit(sh, code))
           /\ Testing(sh) => CheckErrexit(sh, code) = sh
           /\ ~ Unwinding(sh) => Steered([sh EXCEPT !.return_value = code])
           /\ ~ Unwinding(sh) /\ code <= sh.loop_depth =>
                 /\ Steered([sh EXCEPT !.break_level = code])
                 /\ Steered([sh EXCEPT !.continue_level = code])
<1> USE DEF Steered, OneJump, Jumping, Unwinding, IsReturning, IsBreaking,
            IsContinuing, FunctionsDefined
<1>1. ~ Jumping(sh) => Steered(RequestExit(sh, code))
    BY DEF RequestExit, Shell
<1>2. ~ Unwinding(sh) => Steered(CheckErrexit(sh, code))
    BY <1>1 DEF CheckErrexit
<1>3. Testing(sh) => CheckErrexit(sh, code) = sh
    BY DEF Testing, CheckErrexit, Exempt
<1>4. ~ Unwinding(sh) => Steered([sh EXCEPT !.return_value = code])
    BY DEF Shell
<1>5. ~ Unwinding(sh) /\ code <= sh.loop_depth =>
          Steered([sh EXCEPT !.break_level = code])
    BY DEF Shell
<1>6. ~ Unwinding(sh) /\ code <= sh.loop_depth =>
          Steered([sh EXCEPT !.continue_level = code])
    BY DEF Shell
<1> QED
    BY <1>1, <1>2, <1>3, <1>4, <1>5, <1>6

\* Leaving a loop: break and continue are one level nearer to their end.
LEMMA LoopLeft ==
    ASSUME NEW sh \in Shell, Steered(sh)
    PROVE  /\ ~ IsBreaking(sh) /\ ~ IsContinuing(sh) => Steered(ExitLoop(sh))
           /\ IsBreaking(sh) => Steered(ExitLoop([sh EXCEPT !.break_level = @ - 1]))
           /\ IsContinuing(sh) => Steered(ExitLoop([sh EXCEPT !.continue_level = @ - 1]))
           /\ ~ IsBreaking(sh) => Steered([sh EXCEPT !.continue_level = 0])
<1> USE DEF Steered, OneJump, Jumping, IsReturning, IsBreaking, IsContinuing,
            FunctionsDefined, ExitLoop, Shell
<1>1. ~ IsBreaking(sh) /\ ~ IsContinuing(sh) => Steered(ExitLoop(sh))
    OBVIOUS
<1>2. IsBreaking(sh) => Steered(ExitLoop([sh EXCEPT !.break_level = @ - 1]))
    OBVIOUS
<1>3. IsContinuing(sh) => Steered(ExitLoop([sh EXCEPT !.continue_level = @ - 1]))
    OBVIOUS
<1>4. ~ IsBreaking(sh) => Steered([sh EXCEPT !.continue_level = 0])
    OBVIOUS
<1> QED
    BY <1>1, <1>2, <1>3, <1>4

-----------------------------------------------------------------------------
(* What is the same for every step inside a line *)

LEMMA PlacedCases ==
    ASSUME NEW Plain, NEW s, NEW sh, Settled(Plain, s, sh)
    PROVE  /\ \A code : Placed(Plain, s, sh, Result(code))
           /\ ~ Unwinding(sh) => Placed(Plain, s, sh, NextTurn)
           /\ Placed(Plain, s, sh, Idle)
           /\ \A tree : ~ Unwinding(sh) /\ (OpenTest(s, Len(s)) => tree \in Plain) =>
                 Placed(Plain, s, sh, Execute(tree))
BY DEF Placed, Result, NextTurn, Idle, Execute

\* A step that leaves the stack as it is and has a result.
LEMMA SimpleJump ==
    ASSUME NEW Plain, Placed(Plain, stack, shell, focus), UNCHANGED stack,
           Steered(shell'), OpenTest(stack, Len(stack)) => Testing(shell'),
           NEW code, focus' = Result(code)
    PROVE  Placed(Plain, stack', shell', focus')
<1>1. Settled(Plain, stack, shell')
    BY SettledSame DEF Placed
<1>2. Settled(Plain, stack', shell')
    BY <1>1
<1> QED
    BY <1>2, PlacedCases

\* A step that enters a construct.
LEMMA EnterJump ==
    ASSUME NEW Plain, IInv, Placed(Plain, stack, shell, focus),
           NEW frame \in Frame, Enter(frame),
           OpenTest(stack, Len(stack)) => PlainFrame(Plain, frame),
           frame.in = "subshell" => frame.parent = shell /\ ~ Unwinding(shell),
           Steered(shell'), ~ Unwinding(shell'),
           Opens(stack, frame) => shell'.in_condition,
           \/ focus' = NextTurn
           \/ \E tree : focus' = Execute(tree) /\ (Opens(stack, frame) => tree \in Plain)
    PROVE  Placed(Plain, stack', shell', focus')
<1>1. stack \in Seq(Frame) /\ stack' = Append(stack, frame)
    BY InvParts DEF Enter
<1>2. Opens(stack, frame) => Testing(shell')
    BY DEF Testing
<1>3. Settled(Plain, stack', shell')
    BY <1>1, <1>2, SettledPush DEF Placed
<1>4. OpenTest(stack', Len(stack')) <=> Opens(stack, frame)
    BY <1>1, OpenPush
<1> QED
    BY <1>3, <1>4, PlacedCases

\* A step that leaves the construct on top.
LEMMA LeaveJump ==
    ASSUME NEW Plain, IInv, Placed(Plain, stack, shell, focus), stack # <<>>, Leave,
           Steered(shell'),
           OpenTest(stack, Len(stack) - 1) => Testing(shell'),
           \/ \E code : focus' = Result(code)
           \/ /\ ~ Unwinding(shell')
              /\ \E tree : /\ focus' = Execute(tree)
                           /\ OpenTest(stack, Len(stack) - 1) => tree \in Plain
    PROVE  Placed(Plain, stack', shell', focus')
<1>1. stack \in Seq(Frame) /\ stack' = SubSeq(stack, 1, Len(stack) - 1)
    BY InvParts DEF Leave, Below
<1>2. Settled(Plain, stack', shell')
    BY <1>1, SettledPop DEF Placed
<1>3. OpenTest(stack', Len(stack')) <=> OpenTest(stack, Len(stack) - 1)
    BY <1>1, OpenPop
<1> QED
    BY <1>2, <1>3, PlacedCases

\* What is known when a construct has a part's result, and when it starts.
LEMMA ResumedJump ==
    ASSUME NEW Plain, IInv, Placed(Plain, stack, shell, focus),
           NEW kinds, Resuming(kinds)
    PROVE  LET open == OpenTest(stack, Len(stack) - 1)
           IN  /\ shell \in Shell /\ Steered(shell)
               /\ stack # <<>> /\ focus = Result(focus.code) /\ focus.code \in Nat
               /\ Top \in Frame /\ Top = stack[Len(stack)] /\ Top.in \in kinds
               /\ Top.in \in TestKinds => Testing(shell) /\ ~ open
               /\ Top.in \in LoopKinds => ~ open
               /\ Top.in \in {"sequence", "and", "or", "right", "negation", "call"} =>
                    /\ open <=> OpenTest(stack, Len(stack))
                    /\ open => Testing(shell) /\ PlainFrame(Plain, Top)
               /\ Top.in = "subshell" =>
                    /\ Steered(Top.parent) /\ ~ Unwinding(Top.parent)
                    /\ open => Testing(Top.parent)
<1>1. /\ focus.code \in Nat /\ focus = Result(focus.code)
      /\ stack # <<>> /\ Top \in Frame /\ Top = stack[Len(stack)] /\ Top.in \in kinds
    BY Resumed
<1>2. Settled(Plain, stack, shell) /\ stack \in Seq(Frame) /\ shell \in Shell
    BY InvParts DEF Placed
<1>3. Steered(shell)
    BY <1>2 DEF Settled
<1> QED
    BY <1>1, <1>2, <1>3, TopFacts

LEMMA StartedJump ==
    ASSUME NEW Plain, PlainConditions(Plain), IInv, Placed(Plain, stack, shell, focus),
           NEW op, Executing(op)
    PROVE  /\ shell \in Shell /\ Steered(shell) /\ ~ Unwinding(shell)
           /\ focus.tree \in TreesOf({op}) /\ focus.tree.op = op
           /\ OpenTest(stack, Len(stack)) => Testing(shell) /\ focus.tree \in Plain
<1>1. focus.tree \in TreesOf({op}) /\ focus.tree.op = op /\ focus.do = "execute"
    BY Started DEF Executing
<1> QED
    BY <1>1, InvParts DEF Placed, Settled

-----------------------------------------------------------------------------
(* Simple commands *)

LEMMA JumpSimple ==
    ASSUME NEW Plain, PlainConditions(Plain), IInv,
           Placed(Plain, stack, shell, focus), Simple
    PROVE  Placed(Plain, stack', shell', focus')
<1>1. CASE RunCommand
    <2>1. /\ shell \in Shell /\ Steered(shell) /\ ~ Unwinding(shell)
          /\ OpenTest(stack, Len(stack)) => Testing(shell)
        BY <1>1, StartedJump DEF RunCommand
    <2>2. PICK code \in Nat : /\ focus' = Result(code)
                              /\ shell' \in {shell, CheckErrexit(shell, code)}
        BY <1>1, ExecutorAssumption DEF RunCommand, Executed
    <2>3. Steered(shell') /\ (OpenTest(stack, Len(stack)) => Testing(shell'))
        BY <2>1, <2>2, Jumps
    <2> QED
        BY <1>1, <2>2, <2>3, SimpleJump DEF RunCommand
<1>2. CASE Break \/ Continue
    <2>1. PICK op \in {"break", "continue"} : Executing(op)
        BY <1>2 DEF Break, Continue
    <2>2. /\ shell \in Shell /\ Steered(shell) /\ ~ Unwinding(shell)
          /\ focus.tree \in TreesOf({"break", "continue"})
          /\ ~ OpenTest(stack, Len(stack))
        BY <2>1, StartedJump DEF PlainConditions, TreesOf
    <2>3. focus.tree.level \in Nat
        BY <2>2, TreeAssumption
    <2>4. Steered(shell')
        BY <1>2, <2>2, <2>3, Jumps DEF Break, Continue
    <2>5. \E code : focus' = Result(code)
        BY <1>2 DEF Break, Continue
    <2> QED
        BY <1>2, <2>2, <2>4, <2>5, SimpleJump DEF Break, Continue
<1>3. CASE Exit \/ Return
    <2>1. PICK op \in {"exit", "return"} : Executing(op)
        BY <1>3 DEF Exit, Return
    <2>2. /\ shell \in Shell /\ Steered(shell) /\ ~ Unwinding(shell)
          /\ focus.tree \in TreesOf({"exit", "return"})
          /\ ~ OpenTest(stack, Len(stack))
        <3>1. /\ shell \in Shell /\ Steered(shell) /\ ~ Unwinding(shell)
              /\ focus.tree \in TreesOf({op}) /\ focus.tree.op = op
              /\ OpenTest(stack, Len(stack)) => focus.tree \in Plain
            BY <2>1, StartedJump
        <3> QED
            BY ONLY <3>1, PlainConditions(Plain), op \in {"exit", "return"} DEF PlainConditions, TreesOf
    <2>3. /\ focus.tree.code \in Nat \cup {NoCode}
          /\ shell.last_exit_code \in Nat /\ ~ Jumping(shell)
        BY <2>2, TreeAssumption DEF Shell, Unwinding, Jumping
    <2>4. Steered(shell') /\ \E code : focus' = Result(code)
        <3>1. CASE Exit
            <4>1. PICK code \in Nat : shell' = RequestExit(shell, code) /\ focus' = Result(code)
                BY <2>3, <3>1 DEF Exit
            <4> QED
                BY <2>2, <2>3, <4>1, Jumps
        <3>2. CASE Return
            <4>1. \/ shell' = shell /\ focus' = Result(1)
                  \/ \E code \in Nat : shell' = [shell EXCEPT !.return_value = code] /\ focus' = Result(code)
                BY <2>3, <3>2 DEF Return
            <4> QED
                BY <2>2, <4>1, Jumps
        <3> QED
            BY <1>3, <3>1, <3>2
    <2>5. UNCHANGED stack
        BY <1>3 DEF Exit, Return
    <2> QED
        BY <2>2, <2>4, <2>5, SimpleJump
<1> QED
    BY <1>1, <1>2, <1>3 DEF Simple

-----------------------------------------------------------------------------
(* Lists *)

LEMMA JumpEnterList ==
    ASSUME NEW Plain, PlainConditions(Plain), IInv,
           Placed(Plain, stack, shell, focus),
           EnterSequence \/ EnterIf \/ EnterChain \/ EnterNegation
    PROVE  Placed(Plain, stack', shell', focus')
<1>1. CASE EnterSequence
    <2>1. /\ shell \in Shell /\ Steered(shell) /\ ~ Unwinding(shell)
          /\ focus.tree \in TreesOf({"sequence"}) /\ focus.tree.op = "sequence"
          /\ OpenTest(stack, Len(stack)) => Testing(shell) /\ focus.tree \in Plain
        BY <1>1, StartedJump DEF EnterSequence
    <2> DEFINE parts == focus.tree.parts
               frame == [in |-> "sequence", rest |-> Tail(parts)]
    <2>2. parts \in Seq(Tree) \ {<<>>} /\ focus.tree.parts = parts
        BY <2>1, TreeAssumption
    <2>3. OpenTest(stack, Len(stack)) => parts \in Seq(Plain)
        BY <2>1 DEF PlainConditions
    <2>4. Enter(frame) /\ focus' = Execute(Head(parts))
        BY <1>1 DEF EnterSequence
    <2> HIDE DEF parts
    <2>5. OpenTest(stack, Len(stack)) => Tail(parts) \in Seq(Plain) /\ Head(parts) \in Plain
        BY <2>2, <2>3
    <2>6. /\ frame \in Frame /\ frame.in = "sequence"
          /\ OpenTest(stack, Len(stack)) => PlainFrame(Plain, frame)
        BY <2>2, <2>5, SequencePart DEF Frame, PlainFrame
    <2> HIDE DEF frame
    <2>7. SameCourse(shell, shell') /\ shell'.in_condition = shell.in_condition
        BY <1>1, <2>1, SameCourseShell DEF EnterSequence
    <2>8. Steered(shell') /\ ~ Unwinding(shell')
        BY <2>1, <2>7, SteeredSame
    <2>9. Opens(stack, frame) => OpenTest(stack, Len(stack))
        BY <2>6 DEF Opens, TestKinds
    <2> QED
        BY <2>1, <2>4, <2>5, <2>6, <2>7, <2>8, <2>9, EnterJump DEF Testing
<1>2. CASE EnterIf
    <2>1. /\ shell \in Shell /\ Steered(shell) /\ ~ Unwinding(shell)
          /\ focus.tree \in TreesOf({"if"}) /\ focus.tree.op = "if"
          /\ OpenTest(stack, Len(stack)) => focus.tree \in Plain
        BY <1>2, StartedJump DEF EnterIf
    <2> DEFINE frame == [in |-> "if", tree |-> focus.tree]
    <2>2. frame \in Frame /\ frame.in = "if"
        BY <2>1 DEF Frame
    <2>3. focus.tree.condition \in Plain /\ ~ OpenTest(stack, Len(stack))
        BY <2>1 DEF PlainConditions, TreesOf
    <2>4. Enter(frame) /\ focus' = Execute(focus.tree.condition)
        BY <1>2 DEF EnterIf
    <2> HIDE DEF frame
    <2>5. SameCourse(shell, shell') /\ shell'.in_condition
        BY <1>2, <2>1, SameCourseShell DEF EnterIf
    <2>6. Steered(shell') /\ ~ Unwinding(shell')
        BY <2>1, <2>5, SteeredSame
    <2> QED
        BY <2>2, <2>3, <2>4, <2>5, <2>6, EnterJump
<1>3. CASE EnterChain
    <2>1. PICK op \in {"and", "or"} : Executing(op)
        BY <1>3 DEF EnterChain
    <2>2. /\ shell \in Shell /\ Steered(shell) /\ ~ Unwinding(shell)
          /\ focus.tree \in TreesOf({"and", "or"}) /\ focus.tree.op \in {"and", "or"}
          /\ OpenTest(stack, Len(stack)) => Testing(shell) /\ focus.tree \in Plain
        BY <2>1, StartedJump DEF TreesOf
    <2> DEFINE frame == [in |-> focus.tree.op, right |-> focus.tree.right]
    <2>3. focus.tree.left \in Tree /\ focus.tree.right \in Tree
        BY <2>2, TreeAssumption
    <2>4. OpenTest(stack, Len(stack)) => focus.tree.left \in Plain /\ focus.tree.right \in Plain
        BY <2>2 DEF PlainConditions
    <2>5. /\ frame \in Frame /\ frame.in \in {"and", "or"}
          /\ OpenTest(stack, Len(stack)) => PlainFrame(Plain, frame)
        BY <2>2, <2>3, <2>4 DEF Frame, PlainFrame
    <2>6. Enter(frame) /\ focus' = Execute(focus.tree.left)
        BY <1>3 DEF EnterChain
    <2> HIDE DEF frame
    <2>7. SameCourse(shell, shell') /\ shell'.in_condition = shell.in_condition
        BY <1>3, <2>2, SameCourseShell DEF EnterChain
    <2>8. Steered(shell') /\ ~ Unwinding(shell')
        BY <2>2, <2>7, SteeredSame
    <2>9. Opens(stack, frame) => OpenTest(stack, Len(stack))
        BY <2>5 DEF Opens, TestKinds
    <2> QED
        BY <2>2, <2>4, <2>5, <2>6, <2>7, <2>8, <2>9, EnterJump DEF Testing
<1>4. CASE EnterNegation
    <2>1. /\ shell \in Shell /\ Steered(shell) /\ ~ Unwinding(shell)
          /\ focus.tree.op = "negation"
          /\ OpenTest(stack, Len(stack)) => Testing(shell) /\ focus.tree \in Plain
        BY <1>4, StartedJump DEF EnterNegation
    <2> DEFINE frame == [in |-> "negation"]
    <2>2. OpenTest(stack, Len(stack)) => focus.tree.command \in Plain
        BY <2>1 DEF PlainConditions
    <2>3. frame \in Frame /\ frame.in = "negation" /\ PlainFrame(Plain, frame)
        BY DEF Frame, PlainFrame
    <2>4. Enter(frame) /\ focus' = Execute(focus.tree.command)
        BY <1>4 DEF EnterNegation
    <2> HIDE DEF frame
    <2>5. SameCourse(shell, shell') /\ shell'.in_condition = shell.in_condition
        BY <1>4, <2>1, SameCourseShell DEF EnterNegation
    <2>6. Steered(shell') /\ ~ Unwinding(shell')
        BY <2>1, <2>5, SteeredSame
    <2>7. Opens(stack, frame) => OpenTest(stack, Len(stack))
        BY <2>3 DEF Opens, TestKinds
    <2> QED
        BY <2>1, <2>2, <2>3, <2>4, <2>5, <2>6, <2>7, EnterJump DEF Testing
<1> QED
    BY <1>1, <1>2, <1>3, <1>4

LEMMA JumpAfterPart ==
    ASSUME NEW Plain, IInv, Placed(Plain, stack, shell, focus), AfterPart
    PROVE  Placed(Plain, stack', shell', focus')
<1> DEFINE open == OpenTest(stack, Len(stack) - 1)
<1>1. /\ shell \in Shell /\ Steered(shell)
      /\ stack # <<>> /\ focus = Result(focus.code) /\ focus.code \in Nat
      /\ Top \in Frame /\ Top = stack[Len(stack)] /\ Top.in = "sequence"
      /\ open <=> OpenTest(stack, Len(stack))
      /\ open => Testing(shell) /\ PlainFrame(Plain, Top)
    BY ResumedJump DEF AfterPart
<1> HIDE DEF open
<1>2. CASE /\ Leave /\ UNCHANGED shell
           /\ focus' \in {focus, Result(Unwound(shell, focus.code))}
    <2>1. Steered(shell') /\ (open => Testing(shell'))
        BY <1>1, <1>2
    <2>2. \E code : focus' = Result(code)
        BY <1>1, <1>2
    <2> QED
        BY <1>1, <1>2, <2>1, <2>2, LeaveJump DEF open
<1>3. CASE /\ ~ Unwinding(shell) /\ Fails(shell, focus.code)
           /\ shell' = RequestExit(shell, focus.code)
           /\ Leave /\ UNCHANGED focus
    <2>1. ~ Jumping(shell) /\ ~ open
        BY <1>1, <1>3 DEF Unwinding, Jumping, Fails, Exempt, Testing
    <2>2. Steered(shell')
        BY <1>1, <1>3, <2>1, Jumps
    <2>3. \E code : focus' = Result(code)
        BY <1>1, <1>3
    <2> QED
        BY <1>1, <1>3, <2>1, <2>2, <2>3, LeaveJump DEF open
<1>4. CASE /\ ~ Unwinding(shell) /\ Top.rest # <<>>
           /\ stack' = [stack EXCEPT ![Len(stack)].rest = Tail(@)]
           /\ shell' = [shell EXCEPT !.last_was_negation = FALSE]
           /\ focus' = Execute(Head(Top.rest))
    <2>1. Top.rest \in Seq(Tree) \ {<<>>}
        BY <1>1, <1>4, FrameParts
    <2> DEFINE frame == [Top EXCEPT !.rest = Tail(@)]
    <2>2. Top \in [in : {"sequence"}, rest : Seq(Tree)]
        BY <1>1 DEF Frame
    <2>3. /\ frame \in [in : {"sequence"}, rest : Seq(Tree)]
          /\ frame.in = "sequence" /\ frame.rest = Tail(Top.rest)
        BY <2>1, <2>2, SequencePart
    <2>4. frame \in Frame
        BY <2>3 DEF Frame
    <2>5. stack' = [stack EXCEPT ![Len(stack)] = frame]
        BY <1>1, <1>4
    <2> HIDE DEF frame
    <2>6. open => Top.rest \in Seq(Plain)
        BY <1>1 DEF PlainFrame
    <2>7. open => Tail(Top.rest) \in Seq(Plain) /\ Head(Top.rest) \in Plain
        BY <2>1, <2>6
    <2>8. open => PlainFrame(Plain, frame)
        BY <2>3, <2>7 DEF PlainFrame
    <2>9. SameCourse(shell, shell') /\ shell'.in_condition = shell.in_condition
        BY <1>1, <1>4, SameCourseShell
    <2>10. /\ Steered(shell') /\ ~ Unwinding(shell')
           /\ open => Testing(shell')
        BY <1>1, <1>4, <2>9, SteeredSame DEF Testing
    <2>11. stack \in Seq(Frame) /\ Settled(Plain, stack, shell)
        BY InvParts DEF Placed
    <2>12. Settled(Plain, stack', shell')
        BY <1>1, <2>3, <2>4, <2>5, <2>8, <2>10, <2>11, SettledChange DEF open
    <2>13. OpenTest(stack', Len(stack')) => open
        <3>1. /\ Len(stack') = Len(stack) /\ Len(stack) \in Nat
              /\ \A i \in 1..Len(stack) : stack'[i].in = stack[i].in
            BY <1>1, <2>3, <2>5, <2>11
        <3> QED
            BY <1>1, <3>1, OpenSame
    <2> QED
        BY <1>4, <2>7, <2>10, <2>12, <2>13, PlacedCases
<1> QED
    BY <1>2, <1>3, <1>4 DEF AfterPart

LEMMA JumpLeaveList ==
    ASSUME NEW Plain, IInv, Placed(Plain, stack, shell, focus),
           AfterCondition \/ AfterRight \/ AfterNegated
    PROVE  Placed(Plain, stack', shell', focus')
<1>1. CASE AfterCondition
    <2>1. /\ shell \in Shell /\ Steered(shell) /\ Testing(shell) /\ stack # <<>>
          /\ ~ OpenTest(stack, Len(stack) - 1)
        BY <1>1, ResumedJump DEF AfterCondition, TestKinds
    <2>2. SameCourse(shell, shell')
        BY <1>1, <2>1, SameCourseShell DEF AfterCondition
    <2>3. Steered(shell') /\ ~ Unwinding(shell')
        BY <2>1, <2>2, SteeredSame DEF Testing
    <2>4. (\E code : focus' = Result(code)) \/ (\E tree : focus' = Execute(tree))
        BY <1>1 DEF AfterCondition
    <2> QED
        BY <1>1, <2>1, <2>3, <2>4, LeaveJump DEF AfterCondition
<1>2. CASE AfterRight \/ AfterNegated
    <2>1. Resuming({"right", "negation"}) /\ Leave
        BY <1>2 DEF AfterRight, AfterNegated, Resuming
    <2>2. /\ shell \in Shell /\ Steered(shell) /\ stack # <<>>
          /\ focus = Result(focus.code)
          /\ OpenTest(stack, Len(stack) - 1) => Testing(shell)
        BY <2>1, ResumedJump
    <2>3. SameCourse(shell, shell') /\ shell'.in_condition = shell.in_condition
        BY <1>2, <2>2 DEF AfterRight, AfterNegated, SameCourse, Shell
    <2>4. /\ Steered(shell')
          /\ OpenTest(stack, Len(stack) - 1) => Testing(shell')
        BY <2>2, <2>3, SteeredSame DEF Testing
    <2>5. \E code : focus' = Result(code)
        BY <1>2, <2>2 DEF AfterRight, AfterNegated
    <2> QED
        BY <2>1, <2>2, <2>4, <2>5, LeaveJump
<1> QED
    BY <1>1, <1>2

LEMMA JumpAfterLeft ==
    ASSUME NEW Plain, IInv, Placed(Plain, stack, shell, focus), AfterLeft
    PROVE  Placed(Plain, stack', shell', focus')
<1> DEFINE open == OpenTest(stack, Len(stack) - 1)
<1>1. /\ shell \in Shell /\ Steered(shell)
      /\ stack # <<>> /\ focus = Result(focus.code)
      /\ Top \in Frame /\ Top.in \in {"and", "or"}
      /\ open => Testing(shell) /\ PlainFrame(Plain, Top)
    BY ResumedJump DEF AfterLeft
<1> HIDE DEF open
<1>2. CASE /\ ~ Unwinding(shell) /\ UNCHANGED shell /\ focus' = Execute(Top.right)
           /\ stack' = Append(Below, [in |-> "right"])
    <2> DEFINE frame == [in |-> "right"]
    <2>1. frame \in Frame /\ frame.in = "right" /\ PlainFrame(Plain, frame)
        BY DEF Frame, PlainFrame
    <2>2. stack' = Append(Below, frame)
        BY <1>2
    <2> HIDE DEF frame
    <2>3. stack \in Seq(Frame) /\ Settled(Plain, stack, shell)
        BY InvParts DEF Placed
    <2>4. /\ Settled(Plain, Below, shell)
          /\ OpenTest(Below, Len(Below)) <=> open
        BY <1>1, <2>3, SettledPop, OpenPop DEF Below, open
    <2>5. Below \in Seq(Frame)
        BY <1>1, <2>3 DEF Below
    <2>6. Opens(Below, frame) <=> open
        BY <2>1, <2>4 DEF Opens, TestKinds
    <2>7. Settled(Plain, stack', shell)
        BY <1>1, <2>1, <2>2, <2>4, <2>5, <2>6, SettledPush
    <2>8. OpenTest(stack', Len(stack')) => Top.right \in Plain
        BY <1>1, <2>1, <2>2, <2>5, <2>6, OpenPush DEF PlainFrame
    <2>9. Settled(Plain, stack', shell') /\ ~ Unwinding(shell')
        BY <1>2, <2>7
    <2> QED
        BY <1>2, <2>8, <2>9, PlacedCases
<1>3. CASE /\ Leave /\ UNCHANGED focus
           /\ shell' = [shell EXCEPT !.in_logical_chain = FALSE]
    <2>1. SameCourse(shell, shell') /\ shell'.in_condition = shell.in_condition
        BY <1>1, <1>3, SameCourseShell
    <2>2. Steered(shell') /\ (open => Testing(shell'))
        BY <1>1, <2>1, SteeredSame DEF Testing
    <2>3. \E code : focus' = Result(code)
        BY <1>1, <1>3
    <2> QED
        BY <1>1, <1>3, <2>2, <2>3, LeaveJump DEF open
<1> QED
    BY <1>2, <1>3 DEF AfterLeft

-----------------------------------------------------------------------------
(* Loops *)

LEMMA JumpEnterLoop ==
    ASSUME NEW Plain, PlainConditions(Plain), IInv,
           Placed(Plain, stack, shell, focus), EnterFor \/ EnterWhile
    PROVE  Placed(Plain, stack', shell', focus')
<1>1. PICK op \in LoopKinds : Executing(op)
    BY DEF EnterFor, EnterWhile, LoopKinds
<1>2. /\ shell \in Shell /\ Steered(shell) /\ ~ Unwinding(shell)
      /\ focus.tree \in TreesOf(LoopKinds) /\ focus.tree.op = op
      /\ ~ OpenTest(stack, Len(stack))
    BY <1>1, StartedJump DEF PlainConditions, TreesOf, LoopKinds
<1>3. shell' = [shell EXCEPT !.loop_depth = @ + 1] /\ focus' = NextTurn
    BY DEF EnterFor, EnterWhile
<1>4. PICK frame \in Frame : frame.in \in LoopKinds /\ Enter(frame)
    <2>1. CASE EnterFor
        <3> DEFINE frame == [in |-> "for", tree |-> focus.tree,
                             left |-> focus.tree.items, code |-> 0]
        <3>1. focus.tree \in TreesOf({"for"})
            BY <1>2, <2>1 DEF EnterFor, Executing, TreesOf
        <3>2. focus.tree.items \in Nat
            BY <3>1, TreeAssumption
        <3>3. frame \in Frame /\ frame.in \in LoopKinds /\ Enter(frame)
            BY <2>1, <3>1, <3>2 DEF EnterFor, Frame, LoopKinds
        <3> QED
            BY <3>3
    <2>2. CASE EnterWhile
        <3> DEFINE frame == [in |-> focus.tree.op, tree |-> focus.tree, code |-> 0]
        <3>1. focus.tree \in TreesOf({"while", "until"}) /\ focus.tree.op \in {"while", "until"}
            BY <1>2, <2>2 DEF EnterWhile, Executing, TreesOf
        <3>2. frame \in Frame /\ frame.in \in LoopKinds /\ Enter(frame)
            BY <2>2, <3>1 DEF EnterWhile, Frame, LoopKinds
        <3> QED
            BY <3>2
    <2> QED
        BY <2>1, <2>2
<1>5. Steered(shell') /\ ~ Unwinding(shell')
    BY <1>2, <1>3 DEF Steered, OneJump, Jumping, Unwinding, IsReturning, IsBreaking,
                      IsContinuing, FunctionsDefined, Shell
<1>6. ~ Opens(stack, frame) /\ frame.in # "subshell"
    BY <1>2, <1>4 DEF Opens, TestKinds, LoopKinds
<1> QED
    BY <1>2, <1>3, <1>4, <1>5, <1>6, EnterJump

\* What is known when a loop is about to take its next turn.
LEMMA TurnJump ==
    ASSUME NEW Plain, IInv, Placed(Plain, stack, shell, focus), focus.do = "turn"
    PROVE  /\ shell \in Shell /\ Steered(shell) /\ ~ Unwinding(shell)
           /\ stack \in Seq(Frame) /\ stack # <<>>
           /\ Top \in Frame /\ Top = stack[Len(stack)] /\ Top.in \in LoopKinds
           /\ ~ OpenTest(stack, Len(stack)) /\ ~ OpenTest(stack, Len(stack) - 1)
<1>1. stack # <<>> /\ Top = stack[Len(stack)] /\ Top.in \in LoopKinds
    BY DEF IInv, TypeOK, Top
<1>2. Settled(Plain, stack, shell) /\ stack \in Seq(Frame) /\ shell \in Shell
    BY InvParts DEF Placed
<1>3. Top \in Frame
    BY <1>1, <1>2
<1> QED
    BY <1>1, <1>2, <1>3, TopFacts DEF Placed, Settled

\* A loop's frame changes, outside of conditions.
LEMMA ChangeLoopJump ==
    ASSUME NEW Plain, IInv, Placed(Plain, stack, shell, focus),
           stack # <<>>, Top.in \in LoopKinds,
           ~ OpenTest(stack, Len(stack)), ~ OpenTest(stack, Len(stack) - 1),
           NEW frame \in Frame, frame.in = Top.in,
           stack' = [stack EXCEPT ![Len(stack)] = frame],
           Steered(shell'), ~ Unwinding(shell'),
           focus' = NextTurn \/ \E tree : focus' = Execute(tree)
    PROVE  Placed(Plain, stack', shell', focus')
<1>1. stack \in Seq(Frame) /\ Settled(Plain, stack, shell)
    BY InvParts DEF Placed
<1>2. frame.in = stack[Len(stack)].in /\ frame.in # "subshell"
    BY DEF Top, LoopKinds
<1>3. Settled(Plain, stack', shell')
    BY <1>1, <1>2, SettledChange
<1>4. ~ OpenTest(stack', Len(stack'))
    <2>1. /\ Len(stack') = Len(stack) /\ Len(stack) \in Nat
          /\ \A i \in 1..Len(stack) : stack'[i].in = stack[i].in
        BY <1>1, <1>2
    <2> QED
        BY <2>1, OpenSame
<1>5. CASE focus' = NextTurn
    BY ONLY <1>3, <1>5, ~ Unwinding(shell'), PlacedCases
<1>6. CASE \E tree : focus' = Execute(tree)
    <2>1. PICK tree : focus' = Execute(tree)
        BY <1>6
    <2>2. Placed(Plain, stack', shell', Execute(tree))
        BY ONLY <1>3, <1>4, ~ Unwinding(shell'), PlacedCases
    <2> QED
        BY ONLY <2>1, <2>2
<1> QED
    BY <1>5, <1>6

LEMMA JumpForTurn ==
    ASSUME NEW Plain, IInv, Placed(Plain, stack, shell, focus), ForTurn
    PROVE  Placed(Plain, stack', shell', focus')
<1>1. /\ shell \in Shell /\ Steered(shell) /\ ~ Unwinding(shell)
      /\ stack # <<>> /\ Top \in Frame /\ Top = stack[Len(stack)]
      /\ Top.in = "for" /\ Top.in \in LoopKinds
      /\ ~ OpenTest(stack, Len(stack)) /\ ~ OpenTest(stack, Len(stack) - 1)
    BY TurnJump DEF ForTurn
<1>2. ~ Jumping(shell)
    BY <1>1 DEF Jumping, Unwinding
<1>3. CASE Top.left = 0
    <2>1. Leave /\ shell' = ExitLoop(shell) /\ focus' = Result(Top.code)
        BY <1>3 DEF ForTurn
    <2>2. Steered(shell')
        BY <1>1, <1>2, <2>1, LoopLeft DEF Jumping
    <2> QED
        BY <1>1, <2>1, <2>2, LeaveJump
<1>4. CASE Top.left # 0
    <2>1. PICK sh \in AfterSignals(shell) :
             IF sh.exit_requested
             THEN /\ shell' = ExitLoop(sh)
                  /\ focus' = Result(sh.exit_code)
                  /\ Leave
             ELSE /\ shell' = sh
                  /\ focus' = Execute(Top.tree.body)
                  /\ stack' = [stack EXCEPT ![Len(stack)].left = @ - 1]
        BY <1>4 DEF ForTurn
    <2>2. CASE sh.exit_requested
        <3>1. PICK code \in Nat : sh = RequestExit(shell, code)
            BY <1>1, <2>1, <2>2, ExecutorAssumption DEF AfterSignals, Unwinding
        <3>2. Steered(sh) /\ sh \in Shell
            BY <1>1, <1>2, <3>1, Jumps, SteadyExit, SteadyStatus, SteadyFlags DEF Steady
        <3>3. ~ IsBreaking(sh) /\ ~ IsContinuing(sh)
            BY <2>2, <3>2 DEF Steered, OneJump, Jumping
        <3>4. Steered(ExitLoop(sh))
            BY <3>2, <3>3, LoopLeft
        <3> QED
            BY <1>1, <2>1, <2>2, <3>4, LeaveJump
    <2>3. CASE ~ sh.exit_requested
        <3>1. sh = shell
            BY <1>1, <2>1, <2>3 DEF AfterSignals, RequestExit, Shell
        <3>2. Top.left - 1 \in Nat
            BY <1>1, <1>4, FrameParts
        <3> DEFINE frame == [Top EXCEPT !.left = Top.left - 1]
        <3>3. frame \in Frame /\ frame.in = Top.in
            BY <1>1, <3>2, LoopFrames
        <3>4. stack' = [stack EXCEPT ![Len(stack)] = frame]
            BY <1>1, <2>1, <2>3
        <3> HIDE DEF frame
        <3>5. Steered(shell') /\ ~ Unwinding(shell') /\ focus' = Execute(Top.tree.body)
            BY <1>1, <2>1, <2>3, <3>1
        <3> QED
            BY <1>1, <3>3, <3>4, <3>5, ChangeLoopJump
    <2> QED
        BY <2>2, <2>3
<1> QED
    BY <1>3, <1>4

LEMMA JumpWhileTurn ==
    ASSUME NEW Plain, PlainConditions(Plain), IInv,
           Placed(Plain, stack, shell, focus), WhileTurn
    PROVE  Placed(Plain, stack', shell', focus')
<1>1. /\ shell \in Shell /\ Steered(shell) /\ ~ Unwinding(shell)
      /\ Top \in Frame /\ Top.in \in {"while", "until"}
      /\ ~ OpenTest(stack, Len(stack))
    BY TurnJump DEF WhileTurn
<1>2. Top.tree.condition \in Plain
    BY <1>1, FrameParts DEF PlainConditions, TreesOf
<1> DEFINE frame == [in |-> "condition"]
<1>3. frame \in Frame /\ frame.in # "subshell"
    BY DEF Frame
<1>4. Enter(frame) /\ focus' = Execute(Top.tree.condition)
    BY DEF WhileTurn
<1> HIDE DEF frame
<1>5. SameCourse(shell, shell') /\ shell'.in_condition
    BY <1>1, SameCourseShell DEF WhileTurn
<1>6. Steered(shell') /\ ~ Unwinding(shell')
    BY <1>1, <1>5, SteeredSame
<1> QED
    BY <1>1, <1>2, <1>3, <1>4, <1>5, <1>6, EnterJump

LEMMA JumpLoopCondition ==
    ASSUME NEW Plain, IInv, Placed(Plain, stack, shell, focus), AfterLoopCondition
    PROVE  Placed(Plain, stack', shell', focus')
<1> DEFINE sh == [shell EXCEPT !.in_condition = FALSE]
           loop == stack[Len(stack) - 1]
           outer == SubSeq(stack, 1, Len(stack) - 2)
<1>1. /\ shell \in Shell /\ Steered(shell) /\ Testing(shell) /\ stack # <<>>
      /\ Top = stack[Len(stack)] /\ Top.in = "condition"
      /\ ~ OpenTest(stack, Len(stack) - 1)
    BY ResumedJump DEF AfterLoopCondition, TestKinds
<1>2. stack \in Seq(Frame) /\ Settled(Plain, stack, shell) /\ Good(stack, shell)
    BY InvParts DEF Placed
<1>3. /\ Len(stack) - 1 \in 1..Len(stack)
      /\ loop \in Frame /\ loop.in \in LoopKinds
    <2>1. Len(stack) \in 1..Len(stack)
        BY <1>1, <1>2
    <2>2. Len(stack) - 1 \in 1..Len(stack) /\ loop.in \in {"while", "until"}
        BY <1>1, <1>2, <2>1, BelowCondition DEF Good
    <2> QED
        BY <1>2, <2>2 DEF LoopKinds
<1>4. SameCourse(shell, sh) /\ sh \in Shell
    BY <1>1, SameCourseShell, SteadyExit, SteadyStatus, SteadyFlags DEF Steady
<1>5. Steered(sh) /\ ~ Unwinding(sh)
    BY <1>1, <1>4, SteeredSame DEF Testing
<1>6. /\ Below \in Seq(Frame) /\ Len(Below) = Len(stack) - 1 /\ Below # <<>>
      /\ Below[Len(Below)] = loop
    <2>1. Len(stack) - 1 \in 0..Len(stack)
        BY <1>1, <1>2
    <2>2. /\ Below \in Seq(Frame) /\ Len(Below) = Len(stack) - 1
          /\ \A i \in 1..(Len(stack) - 1) : Below[i] = stack[i]
        BY <1>2, <2>1, Prefix DEF Below
    <2> QED
        BY <1>3, <2>2
<1>7. SubSeq(Below, 1, Len(Below) - 1) = outer
    BY <1>2, <1>3 DEF Below
<1> HIDE DEF sh, loop, outer
<1>8. Settled(Plain, Below, sh) /\ ~ OpenTest(Below, Len(Below))
    BY <1>1, <1>2, <1>5, SettledPop, OpenPop DEF Below
<1>9. ~ OpenTest(Below, Len(Below) - 1)
    BY <1>3, <1>6, <1>8, TopFacts
<1>10. Steered(ExitLoop(sh))
    BY <1>4, <1>5, LoopLeft DEF Unwinding
<1>11. Settled(Plain, outer, ExitLoop(sh))
    BY <1>6, <1>7, <1>8, <1>9, <1>10, SettledPop
<1>12. \/ /\ shell' = ExitLoop(sh) /\ stack' = outer
          /\ \E code : focus' = Result(code)
       \/ /\ shell' = sh /\ stack' = Below
          /\ \E tree : focus' = Execute(tree)
    BY DEF AfterLoopCondition, sh, loop, outer
<1>13. CASE /\ shell' = ExitLoop(sh) /\ stack' = outer
            /\ \E code : focus' = Result(code)
    BY <1>11, <1>13, PlacedCases
<1>14. CASE /\ shell' = sh /\ stack' = Below
            /\ \E tree : focus' = Execute(tree)
    BY <1>5, <1>8, <1>14, PlacedCases
<1> QED
    BY <1>12, <1>13, <1>14

LEMMA JumpAfterBody ==
    ASSUME NEW Plain, IInv, Placed(Plain, stack, shell, focus), AfterBody
    PROVE  Placed(Plain, stack', shell', focus')
<1>1. /\ shell \in Shell /\ Steered(shell)
      /\ stack # <<>> /\ focus = Result(focus.code) /\ focus.code \in Nat
      /\ Top \in Frame /\ Top = stack[Len(stack)] /\ Top.in \in LoopKinds
      /\ ~ OpenTest(stack, Len(stack) - 1)
    BY ResumedJump DEF AfterBody, LoopKinds
<1>2. ~ OpenTest(stack, Len(stack))
    BY <1>1, InvParts, TopFacts DEF Placed
<1>3. CASE IsReturning(shell) \/ shell.exit_requested
    <2>1. /\ Leave /\ shell' = ExitLoop(shell)
          /\ focus' = Result(Unwound(shell, focus.code))
        BY <1>3 DEF AfterBody
    <2>2. ~ IsBreaking(shell) /\ ~ IsContinuing(shell)
        BY <1>1, <1>3 DEF Steered, OneJump, Jumping
    <2>3. Steered(shell')
        BY <1>1, <2>1, <2>2, LoopLeft
    <2> QED
        BY <1>1, <2>1, <2>3, LeaveJump
<1>4. CASE ~ (IsReturning(shell) \/ shell.exit_requested) /\ IsBreaking(shell)
    <2>1. /\ Leave /\ shell' = ExitLoop([shell EXCEPT !.break_level = @ - 1])
          /\ UNCHANGED focus
        BY <1>4 DEF AfterBody
    <2>2. Steered(shell') /\ \E code : focus' = Result(code)
        BY <1>1, <1>4, <2>1, LoopLeft
    <2> QED
        BY <1>1, <2>1, <2>2, LeaveJump
<1>5. CASE /\ ~ (IsReturning(shell) \/ shell.exit_requested \/ IsBreaking(shell))
           /\ shell.continue_level > 1
    <2>1. /\ Leave /\ shell' = ExitLoop([shell EXCEPT !.continue_level = @ - 1])
          /\ UNCHANGED focus /\ IsContinuing(shell)
        BY <1>1, <1>5 DEF AfterBody, IsContinuing, Shell
    <2>2. Steered(shell') /\ \E code : focus' = Result(code)
        BY <1>1, <2>1, LoopLeft
    <2> QED
        BY <1>1, <2>1, <2>2, LeaveJump
<1>6. CASE /\ ~ (IsReturning(shell) \/ shell.exit_requested \/ IsBreaking(shell))
           /\ ~ (shell.continue_level > 1)
    <2>1. /\ shell' = [shell EXCEPT !.continue_level = 0]
          /\ stack' = [stack EXCEPT ![Len(stack)].code = focus.code]
          /\ focus' = NextTurn
        BY <1>6 DEF AfterBody
    <2> DEFINE frame == [Top EXCEPT !.code = focus.code]
    <2>2. frame \in Frame /\ frame.in = Top.in
        BY <1>1, LoopFrames
    <2>3. stack' = [stack EXCEPT ![Len(stack)] = frame]
        BY <1>1, <2>1
    <2> HIDE DEF frame
    <2>4. Steered(shell') /\ ~ Unwinding(shell')
        <3>1. Steered(shell')
            BY <1>1, <1>6, <2>1, LoopLeft
        <3>2. ~ Unwinding(shell')
            BY <1>1, <1>6, <2>1 DEF Unwinding, IsReturning, IsBreaking, IsContinuing, Shell
        <3> QED
            BY <3>1, <3>2
    <2> QED
        BY <1>1, <1>2, <2>1, <2>2, <2>3, <2>4, ChangeLoopJump
<1> QED
    BY <1>3, <1>4, <1>5, <1>6

-----------------------------------------------------------------------------
(* Functions and subshells *)

LEMMA JumpDefine ==
    ASSUME NEW Plain, PlainConditions(Plain), IInv,
           Placed(Plain, stack, shell, focus), Define
    PROVE  Placed(Plain, stack', shell', focus')
<1>1. /\ shell \in Shell /\ Steered(shell) /\ ~ Unwinding(shell)
      /\ focus.tree \in TreesOf({"define"})
      /\ OpenTest(stack, Len(stack)) => Testing(shell)
    BY StartedJump DEF Define
<1>2. /\ shell' = [shell EXCEPT !.functions[focus.tree.name] = focus.tree.body]
      /\ focus' = Result(0) /\ UNCHANGED stack
    BY DEF Define
<1>3. FunctionsDefined(shell')
    <2> SUFFICES ASSUME NEW name \in Name, shell'.functions[name] # NoTree
                 PROVE  \E d \in TreesOf({"define"}) :
                           d.name = name /\ d.body = shell'.functions[name]
        BY DEF FunctionsDefined
    <2>1. /\ shell.functions \in [Name -> Tree \cup {NoTree}]
          /\ shell'.functions =
                [shell.functions EXCEPT ![focus.tree.name] = focus.tree.body]
        BY <1>1, <1>2 DEF Shell
    <2>2. CASE name = focus.tree.name
        BY <1>1, <2>1, <2>2
    <2>3. CASE name # focus.tree.name
        BY <1>1, <2>1, <2>3 DEF Steered, FunctionsDefined
    <2> QED
        BY <2>2, <2>3
<1>4. /\ shell'.exit_requested = shell.exit_requested
      /\ shell'.break_level = shell.break_level
      /\ shell'.continue_level = shell.continue_level
      /\ shell'.return_value = shell.return_value
      /\ shell'.loop_depth = shell.loop_depth
      /\ shell'.in_condition = shell.in_condition
    BY <1>1, <1>2 DEF Shell
<1>5. Steered(shell') /\ (OpenTest(stack, Len(stack)) => Testing(shell'))
    BY <1>1, <1>3, <1>4 DEF Steered, OneJump, Jumping, Testing, Unwinding, IsReturning,
                            IsBreaking, IsContinuing
<1> QED
    BY <1>1, <1>2, <1>5, SimpleJump

LEMMA JumpCall ==
    ASSUME NEW Plain, PlainConditions(Plain), IInv,
           Placed(Plain, stack, shell, focus), Call
    PROVE  Placed(Plain, stack', shell', focus')
<1>1. /\ shell \in Shell /\ Steered(shell) /\ ~ Unwinding(shell)
      /\ focus.tree \in TreesOf({"command"}) /\ focus.tree.op = "command"
      /\ OpenTest(stack, Len(stack)) => Testing(shell) /\ focus.tree \in Plain
    BY StartedJump DEF Call
<1>2. CASE focus' = Result(1) /\ UNCHANGED <<stack, shell>>
    <2>1. Steered(shell') /\ (OpenTest(stack, Len(stack)) => Testing(shell'))
        BY <1>1, <1>2
    <2> QED
        BY <1>1, <1>2, <2>1, SimpleJump
<1>3. CASE /\ Enter([in |-> "call"])
           /\ shell' = [shell EXCEPT !.function_depth = @ + 1]
           /\ focus' = Execute(FunctionOf(focus.tree))
    <2> DEFINE frame == [in |-> "call"]
    <2>1. frame \in Frame /\ frame.in = "call" /\ PlainFrame(Plain, frame)
        BY DEF Frame, PlainFrame
    <2>2. Enter(frame)
        BY <1>3
    <2> HIDE DEF frame
    <2>3. Opens(stack, frame) => OpenTest(stack, Len(stack))
        BY <2>1 DEF Opens, TestKinds
    <2>4. OpenTest(stack, Len(stack)) => FunctionOf(focus.tree) \in Plain
        <3>1. focus.tree.name \in Name
            BY <1>1, TreeAssumption
        <3>2. PICK d \in TreesOf({"define"}) :
                 d.name = focus.tree.name /\ d.body = FunctionOf(focus.tree)
            BY <1>1, <3>1 DEF Call, FunctionOf, Steered, FunctionsDefined
        <3> QED
            BY <1>1, <3>2 DEF PlainConditions
    <2>5. SameCourse(shell, shell') /\ shell'.in_condition = shell.in_condition
        BY <1>1, <1>3, SameCourseShell
    <2>6. Steered(shell') /\ ~ Unwinding(shell')
        BY <1>1, <2>5, SteeredSame
    <2> QED
        BY <1>1, <1>3, <2>1, <2>2, <2>3, <2>4, <2>5, <2>6, EnterJump DEF Testing
<1> QED
    BY <1>2, <1>3 DEF Call

LEMMA JumpAfterCall ==
    ASSUME NEW Plain, IInv, Placed(Plain, stack, shell, focus), AfterCall
    PROVE  Placed(Plain, stack', shell', focus')
<1>1. /\ shell \in Shell /\ Steered(shell) /\ stack # <<>>
      /\ OpenTest(stack, Len(stack) - 1) => Testing(shell)
    BY ResumedJump DEF AfterCall
<1>2. PICK code : /\ shell' = [shell EXCEPT !.function_depth = @ - 1,
                                            !.return_value = NoCode,
                                            !.last_exit_code = code]
                  /\ focus' = Result(code)
    BY DEF AfterCall
<1>3. Leave
    BY DEF AfterCall
<1>4. /\ Steered(shell')
      /\ OpenTest(stack, Len(stack) - 1) => Testing(shell')
    BY <1>1, <1>2 DEF Steered, OneJump, Jumping, Testing, Unwinding, IsReturning,
                      IsBreaking, IsContinuing, FunctionsDefined, Shell
<1> QED
    BY <1>1, <1>2, <1>3, <1>4, LeaveJump

LEMMA JumpEnterSubshell ==
    ASSUME NEW Plain, PlainConditions(Plain), IInv,
           Placed(Plain, stack, shell, focus), EnterSubshell
    PROVE  Placed(Plain, stack', shell', focus')
<1>1. /\ shell \in Shell /\ Steered(shell) /\ ~ Unwinding(shell)
      /\ OpenTest(stack, Len(stack)) => Testing(shell)
    BY StartedJump DEF EnterSubshell
<1>2. CASE shell.subshell_depth >= MaxSubshellDepth
    <2> DEFINE sh == [shell EXCEPT !.last_exit_code = 1]
    <2>1. /\ shell' = CheckErrexit(sh, 1)
          /\ focus' = Result(1) /\ UNCHANGED stack
        BY <1>2 DEF EnterSubshell
    <2>2. /\ sh \in Shell /\ SameCourse(shell, sh)
          /\ sh.in_condition = shell.in_condition
        <3>1. sh \in Shell
            BY <1>1 DEF Shell
        <3> QED
            BY <1>1, <3>1, SameCourseShell
    <2> HIDE DEF sh
    <2>3. /\ Steered(sh) /\ ~ Unwinding(sh)
          /\ OpenTest(stack, Len(stack)) => Testing(sh)
        BY <1>1, <2>2, SteeredSame DEF Testing
    <2>4. Steered(shell') /\ (OpenTest(stack, Len(stack)) => Testing(shell'))
        BY <2>1, <2>2, <2>3, Jumps
    <2> QED
        BY <2>1, <2>4, SimpleJump
<1>3. CASE ~ (shell.subshell_depth >= MaxSubshellDepth)
    <2> DEFINE frame == [in |-> "subshell", parent |-> shell]
    <2>1. /\ Enter(frame) /\ focus' = Execute(focus.tree.body)
          /\ shell' = [shell EXCEPT !.subshell_depth = @ + 1]
        BY <1>3 DEF EnterSubshell
    <2>2. /\ frame \in Frame /\ frame.in = "subshell" /\ frame.parent = shell
          /\ PlainFrame(Plain, frame)
        BY <1>1 DEF Frame, PlainFrame
    <2> HIDE DEF frame
    <2>3. ~ Opens(stack, frame)
        BY <2>2 DEF Opens, TestKinds
    <2>4. SameCourse(shell, shell')
        BY <1>1, <2>1, SameCourseShell
    <2>5. Steered(shell') /\ ~ Unwinding(shell')
        BY <1>1, <2>4, SteeredSame
    <2> QED
        BY <1>1, <2>1, <2>2, <2>3, <2>5, EnterJump
<1> QED
    BY <1>2, <1>3

LEMMA JumpAfterSubshell ==
    ASSUME NEW Plain, IInv, Placed(Plain, stack, shell, focus), AfterSubshell
    PROVE  Placed(Plain, stack', shell', focus')
<1> DEFINE open == OpenTest(stack, Len(stack) - 1)
<1>1. /\ shell \in Shell /\ Steered(shell) /\ stack # <<>> /\ focus.code \in Nat
      /\ Top \in Frame /\ Top.in = "subshell"
      /\ Steered(Top.parent) /\ ~ Unwinding(Top.parent)
      /\ open => Testing(Top.parent)
    BY ResumedJump DEF AfterSubshell
<1> HIDE DEF open
<1>2. Top.parent \in Shell /\ Leave
    BY <1>1, FrameParts DEF AfterSubshell
<1>3. PICK code \in Nat :
          /\ shell' = CheckErrexit([Top.parent EXCEPT !.last_exit_code = code], code)
          /\ focus' = Result(code)
    BY <1>1 DEF AfterSubshell, IsReturning, Shell
<1> DEFINE sh == [Top.parent EXCEPT !.last_exit_code = code]
<1>4. /\ sh \in Shell /\ SameCourse(Top.parent, sh)
      /\ sh.in_condition = Top.parent.in_condition
    <2>1. sh \in Shell
        BY <1>2 DEF Shell
    <2> QED
        BY <1>2, <2>1, SameCourseShell
<1>5. shell' = CheckErrexit(sh, code)
    BY <1>3
<1> HIDE DEF sh
<1>6. Steered(sh) /\ ~ Unwinding(sh) /\ (open => Testing(sh))
    BY <1>1, <1>4, SteeredSame DEF Testing
<1>7. Steered(shell') /\ (open => Testing(shell'))
    BY <1>4, <1>5, <1>6, Jumps
<1> QED
    BY <1>1, <1>2, <1>3, <1>7, LeaveJump DEF open

-----------------------------------------------------------------------------
(* The script *)

\* When nothing is being executed, nothing is pending.
LEMMA NothingLeftOver ==
    ASSUME IInv, NEW Plain, Placed(Plain, stack, shell, focus), stack = <<>>
    PROVE  ~ Jumping(shell)
<1>1. Len(stack) = 0 /\ shell \in Shell
    BY InvParts
<1>2. shell.loop_depth = 0 /\ shell.function_depth = 0 /\ ~ IsReturning(shell)
    BY <1>1, InvParts, CountZero DEF Good, Balanced, Agrees
<1>3. shell.break_level <= 0 /\ shell.continue_level <= 0
    BY <1>2 DEF Placed, Settled, Steered
<1> QED
    BY <1>1, <1>2, <1>3 DEF Jumping, IsBreaking, IsContinuing, Shell

LEMMA JumpStartLine ==
    ASSUME NEW Plain, IInv, Placed(Plain, stack, shell, focus), StartLine
    PROVE  Placed(Plain, stack', shell', focus')
<1>1. focus = Idle /\ stack = <<>> /\ UNCHANGED stack /\ shell \in Shell
    BY InvParts, ScriptParts, IdleIsFocus DEF StartLine
<1>2. ~ Jumping(shell) /\ Steered(shell)
    BY <1>1, NothingLeftOver DEF Placed, Settled
<1>3. PICK sh \in AfterSignals(shell), terminated \in Shutdown :
         /\ shell' = sh
         /\ IF terminated \/ sh.exit_requested
            THEN focus' = focus
            ELSE \/ focus' = Result(1)
                 \/ focus' = Execute(script[line])
    BY DEF StartLine
<1>4. Steered(shell') /\ ~ Jumping(shell')
    <2>1. CASE sh = shell
        BY <1>2, <1>3, <2>1
    <2>2. CASE sh # shell
        <3>1. PICK code \in Nat : sh = RequestExit(shell, code)
            BY <2>2, ExecutorAssumption DEF AfterSignals
        <3> QED
            BY <1>1, <1>2, <1>3, <3>1, Jumps
               DEF RequestExit, Jumping, IsReturning, IsBreaking, IsContinuing, Shell
    <2> QED
        BY <2>1, <2>2
<1>5. Len(stack') = 0 /\ ~ OpenTest(stack', Len(stack')) /\ ~ OpenTest(stack, Len(stack))
    BY <1>1, OpenZero
<1>6. Settled(Plain, stack', shell')
    BY <1>1, <1>4, <1>5, SettledSame DEF Placed
<1>7. ~ sh.exit_requested => ~ Unwinding(shell')
    BY <1>3, <1>4 DEF Unwinding, Jumping
<1> QED
    BY <1>1, <1>3, <1>5, <1>6, <1>7, PlacedCases

LEMMA JumpAfterLine ==
    ASSUME NEW Plain, IInv, Placed(Plain, stack, shell, focus), AfterLine
    PROVE  Placed(Plain, stack', shell', focus')
<1>1. stack = <<>> /\ UNCHANGED stack /\ focus' = Idle /\ shell \in Shell
    BY InvParts DEF AfterLine
<1>2. SameCourse(shell, shell')
    BY <1>1, SameCourseShell DEF AfterLine
<1>3. Steered(shell')
    BY <1>2, SteeredSame DEF Placed, Settled
<1>4. ~ OpenTest(stack, Len(stack))
    BY <1>1, OpenZero
<1>5. Settled(Plain, stack, shell')
    BY <1>3, <1>4, SettledSame DEF Placed
<1>6. Settled(Plain, stack', shell')
    BY <1>1, <1>5
<1> QED
    BY <1>1, <1>6, PlacedCases

-----------------------------------------------------------------------------
(* The theorems *)

LEMMA JumpInit ==
    ASSUME NEW Plain
    PROVE  Init => JumpInv(Plain)
<1> SUFFICES ASSUME Init PROVE Placed(Plain, stack, shell, focus)
    BY DEF JumpInv
<1>1. PICK errexit \in Errexit : shell = InitialShell(errexit)
    BY DEF Init
<1>2. Steered(shell)
    BY <1>1, ExecutorAssumption
       DEF InitialShell, Steered, OneJump, Jumping, IsReturning, IsBreaking,
           IsContinuing, FunctionsDefined
<1>3. stack = <<>> /\ Len(stack) = 0 /\ DOMAIN stack = {} /\ focus = Idle
    BY DEF Init
<1>4. Settled(Plain, stack, shell)
    BY <1>2, <1>3, OpenZero DEF Settled
<1> QED
    BY <1>3, <1>4, PlacedCases

LEMMA JumpNext ==
    ASSUME NEW Plain, PlainConditions(Plain)
    PROVE  IInv /\ JumpInv(Plain) /\ [Next]_vars => JumpInv(Plain)'
<1> SUFFICES ASSUME IInv, JumpInv(Plain), [Next]_vars, phase' \in {"lines", "exiting"}
             PROVE  Placed(Plain, stack', shell', focus')
    BY DEF JumpInv
<1> DEFINE Here == Placed(Plain, stack, shell, focus)
<1>1. CASE UNCHANGED phase /\ Here /\ Simple
    BY <1>1, JumpSimple
<1>2. CASE UNCHANGED phase /\ Here /\ Lists
    BY <1>2, JumpEnterList, JumpAfterPart, JumpLeaveList, JumpAfterLeft DEF Lists
<1>3. CASE UNCHANGED phase /\ Here /\ Loops
    BY <1>3, JumpEnterLoop, JumpForTurn, JumpWhileTurn, JumpLoopCondition, JumpAfterBody
       DEF Loops
<1>4. CASE UNCHANGED phase /\ Here /\ Calls
    BY <1>4, JumpDefine, JumpCall, JumpAfterCall, JumpEnterSubshell, JumpAfterSubshell
       DEF Calls
<1>5. CASE ScriptSteps
    <2>1. StartLine \/ AfterLine
        BY <1>5 DEF ScriptSteps, StartExitTrap, AfterExitTrap, EndWithoutTrap
    <2>2. Here
        BY <2>1 DEF StartLine, AfterLine, JumpInv
    <2> QED
        BY <2>1, <2>2, JumpStartLine, JumpAfterLine
<1>6. CASE UNCHANGED vars
    BY <1>6 DEF vars, JumpInv
<1>7. Simple \/ Lists \/ Loops \/ Calls => UNCHANGED phase
    BY DEF Simple, Lists, Loops, Calls, scriptVars, RunCommand, Break, Continue, Exit,
           Return, EnterSequence, AfterPart, EnterIf, AfterCondition, EnterChain,
           AfterLeft, AfterRight, EnterNegation, AfterNegated, EnterFor, EnterWhile,
           ForTurn, WhileTurn, AfterLoopCondition, AfterBody, Define, Call, AfterCall,
           EnterSubshell, AfterSubshell
<1>8. UNCHANGED phase => Here
    BY DEF JumpInv
<1> HIDE DEF Here
<1> QED
    BY <1>1, <1>2, <1>3, <1>4, <1>5, <1>6, <1>7, <1>8 DEF Next

\* With plain conditions, at most one jump is under way in a ShellState at a
\* time, it has that many loops to leave, and what is to be executed next is
\* not executed because of a jump that should have skipped it.
THEOREM JumpsInductive ==
    ASSUME NEW CONSTANT Plain \in SUBSET Tree, PlainConditions(Plain)
    PROVE  Spec => []JumpInv(Plain)
<1>1. Init => JumpInv(Plain)
    BY JumpInit
<1>2. IInv /\ JumpInv(Plain) /\ [Next]_vars => JumpInv(Plain)'
    BY JumpNext
<1> QED
    BY <1>1, <1>2, Inductive, PTL DEF Spec

\* Every break, continue and return has been carried out when the line that
\* it is in has ended (executor/mod.rs, script_engine.rs).
THEOREM JumpsEnd ==
    ASSUME NEW CONSTANT Plain \in SUBSET Tree, PlainConditions(Plain)
    PROVE  Spec => []NothingPending
<1>1. IInv /\ JumpInv(Plain) => NothingPending
    <2> SUFFICES ASSUME IInv, JumpInv(Plain), focus = Idle, phase \in {"lines", "exiting"}
                 PROVE  ~ Jumping(shell)
        BY DEF NothingPending, Jumping
    <2>1. stack = <<>>
        BY ScriptParts, IdleIsFocus
    <2> QED
        BY <2>1, NothingLeftOver DEF JumpInv
<1> QED
    BY <1>1, JumpsInductive, Inductive, PTL

\* No command runs while a jump is being carried out, be it a builtin, an
\* exit by errexit or one by the handler of a signal.
THEOREM JumpsSkip ==
    ASSUME NEW CONSTANT Plain \in SUBSET Tree, PlainConditions(Plain)
    PROVE  Spec => NothingAfterJump
<1>1. JumpInv(Plain) /\ [Next]_vars =>
          [phase = "lines" /\ RunCommand =>
              /\ ~ shell.exit_requested
              /\ ~ (IsBreaking(shell) \/ IsContinuing(shell) \/ IsReturning(shell))]_vars
    <2>1. JumpInv(Plain) /\ phase = "lines" /\ RunCommand => ~ Unwinding(shell)
        BY DEF JumpInv, Placed, RunCommand, Executing
    <2>2. JumpInv(Plain) /\ phase = "lines" /\ RunCommand =>
              /\ ~ shell.exit_requested
              /\ ~ (IsBreaking(shell) \/ IsContinuing(shell) \/ IsReturning(shell))
        BY ONLY <2>1, Zenon DEF Unwinding
    <2> QED
        BY ONLY <2>2, Zenon
<1> QED
    BY <1>1, JumpsInductive, PTL DEF Spec, NothingAfterJump

=============================================================================
