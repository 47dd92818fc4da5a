-------------------------- MODULE OneAfterAnother --------------------------
(***************************************************************************)
(* What InOrder of Descriptors computes, for any step: a chain of results  *)
(* of which each is that of its item, until one has failed.  Every step    *)
(* that the table's operations take in order has an instance.              *)
(***************************************************************************)
EXTENDS Integers, Sequences, WellFoundedInduction, TLAPS

CONSTANT Step(_, _)         \* the result of a step, a record of ok and s

\* The results of the first m items.
Results(m, items, first, results) ==
    results = [n \in 0..m |->
                 IF n = 0 THEN first
                 ELSE IF results[n - 1].ok THEN Step(results[n - 1].s, items[n]) ELSE results[n - 1]]

LastResult(items, first) == (CHOOSE results : Results(Len(items), items, first, results))[Len(items)]

\* From the first result to the last.
Chain(items, first, last, results) ==
    /\ results[0] = first /\ results[Len(items)] = last
    /\ \A n \in 1..Len(items) : results[n - 1].ok => results[n] = Step(results[n - 1].s, items[n])
    /\ \A n \in 1..Len(items) : ~results[n - 1].ok => results[n] = results[n - 1]

\* A set of numbers that is not empty has a least one.
LEMMA LeastNumber ==
    ASSUME NEW S \in SUBSET Nat, S # {}
    PROVE  \E n \in S : \A m \in S : n <= m
<1>1. IsWellFoundedOn(OpToRel(<, Nat), Nat)
    BY NatLessThanWellFounded
<1>2. PICK n \in S : \A m \in S : <<m, n>> \notin OpToRel(<, Nat)
    BY <1>1, WFMin
<1>3. \A m \in S : ~(m < n)
    BY <1>2 DEF OpToRel
<1>4. n \in Nat /\ \A m \in S : m \in Nat
    OBVIOUS
<1>5. \A m \in S : n <= m
    BY <1>3, <1>4
<1> QED
    BY <1>5

\* Induction up to a bound.
LEMMA UpTo ==
    ASSUME NEW n \in Nat, NEW S \in SUBSET (0..n), 0 \in S,
           \A i \in 1..n : i - 1 \in S => i \in S
    PROVE  S = 0..n
<1> SUFFICES ASSUME (0..n) \ S # {} PROVE FALSE
    OBVIOUS
<1>1. PICK i \in (0..n) \ S : \A j \in (0..n) \ S : i <= j
    <2>1. (0..n) \ S \in SUBSET Nat
        OBVIOUS
    <2> QED
        BY <2>1, LeastNumber
<1>2. i \in 1..n
    BY <1>1
<1>3. i - 1 \in S
    BY <1>1, <1>2
<1> QED
    BY <1>1, <1>2, <1>3

\* There are such results: those of a shorter sequence are continued.
LEMMA ResultsExist ==
    ASSUME NEW items, Len(items) \in Nat, NEW first
    PROVE  \E results : Results(Len(items), items, first, results)
<1> DEFINE N == Len(items)
           S == {m \in 0..N : \E results : Results(m, items, first, results)}
<1>1. 0 \in S
    <2> DEFINE f == [n \in 0..0 |-> first]
    <2>1. Results(0, items, first, f)
        BY DEF Results
    <2> HIDE DEF f
    <2> QED
        BY <2>1
<1>2. ASSUME NEW m \in 1..N, m - 1 \in S
      PROVE  m \in S
    <2>1. PICK f : Results(m - 1, items, first, f)
        BY <1>2
    <2> DEFINE before == f[m - 1]
               after == IF before.ok THEN Step(before.s, items[m]) ELSE before
               g == [n \in 0..m |-> IF n = m THEN after ELSE f[n]]
    <2>2. \A n \in 0..(m - 1) : g[n] = f[n]
        OBVIOUS
    <2>3. g[m] = after /\ g[m - 1] = before
        OBVIOUS
    <2>4. \A n \in 0..m : g[n] = IF n = 0 THEN first
                                 ELSE IF g[n - 1].ok THEN Step(g[n - 1].s, items[n]) ELSE g[n - 1]
        <3> SUFFICES ASSUME NEW n \in 0..m
                     PROVE  g[n] = IF n = 0 THEN first
                                   ELSE IF g[n - 1].ok THEN Step(g[n - 1].s, items[n]) ELSE g[n - 1]
            OBVIOUS
        <3> HIDE DEF g
        <3>1. CASE n = m
            BY <2>3, <3>1
        <3>2. CASE n # m
            <4>1. n \in 0..(m - 1) /\ (n # 0 => n - 1 \in 0..(m - 1))
                BY <3>2
            <4>2. f[n] = IF n = 0 THEN first
                         ELSE IF f[n - 1].ok THEN Step(f[n - 1].s, items[n]) ELSE f[n - 1]
                BY <2>1, <4>1 DEF Results
            <4>3. CASE n = 0
                BY <2>2, <4>1, <4>2, <4>3
            <4>4. CASE n # 0
                <5>1. g[n] = f[n] /\ g[n - 1] = f[n - 1]
                    BY <2>2, <4>1, <4>4
                <5> QED
                    BY <4>2, <4>4, <5>1
            <4> QED
                BY <4>3, <4>4
        <3> QED
            BY <3>1, <3>2
    <2>5. g = [n \in 0..m |-> g[n]]
        OBVIOUS
    <2> HIDE DEF g
    <2>6. Results(m, items, first, g)
        BY <2>4, <2>5 DEF Results
    <2> QED
        BY <2>6
<1>3. S = 0..N
    <2> HIDE DEF S
    <2>1. S \in SUBSET (0..N)
        BY DEF S
    <2> QED
        BY <1>1, <1>2, <2>1, UpTo
<1>4. N \in S
    BY <1>3
<1> QED
    BY <1>4

\* The last result is reached from the first, item by item.
LEMMA ResultsInOrder ==
    ASSUME NEW items, Len(items) \in Nat, NEW first
    PROVE  \E results : Chain(items, first, LastResult(items, first), results)
<1> DEFINE results == CHOOSE r : Results(Len(items), items, first, r)
<1>1. Results(Len(items), items, first, results)
    BY ResultsExist
<1>2. LastResult(items, first) = results[Len(items)]
    BY DEF LastResult
<1> HIDE DEF results
<1>3. results[0] = first
    BY <1>1 DEF Results
<1>4. \A n \in 1..Len(items) : results[n] = IF results[n - 1].ok THEN Step(results[n - 1].s, items[n])
                                            ELSE results[n - 1]
    <2> SUFFICES ASSUME NEW n \in 1..Len(items)
                 PROVE  results[n] = IF results[n - 1].ok THEN Step(results[n - 1].s, items[n]) ELSE results[n - 1]
        OBVIOUS
    <2>1. n \in 0..Len(items) /\ n # 0
        OBVIOUS
    <2> QED
        BY <1>1, <2>1 DEF Results
<1> QED
    BY <1>2, <1>3, <1>4 DEF Chain

-----------------------------------------------------------------------------
(* Steps that cannot fail: what FoldLeft computes *)

Greatest(S) == CHOOSE x \in S : \A y \in S : x >= y

\* The fold of every set of positions up to m.
Folds(m, items, base, iter) ==
    iter = [s \in SUBSET (1..m) |->
              IF s = {} THEN base ELSE Step(iter[s \ {Greatest(s)}], items[Greatest(s)])]

Folded(items, base) == (CHOOSE iter : Folds(Len(items), items, base, iter))[1..Len(items)]

\* From the base to the fold.
FoldChain(items, base, last, results) ==
    /\ results[0] = base /\ results[Len(items)] = last
    /\ \A n \in 1..Len(items) : results[n] = Step(results[n - 1], items[n])

LEMMA GreatestOf ==
    ASSUME NEW m \in Nat, NEW s \in SUBSET (1..m), m \in s
    PROVE  Greatest(s) = m
<1>1. \A y \in s : m >= y
    OBVIOUS
<1>2. \A x \in s : (\A y \in s : x >= y) => x = m
    <2> SUFFICES ASSUME NEW x \in s, \A y \in s : x >= y PROVE x = m
        OBVIOUS
    <2>1. x >= m /\ m >= x /\ x \in Nat
        BY <1>1
    <2> QED
        BY <2>1
<1>3. \E x \in s : \A y \in s : x >= y
    BY <1>1
<1> QED
    BY <1>2, <1>3 DEF Greatest

LEMMA FoldsExist ==
    ASSUME NEW items, Len(items) \in Nat, NEW base
    PROVE  \E iter : Folds(Len(items), items, base, iter)
<1> DEFINE N == Len(items)
           S == {m \in 0..N : \E iter : Folds(m, items, base, iter)}
<1>1. 0 \in S
    <2> DEFINE f == [s \in SUBSET (1..0) |-> base]
    <2>1. \A s \in SUBSET (1..0) : s = {}
        OBVIOUS
    <2>2. Folds(0, items, base, f)
        BY <2>1 DEF Folds
    <2> HIDE DEF f
    <2> QED
        BY <2>2
<1>2. ASSUME NEW m \in 1..N, m - 1 \in S
      PROVE  m \in S
    <2>1. PICK f : Folds(m - 1, items, base, f)
        BY <1>2
    <2> DEFINE Next(s, g) == IF s = {} THEN base ELSE Step(g[s \ {Greatest(s)}], items[Greatest(s)])
               h == [s \in SUBSET (1..m) |-> IF m \in s THEN Step(f[s \ {m}], items[m]) ELSE f[s]]
    <2>2. \A s \in SUBSET (1..(m - 1)) : f[s] = Next(s, f)
        BY <2>1 DEF Folds
    <2>3. \A s \in SUBSET (1..m) : m \notin s => s \in SUBSET (1..(m - 1)) /\ h[s] = f[s]
        <3> SUFFICES ASSUME NEW s \in SUBSET (1..m), m \notin s
                     PROVE  s \in SUBSET (1..(m - 1)) /\ h[s] = f[s]
            OBVIOUS
        <3>1. \A x \in s : x \in 1..m /\ x # m
            OBVIOUS
        <3>2. \A x \in s : x \in 1..(m - 1)
            BY <3>1
        <3> QED
            BY <3>2
    <2>4. \A s \in SUBSET (1..m) : m \in s => h[s] = Step(f[s \ {m}], items[m])
        OBVIOUS
    <2>5. h = [s \in SUBSET (1..m) |-> h[s]]
        OBVIOUS
    <2> HIDE DEF h
    <2>6. \A s \in SUBSET (1..m) : h[s] = Next(s, h)
        <3> SUFFICES ASSUME NEW s \in SUBSET (1..m) PROVE h[s] = Next(s, h)
            OBVIOUS
        <3>1. CASE m \in s
            <4>1. Greatest(s) = m /\ s # {}
                <5>1. m \in Nat
                    OBVIOUS
                <5> QED
                    BY <3>1, <5>1, GreatestOf
            <4>2. s \ {m} \in SUBSET (1..m) /\ m \notin s \ {m}
                OBVIOUS
            <4>3. h[s \ {m}] = f[s \ {m}]
                BY <2>3, <4>2
            <4> QED
                BY <2>4, <3>1, <4>1, <4>3
        <3>2. CASE m \notin s
            <4>1. s \in SUBSET (1..(m - 1)) /\ h[s] = f[s] /\ f[s] = Next(s, f)
                BY <2>2, <2>3, <3>2
            <4> DEFINE r == s \ {Greatest(s)}
            <4>2. r \in SUBSET (1..m) /\ m \notin r
                BY <3>2
            <4>3. h[r] = f[r]
                BY <2>3, <4>2
            <4> QED
                BY <4>1, <4>3
        <3> QED
            BY <3>1, <3>2
    <2> HIDE DEF Next
    <2>7. Folds(m, items, base, h)
        BY <2>5, <2>6 DEF Folds, Next
    <2> QED
        BY <2>7
<1>3. S = 0..N
    <2> HIDE DEF S
    <2>1. S \in SUBSET (0..N)
        BY DEF S
    <2> QED
        BY <1>1, <1>2, <2>1, UpTo
<1>4. N \in S
    BY <1>3
<1> QED
    BY <1>4

\* The fold is reached from the base, item by item.
LEMMA FoldInOrder ==
    ASSUME NEW items, Len(items) \in Nat, NEW base
    PROVE  \E results : FoldChain(items, base, Folded(items, base), results)
<1> DEFINE N == Len(items)
           iter == CHOOSE f : Folds(Len(items), items, base, f)
           results == [n \in 0..N |-> iter[1..n]]
<1>1. Folds(N, items, base, iter)
    BY FoldsExist
<1>2. Folded(items, base) = iter[1..N]
    BY DEF Folded
<1> HIDE DEF iter
<1>3. results[0] = base
    <2>1. 1..0 = {} /\ {} \in SUBSET (1..N)
        OBVIOUS
    <2>2. iter[{}] = base
        BY <1>1, <2>1 DEF Folds
    <2> QED
        BY <2>1, <2>2
<1>4. ASSUME NEW n \in 1..N
      PROVE  results[n] = Step(results[n - 1], items[n])
    <2> DEFINE s == 1..n
    <2>0. n \in s /\ n \in Nat /\ \A x \in s : x \in 1..N
        OBVIOUS
    <2>1. s \in SUBSET (1..N) /\ s # {} /\ n \in s /\ n \in Nat
        BY <2>0
    <2>2. Greatest(s) = n
        BY <2>1, GreatestOf
    <2>3. s \ {n} = 1..(n - 1)
        OBVIOUS
    <2> HIDE DEF s
    <2>4. iter[s] = Step(iter[1..(n - 1)], items[n])
        BY <1>1, <2>1, <2>2, <2>3 DEF Folds
    <2>5. results[n] = iter[s] /\ results[n - 1] = iter[1..(n - 1)]
        BY DEF s
    <2> QED
        BY <2>4, <2>5
<1>5. results[N] = iter[1..N]
    OBVIOUS
<1> HIDE DEF results
<1> QED
    BY <1>2, <1>3, <1>4, <1>5 DEF FoldChain

After(before, item) == Step(before, item)

\* A fold of nothing, and of one item more.
LEMMA FoldOfNothing ==
    ASSUME NEW items, Len(items) = 0, NEW base
    PROVE  Folded(items, base) = base
<1>1. Len(items) \in Nat
    OBVIOUS
<1>2. PICK results : FoldChain(items, base, Folded(items, base), results)
    BY <1>1, FoldInOrder
<1> QED
    BY <1>2 DEF FoldChain

\* items2 is items and one item more.
Prolongs(items, items2, item) ==
    /\ Len(items) \in Nat /\ Len(items2) = Len(items) + 1
    /\ \A i \in 1..Len(items) : items2[i] = items[i]
    /\ items2[Len(items) + 1] = item

LEMMA FoldOfOneMore ==
    ASSUME NEW items, NEW items2, NEW item, Prolongs(items, items2, item), NEW base
    PROVE  Folded(items2, base) = After(Folded(items, base), item)
<1> DEFINE n == Len(items)
<1>0. /\ n = Len(items) /\ n \in Nat /\ Len(items2) = n + 1
      /\ (\A i \in 1..n : items2[i] = items[i]) /\ items2[n + 1] = item
    BY DEF Prolongs
<1> HIDE DEF n
<1>1. PICK f : FoldChain(items, base, Folded(items, base), f)
    BY <1>0, FoldInOrder
<1>2. PICK g : FoldChain(items2, base, Folded(items2, base), g)
    <2>1. Len(items2) \in Nat
        BY <1>0
    <2> QED
        BY <2>1, FoldInOrder
<1> DEFINE S == {m \in 0..n : g[m] = f[m]}
<1>3. 0 \in S
    BY <1>0, <1>1, <1>2 DEF FoldChain
<1>4. ASSUME NEW m \in 1..n, m - 1 \in S
      PROVE  m \in S
    <2>1. m \in 1..Len(items2) /\ items2[m] = items[m]
        BY <1>0
    <2>2. g[m] = Step(g[m - 1], items2[m])
        BY <1>2, <2>1 DEF FoldChain
    <2>3. f[m] = Step(f[m - 1], items[m])
        BY <1>0, <1>1 DEF FoldChain
    <2> QED
        BY <1>4, <2>1, <2>2, <2>3
<1>5. S = 0..n
    <2> HIDE DEF S
    <2>1. S \in SUBSET (0..n)
        BY DEF S
    <2> QED
        BY <1>0, <1>3, <1>4, <2>1, UpTo
<1>6. g[n] = f[n]
    <2>1. n \in S
        BY <1>0, <1>5
    <2> QED
        BY <2>1
<1>7. g[n + 1] = Step(g[n], items2[n + 1])
    <2>1. n + 1 \in 1..Len(items2) /\ (n + 1) - 1 = n
        BY <1>0
    <2> QED
        BY <1>2, <2>1 DEF FoldChain
<1>8. f[n] = Folded(items, base) /\ g[n + 1] = Folded(items2, base)
    BY <1>0, <1>1, <1>2 DEF FoldChain
<1> QED
    BY <1>0, <1>6, <1>7, <1>8 DEF After
=============================================================================
