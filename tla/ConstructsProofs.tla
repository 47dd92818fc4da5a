-------------------------- MODULE ConstructsProofs --------------------------
(***************************************************************************)
(* The constructs around commands: the ledger of every subshell on the     *)
(* stack, and the streams that each construct gives to those within it.    *)
(* There is one lemma for each action, and then the theorems.  After these *)
(* come what the constructs say of output that is collected (Decent), and  *)
(* what they hold open for the commands within them (Kept).                *)
(***************************************************************************)
EXTENDS DescriptorsProofs

-----------------------------------------------------------------------------
(* What the constructs around a command say of the shell's streams         *)

OfOfShell == INSTANCE OneAfterAnother WITH Step <- OfShell

LEMMA OfShellInOrder ==
    ASSUME NEW frames, DOMAIN frames = 1..Len(frames), NEW env
    PROVE  FoldLeft(OfShell, env, frames) = OfOfShell!Folded(frames, env)
BY DEF FoldLeft, MapThenFoldSet, Max, OfOfShell!Folded, OfOfShell!Folds, OfOfShell!Greatest

\* Within the first n constructs.
StreamsOf(st, n) == FoldLeft(OfShell, Outside, SubSeq(st, 1, n))

\* The streams that the shell has in state t are those.
Fits(st, n, t) == \A fd \in Standard : Agrees(t.open[fd], StreamsOf(st, n)[fd])

LEMMA FitsSame ==
    ASSUME NEW st, NEW n, NEW t, Fits(st, n, t), NEW u, \A fd \in Standard : u.open[fd] = t.open[fd]
    PROVE  Fits(st, n, u)
BY DEF Fits

LEMMA FirstFrames ==
    ASSUME NEW S, NEW st \in Seq(S), NEW n \in Nat, n <= Len(st), NEW st0, st0 = SubSeq(st, 1, n)
    PROVE  st0 \in Seq(S) /\ Len(st0) = n /\ \A i \in 1..n : st0[i] = st[i]
<1>1. n \in Int /\ 1 \in Int /\ (\A i \in 1..n : st[i] \in S) /\ n - 1 + 1 = n /\ n >= 0
    BY ElementOfSeq
<1>2. \A i \in 1..(n - 1 + 1) : 1 + i - 1 = i
    BY <1>1
<1>3. st0 \in Seq(S) /\ Len(st0) = (IF 1 <= n THEN n - 1 + 1 ELSE 0) /\ \A i \in 1..(n - 1 + 1) : st0[i] = st[1 + i - 1]
    BY <1>1, SubSeqProperties
<1>4. (IF 1 <= n THEN n - 1 + 1 ELSE 0) = n
    BY <1>1
<1> QED
    BY <1>1, <1>2, <1>3, <1>4

\* They depend on those constructs only.
LEMMA SameStreamsOf ==
    ASSUME NEW S, NEW st \in Seq(S), NEW T, NEW st2 \in Seq(T), NEW n \in Nat, n <= Len(st), n <= Len(st2),
           \A i \in 1..n : st2[i] = st[i]
    PROVE  StreamsOf(st2, n) = StreamsOf(st, n)
<1> DEFINE f == SubSeq(st, 1, n)
           g == SubSeq(st2, 1, n)
<1>1. f \in Seq(S) /\ Len(f) = n /\ \A i \in 1..n : f[i] = st[i]
    BY FirstFrames
<1>2. g \in Seq(T) /\ Len(g) = n /\ \A i \in 1..n : g[i] = st2[i]
    BY FirstFrames
<1>3. StreamsOf(st, n) = FoldLeft(OfShell, Outside, f) /\ StreamsOf(st2, n) = FoldLeft(OfShell, Outside, g)
    BY DEF StreamsOf
<1> HIDE DEF f, g
<1>4. f \in Seq(S \cup T) /\ g \in Seq(S \cup T)
    BY <1>1, <1>2, SeqDef
<1>5. f = g
    BY <1>1, <1>2, <1>4, SeqEqual
<1> QED
    BY <1>3, <1>5

LEMMA SameFits ==
    ASSUME NEW S, NEW st \in Seq(S), NEW T, NEW st2 \in Seq(T), NEW n \in Nat, n <= Len(st), n <= Len(st2),
           \A i \in 1..n : st2[i] = st[i], NEW t
    PROVE  Fits(st2, n, t) <=> Fits(st, n, t)
<1>1. StreamsOf(st2, n) = StreamsOf(st, n)
    BY SameStreamsOf
<1> QED
    BY <1>1 DEF Fits

LEMMA StreamsOfNone ==
    ASSUME NEW S, NEW st \in Seq(S)
    PROVE  StreamsOf(st, 0) = Outside
<1> DEFINE none == SubSeq(st, 1, 0)
           nought == 0
<1>1. StreamsOf(st, 0) = FoldLeft(OfShell, Outside, none)
    BY DEF StreamsOf
<1>2. none = SubSeq(st, 1, nought) /\ nought \in Nat /\ nought <= Len(st) /\ nought = 0
    BY LenProperties
<1> HIDE DEF none, nought
<1>3. none \in Seq(S) /\ Len(none) = nought
    BY <1>2, FirstFrames
<1>4. DOMAIN none = 1..Len(none)
    BY <1>3, LenProperties
<1>5. FoldLeft(OfShell, Outside, none) = OfOfShell!Folded(none, Outside)
    BY <1>4, OfShellInOrder
<1>6. OfOfShell!Folded(none, Outside) = Outside
    BY <1>2, <1>3, OfOfShell!FoldOfNothing
<1> QED
    BY <1>1, <1>5, <1>6

LEMMA OneFrameMore ==
    ASSUME NEW f, NEW g, NEW frame, OfOfShell!Prolongs(f, g, frame), DOMAIN f = 1..Len(f), DOMAIN g = 1..Len(g),
           NEW before, before = FoldLeft(OfShell, Outside, f)
    PROVE  FoldLeft(OfShell, Outside, g) = OfShell(before, frame)
<1>1. before = OfOfShell!Folded(f, Outside)
    BY OfShellInOrder
<1>2. OfOfShell!Folded(g, Outside) = OfShell(before, frame)
    <2>1. OfOfShell!Folded(g, Outside) = OfOfShell!After(OfOfShell!Folded(f, Outside), frame)
        BY OfOfShell!FoldOfOneMore
    <2> QED
        BY <1>1, <2>1 DEF OfOfShell!After
<1>3. FoldLeft(OfShell, Outside, g) = OfOfShell!Folded(g, Outside)
    BY OfShellInOrder
<1> QED
    BY <1>2, <1>3

LEMMA StreamsDeeper ==
    ASSUME NEW S, NEW st \in Seq(S), NEW n \in Nat, n + 1 <= Len(st), NEW before, before = StreamsOf(st, n)
    PROVE  StreamsOf(st, n + 1) = OfShell(before, st[n + 1])
<1> DEFINE m == n + 1
           f == SubSeq(st, 1, n)
           g == SubSeq(st, 1, m)
<1>1. f \in Seq(S) /\ Len(f) = n /\ \A i \in 1..n : f[i] = st[i]
    <2>1. n <= Len(st)
        BY LenProperties
    <2> QED
        BY <2>1, FirstFrames
<1>2. g \in Seq(S) /\ Len(g) = m /\ \A i \in 1..m : g[i] = st[i]
    <2>1. m \in Nat /\ m <= Len(st)
        OBVIOUS
    <2> HIDE DEF m
    <2> QED
        BY <2>1, FirstFrames
<1>3. before = FoldLeft(OfShell, Outside, f) /\ StreamsOf(st, m) = FoldLeft(OfShell, Outside, g)
    BY DEF StreamsOf
<1> HIDE DEF f, g
<1>4. DOMAIN f = 1..Len(f) /\ DOMAIN g = 1..Len(g)
    BY <1>1, <1>2, LenProperties
<1>5. OfOfShell!Prolongs(f, g, st[m])
    BY <1>1, <1>2 DEF OfOfShell!Prolongs
<1> HIDE DEF m
<1>6. FoldLeft(OfShell, Outside, g) = OfShell(before, st[m])
    BY <1>3, <1>4, <1>5, OneFrameMore
<1> QED
    BY <1>3, <1>6 DEF m

\* Only groups and stages have redirections of the shell itself.
LEMMA StreamsAround ==
    ASSUME NEW S, NEW st \in Seq(S), NEW n \in Nat, n + 1 <= Len(st), st[n + 1].kind \notin {"group", "stage"}
    PROVE  StreamsOf(st, n + 1) = StreamsOf(st, n)
<1> DEFINE before == StreamsOf(st, n)
<1>1. before = StreamsOf(st, n)
    OBVIOUS
<1> HIDE DEF before
<1>2. OfShell(before, st[n + 1]) = AllRedirected(before, <<>>)
    BY DEF OfShell
<1>3. StreamsOf(st, n + 1) = OfShell(before, st[n + 1])
    BY <1>1, StreamsDeeper
<1> QED
    BY <1>1, <1>2, <1>3, NoneRedirected

\* A pipeline, for one, may change.
LEMMA FitsAround ==
    ASSUME NEW S, NEW st \in Seq(S), NEW T, NEW st2 \in Seq(T), NEW n \in Nat, n + 1 <= Len(st), n + 1 <= Len(st2),
           \A i \in 1..n : st2[i] = st[i],
           st[n + 1].kind \notin {"group", "stage"}, st2[n + 1].kind \notin {"group", "stage"},
           NEW t, Fits(st, n + 1, t)
    PROVE  Fits(st2, n + 1, t)
<1>1. StreamsOf(st, n + 1) = StreamsOf(st, n)
    BY StreamsAround
<1>2. StreamsOf(st2, n + 1) = StreamsOf(st2, n)
    BY StreamsAround
<1>3. StreamsOf(st2, n) = StreamsOf(st, n)
    <2>1. n <= Len(st) /\ n <= Len(st2)
        BY LenProperties
    <2> QED
        BY <2>1, SameStreamsOf
<1> QED
    BY <1>1, <1>2, <1>3 DEF Fits

-----------------------------------------------------------------------------
(* The constructs around a command.  Every subshell has a table of its own,*)
(* and the constructs within it, down to the next one, share that table.   *)

IsFrame(f) ==
    f = [kind |-> f.kind, redirections |-> f.redirections, fds |-> f.fds, saved_fds |-> f.saved_fds,
         pipe |-> f.pipe, capture |-> f.capture, first |-> f.first, last |-> f.last]

FramesAt(st, n) == {i \in 1..n : \A j \in i..n : st[j].kind # "subshell"}
HasCopies(f) == f.kind \in {"group", "stage"}
Copying(st, n) == \E i \in FramesAt(st, n) : HasCopies(st[i])
Own(st, n) == IF Copying(st, n) THEN Standard ELSE {}
Pipes(st, n) == {st[i].pipe : i \in FramesAt(st, n)} \ {NoRaw}

\* There is one set of copies, and every pipe is one construct's.
OneEach(st, n) ==
    /\ \A i, j \in FramesAt(st, n) : HasCopies(st[i]) /\ HasCopies(st[j]) => i = j
    /\ \A i, j \in FramesAt(st, n) : st[i].pipe = st[j].pipe /\ st[i].pipe # NoRaw => i = j

Untouched(st, n) == \A i \in 1..n : st[i].kind \notin {"group", "stage", "subshell"}

\* What was open when the innermost subshell of the first n constructs was
\* entered, and what is open now, in state t.
Level(a, st, n, t) ==
    /\ Held(a, t, Own(st, n), Pipes(st, n))
    /\ OneEach(st, n)
    /\ t.child = NoChild
    /\ DOMAIN t.fds \subseteq Standard /\ DOMAIN t.saved_fds \subseteq Standard
    /\ Untouched(st, n) => t.fds = <<>> /\ t.saved_fds = <<>>

LEMMA PipesFacts ==
    ASSUME NEW st, NEW n, NEW p
    PROVE  p \in Pipes(st, n) <=> p # NoRaw /\ \E i \in FramesAt(st, n) : p = st[i].pipe
BY DEF Pipes

\* It depends on those constructs only.
LEMMA SamePrefix ==
    ASSUME NEW st, NEW st2, NEW n \in Nat, \A i \in 1..n : st2[i] = st[i], NEW a, NEW t, Level(a, st, n, t)
    PROVE  Level(a, st2, n, t)
<1>1. \A i : i \in FramesAt(st, n) => i \in 1..n /\ st2[i] = st[i]
    BY DEF FramesAt
<1>2. FramesAt(st2, n) = FramesAt(st, n)
    BY DEF FramesAt
<1>3. Own(st2, n) = Own(st, n)
    BY <1>1, <1>2 DEF Own, Copying
<1>4. Pipes(st2, n) = Pipes(st, n)
    BY <1>1, <1>2 DEF Pipes
<1>5. OneEach(st2, n) <=> OneEach(st, n)
    BY <1>1, <1>2 DEF OneEach
<1>6. Untouched(st2, n) <=> Untouched(st, n)
    BY DEF Untouched
<1> QED
    BY <1>3, <1>4, <1>5, <1>6 DEF Level

\* A construct that shares the table is the innermost.
LEMMA FramesWith ==
    ASSUME NEW st, NEW n \in Nat, NEW st2, \A i \in 1..n : st2[i] = st[i], st2[n + 1].kind # "subshell"
    PROVE  \A i : i \in FramesAt(st2, n + 1) <=> i \in FramesAt(st, n) \/ i = n + 1
<1> SUFFICES ASSUME NEW i
             PROVE  i \in FramesAt(st2, n + 1) <=> i \in FramesAt(st, n) \/ i = n + 1
    OBVIOUS
<1>1. CASE i = n + 1
    BY <1>1 DEF FramesAt
<1>2. CASE i \in 1..n
    <2>1. \A j : j \in i..(n + 1) <=> j \in i..n \/ j = n + 1
        BY <1>2
    <2>2. \A j \in i..n : st2[j] = st[j]
        BY <1>2
    <2>3. i \in 1..(n + 1) /\ i # n + 1
        BY <1>2
    <2> QED
        BY <1>2, <2>1, <2>2, <2>3 DEF FramesAt
<1>3. CASE i \notin 1..(n + 1)
    BY <1>3 DEF FramesAt
<1> QED
    BY <1>1, <1>2, <1>3

LEMMA InnermostFacts ==
    ASSUME NEW st, NEW n \in Nat, NEW st2, \A i \in 1..n : st2[i] = st[i], st2[n + 1].kind # "subshell"
    PROVE  /\ Copying(st2, n + 1) <=> Copying(st, n) \/ HasCopies(st2[n + 1])
           /\ \A p : p \in Pipes(st2, n + 1) <=> p \in Pipes(st, n) \/ (p = st2[n + 1].pipe /\ p # NoRaw)
           /\ OneEach(st2, n + 1) <=> /\ OneEach(st, n)
                                      /\ ~(HasCopies(st2[n + 1]) /\ Copying(st, n))
                                      /\ st2[n + 1].pipe \notin Pipes(st, n)
           /\ Untouched(st2, n + 1) <=> Untouched(st, n) /\ ~HasCopies(st2[n + 1])
<1> DEFINE f == st2[n + 1]
<1>1. \A i : i \in FramesAt(st2, n + 1) <=> i \in FramesAt(st, n) \/ i = n + 1
    BY FramesWith
<1>2. \A i \in FramesAt(st, n) : i \in 1..n /\ i # n + 1 /\ st2[i] = st[i]
    BY DEF FramesAt
<1>3. Copying(st2, n + 1) <=> Copying(st, n) \/ HasCopies(f)
    BY <1>1, <1>2 DEF Copying
<1>4. \A p : p \in Pipes(st2, n + 1) <=> p \in Pipes(st, n) \/ (p = f.pipe /\ p # NoRaw)
    BY <1>1, <1>2, PipesFacts
<1>5. OneEach(st2, n + 1) <=> OneEach(st, n) /\ ~(HasCopies(f) /\ Copying(st, n)) /\ f.pipe \notin Pipes(st, n)
    <2>1. (\A i, j \in FramesAt(st2, n + 1) : HasCopies(st2[i]) /\ HasCopies(st2[j]) => i = j)
            <=> /\ \A i, j \in FramesAt(st, n) : HasCopies(st[i]) /\ HasCopies(st[j]) => i = j
                /\ ~(HasCopies(f) /\ Copying(st, n))
        BY <1>1, <1>2 DEF Copying
    <2>2. (\A i, j \in FramesAt(st2, n + 1) : st2[i].pipe = st2[j].pipe /\ st2[i].pipe # NoRaw => i = j)
            <=> /\ \A i, j \in FramesAt(st, n) : st[i].pipe = st[j].pipe /\ st[i].pipe # NoRaw => i = j
                /\ f.pipe \notin Pipes(st, n)
        BY <1>1, <1>2, PipesFacts
    <2> QED
        BY <2>1, <2>2 DEF OneEach
<1>6. Untouched(st2, n + 1) <=> Untouched(st, n) /\ ~HasCopies(f)
    <2>1. \A i : i \in 1..(n + 1) <=> i \in 1..n \/ i = n + 1
        OBVIOUS
    <2>2. Untouched(st2, n + 1) <=> (\A i \in 1..n : st[i].kind \notin {"group", "stage", "subshell"})
                                    /\ f.kind \notin {"group", "stage", "subshell"}
        BY <2>1 DEF Untouched
    <2> QED
        BY <2>2 DEF Untouched, HasCopies
<1> QED
    BY <1>3, <1>4, <1>5, <1>6

\* A subshell begins with a table that has no copies and no pipes of its own.
LEMMA SubshellFacts ==
    ASSUME NEW n \in Nat, NEW st, st[n + 1].kind = "subshell"
    PROVE  /\ Own(st, n + 1) = {} /\ Pipes(st, n + 1) = {}
           /\ OneEach(st, n + 1) /\ ~Untouched(st, n + 1)
<1>1. FramesAt(st, n + 1) = {}
    <2>1. \A i \in 1..(n + 1) : n + 1 \in i..(n + 1)
        OBVIOUS
    <2> QED
        BY <2>1 DEF FramesAt
<1>2. n + 1 \in 1..(n + 1)
    OBVIOUS
<1> QED
    BY <1>1, <1>2 DEF Own, Copying, Pipes, OneEach, Untouched

FrameOK(st, i) ==
    /\ IsFrame(st[i]) /\ Len(st[i].redirections) \in Nat
    /\ st[i].kind \in {"group", "subshell", "captured"} => st[i].pipe = NoRaw
    /\ st[i].kind = "stage" => i - 1 \in 1..Len(st) /\ st[i - 1].kind = "pipeline" /\ st[i - 1].pipe = NoRaw

WellFormed(st) == (\E S : st \in Seq(S)) /\ \A i \in 1..Len(st) : FrameOK(st, i)

\* h is the state that the innermost table was made in, construct by construct.
Outer(h, st) ==
    /\ h[0].open = OpenAtStart /\ h[0].cloexec = Internal
    /\ \A i \in 1..Len(st) : st[i].kind = "subshell" =>
          Level(h[i - 1], st, i - 1, h[i]) /\ st[i].fds = h[i].fds /\ st[i].saved_fds = h[i].saved_fds
    /\ \A i \in 1..Len(st) : st[i].kind # "subshell" => h[i] = h[i - 1]
    /\ \A i \in 1..Len(st) : HasCopies(st[i]) => Fits(st, i - 1, h[i])

Ledger(h, st, t) == WellFormed(st) /\ Outer(h, st) /\ Level(h[Len(st)], st, Len(st), t)

LEMMA AppendFacts ==
    ASSUME NEW st, NEW S, st \in Seq(S), NEW f, NEW st2, st2 = Append(st, f)
    PROVE  /\ \E S2 : st2 \in Seq(S2)
           /\ Len(st) \in Nat /\ Len(st2) = Len(st) + 1
           /\ st2[Len(st) + 1] = f
           /\ \A i \in 1..Len(st) : st2[i] = st[i]
<1> DEFINE S3 == S \cup {f}
<1>1. st \in Seq(S3) /\ f \in S3
    BY SeqDef
<1> HIDE DEF S3
<1>2. st2 \in Seq(S3)
    BY <1>1, AppendProperties
<1>3. Len(st) \in Nat /\ Len(st2) = Len(st) + 1 /\ st2[Len(st) + 1] = f /\ \A i \in 1..Len(st) : st2[i] = st[i]
    BY <1>1, AppendProperties
<1> QED
    BY <1>2, <1>3

LEMMA FrontFacts ==
    ASSUME NEW st, NEW S, st \in Seq(S), st # <<>>, NEW st2, st2 = Front(st)
    PROVE  /\ \E S2 : st2 \in Seq(S2)
           /\ Len(st) \in Nat /\ Len(st) >= 1 /\ Len(st2) = Len(st) - 1
           /\ \A i \in 1..Len(st2) : st2[i] = st[i]
           /\ Last(st) = st[Len(st)]
<1>1. Len(st) \in Nat /\ Len(st) >= 1
    BY EmptySeq, LenProperties
<1>2. st2 = SubSeq(st, 1, Len(st) - 1)
    BY DEF Front
<1>3. st2 \in Seq(S) /\ Len(st2) = Len(st) - 1 /\ \A i \in 1..(Len(st) - 1) : st2[i] = st[i]
    <2> DEFINE m == Len(st) - 1
    <2>1. m \in Int /\ 1 \in Int /\ (\A i \in 1..m : st[i] \in S) /\ m - 1 + 1 = m /\ m >= 0
        BY <1>1, ElementOfSeq
    <2>2. \A i \in 1..(m - 1 + 1) : 1 + i - 1 = i
        BY <2>1
    <2>3. st2 = SubSeq(st, 1, m)
        BY <1>2
    <2> HIDE DEF m
    <2>4. st2 \in Seq(S) /\ Len(st2) = (IF 1 <= m THEN m - 1 + 1 ELSE 0) /\ \A i \in 1..(m - 1 + 1) : st2[i] = st[1 + i - 1]
        BY <2>1, <2>3, SubSeqProperties
    <2>5. st2 \in Seq(S) /\ Len(st2) = m /\ \A i \in 1..m : st2[i] = st[i]
        BY <2>1, <2>2, <2>4
    <2> QED
        BY <2>5 DEF m
<1>4. Last(st) = st[Len(st)]
    BY DEF Last
<1> QED
    BY <1>1, <1>3, <1>4

\* The innermost construct is left.
LEMMA WithoutInnermost ==
    ASSUME NEW h, NEW st, WellFormed(st), Outer(h, st), st # <<>>, NEW F, F = Front(st)
    PROVE  /\ WellFormed(F) /\ Outer(h, F)
           /\ Len(st) \in Nat /\ Len(F) \in Nat /\ Len(st) = Len(F) + 1
           /\ \A i \in 1..Len(F) : st[i] = F[i]
           /\ Last(st) = st[Len(st)]
           /\ FrameOK(st, Len(st))
<1>1. PICK S : st \in Seq(S)
    BY DEF WellFormed
<1>2. /\ \E S2 : F \in Seq(S2)
      /\ Len(st) \in Nat /\ Len(st) >= 1 /\ Len(F) = Len(st) - 1
      /\ \A i \in 1..Len(F) : F[i] = st[i]
      /\ Last(st) = st[Len(st)]
    BY <1>1, FrontFacts
<1>3. \A i \in 1..Len(F) : i \in 1..Len(st) /\ (i - 1 \in 1..Len(st) => i - 1 \in 1..Len(F))
    BY <1>2
<1>4. \A i \in 1..Len(F) : FrameOK(F, i)
    BY <1>2, <1>3 DEF WellFormed, FrameOK
<1>5. Outer(h, F)
    <2>1. ASSUME NEW i \in 1..Len(F), F[i].kind = "subshell"
          PROVE  Level(h[i - 1], F, i - 1, h[i]) /\ F[i].fds = h[i].fds /\ F[i].saved_fds = h[i].saved_fds
        <3>1. F[i] = st[i] /\ i \in 1..Len(st)
            BY <1>2, <1>3
        <3>2. Level(h[i - 1], st, i - 1, h[i]) /\ st[i].fds = h[i].fds /\ st[i].saved_fds = h[i].saved_fds
            BY <2>1, <3>1 DEF Outer
        <3>3. i - 1 \in Nat /\ \A j \in 1..(i - 1) : F[j] = st[j]
            BY <1>2
        <3>4. Level(h[i - 1], F, i - 1, h[i])
            <4> DEFINE m == i - 1
            <4>1. m \in Nat /\ (\A j \in 1..m : F[j] = st[j]) /\ Level(h[m], st, m, h[i])
                BY <3>2, <3>3
            <4> HIDE DEF m
            <4>2. Level(h[m], F, m, h[i])
                BY <4>1, SamePrefix
            <4> QED
                BY <4>2 DEF m
        <3> QED
            BY <3>1, <3>2, <3>4
    <2>2. \A i \in 1..Len(F) : F[i].kind # "subshell" => h[i] = h[i - 1]
        BY <1>2, <1>3 DEF Outer
    <2>3. ASSUME NEW i \in 1..Len(F), HasCopies(F[i])
          PROVE  Fits(F, i - 1, h[i])
        <3> DEFINE m == i - 1
        <3>1. F[i] = st[i] /\ i \in 1..Len(st)
            BY <1>2, <1>3
        <3>2. Fits(st, m, h[i])
            BY <2>3, <3>1 DEF Outer
        <3>3. m \in Nat /\ m <= Len(st) /\ m <= Len(F) /\ \A j \in 1..m : F[j] = st[j]
            BY <1>2
        <3>4. PICK S2 : F \in Seq(S2)
            BY <1>2
        <3> HIDE DEF m
        <3>5. Fits(F, m, h[i])
            BY <1>1, <3>2, <3>3, <3>4, SameFits
        <3> QED
            BY <3>5 DEF m
    <2> QED
        BY <2>1, <2>2, <2>3 DEF Outer
<1>6. FrameOK(st, Len(st))
    BY <1>2 DEF WellFormed
<1> QED
    BY <1>2, <1>4, <1>5, <1>6 DEF WellFormed

\* The state that the table within construct n + 1 was made in is e.
MadeIn(h, n, e) == h[n + 1] = e

\* What the frame f put on st starts from: all but a subshell's from what st
\* has, a subshell's from the shell that it is made in.
MadeFrom(h, st, n, f, e) ==
    \/ f.kind # "subshell" /\ e = h[n] /\ (HasCopies(f) => Fits(st, n, e))
    \/ /\ f.kind = "subshell" /\ Level(h[n], st, n, e)
       /\ f.fds = e.fds /\ f.saved_fds = e.saved_fds

\* A construct becomes the innermost.
LEMMA InnermostFrom ==
    ASSUME NEW h, NEW st, WellFormed(st), Outer(h, st), NEW f, NEW st2, st2 = Append(st, f),
           NEW n, n = Len(st), FrameOK(st2, n + 1), NEW e, NEW u,
           MadeFrom(h, st, n, f, e),
           Level(e, st2, n + 1, u)
    PROVE  \E h2 : Ledger(h2, st2, u) /\ MadeIn(h2, n, e)
<1> DEFINE h2 == [i \in 0..(n + 1) |-> IF i = n + 1 THEN e ELSE h[i]]
<1>1. PICK S : st \in Seq(S)
    BY DEF WellFormed
<1>2. /\ \E S2 : st2 \in Seq(S2)
      /\ n \in Nat /\ Len(st2) = n + 1
      /\ st2[n + 1] = f
      /\ \A i \in 1..n : st2[i] = st[i]
    BY <1>1, AppendFacts
<1>3. h2[n + 1] = e /\ \A i \in 0..n : h2[i] = h[i]
    BY <1>2
<1> HIDE DEF h2
<1>4. WellFormed(st2)
    <2>1. \A i \in 1..n : FrameOK(st2, i)
        <3>1. \A i \in 1..n : i - 1 \in 1..n => i - 1 \in 1..Len(st2) /\ st2[i - 1] = st[i - 1]
            BY <1>2
        <3> QED
            BY <1>2, <3>1 DEF WellFormed, FrameOK
    <2>2. \A i \in 1..Len(st2) : i \in 1..n \/ i = n + 1
        BY <1>2
    <2> QED
        BY <1>2, <2>1, <2>2 DEF WellFormed
<1>5. \A i \in 1..n : st2[i].kind = "subshell" =>
         Level(h2[i - 1], st2, i - 1, h2[i]) /\ st2[i].fds = h2[i].fds /\ st2[i].saved_fds = h2[i].saved_fds
    <2> SUFFICES ASSUME NEW i \in 1..n, st2[i].kind = "subshell"
                 PROVE  Level(h2[i - 1], st2, i - 1, h2[i]) /\ st2[i].fds = h2[i].fds /\ st2[i].saved_fds = h2[i].saved_fds
        OBVIOUS
    <2>1. st2[i] = st[i] /\ h2[i] = h[i] /\ h2[i - 1] = h[i - 1]
        BY <1>2, <1>3
    <2>2. Level(h[i - 1], st, i - 1, h[i]) /\ st[i].fds = h[i].fds /\ st[i].saved_fds = h[i].saved_fds
        BY <2>1 DEF Outer
    <2> DEFINE m == i - 1
    <2>3. m \in Nat /\ (\A j \in 1..m : st2[j] = st[j]) /\ Level(h2[m], st, m, h2[i])
        BY <1>2, <2>1, <2>2
    <2>4. m = i - 1
        OBVIOUS
    <2> HIDE DEF m
    <2>5. Level(h2[m], st2, m, h2[i])
        BY <2>3, SamePrefix
    <2> QED
        BY <2>1, <2>2, <2>4, <2>5
<1>6. \A i \in 1..n : st2[i].kind # "subshell" => h2[i] = h2[i - 1]
    <2>1. \A i \in 1..n : h2[i] = h[i] /\ h2[i - 1] = h[i - 1]
        BY <1>2, <1>3
    <2> QED
        BY <1>2, <2>1 DEF Outer
<1>7. f.kind # "subshell" => h2[n + 1] = h2[n]
    BY <1>2, <1>3 DEF MadeFrom
<1>8. f.kind = "subshell" => Level(h2[n], st2, n, h2[n + 1]) /\ f.fds = h2[n + 1].fds /\ f.saved_fds = h2[n + 1].saved_fds
    <2>1. h2[n] = h[n]
        BY <1>2, <1>3
    <2>2. f.kind = "subshell" => Level(h[n], st, n, e) /\ f.fds = e.fds /\ f.saved_fds = e.saved_fds
        BY DEF MadeFrom
    <2>3. f.kind = "subshell" => Level(h[n], st2, n, e)
        BY <1>2, <2>2, SamePrefix
    <2> QED
        BY <1>3, <2>1, <2>2, <2>3
<1>81. ASSUME NEW i \in 1..(n + 1), HasCopies(st2[i])
       PROVE  Fits(st2, i - 1, h2[i])
    <2> DEFINE m == i - 1
    <2>1. m \in Nat /\ m <= Len(st) /\ m <= Len(st2) /\ \A j \in 1..m : st2[j] = st[j]
        BY <1>2
    <2>2. Fits(st, m, h2[i])
        <3>1. CASE i = n + 1
            <4>1. m = n /\ st2[i] = f /\ h2[i] = e
                BY <1>2, <1>3, <3>1
            <4>2. HasCopies(f) => Fits(st, n, e)
                BY DEF MadeFrom, HasCopies
            <4> QED
                BY <1>81, <4>1, <4>2
        <3>2. CASE i \in 1..n
            <4>1. st2[i] = st[i] /\ h2[i] = h[i]
                BY <1>2, <1>3, <3>2
            <4> QED
                BY <1>81, <3>2, <4>1 DEF Outer
        <3> QED
            BY <1>2, <3>1, <3>2
    <2>3. PICK S2 : st2 \in Seq(S2)
        BY <1>2
    <2> HIDE DEF m
    <2>4. Fits(st2, m, h2[i])
        BY <1>1, <2>1, <2>2, <2>3, SameFits
    <2> QED
        BY <2>4 DEF m
<1>9. Outer(h2, st2)
    <2>1. h2[0] = h[0]
        BY <1>2, <1>3
    <2>2. \A i \in 1..Len(st2) : i \in 1..n \/ i = n + 1
        BY <1>2
    <2>3. (n + 1) - 1 = n
        BY <1>2
    <2>4. \A i \in 1..Len(st2) : st2[i].kind = "subshell" =>
             Level(h2[i - 1], st2, i - 1, h2[i]) /\ st2[i].fds = h2[i].fds /\ st2[i].saved_fds = h2[i].saved_fds
        BY <1>2, <1>5, <1>8, <2>2, <2>3
    <2>5. \A i \in 1..Len(st2) : st2[i].kind # "subshell" => h2[i] = h2[i - 1]
        BY <1>2, <1>6, <1>7, <2>2, <2>3
    <2>6. \A i \in 1..Len(st2) : HasCopies(st2[i]) => Fits(st2, i - 1, h2[i])
        BY <1>2, <1>81
    <2> QED
        BY <2>1, <2>4, <2>5, <2>6 DEF Outer
<1>10. Level(h2[Len(st2)], st2, Len(st2), u)
    BY <1>2, <1>3
<1> QED
    BY <1>3, <1>4, <1>9, <1>10 DEF Ledger, MadeIn

LEMMA WithInnermost ==
    ASSUME NEW h, NEW st, WellFormed(st), Outer(h, st), NEW f, NEW st2, st2 = Append(st, f),
           NEW n, n = Len(st), FrameOK(st2, n + 1), NEW e, NEW u,
           MadeFrom(h, st, n, f, e),
           Level(e, st2, n + 1, u)
    PROVE  \E h2 : Ledger(h2, st2, u)
<1>1. \E h2 : Ledger(h2, st2, u) /\ MadeIn(h2, n, e)
    BY InnermostFrom
<1> QED
    BY <1>1

-----------------------------------------------------------------------------
(* The constructs, and what they say of the streams                        *)

LEMMA RedirectionsFacts ==
    ASSUME NEW rs \in Redirections
    PROVE  Len(rs) \in Nat /\ \A i \in 1..Len(rs) : rs[i].op \in Operators
BY RedirectionsAssumption

LEMMA SequenceDomain ==
    ASSUME NEW rs \in Redirections
    PROVE  DOMAIN rs = 1..Len(rs)
BY RedirectionsAssumption

\* Redirections that are known to be lost are left out.
LEMMA ConstructPlain ==
    ASSUME NEW rs \in Redirections, ~LostByConstruct(rs)
    PROVE  \A i \in 1..Len(rs) : Plain(rs[i])
BY SequenceDomain DEF LostByConstruct, Has

IsStack(st) == \E S : st \in Seq(S)

\* Within a stage that has an input of its own.
HasInput(st, n) == \E i \in 1..n : st[i].kind = "stage" /\ st[i].pipe # NoRaw

Meant(st, n) ==
    /\ Standard \subseteq DOMAIN StreamsOf(st, n)
    /\ HasInput(st, n) => StreamsOf(st, n)[0] = "pipe"

InPipelineOf(st) == st # <<>> /\ Last(st).kind = "pipeline"

\* A pipeline contains a stage and nothing else.
Framed(st) ==
    /\ \A i, j \in 1..Len(st) : j = i + 1 /\ st[i].kind = "pipeline" => st[j].kind = "stage"
    /\ \A n \in 0..Len(st) : Meant(st, n)

\* The first stage has no pipe to read from, and each other one has a pipe.
NextInput(st, t) ==
    InPipelineOf(st) => /\ Last(st).first => Last(st).pipe = NoRaw
                        /\ Last(st).pipe # NoRaw => t.open[Last(st).pipe] = "pipe"

LEMMA MeantSame ==
    ASSUME NEW st, IsStack(st), NEW st2, IsStack(st2), NEW n \in Nat, n <= Len(st), n <= Len(st2),
           \A i \in 1..n : st2[i] = st[i]
    PROVE  Meant(st2, n) <=> Meant(st, n)
<1>1. PICK S : st \in Seq(S)
    BY DEF IsStack
<1>2. PICK T : st2 \in Seq(T)
    BY DEF IsStack
<1>3. StreamsOf(st2, n) = StreamsOf(st, n)
    BY <1>1, <1>2, SameStreamsOf
<1>4. HasInput(st2, n) <=> HasInput(st, n)
    BY DEF HasInput
<1> QED
    BY <1>3, <1>4 DEF Meant

LEMMA StackFront ==
    ASSUME NEW st, IsStack(st), st # <<>>, NEW F, F = Front(st), NEW n, n = Len(F)
    PROVE  /\ IsStack(F) /\ n \in Nat /\ Len(st) = n + 1
           /\ \A i \in 1..n : F[i] = st[i]
           /\ Last(st) = st[n + 1]
<1>1. PICK S : st \in Seq(S)
    BY DEF IsStack
<1>2. /\ \E S2 : F \in Seq(S2)
      /\ Len(st) \in Nat /\ Len(st) >= 1 /\ Len(F) = Len(st) - 1
      /\ \A i \in 1..Len(F) : F[i] = st[i]
      /\ Last(st) = st[Len(st)]
    BY <1>1, FrontFacts
<1>3. n = Len(st) - 1 /\ n \in Nat /\ Len(st) = n + 1
    BY <1>2
<1> QED
    BY <1>2, <1>3 DEF IsStack

\* st2 is st and the construct f, which is the innermost.
Deeper(st, f, st2) ==
    /\ Len(st) \in Nat /\ Len(st2) = Len(st) + 1
    /\ st2[Len(st) + 1] = f /\ Last(st2) = f /\ st2 # <<>>
    /\ \A i \in 1..Len(st) : st2[i] = st[i]

LEMMA StackAppend ==
    ASSUME NEW st, IsStack(st), NEW f, NEW st2, st2 = Append(st, f)
    PROVE  IsStack(st2) /\ Deeper(st, f, st2)
<1>1. PICK S : st \in Seq(S)
    BY DEF IsStack
<1>2. /\ \E S2 : st2 \in Seq(S2)
      /\ Len(st) \in Nat /\ Len(st2) = Len(st) + 1
      /\ st2[Len(st) + 1] = f
      /\ \A i \in 1..Len(st) : st2[i] = st[i]
    BY <1>1, AppendFacts
<1>3. Last(st2) = st2[Len(st2)]
    BY DEF Last
<1>4. st2 # <<>>
    BY <1>2
<1> QED
    BY <1>2, <1>3, <1>4 DEF IsStack, Deeper

LEMMA LastOf ==
    ASSUME NEW st, IsStack(st), NEW n, n = Len(st)
    PROVE  n \in Nat /\ (st # <<>> => n \in 1..n /\ Last(st) = st[n])
<1>1. PICK S : st \in Seq(S)
    BY DEF IsStack
<1>2. n \in Nat /\ (st # <<>> => n >= 1)
    BY <1>1, EmptySeq, LenProperties
<1> QED
    BY <1>2 DEF Last

LEMMA FramedFront ==
    ASSUME NEW st, IsStack(st), st # <<>>, Framed(st), NEW F, F = Front(st)
    PROVE  IsStack(F) /\ Framed(F) /\ (Last(st).kind # "stage" => ~InPipelineOf(F))
<1> DEFINE n == Len(F)
<1>1. n = Len(F)
    OBVIOUS
<1> HIDE DEF n
<1>2. /\ IsStack(F) /\ n \in Nat /\ Len(st) = n + 1
      /\ \A i \in 1..n : F[i] = st[i]
      /\ Last(st) = st[n + 1]
    BY <1>1, StackFront
<1>3. ASSUME NEW i \in 1..n, NEW j \in 1..n, j = i + 1, F[i].kind = "pipeline" PROVE F[j].kind = "stage"
    <2>1. F[i] = st[i] /\ F[j] = st[j] /\ i \in 1..Len(st) /\ j \in 1..Len(st)
        BY <1>2
    <2> QED
        BY <1>3, <2>1 DEF Framed
<1>4. ASSUME NEW k \in 0..n PROVE Meant(F, k)
    <2>1. k \in Nat /\ k <= Len(st) /\ k <= Len(F) /\ k \in 0..Len(st) /\ \A i \in 1..k : F[i] = st[i]
        BY <1>1, <1>2
    <2> QED
        BY <1>2, <2>1, MeantSame DEF Framed
<1>5. ASSUME Last(st).kind # "stage", InPipelineOf(F) PROVE FALSE
    <2>1. n \in 1..n /\ Last(F) = F[n]
        BY <1>1, <1>2, <1>5, LastOf DEF InPipelineOf
    <2>2. n \in 1..Len(st) /\ n + 1 \in 1..Len(st) /\ st[n].kind = "pipeline"
        BY <1>2, <1>5, <2>1 DEF InPipelineOf
    <2> QED
        BY <1>2, <1>5, <2>2 DEF Framed
<1> QED
    BY <1>1, <1>2, <1>3, <1>4, <1>5 DEF Framed

LEMMA FramedAppend ==
    ASSUME NEW st, IsStack(st), Framed(st), NEW f, InPipelineOf(st) => f.kind = "stage",
           NEW st2, st2 = Append(st, f), NEW n, n = Len(st), Meant(st2, n + 1)
    PROVE  IsStack(st2) /\ Framed(st2)
<1>0. IsStack(st2) /\ Deeper(st, f, st2)
    BY StackAppend
<1>1. /\ IsStack(st2) /\ n \in Nat /\ Len(st2) = n + 1
      /\ st2[n + 1] = f
      /\ \A i \in 1..n : st2[i] = st[i]
    BY <1>0 DEF Deeper
<1>2. ASSUME NEW i \in 1..(n + 1), NEW j \in 1..(n + 1), j = i + 1, st2[i].kind = "pipeline"
      PROVE  st2[j].kind = "stage"
    <2>1. i \in 1..n /\ st2[i] = st[i]
        BY <1>1, <1>2
    <2>2. CASE j = n + 1
        <3>1. i = n
            BY <1>1, <1>2, <2>2
        <3>2. st # <<>> /\ Last(st) = st[n]
            <4>1. st # <<>>
                BY <2>1, <3>1
            <4> QED
                BY <4>1, LastOf
        <3>3. InPipelineOf(st)
            BY <1>2, <2>1, <3>1, <3>2 DEF InPipelineOf
        <3> QED
            BY <1>1, <2>2, <3>3
    <2>3. CASE j # n + 1
        <3>1. j \in 1..n /\ st2[j] = st[j]
            BY <1>1, <1>2, <2>3
        <3> QED
            BY <1>2, <2>1, <3>1 DEF Framed
    <2> QED
        BY <2>2, <2>3
<1>3. ASSUME NEW k \in 0..(n + 1) PROVE Meant(st2, k)
    <2>1. CASE k = n + 1
        BY <2>1
    <2>2. CASE k # n + 1
        <3>1. k \in Nat /\ k <= Len(st) /\ k <= Len(st2) /\ k \in 0..Len(st) /\ \A i \in 1..k : st2[i] = st[i]
            BY <1>1, <2>2
        <3> QED
            BY <1>1, <3>1, MeantSame DEF Framed
    <2> QED
        BY <2>1, <2>2
<1> QED
    BY <1>1, <1>2, <1>3 DEF Framed

\* What a construct more says, before being what the others do.
Says(st, f, st2, before) ==
    /\ before = StreamsOf(st, Len(st)) /\ Meant(st, Len(st))
    /\ StreamsOf(st2, Len(st) + 1) = OfShell(before, f)
    /\ HasInput(st2, Len(st) + 1) <=> HasInput(st, Len(st)) \/ (f.kind = "stage" /\ f.pipe # NoRaw)

LEMMA MeantWithin ==
    ASSUME NEW st, IsStack(st), Framed(st), NEW f, NEW st2, st2 = Append(st, f),
           NEW before, before = StreamsOf(st, Len(st))
    PROVE  Says(st, f, st2, before)
<1> DEFINE n == Len(st)
<1>8. n = Len(st) /\ before = StreamsOf(st, n)
    OBVIOUS
<1> HIDE DEF n
<1>0. IsStack(st2) /\ Deeper(st, f, st2)
    BY StackAppend
<1>1. /\ IsStack(st2) /\ n \in Nat /\ Len(st2) = n + 1
      /\ st2[n + 1] = f
      /\ \A i \in 1..n : st2[i] = st[i]
    BY <1>0, <1>8 DEF Deeper
<1>2. PICK S : st \in Seq(S)
    BY DEF IsStack
<1>3. PICK T : st2 \in Seq(T)
    BY <1>1 DEF IsStack
<1>4. StreamsOf(st2, n) = before
    <2>1. n <= Len(st) /\ n <= Len(st2)
        BY <1>1, <1>8
    <2> QED
        BY <1>1, <1>2, <1>3, <1>8, <2>1, SameStreamsOf
<1>5. StreamsOf(st2, n + 1) = OfShell(before, f)
    <2>1. n + 1 <= Len(st2)
        BY <1>1
    <2> QED
        BY <1>1, <1>3, <1>4, <2>1, StreamsDeeper
<1>6. HasInput(st2, n + 1) <=> HasInput(st, n) \/ (f.kind = "stage" /\ f.pipe # NoRaw)
    <2>1. \A i : i \in 1..(n + 1) <=> i \in 1..n \/ i = n + 1
        BY <1>1
    <2> QED
        BY <1>1, <2>1 DEF HasInput
<1>7. n \in 0..Len(st)
    BY <1>1, <1>8
<1> QED
    BY <1>5, <1>6, <1>7, <1>8 DEF Framed, Says

\* A construct without redirections of the shell.
LEMMA FramedPlain ==
    ASSUME NEW st, IsStack(st), Framed(st), ~InPipelineOf(st), NEW f, f.kind \notin {"group", "stage"},
           NEW st2, st2 = Append(st, f)
    PROVE  IsStack(st2) /\ Framed(st2)
<1> DEFINE n == Len(st)
           before == StreamsOf(st, n)
<1>1. n = Len(st) /\ before = StreamsOf(st, Len(st))
    OBVIOUS
<1> HIDE DEF n, before
<1>0. Says(st, f, st2, before)
    BY <1>1, MeantWithin
<1>2. /\ StreamsOf(st2, n + 1) = OfShell(before, f) /\ before = StreamsOf(st, n)
      /\ HasInput(st2, n + 1) <=> HasInput(st, n) \/ (f.kind = "stage" /\ f.pipe # NoRaw)
      /\ Meant(st, n)
    BY <1>0, <1>1 DEF Says
<1>3. OfShell(before, f) = before
    <2>1. OfShell(before, f) = AllRedirected(before, <<>>)
        BY DEF OfShell
    <2> QED
        BY <2>1, NoneRedirected
<1>4. Meant(st2, n + 1)
    BY <1>1, <1>2, <1>3 DEF Meant
<1> QED
    BY <1>1, <1>4, FramedAppend

Overriding(n, f) == IF f.kind = "stage" /\ f.pipe # NoRaw THEN f.pipe ELSE n
OfOverriding == INSTANCE OneAfterAnother WITH Step <- Overriding

LEMMA OverridesInOrder ==
    ASSUME DOMAIN stack = 1..Len(stack)
    PROVE  stdin_override = OfOverriding!Folded(stack, NoRaw)
BY DEF stdin_override, FoldLeft, MapThenFoldSet, Max, Overriding,
       OfOverriding!Folded, OfOverriding!Folds, OfOverriding!Greatest

\* An input that overrides the shell's is that of a stage.
LEMMA OverrideFacts ==
    ASSUME IsStack(stack), stdin_override # NoRaw
    PROVE  HasInput(stack, Len(stack))
<1> DEFINE N == Len(stack)
           base == NoRaw
<1>1. N \in Nat /\ DOMAIN stack = 1..N
    <2>1. PICK S : stack \in Seq(S)
        BY DEF IsStack
    <2> QED
        BY <2>1, LenProperties
<1> HIDE DEF base
<1>2. PICK f : OfOverriding!FoldChain(stack, base, OfOverriding!Folded(stack, base), f)
    BY <1>1, OfOverriding!FoldInOrder
<1> DEFINE S == {n \in 0..N : HasInput(stack, n) \/ f[n] = NoRaw}
<1>3. 0 \in S
    BY <1>1, <1>2 DEF OfOverriding!FoldChain, base
<1>4. ASSUME NEW n \in 1..N, n - 1 \in S
      PROVE  n \in S
    <2>1. f[n] = Overriding(f[n - 1], stack[n])
        BY <1>2 DEF OfOverriding!FoldChain
    <2>2. HasInput(stack, n - 1) \/ f[n - 1] = NoRaw
        BY <1>4
    <2>3. \A i : i \in 1..n <=> i \in 1..(n - 1) \/ i = n
        BY <1>1
    <2>4. HasInput(stack, n) <=> HasInput(stack, n - 1) \/ (stack[n].kind = "stage" /\ stack[n].pipe # NoRaw)
        BY <2>3 DEF HasInput
    <2>5. HasInput(stack, n) \/ f[n] = NoRaw
        BY <2>1, <2>2, <2>4 DEF Overriding
    <2> QED
        BY <2>5
<1>5. S = 0..N
    <2> HIDE DEF S
    <2>1. S \in SUBSET (0..N)
        BY DEF S
    <2> QED
        BY <1>1, <1>3, <1>4, <2>1, OfSave!UpTo
<1>6. N \in S
    BY <1>1, <1>5
<1>7. f[N] = stdin_override
    BY <1>1, <1>2, OverridesInOrder DEF OfOverriding!FoldChain, base
<1> QED
    BY <1>6, <1>7

\* The input is redirected only where that reaches the command.
LEMMA InputFacts ==
    ASSUME IsStack(stack), NEW rs \in Redirections, ~LostByConstruct(rs),
           HasInput(stack, Len(stack)) \/ (InPipeline /\ ~Top.first)
    PROVE  \A i \in 1..Len(rs) : rs[i].fd # 0
<1>1. PICK S : stack \in Seq(S)
    BY DEF IsStack
<1>2. DOMAIN stack = 1..Len(stack) /\ DOMAIN rs = 1..Len(rs)
    BY <1>1, LenProperties, SequenceDomain
<1> SUFFICES ASSUME NEW i \in 1..Len(rs), rs[i].fd = 0 PROVE FALSE
    OBVIOUS
<1>3. CASE HasInput(stack, Len(stack))
    <2>1. Overridden(stack, 0)
        BY <1>2, <1>3 DEF HasInput, Overridden
    <2> QED
        BY <1>2, <2>1 DEF LostByConstruct, Has
<1>4. CASE InPipeline /\ ~Top.first
    BY <1>2, <1>4 DEF LostByConstruct, Has
<1> QED
    BY <1>3, <1>4

LEMMA FramedGroup ==
    ASSUME IsStack(stack), Framed(stack), ~InPipelineOf(stack), NEW rs \in Redirections, ~LostByConstruct(rs),
           NEW f, f.kind = "group", f.redirections = rs, NEW st2, st2 = Append(stack, f)
    PROVE  IsStack(st2) /\ Framed(st2)
<1> DEFINE n == Len(stack)
           before == StreamsOf(stack, n)
           after == AllRedirected(before, rs)
<1>1. n = Len(stack) /\ before = StreamsOf(stack, Len(stack)) /\ after = AllRedirected(before, rs)
    OBVIOUS
<1> HIDE DEF n, before, after
<1>2. Says(stack, f, st2, before)
    BY <1>1, MeantWithin
<1>3. /\ StreamsOf(st2, n + 1) = OfShell(before, f) /\ before = StreamsOf(stack, n)
      /\ HasInput(st2, n + 1) <=> HasInput(stack, n)
      /\ Meant(stack, n)
    BY <1>1, <1>2 DEF Says
<1>4. OfShell(before, f) = after
    BY <1>1 DEF OfShell
<1>5. Len(rs) \in Nat /\ DOMAIN rs = 1..Len(rs) /\ \A i \in 1..Len(rs) : Plain(rs[i])
    BY RedirectionsFacts, SequenceDomain, ConstructPlain
<1>6. /\ Standard \subseteq DOMAIN after
      /\ \A fd \in Standard : (\A i \in 1..Len(rs) : rs[i].fd # fd) => after[fd] = before[fd]
    <2>1. Standard \subseteq DOMAIN before
        BY <1>3 DEF Meant
    <2> QED
        BY <1>1, <1>5, <2>1, AllRedirectedKeeps
<1>7. ASSUME HasInput(stack, n) PROVE after[0] = "pipe"
    <2>1. \A i \in 1..Len(rs) : rs[i].fd # 0
        BY <1>1, <1>7, InputFacts
    <2>2. 0 \in Standard
        BY DEF Standard
    <2> QED
        BY <1>3, <1>6, <1>7, <2>1, <2>2 DEF Meant
<1>8. Meant(st2, n + 1)
    BY <1>3, <1>4, <1>6, <1>7 DEF Meant
<1> QED
    BY <1>1, <1>8, FramedAppend

\* The streams are those that the group's redirections make of what there was.
LEMMA GroupFits ==
    ASSUME IsStack(stack), Framed(stack), ~InPipelineOf(stack), NEW rs \in Redirections, ~LostByConstruct(rs),
           NEW f, f.kind = "group", f.redirections = rs, NEW st2, st2 = Append(stack, f),
           NEW before, before = StreamsOf(stack, Len(stack)), NEW u, AgreesWith(u, AllRedirected(before, rs))
    PROVE  IsStack(st2) /\ Framed(st2) /\ ~InPipelineOf(st2) /\ Fits(st2, Len(st2), u)
<1>1. IsStack(st2) /\ Framed(st2)
    BY FramedGroup
<1>2. Says(stack, f, st2, before)
    BY MeantWithin
<1>3. Deeper(stack, f, st2)
    BY StackAppend
<1> DEFINE after == AllRedirected(before, rs)
           n == Len(stack)
<1>4. StreamsOf(st2, n + 1) = OfShell(before, f) /\ Len(st2) = n + 1 /\ Last(st2) = f
    BY <1>2, <1>3 DEF Says, Deeper
<1>5. OfShell(before, f) = after
    BY DEF OfShell
<1>6. AgreesWith(u, after)
    OBVIOUS
<1> HIDE DEF after, n
<1>7. Fits(st2, Len(st2), u)
    BY <1>4, <1>5, <1>6 DEF Fits, AgreesWith
<1> QED
    BY <1>1, <1>4, <1>7 DEF InPipelineOf

\* The streams that a stage begins with.
WithInput(env, first) == Piped(env, first, TRUE)

LEMMA PipedFacts ==
    ASSUME NEW env, Standard \subseteq DOMAIN env, NEW first, NEW env2, env2 = WithInput(env, first)
    PROVE  /\ Standard \subseteq DOMAIN env2
           /\ env2[0] = IF first THEN env[0] ELSE "pipe"
           /\ \A fd \in Standard : fd # 0 => env2[fd] = env[fd]
<1>1. 0 \in DOMAIN env /\ 1 \in DOMAIN env
    BY DEF Standard
<1> QED
    BY <1>1 DEF Piped, WithInput

LEMMA FramedStage ==
    ASSUME IsStack(stack), Framed(stack), InPipelineOf(stack), Top = Last(stack),
           NEW rs \in Redirections, ~LostByConstruct(rs),
           NEW g, g.kind = "pipeline", NEW taken, taken = Append(Front(stack), g),
           NEW f, f.kind = "stage", f.redirections = rs, f.first = Top.first, Top.first => f.pipe = NoRaw,
           NEW st2, st2 = Append(taken, f)
    PROVE  /\ IsStack(taken) /\ Framed(taken) /\ IsStack(st2) /\ Framed(st2)
           /\ Len(taken) = Len(stack)
           /\ StreamsOf(taken, Len(taken)) = StreamsOf(stack, Len(stack))
<1> DEFINE F == Front(stack)
           m == Len(F)
           n == Len(taken)
           before == StreamsOf(taken, Len(taken))
           piped == WithInput(before, f.first)
           after == AllRedirected(piped, rs)
<1>1. /\ F = Front(stack) /\ m = Len(F) /\ taken = Append(F, g) /\ n = Len(taken)
      /\ before = StreamsOf(taken, Len(taken)) /\ before = StreamsOf(taken, n)
      /\ piped = WithInput(before, f.first) /\ after = AllRedirected(piped, rs)
    OBVIOUS
<1> HIDE DEF F, m, n, before, piped, after
<1>2. stack # <<>> /\ Last(stack).kind = "pipeline"
    BY DEF InPipelineOf
<1>3. IsStack(F) /\ Framed(F) /\ ~InPipelineOf(F)
    BY <1>1, <1>2, FramedFront
<1>4. /\ m \in Nat /\ Len(stack) = m + 1
      /\ \A i \in 1..m : F[i] = stack[i]
      /\ Last(stack) = stack[m + 1]
    <2>1. IsStack(stack) /\ stack # <<>> /\ F = Front(stack) /\ m = Len(F)
        BY <1>1, <1>2
    <2>2. /\ IsStack(F) /\ m \in Nat /\ Len(stack) = m + 1
          /\ \A i \in 1..m : F[i] = stack[i]
          /\ Last(stack) = stack[m + 1]
        BY ONLY <2>1, StackFront
    <2> QED
        BY <2>2
<1>5. IsStack(taken) /\ Framed(taken)
    BY <1>1, <1>3, FramedPlain
<1>6. Deeper(F, g, taken)
    BY <1>1, <1>3, StackAppend
<1>7. n = m + 1 /\ n \in Nat /\ taken[n] = g /\ InPipelineOf(taken) /\ \A i \in 1..m : taken[i] = stack[i]
    BY <1>1, <1>4, <1>6 DEF Deeper, InPipelineOf
<1>8. HasInput(taken, n) <=> HasInput(stack, n)
    <2>1. \A i : i \in 1..n <=> i \in 1..m \/ i = n
        BY <1>4, <1>7
    <2>2. stack[n].kind = "pipeline"
        BY <1>2, <1>4, <1>7
    <2> QED
        BY <1>7, <2>1, <2>2 DEF HasInput
<1>9. before = StreamsOf(stack, n)
    <2>1. PICK S : stack \in Seq(S)
        BY DEF IsStack
    <2>2. PICK T : taken \in Seq(T)
        BY <1>5 DEF IsStack
    <2>3. StreamsOf(stack, m + 1) = StreamsOf(stack, m)
        <3>1. m + 1 <= Len(stack) /\ stack[m + 1].kind \notin {"group", "stage"}
            BY <1>2, <1>4
        <3> QED
            BY <1>4, <2>1, <3>1, StreamsAround
    <2>4. StreamsOf(taken, m + 1) = StreamsOf(taken, m)
        <3>1. m + 1 <= Len(taken) /\ taken[m + 1].kind \notin {"group", "stage"}
            BY <1>1, <1>7
        <3> QED
            BY <1>4, <2>2, <3>1, StreamsAround
    <2>5. StreamsOf(taken, m) = StreamsOf(stack, m)
        <3>1. m <= Len(stack) /\ m <= Len(taken)
            BY <1>1, <1>4, <1>7
        <3> QED
            BY <1>4, <1>7, <2>1, <2>2, <3>1, SameStreamsOf
    <2> QED
        BY <1>1, <1>7, <2>3, <2>4, <2>5
<1>10. Says(taken, f, st2, before)
    BY <1>1, <1>5, MeantWithin
<1>11. /\ StreamsOf(st2, n + 1) = OfShell(before, f)
       /\ HasInput(st2, n + 1) <=> HasInput(taken, n) \/ f.pipe # NoRaw
       /\ Meant(taken, n)
    BY <1>1, <1>10 DEF Says
<1>12. OfShell(before, f) = after
    BY <1>1 DEF OfShell, WithInput
<1>13. Len(rs) \in Nat /\ DOMAIN rs = 1..Len(rs) /\ \A i \in 1..Len(rs) : Plain(rs[i])
    BY RedirectionsFacts, SequenceDomain, ConstructPlain
<1>14. /\ Standard \subseteq DOMAIN piped
       /\ piped[0] = IF f.first THEN before[0] ELSE "pipe"
    <2>1. Standard \subseteq DOMAIN before /\ piped = WithInput(before, f.first)
        BY <1>1, <1>11 DEF Meant
    <2>2. /\ Standard \subseteq DOMAIN piped
          /\ piped[0] = IF f.first THEN before[0] ELSE "pipe"
          /\ \A fd \in Standard : fd # 0 => piped[fd] = before[fd]
        BY ONLY <2>1, PipedFacts
    <2> QED
        BY <2>2
<1>15. /\ Standard \subseteq DOMAIN after
       /\ \A fd \in Standard : (\A i \in 1..Len(rs) : rs[i].fd # fd) => after[fd] = piped[fd]
    <2>1. /\ Len(rs) \in Nat /\ DOMAIN rs = 1..Len(rs) /\ \A i \in 1..Len(rs) : Plain(rs[i])
          /\ Standard \subseteq DOMAIN piped /\ after = AllRedirected(piped, rs)
        BY <1>1, <1>13, <1>14
    <2> QED
        BY ONLY <2>1, AllRedirectedKeeps
<1>16. 0 \in Standard
    BY DEF Standard
<1>17. ASSUME HasInput(st2, n + 1) PROVE after[0] = "pipe"
    <2>1. CASE Top.first
        <3>1. HasInput(taken, n) /\ before[0] = "pipe"
            BY <1>1, <1>11, <1>17, <2>1 DEF Meant
        <3>2. HasInput(stack, Len(stack))
            BY <1>4, <1>7, <1>8, <3>1
        <3>3. \A i \in 1..Len(rs) : rs[i].fd # 0
            BY <3>2, InputFacts
        <3> QED
            BY <1>14, <1>15, <1>16, <2>1, <3>1, <3>3
    <2>2. CASE ~Top.first
        <3>1. InPipeline
            BY <1>2 DEF InPipeline
        <3>2. \A i \in 1..Len(rs) : rs[i].fd # 0
            BY <2>2, <3>1, InputFacts
        <3> QED
            BY <1>14, <1>15, <1>16, <2>2, <3>2
    <2> QED
        BY <2>1, <2>2
<1>18. Meant(st2, n + 1)
    BY <1>11, <1>12, <1>15, <1>17 DEF Meant
<1>19. IsStack(st2) /\ Framed(st2)
    BY <1>1, <1>5, <1>18, FramedAppend
<1> QED
    BY <1>1, <1>4, <1>5, <1>7, <1>9, <1>19

LEMMA StageFits ==
    ASSUME IsStack(stack), Framed(stack), InPipelineOf(stack), Top = Last(stack),
           NEW rs \in Redirections, ~LostByConstruct(rs),
           NEW g, g.kind = "pipeline", NEW taken, taken = Append(Front(stack), g),
           NEW f, f.kind = "stage", f.redirections = rs, f.first = Top.first, Top.first => f.pipe = NoRaw,
           NEW st2, st2 = Append(taken, f),
           NEW before, before = StreamsOf(stack, Len(stack)),
           NEW piped, piped = WithInput(before, Top.first), NEW u, AgreesWith(u, AllRedirected(piped, rs))
    PROVE  IsStack(st2) /\ Framed(st2) /\ ~InPipelineOf(st2) /\ Fits(st2, Len(st2), u)
<1>1. /\ IsStack(taken) /\ Framed(taken) /\ IsStack(st2) /\ Framed(st2)
      /\ Len(taken) = Len(stack)
      /\ StreamsOf(taken, Len(taken)) = StreamsOf(stack, Len(stack))
    BY FramedStage
<1>2. before = StreamsOf(taken, Len(taken))
    BY <1>1
<1>3. Says(taken, f, st2, before)
    BY <1>1, <1>2, MeantWithin
<1>4. Deeper(taken, f, st2)
    BY <1>1, StackAppend
<1> DEFINE after == AllRedirected(piped, rs)
           n == Len(taken)
<1>5. StreamsOf(st2, n + 1) = OfShell(before, f) /\ Len(st2) = n + 1 /\ Last(st2) = f
    BY <1>3, <1>4 DEF Says, Deeper
<1>6. OfShell(before, f) = after
    BY DEF OfShell, WithInput
<1>7. AgreesWith(u, after)
    OBVIOUS
<1> HIDE DEF after, n
<1>8. Fits(st2, Len(st2), u)
    BY <1>5, <1>6, <1>7 DEF Fits, AgreesWith
<1> QED
    BY <1>1, <1>5, <1>8 DEF InPipelineOf

-----------------------------------------------------------------------------
(* Steps of the innermost construct.  Within n constructs, pipe is the one *)
(* that the innermost construct has; a group or a stage has the copies.    *)

LentWith(S, pipe) == IF pipe = NoRaw THEN S ELSE Plus(S, pipe)

Inside(a, st, n, pipe, t) ==
    /\ Held(a, t, Own(st, n), LentWith(Pipes(st, n), pipe))
    /\ OneEach(st, n) /\ pipe \notin Pipes(st, n)
    /\ t.child = NoChild
    /\ DOMAIN t.fds \subseteq Standard /\ DOMAIN t.saved_fds \subseteq Standard
    /\ Untouched(st, n) => t.fds = <<>> /\ t.saved_fds = <<>>

InsideCopies(a, st, n, pipe, t) ==
    /\ Held(a, t, Standard, LentWith(Pipes(st, n), pipe))
    /\ OneEach(st, n) /\ ~Copying(st, n) /\ pipe \notin Pipes(st, n)
    /\ t.child = NoChild
    /\ DOMAIN t.fds \subseteq Standard /\ DOMAIN t.saved_fds \subseteq Standard

LEMMA InnermostLevel ==
    ASSUME NEW st, NEW n \in Nat, NEW st2, \A i \in 1..n : st2[i] = st[i],
           NEW f, f = st2[n + 1], f.kind # "subshell", NEW a, NEW t
    PROVE  /\ HasCopies(f) => (Level(a, st2, n + 1, t) <=> InsideCopies(a, st, n, f.pipe, t))
           /\ ~HasCopies(f) => (Level(a, st2, n + 1, t) <=> Inside(a, st, n, f.pipe, t))
<1>1. /\ Copying(st2, n + 1) <=> Copying(st, n) \/ HasCopies(f)
      /\ \A p : p \in Pipes(st2, n + 1) <=> p \in Pipes(st, n) \/ (p = f.pipe /\ p # NoRaw)
      /\ OneEach(st2, n + 1) <=> OneEach(st, n) /\ ~(HasCopies(f) /\ Copying(st, n)) /\ f.pipe \notin Pipes(st, n)
      /\ Untouched(st2, n + 1) <=> Untouched(st, n) /\ ~HasCopies(f)
    BY InnermostFacts
<1>2. Pipes(st2, n + 1) = LentWith(Pipes(st, n), f.pipe)
    <2>1. \A p : p \in LentWith(Pipes(st, n), f.pipe) <=> p \in Pipes(st, n) \/ (p = f.pipe /\ p # NoRaw)
        BY DEF LentWith, Plus
    <2> QED
        BY <1>1, <2>1
<1>3. Own(st2, n + 1) = IF HasCopies(f) THEN Standard ELSE Own(st, n)
    BY <1>1 DEF Own
<1>4. CASE HasCopies(f)
    <2>1. Own(st2, n + 1) = Standard
        BY <1>3, <1>4
    <2>2. Level(a, st2, n + 1, t) <=> InsideCopies(a, st, n, f.pipe, t)
        BY <1>1, <1>2, <1>4, <2>1 DEF Level, InsideCopies
    <2> QED
        BY <1>4, <2>2
<1>5. CASE ~HasCopies(f)
    <2>1. Own(st2, n + 1) = Own(st, n)
        BY <1>3, <1>5
    <2>2. Level(a, st2, n + 1, t) <=> Inside(a, st, n, f.pipe, t)
        BY <1>1, <1>2, <1>5, <2>1 DEF Level, Inside
    <2> QED
        BY <1>5, <2>2
<1> QED
    BY <1>4, <1>5

\* What there is around the innermost construct, and what it has.
LEMMA Innermost ==
    ASSUME NEW h, NEW st, NEW t, Ledger(h, st, t), st # <<>>, NEW F, F = Front(st), NEW f, f = Last(st),
           f.kind # "subshell", NEW m, m = Len(F), NEW a, a = h[m]
    PROVE  /\ WellFormed(F) /\ Outer(h, F) /\ m \in Nat
           /\ IsFrame(f) /\ Len(f.redirections) \in Nat
           /\ f.kind \in {"group", "captured"} => f.pipe = NoRaw
           /\ f.kind = "stage" => F # <<>> /\ Last(F).kind = "pipeline" /\ Last(F).pipe = NoRaw
           /\ HasCopies(f) => InsideCopies(a, F, m, f.pipe, t)
           /\ ~HasCopies(f) => Inside(a, F, m, f.pipe, t)
<1>1. WellFormed(st) /\ Outer(h, st) /\ Level(h[Len(st)], st, Len(st), t)
    BY DEF Ledger
<1>2. /\ WellFormed(F) /\ Outer(h, F)
      /\ Len(st) = m + 1 /\ m \in Nat
      /\ \A i \in 1..m : st[i] = F[i]
      /\ f = st[m + 1]
      /\ FrameOK(st, m + 1)
    <2>1. /\ WellFormed(F) /\ Outer(h, F)
          /\ Len(st) \in Nat /\ Len(F) \in Nat /\ Len(st) = Len(F) + 1
          /\ \A i \in 1..Len(F) : st[i] = F[i]
          /\ Last(st) = st[Len(st)]
          /\ FrameOK(st, Len(st))
        <3>1. WellFormed(st) /\ Outer(h, st) /\ st # <<>> /\ F = Front(st)
            BY <1>1
        <3> QED
            BY ONLY <3>1, WithoutInnermost
    <2>2. Len(st) = m + 1 /\ m \in Nat
        BY <2>1
    <2> QED
        BY <2>1, <2>2
<1>3. h[m + 1] = a
    <2>1. m + 1 \in 1..Len(st) /\ (m + 1) - 1 = m
        BY <1>2
    <2> QED
        BY <1>1, <1>2, <2>1 DEF Outer
<1>4. Level(a, st, m + 1, t)
    BY <1>1, <1>2, <1>3
<1>5. /\ HasCopies(f) => InsideCopies(a, F, m, f.pipe, t)
      /\ ~HasCopies(f) => Inside(a, F, m, f.pipe, t)
    BY <1>2, <1>4, InnermostLevel
<1>6. f.kind = "stage" => F # <<>> /\ Last(F).kind = "pipeline" /\ Last(F).pipe = NoRaw
    <2> SUFFICES ASSUME f.kind = "stage" PROVE F # <<>> /\ Last(F).kind = "pipeline" /\ Last(F).pipe = NoRaw
        OBVIOUS
    <2>1. (m + 1) - 1 = m
        BY <1>2
    <2>2. m \in 1..Len(st) /\ st[m].kind = "pipeline" /\ st[m].pipe = NoRaw
        BY <1>2, <2>1 DEF FrameOK
    <2>3. Last(F) = F[m] /\ F[m] = st[m]
        BY <1>2, <2>2 DEF Last
    <2>4. F # <<>>
        BY <2>2
    <2> QED
        BY <2>2, <2>3, <2>4
<1>7. IsFrame(f) /\ Len(f.redirections) \in Nat /\ (f.kind \in {"group", "captured"} => f.pipe = NoRaw)
    BY <1>2 DEF FrameOK
<1> QED
    BY <1>2, <1>5, <1>6, <1>7

LEMMA NoPipe ==
    ASSUME NEW h, NEW st, NEW n, n = Len(st), NEW a, a = h[n], NEW t
    PROVE  Ledger(h, st, t) <=> WellFormed(st) /\ Outer(h, st) /\ Inside(a, st, n, NoRaw, t)
<1>1. LentWith(Pipes(st, n), NoRaw) = Pipes(st, n) /\ NoRaw \notin Pipes(st, n)
    BY DEF LentWith, Pipes
<1>2. Level(a, st, n, t) <=> Inside(a, st, n, NoRaw, t)
    BY <1>1 DEF Level, Inside
<1> QED
    BY <1>2 DEF Ledger

\* A construct that shares the table is entered.
LEMMA Enters ==
    ASSUME NEW h, NEW st, WellFormed(st), Outer(h, st), NEW n, n = Len(st), NEW a, a = h[n],
           NEW f, f.kind # "subshell", IsFrame(f), Len(f.redirections) \in Nat,
           f.kind \in {"group", "captured"} => f.pipe = NoRaw,
           f.kind = "stage" => st # <<>> /\ Last(st).kind = "pipeline" /\ Last(st).pipe = NoRaw,
           NEW u,
           HasCopies(f) => InsideCopies(a, st, n, f.pipe, u),
           ~HasCopies(f) => Inside(a, st, n, f.pipe, u),
           HasCopies(f) => Fits(st, n, a),
           NEW st2, st2 = Append(st, f)
    PROVE  \E h2 : Ledger(h2, st2, u)
<1>1. PICK S : st \in Seq(S)
    BY DEF WellFormed
<1>2. n \in Nat /\ Len(st2) = n + 1 /\ st2[n + 1] = f /\ \A i \in 1..n : st2[i] = st[i]
    <2>1. Len(st) \in Nat /\ Len(st2) = Len(st) + 1 /\ st2[Len(st) + 1] = f /\ \A i \in 1..Len(st) : st2[i] = st[i]
        BY <1>1, AppendFacts
    <2> QED
        BY <2>1
<1>3. Level(a, st2, n + 1, u)
    BY <1>2, InnermostLevel
<1>4. FrameOK(st2, n + 1)
    <2>1. CASE f.kind = "stage"
        <3>1. n >= 1
            BY <1>1, <1>2, <2>1, EmptySeq, LenProperties
        <3>2. (n + 1) - 1 = n /\ n \in 1..Len(st2) /\ st2[n] = Last(st)
            BY <1>2, <3>1 DEF Last
        <3> QED
            BY <1>2, <2>1, <3>2 DEF FrameOK
    <2>2. CASE f.kind # "stage"
        BY <1>2, <2>2 DEF FrameOK
    <2> QED
        BY <2>1, <2>2
<1>5. MadeFrom(h, st, n, f, a)
    BY DEF MadeFrom
<1> QED
    BY <1>3, <1>4, <1>5, WithInnermost

\* The innermost construct that shares the table is left, or is the same.
LEMMA Leaves ==
    ASSUME NEW h, NEW st, WellFormed(st), Outer(h, st), NEW n, n = Len(st), NEW a, a = h[n],
           NEW u, Inside(a, st, n, NoRaw, u)
    PROVE  \E h2 : Ledger(h2, st, u)
BY NoPipe

WithFirst(f, first) == [f EXCEPT !.first = first]
Moved(f, pipe) == [f EXCEPT !.pipe = pipe, !.first = FALSE]

LEMMA MovedFields ==
    ASSUME NEW f, IsFrame(f), NEW pipe, NEW g, g = Moved(f, pipe)
    PROVE  /\ IsFrame(g) /\ g.kind = f.kind /\ g.redirections = f.redirections /\ g.pipe = pipe
<1> DEFINE over == FALSE
           e == WithFirst(f, over)
<1>1. g = [e EXCEPT !.pipe = pipe]
    BY DEF IsFrame, Moved, WithFirst
<1> HIDE DEF over
<1>2. IsFrame(e) /\ e.kind = f.kind /\ e.redirections = f.redirections
    BY DEF IsFrame, WithFirst
<1> HIDE DEF e
<1> QED
    BY <1>1, <1>2 DEF IsFrame

\* A stage of the innermost pipeline is over.
LEMMA StageOver ==
    ASSUME NEW h, NEW st, st # <<>>, NEW F, F = Front(st), WellFormed(F), Outer(h, F),
           NEW f, f = Last(st), f.kind = "pipeline", IsFrame(f), Len(f.redirections) \in Nat,
           NEW n, n = Len(F), NEW a, a = h[n], NEW last, NEW pipe, last => pipe = NoRaw,
           NEW u, Inside(a, F, n, pipe, u), NEW st2, st2 = AfterStage(st, last, pipe)
    PROVE  \E h2 : Ledger(h2, st2, u)
<1>1. CASE last
    <2>1. st2 = F
        BY <1>1 DEF AfterStage
    <2>2. Inside(a, F, n, NoRaw, u)
        BY <1>1
    <2>3. \E h2 : Ledger(h2, F, u)
        BY <2>2, Leaves
    <2> QED
        BY <2>1, <2>3
<1>2. CASE ~last
    <2> DEFINE g == Moved(f, pipe)
    <2>1. st2 = Append(F, g)
        BY <1>2 DEF AfterStage, Moved
    <2>2. IsFrame(g) /\ g.kind = "pipeline" /\ Len(g.redirections) \in Nat /\ g.pipe = pipe
        BY MovedFields
    <2> HIDE DEF g
    <2>3. ~HasCopies(g)
        BY <2>2 DEF HasCopies
    <2>4. Inside(a, F, n, g.pipe, u)
        BY <2>2
    <2>5. g.kind # "subshell" /\ g.kind \notin {"group", "captured"} /\ g.kind # "stage"
        BY <2>2
    <2> QED
        BY <2>1, <2>2, <2>3, <2>4, <2>5, Enters
<1> QED
    BY <1>1, <1>2

-----------------------------------------------------------------------------
(* The streams, when constructs and stages begin and end                   *)

\* They are what the constructs say.
Steady(st, t) == Fits(st, Len(st), t) /\ Framed(st) /\ NextInput(st, t)

Sound(st, t) == (\E h : Ledger(h, st, t)) /\ Steady(st, t)

\* Both say the same of the streams.
SaysSame(st, st2) == StreamsOf(st2, Len(st2)) = StreamsOf(st, Len(st))

\* If there is a stage to come, pipe is its input.
ForNext(st, pipe) ==
    /\ IsStack(st) /\ Framed(st)
    /\ InPipelineOf(st) => Last(st).pipe = pipe /\ (Last(st).first => pipe = NoRaw)

\* It was opened before others were closed.
Handed(u, pipe) == pipe # NoRaw => \E open, S : u.open = Without(With(open, pipe, "pipe"), S)

LEMMA NothingHanded ==
    ASSUME NEW u
    PROVE  Handed(u, NoRaw)
BY DEF Handed

LEMMA LedgerStack ==
    ASSUME NEW h, NEW st, NEW t, Ledger(h, st, t)
    PROVE  IsStack(st)
BY DEF Ledger, WellFormed, IsStack

LEMMA StaysForNext ==
    ASSUME NEW st, IsStack(st), Framed(st), ~InPipelineOf(st)
    PROVE  ForNext(st, NoRaw) /\ SaysSame(st, st)
BY DEF ForNext, SaysSame

LEMMA LeftForNext ==
    ASSUME NEW st, IsStack(st), Framed(st), st # <<>>, Last(st).kind # "stage", NEW F, F = Front(st)
    PROVE  /\ ForNext(F, NoRaw) /\ ~InPipelineOf(F)
           /\ Last(st).kind # "group" => SaysSame(st, F)
<1> DEFINE m == Len(F)
<1>1. IsStack(F) /\ Framed(F) /\ ~InPipelineOf(F)
    BY FramedFront
<1>2. m = Len(F)
    OBVIOUS
<1> HIDE DEF m
<1>3. /\ IsStack(F) /\ m \in Nat /\ Len(st) = m + 1
      /\ \A i \in 1..m : F[i] = st[i]
      /\ Last(st) = st[m + 1]
    BY <1>2, StackFront
<1>4. ASSUME Last(st).kind # "group" PROVE SaysSame(st, F)
    <2>1. PICK S : st \in Seq(S)
        BY DEF IsStack
    <2>2. PICK T : F \in Seq(T)
        BY <1>1 DEF IsStack
    <2>3. StreamsOf(st, m + 1) = StreamsOf(st, m)
        <3>1. m \in Nat /\ m + 1 <= Len(st) /\ st[m + 1].kind \notin {"group", "stage"}
            BY <1>3, <1>4
        <3> QED
            BY ONLY <2>1, <3>1, StreamsAround
    <2>4. StreamsOf(F, m) = StreamsOf(st, m)
        <3>1. m \in Nat /\ m <= Len(st) /\ m <= Len(F) /\ \A i \in 1..m : F[i] = st[i]
            BY <1>2, <1>3
        <3> QED
            BY ONLY <2>1, <2>2, <3>1, SameStreamsOf
    <2> QED
        BY <1>2, <1>3, <2>3, <2>4 DEF SaysSame
<1> QED
    BY <1>1, <1>4 DEF ForNext

LEMMA EnteredForNext ==
    ASSUME NEW st, IsStack(st), Framed(st), ~InPipelineOf(st), NEW f, f.kind \notin {"group", "stage"},
           NEW pipe, f.pipe = pipe, f.first => pipe = NoRaw, NEW st2, st2 = Append(st, f)
    PROVE  ForNext(st2, pipe) /\ SaysSame(st, st2)
<1> DEFINE n == Len(st)
<1>1. IsStack(st2) /\ Framed(st2)
    BY FramedPlain
<1>2. Deeper(st, f, st2) /\ n = Len(st)
    BY StackAppend
<1> HIDE DEF n
<1>3. n \in Nat /\ Len(st2) = n + 1 /\ st2[n + 1] = f /\ Last(st2) = f /\ \A i \in 1..n : st2[i] = st[i]
    BY <1>2 DEF Deeper
<1>4. SaysSame(st, st2)
    <2>1. PICK S : st \in Seq(S)
        BY DEF IsStack
    <2>2. PICK T : st2 \in Seq(T)
        BY <1>1 DEF IsStack
    <2>3. StreamsOf(st2, n + 1) = StreamsOf(st2, n)
        <3>1. n \in Nat /\ n + 1 <= Len(st2) /\ st2[n + 1].kind \notin {"group", "stage"}
            BY <1>3
        <3> QED
            BY ONLY <2>2, <3>1, StreamsAround
    <2>4. StreamsOf(st2, n) = StreamsOf(st, n)
        <3>1. n \in Nat /\ n <= Len(st) /\ n <= Len(st2) /\ \A i \in 1..n : st2[i] = st[i]
            BY <1>2, <1>3
        <3> QED
            BY ONLY <2>1, <2>2, <3>1, SameStreamsOf
    <2> QED
        BY <1>2, <1>3, <2>3, <2>4 DEF SaysSame
<1> QED
    BY <1>1, <1>3, <1>4 DEF ForNext

LEMMA StageForNext ==
    ASSUME NEW st, IsStack(st), Framed(st), InPipelineOf(st), IsFrame(Last(st)), NEW last, NEW pipe,
           NEW st2, st2 = AfterStage(st, last, pipe)
    PROVE  ForNext(st2, pipe) /\ SaysSame(st, st2)
<1> DEFINE F == Front(st)
           f == Last(st)
           g == Moved(f, pipe)
<1>1. st # <<>> /\ f.kind = "pipeline" /\ f = Last(st) /\ F = Front(st) /\ g = Moved(f, pipe) /\ IsFrame(f)
    BY DEF InPipelineOf
<1>2. st2 = IF last THEN F ELSE Append(F, g)
    BY <1>1 DEF AfterStage, Moved
<1> HIDE DEF F, f, g
<1>3. ForNext(F, NoRaw) /\ ~InPipelineOf(F) /\ SaysSame(st, F)
    BY <1>1, LeftForNext
<1>4. IsStack(F) /\ Framed(F)
    BY <1>3 DEF ForNext
<1>5. g.kind = "pipeline" /\ g.pipe = pipe
    BY <1>1, MovedFields
<1>6. ~g.first
    BY <1>1 DEF Moved, IsFrame
<1>7. CASE last
    BY <1>2, <1>3, <1>4, <1>7 DEF ForNext
<1>8. CASE ~last
    <2>1. g.kind \notin {"group", "stage"} /\ (g.first => pipe = NoRaw) /\ st2 = Append(F, g)
        BY <1>2, <1>5, <1>6, <1>8
    <2>2. ForNext(st2, pipe) /\ SaysSame(F, st2)
        BY ONLY <1>3, <1>4, <1>5, <2>1, EnteredForNext
    <2> QED
        BY <1>3, <2>2 DEF SaysSame
<1> QED
    BY <1>7, <1>8

\* What a construct holds is open.
LEMMA PipeIsOpen ==
    ASSUME NEW h, NEW st, NEW t, Ledger(h, st, t), st # <<>>, Last(st).kind # "subshell", Last(st).pipe # NoRaw
    PROVE  Last(st).pipe \in DOMAIN t.open
<1> DEFINE n == Len(st)
           a == h[n]
<1>1. n = Len(st) /\ IsStack(st) /\ a = h[n]
    BY LedgerStack
<1> HIDE DEF n, a
<1>2. n \in Nat /\ n \in 1..n /\ Last(st) = st[n]
    BY <1>1, LastOf
<1>3. n \in FramesAt(st, n)
    BY <1>2 DEF FramesAt
<1>4. Last(st).pipe \in Pipes(st, n)
    BY <1>2, <1>3, PipesFacts
<1>5. Held(a, t, Own(st, n), Pipes(st, n))
    BY <1>1 DEF Ledger, Level
<1> QED
    BY <1>4, <1>5 DEF Held, Accounted

LEMMA NextIsOpen ==
    ASSUME NEW h, NEW st, NEW t, Ledger(h, st, t), NEW pipe, ForNext(st, pipe), Handed(t, pipe)
    PROVE  NextInput(st, t)
<1> SUFFICES ASSUME InPipelineOf(st)
             PROVE  /\ Last(st).first => Last(st).pipe = NoRaw
                    /\ Last(st).pipe # NoRaw => t.open[Last(st).pipe] = "pipe"
    BY DEF NextInput
<1>1. Last(st).pipe = pipe /\ (Last(st).first => pipe = NoRaw)
    BY DEF ForNext
<1>2. ASSUME pipe # NoRaw PROVE t.open[pipe] = "pipe"
    <2>1. PICK open, S : t.open = Without(With(open, pipe, "pipe"), S)
        BY <1>2 DEF Handed
    <2>2. pipe \in DOMAIN t.open
        BY <1>1, <1>2, PipeIsOpen DEF InPipelineOf
    <2> DEFINE y == With(open, pipe, "pipe")
    <2>3. y[pipe] = "pipe"
        BY DEF With
    <2>4. t.open = Without(y, S)
        BY <2>1
    <2> HIDE DEF y
    <2>5. t.open[pipe] = y[pipe]
        BY <2>2, <2>4 DEF Without, Restrict
    <2> QED
        BY <2>3, <2>5
<1> QED
    BY <1>1, <1>2

\* A step that leaves the streams alone, between constructs that say the same.
LEMMA StillSteady ==
    ASSUME NEW st, NEW t, Steady(st, t), NEW st2, NEW u, \E h : Ledger(h, st2, u),
           NEW pipe, ForNext(st2, pipe), Handed(u, pipe), SaysSame(st, st2), SameStreams(t, u)
    PROVE  Sound(st2, u)
<1>1. NextInput(st2, u)
    BY NextIsOpen
<1>2. Fits(st2, Len(st2), u)
    BY DEF Fits, Steady, SaysSame, SameStreams
<1> QED
    BY <1>1, <1>2 DEF Steady, Sound, ForNext

LEMMA SteadyAgain ==
    ASSUME NEW st2, NEW u, \E h : Ledger(h, st2, u), NEW pipe, ForNext(st2, pipe), Handed(u, pipe),
           Fits(st2, Len(st2), u)
    PROVE  Sound(st2, u)
<1>1. NextInput(st2, u)
    BY NextIsOpen
<1> QED
    BY <1>1 DEF Steady, Sound, ForNext

-----------------------------------------------------------------------------
(* The actions *)

LEMMA TopFacts ==
    /\ stack # <<>> => Top = Last(stack)
    /\ stack = <<>> => Top.kind = "shell" /\ Top.pipe = NoRaw
BY DEF Top, Frame

LEMMA InPipelineFacts ==
    ASSUME InPipeline \/ InPipelineOf(stack)
    PROVE  InPipelineOf(stack) /\ InPipeline /\ stack # <<>> /\ Top = Last(stack) /\ Last(stack).kind = "pipeline"
BY TopFacts DEF InPipeline, InPipelineOf

\* The command is a stage: what there is around its pipeline.
LEMMA PipelineFacts ==
    ASSUME NEW h, Ledger(h, stack, d), InPipeline, NEW F, F = Front(stack), NEW m, m = Len(F), NEW a, a = h[m]
    PROVE  /\ stack # <<>> /\ Top = Last(stack) /\ Top.kind = "pipeline"
           /\ IsFrame(Top) /\ Len(Top.redirections) \in Nat
           /\ WellFormed(F) /\ Outer(h, F) /\ m \in Nat
           /\ Inside(a, F, m, Top.pipe, d)
<1> DEFINE f == Last(stack)
<1>1. stack # <<>> /\ Top = f /\ Top.kind = "pipeline"
    BY TopFacts DEF InPipeline
<1>2. f.kind # "subshell" /\ ~HasCopies(f)
    BY <1>1 DEF HasCopies
<1>3. f = Last(stack)
    OBVIOUS
<1> HIDE DEF f
<1>4. /\ WellFormed(F) /\ Outer(h, F) /\ m \in Nat
      /\ IsFrame(f) /\ Len(f.redirections) \in Nat
      /\ ~HasCopies(f) => Inside(a, F, m, f.pipe, d)
    BY <1>1, <1>2, <1>3, Innermost
<1> QED
    BY <1>1, <1>2, <1>3, <1>4

LEMMA StageEnds ==
    ASSUME NEW h, Ledger(h, stack, d), Steady(stack, d), InPipeline, NEW F, F = Front(stack),
           NEW m, m = Len(F), NEW a, a = h[m],
           NEW last, NEW pipe, last => pipe = NoRaw, NEW u, Inside(a, F, m, pipe, u),
           SameStreams(d, u), Handed(u, pipe), NEW st2, st2 = AfterStage(stack, last, pipe)
    PROVE  Sound(st2, u)
<1>1. /\ stack # <<>> /\ Top = Last(stack) /\ Top.kind = "pipeline"
      /\ IsFrame(Top) /\ Len(Top.redirections) \in Nat
      /\ WellFormed(F) /\ Outer(h, F)
    BY PipelineFacts
<1>2. \E h2 : Ledger(h2, st2, u)
    BY <1>1, StageOver
<1>3. IsStack(stack) /\ Framed(stack) /\ InPipelineOf(stack) /\ IsFrame(Last(stack))
    BY <1>1, LedgerStack, InPipelineFacts DEF Steady
<1>4. ForNext(st2, pipe) /\ SaysSame(stack, st2)
    BY <1>3, StageForNext
<1> QED
    BY <1>2, <1>4, StillSteady

\* No stage comes after one that was not run.
LEMMA StageLeft ==
    ASSUME NEW h, Ledger(h, stack, d), Steady(stack, d), InPipeline, NEW F, F = Front(stack),
           NEW m, m = Len(F), NEW a, a = h[m],
           NEW u, Inside(a, F, m, NoRaw, u), SameStreams(d, u)
    PROVE  Sound(F, u)
<1>1. stack # <<>> /\ Last(stack).kind = "pipeline" /\ WellFormed(F) /\ Outer(h, F)
    BY PipelineFacts
<1>2. \E h2 : Ledger(h2, F, u)
    BY <1>1, Leaves
<1>3. IsStack(stack) /\ Framed(stack)
    BY LedgerStack DEF Steady
<1>4. ForNext(F, NoRaw) /\ SaysSame(stack, F)
    BY <1>1, <1>3, LeftForNext
<1> QED
    BY <1>2, <1>4, NothingHanded, StillSteady

\* Not within a pipeline.
LEMMA CommandEnds ==
    ASSUME NEW h, Ledger(h, stack, d), Steady(stack, d), ~InPipeline, NEW n, n = Len(stack), NEW a, a = h[n],
           NEW u, Inside(a, stack, n, NoRaw, u), SameStreams(d, u)
    PROVE  Sound(stack, u)
<1>1. \E h2 : Ledger(h2, stack, u)
    BY Leaves DEF Ledger
<1>2. IsStack(stack) /\ Framed(stack) /\ ~InPipelineOf(stack)
    BY LedgerStack, InPipelineFacts DEF Steady
<1>3. ForNext(stack, NoRaw) /\ SaysSame(stack, stack)
    BY <1>2, StaysForNext
<1> QED
    BY <1>1, <1>3, NothingHanded, StillSteady

\* Not within a pipeline, a command leaves the constructs as they are.
LEMMA NoStageEnds ==
    ASSUME ~InPipeline, NEW last, NEW pipe
    PROVE  AfterStage(stack, last, pipe) = stack
BY TopFacts DEF InPipeline, AfterStage

\* Only the kernel's side changes.
LEMMA InsideSame ==
    ASSUME NEW a, NEW st, NEW n, NEW pipe, NEW t, Inside(a, st, n, pipe, t),
           NEW next, next \notin Pipes(st, n),
           NEW u, Held(a, u, Own(st, n), LentWith(Pipes(st, n), next)),
           u.fds = t.fds, u.saved_fds = t.saved_fds, u.child = NoChild
    PROVE  Inside(a, st, n, next, u)
BY DEF Inside

LEMMA LentFacts ==
    ASSUME NEW S, NEW pipe
    PROVE  /\ LentWith(S, NoRaw) = S
           /\ pipe # NoRaw => LentWith(S, pipe) = Plus(S, pipe)
BY DEF LentWith

LEMMA NoRawFacts ==
    ASSUME NEW st, NEW n
    PROVE  NoRaw \notin Pipes(st, n)
BY DEF Pipes

LEMMA EventFields ==
    ASSUME NEW kind, NEW rs, NEW ok, NEW last, NEW seen, NEW e, e = Event(kind, rs, ok, last, seen)
    PROVE  e.kind = kind /\ e.redirections = rs /\ e.ok = ok /\ e.last = last
BY DEF Event

\* Together with the previous stage's output, which is this one's input.
LEMMA CommandHeldBy ==
    ASSUME NEW a, NEW own, NEW rest, NEW pipe, pipe \notin rest, NEW lent, lent = LentWith(rest, pipe),
           Held(a, d, own, lent), d.child = NoChild,
           InPipeline => pipe = Top.pipe, ~InPipeline => pipe = NoRaw
    PROVE  HeldForCommand(a, d, own, rest)
<1>1. pipe = NoRaw => lent = rest
    BY LentFacts
<1>2. pipe # NoRaw => lent = Plus(rest, pipe)
    BY LentFacts
<1>3. HeldWith(a, d, own, lent)
    BY NoCommandYet
<1> QED
    BY <1>1, <1>2, <1>3 DEF HeldForCommand

LEMMA PreparedState ==
    ASSUME NEW a, NEW t, NEW own, NEW rest, HeldForCommand(a, t, own, rest),
           NEW rs, Len(rs) \in Nat, \A i \in 1..Len(rs) : rs[i].op \in Operators, NEW last,
           NEW prepared, prepared = AllToChild(rs, WithStdout(WithStdin(t), last))
    PROVE  IsState(prepared.s)
<1> DEFINE v == WithStdin(t)
           w == WithStdout(v, last)
           u == AllToChild(rs, w).s
<1>1. v = WithStdin(t) /\ w = WithStdout(v, last) /\ u = AllToChild(rs, w).s /\ prepared.s = u
    OBVIOUS
<1> HIDE DEF v, w, u
<1>2. HeldWith(a, v, own, rest)
    BY <1>1, WithStdinKeeps
<1>3. HeldWith(a, w, own, rest)
    BY <1>1, <1>2, WithStdoutKeeps
<1>4. HeldWith(a, u, own, rest)
    BY <1>1, <1>3, AllToChildKeep
<1> QED
    BY <1>1, <1>4 DEF HeldWith, Held, KernelOK

LEMMA FedHanded ==
    ASSUME NEW s, IsState(s), NEW fed, fed = Dropped(Opened(s, "pipe")), NEW next, next = Handle(s)
    PROVE  Handed(fed, next)
<1> DEFINE c == "pipe"
           x == Opened(s, c)
           S == Streams(x, 0..2) \cup x.child.kept
           y == Close(x, S)
<1>1. fed = [y EXCEPT !.child = NoChild] /\ y = Close(x, S) /\ x = Opened(s, c)
    BY DEF Dropped
<1> HIDE DEF c, S
<1>2. IsState(x) /\ x.open = With(s.open, next, c)
    BY OpenedFields DEF Handle
<1> HIDE DEF x
<1>3. IsState(y) /\ y.open = Without(x.open, S)
    BY <1>1, <1>2, CloseFields
<1> HIDE DEF y
<1>4. fed.open = Without(With(s.open, next, c), S)
    BY <1>1, <1>2, <1>3 DEF IsState
<1> QED
    BY <1>4 DEF Handed, c

LEMMA ExternalStreams ==
    ASSUME NEW a, NEW own, NEW rest, NEW pipe, pipe \notin rest, NEW lent, lent = LentWith(rest, pipe),
           Held(a, d, own, lent), d.child = NoChild,
           InPipeline => pipe = Top.pipe, ~InPipeline => pipe = NoRaw,
           NEW rs, Len(rs) \in Nat, \A i \in 1..Len(rs) : rs[i].op \in Operators, NEW last,
           NEW prepared, prepared = AllToChild(rs, WithStdout(WithStdin(d), last)),
           NEW after, after = Dropped(prepared.s),
           NEW fed, fed = Dropped(Opened(prepared.s, "pipe"))
    PROVE  SameStreams(d, after) /\ SameStreams(d, fed)
<1> DEFINE none == {}
           next == Handle(prepared.s)
<1>1. next = Handle(prepared.s)
    OBVIOUS
<1> HIDE DEF none, next
<1>2. ASSUME NEW b, Held(b, d, none, lent)
      PROVE  Held(b, after, none, rest) /\ Held(b, fed, none, Plus(rest, next))
    <2>1. HeldForCommand(b, d, none, rest)
        BY <1>2, CommandHeldBy
    <2> QED
        BY <1>1, <2>1, ExternalKeeps
<1>3. none = {}
    BY DEF none
<1>4. KeepsHeld(d, none, lent, after, rest)
    BY <1>2 DEF KeepsHeld
<1> DEFINE lent2 == Plus(rest, next)
<1>5. KeepsHeld(d, none, lent, fed, lent2)
    BY <1>2 DEF KeepsHeld
<1> HIDE DEF lent2
<1> QED
    BY <1>3, <1>4, <1>5, StreamsKept

LEMMA ExternalSound ==
    ASSUME NEW h, Ledger(h, stack, d), Steady(stack, d), ExternalCommand, ~Stays
    PROVE  Sound(stack', d')
<1>1. PICK rs \in Redirections, last \in Lasts :
         LET prepared == apply_redirections(rs, WithStdout(WithStdin(d), last), TRUE)
             spawned == Spawn(prepared.s, last)
             after == Dropped(prepared.s)
             feeds == ~last /\ spawned.ok /\ prepared.s.child.std[1].to = "piped"
         IN IF ~prepared.ok
            THEN /\ d' = after
                 /\ stack' = IF InPipeline THEN Front(stack) ELSE stack
                 /\ event' = Event("external", rs, FALSE, last, NotSeen)
            ELSE /\ d' = IF feeds THEN Dropped(Opened(prepared.s, "pipe")) ELSE after
                 /\ stack' = AfterStage(stack, last, IF feeds THEN Handle(prepared.s) ELSE NoRaw)
                 /\ event' = Event("external", rs, spawned.ok, last, IF spawned.ok THEN Seen(spawned.s) ELSE NotSeen)
    BY DEF ExternalCommand
<1> DEFINE prepared == AllToChild(rs, WithStdout(WithStdin(d), last))
           after == Dropped(prepared.s)
           fed == Dropped(Opened(prepared.s, "pipe"))
           next == Handle(prepared.s)
<1>2. \/ d' = after /\ stack' = IF InPipeline THEN Front(stack) ELSE stack
      \/ d' = after /\ stack' = AfterStage(stack, last, NoRaw)
      \/ ~last /\ d' = fed /\ stack' = AfterStage(stack, last, next)
    BY <1>1 DEF AllToChild
<1>3. d'.fds = d.fds
    <2>1. \E ok, seen : event' = Event("external", rs, ok, last, seen)
        <3>1. CASE ~prepared.ok
            BY <1>1, <3>1, Zenon DEF AllToChild
        <3>2. CASE prepared.ok
            BY <1>1, <3>2, Zenon DEF AllToChild
        <3> QED
            BY <3>1, <3>2
    <2>2. event'.kind = "external"
        BY <2>1, EventFields
    <2> QED
        BY <2>2 DEF Stays, StaysChanged
<1>4. Len(rs) \in Nat /\ \A i \in 1..Len(rs) : rs[i].op \in Operators
    BY RedirectionsFacts
<1>5. ASSUME NEW a, NEW own, NEW rest, HeldForCommand(a, d, own, rest)
      PROVE  /\ Held(a, after, own, rest) /\ after.child = NoChild
             /\ Held(a, fed, own, Plus(rest, next)) /\ fed.child = NoChild
             /\ next \notin rest /\ next # NoRaw
             /\ after.saved_fds = d.saved_fds /\ fed.saved_fds = d.saved_fds
    BY <1>4, <1>5, ExternalKeeps
<1>6. ASSUME NEW a, NEW own, NEW rest, HeldForCommand(a, d, own, rest)
      PROVE  Handed(fed, next)
    <2>1. prepared = AllToChild(rs, WithStdout(WithStdin(d), last)) /\ fed = Dropped(Opened(prepared.s, "pipe"))
          /\ next = Handle(prepared.s)
        OBVIOUS
    <2> HIDE DEF prepared, fed, next
    <2>2. IsState(prepared.s)
        BY <1>4, <1>6, <2>1, PreparedState
    <2> QED
        BY <2>1, <2>2, FedHanded
<1>7. ASSUME NEW a, NEW own, NEW rest, NEW pipe, pipe \notin rest, Held(a, d, own, LentWith(rest, pipe)),
             d.child = NoChild, InPipeline => pipe = Top.pipe, ~InPipeline => pipe = NoRaw
      PROVE  SameStreams(d, after) /\ SameStreams(d, fed) /\ HeldForCommand(a, d, own, rest)
    <2> DEFINE lent == LentWith(rest, pipe)
    <2>1. /\ prepared = AllToChild(rs, WithStdout(WithStdin(d), last)) /\ after = Dropped(prepared.s)
          /\ fed = Dropped(Opened(prepared.s, "pipe"))
          /\ lent = LentWith(rest, pipe) /\ Held(a, d, own, lent)
        BY <1>7
    <2> HIDE DEF prepared, after, fed, lent
    <2> QED
        BY <1>4, <1>7, <2>1, ExternalStreams, CommandHeldBy
<1> HIDE DEF prepared, after, fed, next
<1>8. CASE InPipeline
    <2> DEFINE F == Front(stack)
               m == Len(F)
               a == h[m]
    <2>1. F = Front(stack) /\ m = Len(F) /\ a = h[m]
        OBVIOUS
    <2> HIDE DEF F, m, a
    <2>2. Inside(a, F, m, Top.pipe, d)
        BY <1>8, <2>1, PipelineFacts
    <2>3. /\ SameStreams(d, after) /\ SameStreams(d, fed)
          /\ HeldForCommand(a, d, Own(F, m), Pipes(F, m))
        BY <1>7, <1>8, <2>2 DEF Inside
    <2>4. /\ Held(a, after, Own(F, m), Pipes(F, m)) /\ after.child = NoChild
          /\ Held(a, fed, Own(F, m), Plus(Pipes(F, m), next)) /\ fed.child = NoChild
          /\ next \notin Pipes(F, m) /\ next # NoRaw
          /\ after.saved_fds = d.saved_fds /\ fed.saved_fds = d.saved_fds
        BY <1>5, <2>3
    <2>5. d' = after => Inside(a, F, m, NoRaw, d')
        <3>1. Held(a, after, Own(F, m), LentWith(Pipes(F, m), NoRaw)) /\ NoRaw \notin Pipes(F, m)
            BY <2>4, LentFacts, NoRawFacts
        <3> QED
            BY <1>3, <2>2, <2>4, <3>1, InsideSame
    <2>6. d' = fed => Inside(a, F, m, next, d') /\ Handed(d', next)
        <3>1. Held(a, fed, Own(F, m), LentWith(Pipes(F, m), next)) /\ next \notin Pipes(F, m)
            BY <2>4, LentFacts
        <3> QED
            BY <1>3, <1>6, <2>2, <2>3, <2>4, <3>1, InsideSame
    <2>7. CASE d' = after /\ stack' = F
        BY <1>8, <2>1, <2>3, <2>5, <2>7, StageLeft
    <2>8. CASE d' = after /\ stack' = AfterStage(stack, last, NoRaw)
        BY <1>8, <2>1, <2>3, <2>5, <2>8, NothingHanded, StageEnds
    <2>9. CASE ~last /\ d' = fed /\ stack' = AfterStage(stack, last, next)
        BY <1>8, <2>1, <2>3, <2>6, <2>9, StageEnds
    <2> QED
        BY <1>2, <1>8, <2>1, <2>7, <2>8, <2>9
<1>9. CASE ~InPipeline
    <2> DEFINE n == Len(stack)
               a == h[n]
               none == NoRaw
    <2>1. n = Len(stack) /\ a = h[n] /\ none = NoRaw
        OBVIOUS
    <2> HIDE DEF n, a, none
    <2>2. Inside(a, stack, n, NoRaw, d)
        BY <2>1, NoPipe
    <2>3. SameStreams(d, after) /\ HeldForCommand(a, d, Own(stack, n), Pipes(stack, n))
        <3>1. /\ none \notin Pipes(stack, n) /\ Held(a, d, Own(stack, n), LentWith(Pipes(stack, n), none))
              /\ d.child = NoChild
            BY <2>1, <2>2 DEF Inside
        <3> QED
            BY <1>7, <1>9, <2>1, <3>1
    <2>4. /\ Held(a, after, Own(stack, n), Pipes(stack, n)) /\ after.child = NoChild
          /\ after.saved_fds = d.saved_fds
        BY <1>5, <2>3
    <2>5. last = TRUE
        BY <1>9 DEF Lasts
    <2>6. d' = after /\ stack' = stack
        BY <1>2, <1>9, <2>5, NoStageEnds
    <2>7. Held(a, after, Own(stack, n), LentWith(Pipes(stack, n), NoRaw)) /\ NoRaw \notin Pipes(stack, n)
        BY <2>4, LentFacts, NoRawFacts
    <2>8. Inside(a, stack, n, NoRaw, d')
        BY <1>3, <2>2, <2>4, <2>6, <2>7, InsideSame
    <2> QED
        BY <1>9, <2>1, <2>3, <2>6, <2>8, CommandEnds
<1> QED
    BY <1>8, <1>9

\* The pipe of a stage is closed.
LEMMA ClosesPipe ==
    ASSUME NEW a, NEW t, NEW own, NEW rest, NEW pipe, pipe \notin rest, NEW lent, lent = LentWith(rest, pipe),
           Held(a, t, own, lent), NEW u, u = Close(t, {pipe} \ {NoRaw})
    PROVE  /\ Held(a, u, own, rest)
           /\ u.fds = t.fds /\ u.saved_fds = t.saved_fds /\ u.child = t.child
<1> DEFINE S == {pipe} \ {NoRaw}
<1>1. S \subseteq lent /\ lent \ S = rest
    BY DEF LentWith, Plus
<1>2. u = Close(t, S)
    OBVIOUS
<1> HIDE DEF S
<1>3. Held(a, u, own, rest)
    BY <1>1, <1>2, CloseReturns
<1>4. IsState(t)
    BY DEF Held, KernelOK
<1> QED
    BY <1>2, <1>3, <1>4, CloseFields

\* The pipe for the next stage is opened.
LEMMA OpensPipe ==
    ASSUME NEW a, NEW t, NEW own, NEW rest, NEW pipe, pipe \notin rest, NEW lent, lent = LentWith(rest, pipe),
           Held(a, t, own, lent), NEW c, NEW u, u = Opened(t, c), NEW next, next = Lowest(t.open)
    PROVE  /\ Held(a, u, own, LentWith(LentWith(rest, next), pipe))
           /\ next \notin rest /\ next # NoRaw /\ pipe \notin LentWith(rest, next)
           /\ u.fds = t.fds /\ u.saved_fds = t.saved_fds /\ u.child = t.child
<1>1. next \in Nat /\ next \notin lent
    BY FreshNumber, LowestNotLent
<1>2. Held(a, u, own, lent \cup {next})
    BY OpenedLends
<1>3. next # NoRaw
    BY <1>1 DEF NoRaw
<1>4. lent \cup {next} = LentWith(LentWith(rest, next), pipe)
    BY <1>3 DEF LentWith, Plus
<1>5. next \notin rest /\ pipe \notin LentWith(rest, next)
    BY <1>1, <1>3 DEF LentWith, Plus
<1>6. IsState(t)
    BY DEF Held, KernelOK
<1> QED
    BY <1>2, <1>3, <1>4, <1>5, <1>6, OpenedFields

LEMMA StreamsBetween ==
    ASSUME NEW none, none = {}, NEW a, NEW t, NEW lent, Held(a, t, none, lent), NEW u, NEW lent2, Held(a, u, none, lent2)
    PROVE  SameStreams(t, u)
<1>1. \A fd \in 0..2 : a.open[fd] = t.open[fd]
    BY HeldStreams
<1>2. \A fd \in 0..2 : a.open[fd] = u.open[fd]
    BY HeldStreams
<1> QED
    BY <1>1, <1>2 DEF SameStreams, Standard

LEMMA PipeHanded ==
    ASSUME NEW s, IsState(s), NEW next, next = Lowest(s.open), NEW v, v = Opened(s, "pipe"), NEW S, NEW u, u = Close(v, S)
    PROVE  Handed(u, next)
<1>1. IsState(v) /\ v.open = With(s.open, next, "pipe")
    BY OpenedFields
<1>2. u.open = Without(v.open, S)
    BY <1>1, CloseFields
<1> QED
    BY <1>1, <1>2 DEF Handed

LEMMA CapturedBuiltinSound ==
    ASSUME NEW h, Ledger(h, stack, d), Steady(stack, d), BuiltinCaptured
    PROVE  Sound(stack', d')
<1>1. PICK last \in Lasts :
         /\ d' = WithoutPrevious(IF last THEN d ELSE Opened(d, "pipe"))
         /\ stack' = AfterStage(stack, last, IF last THEN NoRaw ELSE Lowest(d.open))
    BY DEF BuiltinCaptured
<1>2. CASE InPipeline
    <2> DEFINE F == Front(stack)
               m == Len(F)
               a == h[m]
               own == Own(F, m)
               rest == Pipes(F, m)
               pipe == Top.pipe
               lent == LentWith(rest, pipe)
               next == Lowest(d.open)
               none == {}
               closed == {pipe} \ {NoRaw}
    <2>1. F = Front(stack) /\ m = Len(F) /\ a = h[m]
        OBVIOUS
    <2>2. lent = LentWith(rest, pipe) /\ next = Lowest(d.open) /\ none = {} /\ closed = {pipe} \ {NoRaw}
        OBVIOUS
    <2> HIDE DEF F, m, a
    <2>3. Inside(a, F, m, pipe, d)
        BY <1>2, <2>1, PipelineFacts
    <2>4. Held(a, d, own, lent) /\ pipe \notin rest /\ d.child = NoChild
        BY <2>3 DEF Inside
    <2>5. CASE last
        <3>1. d' = Close(d, closed) /\ stack' = AfterStage(stack, last, NoRaw)
            BY <1>1, <1>2, <2>5 DEF WithoutPrevious
        <3> HIDE DEF own, rest, pipe, lent, next, none, closed
        <3>2. ASSUME NEW b, NEW held, Held(b, d, held, lent)
              PROVE  Held(b, d', held, rest) /\ d'.fds = d.fds /\ d'.saved_fds = d.saved_fds /\ d'.child = d.child
            BY <2>2, <2>4, <3>1, <3>2, ClosesPipe
        <3>3. Held(a, d', own, rest) /\ d'.fds = d.fds /\ d'.saved_fds = d.saved_fds /\ d'.child = NoChild
            BY <2>4, <3>2
        <3>4. SameStreams(d, d')
            <4>1. KeepsHeld(d, none, lent, d', rest)
                BY <3>2 DEF KeepsHeld
            <4> QED
                BY <2>2, <2>4, <4>1, StreamsKept
        <3>5. Held(a, d', Own(F, m), LentWith(Pipes(F, m), NoRaw)) /\ NoRaw \notin Pipes(F, m)
            BY <3>3, LentFacts, NoRawFacts DEF own, rest
        <3>6. Inside(a, F, m, NoRaw, d')
            BY <2>3, <3>3, <3>5, InsideSame
        <3> QED
            BY <1>2, <2>1, <3>1, <3>4, <3>6, NothingHanded, StageEnds
    <2>6. CASE ~last
        <3> DEFINE v == Opened(d, "pipe")
                   rest2 == LentWith(rest, next)
                   lent2 == LentWith(rest2, pipe)
        <3>1. d' = Close(v, closed) /\ stack' = AfterStage(stack, last, next)
            BY <1>1, <1>2, <2>6 DEF WithoutPrevious
        <3>2. v = Opened(d, "pipe") /\ rest2 = LentWith(rest, next) /\ lent2 = LentWith(rest2, pipe)
            OBVIOUS
        <3> HIDE DEF own, rest, pipe, lent, next, v, rest2, lent2, none, closed
        <3>3. ASSUME NEW b, NEW held, Held(b, d, held, lent)
              PROVE  /\ Held(b, v, held, LentWith(LentWith(rest, next), pipe))
                     /\ next \notin rest /\ pipe \notin LentWith(rest, next)
                     /\ v.fds = d.fds /\ v.saved_fds = d.saved_fds /\ v.child = d.child
            BY <2>2, <2>4, <3>2, <3>3, OpensPipe
        <3>4. ASSUME NEW b, NEW held, Held(b, d, held, lent)
              PROVE  Held(b, d', held, rest2) /\ d'.fds = v.fds /\ d'.saved_fds = v.saved_fds /\ d'.child = v.child
            <4>1. Held(b, v, held, lent2) /\ pipe \notin rest2
                BY <3>2, <3>3, <3>4
            <4> QED
                BY <2>2, <3>1, <3>2, <4>1, ClosesPipe
        <3>5. SameStreams(d, d')
            <4>1. KeepsHeld(d, none, lent, d', rest2)
                BY <3>4 DEF KeepsHeld
            <4> QED
                BY <2>2, <2>4, <4>1, StreamsKept
        <3>6. Held(a, d', Own(F, m), LentWith(Pipes(F, m), next)) /\ next \notin Pipes(F, m)
            BY <2>4, <3>2, <3>3, <3>4 DEF own, rest
        <3>7. Inside(a, F, m, next, d')
            BY <2>3, <2>4, <3>3, <3>4, <3>6, InsideSame
        <3>8. Handed(d', next)
            <4>1. IsState(d)
                BY <2>4 DEF Held, KernelOK
            <4> QED
                BY <2>2, <3>1, <3>2, <4>1, PipeHanded
        <3> QED
            BY <1>2, <2>1, <2>6, <3>1, <3>5, <3>7, <3>8, StageEnds
    <2> QED
        BY <2>5, <2>6
<1>3. CASE ~InPipeline
    <2>1. last = TRUE
        BY <1>3 DEF Lasts
    <2>2. d' = d
        BY <1>1, <1>3, <2>1 DEF WithoutPrevious
    <2>3. stack' = stack
        BY <1>1, <1>3, NoStageEnds
    <2> QED
        BY <2>2, <2>3 DEF Sound
<1> QED
    BY <1>2, <1>3

LEMMA NoCopiesFacts ==
    ASSUME NEW h, Ledger(h, stack, d), ~CopiesInUse, NEW n, n = Len(stack), NEW F, F = Front(stack), NEW m, m = Len(F)
    PROVE  /\ ~Copying(stack, n)
           /\ InPipeline => ~Copying(F, m)
<1>1. PICK S : stack \in Seq(S)
    BY DEF Ledger, WellFormed
<1>2. n \in Nat /\ DOMAIN stack = 1..n
    BY <1>1, LenProperties
<1>3. ~Copying(stack, n)
    <2> SUFFICES ASSUME NEW i \in FramesAt(stack, n), HasCopies(stack[i]) PROVE FALSE
        BY DEF Copying
    <2>1. i \in 1..n /\ \A j \in i..n : stack[j].kind # "subshell"
        BY DEF FramesAt
    <2>2. \A j \in DOMAIN stack : j > i => j \in i..n
        BY <1>2, <2>1
    <2> QED
        BY <1>2, <2>1, <2>2 DEF CopiesInUse, HasCopies
<1>4. CASE InPipeline
    <2>1. stack # <<>> /\ Last(stack).kind = "pipeline"
        BY <1>4, TopFacts DEF InPipeline
    <2>2. WellFormed(stack) /\ Outer(h, stack)
        BY DEF Ledger
    <2>3. /\ WellFormed(F) /\ Outer(h, F)
          /\ Len(stack) \in Nat /\ Len(F) \in Nat /\ Len(stack) = Len(F) + 1
          /\ \A i \in 1..Len(F) : stack[i] = F[i]
          /\ Last(stack) = stack[Len(stack)]
          /\ FrameOK(stack, Len(stack))
        <3>1. F = Front(stack)
            OBVIOUS
        <3> QED
            BY ONLY <2>1, <2>2, <3>1, WithoutInnermost
    <2>4. m \in Nat /\ n = m + 1 /\ (\A i \in 1..m : stack[i] = F[i]) /\ stack[m + 1].kind # "subshell"
        BY <2>1, <2>3
    <2>5. Copying(stack, m + 1) <=> Copying(F, m) \/ HasCopies(stack[m + 1])
        BY <2>4, InnermostFacts
    <2> QED
        BY <1>3, <2>4, <2>5
<1> QED
    BY <1>3, <1>4

LEMMA BuiltinSound ==
    ASSUME NEW h, Ledger(h, stack, d), Steady(stack, d), Builtin, ~Stays
    PROVE  Sound(stack', d')
<1>1. PICK rs \in Redirections, last \in Lasts, order \in Orders(d.fds) :
         LET saved == save_all_fds(d, order)
             applied == InOrder(rs, saved.s, ApplyForBuiltin)
         IN /\ last /\ ~Capturing
            /\ IF ~saved.ok THEN d' = WithoutPrevious(saved.s)
               ELSE \E back \in Orders(applied.s.saved_fds) :
                       d' = WithoutPrevious(restore_all_fds(applied.s, back).s)
            /\ stack' = AfterStage(stack, last, NoRaw)
            /\ event' = Event("builtin", rs, saved.ok /\ applied.ok, last,
                              IF saved.ok /\ applied.ok THEN Writing(Writer(applied.s)) ELSE NotSeen)
    BY DEF Builtin
<1> DEFINE saved == save_all_fds(d, order)
           applied == InOrder(rs, save_all_fds(d, order).s, ApplyForBuiltin)
<1>2. \E ok, seen : event' = Event("builtin", rs, ok, last, seen)
    BY <1>1, Zenon
<1>3. event'.kind = "builtin" /\ event'.last = last
    BY <1>2, EventFields
<1>4. ~CopiesInUse /\ DOMAIN d'.fds \ 0..2 = DOMAIN d.fds \ 0..2
    BY <1>1, <1>3 DEF Stays, StaysChanged, Saves
<1>5. Len(rs) \in Nat /\ \A i \in 1..Len(rs) : rs[i].op \in Operators
    BY RedirectionsFacts
<1> DEFINE n == Len(stack)
           F == Front(stack)
           m == Len(F)
<1>6. n = Len(stack) /\ F = Front(stack) /\ m = Len(F)
    OBVIOUS
<1> HIDE DEF n, F, m
<1>7. ~Copying(stack, n) /\ (InPipeline => ~Copying(F, m))
    BY <1>4, <1>6, NoCopiesFacts
<1>8. DOMAIN d.fds \subseteq Standard /\ DOMAIN d.saved_fds \subseteq Standard
    BY DEF Ledger, Level
<1>9. \A st, k : ~Copying(st, k) => Own(st, k) = {}
    BY DEF Own
<1>10. saved.ok
    <2>1. Held(h[n], d, {}, Pipes(stack, n))
        BY <1>6, <1>7, <1>9 DEF Ledger, Level
    <2> QED
        BY <1>8, <2>1, SaveAllStandard
<1>11. PICK back \in Orders(applied.s.saved_fds) : d' = WithoutPrevious(restore_all_fds(applied.s, back).s)
    BY <1>1, <1>10
<1> DEFINE w == restore_all_fds(applied.s, back).s
<1>12. ASSUME NEW a, NEW lent, Held(a, d, {}, lent)
       PROVE  /\ Held(a, w, {}, lent)
              /\ w.saved_fds = <<>>
              /\ \A fd \in DOMAIN w.fds : fd \notin Standard
              /\ w.child = d.child
    <2>1. /\ applied = AllForBuiltin(rs, save_all_fds(d, order).s)
          /\ back \in Orders(applied.s.saved_fds) /\ w = restore_all_fds(applied.s, back).s
        BY <1>11 DEF AllForBuiltin
    <2> HIDE DEF applied, w
    <2>2. order \in Orders(d.fds)
        OBVIOUS
    <2>3. GivenBack(a, d, lent, w)
        BY ONLY <1>5, <1>8, <1>12, <2>1, <2>2, BuiltinKeeps
    <2> QED
        BY <2>3 DEF GivenBack
<1>13. d' = WithoutPrevious(w) /\ stack' = AfterStage(stack, last, NoRaw)
    BY <1>1, <1>11
<1> HIDE DEF saved, applied, w
<1>14. ASSUME NEW fd \in DOMAIN d'.fds PROVE fd \in Standard
    BY <1>4, <1>8, <1>14 DEF Standard
<1>15. d.child = NoChild
    BY DEF Ledger, Level
<1>16. CASE InPipeline
    <2> DEFINE a == h[m]
               rest == Pipes(F, m)
               pipe == Top.pipe
               lent == LentWith(rest, pipe)
               none == {}
    <2>1. a = h[m] /\ lent = LentWith(rest, pipe)
        OBVIOUS
    <2> HIDE DEF a
    <2>2. Inside(a, F, m, pipe, d)
        BY <1>6, <1>16, <2>1, PipelineFacts
    <2>3. Held(a, d, {}, lent) /\ pipe \notin rest /\ Own(F, m) = {} /\ OneEach(F, m)
        BY <1>7, <1>9, <1>16, <2>2 DEF Inside
    <2>4. d' = Close(w, {pipe} \ {NoRaw})
        BY <1>13, <1>16 DEF WithoutPrevious
    <2> HIDE DEF rest, pipe, lent
    <2>5. Held(a, w, none, lent)
        BY <1>12, <2>3
    <2>6. Held(a, d', none, rest) /\ d'.fds = w.fds /\ d'.saved_fds = w.saved_fds /\ d'.child = w.child
        <3> HIDE DEF none
        <3> QED
            BY <2>1, <2>3, <2>4, <2>5, ClosesPipe
    <2>7. w.saved_fds = <<>> /\ (\A fd \in DOMAIN w.fds : fd \notin Standard) /\ w.child = d.child
        BY <1>12, <2>3
    <2>8. d'.fds = <<>> /\ d'.saved_fds = <<>> /\ d'.child = NoChild
        <3>1. IsState(d')
            BY <2>6 DEF Held, KernelOK
        <3>2. DOMAIN d'.fds = {}
            BY <1>14, <2>6, <2>7
        <3> QED
            BY <1>15, <2>6, <2>7, <3>1, <3>2, NoEntries
    <2>9. Inside(a, F, m, NoRaw, d')
        <3>1. Held(a, d', Own(F, m), LentWith(Pipes(F, m), NoRaw)) /\ NoRaw \notin Pipes(F, m)
            BY <2>3, <2>6, LentFacts, NoRawFacts DEF rest
        <3> QED
            BY <2>3, <2>8, <3>1 DEF Inside
    <2>10. SameStreams(d, d')
        <3>1. none = {} /\ Held(a, d, none, lent) /\ Held(a, d', none, rest)
            BY <2>3, <2>6
        <3> QED
            BY ONLY <3>1, StreamsBetween
    <2> QED
        BY <1>6, <1>13, <1>16, <2>1, <2>9, <2>10, NothingHanded, StageEnds
<1>17. CASE ~InPipeline
    <2> DEFINE a == h[n]
    <2>1. a = h[n]
        OBVIOUS
    <2> HIDE DEF a
    <2>2. WellFormed(stack) /\ Outer(h, stack) /\ Inside(a, stack, n, NoRaw, d)
        BY <1>6, <2>1, NoPipe
    <2>3. Own(stack, n) = {} /\ OneEach(stack, n) /\ Held(a, d, {}, LentWith(Pipes(stack, n), NoRaw))
        BY <1>7, <1>9, <2>2 DEF Inside
    <2>4. d' = w /\ stack' = stack
        BY <1>13, <1>17, NoStageEnds DEF WithoutPrevious
    <2>5. /\ Held(a, d', {}, LentWith(Pipes(stack, n), NoRaw))
          /\ d'.saved_fds = <<>> /\ (\A fd \in DOMAIN d'.fds : fd \notin Standard) /\ d'.child = NoChild
        BY <1>12, <1>15, <2>3, <2>4
    <2>6. d'.fds = <<>>
        <3>1. IsState(d')
            BY <2>5 DEF Held, KernelOK
        <3>2. DOMAIN d'.fds = {}
            BY <1>14, <2>5
        <3> QED
            BY <3>1, <3>2, NoEntries
    <2>7. Inside(a, stack, n, NoRaw, d')
        BY <2>3, <2>5, <2>6, NoRawFacts DEF Inside
    <2>8. SameStreams(d, d')
        <3> DEFINE none == {}
                   lent == LentWith(Pipes(stack, n), NoRaw)
        <3>1. none = {} /\ Held(a, d, none, lent) /\ Held(a, d', none, lent)
            BY <2>3, <2>5
        <3> HIDE DEF none, lent
        <3> QED
            BY ONLY <3>1, StreamsBetween
    <2> QED
        BY <1>6, <1>17, <2>1, <2>4, <2>7, <2>8, CommandEnds
<1> QED
    BY <1>16, <1>17

LEMMA FrameFields ==
    ASSUME NEW kind, NEW rs, NEW f, f = Frame(kind, rs)
    PROVE  /\ IsFrame(f) /\ f.kind = kind /\ f.redirections = rs
           /\ f.pipe = NoRaw
BY DEF Frame, IsFrame

LEMMA NothingSound ==
    ASSUME NEW h, Ledger(h, stack, d), Steady(stack, d), NoCommand, ~Stays
    PROVE  Sound(stack', d')
<1>1. PICK rs \in Redirections :
         LET applied == apply_redirections(rs, d, FALSE)
         IN /\ ~InPipeline
            /\ d' = applied.s
            /\ event' = Event("nothing", rs, applied.ok, TRUE, NotSeen)
    BY DEF NoCommand
<1>2. \E ok, last, seen : event' = Event("nothing", rs, ok, last, seen)
    BY <1>1, Zenon
<1>3. event'.kind = "nothing" /\ event'.redirections = rs
    BY <1>2, EventFields
<1>4. rs = <<>>
    BY <1>3 DEF Stays, StaysChanged
<1>5. Len(rs) = 0 /\ Len(rs) \in Nat
    BY <1>4
<1>6. PICK results : OfApplyToShell!Chain(rs, Ok(d), AllToShell(rs, d), results)
    BY <1>5, AppliesToShell, Zenon DEF AllToShell
<1>7. AllToShell(rs, d) = Ok(d)
    BY <1>5, <1>6 DEF OfApplyToShell!Chain
<1>8. d' = Ok(d).s
    BY <1>1, <1>7, Zenon DEF AllToShell
<1>9. d' = d /\ stack' = stack
    BY <1>8 DEF Ok, NoCommand
<1> QED
    BY <1>9 DEF Sound

LEMMA EnterGroupSound ==
    ASSUME NEW h, Ledger(h, stack, d), Steady(stack, d), EnterGroup, ~Lost(event'.redirections), ~Stays
    PROVE  Sound(stack', d')
<1>1. PICK rs \in Redirections \ {<<>>} : \E prepared \in Prepared(d, rs, NoRaw) :
          /\ d' = prepared.s
          /\ stack' = IF prepared.ok THEN Append(stack, Frame("group", rs)) ELSE stack
          /\ event' = Event("group", rs, prepared.ok, TRUE, NotSeen)
    BY DEF EnterGroup
<1>2. PICK prepared \in Prepared(d, rs, NoRaw) :
          /\ d' = prepared.s
          /\ stack' = IF prepared.ok THEN Append(stack, Frame("group", rs)) ELSE stack
          /\ event' = Event("group", rs, prepared.ok, TRUE, NotSeen)
    BY <1>1
<1>3. \E ok, last, seen : event' = Event("group", rs, ok, last, seen)
    BY <1>2, Zenon
<1>4. event'.kind = "group" /\ event'.redirections = rs
    BY <1>3, EventFields
<1>5. ~CopiesInUse /\ ~LostByConstruct(rs)
    BY <1>4 DEF Stays, StaysChanged, Saves, Lost
<1>6. rs \in Redirections
    OBVIOUS
<1>7. Len(rs) \in Nat /\ \A i \in 1..Len(rs) : Plain(rs[i])
    BY <1>5, <1>6, RedirectionsFacts, ConstructPlain
<1> DEFINE n == Len(stack)
           a == h[n]
           F == Front(stack)
           m == Len(F)
           rest == Pipes(stack, n)
           none == NoRaw
<1>8. n = Len(stack) /\ a = h[n] /\ F = Front(stack) /\ m = Len(F)
    OBVIOUS
<1> HIDE DEF n, a, F, m
<1>9. ~Copying(stack, n)
    BY <1>5, <1>8, NoCopiesFacts
<1>10. WellFormed(stack) /\ Outer(h, stack) /\ Inside(a, stack, n, NoRaw, d)
    BY <1>8, NoPipe
<1>11. /\ Held(a, d, {}, rest) /\ OneEach(stack, n) /\ d.child = NoChild
       /\ DOMAIN d.fds \subseteq Standard /\ DOMAIN d.saved_fds \subseteq Standard
       /\ Own(stack, n) = {}
    BY <1>9, <1>10, LentFacts DEF Inside, Own
<1> HIDE DEF rest
<1>12. /\ prepared.s.child = d.child
       /\ prepared.ok => /\ Held(a, prepared.s, Standard, rest)
                         /\ DOMAIN prepared.s.fds \subseteq Standard
                         /\ DOMAIN prepared.s.saved_fds = Standard
       /\ ~prepared.ok => /\ Held(a, prepared.s, {}, rest)
                          /\ prepared.s.fds = <<>> /\ prepared.s.saved_fds = <<>>
    <2>1. none = NoRaw \/ none \in rest
        OBVIOUS
    <2>2. prepared \in Prepared(d, rs, none)
        OBVIOUS
    <2> HIDE DEF none
    <2> QED
        BY ONLY <1>7, <1>11, <2>1, <2>2, PreparedKeeps
<1>13. CASE prepared.ok
    <2> DEFINE f == Frame("group", rs)
    <2>1. IsFrame(f) /\ f.kind = "group" /\ f.redirections = rs /\ f.pipe = NoRaw
        BY FrameFields
    <2>2. stack' = Append(stack, f)
        BY <1>2, <1>13
    <2> HIDE DEF f
    <2>3. HasCopies(f)
        BY <2>1 DEF HasCopies
    <2>4. InsideCopies(a, stack, n, f.pipe, d')
        <3>1. Held(a, d', Standard, LentWith(Pipes(stack, n), f.pipe)) /\ f.pipe \notin Pipes(stack, n)
            BY <1>2, <1>12, <1>13, <2>1, LentFacts, NoRawFacts DEF rest
        <3> QED
            BY <1>2, <1>9, <1>11, <1>12, <1>13, <3>1 DEF InsideCopies
    <2>5. f.kind # "subshell" /\ f.kind # "stage" /\ Len(f.redirections) \in Nat
        BY <1>7, <2>1
    <2>6. Fits(stack, n, a)
        <3>1. \A fd \in Standard : a.open[fd] = d.open[fd]
            BY <1>11, HeldStreams DEF Standard
        <3>2. Fits(stack, n, d)
            BY <1>8 DEF Steady
        <3> QED
            BY ONLY <3>1, <3>2, FitsSame
    <2>7. \E h2 : Ledger(h2, stack', d')
        BY <1>8, <1>10, <2>1, <2>2, <2>3, <2>4, <2>5, <2>6, Enters
    <2> DEFINE before == StreamsOf(stack, Len(stack))
               after == AllRedirected(before, rs)
               st2 == stack'
               u == prepared.s
    <2>8. /\ before = StreamsOf(stack, Len(stack)) /\ after = AllRedirected(before, rs)
          /\ st2 = Append(stack, f) /\ u = prepared.s /\ d' = u
        BY <1>2, <1>13, <2>2
    <2>9. /\ IsStack(stack) /\ Framed(stack) /\ ~InPipelineOf(stack)
          /\ rs \in Redirections /\ ~LostByConstruct(rs)
        BY <1>5, LedgerStack, InPipelineFacts DEF Steady, EnterGroup
    <2> HIDE DEF before, after, st2, u
    <2>10. AgreesWith(u, after)
        <3>1. Meant(stack, Len(stack)) /\ Len(stack) \in 0..Len(stack)
            <4>1. Len(stack) \in Nat
                BY <2>9, LastOf
            <4>2. Len(stack) \in 0..Len(stack)
                BY <4>1
            <4> QED
                BY <2>9, <4>2 DEF Framed
        <3>2. Standard \subseteq DOMAIN before
            BY <2>8, <3>1 DEF Meant
        <3>3. \A fd \in Standard : Agrees(Hooked(d, none)[fd], before[fd])
            <4>1. \A fd \in Standard : Agrees(d.open[fd], before[fd])
                BY <2>8 DEF Steady, Fits
            <4> QED
                BY <4>1 DEF Hooked
        <3>4. /\ Held(a, d, {}, rest) /\ DOMAIN d.fds \subseteq Standard /\ DOMAIN d.saved_fds \subseteq Standard
              /\ Len(rs) \in Nat /\ DOMAIN rs = 1..Len(rs) /\ \A i \in 1..Len(rs) : Plain(rs[i])
              /\ (none = NoRaw \/ none \in rest)
              /\ prepared \in Prepared(d, rs, none) /\ prepared.ok
            BY <1>7, <1>11, <1>13, <2>9, SequenceDomain
        <3> HIDE DEF none
        <3>5. AgreesWith(prepared.s, AllRedirected(before, rs))
            BY ONLY <3>2, <3>3, <3>4, PreparedStreams
        <3> QED
            BY <2>8, <3>5
    <2>11. IsStack(st2) /\ Framed(st2) /\ ~InPipelineOf(st2) /\ Fits(st2, Len(st2), u)
        BY ONLY <2>1, <2>8, <2>9, <2>10, GroupFits
    <2>12. ForNext(st2, none) /\ Handed(u, none)
        BY <2>11 DEF ForNext, Handed
    <2>13. \E h2 : Ledger(h2, st2, u)
        BY <2>7, <2>8 DEF st2
    <2> HIDE DEF none
    <2>14. Sound(st2, u)
        BY <2>11, <2>12, <2>13, SteadyAgain
    <2> QED
        BY <2>8, <2>14 DEF st2
<1>14. CASE ~prepared.ok
    <2>1. d' = prepared.s /\ stack' = stack
        BY <1>2, <1>14
    <2>2. Inside(a, stack, n, NoRaw, d')
        <3>1. Held(a, d', {}, LentWith(Pipes(stack, n), NoRaw)) /\ NoRaw \notin Pipes(stack, n)
            BY <1>12, <1>14, <2>1, LentFacts, NoRawFacts DEF rest
        <3> QED
            BY <1>11, <1>12, <1>14, <2>1, <3>1 DEF Inside
    <2>3. SameStreams(d, d')
        <3> DEFINE nothing == {}
        <3>1. nothing = {} /\ Held(a, d, nothing, rest) /\ Held(a, d', nothing, rest)
            BY <1>11, <1>12, <1>14, <2>1
        <3> HIDE DEF nothing
        <3> QED
            BY ONLY <3>1, StreamsBetween
    <2> QED
        BY <1>8, <2>1, <2>2, <2>3, CommandEnds DEF EnterGroup
<1> QED
    BY <1>13, <1>14

\* The copies of a group or a stage are all there.
LEMMA CopiesFacts ==
    ASSUME NEW a, NEW st, NEW n, NEW pipe, NEW t, InsideCopies(a, st, n, pipe, t)
    PROVE  DOMAIN t.saved_fds = Standard /\ Own(st, n) = {}
BY DEF InsideCopies, Held, Own

\* The streams that there were before the construct come back.
LEMMA FitsBefore ==
    ASSUME NEW h, NEW st, NEW t, Ledger(h, st, t), st # <<>>, NEW F, F = Front(st), HasCopies(Last(st)),
           NEW m, m = Len(F), NEW a, a = h[m], NEW lent, NEW u, Held(a, u, {}, lent)
    PROVE  Fits(F, m, u)
<1>1. WellFormed(st) /\ Outer(h, st) /\ IsStack(st)
    BY LedgerStack DEF Ledger
<1>2. /\ IsStack(F) /\ m \in Nat /\ Len(st) = m + 1
      /\ \A i \in 1..m : F[i] = st[i]
      /\ Last(st) = st[m + 1]
    BY <1>1, StackFront
<1> DEFINE n == m + 1
<1>3. n \in 1..Len(st) /\ n - 1 = m /\ st[n] = Last(st) /\ st[n].kind # "subshell"
    BY <1>2 DEF HasCopies
<1> HIDE DEF n
<1>4. h[n] = a /\ Fits(st, m, h[n])
    BY <1>1, <1>3 DEF Outer
<1>5. Fits(F, m, a)
    <2>1. PICK S : st \in Seq(S)
        BY <1>1 DEF IsStack
    <2>2. PICK T : F \in Seq(T)
        BY <1>2 DEF IsStack
    <2>3. m \in Nat /\ m <= Len(st) /\ m <= Len(F) /\ (\A i \in 1..m : F[i] = st[i]) /\ Fits(st, m, a)
        BY <1>2, <1>4
    <2> QED
        BY ONLY <2>1, <2>2, <2>3, SameFits
<1>6. \A fd \in Standard : a.open[fd] = u.open[fd]
    BY HeldStreams DEF Standard
<1> QED
    BY <1>5, <1>6, FitsSame

LEMMA LeaveGroupSound ==
    ASSUME NEW h, Ledger(h, stack, d), Steady(stack, d), LeaveGroup
    PROVE  Sound(stack', d')
<1> DEFINE F == Front(stack)
           m == Len(F)
           a == h[m]
           f == Last(stack)
           rest == Pipes(F, m)
<1>1. F = Front(stack) /\ m = Len(F) /\ a = h[m] /\ f = Last(stack)
    OBVIOUS
<1>2. stack # <<>> /\ f.kind = "group"
    BY TopFacts DEF LeaveGroup
<1>3. PICK back \in Orders(d.saved_fds) : d' = restore_all_fds(d, back).s
    BY DEF LeaveGroup
<1>4. stack' = F
    BY DEF LeaveGroup
<1> HIDE DEF F, m, a, f
<1>5. f.kind # "subshell" /\ HasCopies(f)
    BY <1>2 DEF HasCopies
<1>6. /\ WellFormed(F) /\ Outer(h, F)
      /\ f.pipe = NoRaw
      /\ InsideCopies(a, F, m, f.pipe, d)
    BY <1>1, <1>2, <1>5, Innermost
<1>7. /\ Held(a, d, Standard, rest) /\ DOMAIN d.saved_fds = Standard
      /\ OneEach(F, m) /\ Own(F, m) = {} /\ d.child = NoChild /\ DOMAIN d.fds \subseteq Standard
    BY <1>6, LentFacts, CopiesFacts DEF InsideCopies
<1> HIDE DEF rest
<1>8. /\ Held(a, d', {}, rest)
      /\ d'.saved_fds = <<>>
      /\ \A fd \in DOMAIN d'.fds : fd \in DOMAIN d.fds /\ fd \notin Standard
      /\ d'.child = d.child
    BY <1>3, <1>7, RestoreAllStandard
<1>9. d'.fds = <<>>
    <2>1. IsState(d')
        BY <1>8 DEF Held, KernelOK
    <2>2. DOMAIN d'.fds = {}
        BY <1>7, <1>8
    <2> QED
        BY <2>1, <2>2, NoEntries
<1>10. Inside(a, F, m, NoRaw, d')
    <2>1. Held(a, d', {}, LentWith(Pipes(F, m), NoRaw)) /\ NoRaw \notin Pipes(F, m)
        BY <1>8, LentFacts, NoRawFacts DEF rest
    <2> QED
        BY <1>7, <1>8, <1>9, <2>1 DEF Inside
<1>11. \E h2 : Ledger(h2, F, d')
    BY <1>1, <1>6, <1>10, Leaves
<1>12. Fits(F, m, d')
    <2>1. /\ Ledger(h, stack, d) /\ stack # <<>> /\ F = Front(stack) /\ HasCopies(Last(stack))
          /\ m = Len(F) /\ a = h[m] /\ Held(a, d', {}, rest)
        BY <1>1, <1>2, <1>5, <1>8
    <2> QED
        BY ONLY <2>1, FitsBefore
<1>13. ForNext(F, NoRaw)
    <2>1. IsStack(stack) /\ Framed(stack) /\ Last(stack).kind # "stage"
        BY <1>1, <1>2, LedgerStack DEF Steady
    <2> QED
        BY <1>1, <1>2, <2>1, LeftForNext
<1> QED
    BY <1>1, <1>4, <1>11, <1>12, <1>13, NothingHanded, SteadyAgain

WithCapture(f, capture) == [f EXCEPT !.capture = capture]

LEMMA CaptureFields ==
    ASSUME NEW f, IsFrame(f), NEW capture, NEW g, g = WithCapture(f, capture)
    PROVE  IsFrame(g) /\ g.kind = f.kind /\ g.redirections = f.redirections /\ g.pipe = f.pipe /\ g.first = f.first
BY DEF IsFrame, WithCapture

\* A construct that has neither copies nor a pipe.
LEMMA EntersPlain ==
    ASSUME NEW h, Ledger(h, stack, d), Steady(stack, d), ~InPipeline,
           NEW f, IsFrame(f), Len(f.redirections) \in Nat,
           f.kind \in {"captured", "pipeline"}, f.pipe = NoRaw, NEW st2, st2 = Append(stack, f)
    PROVE  Sound(st2, d)
<1> DEFINE n == Len(stack)
           a == h[n]
<1>1. n = Len(stack) /\ a = h[n]
    OBVIOUS
<1> HIDE DEF n, a
<1>2. WellFormed(stack) /\ Outer(h, stack) /\ Inside(a, stack, n, f.pipe, d)
    <2>1. WellFormed(stack) /\ Outer(h, stack) /\ Inside(a, stack, n, NoRaw, d)
        BY <1>1, NoPipe
    <2> QED
        BY <2>1
<1>3. ~HasCopies(f) /\ f.kind # "subshell" /\ f.kind # "stage"
    BY DEF HasCopies
<1>4. \E h2 : Ledger(h2, st2, d)
    BY <1>1, <1>2, <1>3, Enters
<1>5. IsStack(stack) /\ Framed(stack) /\ ~InPipelineOf(stack)
    BY LedgerStack, InPipelineFacts DEF Steady
<1> DEFINE pipe == NoRaw
<1>6. f.pipe = pipe /\ (f.first => pipe = NoRaw) /\ f.kind \notin {"group", "stage"} /\ pipe = NoRaw
    OBVIOUS
<1> HIDE DEF pipe
<1>7. ForNext(st2, pipe) /\ SaysSame(stack, st2)
    BY <1>5, <1>6, EnteredForNext
<1>8. Handed(d, pipe) /\ SameStreams(d, d)
    BY <1>6 DEF Handed, SameStreams
<1> QED
    BY <1>4, <1>7, <1>8, StillSteady

LEMMA EnterCapturedSound ==
    ASSUME NEW h, Ledger(h, stack, d), Steady(stack, d), EnterCaptured
    PROVE  Sound(stack', d')
<1>1. PICK rs \in Redirections : stack' = Append(stack, [Frame("captured", rs) EXCEPT !.capture = TRUE])
    BY DEF EnterCaptured
<1> DEFINE e == Frame("captured", rs)
           capture == TRUE
           f == WithCapture(e, capture)
<1>2. stack' = Append(stack, f) /\ d' = d /\ ~InPipeline
    BY <1>1, Zenon DEF EnterCaptured, WithCapture
<1>3. IsFrame(e) /\ e.kind = "captured" /\ e.redirections = rs /\ e.pipe = NoRaw
    BY FrameFields
<1> HIDE DEF capture, e
<1>4. IsFrame(f) /\ f.kind = e.kind /\ f.redirections = e.redirections /\ f.pipe = e.pipe
    BY <1>3, CaptureFields
<1> HIDE DEF f
<1>5. Len(f.redirections) \in Nat /\ f.kind \in {"captured", "pipeline"} /\ f.pipe = NoRaw
    BY <1>3, <1>4, RedirectionsFacts
<1> QED
    BY <1>2, <1>4, <1>5, EntersPlain

LEMMA PipelineSound ==
    ASSUME NEW h, Ledger(h, stack, d), Steady(stack, d), BeginPipeline
    PROVE  Sound(stack', d')
<1> DEFINE f == Frame("pipeline", <<>>)
<1>1. stack' = Append(stack, f) /\ d' = d /\ ~InPipeline
    BY DEF BeginPipeline
<1>2. IsFrame(f) /\ f.kind = "pipeline" /\ f.redirections = <<>> /\ f.pipe = NoRaw
    BY FrameFields
<1> HIDE DEF f
<1>3. Len(f.redirections) \in Nat /\ f.kind \in {"captured", "pipeline"}
    BY <1>2
<1> QED
    BY <1>1, <1>2, <1>3, EntersPlain

LEMMA LeaveCapturedSound ==
    ASSUME NEW h, Ledger(h, stack, d), Steady(stack, d), LeaveCaptured
    PROVE  Sound(stack', d')
<1> DEFINE F == Front(stack)
           m == Len(F)
           a == h[m]
           f == Last(stack)
           rs == Top.redirections
<1>1. F = Front(stack) /\ m = Len(F) /\ a = h[m] /\ f = Last(stack)
    OBVIOUS
<1>2. stack # <<>> /\ f.kind = "captured"
    BY TopFacts DEF LeaveCaptured
<1>2a. f = Top
    BY <1>2, TopFacts
<1>3. d' = InOrder(rs, d, WriteOutput).s /\ stack' = F
    BY DEF LeaveCaptured
<1> HIDE DEF F, m, a, f
<1>4. f.kind # "subshell" /\ ~HasCopies(f)
    BY <1>2 DEF HasCopies
<1>5. /\ WellFormed(F) /\ Outer(h, F)
      /\ Len(f.redirections) \in Nat
      /\ f.kind \in {"group", "captured"} => f.pipe = NoRaw
      /\ ~HasCopies(f) => Inside(a, F, m, f.pipe, d)
    BY <1>1, <1>2, <1>4, Innermost
<1>6. Inside(a, F, m, NoRaw, d) /\ Len(rs) \in Nat
    BY <1>2, <1>2a, <1>4, <1>5
<1>61. ASSUME NEW b, NEW own, NEW lent, Held(b, d, own, lent)
       PROVE  Held(b, d', own, lent) /\ d'.fds = d.fds /\ d'.saved_fds = d.saved_fds /\ d'.child = d.child
    <2> HIDE DEF rs
    <2> QED
        BY <1>3, <1>6, <1>61, AllOutputKeeps
<1>7. /\ Held(a, d', Own(F, m), LentWith(Pipes(F, m), NoRaw))
      /\ d'.fds = d.fds /\ d'.saved_fds = d.saved_fds /\ d'.child = d.child
    <2> DEFINE own == Own(F, m)
               lent == LentWith(Pipes(F, m), NoRaw)
    <2>1. Held(a, d, own, lent)
        BY <1>6 DEF Inside
    <2> HIDE DEF own, lent
    <2>2. Held(a, d', own, lent) /\ d'.fds = d.fds /\ d'.saved_fds = d.saved_fds /\ d'.child = d.child
        BY <1>61, <2>1
    <2> QED
        BY <2>2 DEF own, lent
<1>8. Inside(a, F, m, NoRaw, d')
    <2>1. d'.child = NoChild
        BY <1>6, <1>7 DEF Inside
    <2> QED
        BY <1>6, <1>7, <2>1, NoRawFacts, InsideSame
<1>9. \E h2 : Ledger(h2, F, d')
    BY <1>1, <1>5, <1>8, Leaves
<1>10. SameStreams(d, d')
    <2> DEFINE own == Own(F, m)
               lent == LentWith(Pipes(F, m), NoRaw)
               none == {}
    <2>1. Held(a, d, own, lent) /\ none = {}
        BY <1>6 DEF Inside
    <2> HIDE DEF own, lent, none
    <2>2. KeepsHeld(d, none, lent, d', lent)
        BY <1>61 DEF KeepsHeld
    <2> QED
        BY <2>1, <2>2, StreamsKept
<1>11. ForNext(F, NoRaw) /\ SaysSame(stack, F)
    <2>1. IsStack(stack) /\ Framed(stack)
        BY LedgerStack DEF Steady
    <2> QED
        BY <1>1, <1>2, <2>1, LeftForNext
<1> QED
    BY <1>3, <1>9, <1>10, <1>11, NothingHanded, StillSteady

WithFds(f, fds) == [f EXCEPT !.fds = fds]
WithTable(f, fds, saved_fds) == [f EXCEPT !.fds = fds, !.saved_fds = saved_fds]

LEMMA TableFields ==
    ASSUME NEW f, IsFrame(f), NEW fds, NEW saved_fds, NEW g, g = WithTable(f, fds, saved_fds)
    PROVE  /\ IsFrame(g) /\ g.kind = f.kind /\ g.redirections = f.redirections /\ g.pipe = f.pipe
           /\ g.fds = fds /\ g.saved_fds = saved_fds
<1> DEFINE e == WithFds(f, fds)
<1>1. g = [e EXCEPT !.saved_fds = saved_fds]
    BY DEF IsFrame, WithTable, WithFds
<1>2. /\ IsFrame(e) /\ e.kind = f.kind /\ e.redirections = f.redirections /\ e.pipe = f.pipe
      /\ e.fds = fds
    BY DEF IsFrame, WithFds
<1> HIDE DEF e
<1> QED
    BY <1>1, <1>2 DEF IsFrame

LEMMA EnterSubshellSound ==
    ASSUME NEW h, Ledger(h, stack, d), Steady(stack, d), EnterSubshell
    PROVE  Sound(stack', d')
<1>1. PICK rs \in Redirections, order \in Orders(d.fds) :
          LET clone == deep_clone(d, order)
              frame == [Frame("subshell", rs) EXCEPT !.fds = d.fds, !.saved_fds = d.saved_fds]
          IN /\ d' = IF clone.ok THEN clone.s ELSE d
             /\ stack' = IF clone.ok THEN Append(stack, frame) ELSE stack
    BY DEF EnterSubshell
<1> DEFINE clone == deep_clone(d, order)
<1>2. CASE ~clone.ok
    <2>1. d' = d /\ stack' = stack
        BY <1>1, <1>2
    <2> QED
        BY <2>1 DEF Sound
<1>3. CASE clone.ok
    <2> DEFINE e == Frame("subshell", rs)
               f == WithTable(e, d.fds, d.saved_fds)
               u == clone.s
               n == Len(stack)
               st2 == Append(stack, f)
    <2>1. d' = u /\ stack' = st2
        BY <1>1, <1>3 DEF WithTable
    <2>2. u = deep_clone(d, order).s /\ deep_clone(d, order).ok /\ order \in Orders(d.fds)
        BY <1>3
    <2>3. n = Len(stack) /\ st2 = Append(stack, f)
        OBVIOUS
    <2>4. IsFrame(e) /\ e.kind = "subshell" /\ e.redirections = rs /\ e.pipe = NoRaw
        BY FrameFields
    <2> HIDE DEF e, u, n, st2, clone
    <2>5. /\ IsFrame(f) /\ f.kind = e.kind /\ f.redirections = e.redirections /\ f.pipe = e.pipe
          /\ f.fds = d.fds /\ f.saved_fds = d.saved_fds
        BY <2>4, TableFields
    <2> HIDE DEF f
    <2>6. /\ WellFormed(stack) /\ Outer(h, stack) /\ Level(h[n], stack, n, d)
          /\ KernelOK(d) /\ d.child = NoChild
          /\ DOMAIN d.fds \subseteq Standard /\ DOMAIN d.saved_fds \subseteq Standard
        BY <2>3 DEF Ledger, Level, Held
    <2>7. n \in Nat /\ Len(st2) = n + 1 /\ st2[n + 1] = f
        <3>1. PICK S : stack \in Seq(S)
            BY <2>6 DEF WellFormed
        <3>2. Len(stack) \in Nat /\ Len(st2) = Len(stack) + 1 /\ st2[Len(stack) + 1] = f
            BY <2>3, <3>1, AppendFacts
        <3> QED
            BY <2>3, <3>2
    <2>8. /\ Held(d, u, {}, {})
          /\ DOMAIN u.fds = DOMAIN d.fds /\ u.saved_fds = d.saved_fds /\ u.child = d.child
        <3>1. DOMAIN d.fds \subseteq 0..2
            BY <2>6 DEF Standard
        <3> QED
            BY <2>2, <2>6, <3>1, CloneAllKeeps
    <2>9. Level(d, st2, n + 1, u)
        <3>1. st2[n + 1].kind = "subshell"
            BY <2>4, <2>5, <2>7
        <3>2. Own(st2, n + 1) = {} /\ Pipes(st2, n + 1) = {} /\ OneEach(st2, n + 1) /\ ~Untouched(st2, n + 1)
            BY <2>7, <3>1, SubshellFacts
        <3> QED
            BY <2>6, <2>8, <3>2 DEF Level
    <2>10. FrameOK(st2, n + 1)
        BY <2>4, <2>5, <2>7, RedirectionsFacts DEF FrameOK
    <2>11. MadeFrom(h, stack, n, f, d)
        BY <2>4, <2>5, <2>6 DEF MadeFrom
    <2>12. \E h2 : Ledger(h2, st2, u)
        <3>1. WellFormed(stack) /\ Outer(h, stack)
            BY <2>6
        <3> QED
            BY ONLY <2>3, <2>9, <2>10, <2>11, <3>1, WithInnermost
    <2>13. SameStreams(d, u)
        BY <2>8, HeldStreams DEF SameStreams, Standard
    <2> DEFINE pipe == NoRaw
    <2>14. f.pipe = pipe /\ (f.first => pipe = NoRaw) /\ f.kind \notin {"group", "stage"} /\ pipe = NoRaw
        BY <2>4, <2>5
    <2> HIDE DEF pipe
    <2>15. IsStack(stack) /\ Framed(stack) /\ ~InPipelineOf(stack)
        BY LedgerStack, InPipelineFacts DEF Steady, EnterSubshell
    <2>16. ForNext(st2, pipe) /\ SaysSame(stack, st2)
        BY <2>3, <2>14, <2>15, EnteredForNext
    <2>17. Handed(u, pipe)
        BY <2>14 DEF Handed
    <2> QED
        BY <2>1, <2>12, <2>13, <2>16, <2>17, StillSteady
<1> QED
    BY <1>2, <1>3

LEMMA LeaveSubshellSound ==
    ASSUME NEW h, Ledger(h, stack, d), Steady(stack, d), LeaveSubshell
    PROVE  Sound(stack', d')
<1> DEFINE F == Front(stack)
           m == Len(F)
           f == Last(stack)
           n == m + 1
           a == h[n]
<1>1. F = Front(stack) /\ m = Len(F) /\ f = Last(stack) /\ a = h[n]
    OBVIOUS
<1>2. stack # <<>> /\ f.kind = "subshell" /\ f = Top
    BY TopFacts DEF LeaveSubshell
<1>3. d' = [clear(d) EXCEPT !.fds = f.fds, !.saved_fds = f.saved_fds] /\ stack' = F
    BY <1>2 DEF LeaveSubshell
<1> HIDE DEF F, f
<1>4. /\ WellFormed(F) /\ Outer(h, F)
      /\ Len(stack) \in Nat /\ Len(F) \in Nat /\ Len(stack) = Len(F) + 1
      /\ \A i \in 1..Len(F) : stack[i] = F[i]
      /\ Last(stack) = stack[Len(stack)]
      /\ FrameOK(stack, Len(stack))
    <2>1. WellFormed(stack) /\ Outer(h, stack) /\ stack # <<>> /\ F = Front(stack)
        BY <1>1, <1>2 DEF Ledger
    <2> QED
        BY ONLY <2>1, WithoutInnermost
<1>5. m \in Nat /\ Len(stack) = n /\ n \in 1..Len(stack) /\ n - 1 = m /\ stack[n] = f
    BY <1>1, <1>4
<1>6. Level(a, stack, n, d)
    BY <1>1, <1>5 DEF Ledger
<1>7. Level(h[m], stack, m, a) /\ f.fds = a.fds /\ f.saved_fds = a.saved_fds
    BY <1>1, <1>2, <1>5 DEF Ledger, Outer
<1>8. Own(stack, n) = {} /\ Pipes(stack, n) = {}
    <2>1. stack[m + 1].kind = "subshell"
        BY <1>2, <1>5
    <2> QED
        BY <1>5, <2>1, SubshellFacts
<1> HIDE DEF m, a
<1>9. Held(a, d, {}, {}) /\ d.child = NoChild
    BY <1>6, <1>8 DEF Level
<1>10. d' = BackTo(a, d)
    BY <1>3, <1>7 DEF BackTo
<1>11. /\ IsState(d') /\ d'.open = a.open /\ d'.cloexec = a.cloexec
       /\ d'.fds = a.fds /\ d'.saved_fds = a.saved_fds /\ d'.child = d.child
    BY <1>9, <1>10, ParentAgain
<1>12. Level(h[m], stack, m, d')
    <2> DEFINE own == Own(stack, m)
               lent == Pipes(stack, m)
               b == h[m]
    <2>1. Held(b, a, own, lent)
        BY <1>7 DEF Level
    <2>2. Files(d') = Files(a) /\ \A fd \in Files(a) : d'.fds[fd].raw = a.fds[fd].raw
        BY <1>11 DEF Files
    <2> HIDE DEF own, lent, b
    <2>3. Held(b, d', own, lent)
        BY <1>11, <2>1, <2>2, HeldSame
    <2> QED
        BY <1>7, <1>9, <1>11, <2>3 DEF Level, own, lent, b
<1>13. Level(h[m], F, m, d')
    <2>1. \A i \in 1..m : F[i] = stack[i]
        BY <1>1, <1>4
    <2> QED
        BY <1>5, <1>12, <2>1, SamePrefix
<1>14. Ledger(h, F, d')
    BY <1>1, <1>4, <1>13 DEF Ledger
<1>15. SameStreams(d, d')
    BY <1>9, <1>11, HeldStreams DEF SameStreams, Standard
<1>16. ForNext(F, NoRaw) /\ SaysSame(stack, F)
    <2>1. IsStack(stack) /\ Framed(stack)
        BY LedgerStack DEF Steady
    <2> QED
        BY <1>1, <1>2, <2>1, LeftForNext
<1> QED
    BY <1>3, <1>14, <1>15, <1>16, NothingHanded, StillSteady

\* Around a pipeline that has no pipe.
LEMMA AroundPipeline ==
    ASSUME NEW st, NEW n \in Nat, NEW st2, \A i \in 1..n : st2[i] = st[i],
           NEW f, f = st2[n + 1], f.kind = "pipeline", f.pipe = NoRaw
    PROVE  /\ Copying(st2, n + 1) <=> Copying(st, n)
           /\ Pipes(st2, n + 1) = Pipes(st, n)
           /\ OneEach(st2, n + 1) <=> OneEach(st, n)
<1>1. st2[n + 1].kind # "subshell" /\ ~HasCopies(st2[n + 1])
    BY DEF HasCopies
<1>2. /\ Copying(st2, n + 1) <=> Copying(st, n) \/ HasCopies(st2[n + 1])
      /\ \A p : p \in Pipes(st2, n + 1) <=> p \in Pipes(st, n) \/ (p = st2[n + 1].pipe /\ p # NoRaw)
      /\ OneEach(st2, n + 1) <=> OneEach(st, n) /\ ~(HasCopies(st2[n + 1]) /\ Copying(st, n)) /\ st2[n + 1].pipe \notin Pipes(st, n)
    BY <1>1, InnermostFacts
<1>3. NoRaw \notin Pipes(st, n)
    BY NoRawFacts
<1> QED
    BY <1>1, <1>2, <1>3

\* The input of a stage is taken from its pipeline.
LEMMA AppendedFacts ==
    ASSUME NEW F, WellFormed(F), NEW m, m = Len(F), NEW g, NEW st, st = Append(F, g)
    PROVE  /\ Len(st) = m + 1 /\ m \in Nat /\ st[m + 1] = g /\ \A i \in 1..m : st[i] = F[i]
<1>1. Len(st) = m + 1 /\ m \in Nat /\ st[m + 1] = g /\ \A i \in 1..m : st[i] = F[i]
    <2>1. PICK S : F \in Seq(S)
        BY DEF WellFormed
    <2>2. Len(F) \in Nat /\ Len(st) = Len(F) + 1 /\ st[Len(F) + 1] = g /\ \A i \in 1..Len(F) : st[i] = F[i]
        BY <2>1, AppendFacts
    <2> QED
        BY <2>2
<1> QED
    BY <1>1

LEMMA TakesInput ==
    ASSUME NEW h, NEW F, WellFormed(F), Outer(h, F), NEW m, m = Len(F), NEW a, a = h[m],
           NEW g, IsFrame(g), Len(g.redirections) \in Nat, g.kind = "pipeline", g.pipe = NoRaw,
           NEW u, Inside(a, F, m, NoRaw, u), NEW st, st = Append(F, g)
    PROVE  \E h2 : Ledger(h2, st, u) /\ MadeIn(h2, m, a)
<1>1. Len(st) = m + 1 /\ m \in Nat /\ st[m + 1] = g /\ \A i \in 1..m : st[i] = F[i]
    BY AppendedFacts
<1>2. Level(a, st, m + 1, u)
    <2>1. g.kind # "subshell" /\ ~HasCopies(g) /\ g = st[m + 1] /\ \A i \in 1..m : st[i] = F[i]
        BY <1>1 DEF HasCopies
    <2>2. Inside(a, F, m, g.pipe, u)
        OBVIOUS
    <2>3. Level(a, st, m + 1, u) <=> Inside(a, F, m, g.pipe, u)
        BY <1>1, <2>1, InnermostLevel
    <2> QED
        BY <2>2, <2>3
<1>3. FrameOK(st, m + 1)
    BY <1>1 DEF FrameOK
<1>4. MadeFrom(h, F, m, g, a)
    BY DEF MadeFrom, HasCopies
<1> QED
    BY <1>2, <1>3, <1>4, InnermostFrom

\* The stage has the copies, and its input is its own.
LEMMA EntersStage ==
    ASSUME NEW h, NEW F, WellFormed(F), Outer(h, F), NEW m, m = Len(F), NEW a, a = h[m],
           NEW g, IsFrame(g), Len(g.redirections) \in Nat, g.kind = "pipeline", g.pipe = NoRaw,
           NEW v, Inside(a, F, m, NoRaw, v), NEW st, st = Append(F, g), Fits(st, m + 1, a),
           NEW f, IsFrame(f), Len(f.redirections) \in Nat, f.kind = "stage",
           NEW u, InsideCopies(a, F, m, f.pipe, u), NEW st2, st2 = Append(st, f)
    PROVE  \E h2 : Ledger(h2, st2, u)
<1>1. /\ WellFormed(F) /\ Outer(h, F) /\ m = Len(F) /\ a = h[m]
      /\ IsFrame(g) /\ Len(g.redirections) \in Nat /\ g.kind = "pipeline" /\ g.pipe = NoRaw
      /\ Inside(a, F, m, NoRaw, v) /\ st = Append(F, g)
    OBVIOUS
<1>2. \E h2 : Ledger(h2, st, v) /\ MadeIn(h2, m, a)
    BY ONLY <1>1, TakesInput
<1>3. /\ Len(st) = m + 1 /\ m \in Nat /\ st[m + 1] = g /\ \A i \in 1..m : st[i] = F[i]
      /\ st # <<>> /\ Last(st) = g
    <2>1. Len(st) = m + 1 /\ m \in Nat /\ st[m + 1] = g /\ \A i \in 1..m : st[i] = F[i]
        BY ONLY <1>1, AppendedFacts
    <2>2. st # <<>> /\ Last(st) = g
        BY ONLY <2>1 DEF Last
    <2> QED
        BY <2>1, <2>2
<1>4. PICK h2 : Ledger(h2, st, v) /\ MadeIn(h2, m, a)
    BY <1>2
<1> DEFINE n == m + 1
<1>5. a = h2[n] /\ n = Len(st)
    BY <1>3, <1>4 DEF MadeIn
<1>6. /\ Copying(st, n) <=> Copying(F, m)
      /\ Pipes(st, n) = Pipes(F, m)
      /\ OneEach(st, n) <=> OneEach(F, m)
    <2>1. m \in Nat /\ (\A i \in 1..m : st[i] = F[i]) /\ g = st[m + 1] /\ g.kind = "pipeline" /\ g.pipe = NoRaw
        BY <1>1, <1>3
    <2> QED
        BY ONLY <2>1, AroundPipeline
<1>7. WellFormed(st) /\ Outer(h2, st)
    BY <1>4 DEF Ledger
<1>71. Fits(st, n, a)
    OBVIOUS
<1> HIDE DEF n
<1>8. InsideCopies(a, st, n, f.pipe, u)
    BY <1>6 DEF InsideCopies
<1>9. f.kind # "subshell" /\ HasCopies(f) /\ f.kind \notin {"group", "captured"}
    BY DEF HasCopies
<1>10. st # <<>> /\ Last(st).kind = "pipeline" /\ Last(st).pipe = NoRaw
    BY <1>3
<1> QED
    BY <1>5, <1>7, <1>71, <1>8, <1>9, <1>10, Enters

WithPipe(f, pipe) == [f EXCEPT !.pipe = pipe]
WithLast(f, last) == [f EXCEPT !.last = last]
Stage(f, first, pipe, last, capture) ==
    [f EXCEPT !.first = first, !.pipe = pipe, !.last = last, !.capture = capture]

LEMMA PipeFields ==
    ASSUME NEW f, IsFrame(f), NEW pipe, NEW g, g = WithPipe(f, pipe)
    PROVE  IsFrame(g) /\ g.kind = f.kind /\ g.redirections = f.redirections /\ g.pipe = pipe /\ g.first = f.first
BY DEF IsFrame, WithPipe

LEMMA StageFields ==
    ASSUME NEW f, IsFrame(f), NEW first, NEW pipe, NEW last, NEW capture, NEW g, g = Stage(f, first, pipe, last, capture)
    PROVE  IsFrame(g) /\ g.kind = f.kind /\ g.redirections = f.redirections /\ g.pipe = pipe /\ g.first = first
<1> DEFINE e1 == WithFirst(f, first)
           e2 == WithPipe(e1, pipe)
           e3 == WithLast(e2, last)
<1>1. g = WithCapture(e3, capture)
    BY DEF IsFrame, Stage, WithFirst, WithPipe, WithLast, WithCapture
<1>2. IsFrame(e1) /\ e1.kind = f.kind /\ e1.redirections = f.redirections /\ e1.first = first
    BY DEF IsFrame, WithFirst
<1> HIDE DEF e1
<1>3. IsFrame(e2) /\ e2.kind = f.kind /\ e2.redirections = f.redirections /\ e2.pipe = pipe /\ e2.first = first
    BY <1>2, PipeFields
<1> HIDE DEF e2
<1>4. IsFrame(e3) /\ e3.kind = f.kind /\ e3.redirections = f.redirections /\ e3.pipe = pipe /\ e3.first = first
    BY <1>3 DEF IsFrame, WithLast
<1> HIDE DEF e3
<1> QED
    BY <1>1, <1>4, CaptureFields

\* The input of a stage is its pipeline's pipe, or a file of its own.
LEMMA InputHeld ==
    ASSUME NEW a, NEW st, NEW n, NEW pipe, Inside(a, st, n, pipe, d), ~Copying(st, n), NEW null, null \in BOOLEAN,
           null => pipe = NoRaw, NEW input, input = IF null THEN Handle(d) ELSE pipe,
           NEW s, s = IF null THEN Opened(d, "null") ELSE d, NEW rest, rest = Pipes(st, n)
    PROVE  /\ Held(a, s, {}, LentWith(rest, input)) /\ input \notin rest
           /\ s.fds = d.fds /\ s.saved_fds = d.saved_fds /\ s.child = NoChild
<1> DEFINE none == {}
           lent == LentWith(rest, pipe)
<1>1. Held(a, d, none, lent) /\ pipe \notin rest /\ d.child = NoChild
    BY DEF Inside, Own
<1>2. CASE ~null
    BY <1>1, <1>2
<1>3. CASE null
    <2>1. lent = LentWith(rest, pipe) /\ s = Opened(d, "null") /\ input = Lowest(d.open) /\ pipe = NoRaw
        BY <1>3 DEF Handle
    <2> HIDE DEF none, lent
    <2>2. /\ Held(a, s, none, LentWith(LentWith(rest, input), pipe))
          /\ input \notin rest
          /\ s.fds = d.fds /\ s.saved_fds = d.saved_fds /\ s.child = d.child
        BY <1>1, <2>1, OpensPipe
    <2>3. LentWith(LentWith(rest, input), pipe) = LentWith(rest, input)
        BY <2>1, LentFacts
    <2> QED
        BY <1>1, <2>2, <2>3 DEF none
<1> QED
    BY <1>2, <1>3

\* The shell's input becomes the stage's.
LEMMA StageInput ==
    ASSUME IsStack(stack), Steady(stack, d), InPipelineOf(stack), Top = Last(stack),
           NEW null, null = (Top.pipe = NoRaw /\ ~Top.first /\ stdin_override = NoRaw),
           NEW input, input = IF null THEN Handle(d) ELSE Top.pipe, Handle(d) # NoRaw,
           NEW s, s = IF null THEN Opened(d, "null") ELSE d, IsState(d), SameStreams(d, s),
           NEW before, before = StreamsOf(stack, Len(stack)),
           NEW piped, piped = WithInput(before, Top.first)
    PROVE  /\ Standard \subseteq DOMAIN piped
           /\ \A fd \in Standard : Agrees(Hooked(s, input)[fd], piped[fd])
<1>1. Meant(stack, Len(stack))
    <2>1. Len(stack) \in Nat
        BY LastOf
    <2>2. Len(stack) \in 0..Len(stack)
        BY <2>1
    <2> QED
        BY <2>2 DEF Steady, Framed
<1>2. /\ Standard \subseteq DOMAIN before
      /\ HasInput(stack, Len(stack)) => before[0] = "pipe"
    BY <1>1 DEF Meant
<1>3. /\ Standard \subseteq DOMAIN piped
      /\ piped[0] = IF Top.first THEN before[0] ELSE "pipe"
      /\ \A fd \in Standard : fd # 0 => piped[fd] = before[fd]
    BY <1>2, PipedFacts
<1>4. \A fd \in Standard : s.open[fd] = d.open[fd] /\ Agrees(d.open[fd], before[fd])
    BY DEF SameStreams, Steady, Fits
<1>5. /\ Top.first => Top.pipe = NoRaw
      /\ Top.pipe # NoRaw => d.open[Top.pipe] = "pipe"
    BY DEF Steady, NextInput
<1>6. 0 \in Standard
    BY DEF Standard
<1>7. ASSUME NEW fd \in Standard, fd # 0
      PROVE  Agrees(Hooked(s, input)[fd], piped[fd])
    <2>1. Hooked(s, input)[fd] = s.open[fd]
        BY <1>7 DEF Hooked
    <2> QED
        BY <1>3, <1>4, <1>7, <2>1
<1>8. Hooked(s, input)[0] = IF input # NoRaw THEN s.open[input] ELSE s.open[0]
    BY <1>6 DEF Hooked
<1>9. Agrees(Hooked(s, input)[0], piped[0])
    <2>1. CASE Top.first
        <3>1. input = NoRaw
            BY <1>5, <2>1
        <3> QED
            BY <1>3, <1>4, <1>6, <1>8, <2>1, <3>1
    <2>2. CASE null
        <3>1. s.open = With(d.open, Handle(d), "null")
            BY <2>2, OpenedFields DEF Handle
        <3>2. s.open[Handle(d)] = "null"
            BY <3>1 DEF With
        <3>3. Hooked(s, input)[0] = "null" /\ piped[0] = "pipe"
            BY <1>3, <1>8, <2>2, <3>2
        <3> QED
            BY <3>3 DEF Agrees
    <2>3. CASE ~Top.first /\ Top.pipe # NoRaw
        <3>1. Hooked(s, input)[0] = "pipe" /\ piped[0] = "pipe"
            BY <1>3, <1>5, <1>8, <2>3
        <3> QED
            BY <3>1 DEF Agrees
    <2>4. CASE ~Top.first /\ Top.pipe = NoRaw /\ stdin_override # NoRaw
        <3>1. before[0] = "pipe"
            BY <1>2, <2>4, OverrideFacts
        <3>2. Hooked(s, input)[0] = s.open[0] /\ piped[0] = before[0]
            BY <1>3, <1>8, <2>4, <3>1
        <3> QED
            BY <1>4, <1>6, <3>2
    <2> QED
        BY <2>1, <2>2, <2>3, <2>4
<1> QED
    BY <1>3, <1>7, <1>9

LEMMA EnterStageSound ==
    ASSUME NEW h, Ledger(h, stack, d), Steady(stack, d), EnterStage, ~Lost(event'.redirections), ~Stays
    PROVE  Sound(stack', d')
<1>1. PICK rs \in Redirections, last \in Lasts :
          LET null == Top.pipe = NoRaw /\ ~Top.first /\ stdin_override = NoRaw
              input == IF null THEN Handle(d) ELSE Top.pipe
              s == IF null THEN Opened(d, "null") ELSE d
              taken == Append(Front(stack), [Top EXCEPT !.pipe = NoRaw])
              frame == [Frame("stage", rs) EXCEPT !.first = Top.first,
                          !.pipe = input, !.last = last,
                          !.capture = (~last \/ Capturing) /\ ~has_stdout_redirection(rs)]
          IN \E prepared \in Prepared(s, rs, input) :
                /\ d' = IF prepared.ok THEN prepared.s ELSE Close(prepared.s, {input} \ {NoRaw})
                /\ stack' = IF prepared.ok THEN Append(taken, frame) ELSE AfterStage(stack, last, NoRaw)
                /\ event' = Event("stage", rs, prepared.ok, last, NotSeen)
    BY DEF EnterStage
<1> DEFINE null == Top.pipe = NoRaw /\ ~Top.first /\ stdin_override = NoRaw
           input == IF null THEN Handle(d) ELSE Top.pipe
           s == IF null THEN Opened(d, "null") ELSE d
           F == Front(stack)
           m == Len(F)
           a == h[m]
           g == WithPipe(Top, NoRaw)
           taken == Append(F, g)
           e == Frame("stage", rs)
           capture == (~last \/ Capturing) /\ ~has_stdout_redirection(rs)
           f == Stage(e, Top.first, input, last, capture)
           rest == Pipes(F, m)
           lent == LentWith(rest, input)
<1>2. PICK prepared \in Prepared(s, rs, input) :
         /\ d' = IF prepared.ok THEN prepared.s ELSE Close(prepared.s, {input} \ {NoRaw})
         /\ stack' = IF prepared.ok THEN Append(taken, f) ELSE AfterStage(stack, last, NoRaw)
         /\ event' = Event("stage", rs, prepared.ok, last, NotSeen)
    BY <1>1, Zenon DEF WithPipe, Stage
<1>3. \E ok, seen : event' = Event("stage", rs, ok, last, seen)
    BY <1>2, Zenon
<1>4. event'.kind = "stage" /\ event'.redirections = rs
    BY <1>3, EventFields
<1>5. ~CopiesInUse /\ ~LostByConstruct(rs)
    BY <1>4 DEF Stays, StaysChanged, Saves, Lost
<1>6. Len(rs) \in Nat /\ \A i \in 1..Len(rs) : Plain(rs[i])
    BY <1>5, RedirectionsFacts, ConstructPlain
<1>7. InPipeline
    BY DEF EnterStage
<1>8. F = Front(stack) /\ m = Len(F) /\ a = h[m]
    OBVIOUS
<1>9. null \in BOOLEAN /\ (null => Top.pipe = NoRaw) /\ (input = IF null THEN Handle(d) ELSE Top.pipe)
      /\ (s = IF null THEN Opened(d, "null") ELSE d) /\ rest = Pipes(F, m) /\ lent = LentWith(rest, input)
    OBVIOUS
<1>10. taken = Append(F, g)
    OBVIOUS
<1>25. null = (Top.pipe = NoRaw /\ ~Top.first /\ stdin_override = NoRaw)
    OBVIOUS
<1> HIDE DEF F, m, a, null
<1>11. /\ Top.kind = "pipeline" /\ IsFrame(Top) /\ Len(Top.redirections) \in Nat
       /\ WellFormed(F) /\ Outer(h, F) /\ m \in Nat
       /\ Inside(a, F, m, Top.pipe, d)
    BY <1>7, <1>8, PipelineFacts
<1>12. ~Copying(F, m)
    <2> DEFINE n == Len(stack)
    <2>1. n = Len(stack)
        OBVIOUS
    <2> HIDE DEF n
    <2> QED
        BY <1>5, <1>7, <1>8, <2>1, NoCopiesFacts
<1>26. Held(a, d, {}, LentWith(Pipes(F, m), Top.pipe))
    BY <1>11, <1>12 DEF Inside, Own
<1>24. Fits(taken, m + 1, a)
    <2> HIDE DEF g, input, s, rest, lent, taken, e, capture
    <2>1. \A fd \in Standard : a.open[fd] = d.open[fd]
        BY <1>26, HeldStreams DEF Standard
    <2>2. WellFormed(stack) /\ Outer(h, stack) /\ stack # <<>> /\ Top = Last(stack)
        BY <1>7, PipelineFacts DEF Ledger
    <2>3. /\ Len(stack) = m + 1 /\ m \in Nat /\ (\A i \in 1..m : stack[i] = F[i]) /\ stack[m + 1] = Top
        <3>0. WellFormed(stack) /\ Outer(h, stack) /\ stack # <<>> /\ F = Front(stack)
            BY <1>8, <2>2
        <3>1. /\ WellFormed(F) /\ Outer(h, F)
              /\ Len(stack) \in Nat /\ Len(F) \in Nat /\ Len(stack) = Len(F) + 1
              /\ \A i \in 1..Len(F) : stack[i] = F[i]
              /\ Last(stack) = stack[Len(stack)]
              /\ FrameOK(stack, Len(stack))
            BY ONLY <3>0, WithoutInnermost
        <3> QED
            BY ONLY <1>8, <2>2, <3>1
    <2>4. Len(taken) = m + 1 /\ taken[m + 1] = g /\ \A i \in 1..m : taken[i] = F[i]
        BY ONLY <1>8, <1>10, <1>11, AppendedFacts
    <2>5. g.kind = "pipeline" /\ stack[m + 1].kind = "pipeline"
        BY <1>11, <2>3, PipeFields DEF g
    <2>6. PICK S : stack \in Seq(S)
        BY <2>2 DEF WellFormed
    <2>7. PICK T : taken \in Seq(T)
        <3>1. PICK S2 : F \in Seq(S2)
            BY <1>11 DEF WellFormed
        <3> QED
            BY <1>10, <3>1, AppendFacts
    <2>8. Fits(taken, m + 1, d)
        <3>1. Fits(stack, m + 1, d)
            BY <2>3 DEF Steady
        <3>2. /\ m + 1 <= Len(stack) /\ m + 1 <= Len(taken) /\ \A i \in 1..m : taken[i] = stack[i]
              /\ stack[m + 1].kind \notin {"group", "stage"} /\ taken[m + 1].kind \notin {"group", "stage"}
            BY <2>3, <2>4, <2>5
        <3> QED
            BY ONLY <1>11, <2>6, <2>7, <3>1, <3>2, FitsAround
    <2> QED
        BY ONLY <2>1, <2>8, FitsSame
<1> HIDE DEF input, s, rest
<1>13. /\ Held(a, s, {}, LentWith(rest, input)) /\ input \notin rest
       /\ s.fds = d.fds /\ s.saved_fds = d.saved_fds /\ s.child = NoChild
    BY ONLY <1>9, <1>11, <1>12, InputHeld
<1> HIDE DEF lent, taken, e, capture
<1>14. /\ Held(a, s, {}, lent)
       /\ DOMAIN s.fds \subseteq Standard /\ DOMAIN s.saved_fds \subseteq Standard
       /\ OneEach(F, m) /\ Own(F, m) = {}
       /\ Untouched(F, m) => d.fds = <<>> /\ d.saved_fds = <<>>
    BY <1>9, <1>11, <1>12, <1>13 DEF Inside, Own
<1>15. input = NoRaw \/ input \in lent
    BY <1>9 DEF LentWith, Plus
<1>16. prepared \in Prepared(s, rs, input)
    OBVIOUS
<1>17. /\ prepared.s.child = s.child
       /\ prepared.ok => /\ Held(a, prepared.s, Standard, lent)
                         /\ DOMAIN prepared.s.fds \subseteq Standard
                         /\ DOMAIN prepared.s.saved_fds = Standard
       /\ ~prepared.ok => /\ Held(a, prepared.s, {}, lent)
                          /\ prepared.s.fds = <<>> /\ prepared.s.saved_fds = <<>>
    BY ONLY <1>6, <1>14, <1>15, <1>16, PreparedKeeps
<1>18. IsFrame(e) /\ e.kind = "stage" /\ e.redirections = rs
    BY FrameFields DEF e
<1>19. IsFrame(g) /\ g.kind = "pipeline" /\ Len(g.redirections) \in Nat /\ g.pipe = NoRaw
    BY <1>11, PipeFields
<1> HIDE DEF g
<1>20. /\ IsFrame(f) /\ f.kind = "stage" /\ Len(f.redirections) \in Nat /\ f.pipe = input
       /\ f.redirections = rs /\ f.first = Top.first
    <2>1. IsFrame(f) /\ f.kind = e.kind /\ f.redirections = e.redirections /\ f.pipe = input /\ f.first = Top.first
        BY <1>18, StageFields
    <2> QED
        BY <1>6, <1>18, <2>1
<1> HIDE DEF f
<1>21. Inside(a, F, m, NoRaw, Close(s, {input} \ {NoRaw}))
    <2> DEFINE v == Close(s, {input} \ {NoRaw})
               none == {}
    <2>1. Held(a, s, none, lent) /\ v = Close(s, {input} \ {NoRaw})
        BY <1>14
    <2> HIDE DEF v, none
    <2>2. Held(a, v, none, rest) /\ v.fds = s.fds /\ v.saved_fds = s.saved_fds /\ v.child = s.child
        <3>1. v = Close(s, {input} \ {NoRaw}) /\ Held(a, s, none, lent)
              /\ input \notin rest /\ lent = LentWith(rest, input)
            BY <1>9, <1>13, <2>1
        <3> QED
            BY ONLY <3>1, ClosesPipe
    <2>3. Held(a, v, Own(F, m), LentWith(Pipes(F, m), NoRaw)) /\ NoRaw \notin Pipes(F, m)
        BY <1>9, <1>14, <2>2, LentFacts, NoRawFacts DEF none
    <2>4. Inside(a, F, m, NoRaw, v)
        BY <1>13, <1>14, <2>2, <2>3 DEF Inside
    <2> QED
        BY <2>4 DEF v
<1>27. IsStack(stack) /\ Framed(stack) /\ InPipelineOf(stack) /\ Top = Last(stack)
    BY <1>7, LedgerStack, InPipelineFacts DEF Steady
<1>22. CASE prepared.ok
    <2>1. d' = prepared.s /\ stack' = Append(taken, f)
        BY <1>2, <1>22
    <2>2. InsideCopies(a, F, m, f.pipe, d')
        BY <1>9, <1>12, <1>13, <1>14, <1>17, <1>20, <1>22, <2>1 DEF InsideCopies
    <2> DEFINE v == Close(s, {input} \ {NoRaw})
    <2>3. Inside(a, F, m, NoRaw, v)
        BY <1>21
    <2> HIDE DEF v
    <2>4. \E h2 : Ledger(h2, stack', d')
        BY ONLY <1>8, <1>10, <1>11, <1>19, <1>20, <1>24, <2>1, <2>2, <2>3, EntersStage
    <2> DEFINE before == StreamsOf(stack, Len(stack))
               piped == WithInput(before, Top.first)
               after == AllRedirected(piped, rs)
               st2 == stack'
               u == prepared.s
               none == NoRaw
    <2>5. /\ before = StreamsOf(stack, Len(stack)) /\ piped = WithInput(before, Top.first)
          /\ after = AllRedirected(piped, rs)
          /\ st2 = Append(taken, f) /\ u = prepared.s /\ d' = u /\ none = NoRaw
        BY <1>2, <1>22, <2>1
    <2> HIDE DEF before, piped, after, st2, u, none
    <2>6. AgreesWith(u, after)
        <3>1. SameStreams(d, s)
            <4> DEFINE nothing == {}
                       held == LentWith(Pipes(F, m), Top.pipe)
            <4>1. nothing = {} /\ Held(a, d, nothing, held) /\ Held(a, s, nothing, lent)
                BY <1>14, <1>26
            <4> HIDE DEF nothing, held
            <4> QED
                BY ONLY <4>1, StreamsBetween
        <3>2. Handle(d) # NoRaw /\ IsState(d)
            <4>1. Handle(d) \in Nat
                BY <1>26, FreshNumber DEF Handle
            <4>2. IsState(d)
                BY <1>26 DEF Held, KernelOK
            <4> QED
                BY <4>1, <4>2 DEF NoRaw
        <3>3. /\ Standard \subseteq DOMAIN piped
              /\ \A fd \in Standard : Agrees(Hooked(s, input)[fd], piped[fd])
            BY <1>9, <1>25, <1>27, <2>5, <3>1, <3>2, StageInput
        <3>4. /\ Held(a, s, {}, lent) /\ DOMAIN s.fds \subseteq Standard /\ DOMAIN s.saved_fds \subseteq Standard
              /\ Len(rs) \in Nat /\ DOMAIN rs = 1..Len(rs) /\ \A i \in 1..Len(rs) : Plain(rs[i])
              /\ (input = NoRaw \/ input \in lent)
              /\ prepared \in Prepared(s, rs, input) /\ prepared.ok
            BY <1>6, <1>14, <1>15, <1>16, <1>22, SequenceDomain
        <3>5. AgreesWith(prepared.s, AllRedirected(piped, rs))
            BY ONLY <3>3, <3>4, PreparedStreams
        <3> QED
            BY <2>5, <3>5
    <2>7. IsStack(st2) /\ Framed(st2) /\ ~InPipelineOf(st2) /\ Fits(st2, Len(st2), u)
        <3>1. Top.first => f.pipe = NoRaw
            <4>1. Top.first => Top.pipe = NoRaw
                BY <1>27 DEF Steady, NextInput
            <4> QED
                BY <1>9, <1>20, <1>25, <4>1
        <3>2. taken = Append(Front(stack), g) /\ rs \in Redirections
            BY <1>8, <1>10
        <3> QED
            BY ONLY <1>5, <1>19, <1>20, <1>27, <2>5, <2>6, <3>1, <3>2, StageFits
    <2>8. ForNext(st2, none) /\ Handed(u, none)
        BY <2>5, <2>7 DEF ForNext, Handed
    <2>9. \E h2 : Ledger(h2, st2, u)
        BY <2>4, <2>5 DEF st2
    <2>10. Sound(st2, u)
        BY <2>7, <2>8, <2>9, SteadyAgain
    <2> QED
        BY <2>5, <2>10 DEF st2
<1>23. CASE ~prepared.ok
    <2> DEFINE none == {}
               w == prepared.s
    <2>1. d' = Close(w, {input} \ {NoRaw}) /\ stack' = AfterStage(stack, last, NoRaw)
        BY <1>2, <1>23
    <2>2. Held(a, w, none, lent) /\ w.fds = <<>> /\ w.saved_fds = <<>> /\ w.child = NoChild
        BY <1>13, <1>17, <1>23
    <2> HIDE DEF none, w
    <2>3. Held(a, d', none, rest) /\ d'.fds = w.fds /\ d'.saved_fds = w.saved_fds /\ d'.child = w.child
        <3>1. d' = Close(w, {input} \ {NoRaw}) /\ Held(a, w, none, lent)
              /\ input \notin rest /\ lent = LentWith(rest, input)
            BY <1>9, <1>13, <2>1, <2>2
        <3> QED
            BY ONLY <3>1, ClosesPipe
    <2>4. Held(a, d', Own(F, m), LentWith(Pipes(F, m), NoRaw)) /\ NoRaw \notin Pipes(F, m)
        BY <1>9, <1>14, <2>3, LentFacts, NoRawFacts DEF none
    <2>5. Inside(a, F, m, NoRaw, d')
        BY <1>14, <2>2, <2>3, <2>4 DEF Inside
    <2>6. SameStreams(d, d')
        <3> DEFINE nothing == {}
                   held == LentWith(Pipes(F, m), Top.pipe)
        <3>1. nothing = {} /\ Held(a, d, nothing, held) /\ Held(a, d', nothing, rest)
            BY <1>26, <2>3 DEF none
        <3> HIDE DEF nothing, held
        <3> QED
            BY ONLY <3>1, StreamsBetween
    <2> QED
        BY <1>7, <1>8, <2>1, <2>5, <2>6, NothingHanded, StageEnds
<1> QED
    BY <1>22, <1>23

\* A stage is left: what there is around its pipeline.
AroundStage(h, F, G) ==
    /\ WellFormed(G) /\ Outer(h, G) /\ Len(G) \in Nat
    /\ IsFrame(Last(F)) /\ Len(Last(F).redirections) \in Nat
    /\ h[Len(G)] = h[Len(F)]
    /\ Copying(F, Len(F)) <=> Copying(G, Len(G))
    /\ Pipes(F, Len(F)) = Pipes(G, Len(G))
    /\ OneEach(F, Len(F)) <=> OneEach(G, Len(G))

LEMMA PipelineOf ==
    ASSUME NEW h, NEW F, WellFormed(F), Outer(h, F), F # <<>>, Last(F).kind = "pipeline", Last(F).pipe = NoRaw
    PROVE  AroundStage(h, F, Front(F))
<1> DEFINE g == Last(F)
           G == Front(F)
           m == Len(F)
           k == Len(G)
<1>1. /\ g = Last(F) /\ G = Front(F) /\ m = Len(F) /\ k = Len(G)
      /\ g.kind = "pipeline" /\ g.pipe = NoRaw
    OBVIOUS
<1> HIDE DEF g, G, m, k
<1>2. /\ WellFormed(G) /\ Outer(h, G)
      /\ Len(F) \in Nat /\ Len(G) \in Nat /\ Len(F) = Len(G) + 1
      /\ \A i \in 1..Len(G) : F[i] = G[i]
      /\ Last(F) = F[Len(F)]
      /\ FrameOK(F, Len(F))
    <2>1. WellFormed(F) /\ Outer(h, F) /\ F # <<>> /\ G = Front(F)
        BY <1>1
    <2> QED
        BY ONLY <2>1, WithoutInnermost
<1>3. k \in Nat /\ m = k + 1 /\ (\A i \in 1..k : F[i] = G[i]) /\ g = F[k + 1]
    BY <1>1, <1>2
<1>4. IsFrame(g) /\ Len(g.redirections) \in Nat
    BY <1>1, <1>2, <1>3 DEF FrameOK
<1>5. h[k] = h[m]
    <2>1. m \in 1..Len(F) /\ m - 1 = k /\ F[m].kind # "subshell"
        BY <1>1, <1>2, <1>3
    <2> QED
        BY <2>1 DEF Outer
<1>6. /\ Copying(F, k + 1) <=> Copying(G, k)
      /\ Pipes(F, k + 1) = Pipes(G, k)
      /\ OneEach(F, k + 1) <=> OneEach(G, k)
    BY ONLY <1>3, AroundPipeline, <1>1
<1> QED
    BY <1>1, <1>2, <1>3, <1>4, <1>5, <1>6 DEF AroundStage

LEMMA LeaveStageSound ==
    ASSUME NEW h, Ledger(h, stack, d), Steady(stack, d), LeaveStage
    PROVE  Sound(stack', d')
<1> DEFINE F == Front(stack)
           m == Len(F)
           a == h[m]
           f == Last(stack)
           pipe == f.pipe
           rest == Pipes(F, m)
           lent == LentWith(rest, pipe)
           none == {}
<1>1. F = Front(stack) /\ m = Len(F) /\ a = h[m] /\ f = Last(stack)
    OBVIOUS
<1>2. stack # <<>> /\ f.kind = "stage"
    BY TopFacts DEF LeaveStage
<1>3. PICK back \in Orders(d.saved_fds) :
         LET s == restore_all_fds(d, back).s
             feeds == Top.capture /\ ~Top.last
         IN /\ d' = Close(IF feeds THEN Opened(s, "pipe") ELSE s, {Top.pipe} \ {NoRaw})
            /\ stack' = AfterStage(Front(stack), Top.last, IF feeds THEN Lowest(s.open) ELSE NoRaw)
    BY DEF LeaveStage
<1> DEFINE s == restore_all_fds(d, back).s
           next == Lowest(s.open)
<1>4. \/ d' = Close(s, {pipe} \ {NoRaw}) /\ stack' = AfterStage(F, f.last, NoRaw)
      \/ ~f.last /\ d' = Close(Opened(s, "pipe"), {pipe} \ {NoRaw}) /\ stack' = AfterStage(F, f.last, next)
    <2>1. Top = f
        BY <1>2, TopFacts
    <2> QED
        BY <1>3, <2>1
<1>5. pipe = f.pipe /\ lent = LentWith(rest, pipe) /\ s = restore_all_fds(d, back).s /\ next = Lowest(s.open)
    OBVIOUS
<1> HIDE DEF F, m, a, f, s, next
<1>6. f.kind # "subshell" /\ HasCopies(f)
    BY <1>2 DEF HasCopies
<1>7. /\ WellFormed(F) /\ Outer(h, F)
      /\ f.kind = "stage" => F # <<>> /\ Last(F).kind = "pipeline" /\ Last(F).pipe = NoRaw
      /\ HasCopies(f) => InsideCopies(a, F, m, f.pipe, d)
    BY <1>1, <1>2, <1>6, Innermost
<1>8. InsideCopies(a, F, m, pipe, d)
    BY <1>6, <1>7
<1>9. /\ Held(a, d, Standard, lent) /\ DOMAIN d.saved_fds = Standard /\ pipe \notin rest
      /\ OneEach(F, m) /\ ~Copying(F, m) /\ d.child = NoChild /\ DOMAIN d.fds \subseteq Standard
    BY <1>8, CopiesFacts DEF InsideCopies
<1> HIDE DEF pipe, rest, lent
<1>10. /\ Held(a, s, {}, lent)
       /\ s.saved_fds = <<>>
       /\ \A fd \in DOMAIN s.fds : fd \in DOMAIN d.fds /\ fd \notin Standard
       /\ s.child = d.child
    BY <1>5, <1>9, RestoreAllStandard
<1>11. Held(a, s, none, lent) /\ s.fds = <<>> /\ s.saved_fds = <<>> /\ s.child = NoChild
    <2>1. IsState(s)
        BY <1>10 DEF Held, KernelOK
    <2>2. DOMAIN s.fds = {}
        BY <1>9, <1>10
    <2> QED
        BY <1>9, <1>10, <2>1, <2>2, NoEntries
<1> HIDE DEF none
<1> DEFINE g == Last(F)
           G == Front(F)
           k == Len(G)
           b == h[k]
<1>12. g = Last(F) /\ G = Front(F) /\ k = Len(G) /\ b = h[k]
    OBVIOUS
<1>13. F # <<>> /\ g.kind = "pipeline" /\ g.pipe = NoRaw
    BY <1>2, <1>7
<1> HIDE DEF g, G, k
<1>14. /\ WellFormed(G) /\ Outer(h, G) /\ k \in Nat
       /\ IsFrame(g) /\ Len(g.redirections) \in Nat
       /\ h[k] = h[m]
       /\ Copying(F, m) <=> Copying(G, k)
       /\ Pipes(F, m) = Pipes(G, k)
       /\ OneEach(F, m) <=> OneEach(G, k)
    <2>1. WellFormed(F) /\ Outer(h, F) /\ F # <<>> /\ Last(F).kind = "pipeline" /\ Last(F).pipe = NoRaw
        BY <1>2, <1>7
    <2>2. AroundStage(h, F, Front(F))
        BY ONLY <2>1, PipelineOf
    <2> QED
        BY <1>1, <1>12, <2>2 DEF AroundStage
<1>15. b = a /\ Own(G, k) = {} /\ Pipes(G, k) = rest /\ OneEach(G, k)
    BY <1>1, <1>9, <1>14 DEF Own, rest
<1> HIDE DEF b
\* The pipeline with the next stage's input.
<1>16. ASSUME NEW u, NEW input, input \notin rest, Held(a, u, {}, LentWith(rest, input)),
              u.fds = <<>>, u.saved_fds = <<>>, u.child = NoChild
       PROVE  Inside(b, G, k, input, u)
    BY <1>15, <1>16 DEF Inside
\* The streams that there were before the stage.
<1>19. ASSUME NEW lent2, Held(a, d', none, lent2), NEW last, NEW next2, NEW st2, st2 = AfterStage(F, last, next2)
       PROVE  ForNext(st2, next2) /\ Fits(st2, Len(st2), d')
    <2>1. Fits(F, m, d')
        <3>1. /\ Ledger(h, stack, d) /\ stack # <<>> /\ F = Front(stack) /\ HasCopies(Last(stack))
              /\ m = Len(F) /\ a = h[m] /\ Held(a, d', {}, lent2)
            BY <1>1, <1>2, <1>6, <1>19 DEF none
        <3> QED
            BY ONLY <3>1, FitsBefore
    <2>2. IsStack(F) /\ Framed(F)
        <3>1. IsStack(stack) /\ Framed(stack)
            BY LedgerStack DEF Steady
        <3> QED
            BY <1>1, <1>2, <3>1, FramedFront
    <2>3. InPipelineOf(F) /\ IsFrame(Last(F))
        BY <1>12, <1>13, <1>14 DEF InPipelineOf
    <2>4. ForNext(st2, next2) /\ SaysSame(F, st2)
        BY ONLY <1>19, <2>2, <2>3, StageForNext
    <2>5. Fits(st2, Len(st2), d')
        BY <1>1, <2>1, <2>4 DEF Fits, SaysSame
    <2> QED
        BY <2>4, <2>5
<1>17. CASE d' = Close(s, {pipe} \ {NoRaw}) /\ stack' = AfterStage(F, f.last, NoRaw)
    <2>1. Held(a, d', none, rest) /\ d'.fds = s.fds /\ d'.saved_fds = s.saved_fds /\ d'.child = s.child
        BY ONLY <1>5, <1>9, <1>11, <1>17, ClosesPipe
    <2>2. Held(a, d', {}, LentWith(rest, NoRaw)) /\ NoRaw \notin rest
        BY <2>1, LentFacts, NoRawFacts DEF rest, none
    <2>3. Inside(b, G, k, NoRaw, d')
        BY <1>11, <1>16, <2>1, <2>2
    <2> DEFINE last == f.last
               st2 == stack'
    <2>4. st2 = AfterStage(F, last, NoRaw)
        BY <1>17
    <2> HIDE DEF last, st2
    <2>5. \E h2 : Ledger(h2, st2, d')
        BY ONLY <1>12, <1>13, <1>14, <2>3, <2>4, StageOver
    <2> DEFINE pipe2 == NoRaw
    <2>6. pipe2 = NoRaw /\ st2 = AfterStage(F, last, pipe2)
        BY <2>4
    <2> HIDE DEF pipe2
    <2>7. ForNext(st2, pipe2) /\ Fits(st2, Len(st2), d')
        BY <1>19, <2>1, <2>6
    <2>8. Handed(d', pipe2)
        BY <2>6 DEF Handed
    <2>9. Sound(st2, d')
        BY <2>5, <2>7, <2>8, SteadyAgain
    <2> QED
        BY <2>9 DEF st2
<1>18. CASE ~f.last /\ d' = Close(Opened(s, "pipe"), {pipe} \ {NoRaw}) /\ stack' = AfterStage(F, f.last, next)
    <2> DEFINE v == Opened(s, "pipe")
               rest2 == LentWith(rest, next)
               lent2 == LentWith(rest2, pipe)
    <2>1. v = Opened(s, "pipe") /\ rest2 = LentWith(rest, next) /\ lent2 = LentWith(rest2, pipe)
          /\ d' = Close(v, {pipe} \ {NoRaw})
        BY <1>18
    <2> HIDE DEF v, rest2, lent2
    <2>2. /\ Held(a, v, none, LentWith(LentWith(rest, next), pipe))
          /\ next \notin rest /\ pipe \notin LentWith(rest, next)
          /\ v.fds = s.fds /\ v.saved_fds = s.saved_fds /\ v.child = s.child
        BY <1>5, <1>9, <1>11, <2>1, OpensPipe
    <2>3. Held(a, v, none, lent2) /\ pipe \notin rest2
        BY <2>1, <2>2
    <2>4. Held(a, d', none, rest2) /\ d'.fds = v.fds /\ d'.saved_fds = v.saved_fds /\ d'.child = v.child
        BY <2>1, <2>3, ClosesPipe
    <2>5. Held(a, d', {}, LentWith(rest, next)) /\ next \notin rest
        BY <2>1, <2>2, <2>4 DEF none
    <2>6. Inside(b, G, k, next, d')
        BY <1>11, <1>16, <2>2, <2>4, <2>5
    <2> DEFINE last == f.last
               st2 == stack'
    <2>7. st2 = AfterStage(F, last, next) /\ ~last
        BY <1>18
    <2> HIDE DEF last, st2
    <2>8. \E h2 : Ledger(h2, st2, d')
        BY ONLY <1>12, <1>13, <1>14, <2>6, <2>7, StageOver
    <2>9. ForNext(st2, next) /\ Fits(st2, Len(st2), d')
        BY <1>19, <2>4, <2>7
    <2>10. Handed(d', next)
        <3> DEFINE closed == {pipe} \ {NoRaw}
        <3>1. d' = Close(v, closed) /\ IsState(s)
            BY <1>11, <2>1 DEF Held, KernelOK
        <3> HIDE DEF closed
        <3> QED
            BY <1>5, <2>1, <3>1, PipeHanded
    <2>11. Sound(st2, d')
        BY <2>8, <2>9, <2>10, SteadyAgain
    <2> QED
        BY <2>11 DEF st2
<1> QED
    BY <1>4, <1>17, <1>18

-----------------------------------------------------------------------------
(* The first state, each step, and the last *)

LEMMA AtStartFacts == IsFunction(OpenAtStart) /\ DOMAIN OpenAtStart = Standard \cup Internal
BY DEF OpenAtStart, IsFunction, Standard

LEMMA StartFits ==
    ASSUME NEW t, t.open = OpenAtStart, NEW st, st = <<>>
    PROVE  Steady(st, t)
<1>1. IsStack(st) /\ st \in Seq({}) /\ Len(st) = 0
    BY DEF IsStack
<1>2. StreamsOf(st, 0) = Outside
    BY <1>1, StreamsOfNone
<1>3. Standard \subseteq DOMAIN Outside /\ Outside[0] = "in" /\ Outside[1] = "out" /\ Outside[2] = "err"
    BY DEF Outside, Standard
<1>4. t.open[0] = "in" /\ t.open[1] = "out" /\ t.open[2] = "err"
    BY InternalAssumption DEF OpenAtStart
<1>5. Fits(st, 0, t)
    <2>1. \A fd \in Standard : fd = 0 \/ fd = 1 \/ fd = 2
        BY DEF Standard
    <2> QED
        BY <1>2, <1>3, <1>4, <2>1 DEF Fits, Agrees
<1>6. Meant(st, 0)
    BY <1>2, <1>3 DEF Meant, HasInput
<1>7. Framed(st)
    BY <1>1, <1>6 DEF Framed
<1> QED
    BY <1>1, <1>5, <1>7 DEF Steady, NextInput, InPipelineOf

LEMMA InitSound == Init => Sound(stack, d)
<1> SUFFICES ASSUME Init PROVE Sound(stack, d)
    OBVIOUS
<1> DEFINE nothing == <<>>
<1>1. /\ d = [open |-> OpenAtStart, cloexec |-> Internal, exists |-> Existing,
              fds |-> nothing, saved_fds |-> nothing, child |-> NoChild]
      /\ stack = nothing
    BY DEF Init
<1>2. DOMAIN nothing = {} /\ IsFunction(nothing) /\ Len(nothing) = 0 /\ nothing \in Seq({})
    BY DEF IsFunction
<1>3. nothing = <<>>
    OBVIOUS
<1> HIDE DEF nothing
<1>4. /\ d.open = OpenAtStart /\ d.cloexec = Internal /\ d.fds = nothing /\ d.saved_fds = nothing
      /\ d.child = NoChild /\ IsState(d)
    BY <1>1, <1>2 DEF IsState
<1>5. IsFiniteSet(0..2)
    <2>1. \A k \in Nat : IsFiniteSet(0..k)
        BY FS_Interval
    <2> QED
        BY <2>1
<1>6. IsFiniteSet(DOMAIN d.open) /\ DOMAIN d.open \subseteq Nat
    <2>1. DOMAIN d.open = Standard \cup Internal
        BY <1>4, AtStartFacts
    <2>2. IsFiniteSet(Standard) /\ IsFiniteSet(Internal)
        BY <1>5, InternalAssumption DEF Standard
    <2>3. IsFiniteSet(Standard \cup Internal)
        BY ONLY <2>2, FS_Union
    <2> QED
        BY <2>1, <2>3, InternalAssumption DEF Standard
<1>7. KernelOK(d) /\ Files(d) = {}
    BY <1>2, <1>4, <1>6, AtStartFacts, InternalAssumption DEF KernelOK, Files, Standard
<1>8. Held(d, d, {}, {})
    BY ONLY <1>7, HeldAtFirst
<1> DEFINE h == [i \in {0} |-> d]
<1>9. h[0] = d
    OBVIOUS
<1> HIDE DEF h
<1>10. Own(nothing, 0) = {} /\ Pipes(nothing, 0) = {} /\ OneEach(nothing, 0)
    <2>1. FramesAt(nothing, 0) = {}
        BY DEF FramesAt
    <2> QED
        BY <2>1 DEF Own, Copying, Pipes, OneEach
<1>11. Level(d, nothing, 0, d)
    BY <1>2, <1>3, <1>4, <1>8, <1>10 DEF Level
<1>12. WellFormed(nothing)
    BY <1>2 DEF WellFormed
<1>13. Outer(h, nothing)
    BY <1>2, <1>4, <1>9 DEF Outer
<1>14. Ledger(h, nothing, d)
    BY <1>2, <1>9, <1>11, <1>12, <1>13 DEF Ledger
<1>15. Steady(nothing, d)
    BY <1>3, <1>4, StartFits
<1> QED
    BY <1>1, <1>14, <1>15 DEF Sound

\* A step that leaves nothing behind keeps the ledger.
LEMMA StepSound ==
    ASSUME Sound(stack, d), Next, ~Lost(event'.redirections), ~Stays
    PROVE  Sound(stack', d')
<1>0. PICK h : Ledger(h, stack, d) /\ Steady(stack, d)
    BY DEF Sound
<1>1. CASE ExternalCommand
    BY ONLY <1>0, <1>1, ~Stays, ExternalSound
<1>2. CASE BuiltinCaptured
    BY ONLY <1>0, <1>2, CapturedBuiltinSound
<1>3. CASE Builtin
    BY ONLY <1>0, <1>3, ~Stays, BuiltinSound
<1>4. CASE NoCommand
    BY ONLY <1>0, <1>4, ~Stays, NothingSound
<1>5. CASE EnterGroup
    BY ONLY <1>0, <1>5, ~Lost(event'.redirections), ~Stays, EnterGroupSound
<1>6. CASE LeaveGroup
    BY ONLY <1>0, <1>6, LeaveGroupSound
<1>7. CASE EnterSubshell
    BY ONLY <1>0, <1>7, EnterSubshellSound
<1>8. CASE LeaveSubshell
    BY ONLY <1>0, <1>8, LeaveSubshellSound
<1>9. CASE EnterCaptured
    BY ONLY <1>0, <1>9, EnterCapturedSound
<1>10. CASE LeaveCaptured
    BY ONLY <1>0, <1>10, LeaveCapturedSound
<1>11. CASE BeginPipeline
    BY ONLY <1>0, <1>11, PipelineSound
<1>12. CASE EnterStage
    BY ONLY <1>0, <1>12, ~Lost(event'.redirections), ~Stays, EnterStageSound
<1>13. CASE LeaveStage
    BY ONLY <1>0, <1>13, LeaveStageSound
<1> QED
    BY <1>1, <1>2, <1>3, <1>4, <1>5, <1>6, <1>7, <1>8, <1>9, <1>10, <1>11, <1>12, <1>13 DEF Next

\* When everything has ended, what is held is nothing.
LEMMA LedgerClosed ==
    ASSUME NEW h, Ledger(h, stack, d), stack = <<>>
    PROVE  /\ d.open = OpenAtStart /\ d.cloexec = Internal
           /\ d.fds = <<>> /\ d.saved_fds = <<>> /\ d.child = NoChild
<1> DEFINE a == h[0]
<1>1. Len(stack) = 0
    OBVIOUS
<1>2. a.open = OpenAtStart /\ a.cloexec = Internal
    BY DEF Ledger, Outer
<1>3. Level(a, stack, 0, d)
    BY <1>1 DEF Ledger
<1> HIDE DEF a
<1>4. FramesAt(stack, 0) = {} /\ Untouched(stack, 0)
    BY DEF FramesAt, Untouched
<1>5. Own(stack, 0) = {} /\ Pipes(stack, 0) = {}
    BY <1>4 DEF Own, Copying, Pipes
<1>6. Held(a, d, {}, {}) /\ d.fds = <<>> /\ d.saved_fds = <<>> /\ d.child = NoChild
    BY <1>3, <1>4, <1>5 DEF Level
<1>7. Files(d) = {}
    BY <1>6 DEF Files
<1>8. d.open = a.open /\ d.cloexec = a.cloexec
    BY ONLY <1>6, <1>7, NothingHeld
<1> QED
    BY <1>2, <1>6, <1>8

-----------------------------------------------------------------------------
(* The saved copies *)

\* Between two subshells the table is the same one.
LEMMA SameTable ==
    ASSUME NEW h, NEW st, Outer(h, st), NEW N, N = Len(st), N \in Nat, NEW n \in Nat, NEW k \in Nat, n <= k, k <= N,
           \A i \in (n + 1)..k : st[i].kind # "subshell"
    PROVE  h[k] = h[n]
<1> DEFINE S == {i \in 0..N : n <= i /\ i <= k => h[i] = h[n]}
<1>1. 0 \in S
    <2>1. n <= 0 => n = 0
        OBVIOUS
    <2> QED
        BY <2>1
<1>2. ASSUME NEW i \in 1..N, i - 1 \in S PROVE i \in S
    <2> SUFFICES ASSUME n <= i, i <= k PROVE h[i] = h[n]
        BY <1>2
    <2>1. CASE i = n
        BY <2>1
    <2>2. CASE i # n
        <3>1. i \in (n + 1)..k /\ n <= i - 1 /\ i - 1 <= k
            BY <2>2
        <3>2. h[i - 1] = h[n]
            BY <1>2, <3>1
        <3>3. i \in 1..Len(st) /\ st[i].kind # "subshell"
            BY <3>1
        <3> QED
            BY <3>2, <3>3 DEF Outer
    <2> QED
        BY <2>1, <2>2
<1>3. S = 0..N
    <2> HIDE DEF S
    <2>1. S \in SUBSET (0..N)
        BY DEF S
    <2> QED
        BY <1>1, <1>2, <2>1, OfSave!UpTo
<1>4. k \in S
    BY <1>3
<1> QED
    BY <1>4

\* What is open beside the streams stays open, and on the same.
KeepsOpen(a, t) ==
    \A n \in DOMAIN a.open : n \notin Standard => n \in DOMAIN t.open /\ t.open[n] = a.open[n]

LEMMA LevelKeepsOpen ==
    ASSUME NEW a, NEW st, NEW n, NEW t, Level(a, st, n, t)
    PROVE  KeepsOpen(a, t)
BY DEF Level, Held, Accounted, Contents, KeepsOpen, Standard

LEMMA KeptOpen ==
    ASSUME NEW h, NEW st, Outer(h, st), NEW N, N = Len(st), N \in Nat, NEW j \in Nat, j <= N
    PROVE  KeepsOpen(h[j], h[N])
<1> DEFINE S == {i \in 0..N : j <= i => KeepsOpen(h[j], h[i])}
<1>0. KeepsOpen(h[j], h[j])
    BY DEF KeepsOpen
<1>1. 0 \in S
    <2>1. j <= 0 => j = 0
        OBVIOUS
    <2> QED
        BY <1>0, <2>1
<1>2. ASSUME NEW i \in 1..N, i - 1 \in S PROVE i \in S
    <2> SUFFICES ASSUME j <= i PROVE KeepsOpen(h[j], h[i])
        BY <1>2
    <2>1. CASE i = j
        BY <1>0, <2>1
    <2>2. CASE i # j
        <3>1. j <= i - 1 /\ i \in 1..Len(st)
            BY <2>2
        <3>2. KeepsOpen(h[j], h[i - 1])
            BY <1>2, <3>1
        <3>3. KeepsOpen(h[i - 1], h[i])
            <4>1. CASE st[i].kind = "subshell"
                <5>1. Level(h[i - 1], st, i - 1, h[i])
                    BY <3>1, <4>1 DEF Outer
                <5> QED
                    BY <5>1, LevelKeepsOpen
            <4>2. CASE st[i].kind # "subshell"
                <5>1. h[i] = h[i - 1]
                    BY <3>1, <4>2 DEF Outer
                <5> QED
                    BY <5>1 DEF KeepsOpen
            <4> QED
                BY <4>1, <4>2
        <3> QED
            BY <3>2, <3>3 DEF KeepsOpen
    <2> QED
        BY <2>1, <2>2
<1>3. S = 0..N
    <2> HIDE DEF S
    <2>1. S \in SUBSET (0..N)
        BY DEF S
    <2> QED
        BY <1>1, <1>2, <2>1, OfSave!UpTo
<1>4. N \in S
    BY <1>3
<1> QED
    BY <1>4

\* The copy of fd is open on what there was before construct n.
CopyOf(copies, st, n, t, fd) ==
    /\ copies[fd] \in DOMAIN t.open /\ copies[fd] \notin Standard
    /\ Agrees(t.open[copies[fd]], StreamsOf(st, n - 1)[fd])

\* No subshell is between construct n and the k-th.
LEMMA CopiesWithin ==
    ASSUME NEW h, NEW st, Outer(h, st), NEW N, N = Len(st), N \in Nat, NEW k \in 0..N, NEW n \in 1..k,
           HasCopies(st[n]), \A i \in (n + 1)..k : st[i].kind # "subshell",
           NEW t, Level(h[k], st, k, t), NEW fd \in Standard
    PROVE  CopyOf(t.saved_fds, st, n, t, fd)
<1> DEFINE a == h[k]
           copies == t.saved_fds
<1>1. Copying(st, k)
    <2>1. \A i \in n..k : i = n \/ i \in (n + 1)..k
        OBVIOUS
    <2>2. \A i \in n..k : st[i].kind # "subshell"
        BY <2>1 DEF HasCopies
    <2> QED
        BY <2>2 DEF Copying, FramesAt
<1>2. a = h[n]
    <2>1. n \in Nat /\ k \in Nat /\ n <= k /\ k <= N
        OBVIOUS
    <2> QED
        BY <2>1, SameTable
<1>3. Held(a, t, Standard, Pipes(st, k))
    BY <1>1 DEF Level, Own
<1> HIDE DEF a
<1>4. Fits(st, n - 1, a)
    <2>1. n \in 1..Len(st)
        OBVIOUS
    <2> QED
        BY <1>2, <2>1 DEF Outer
<1>5. /\ copies[fd] \in DOMAIN t.open /\ copies[fd] \notin DOMAIN a.open
      /\ t.open[copies[fd]] = a.open[fd]
    BY <1>3 DEF Held, Accounted, Contents
<1>6. Standard \subseteq DOMAIN a.open
    BY <1>3 DEF Held, KernelOK, Standard
<1> QED
    BY <1>4, <1>5, <1>6 DEF CopyOf, Fits

\* The copies are those of construct n's own table, also when a subshell within
\* it has another one.
LEMMA CopiesIntact ==
    ASSUME NEW h, Ledger(h, stack, d), NEW n \in DOMAIN stack, HasCopies(stack[n]), NEW fd \in Standard
    PROVE  CopyOf(CopiesOf(n), stack, n, d, fd)
<1> DEFINE N == Len(stack)
           inner == {j \in DOMAIN stack : j > n /\ stack[j].kind = "subshell"}
           j == CHOOSE x \in inner : \A k \in inner : x <= k
<1>1. N \in Nat /\ N = Len(stack) /\ DOMAIN stack = 1..N
    <2>1. PICK S : stack \in Seq(S)
        BY DEF Ledger, WellFormed
    <2> QED
        BY <2>1, LenProperties
<1>2. Outer(h, stack) /\ Level(h[N], stack, N, d)
    BY DEF Ledger
<1>3. CopiesOf(n) = IF inner = {} THEN d.saved_fds ELSE stack[j].saved_fds
    BY DEF CopiesOf
<1>4. n \in 1..N /\ \A i \in inner : i \in (n + 1)..N
    BY <1>1
<1>5. \A i \in (n + 1)..N : i \in inner <=> stack[i].kind = "subshell"
    BY <1>1, <1>4
<1>6. inner # {} => j \in inner /\ \A k \in inner : j <= k
    <2> DEFINE least == {x \in inner : \A k \in inner : x <= k}
    <2> SUFFICES ASSUME inner # {} PROVE least # {}
        OBVIOUS
    <2>1. inner \in SUBSET Nat
        BY <1>4
    <2> HIDE DEF inner
    <2>2. \E x \in inner : \A k \in inner : x <= k
        BY <2>1, OfSave!LeastNumber
    <2> QED
        BY <2>2
<1> HIDE DEF N, inner, j
<1>7. CASE inner = {}
    <2>1. N \in 0..N /\ \A i \in (n + 1)..N : stack[i].kind # "subshell"
        BY <1>1, <1>5, <1>7
    <2>2. CopyOf(d.saved_fds, stack, n, d, fd)
        BY <1>1, <1>2, <1>4, <2>1, CopiesWithin
    <2> QED
        BY <1>3, <1>7, <2>2
<1>8. CASE inner # {}
    <2> DEFINE k == j - 1
               copies == h[j].saved_fds
    <2>1. j \in (n + 1)..N /\ stack[j].kind = "subshell" /\ \A i \in inner : j <= i
        BY <1>4, <1>5, <1>6, <1>8
    <2>2. /\ k \in 0..N /\ n \in 1..k /\ j \in Nat /\ j <= N /\ j \in 1..Len(stack)
          /\ \A i \in (n + 1)..k : i \in (n + 1)..N /\ ~(j <= i)
        BY <1>1, <1>4, <2>1
    <2>3. \A i \in (n + 1)..k : stack[i].kind # "subshell"
        BY <1>5, <2>1, <2>2
    <2>4. Level(h[k], stack, k, h[j]) /\ stack[j].saved_fds = copies
        BY <1>2, <2>1, <2>2 DEF Outer
    <2> HIDE DEF k
    <2>5. CopyOf(copies, stack, n, h[j], fd)
        BY <1>1, <1>2, <2>2, <2>3, <2>4, CopiesWithin
    <2>6. KeepsOpen(h[j], h[N])
        BY <1>1, <1>2, <2>2, KeptOpen
    <2>7. KeepsOpen(h[N], d)
        BY <1>2, LevelKeepsOpen
    <2> HIDE DEF copies
    <2>8. CopyOf(copies, stack, n, d, fd)
        BY <2>5, <2>6, <2>7 DEF CopyOf, KeepsOpen
    <2> QED
        BY <1>3, <1>8, <2>4, <2>8
<1> QED
    BY <1>7, <1>8

-----------------------------------------------------------------------------
(* The runs *)

\* A run that has departed from what was meant is over; in any other what is
\* open is accounted for, and the streams are what the constructs say.
StreamsInv == departed \/ Sound(stack, d)

\* In every run, until it departs, each open number has one owner and the streams
\* are what the groups, stages and subshells around the next command say: the
\* shell undoes what execute_builtin, execute_compound_with_redirections, a stage
\* and a subshell do to its descriptors (src/src/state/fd_table.rs:252 to 419).
THEOREM AlwaysSound == MCSpec => []StreamsInv
<1>1. MCInit => StreamsInv
    BY InitSound DEF MCInit, StreamsInv
<1>2. StreamsInv /\ [MCNext]_vars => StreamsInv'
    <2> SUFFICES ASSUME StreamsInv, [MCNext]_vars PROVE StreamsInv'
        OBVIOUS
    <2>1. CASE MCNext
        <3>1. Sound(stack, d)
            BY <2>1 DEF MCNext, StreamsInv
        <3>2. CASE departed'
            BY <3>2 DEF StreamsInv
        <3>3. CASE ~departed'
            <4>1. Next /\ ~Lost(event'.redirections) /\ ~Stays
                BY <2>1, <3>3 DEF MCNext
            <4>2. Sound(stack', d')
                BY ONLY <3>1, <4>1, StepSound
            <4> QED
                BY <4>2 DEF StreamsInv
        <3> QED
            BY <3>2, <3>3
    <2>2. CASE UNCHANGED vars
        BY <2>2 DEF vars, desc_vars, StreamsInv
    <2> QED
        BY <2>1, <2>2
<1> QED
    BY <1>1, <1>2, PTL DEF MCSpec

\* However constructs, their redirections and commands follow one another, a
\* shell whose every construct has ended has exactly the descriptors that it
\* started with: all that was saved has come back, and all that was opened on
\* the way has been closed (save_all_fds and restore_all_fds,
\* src/src/state/fd_table.rs:298 and 322).
THEOREM DescriptorsComeBack == MCSpec => []NothingLeft
<1>1. StreamsInv => NothingLeft
    <2> SUFFICES ASSUME StreamsInv, stack = <<>>, ~departed
                 PROVE  /\ d.open = OpenAtStart /\ d.cloexec = Internal
                        /\ d.fds = <<>> /\ d.saved_fds = <<>> /\ d.child = NoChild
        BY DEF NothingLeft
    <2>1. PICK h : Ledger(h, stack, d)
        BY DEF StreamsInv, Sound
    <2> QED
        BY <2>1, LedgerClosed
<1> QED
    BY <1>1, AlwaysSound, PTL

\* While constructs are being executed, however deep and with subshells among
\* them, the shell's streams are what the redirections of the groups and stages
\* say, from the outermost to the innermost; and every copy that one of them
\* will put back is open, on what its descriptor was before (deep_clone and
\* clear, src/src/state/fd_table.rs:282 and 419, and what a stage does with
\* its input, src/src/executor/command.rs).
THEOREM SavedCopiesIntact == MCSpec => []SavedIntact
<1>1. StreamsInv => SavedIntact
    <2> SUFFICES ASSUME StreamsInv, ~departed
                 PROVE  /\ \A fd \in Standard : Agrees(d.open[fd], StreamsOf(stack, Len(stack))[fd])
                        /\ \A n \in DOMAIN stack : HasCopies(stack[n]) =>
                              \A fd \in Standard : /\ CopiesOf(n)[fd] \in DOMAIN d.open
                                                   /\ Agrees(d.open[CopiesOf(n)[fd]], StreamsOf(stack, n - 1)[fd])
        BY DEF SavedIntact, StreamsWithin, StreamsOf, HasCopies, Standard
    <2>1. PICK h : Ledger(h, stack, d) /\ Steady(stack, d)
        BY DEF StreamsInv, Sound
    <2>2. ASSUME NEW n \in DOMAIN stack, HasCopies(stack[n]), NEW fd \in Standard
          PROVE  CopyOf(CopiesOf(n), stack, n, d, fd)
        BY <2>1, <2>2, CopiesIntact
    <2> QED
        BY <2>1, <2>2 DEF Steady, Fits, CopyOf
<1> QED
    BY <1>1, AlwaysSound, PTL

-----------------------------------------------------------------------------
(* What the constructs say, also of output that is collected               *)

OfWithin == INSTANCE OneAfterAnother WITH Step <- Within

LEMMA WithinInOrder ==
    ASSUME NEW frames, DOMAIN frames = 1..Len(frames), NEW env
    PROVE  FoldLeft(Within, env, frames) = OfWithin!Folded(frames, env)
BY DEF FoldLeft, MapThenFoldSet, Max, OfWithin!Folded, OfWithin!Folds, OfWithin!Greatest

Plains(rs) == /\ Len(rs) \in Nat /\ DOMAIN rs = 1..Len(rs)
              /\ \A i \in 1..Len(rs) : Plain(rs[i]) /\ rs[i].file # "closed"
Names(rs, fd) == \E i \in 1..Len(rs) : rs[i].fd = fd
Captures(st, n) == \E i \in 1..n : st[i].capture
IsEnv(e) == /\ DOMAIN e = 0..9
            /\ \A fd \in Standard : e[fd] # "closed"
            /\ \A fd \in 0..9 : fd \notin Standard => e[fd] = "closed"

\* What is redirected does not depend on what was there before.
LEMMA PlainRedirections ==
    ASSUME NEW rs, Plains(rs), NEW e, IsEnv(e), NEW s, Standard \subseteq DOMAIN s,
           NEW e2, e2 = AllRedirected(e, rs), NEW s2, s2 = AllRedirected(s, rs)
    PROVE  /\ IsEnv(e2)
           /\ \A fd \in Standard : ~Names(rs, fd) => e2[fd] = e[fd]
           /\ \A fd \in Standard : Names(rs, fd) \/ e[fd] = s[fd] => e2[fd] = s2[fd]
<1> DEFINE N == Len(rs)
           Chosen(fd, n) == \E i \in 1..n : rs[i].fd = fd
           Good(x, y, n) == /\ IsEnv(x) /\ Standard \subseteq DOMAIN y
                            /\ \A fd \in Standard : ~Chosen(fd, n) => x[fd] = e[fd]
                            /\ \A fd \in Standard : Chosen(fd, n) \/ e[fd] = s[fd] => x[fd] = y[fd]
<1>0. N \in Nat /\ DOMAIN rs = 1..N /\ \A i \in 1..N : Plain(rs[i]) /\ rs[i].file # "closed"
    BY DEF Plains
<1>1. e2 = OfRedirected!Folded(rs, e) /\ s2 = OfRedirected!Folded(rs, s)
    BY <1>0, RedirectedInOrder
<1>2. PICK es : OfRedirected!FoldChain(rs, e, OfRedirected!Folded(rs, e), es)
    BY <1>0, OfRedirected!FoldInOrder
<1>3. PICK ss : OfRedirected!FoldChain(rs, s, OfRedirected!Folded(rs, s), ss)
    BY <1>0, OfRedirected!FoldInOrder
<1> DEFINE S == {n \in 0..N : Good(es[n], ss[n], n)}
<1>4. 0 \in S
    <2>1. es[0] = e /\ ss[0] = s
        BY <1>2, <1>3 DEF OfRedirected!FoldChain
    <2>2. \A fd : ~Chosen(fd, 0)
        OBVIOUS
    <2>3. Good(es[0], ss[0], 0)
        BY <2>1, <2>2
    <2> HIDE DEF Good
    <2> QED
        BY <1>0, <2>3
<1>5. ASSUME NEW n \in 1..N, n - 1 \in S PROVE n \in S
    <2> DEFINE x == es[n - 1]
               x2 == es[n]
               y == ss[n - 1]
               y2 == ss[n]
               r == rs[n]
    <2>1. Good(x, y, n - 1)
        BY <1>5
    <2>2. /\ Plain(r) /\ r.file # "closed" /\ x2 = Redirected(x, r) /\ y2 = Redirected(y, r)
        BY <1>0, <1>2, <1>3 DEF OfRedirected!FoldChain
    <2>3. \A fd : Chosen(fd, n) <=> Chosen(fd, n - 1) \/ r.fd = fd
        <3>1. \A i : i \in 1..n <=> i \in 1..(n - 1) \/ i = n
            BY <1>0
        <3> QED
            BY <3>1
    <2> HIDE DEF x, x2, y, y2, r, Chosen
    <2>4. Standard \subseteq DOMAIN x /\ Standard \subseteq DOMAIN y
        BY <2>1 DEF IsEnv, Standard
    <2>5. /\ DOMAIN x2 = DOMAIN x /\ x2[r.fd] = r.file
          /\ \A fd \in Standard : fd # r.fd => x2[fd] = x[fd]
        BY ONLY <2>2, <2>4, RedirectedStream
    <2>6. /\ DOMAIN y2 = DOMAIN y /\ y2[r.fd] = r.file
          /\ \A fd \in Standard : fd # r.fd => y2[fd] = y[fd]
        BY ONLY <2>2, <2>4, RedirectedStream
    <2>7. r.fd \in Standard /\ r.op \in {"<", ">", ">|", ">>"}
        BY <2>2 DEF Plain, Writes, Standard
    <2>8. \A fd \in 0..9 : fd \notin Standard => x2[fd] = x[fd]
        <3>1. x2 = [x EXCEPT ![r.fd] = r.file]
            BY <2>2, <2>7 DEF Redirected
        <3> QED
            BY <2>1, <2>7, <3>1 DEF IsEnv
    <2>9. IsEnv(x2)
        BY <2>1, <2>2, <2>5, <2>8 DEF IsEnv
    <2>10. Good(x2, y2, n)
        BY <2>1, <2>3, <2>5, <2>6, <2>9
    <2> HIDE DEF Good
    <2> QED
        BY <2>10 DEF x2, y2
<1> HIDE DEF Good
<1>6. S = 0..N
    <2> HIDE DEF S
    <2>1. S \in SUBSET (0..N)
        BY DEF S
    <2> QED
        BY <1>0, <1>4, <1>5, <2>1, OfSave!UpTo
<1>7. N \in S
    BY <1>0, <1>6
<1>8. es[N] = e2 /\ ss[N] = s2
    BY <1>1, <1>2, <1>3 DEF OfRedirected!FoldChain
<1>9. Good(e2, s2, N)
    BY <1>7, <1>8
<1> QED
    BY <1>9 DEF Good, Names

\* What the frame of a construct says, after those before it: its redirections
\* are of files, none of which takes output that is collected further out, and a
\* stage's output is collected unless it is the last one's or redirected.
DecentFrame(st, i) ==
    LET f == st[i]
        rs == st[i].redirections
    IN /\ f.kind \in {"group", "stage", "subshell", "captured", "pipeline"}
       /\ f.kind \in {"subshell", "pipeline"} => rs = <<>> /\ ~f.capture
       /\ f.kind = "captured" => f.capture /\ Plains(rs) /\ \A k \in 1..Len(rs) : rs[k].fd = 1
       /\ f.kind \in {"group", "stage"} => Plains(rs) /\ (Names(rs, 1) => ~Captures(st, i - 1))
       /\ f.kind = "group" => ~f.capture
       /\ f.kind = "stage" => (f.capture <=> (~f.last \/ Captures(st, i - 1)) /\ ~Names(rs, 1))
Decent(st) == \A i \in 1..Len(st) : DecentFrame(st, i)

\* The environment e of a command, and the streams s of the shell.
ScopeFits(st, n, e, s) ==
    /\ IsEnv(e)
    /\ \A fd \in {0, 2} : e[fd] = s[fd]
    /\ IF Captures(st, n) THEN e[1] \in {"capture", "pipe"} ELSE e[1] = s[1]

LEMMA ScopeNone ==
    ASSUME NEW st
    PROVE  ScopeFits(st, 0, Outside, Outside)
<1>1. ~Captures(st, 0)
    BY DEF Captures
<1>2. IsEnv(Outside)
    BY DEF IsEnv, Outside, Standard
<1> QED
    BY <1>1, <1>2 DEF ScopeFits

LEMMA CapturesMore ==
    ASSUME NEW st, NEW n \in Nat
    PROVE  Captures(st, n + 1) <=> Captures(st, n) \/ st[n + 1].capture
<1>1. \A i : i \in 1..(n + 1) <=> i \in 1..n \/ i = n + 1
    OBVIOUS
<1> QED
    BY <1>1 DEF Captures

LEMMA PipedEnv ==
    ASSUME NEW e, IsEnv(e), NEW first, NEW last, NEW e2, e2 = Piped(e, first, last)
    PROVE  /\ IsEnv(e2)
           /\ e2[0] = IF first THEN e[0] ELSE "pipe"
           /\ e2[1] = IF last THEN e[1] ELSE "pipe"
           /\ e2[2] = e[2]
           /\ \A fd \in 0..9 : fd \notin Standard => e2[fd] = e[fd]
<1>1. 0 \in DOMAIN e /\ 1 \in DOMAIN e /\ 2 \in DOMAIN e /\ DOMAIN e = 0..9
    BY DEF IsEnv
<1>2. /\ DOMAIN e2 = DOMAIN e
      /\ e2[0] = IF first THEN e[0] ELSE "pipe"
      /\ e2[1] = IF last THEN e[1] ELSE "pipe"
      /\ e2[2] = e[2]
      /\ \A fd \in 0..9 : fd \notin Standard => e2[fd] = e[fd]
    BY <1>1 DEF Piped, Standard
<1>3. \A fd \in Standard : fd = 0 \/ fd = 1 \/ fd = 2
    BY DEF Standard
<1>4. \A fd \in Standard : e2[fd] # "closed"
    BY <1>2, <1>3 DEF IsEnv
<1> QED
    BY <1>1, <1>2, <1>4 DEF IsEnv

LEMMA ScopeMore ==
    ASSUME NEW st, NEW n \in Nat, DecentFrame(st, n + 1),
           NEW e, NEW s, ScopeFits(st, n, e, s), Standard \subseteq DOMAIN s,
           NEW f, f = st[n + 1], NEW e2, e2 = Within(e, f), NEW s2, s2 = OfShell(s, f)
    PROVE  ScopeFits(st, n + 1, e2, s2)
<1> DEFINE rs == f.redirections
<1>1. Captures(st, n + 1) <=> Captures(st, n) \/ f.capture
    BY CapturesMore
<1>2. n + 1 - 1 = n
    OBVIOUS
<1>3. /\ f.kind \in {"group", "stage", "subshell", "captured", "pipeline"}
      /\ f.kind \in {"subshell", "pipeline"} => rs = <<>> /\ ~f.capture
      /\ f.kind = "captured" => f.capture /\ Plains(rs) /\ \A k \in 1..Len(rs) : rs[k].fd = 1
      /\ f.kind \in {"group", "stage"} => Plains(rs) /\ (Names(rs, 1) => ~Captures(st, n))
      /\ f.kind = "group" => ~f.capture
      /\ f.kind = "stage" => (f.capture <=> (~f.last \/ Captures(st, n)) /\ ~Names(rs, 1))
    BY <1>2 DEF DecentFrame
<1>4. IsEnv(e) /\ e[0] = s[0] /\ e[2] = s[2]
      /\ IF Captures(st, n) THEN e[1] \in {"capture", "pipe"} ELSE e[1] = s[1]
    BY DEF ScopeFits
<1> HIDE DEF rs
<1>5. 0 \in Standard /\ 1 \in Standard /\ 2 \in Standard
    BY DEF Standard
<1>6. CASE f.kind \in {"subshell", "pipeline"}
    <2>1. e2 = AllRedirected(e, <<>>) /\ s2 = AllRedirected(s, <<>>)
        BY <1>3, <1>6 DEF Within, OfShell, rs
    <2>2. e2 = e /\ s2 = s
        BY <2>1, NoneRedirected
    <2> QED
        BY <1>1, <1>3, <1>4, <1>6, <2>2 DEF ScopeFits
<1>7. CASE f.kind = "captured"
    <2> DEFINE x == AllRedirected(e, rs)
               y == AllRedirected(s, rs)
    <2>1. e2 = [x EXCEPT ![1] = "capture"] /\ s2 = AllRedirected(s, <<>>)
        BY <1>7 DEF Within, OfShell, rs
    <2>2. s2 = s
        BY <2>1, NoneRedirected
    <2>3. Plains(rs) /\ ~Names(rs, 0) /\ ~Names(rs, 2)
        BY <1>3, <1>7 DEF Names
    <2>4. x = AllRedirected(e, rs) /\ y = AllRedirected(s, rs)
        OBVIOUS
    <2> HIDE DEF x, y
    <2>5. IsEnv(x) /\ x[0] = e[0] /\ x[2] = e[2]
        BY <1>4, <1>5, <2>3, <2>4, PlainRedirections
    <2>6. /\ DOMAIN e2 = 0..9 /\ e2[1] = "capture" /\ \A fd \in 0..9 : fd # 1 => e2[fd] = x[fd]
        BY <2>1, <2>5 DEF IsEnv
    <2>7. IsEnv(e2)
        BY <2>5, <2>6 DEF IsEnv, Standard
    <2> QED
        BY <1>1, <1>3, <1>4, <1>7, <2>2, <2>5, <2>6, <2>7 DEF ScopeFits
<1>8. CASE f.kind = "group"
    <2>1. e2 = AllRedirected(e, rs) /\ s2 = AllRedirected(s, rs)
        BY <1>8 DEF Within, OfShell, rs
    <2>2. Plains(rs) /\ (Names(rs, 1) => ~Captures(st, n)) /\ ~f.capture
        BY <1>3, <1>8
    <2>3. /\ IsEnv(e2)
          /\ \A fd \in Standard : ~Names(rs, fd) => e2[fd] = e[fd]
          /\ \A fd \in Standard : Names(rs, fd) \/ e[fd] = s[fd] => e2[fd] = s2[fd]
        BY <1>4, <2>1, <2>2, PlainRedirections
    <2> QED
        BY <1>1, <1>4, <1>5, <2>2, <2>3 DEF ScopeFits
<1>9. CASE f.kind = "stage"
    <2> DEFINE x == Piped(e, f.first, f.last)
               y == Piped(s, f.first, TRUE)
    <2>1. e2 = AllRedirected(x, rs) /\ s2 = AllRedirected(y, rs)
        BY <1>9 DEF Within, OfShell, rs
    <2>2. Plains(rs) /\ (Names(rs, 1) => ~Captures(st, n)) /\ (f.capture <=> (~f.last \/ Captures(st, n)) /\ ~Names(rs, 1))
        BY <1>3, <1>9
    <2>3. IsEnv(x) /\ x[0] = (IF f.first THEN e[0] ELSE "pipe") /\ x[1] = (IF f.last THEN e[1] ELSE "pipe") /\ x[2] = e[2]
        BY <1>4, PipedEnv
    <2>4. /\ Standard \subseteq DOMAIN y
          /\ y[0] = (IF f.first THEN s[0] ELSE "pipe") /\ y[1] = s[1] /\ y[2] = s[2]
        BY <1>5 DEF Piped, Standard
    <2> HIDE DEF x, y
    <2>5. /\ IsEnv(e2)
          /\ \A fd \in Standard : ~Names(rs, fd) => e2[fd] = x[fd]
          /\ \A fd \in Standard : Names(rs, fd) \/ x[fd] = y[fd] => e2[fd] = s2[fd]
        BY <2>1, <2>2, <2>3, <2>4, PlainRedirections
    <2>6. e2[0] = s2[0] /\ e2[2] = s2[2]
        BY <1>4, <1>5, <2>3, <2>4, <2>5
    <2>7. IF Captures(st, n + 1) THEN e2[1] \in {"capture", "pipe"} ELSE e2[1] = s2[1]
        <3>1. CASE Names(rs, 1)
            BY <1>1, <1>5, <2>2, <2>5, <3>1
        <3>2. CASE ~Names(rs, 1) /\ (~f.last \/ Captures(st, n))
            <4>1. x[1] \in {"capture", "pipe"} /\ e2[1] = x[1]
                BY <1>4, <1>5, <2>3, <2>5, <3>2
            <4> QED
                BY <1>1, <2>2, <3>2, <4>1
        <3>3. CASE ~Names(rs, 1) /\ f.last /\ ~Captures(st, n)
            <4>1. x[1] = y[1]
                BY <1>4, <2>3, <2>4, <3>3
            <4> QED
                BY <1>1, <1>5, <2>2, <2>5, <3>3, <4>1
        <3> QED
            BY <3>1, <3>2, <3>3
    <2> QED
        BY <2>5, <2>6, <2>7 DEF ScopeFits
<1> QED
    BY <1>3, <1>6, <1>7, <1>8, <1>9

\* What a frame says depends on itself and on whether one before it captures.
LEMMA DecentSame ==
    ASSUME NEW st, NEW st2, NEW i \in Nat, i >= 1, st2[i] = st[i], \A j \in 1..(i - 1) : st2[j] = st[j],
           DecentFrame(st, i)
    PROVE  DecentFrame(st2, i)
<1>1. Captures(st2, i - 1) <=> Captures(st, i - 1)
    BY DEF Captures
<1> QED
    BY <1>1 DEF DecentFrame

\* What the frame says itself, after frames that capture or do not.
DecentAfter(f, captures) ==
    LET rs == f.redirections
    IN /\ f.kind \in {"group", "stage", "subshell", "captured", "pipeline"}
       /\ f.kind \in {"subshell", "pipeline"} => rs = <<>> /\ ~f.capture
       /\ f.kind = "captured" => f.capture /\ Plains(rs) /\ \A k \in 1..Len(rs) : rs[k].fd = 1
       /\ f.kind \in {"group", "stage"} => Plains(rs) /\ (Names(rs, 1) => ~captures)
       /\ f.kind = "group" => ~f.capture
       /\ f.kind = "stage" => (f.capture <=> (~f.last \/ captures) /\ ~Names(rs, 1))

LEMMA PlainsFacts ==
    ASSUME NEW rs \in Redirections, \A i \in 1..Len(rs) : Plain(rs[i])
    PROVE  Plains(rs)
<1>1. \A i \in 1..Len(rs) : rs[i].op \in FileOperators
    BY DEF Plain, Writes, FileOperators
<1> QED
    BY <1>1, RedirectionShape DEF Plains, IsRedirection

\* A stage's output is collected when it goes to the next one, or the whole is.
LEMMA StageCollects ==
    ASSUME NEW rs \in Redirections, Plains(rs), NEW last, NEW captures,
           Names(rs, 1) => ~captures,
           last \/ \A i \in 1..Len(rs) : ~(rs[i].op = ">|" /\ rs[i].explicit /\ rs[i].fd = 1)
    PROVE  (~last \/ captures) /\ ~has_stdout_redirection(rs) <=> (~last \/ captures) /\ ~Names(rs, 1)
<1>1. has_stdout_redirection(rs) => Names(rs, 1)
    BY DEF has_stdout_redirection, Names
<1>2. \A i \in 1..Len(rs) : rs[i].fd = 1 => rs[i].op \in {">", ">|", ">>"}
    BY DEF Plains, Plain, Writes
<1>3. ~last /\ Names(rs, 1) => has_stdout_redirection(rs)
    BY <1>2 DEF has_stdout_redirection, Names
<1> QED
    BY <1>1, <1>3

\* The environment within all constructs is the shell's streams, but for output
\* that is collected.
LEMMA Scope ==
    ASSUME NEW st, IsStack(st), Framed(st), Decent(st), NEW N, N = Len(st)
    PROVE  ScopeFits(st, N, FoldLeft(Within, Outside, st), StreamsOf(st, N))
<1>1. PICK T : st \in Seq(T)
    BY DEF IsStack
<1>2. N \in Nat /\ DOMAIN st = 1..N
    BY <1>1, LenProperties
<1> DEFINE out == Outside
<1>3. FoldLeft(Within, out, st) = OfWithin!Folded(st, out)
    BY <1>2, WithinInOrder
<1>4. PICK es : OfWithin!FoldChain(st, out, OfWithin!Folded(st, out), es)
    BY <1>2, OfWithin!FoldInOrder
<1> DEFINE S == {n \in 0..N : ScopeFits(st, n, es[n], StreamsOf(st, n))}
<1>5. 0 \in S
    <2>1. es[0] = Outside
        BY <1>4 DEF OfWithin!FoldChain
    <2>2. StreamsOf(st, 0) = Outside
        BY <1>1, StreamsOfNone
    <2> QED
        BY <1>2, <2>1, <2>2, ScopeNone
<1> HIDE DEF out
<1>6. ASSUME NEW n \in 1..N, n - 1 \in S PROVE n \in S
    <2> DEFINE m == n - 1
               s == StreamsOf(st, m)
    <2>1. m \in Nat /\ n = m + 1 /\ m + 1 <= Len(st) /\ n \in 1..Len(st) /\ m \in 0..Len(st)
        BY <1>2
    <2>2. es[n] = Within(es[m], st[n])
        BY <1>4 DEF OfWithin!FoldChain
    <2>3. ScopeFits(st, m, es[m], s)
        BY <1>6
    <2>4. s = StreamsOf(st, m)
        OBVIOUS
    <2> HIDE DEF m, s
    <2>5. StreamsOf(st, m + 1) = OfShell(s, st[m + 1])
        BY <1>1, <2>1, <2>4, StreamsDeeper
    <2>6. DecentFrame(st, m + 1) /\ Standard \subseteq DOMAIN s
        BY <2>1, <2>4 DEF Decent, Framed, Meant
    <2>7. ScopeFits(st, m + 1, es[m + 1], StreamsOf(st, m + 1))
        BY ONLY <2>1, <2>2, <2>3, <2>5, <2>6, ScopeMore
    <2> QED
        BY <2>1, <2>7
<1>7. S = 0..N
    <2> HIDE DEF S
    <2>1. S \in SUBSET (0..N)
        BY DEF S
    <2> QED
        BY <1>2, <1>5, <1>6, <2>1, OfSave!UpTo
<1>8. N \in S
    BY <1>2, <1>7
<1>9. es[N] = FoldLeft(Within, Outside, st)
    BY <1>3, <1>4 DEF OfWithin!FoldChain, out
<1> QED
    BY <1>8, <1>9

LEMMA DecentFront ==
    ASSUME NEW st, IsStack(st), st # <<>>, Decent(st), NEW F, F = Front(st)
    PROVE  Decent(F)
<1>1. Len(F) \in Nat /\ Len(st) = Len(F) + 1 /\ \A i \in 1..Len(F) : F[i] = st[i]
    BY StackFront
<1> SUFFICES ASSUME NEW i \in 1..Len(F) PROVE DecentFrame(F, i)
    BY DEF Decent
<1>2. i \in Nat /\ i >= 1 /\ F[i] = st[i] /\ i \in 1..Len(st) /\ \A j \in 1..(i - 1) : j \in 1..Len(F)
    BY <1>1
<1>3. DecentFrame(st, i) /\ \A j \in 1..(i - 1) : F[j] = st[j]
    BY <1>1, <1>2 DEF Decent
<1> QED
    BY <1>2, <1>3, DecentSame

LEMMA DecentAppend ==
    ASSUME NEW st, IsStack(st), Decent(st), NEW f, DecentAfter(f, Captures(st, Len(st))), NEW st2, st2 = Append(st, f)
    PROVE  Decent(st2)
<1> DEFINE n == Len(st)
<1>1. n \in Nat /\ Len(st2) = n + 1 /\ st2[n + 1] = f /\ \A i \in 1..n : st2[i] = st[i]
    BY StackAppend DEF Deeper
<1>2. DecentAfter(f, Captures(st, n))
    OBVIOUS
<1>6. \A i \in 1..n : DecentFrame(st, i)
    BY DEF Decent
<1> HIDE DEF n
<1> SUFFICES ASSUME NEW i \in 1..(n + 1) PROVE DecentFrame(st2, i)
    BY <1>1 DEF Decent
<1>3. CASE i = n + 1
    <2>1. Captures(st2, n) <=> Captures(st, n)
        BY <1>1 DEF Captures
    <2>2. i - 1 = n /\ st2[i] = f
        BY <1>1, <1>3
    <2> QED
        BY <1>2, <2>1, <2>2 DEF DecentAfter, DecentFrame
<1>4. CASE i \in 1..n
    <2>1. i \in Nat /\ i >= 1 /\ st2[i] = st[i] /\ \A j \in 1..(i - 1) : j \in 1..n
        BY <1>1, <1>4
    <2>2. DecentFrame(st, i) /\ \A j \in 1..(i - 1) : st2[j] = st[j]
        BY <1>1, <1>4, <1>6, <2>1
    <2> QED
        BY <2>1, <2>2, DecentSame
<1> QED
    BY <1>1, <1>3, <1>4

\* A pipeline's frame may have another pipe.
LEMMA DecentLast ==
    ASSUME NEW st, IsStack(st), st # <<>>, Decent(st)
    PROVE  DecentAfter(Last(st), Captures(Front(st), Len(Front(st))))
<1> DEFINE n == Len(Front(st))
<1>1. n \in Nat /\ Len(st) = n + 1 /\ Last(st) = st[n + 1] /\ \A i \in 1..n : Front(st)[i] = st[i]
    BY StackFront
<1>2. Captures(st, n) <=> Captures(Front(st), n)
    BY <1>1 DEF Captures
<1>3. DecentFrame(st, n + 1) /\ n + 1 - 1 = n
    BY <1>1 DEF Decent
<1> QED
    BY <1>1, <1>2, <1>3 DEF DecentFrame, DecentAfter

LEMMA DecentReplaced ==
    ASSUME NEW st, IsStack(st), st # <<>>, Decent(st), Last(st).kind = "pipeline",
           NEW g, g.kind = "pipeline", g.redirections = Last(st).redirections, g.capture = Last(st).capture,
           NEW st2, st2 = Append(Front(st), g)
    PROVE  Decent(st2)
<1> DEFINE F == Front(st)
<1>1. IsStack(F) /\ Decent(F)
    BY StackFront, DecentFront
<1>2. DecentAfter(Last(st), Captures(F, Len(F)))
    BY DecentLast
<1>3. DecentAfter(g, Captures(F, Len(F)))
    BY <1>2 DEF DecentAfter
<1> QED
    BY <1>1, <1>3, DecentAppend

LEMMA DecentStage ==
    ASSUME NEW st, IsStack(st), Decent(st), \A i \in 1..Len(st) : IsFrame(st[i]), NEW last, NEW pipe, NEW st2, st2 = AfterStage(st, last, pipe)
    PROVE  Decent(st2)
<1>1. CASE st = <<>> \/ Last(st).kind # "pipeline"
    BY <1>1 DEF AfterStage
<1>2. CASE st # <<>> /\ Last(st).kind = "pipeline" /\ last
    BY <1>2, DecentFront DEF AfterStage
<1>3. CASE st # <<>> /\ Last(st).kind = "pipeline" /\ ~last
    <2> DEFINE f == Last(st)
               g == Moved(f, pipe)
    <2>1. st2 = Append(Front(st), g)
        BY <1>3 DEF AfterStage, Moved
    <2>2. IsFrame(f)
        <3>1. Len(Front(st)) \in Nat /\ Len(st) = Len(Front(st)) + 1 /\ Last(st) = st[Len(Front(st)) + 1]
            BY <1>3, StackFront
        <3> QED
            BY <3>1
    <2>3. g.kind = f.kind /\ g.redirections = f.redirections /\ g.capture = f.capture
        BY <2>2 DEF Moved, IsFrame
    <2> HIDE DEF g
    <2> QED
        BY <1>3, <2>1, <2>3, DecentReplaced
<1> QED
    BY <1>1, <1>2, <1>3

\* What the redirections of a construct name is not collected.
LEMMA ConstructNames ==
    ASSUME NEW rs \in Redirections, ~LostByConstruct(rs), IsStack(stack)
    PROVE  /\ Plains(rs) /\ (Names(rs, 1) => ~Captures(stack, Len(stack)))
           /\ event'.kind = "stage" => \/ event'.last
                                       \/ \A i \in 1..Len(rs) : ~(rs[i].op = ">|" /\ rs[i].explicit /\ rs[i].fd = 1)
<1>1. DOMAIN rs = 1..Len(rs)
    BY RedirectionShape
<1>2. Plains(rs)
    BY ConstructPlain, PlainsFacts
<1>3. ASSUME Names(rs, 1), Captures(stack, Len(stack)) PROVE FALSE
    <2>1. PICK i \in 1..Len(rs) : rs[i].fd = 1
        BY <1>3 DEF Names
    <2>2. DOMAIN stack = 1..Len(stack)
        BY <1>3, LenProperties DEF IsStack
    <2>3. Overridden(stack, 1)
        BY <1>3, <2>2 DEF Captures, Overridden
    <2> QED
        BY <1>1, <2>1, <2>3 DEF LostByConstruct, Has
<1>4. event'.kind = "stage" /\ ~event'.last => \A i \in 1..Len(rs) : ~(rs[i].op = ">|" /\ rs[i].explicit /\ rs[i].fd = 1)
    BY <1>1 DEF LostByConstruct, Has
<1> QED
    BY <1>2, <1>3, <1>4

LEMMA StackFacts ==
    ASSUME NEW h, Ledger(h, stack, d)
    PROVE  IsStack(stack) /\ \A i \in 1..Len(stack) : IsFrame(stack[i])
BY LedgerStack DEF Ledger, WellFormed, FrameOK

LEMMA TopFrame ==
    ASSUME NEW h, Ledger(h, stack, d), stack # <<>>
    PROVE  IsFrame(Last(stack)) /\ Top = Last(stack)
<1>1. IsStack(stack) /\ \A i \in 1..Len(stack) : IsFrame(stack[i])
    BY StackFacts
<1>2. Len(Front(stack)) \in Nat /\ Len(stack) = Len(Front(stack)) + 1 /\ Last(stack) = stack[Len(Front(stack)) + 1]
    BY <1>1, StackFront
<1> QED
    BY <1>1, <1>2, TopFacts

LEMMA StageFlags ==
    ASSUME NEW f, IsFrame(f), NEW first, NEW pipe, NEW last, NEW capture, NEW g, g = Stage(f, first, pipe, last, capture)
    PROVE  g.last = last /\ g.capture = capture
BY DEF IsFrame, Stage

LEMMA GroupDecent ==
    ASSUME NEW h, Ledger(h, stack, d), Decent(stack), EnterGroup, ~Lost(event'.redirections)
    PROVE  Decent(stack')
<1>1. PICK rs \in Redirections \ {<<>>} : \E prepared \in Prepared(d, rs, NoRaw) :
          /\ d' = prepared.s
          /\ stack' = IF prepared.ok THEN Append(stack, Frame("group", rs)) ELSE stack
          /\ event' = Event("group", rs, prepared.ok, TRUE, NotSeen)
    BY DEF EnterGroup
<1> DEFINE f == Frame("group", rs)
<1>2. \E ok : /\ stack' = Append(stack, f) \/ stack' = stack
              /\ event' = Event("group", rs, ok, TRUE, NotSeen)
    BY <1>1, Zenon
<1>8. \E ok, last, seen : event' = Event("group", rs, ok, last, seen)
    BY <1>2, Zenon
<1>3. event'.kind = "group" /\ event'.redirections = rs
    BY <1>8, EventFields
<1>4. f.kind = "group" /\ f.redirections = rs /\ ~f.capture
    BY DEF Frame
<1>5. ~LostByConstruct(rs) /\ rs \in Redirections /\ IsStack(stack)
    BY <1>3, StackFacts DEF Lost
<1>6. Plains(rs) /\ (Names(rs, 1) => ~Captures(stack, Len(stack)))
    BY <1>5, ConstructNames
<1> HIDE DEF f
<1>7. DecentAfter(f, Captures(stack, Len(stack)))
    BY <1>4, <1>6 DEF DecentAfter
<1> QED
    BY <1>2, <1>5, <1>7, DecentAppend

LEMMA SubshellDecent ==
    ASSUME NEW h, Ledger(h, stack, d), Decent(stack), EnterSubshell, ~Lost(event'.redirections)
    PROVE  Decent(stack')
<1>1. PICK rs \in Redirections, order \in Orders(d.fds) :
          LET clone == deep_clone(d, order)
              frame == [Frame("subshell", rs) EXCEPT !.fds = d.fds, !.saved_fds = d.saved_fds]
          IN /\ d' = IF clone.ok THEN clone.s ELSE d
             /\ stack' = IF clone.ok THEN Append(stack, frame) ELSE stack
             /\ event' = Event("subshell", rs, clone.ok, TRUE, NotSeen)
    BY DEF EnterSubshell
<1> DEFINE f == [Frame("subshell", rs) EXCEPT !.fds = d.fds, !.saved_fds = d.saved_fds]
<1>2. \E ok : /\ stack' = Append(stack, f) \/ stack' = stack
              /\ event' = Event("subshell", rs, ok, TRUE, NotSeen)
    BY <1>1, Zenon
<1>7. \E ok, last, seen : event' = Event("subshell", rs, ok, last, seen)
    BY <1>2, Zenon
<1>3. event'.kind = "subshell" /\ event'.redirections = rs
    BY <1>7, EventFields
<1>4. f.kind = "subshell" /\ f.redirections = rs /\ ~f.capture
    BY DEF Frame
<1>5. rs = <<>> /\ IsStack(stack)
    BY <1>3, StackFacts DEF Lost
<1> HIDE DEF f
<1>6. DecentAfter(f, Captures(stack, Len(stack)))
    BY <1>4, <1>5 DEF DecentAfter
<1> QED
    BY <1>2, <1>5, <1>6, DecentAppend

LEMMA CapturedDecent ==
    ASSUME NEW h, Ledger(h, stack, d), Decent(stack), EnterCaptured, ~Lost(event'.redirections)
    PROVE  Decent(stack')
<1>1. PICK rs \in Redirections :
          /\ stack' = Append(stack, [Frame("captured", rs) EXCEPT !.capture = TRUE])
          /\ event' = Event("captured", rs, TRUE, TRUE, NotSeen)
    BY DEF EnterCaptured
<1> DEFINE f == [Frame("captured", rs) EXCEPT !.capture = TRUE]
<1>2. \E ok, last, seen : event' = Event("captured", rs, ok, last, seen)
    BY <1>1, Zenon
<1>3. event'.kind = "captured" /\ event'.redirections = rs
    BY <1>2, EventFields
<1>4. f.kind = "captured" /\ f.redirections = rs /\ f.capture
    BY DEF Frame
<1>5. rs \in {<<r>> : r \in {Out("b"), Append1("b")}} /\ IsStack(stack)
    BY <1>3, StackFacts DEF Lost
<1>6. PICK r \in {Out("b"), Append1("b")} : rs = <<r>>
    BY <1>5
<1>7. r.op \in {">", ">>"} /\ r.fd = 1 /\ r.file = "b"
    BY <1>6 DEF Out, Append1, R
<1>8. Plain(r) /\ r.file # "closed"
    BY <1>7 DEF Plain, Writes
<1>9. Len(rs) = 1 /\ DOMAIN rs = 1..1 /\ rs[1] = r
    BY <1>6
<1>10. Plains(rs) /\ \A k \in 1..Len(rs) : rs[k].fd = 1
    BY <1>7, <1>8, <1>9 DEF Plains
<1> HIDE DEF f
<1>11. DecentAfter(f, Captures(stack, Len(stack)))
    BY <1>4, <1>10 DEF DecentAfter
<1> QED
    BY <1>1, <1>5, <1>11, DecentAppend DEF f

LEMMA PipelineDecent ==
    ASSUME NEW h, Ledger(h, stack, d), Decent(stack), BeginPipeline
    PROVE  Decent(stack')
<1> DEFINE f == Frame("pipeline", <<>>)
<1>1. stack' = Append(stack, f)
    BY DEF BeginPipeline
<1>2. f.kind = "pipeline" /\ f.redirections = <<>> /\ ~f.capture
    BY DEF Frame
<1> HIDE DEF f
<1>3. DecentAfter(f, Captures(stack, Len(stack)))
    BY <1>2 DEF DecentAfter
<1> QED
    BY <1>1, <1>3, StackFacts, DecentAppend

LEMMA EnterStageDecent ==
    ASSUME NEW h, Ledger(h, stack, d), Decent(stack), EnterStage, ~Lost(event'.redirections)
    PROVE  Decent(stack')
<1>1. PICK rs \in Redirections, last \in Lasts :
          LET null == Top.pipe = NoRaw /\ ~Top.first /\ stdin_override = NoRaw
              input == IF null THEN Handle(d) ELSE Top.pipe
              s == IF null THEN Opened(d, "null") ELSE d
              taken == Append(Front(stack), [Top EXCEPT !.pipe = NoRaw])
              frame == [Frame("stage", rs) EXCEPT !.first = Top.first,
                          !.pipe = input, !.last = last,
                          !.capture = (~last \/ Capturing) /\ ~has_stdout_redirection(rs)]
          IN \E prepared \in Prepared(s, rs, input) :
                /\ d' = IF prepared.ok THEN prepared.s ELSE Close(prepared.s, {input} \ {NoRaw})
                /\ stack' = IF prepared.ok THEN Append(taken, frame) ELSE AfterStage(stack, last, NoRaw)
                /\ event' = Event("stage", rs, prepared.ok, last, NotSeen)
    BY DEF EnterStage
<1> DEFINE null == Top.pipe = NoRaw /\ ~Top.first /\ stdin_override = NoRaw
           input == IF null THEN Handle(d) ELSE Top.pipe
           F == Front(stack)
           g == WithPipe(Top, NoRaw)
           taken == Append(F, g)
           e == Frame("stage", rs)
           capture == (~last \/ Capturing) /\ ~has_stdout_redirection(rs)
           f == Stage(e, Top.first, input, last, capture)
<1>2. \E ok : /\ stack' = Append(taken, f) \/ stack' = AfterStage(stack, last, NoRaw)
              /\ event' = Event("stage", rs, ok, last, NotSeen)
    BY <1>1, Zenon DEF WithPipe, Stage
<1>3. event'.kind = "stage" /\ event'.redirections = rs /\ event'.last = last
    BY <1>2, EventFields
<1>4. ~LostByConstruct(rs) /\ IsStack(stack) /\ \A i \in 1..Len(stack) : IsFrame(stack[i])
    BY <1>3, StackFacts DEF Lost
<1>5. /\ Plains(rs) /\ (Names(rs, 1) => ~Captures(stack, Len(stack)))
      /\ last \/ \A i \in 1..Len(rs) : ~(rs[i].op = ">|" /\ rs[i].explicit /\ rs[i].fd = 1)
    BY <1>3, <1>4, ConstructNames
<1>6. InPipeline
    BY DEF EnterStage
<1>7. stack # <<>> /\ Last(stack).kind = "pipeline" /\ Top = Last(stack) /\ IsFrame(Last(stack))
    BY <1>6, InPipelineFacts, TopFrame
<1>8. g.kind = "pipeline" /\ g.redirections = Last(stack).redirections /\ g.capture = Last(stack).capture
    BY <1>7 DEF WithPipe, IsFrame
<1>9. taken = Append(Front(stack), g)
    OBVIOUS
<1>10. IsFrame(e) /\ e.kind = "stage" /\ e.redirections = rs
    BY FrameFields
<1>11. capture <=> (~last \/ Captures(stack, Len(stack))) /\ ~has_stdout_redirection(rs)
    BY DEF Capturing, Captures
<1> HIDE DEF g, e, capture, input
<1>12. f.kind = "stage" /\ f.redirections = rs /\ f.last = last /\ f.capture = capture
    BY <1>10, StageFields, StageFlags
<1> HIDE DEF f, taken
<1>13. IsStack(taken) /\ Decent(taken) /\ (Captures(taken, Len(taken)) <=> Captures(stack, Len(stack)))
    <2>1. Decent(taken)
        BY <1>4, <1>7, <1>8, <1>9, DecentReplaced
    <2> DEFINE n == Len(F)
    <2>5. n = Len(F) /\ F = Front(stack)
        OBVIOUS
    <2> HIDE DEF n, F
    <2>6. IsStack(stack) /\ stack # <<>> /\ taken = Append(F, g)
        BY <1>4, <1>7, <1>9, <2>5
    <2>2. IsStack(F) /\ n \in Nat /\ Len(stack) = n + 1 /\ Last(stack) = stack[n + 1] /\ \A i \in 1..n : F[i] = stack[i]
        BY ONLY <2>5, <2>6, StackFront
    <2>7. IsStack(taken) /\ Deeper(F, g, taken)
        BY ONLY <2>2, <2>6, StackAppend
    <2>3. IsStack(taken) /\ Len(taken) = n + 1 /\ taken[n + 1] = g /\ \A i \in 1..n : taken[i] = F[i]
        BY <2>5, <2>7 DEF Deeper
    <2>4. \A i \in 1..(n + 1) : taken[i].capture = stack[i].capture
        <3>1. \A i \in 1..(n + 1) : i \in 1..n \/ i = n + 1
            BY <2>2
        <3> QED
            BY <1>8, <2>2, <2>3, <3>1
    <2> QED
        BY <2>1, <2>2, <2>3, <2>4 DEF Captures
<1>14. DecentAfter(f, Captures(taken, Len(taken)))
    <2>1. capture <=> (~last \/ Captures(stack, Len(stack))) /\ ~Names(rs, 1)
        <3> DEFINE captures == Captures(stack, Len(stack))
        <3>1. Names(rs, 1) => ~captures
            BY <1>5
        <3>2. capture <=> (~last \/ captures) /\ ~has_stdout_redirection(rs)
            BY <1>11
        <3> HIDE DEF captures
        <3>3. (~last \/ captures) /\ ~has_stdout_redirection(rs) <=> (~last \/ captures) /\ ~Names(rs, 1)
            BY <1>5, <3>1, StageCollects
        <3> QED
            BY <3>2, <3>3 DEF captures
    <2> QED
        BY <1>5, <1>12, <1>13, <2>1 DEF DecentAfter
<1>15. Decent(AfterStage(stack, last, NoRaw))
    BY <1>4, DecentStage
<1> QED
    BY <1>2, <1>13, <1>14, <1>15, DecentAppend

\* What the frames say stays so.
LEMMA StepDecent ==
    ASSUME NEW h, Ledger(h, stack, d), Decent(stack), Next, ~Lost(event'.redirections)
    PROVE  Decent(stack')
<1>0. IsStack(stack) /\ \A i \in 1..Len(stack) : IsFrame(stack[i])
    BY StackFacts
<1>1. ASSUME NEW last, NEW pipe PROVE Decent(AfterStage(stack, last, pipe))
    BY <1>0, DecentStage
<1>2. CASE ExternalCommand
    <2>1. \E last, pipe : \/ stack' = (IF InPipeline THEN Front(stack) ELSE stack)
                          \/ stack' = AfterStage(stack, last, pipe)
        BY <1>2, Zenon DEF ExternalCommand
    <2>2. InPipeline => Decent(Front(stack))
        BY <1>0, InPipelineFacts, DecentFront
    <2> QED
        BY <1>1, <2>1, <2>2
<1>3. CASE BuiltinCaptured
    <2>1. \E last, pipe : stack' = AfterStage(stack, last, pipe)
        BY <1>3, Zenon DEF BuiltinCaptured
    <2> QED
        BY <1>1, <2>1
<1>4. CASE Builtin
    <2>1. \E last, pipe : stack' = AfterStage(stack, last, pipe)
        BY <1>4, Zenon DEF Builtin
    <2> QED
        BY <1>1, <2>1
<1>5. CASE NoCommand
    BY <1>5 DEF NoCommand
<1>6. CASE EnterGroup
    BY ONLY <1>6, Ledger(h, stack, d), Decent(stack), ~Lost(event'.redirections), GroupDecent
<1>7. CASE EnterSubshell
    BY ONLY <1>7, Ledger(h, stack, d), Decent(stack), ~Lost(event'.redirections), SubshellDecent
<1>8. CASE EnterCaptured
    BY ONLY <1>8, Ledger(h, stack, d), Decent(stack), ~Lost(event'.redirections), CapturedDecent
<1>9. CASE BeginPipeline
    BY ONLY <1>9, Ledger(h, stack, d), Decent(stack), PipelineDecent
<1>10. CASE EnterStage
    BY ONLY <1>10, Ledger(h, stack, d), Decent(stack), ~Lost(event'.redirections), EnterStageDecent
<1>11. ASSUME stack # <<>> PROVE Decent(Front(stack))
    BY <1>0, <1>11, DecentFront
<1>12. CASE LeaveGroup \/ LeaveSubshell \/ LeaveCaptured
    <2>1. stack' = Front(stack) /\ Top.kind \in {"group", "subshell", "captured"}
        BY <1>12 DEF LeaveGroup, LeaveSubshell, LeaveCaptured
    <2>2. stack # <<>>
        BY <2>1, TopFacts
    <2> QED
        BY <1>11, <2>1, <2>2
<1>13. CASE LeaveStage
    <2>1. Top.kind = "stage" /\ \E last, pipe : stack' = AfterStage(Front(stack), last, pipe)
        BY <1>13, Zenon DEF LeaveStage
    <2>2. stack # <<>>
        BY <2>1, TopFacts
    <2>3. IsStack(Front(stack)) /\ \A i \in 1..Len(Front(stack)) : IsFrame(Front(stack)[i])
        <3>1. IsStack(Front(stack)) /\ Len(Front(stack)) \in Nat /\ Len(stack) = Len(Front(stack)) + 1
              /\ \A i \in 1..Len(Front(stack)) : Front(stack)[i] = stack[i]
            BY <1>0, <2>2, StackFront
        <3> QED
            BY <1>0, <3>1
    <2> QED
        BY <1>11, <2>1, <2>2, <2>3, DecentStage
<1> QED
    BY <1>2, <1>3, <1>4, <1>5, <1>6, <1>7, <1>8, <1>9, <1>10, <1>12, <1>13 DEF Next

-----------------------------------------------------------------------------
(* What the constructs hold: inputs of stages, and tables of those around  *)
(* a subshell                                                              *)

\* What is held, is held of a state that has some of it already.
LEMMA RebasedOn ==
    ASSUME NEW a, NEW t, NEW all, NEW lent, Held(a, t, all, lent), NEW own \in SUBSET all, NEW some \in SUBSET lent
    PROVE  \E b : /\ Held(b, t, own, some)
                  /\ \A n \in DOMAIN t.open : n \notin own /\ n \notin some /\ n \notin CopiesAt(t, own) /\ n \notin FilesAt(t)
                        => n \in DOMAIN b.open /\ b.open[n] = t.open[n]
<1> DEFINE b == Before(t, own, some)
           D == DOMAIN t.open \ (some \cup CopiesAt(t, own) \cup FilesAt(t))
<1>1. /\ IsState(t) /\ Accounted(a, t, all, lent) /\ KernelOK(a) /\ KernelOK(t)
      /\ all \subseteq 0..2 /\ all \subseteq DOMAIN t.saved_fds
    BY DEF Held, KernelOK
<1>2. /\ IsState(b) /\ b.fds = <<>>
      /\ b.open = [n \in D |-> IF n \in own THEN t.open[t.saved_fds[n]] ELSE t.open[n]]
      /\ b.cloexec = t.cloexec \cap D
    BY <1>1, BeforeFields
<1>3. \A n : n \in D <=> n \in DOMAIN t.open /\ n \notin some
                         /\ (\A f \in own : n # t.saved_fds[f]) /\ (\A f \in Files(t) : n # t.fds[f].raw)
    BY DEF CopiesAt, FilesAt
<1>11. \A n \in DOMAIN t.open : n \notin some /\ n \notin CopiesAt(t, own) /\ n \notin FilesAt(t) => n \in D
    OBVIOUS
<1> HIDE DEF b, D
<1>4. DOMAIN b.open = D /\ IsFunction(b.open)
    BY <1>2 DEF IsFunction
<1>5. DOMAIN a.open \subseteq D
    BY <1>1, <1>3 DEF Accounted
<1>6. KernelOK(b)
    <2>1. IsFiniteSet(D)
        <3>1. D \subseteq DOMAIN t.open /\ IsFiniteSet(DOMAIN t.open)
            BY <1>1, <1>3 DEF KernelOK
        <3> QED
            BY ONLY <3>1, FS_Subset
    <2>2. 0..2 \subseteq D /\ D \subseteq Nat
        BY <1>1, <1>3, <1>5 DEF KernelOK
    <2>3. b.cloexec \subseteq D \ (0..2)
        BY <1>1, <1>2 DEF KernelOK
    <2> QED
        BY <1>2, <1>4, <2>1, <2>2, <2>3 DEF KernelOK
<1>7. Accounted(b, t, own, some)
    BY <1>1, <1>3, <1>4 DEF Accounted
<1>8. Contents(b, t, own)
    <2>1. \A n \in D : n \notin own => t.open[n] = b.open[n]
        BY <1>2
    <2>2. \A f \in own : f \in D /\ t.open[t.saved_fds[f]] = b.open[f]
        <3>1. \A f \in own : f \in 0..2
            BY <1>1
        <3>2. \A f \in own : f \in D
            BY <1>5, <3>1, <1>1 DEF KernelOK
        <3> QED
            BY <1>2, <3>2
    <2>3. \A n \in D : n \in t.cloexec <=> n \in b.cloexec
        BY <1>2
    <2> QED
        BY <1>4, <2>1, <2>2, <2>3 DEF Contents
<1>10. Held(b, t, own, some)
    <2>1. own \subseteq 0..2 /\ own \subseteq DOMAIN t.saved_fds
        BY <1>1
    <2> QED
        BY <1>1, <1>6, <1>7, <1>8, <2>1 DEF Held
<1> QED
    BY <1>2, <1>4, <1>10, <1>11

\* Whatever is held before a step is held after it.
Carries(t, own, some, u, own2, lent2) == \A b : Held(b, t, own, some) => Held(b, u, own2, lent2)

\* They are nobody's of those.
Apart(t, own, some, S) ==
    \A n \in S : /\ n \in DOMAIN t.open /\ n \notin Standard
                 /\ n \notin some /\ n \notin CopiesAt(t, own) /\ n \notin FilesAt(t)

\* A step that keeps what is held disturbs nothing else.
LEMMA Undisturbs ==
    ASSUME NEW a, NEW t, NEW all, NEW lent, Held(a, t, all, lent), NEW own \in SUBSET all, NEW some \in SUBSET lent,
           NEW u, NEW own2, NEW lent2, Carries(t, own, some, u, own2, lent2),
           NEW S, Apart(t, own, some, S)
    PROVE  Undisturbed(t, u, S)
<1>1. PICK b : /\ Held(b, t, own, some)
               /\ \A n \in DOMAIN t.open : n \notin own /\ n \notin some /\ n \notin CopiesAt(t, own) /\ n \notin FilesAt(t)
                        => n \in DOMAIN b.open /\ b.open[n] = t.open[n]
    BY RebasedOn
<1>2. Held(b, u, own2, lent2)
    BY <1>1 DEF Carries
<1>3. own \subseteq Standard /\ own2 \subseteq Standard
    BY <1>1, <1>2 DEF Held, Standard
<1>4. DOMAIN b.open \subseteq DOMAIN u.open /\ \A n \in DOMAIN b.open : n \notin own2 => u.open[n] = b.open[n]
    BY <1>2 DEF Held, Accounted, Contents
<1> QED
    BY <1>1, <1>3, <1>4 DEF Undisturbed, Apart

Inputs(st) == {st[i].pipe : i \in {j \in 1..Len(st) : st[j].kind = "stage" /\ st[j].pipe # NoRaw}}

TableOf(st, i) == {st[i].fds[fd].raw : fd \in {x \in DOMAIN st[i].fds : st[i].fds[x].kind = "File"}}

Away(st) == Inputs(st) \cup UNION {TableOf(st, i) : i \in {j \in 1..Len(st) : st[j].kind = "subshell"}}

LEMMA AwayMembers ==
    ASSUME NEW st
    PROVE  /\ \A i \in 1..Len(st) : st[i].kind = "stage" /\ st[i].pipe # NoRaw => st[i].pipe \in Away(st)
           /\ \A i \in 1..Len(st) : st[i].kind = "subshell" =>
                 \A fd \in DOMAIN st[i].fds : st[i].fds[fd].kind = "File" => st[i].fds[fd].raw \in Away(st)
<1>1. \A i \in 1..Len(st) : st[i].kind = "stage" /\ st[i].pipe # NoRaw => st[i].pipe \in Inputs(st)
    BY DEF Inputs
<1>2. ASSUME NEW i \in 1..Len(st), st[i].kind = "subshell", NEW fd \in DOMAIN st[i].fds, st[i].fds[fd].kind = "File"
      PROVE  st[i].fds[fd].raw \in Away(st)
    <2>1. st[i].fds[fd].raw \in TableOf(st, i)
        BY <1>2 DEF TableOf
    <2>2. i \in {j \in 1..Len(st) : st[j].kind = "subshell"}
        BY <1>2
    <2> HIDE DEF TableOf
    <2> QED
        BY <2>1, <2>2 DEF Away
<1> QED
    BY <1>1, <1>2 DEF Away


\* A table's Files are open on what the streams were meant to be; a stage's
\* input is not in it.
TableFits(st, n, fds, t) ==
    \A fd \in DOMAIN fds :
       /\ fds[fd].kind = "File" /\ fds[fd].raw \in DOMAIN t.open
       /\ t.open[fds[fd].raw] = StreamsOf(st, n)[fd] \/ (fd = 0 /\ HasInput(st, n))

AwayFits(st, t) ==
    /\ \A i \in 1..Len(st) : st[i].kind = "stage" /\ st[i].pipe # NoRaw => IsInput(t, st[i].pipe)
    /\ \A i \in 1..Len(st) : st[i].kind = "subshell" => TableFits(st, i - 1, st[i].fds, t)

\* It depends on the numbers being open on the same.
LEMMA AwaySame ==
    ASSUME NEW st, NEW t, AwayFits(st, t), NEW u, Undisturbed(t, u, Away(st))
    PROVE  AwayFits(st, u)
<1>1. ASSUME NEW i \in 1..Len(st), st[i].kind = "stage", st[i].pipe # NoRaw PROVE IsInput(u, st[i].pipe)
    BY <1>1, AwayMembers DEF AwayFits, IsInput, Undisturbed
<1>2. ASSUME NEW i \in 1..Len(st), st[i].kind = "subshell" PROVE TableFits(st, i - 1, st[i].fds, u)
    <2>1. TableFits(st, i - 1, st[i].fds, t)
        BY <1>2 DEF AwayFits
    <2>2. \A fd \in DOMAIN st[i].fds : st[i].fds[fd].kind = "File" => st[i].fds[fd].raw \in Away(st)
        BY <1>2, AwayMembers
    <2> QED
        BY <2>1, <2>2 DEF TableFits, Undisturbed
<1> QED
    BY <1>1, <1>2 DEF AwayFits

LEMMA TableSame ==
    ASSUME NEW st, IsStack(st), NEW st2, IsStack(st2), NEW n \in Nat, n <= Len(st), n <= Len(st2),
           \A i \in 1..n : st2[i] = st[i], NEW fds, NEW t, TableFits(st, n, fds, t)
    PROVE  TableFits(st2, n, fds, t)
<1>1. PICK S : st \in Seq(S)
    BY DEF IsStack
<1>2. PICK T : st2 \in Seq(T)
    BY DEF IsStack
<1>3. StreamsOf(st2, n) = StreamsOf(st, n)
    BY <1>1, <1>2, SameStreamsOf
<1>4. HasInput(st2, n) <=> HasInput(st, n)
    BY DEF HasInput
<1> QED
    BY <1>3, <1>4 DEF TableFits

\* Other constructs hold nothing.
LEMMA AwayPrefix ==
    ASSUME NEW st, IsStack(st), NEW st2, IsStack(st2), NEW n \in Nat, n <= Len(st), n <= Len(st2),
           \A i \in 1..n : st2[i] = st[i], \A i \in 1..Len(st2) : i \in 1..n \/ st2[i].kind \notin {"stage", "subshell"},
           NEW t, AwayFits(st, t)
    PROVE  AwayFits(st2, t)
<1>0. Len(st) \in Nat /\ \A i \in 1..n : i \in 1..Len(st)
    BY LenProperties DEF IsStack
<1>1. ASSUME NEW i \in 1..Len(st2), st2[i].kind = "stage", st2[i].pipe # NoRaw PROVE IsInput(t, st2[i].pipe)
    <2>1. i \in 1..n /\ st2[i] = st[i] /\ i \in 1..Len(st)
        BY <1>0, <1>1
    <2> QED
        BY <1>1, <2>1 DEF AwayFits
<1>2. ASSUME NEW i \in 1..Len(st2), st2[i].kind = "subshell" PROVE TableFits(st2, i - 1, st2[i].fds, t)
    <2> DEFINE m == i - 1
    <2>1. i \in 1..n /\ st2[i] = st[i] /\ i \in 1..Len(st)
        BY <1>0, <1>2
    <2>2. m \in Nat /\ m <= Len(st) /\ m <= Len(st2) /\ \A j \in 1..m : j \in 1..n
        BY <1>0, <2>1
    <2>3. TableFits(st, m, st[i].fds, t)
        BY <1>2, <2>1 DEF AwayFits
    <2> HIDE DEF m
    <2>4. TableFits(st2, m, st[i].fds, t)
        BY <2>2, <2>3, TableSame
    <2> QED
        BY <2>1, <2>4 DEF m
<1> QED
    BY <1>1, <1>2 DEF AwayFits

\* Numbers around a subshell.
LEMMA AwayBeside ==
    ASSUME NEW h, NEW st, IsStack(st), Outer(h, st), NEW N, N = Len(st), NEW i \in 1..N, st[i].kind = "subshell",
           NEW n, n \in DOMAIN h[i].open, n \notin Standard
    PROVE  n \in DOMAIN h[N].open
<1>1. N \in Nat /\ i \in Nat /\ i <= N
    BY LenProperties DEF IsStack
<1>2. KeepsOpen(h[i], h[N])
    BY <1>1, KeptOpen
<1> QED
    BY <1>2 DEF KeepsOpen

LEMMA InputsAway ==
    ASSUME NEW h, Ledger(h, stack, d), NEW N, N = Len(stack), NEW i \in 1..N,
           stack[i].kind = "stage", stack[i].pipe # NoRaw
    PROVE  \/ i \in FramesAt(stack, N) /\ stack[i].pipe \in Pipes(stack, N)
           \/ IsBeside(h[N], d, stack[i].pipe)
<1>1. IsStack(stack) /\ Outer(h, stack) /\ N \in Nat
    BY LedgerStack, LenProperties DEF Ledger, IsStack
<1>2. CASE i \in FramesAt(stack, N)
    BY <1>2 DEF Pipes
<1>3. CASE i \notin FramesAt(stack, N)
    <2> DEFINE inner == {j \in i..N : stack[j].kind = "subshell"}
    <2>1. inner # {}
        BY <1>3 DEF FramesAt
    <2>2. inner \in SUBSET Nat
        OBVIOUS
    <2>3. PICK j \in inner : \A k \in inner : j <= k
        <3> HIDE DEF inner
        <3> QED
            BY <2>1, <2>2, OfSave!LeastNumber
    <2>4. j \in i..N /\ stack[j].kind = "subshell" /\ j # i
        OBVIOUS
    <2> DEFINE k == j - 1
    <2>5. j \in 1..N /\ k \in Nat /\ i \in 1..k /\ \A x \in i..k : x \in i..N /\ ~(j <= x)
        BY <1>1, <2>4
    <2>6. i \in FramesAt(stack, k)
        BY <2>3, <2>5 DEF FramesAt
    <2>7. Level(h[k], stack, k, h[j])
        BY <1>1, <2>4, <2>5 DEF Outer
    <2> HIDE DEF k
    <2>8. stack[i].pipe \in Pipes(stack, k)
        BY <2>6 DEF Pipes
    <2>9. stack[i].pipe \in DOMAIN h[j].open /\ stack[i].pipe \notin Standard
        BY <2>7, <2>8, LentApart DEF Level
    <2>10. stack[i].pipe \in DOMAIN h[N].open
        BY <1>1, <2>4, <2>5, <2>9, AwayBeside
    <2> QED
        BY <2>9, <2>10 DEF IsBeside
<1> QED
    BY <1>2, <1>3

LEMMA TablesAway ==
    ASSUME NEW h, Ledger(h, stack, d), NEW N, N = Len(stack), NEW i \in 1..N,
           stack[i].kind = "subshell", NEW n \in TableOf(stack, i)
    PROVE  IsBeside(h[N], d, n)
<1>1. IsStack(stack) /\ Outer(h, stack) /\ N \in Nat
    BY LedgerStack, LenProperties DEF Ledger, IsStack
<1>2. PICK fd \in DOMAIN stack[i].fds : stack[i].fds[fd].kind = "File" /\ n = stack[i].fds[fd].raw
    BY DEF TableOf
<1> DEFINE k == i - 1
<1>3. Level(h[k], stack, k, h[i]) /\ stack[i].fds = h[i].fds
    BY <1>1 DEF Outer
<1> HIDE DEF k
<1>4. n \in DOMAIN h[i].open /\ n \notin Standard
    BY <1>2, <1>3, FileApart DEF Level
<1>5. n \in DOMAIN h[N].open
    BY <1>1, <1>4, AwayBeside
<1> QED
    BY <1>4, <1>5 DEF IsBeside

\* What the constructs hold is nobody else's.
LEMMA AwayApart ==
    ASSUME NEW h, Ledger(h, stack, d), NEW N, N = Len(stack), NEW n \in Away(stack)
    PROVE  /\ n \in DOMAIN d.open /\ n \notin Standard
           /\ n \notin CopiesAt(d, Own(stack, N)) /\ n \notin FilesAt(d)
           /\ InPipeline => n # Top.pipe
<1> DEFINE a == h[N]
           own == Own(stack, N)
           lent == Pipes(stack, N)
<1>1. Held(a, d, own, lent) /\ OneEach(stack, N)
    BY DEF Ledger, Level
<1>2. IsStack(stack) /\ N \in Nat
    BY LedgerStack, LenProperties DEF IsStack
<1>3. InPipeline => N \in FramesAt(stack, N) /\ stack[N].kind = "pipeline" /\ Top = stack[N]
    <2> SUFFICES ASSUME InPipeline PROVE N \in FramesAt(stack, N) /\ stack[N].kind = "pipeline" /\ Top = stack[N]
        OBVIOUS
    <2>1. stack # <<>> /\ Top = Last(stack) /\ Last(stack).kind = "pipeline"
        BY InPipelineFacts
    <2>2. Last(stack) = stack[N] /\ N \in 1..N
        <3>1. Len(Front(stack)) \in Nat /\ Len(stack) = Len(Front(stack)) + 1 /\ Last(stack) = stack[Len(Front(stack)) + 1]
            BY <1>2, <2>1, StackFront
        <3> QED
            BY <1>2, <3>1
    <2> QED
        BY <1>2, <2>1, <2>2 DEF FramesAt
<1>4. InPipeline /\ Top.pipe # NoRaw => Top.pipe \in lent
    BY <1>3 DEF Pipes
<1>5. ASSUME IsBeside(a, d, n) PROVE /\ n \in DOMAIN d.open /\ n \notin Standard /\ n \notin lent
                                     /\ n \notin CopiesAt(d, own) /\ n \notin FilesAt(d)
    <2> HIDE DEF a, own, lent
    <2> QED
        BY <1>1, <1>5, BesideApart
<1>6. n \in Nat /\ n # NoRaw
    <2>1. n \in lent \/ IsBeside(a, d, n)
        <3>1. CASE n \in Inputs(stack)
            <4>1. PICK i \in 1..N : stack[i].kind = "stage" /\ stack[i].pipe # NoRaw /\ n = stack[i].pipe
                BY <3>1 DEF Inputs
            <4> QED
                BY <4>1, InputsAway
        <3>2. CASE n \notin Inputs(stack)
            <4>1. PICK i \in 1..N : stack[i].kind = "subshell" /\ n \in TableOf(stack, i)
                BY <3>2 DEF Away
            <4> QED
                BY <4>1, TablesAway
        <3> QED
            BY <3>1, <3>2
    <2>2. n \in DOMAIN d.open
        <3>1. n \in lent => n \in DOMAIN d.open
            <4> HIDE DEF a, own, lent
            <4> QED
                BY <1>1, LentApart
        <3> QED
            BY <1>5, <2>1, <3>1
    <2> QED
        BY <1>1, <2>2 DEF Held, KernelOK, NoRaw
<1>7. CASE IsBeside(a, d, n)
    BY <1>4, <1>5, <1>6, <1>7
<1>8. CASE ~IsBeside(a, d, n)
    <2>1. n \in Inputs(stack)
        <3> SUFFICES ASSUME n \notin Inputs(stack) PROVE FALSE
            OBVIOUS
        <3>1. PICK i \in 1..N : stack[i].kind = "subshell" /\ n \in TableOf(stack, i)
            BY DEF Away
        <3> QED
            BY <1>8, <3>1, TablesAway
    <2>2. PICK i \in 1..N : stack[i].kind = "stage" /\ stack[i].pipe # NoRaw /\ n = stack[i].pipe
        BY <2>1 DEF Inputs
    <2>3. i \in FramesAt(stack, N) /\ n \in lent
        BY <1>8, <2>2, InputsAway
    <2>4. /\ n \in DOMAIN d.open /\ n \notin Standard
          /\ n \notin CopiesAt(d, own) /\ n \notin FilesAt(d)
        <3> HIDE DEF a, own, lent
        <3> QED
            BY <1>1, <2>3, LentApart
    <2>5. InPipeline => n # Top.pipe
        <3> SUFFICES ASSUME InPipeline, n = Top.pipe PROVE FALSE
            OBVIOUS
        <3>1. i = N
            BY <1>1, <1>3, <2>2, <2>3 DEF OneEach
        <3> QED
            BY <1>3, <2>2, <3>1
    <2> QED
        BY <2>4, <2>5
<1> QED
    BY <1>7, <1>8

\* The inputs of stages are open on pipes, and the Files of every table, those of
\* the parents of subshells included, on what the streams were meant to be.
Kept(st, t) == AwayFits(st, t) /\ TableFits(st, Len(st), t.fds, t)

LEMMA NoTable ==
    ASSUME NEW st, NEW n, NEW t
    PROVE  TableFits(st, n, <<>>, t)
BY DEF TableFits

\* The innermost construct holds what those around it do not.
LEMMA LastApart ==
    ASSUME NEW h, Ledger(h, stack, d), stack # <<>>, NEW F, F = Front(stack), NEW f, f = Last(stack),
           f.kind # "subshell", f.pipe # NoRaw, NEW n \in Away(F)
    PROVE  n # f.pipe
<1> DEFINE N == Len(stack)
           m == Len(F)
           a == h[N]
           own == Own(stack, N)
           lent == Pipes(stack, N)
<1>1. Held(a, d, own, lent) /\ OneEach(stack, N)
    BY DEF Ledger, Level
<1>2. IsStack(stack)
    BY LedgerStack
<1>8. m = Len(F) /\ N = Len(stack)
    OBVIOUS
<1>3. m \in Nat /\ N = m + 1 /\ (\A i \in 1..m : F[i] = stack[i]) /\ f = stack[N] /\ N \in Nat
    <2> HIDE DEF m, N, a, own, lent
    <2>0. m = Len(F)
        BY <1>8
    <2>1. /\ IsStack(F) /\ m \in Nat /\ Len(stack) = m + 1
          /\ \A i \in 1..m : F[i] = stack[i]
          /\ Last(stack) = stack[m + 1]
        <3>1. stack # <<>> /\ F = Front(stack)
            OBVIOUS
        <3>2. IsStack(stack)
            BY <1>2
        <3> QED
            BY ONLY <2>0, <3>1, <3>2, StackFront
    <2> QED
        BY <1>8, <2>1
<1>4. N \in FramesAt(stack, N) /\ f.pipe \in lent
    BY <1>3 DEF FramesAt, Pipes
<1>5. ASSUME IsBeside(a, d, n) PROVE n # f.pipe
    <2> HIDE DEF a, own, lent
    <2> QED
        BY <1>1, <1>4, <1>5, BesideApart
<1>6. CASE n \in Inputs(F)
    <2>1. PICK i \in 1..m : F[i].kind = "stage" /\ F[i].pipe # NoRaw /\ n = F[i].pipe
        BY <1>6 DEF Inputs
    <2>2. i \in 1..N /\ stack[i].kind = "stage" /\ stack[i].pipe # NoRaw /\ n = stack[i].pipe /\ i # N
        BY <1>3, <2>1
    <2>3. CASE IsBeside(a, d, n)
        BY <1>5, <2>3
    <2>4. CASE ~IsBeside(a, d, n)
        <3>1. i \in FramesAt(stack, N)
            BY <2>2, <2>4, InputsAway
        <3> QED
            BY <1>1, <1>3, <1>4, <2>2, <3>1 DEF OneEach
    <2> QED
        BY <2>3, <2>4
<1>7. CASE n \notin Inputs(F)
    <2>1. PICK i \in 1..m : F[i].kind = "subshell" /\ n \in TableOf(F, i)
        BY <1>7 DEF Away
    <2>2. i \in 1..N /\ stack[i].kind = "subshell" /\ n \in TableOf(stack, i)
        BY <1>3, <2>1 DEF TableOf
    <2> QED
        BY <1>5, <2>2, TablesAway
<1> QED
    BY <1>6, <1>7

LEMMA AwayOfFront ==
    ASSUME NEW st, IsStack(st), st # <<>>, NEW F, F = Front(st)
    PROVE  /\ Away(F) \subseteq Away(st)
           /\ Last(st).kind \notin {"stage", "subshell"} => Away(st) = Away(F)
<1> DEFINE m == Len(F)
<1>0. m = Len(F)
    OBVIOUS
<1> HIDE DEF m
<1>1. m \in Nat /\ Len(st) = m + 1 /\ (\A i \in 1..m : F[i] = st[i]) /\ Last(st) = st[m + 1]
    BY <1>0, StackFront
<1>2. \A i \in 1..m : TableOf(F, i) = TableOf(st, i)
    BY <1>1 DEF TableOf
<1>3. ASSUME NEW n \in Away(F) PROVE n \in Away(st)
    BY <1>0, <1>1, <1>2 DEF Away, Inputs
<1>4. ASSUME NEW n \in Away(st), Last(st).kind \notin {"stage", "subshell"} PROVE n \in Away(F)
    <2>1. \A i \in 1..Len(st) : i \in 1..m \/ st[i].kind \notin {"stage", "subshell"}
        BY <1>1, <1>4
    <2>2. CASE n \in Inputs(st)
        <3>1. PICK i \in 1..Len(st) : st[i].kind = "stage" /\ st[i].pipe # NoRaw /\ n = st[i].pipe
            BY <2>2 DEF Inputs
        <3>2. i \in 1..m /\ F[i] = st[i]
            BY <1>1, <2>1, <3>1
        <3> QED
            BY <1>0, <3>1, <3>2 DEF Away, Inputs
    <2>3. CASE n \notin Inputs(st)
        <3>1. PICK i \in 1..Len(st) : st[i].kind = "subshell" /\ n \in TableOf(st, i)
            BY <2>3 DEF Away
        <3>2. i \in 1..m /\ F[i] = st[i]
            BY <1>1, <2>1, <3>1
        <3> QED
            BY <1>0, <1>2, <3>1, <3>2 DEF Away
    <2> QED
        BY <2>2, <2>3
<1> QED
    BY <1>3, <1>4

\* A step that keeps what is held disturbs none of what the constructs hold.
LEMMA AwayKept ==
    ASSUME NEW h, Ledger(h, stack, d), NEW N, N = Len(stack), NEW own \in SUBSET Own(stack, N),
           NEW some \in SUBSET Pipes(stack, N), NEW S \in SUBSET Away(stack), \A n \in S : n \notin some,
           NEW u, NEW own2, NEW lent2, Carries(d, own, some, u, own2, lent2)
    PROVE  Undisturbed(d, u, S)
<1> DEFINE a == h[N]
           all == Own(stack, N)
           lent == Pipes(stack, N)
<1>1. Held(a, d, all, lent)
    BY DEF Ledger, Level
<1>2. ASSUME NEW n \in S
      PROVE  n \in DOMAIN d.open /\ n \notin Standard /\ n \notin some
             /\ n \notin CopiesAt(d, own) /\ n \notin FilesAt(d)
    <2>1. n \in Away(stack)
        OBVIOUS
    <2>2. /\ n \in DOMAIN d.open /\ n \notin Standard
          /\ n \notin CopiesAt(d, all) /\ n \notin FilesAt(d)
        BY <2>1, AwayApart
    <2> QED
        BY <1>2, <2>2 DEF CopiesAt
<1>3. Apart(d, own, some, S)
    BY <1>2 DEF Apart
<1>4. own \in SUBSET all /\ some \in SUBSET lent
    OBVIOUS
<1> HIDE DEF a, all, lent
<1> QED
    BY <1>1, <1>3, <1>4, Undisturbs

\* What the innermost pipe is.
LEMMA LastPipe ==
    ASSUME NEW h, Ledger(h, stack, d), stack # <<>>, NEW f, f = Last(stack), f.kind # "subshell", NEW N, N = Len(stack),
           NEW some, some = LentWith({}, f.pipe)
    PROVE  /\ some \subseteq Pipes(stack, N)
           /\ \A n \in Away(Front(stack)) : n \notin some
<1>1. IsStack(stack)
    BY LedgerStack
<1>2. N \in 1..N /\ f = stack[N]
    BY <1>1, LastOf
<1>3. N \in FramesAt(stack, N)
    BY <1>2 DEF FramesAt
<1>4. \A n \in some : n = f.pipe /\ n # NoRaw
    BY DEF LentWith, Plus
<1>5. some \subseteq Pipes(stack, N)
    BY <1>2, <1>3, <1>4 DEF Pipes
<1>6. ASSUME NEW n \in Away(Front(stack)) PROVE n \notin some
    BY <1>4, <1>6, LastApart
<1> QED
    BY <1>5, <1>6

=============================================================================
