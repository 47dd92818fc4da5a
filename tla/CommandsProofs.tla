--------------------------- MODULE CommandsProofs ---------------------------
(***************************************************************************)
(* What a command finds on its descriptors is what the constructs around   *)
(* it and its own redirections mean.  The invariant that this needs is     *)
(* that of ConstructsProofs and, with it, that what the constructs hold    *)
(* stays open on what is meant (Kept).  From there one command is          *)
(* followed: a builtin's redirections one after the other                  *)
(* (BuiltinPath), those of an external command (ChildPath), and what spawn *)
(* and the dup2 calls of its child make of them (ChildSees).               *)
(***************************************************************************)
EXTENDS ConstructsProofs

-----------------------------------------------------------------------------
(* Between constructs                                                      *)

\* A construct that says nothing of the shell's streams.
LEMMA AroundSame ==
    ASSUME NEW st, IsStack(st), NEW n \in Nat, n + 1 <= Len(st), st[n + 1].kind \notin {"group", "stage"}
    PROVE  /\ StreamsOf(st, n + 1) = StreamsOf(st, n)
           /\ HasInput(st, n + 1) <=> HasInput(st, n)
<1>1. PICK S : st \in Seq(S)
    BY DEF IsStack
<1>2. StreamsOf(st, n + 1) = StreamsOf(st, n)
    BY <1>1, StreamsAround
<1>3. \A i : i \in 1..(n + 1) <=> i \in 1..n \/ i = n + 1
    OBVIOUS
<1>4. HasInput(st, n + 1) <=> HasInput(st, n)
    BY <1>3 DEF HasInput
<1> QED
    BY <1>2, <1>4

LEMMA KeptFront ==
    ASSUME NEW st, IsStack(st), st # <<>>, Last(st).kind \notin {"group", "stage", "subshell"}, NEW t, Kept(st, t),
           NEW F, F = Front(st)
    PROVE  Kept(F, t)
<1> DEFINE m == Len(F)
<1>0. m = Len(F)
    OBVIOUS
<1> HIDE DEF m
<1>1. IsStack(F) /\ m \in Nat /\ Len(st) = m + 1 /\ (\A i \in 1..m : F[i] = st[i]) /\ Last(st) = st[m + 1]
    BY <1>0, StackFront
<1>2. m = Len(F) /\ m <= Len(st) /\ m <= Len(F) /\ m + 1 <= Len(st) /\ \A i \in 1..Len(F) : i \in 1..m
    BY <1>0, <1>1
<1>3. AwayFits(F, t)
    <2>1. AwayFits(st, t)
        BY DEF Kept
    <2> QED
        BY <1>1, <1>2, <2>1, AwayPrefix
<1>4. TableFits(st, m, t.fds, t)
    <2>1. st[m + 1].kind \notin {"group", "stage"}
        BY <1>1
    <2>2. StreamsOf(st, m + 1) = StreamsOf(st, m) /\ (HasInput(st, m + 1) <=> HasInput(st, m))
        BY <1>1, <1>2, <2>1, AroundSame
    <2>3. TableFits(st, m + 1, t.fds, t)
        BY <1>1 DEF Kept
    <2> QED
        BY <2>2, <2>3 DEF TableFits
<1>5. TableFits(F, m, t.fds, t)
    BY <1>1, <1>2, <1>4, TableSame
<1> QED
    BY <1>2, <1>3, <1>5 DEF Kept

LEMMA KeptAppend ==
    ASSUME NEW st, IsStack(st), NEW t, Kept(st, t), NEW f, f.kind \notin {"group", "stage", "subshell"},
           NEW st2, st2 = Append(st, f)
    PROVE  Kept(st2, t)
<1> DEFINE m == Len(st)
<1>0. m = Len(st)
    OBVIOUS
<1> HIDE DEF m
<1>1. IsStack(st2) /\ m \in Nat /\ Len(st2) = m + 1 /\ (\A i \in 1..m : st2[i] = st[i]) /\ st2[m + 1] = f
    <2>1. IsStack(st2) /\ Deeper(st, f, st2)
        BY StackAppend
    <2> QED
        BY <1>0, <2>1 DEF Deeper
<1>2. /\ m = Len(st) /\ m <= Len(st) /\ m <= Len(st2) /\ m + 1 <= Len(st2)
      /\ \A i \in 1..Len(st2) : i \in 1..m \/ st2[i].kind \notin {"stage", "subshell"}
    BY <1>0, <1>1
<1>3. AwayFits(st2, t)
    <2>1. AwayFits(st, t)
        BY DEF Kept
    <2> QED
        BY <1>1, <1>2, <2>1, AwayPrefix
<1>4. TableFits(st2, m, t.fds, t)
    <2>1. TableFits(st, m, t.fds, t)
        BY <1>2 DEF Kept
    <2> QED
        BY <1>1, <1>2, <2>1, TableSame
<1>5. TableFits(st2, m + 1, t.fds, t)
    <2>1. st2[m + 1].kind \notin {"group", "stage"}
        BY <1>1
    <2>2. StreamsOf(st2, m + 1) = StreamsOf(st2, m) /\ (HasInput(st2, m + 1) <=> HasInput(st2, m))
        BY <1>1, <1>2, <2>1, AroundSame
    <2> QED
        BY <1>4, <2>2 DEF TableFits
<1> QED
    BY <1>1, <1>3, <1>5 DEF Kept

LEMMA KeptAfterStage ==
    ASSUME NEW st, IsStack(st), NEW t, Kept(st, t), \A i \in 1..Len(st) : IsFrame(st[i]), NEW last, NEW pipe,
           NEW st2, st2 = AfterStage(st, last, pipe)
    PROVE  Kept(st2, t)
<1> DEFINE F == Front(st)
           g == Moved(Last(st), pipe)
<1>1. CASE st = <<>> \/ Last(st).kind # "pipeline"
    BY <1>1 DEF AfterStage
<1>2. CASE st # <<>> /\ Last(st).kind = "pipeline"
    <2>1. IsStack(F)
        BY <1>2, StackFront
    <2>2. Kept(F, t)
        BY <1>2, KeptFront
    <2>3. g.kind = "pipeline"
        <3>1. IsFrame(Last(st))
            BY <1>2, LastOf
        <3> HIDE DEF g
        <3> QED
            BY <1>2, <3>1, MovedFields DEF g
    <2>4. st2 = F \/ st2 = Append(F, g)
        BY <1>2 DEF AfterStage, Moved
    <2> HIDE DEF F, g
    <2> QED
        BY <2>1, <2>2, <2>3, <2>4, KeptAppend
<1> QED
    BY <1>1, <1>2

LEMMA KeptStill ==
    ASSUME NEW st, NEW t, Kept(st, t), NEW u, Undisturbed(t, u, Away(st)), TableOpen(t, u)
    PROVE  Kept(st, u)
<1>1. AwayFits(st, u)
    BY AwaySame DEF Kept
<1>2. TableFits(st, Len(st), u.fds, u)
    <2>1. CASE u.fds = <<>>
        BY <2>1, NoTable
    <2>2. CASE u.fds = t.fds /\ Undisturbed(t, u, FilesAt(t))
        <3>1. TableFits(st, Len(st), t.fds, t)
            BY DEF Kept
        <3>2. \A fd \in DOMAIN t.fds : t.fds[fd].kind = "File" => t.fds[fd].raw \in FilesAt(t)
            BY DEF FilesAt, Files
        <3> QED
            BY <2>2, <3>1, <3>2 DEF TableFits, Undisturbed
    <2> QED
        BY <2>1, <2>2 DEF TableOpen
<1> QED
    BY <1>1, <1>2 DEF Kept

\* The pipe that the next stage of the pipeline reads from.
CommandLent == IF InPipeline THEN LentWith({}, Top.pipe) ELSE {}

LEMMA CommandLentFacts ==
    ASSUME NEW h, Ledger(h, stack, d), NEW N, N = Len(stack)
    PROVE  /\ CommandLent \in SUBSET Pipes(stack, N)
           /\ \A n \in Away(stack) : n \notin CommandLent
           /\ \A n : InPipeline /\ n = Top.pipe /\ n # NoRaw => n \in Pipes(stack, N)
<1>1. CASE ~InPipeline
    BY <1>1 DEF CommandLent
<1>2. CASE InPipeline
    <2>1. stack # <<>> /\ Top = Last(stack) /\ Last(stack).kind = "pipeline"
        BY <1>2, InPipelineFacts
    <2> DEFINE f == Last(stack)
               some == LentWith({}, f.pipe)
    <2>2. f = Last(stack) /\ f.kind # "subshell" /\ some = LentWith({}, f.pipe)
        BY <2>1
    <2>3. CommandLent = some
        BY <1>2, <2>1 DEF CommandLent
    <2>4. \A n : n = f.pipe /\ n # NoRaw => n \in some
        BY DEF LentWith, Plus
    <2>5. f = Top
        BY <2>1
    <2> HIDE DEF f, some
    <2>6. /\ some \subseteq Pipes(stack, N)
          /\ \A n \in Away(Front(stack)) : n \notin some
        BY <2>1, <2>2, LastPipe
    <2>7. Away(stack) = Away(Front(stack))
        <3>1. IsStack(stack) /\ Last(stack).kind \notin {"stage", "subshell"}
            BY <2>1, LedgerStack
        <3> QED
            BY <2>1, <3>1, AwayOfFront
    <2> QED
        BY <2>3, <2>4, <2>5, <2>6, <2>7
<1> QED
    BY <1>1, <1>2

LEMMA CommandDisturbs ==
    ASSUME NEW h, Ledger(h, stack, d), NEW N, N = Len(stack), NEW own \in SUBSET Own(stack, N),
           NEW u, NEW own2, NEW lent2, Carries(d, own, CommandLent, u, own2, lent2)
    PROVE  Undisturbed(d, u, Away(stack))
<1> DEFINE S == Away(stack)
           some == CommandLent
<1>1. S \in SUBSET Away(stack) /\ Carries(d, own, some, u, own2, lent2)
    OBVIOUS
<1>2. some \in SUBSET Pipes(stack, N) /\ \A n \in S : n \notin some
    BY CommandLentFacts
<1> HIDE DEF S, some
<1>3. Undisturbed(d, u, S)
    BY <1>1, <1>2, AwayKept
<1> QED
    BY <1>3 DEF S

LEMMA StageKept ==
    ASSUME NEW h, Ledger(h, stack, d), NEW u, Kept(stack, u), NEW last, NEW pipe,
           NEW st2, st2 = AfterStage(stack, last, pipe)
    PROVE  Kept(st2, u)
<1>1. IsStack(stack) /\ \A i \in 1..Len(stack) : IsFrame(stack[i])
    BY StackFacts
<1> QED
    BY <1>1, KeptAfterStage

LEMMA DFacts ==
    ASSUME NEW h, Ledger(h, stack, d), NEW N, N = Len(stack)
    PROVE  /\ Held(h[N], d, Own(stack, N), Pipes(stack, N))
           /\ IsState(d) /\ d.child = NoChild
           /\ DOMAIN d.fds \subseteq Standard /\ DOMAIN d.saved_fds \subseteq Standard
           /\ Lowest(d.open) \notin DOMAIN d.open
<1>1. Held(h[N], d, Own(stack, N), Pipes(stack, N))
    BY DEF Ledger, Level
<1> QED
    BY <1>1, FreshNumber DEF Ledger, Level, Held, KernelOK

LEMMA BuiltinCapturedKept ==
    ASSUME NEW h, Ledger(h, stack, d), Kept(stack, d), BuiltinCaptured
    PROVE  Kept(stack', d')
<1>1. PICK last \in Lasts :
         /\ d' = WithoutPrevious(IF last THEN d ELSE Opened(d, "pipe"))
         /\ stack' = AfterStage(stack, last, IF last THEN NoRaw ELSE Lowest(d.open))
    BY DEF BuiltinCaptured
<1> DEFINE v == IF last THEN d ELSE Opened(d, "pipe")
           N == Len(stack)
<1>2. N = Len(stack)
    OBVIOUS
<1>3. d' = WithoutPrevious(v)
    BY <1>1
<1> HIDE DEF N
<1>4. Held(h[N], d, Own(stack, N), Pipes(stack, N)) /\ IsState(d) /\ Lowest(d.open) \notin DOMAIN d.open
    BY <1>2, DFacts
<1>5. IsState(v) /\ v.fds = d.fds /\ Undisturbed(d, v, DOMAIN d.open)
    <2>1. CASE last
        BY <1>4, <2>1 DEF Undisturbed
    <2>2. CASE ~last
        <3> DEFINE w == Opened(d, "pipe")
                   x == Lowest(d.open)
        <3>1. v = w
            BY <2>2
        <3>2. IsState(w) /\ w.fds = d.fds /\ w.open = With(d.open, Lowest(d.open), "pipe")
            BY <1>4, OpenedFields
        <3>4. x = Lowest(d.open) /\ w.open = With(d.open, x, "pipe")
            BY <3>2
        <3> HIDE DEF w, x
        <3>3. DOMAIN w.open = DOMAIN d.open \cup {x} /\ \A z \in DOMAIN d.open : z # x => w.open[z] = d.open[z]
            BY <3>4 DEF With
        <3> HIDE DEF v
        <3> QED
            BY <1>4, <3>1, <3>2, <3>3, <3>4 DEF Undisturbed
    <2> QED
        BY <2>1, <2>2
<1> HIDE DEF v
<1>6. /\ d'.fds = d.fds
      /\ \A n \in DOMAIN d.open : ~(InPipeline /\ n = Top.pipe /\ n # NoRaw) => n \in DOMAIN d'.open /\ d'.open[n] = d.open[n]
    BY <1>3, <1>4, <1>5, PreviousClosed
<1>7. Undisturbed(d, d', Away(stack))
    <2>1. ASSUME NEW n \in Away(stack)
          PROVE  n \in DOMAIN d.open /\ (InPipeline => n # Top.pipe)
        BY <1>2, AwayApart
    <2> QED
        BY <1>6, <2>1 DEF Undisturbed
<1>8. Undisturbed(d, d', FilesAt(d))
    <2> DEFINE a == h[N]
               own == Own(stack, N)
               lent == Pipes(stack, N)
    <2>1. Held(a, d, own, lent)
        BY <1>4
    <2>2. \A n : InPipeline /\ n = Top.pipe /\ n # NoRaw => n \in lent
        BY <1>2, CommandLentFacts
    <2> HIDE DEF a, own, lent
    <2>3. ASSUME NEW fd \in DOMAIN d.fds, d.fds[fd].kind = "File"
          PROVE  d.fds[fd].raw \in DOMAIN d.open /\ d.fds[fd].raw \notin lent
        BY <2>1, <2>3, FileApart
    <2> QED
        BY <1>6, <2>2, <2>3 DEF Undisturbed, FilesAt, Files
<1>9. Kept(stack, d')
    <2>1. TableOpen(d, d')
        BY <1>6, <1>8 DEF TableOpen
    <2> QED
        BY <1>7, <2>1, KeptStill
<1> QED
    BY <1>1, <1>9, StageKept

LEMMA NoCommandKept ==
    ASSUME Kept(stack, d), NoCommand, ~Stays
    PROVE  Kept(stack', d')
<1>1. PICK rs \in Redirections :
         LET applied == apply_redirections(rs, d, FALSE)
         IN /\ ~InPipeline
            /\ d' = applied.s
            /\ event' = Event("nothing", rs, applied.ok, TRUE, NotSeen)
    BY DEF NoCommand
<1>2. \E ok, last, seen : event' = Event("nothing", rs, ok, last, seen)
    BY <1>1, Zenon
<1>3. event'.kind = "nothing" /\ event'.redirections = rs
    BY <1>2, EventFields
<1>4. rs = <<>>
    BY <1>3 DEF Stays, StaysChanged
<1>5. Len(rs) = 0 /\ Len(rs) \in Nat
    BY <1>4
<1>6. PICK results : OfApplyToShell!Chain(rs, Ok(d), AllToShell(rs, d), results)
    BY <1>5, AppliesToShell, Zenon DEF AllToShell
<1>7. AllToShell(rs, d) = Ok(d)
    BY <1>5, <1>6 DEF OfApplyToShell!Chain
<1>8. d' = Ok(d).s
    BY <1>1, <1>7, Zenon DEF AllToShell
<1>9. d' = d /\ stack' = stack
    BY <1>8 DEF Ok, NoCommand
<1> QED
    BY <1>9

LEMMA EnterCapturedKept ==
    ASSUME NEW h, Ledger(h, stack, d), Kept(stack, d), EnterCaptured
    PROVE  Kept(stack', d')
<1>1. PICK rs \in Redirections : stack' = Append(stack, [Frame("captured", rs) EXCEPT !.capture = TRUE])
    BY DEF EnterCaptured
<1> DEFINE e == Frame("captured", rs)
           capture == TRUE
           f == WithCapture(e, capture)
<1>2. stack' = Append(stack, f) /\ d' = d /\ ~InPipeline
    BY <1>1, Zenon DEF EnterCaptured, WithCapture
<1>3. IsFrame(e) /\ e.kind = "captured" /\ e.redirections = rs /\ e.pipe = NoRaw
    BY FrameFields
<1> HIDE DEF capture, e
<1>4. IsFrame(f) /\ f.kind = e.kind
    BY <1>3, CaptureFields
<1> HIDE DEF f
<1>5. f.kind \notin {"group", "stage", "subshell"} /\ IsStack(stack)
    BY <1>3, <1>4, LedgerStack
<1> QED
    BY <1>2, <1>5, KeptAppend

LEMMA BeginPipelineKept ==
    ASSUME NEW h, Ledger(h, stack, d), Kept(stack, d), BeginPipeline
    PROVE  Kept(stack', d')
<1> DEFINE f == Frame("pipeline", <<>>)
<1>1. stack' = Append(stack, f) /\ d' = d
    BY DEF BeginPipeline
<1>2. f.kind = "pipeline"
    BY FrameFields
<1> HIDE DEF f
<1>3. f.kind \notin {"group", "stage", "subshell"} /\ IsStack(stack)
    BY <1>2, LedgerStack
<1> QED
    BY <1>1, <1>3, KeptAppend

\* The same numbers, open on the same.
LEMMA KeptSame ==
    ASSUME NEW st, NEW t, Kept(st, t), NEW u, u.open = t.open, u.fds = t.fds
    PROVE  Kept(st, u)
BY DEF Kept, AwayFits, TableFits, IsInput

LEMMA LeaveCapturedKept ==
    ASSUME NEW h, Ledger(h, stack, d), Kept(stack, d), LeaveCaptured
    PROVE  Kept(stack', d')
<1> DEFINE F == Front(stack)
           f == Last(stack)
           rs == Top.redirections
           N == Len(stack)
           a == h[N]
           own == Own(stack, N)
           lent == Pipes(stack, N)
<1>1. F = Front(stack) /\ f = Last(stack) /\ N = Len(stack)
    OBVIOUS
<1>2. stack # <<>> /\ f.kind = "captured" /\ f = Top
    BY TopFacts DEF LeaveCaptured
<1>3. d' = InOrder(rs, d, WriteOutput).s /\ stack' = F
    BY DEF LeaveCaptured
<1>4. Held(a, d, own, lent)
    BY DFacts
<1>5. Len(rs) \in Nat
    <2>1. FrameOK(stack, Len(stack)) /\ Last(stack) = stack[Len(stack)]
        <3>1. WellFormed(stack) /\ Outer(h, stack)
            BY DEF Ledger
        <3> QED
            BY <1>2, <3>1, WithoutInnermost
    <2> QED
        BY <1>2, <2>1 DEF FrameOK
<1> HIDE DEF F, rs, N, a, own, lent
<1>6. d'.open = d.open /\ d'.fds = d.fds
    BY <1>3, <1>4, <1>5, AllOutputOpen
<1>7. Kept(stack, d')
    BY <1>6, KeptSame
<1>8. IsStack(stack) /\ Last(stack).kind \notin {"group", "stage", "subshell"}
    BY <1>2, LedgerStack
<1> QED
    BY <1>1, <1>2, <1>3, <1>7, <1>8, KeptFront

LEMMA EnterSubshellKept ==
    ASSUME NEW h, Ledger(h, stack, d), Kept(stack, d), EnterSubshell
    PROVE  Kept(stack', d')
<1>1. PICK rs \in Redirections, order \in Orders(d.fds) :
          LET clone == deep_clone(d, order)
              frame == [Frame("subshell", rs) EXCEPT !.fds = d.fds, !.saved_fds = d.saved_fds]
          IN /\ d' = IF clone.ok THEN clone.s ELSE d
             /\ stack' = IF clone.ok THEN Append(stack, frame) ELSE stack
    BY DEF EnterSubshell
<1> DEFINE clone == deep_clone(d, order)
<1>2. CASE ~clone.ok
    BY <1>1, <1>2
<1>3. CASE clone.ok
    <2> DEFINE e == Frame("subshell", rs)
               f == WithTable(e, d.fds, d.saved_fds)
               u == clone.s
               n == Len(stack)
               st2 == Append(stack, f)
    <2>1. d' = u /\ stack' = st2
        BY <1>1, <1>3 DEF WithTable
    <2>2. u = deep_clone(d, order).s /\ deep_clone(d, order).ok /\ order \in Orders(d.fds)
        BY <1>3
    <2>3. n = Len(stack) /\ st2 = Append(stack, f)
        OBVIOUS
    <2>4. IsFrame(e) /\ e.kind = "subshell"
        BY FrameFields
    <2> HIDE DEF e, u, n, st2, clone
    <2>5. f.kind = "subshell" /\ f.fds = d.fds
        BY <2>4, TableFields
    <2> HIDE DEF f
    <2>6. KernelOK(d) /\ DOMAIN d.fds \subseteq Standard
        BY <2>3 DEF Ledger, Level, Held
    <2>7. IsStack(st2) /\ n \in Nat /\ Len(st2) = n + 1 /\ st2[n + 1] = f /\ (\A i \in 1..n : st2[i] = stack[i]) /\ IsStack(stack)
        <3>1. IsStack(stack)
            BY LedgerStack
        <3>2. IsStack(st2) /\ Deeper(stack, f, st2)
            BY <2>3, <3>1, StackAppend
        <3> QED
            BY <2>3, <3>1, <3>2 DEF Deeper
    <2>8. Held(d, u, {}, {}) /\ DOMAIN u.fds = DOMAIN d.fds
        <3>1. DOMAIN d.fds \subseteq 0..2
            BY <2>6 DEF Standard
        <3> QED
            BY <2>2, <2>6, <3>1, CloneAllKeeps
    <2>9. \A k \in DOMAIN d.open : k \in DOMAIN u.open /\ u.open[k] = d.open[k]
        BY <2>8 DEF Held, Accounted, Contents
    <2>10. AwayFits(stack, d) /\ TableFits(stack, n, d.fds, d)
        BY <2>3 DEF Kept
    <2>11. AwayFits(stack, u) /\ TableFits(stack, n, d.fds, u)
        BY <2>9, <2>10 DEF AwayFits, TableFits, IsInput
    <2>12. n <= Len(stack) /\ n <= Len(st2) /\ n + 1 <= Len(st2) /\ (\A i \in 1..Len(st2) : i \in 1..n \/ i = n + 1) /\ n + 1 \in 1..Len(st2) /\ n + 1 - 1 = n
        BY <2>3, <2>7
    <2>13. TableFits(st2, n, d.fds, u)
        BY <2>7, <2>11, <2>12, TableSame
    <2>14. AwayFits(st2, u)
        <3>1. ASSUME NEW i \in 1..Len(st2), st2[i].kind = "stage", st2[i].pipe # NoRaw
              PROVE  IsInput(u, st2[i].pipe)
            <4>1. i \in 1..n /\ i \in 1..Len(stack)
                BY <2>3, <2>5, <2>7, <2>12, <3>1
            <4> QED
                BY <2>7, <2>11, <3>1, <4>1 DEF AwayFits
        <3>2. ASSUME NEW i \in 1..Len(st2), st2[i].kind = "subshell"
              PROVE  TableFits(st2, i - 1, st2[i].fds, u)
            <4>1. CASE i = n + 1
                BY <2>5, <2>7, <2>12, <2>13, <4>1
            <4>2. CASE i # n + 1
                <5>1. i \in 1..n /\ i \in 1..Len(stack) /\ i - 1 \in Nat /\ i - 1 <= Len(stack) /\ i - 1 <= Len(st2)
                      /\ \A j \in 1..(i - 1) : j \in 1..n
                    BY <2>3, <2>7, <2>12, <4>2
                <5>2. TableFits(stack, i - 1, st2[i].fds, u)
                    BY <2>7, <2>11, <3>2, <5>1 DEF AwayFits
                <5> DEFINE k == i - 1
                           fds == st2[i].fds
                <5>3. TableFits(stack, k, fds, u) /\ k \in Nat /\ k <= Len(stack) /\ k <= Len(st2) /\ \A j \in 1..k : st2[j] = stack[j]
                    BY <2>7, <5>1, <5>2
                <5> HIDE DEF k, fds
                <5>4. TableFits(st2, k, fds, u)
                    BY <2>7, <5>3, TableSame
                <5> QED
                    BY <5>4 DEF k, fds
            <4> QED
                BY <4>1, <4>2
        <3> QED
            BY <3>1, <3>2 DEF AwayFits
    <2>15. AsIn(d, u)
        <3>1. AsIn(d, d)
            BY <2>6, <2>10 DEF AsIn, TableFits
        <3>2. DOMAIN d.fds \subseteq 0..2
            BY <2>6 DEF Standard
        <3> QED
            BY <2>2, <3>1, <3>2, CloneAllAsIn
    <2>16. StreamsOf(st2, n + 1) = StreamsOf(st2, n) /\ (HasInput(st2, n + 1) <=> HasInput(st2, n))
        <3>1. st2[n + 1].kind \notin {"group", "stage"}
            BY <2>5, <2>7
        <3> QED
            BY <2>7, <2>12, <3>1, AroundSame
    <2>17. TableFits(st2, n, d.fds, d)
        BY <2>7, <2>10, <2>12, TableSame
    <2>18. TableFits(st2, n, u.fds, u)
        BY <2>15, <2>17 DEF TableFits, AsIn
    <2>19. TableFits(st2, n + 1, u.fds, u)
        BY <2>16, <2>18 DEF TableFits
    <2> QED
        BY <2>1, <2>7, <2>14, <2>19 DEF Kept
<1> QED
    BY <1>2, <1>3

\* The innermost construct is a subshell: what those around it hold is beside its table.
LEMMA AwayOfSubshell ==
    ASSUME NEW h, Ledger(h, stack, d), stack # <<>>, Last(stack).kind = "subshell", NEW N, N = Len(stack),
           NEW n \in Away(stack)
    PROVE  IsBeside(h[N], d, n)
<1>1. N \in 1..N /\ Last(stack) = stack[N]
    BY LedgerStack, LastOf
<1>2. FramesAt(stack, N) = {}
    BY <1>1 DEF FramesAt
<1>3. CASE n \in Inputs(stack)
    <2>1. PICK i \in 1..N : stack[i].kind = "stage" /\ stack[i].pipe # NoRaw /\ n = stack[i].pipe
        BY <1>3 DEF Inputs
    <2> QED
        BY <1>2, <2>1, InputsAway
<1>4. CASE n \notin Inputs(stack)
    <2>1. PICK i \in 1..N : stack[i].kind = "subshell" /\ n \in TableOf(stack, i)
        BY <1>4 DEF Away
    <2> QED
        BY <2>1, TablesAway
<1> QED
    BY <1>3, <1>4

LEMMA LeaveSubshellKept ==
    ASSUME NEW h, Ledger(h, stack, d), Kept(stack, d), LeaveSubshell
    PROVE  Kept(stack', d')
<1> DEFINE F == Front(stack)
           m == Len(F)
           f == Last(stack)
           N == Len(stack)
           a == h[N]
<1>1. F = Front(stack) /\ m = Len(F) /\ f = Last(stack) /\ N = Len(stack) /\ a = h[N]
    OBVIOUS
<1>2. stack # <<>> /\ f.kind = "subshell" /\ f = Top
    BY TopFacts DEF LeaveSubshell
<1>3. d' = [clear(d) EXCEPT !.fds = f.fds, !.saved_fds = f.saved_fds] /\ stack' = F
    BY <1>2 DEF LeaveSubshell
<1> HIDE DEF F, f, m, N
<1>4. IsStack(stack) /\ IsStack(F) /\ m \in Nat /\ N = m + 1 /\ (\A i \in 1..m : F[i] = stack[i]) /\ f = stack[N]
    <2>1. IsStack(stack) /\ stack # <<>> /\ F = Front(stack) /\ m = Len(F)
        BY <1>1, <1>2, LedgerStack
    <2>2. /\ IsStack(F) /\ m \in Nat /\ Len(stack) = m + 1
          /\ \A i \in 1..m : F[i] = stack[i]
          /\ Last(stack) = stack[m + 1]
        BY ONLY <2>1, StackFront
    <2> QED
        BY <1>1, <2>1, <2>2
<1>5. N \in 1..Len(stack) /\ N - 1 = m
    BY <1>1, <1>4
<1>6. f.fds = a.fds /\ f.saved_fds = a.saved_fds
    <2>1. stack[N].kind = "subshell"
        BY <1>2, <1>4
    <2> QED
        BY <1>4, <1>5, <2>1 DEF Ledger, Outer
<1>7. Held(a, d, {}, {})
    <2>1. Own(stack, N) = {} /\ Pipes(stack, N) = {}
        <3>1. stack[m + 1].kind = "subshell"
            BY <1>2, <1>4
        <3> QED
            BY <1>4, <3>1, SubshellFacts
    <2>2. Held(a, d, Own(stack, N), Pipes(stack, N))
        BY <1>1 DEF Ledger, Level
    <2> QED
        BY <2>1, <2>2
<1> HIDE DEF a
<1>8. d' = BackTo(a, d)
    BY <1>3, <1>6 DEF BackTo
<1>9. d'.open = a.open /\ d'.fds = a.fds
    BY <1>7, <1>8, ParentAgain
<1>10. \A n \in DOMAIN a.open : d.open[n] = a.open[n]
    BY <1>7 DEF Held, Contents
<1>11. Undisturbed(d, d', Away(stack))
    <2>1. ASSUME NEW n \in Away(stack) PROVE n \in DOMAIN a.open
        <3>1. IsBeside(h[N], d, n)
            BY <1>1, <1>2, <2>1, AwayOfSubshell
        <3> QED
            BY <1>1, <3>1 DEF IsBeside
    <2> QED
        BY <1>9, <1>10, <2>1 DEF Undisturbed
<1>12. AwayFits(stack, d')
    BY <1>11, AwaySame DEF Kept
<1>13. m <= Len(stack) /\ m <= Len(F) /\ \A i \in 1..Len(F) : i \in 1..m
    BY <1>1, <1>4
<1>14. AwayFits(F, d')
    BY <1>4, <1>12, <1>13, AwayPrefix
<1>15. TableFits(F, m, d'.fds, d')
    <2>1. TableFits(stack, m, d'.fds, d')
        <3>1. stack[N].kind = "subshell" /\ stack[N].fds = d'.fds
            BY <1>2, <1>4, <1>6, <1>9
        <3> QED
            BY <1>5, <1>12, <3>1 DEF AwayFits
    <2> DEFINE fds == d'.fds
               u == d'
    <2>2. TableFits(stack, m, fds, u)
        BY <2>1
    <2> HIDE DEF fds, u
    <2>3. TableFits(F, m, fds, u)
        BY <1>4, <1>13, <2>2, TableSame
    <2> QED
        BY <2>3 DEF fds, u
<1> QED
    BY <1>1, <1>3, <1>14, <1>15 DEF Kept

\* The table is empty again.
LEMMA KeptEmpty ==
    ASSUME NEW st, IsStack(st), st # <<>>, NEW t, Kept(st, t), NEW F, F = Front(st),
           NEW u, Undisturbed(t, u, Away(F)), u.fds = <<>>
    PROVE  Kept(F, u)
<1> DEFINE m == Len(F)
<1>0. m = Len(F)
    OBVIOUS
<1> HIDE DEF m
<1>1. /\ IsStack(F) /\ m \in Nat /\ Len(st) = m + 1
      /\ \A i \in 1..m : F[i] = st[i]
      /\ Last(st) = st[m + 1]
    BY <1>0, StackFront
<1>2. m <= Len(st) /\ m <= Len(F) /\ \A i \in 1..Len(F) : i \in 1..m
    BY <1>0, <1>1
<1>3. AwayFits(st, t)
    BY DEF Kept
<1>4. AwayFits(F, t)
    BY <1>1, <1>2, <1>3, AwayPrefix
<1>5. AwayFits(F, u)
    BY <1>4, AwaySame
<1>6. TableFits(F, Len(F), u.fds, u)
    BY NoTable
<1> QED
    BY <1>5, <1>6 DEF Kept

\* The copies are those of the innermost construct.
LEMMA LastCopies ==
    ASSUME NEW h, Ledger(h, stack, d), stack # <<>>, HasCopies(Last(stack)), NEW N, N = Len(stack)
    PROVE  /\ Own(stack, N) = Standard /\ DOMAIN d.saved_fds = Standard
           /\ DOMAIN d.fds \subseteq Standard
<1>1. N \in 1..N /\ Last(stack) = stack[N]
    BY LedgerStack, LastOf
<1>2. N \in FramesAt(stack, N)
    BY <1>1 DEF FramesAt, HasCopies
<1>3. Own(stack, N) = Standard
    BY <1>1, <1>2 DEF Own, Copying
<1>4. Held(h[N], d, Own(stack, N), Pipes(stack, N)) /\ DOMAIN d.fds \subseteq Standard /\ DOMAIN d.saved_fds \subseteq Standard
    BY DFacts
<1> QED
    BY <1>3, <1>4 DEF Held

LEMMA LeaveGroupKept ==
    ASSUME NEW h, Ledger(h, stack, d), Kept(stack, d), LeaveGroup
    PROVE  Kept(stack', d')
<1> DEFINE F == Front(stack)
           f == Last(stack)
           N == Len(stack)
           a == h[N]
           some == CommandLent
           own == Standard
           none == {}
           S == Away(stack)
<1>1. F = Front(stack) /\ f = Last(stack) /\ N = Len(stack) /\ own = Standard /\ none = {}
    OBVIOUS
<1>2. stack # <<>> /\ f.kind = "group" /\ f = Top
    BY TopFacts DEF LeaveGroup
<1>3. PICK back \in Orders(d.saved_fds) : d' = restore_all_fds(d, back).s
    BY DEF LeaveGroup
<1>4. stack' = F
    BY DEF LeaveGroup
<1>5. HasCopies(f)
    BY <1>2 DEF HasCopies
<1>6. some = {}
    BY <1>2 DEF CommandLent, InPipeline
<1> HIDE DEF F, f, N, a, some, own, none, S
<1>7. Own(stack, N) = Standard /\ DOMAIN d.saved_fds = Standard /\ DOMAIN d.fds \subseteq Standard
    BY <1>1, <1>2, <1>5, LastCopies
<1>8. ASSUME NEW b, NEW lent, Held(b, d, Standard, lent)
      PROVE  Held(b, d', {}, lent) /\ d'.fds = <<>>
    BY <1>3, <1>7, <1>8, RestoresTable
<1>9. Carries(d, own, some, d', none, some)
    BY <1>1, <1>8 DEF Carries
<1>10. d'.fds = <<>>
    <2>1. Held(h[N], d, Standard, Pipes(stack, N))
        BY <1>1, <1>7, DFacts
    <2> QED
        BY <1>8, <2>1
<1>11. Undisturbed(d, d', Away(stack))
    <2>1. own \in SUBSET Own(stack, N)
        BY <1>1, <1>7
    <2> QED
        BY <1>1, <1>9, <2>1, CommandDisturbs DEF some
<1>12. IsStack(stack)
    BY LedgerStack
<1>13. Undisturbed(d, d', Away(F))
    BY <1>1, <1>2, <1>11, <1>12, AwayOfFront DEF Undisturbed
<1> QED
    BY <1>1, <1>2, <1>4, <1>10, <1>12, <1>13, KeptEmpty

LEMMA LeaveStageKept ==
    ASSUME NEW h, Ledger(h, stack, d), Kept(stack, d), LeaveStage
    PROVE  Kept(stack', d')
<1> DEFINE F == Front(stack)
           f == Last(stack)
           N == Len(stack)
           pipe == f.pipe
           rest == {}
           lent == LentWith(rest, pipe)
           none == {}
           closed == {pipe} \ {NoRaw}
<1>1. F = Front(stack) /\ f = Last(stack) /\ N = Len(stack)
    OBVIOUS
<1>2. stack # <<>> /\ f.kind = "stage" /\ f = Top
    BY TopFacts DEF LeaveStage
<1>3. PICK back \in Orders(d.saved_fds) :
         LET s == restore_all_fds(d, back).s
             feeds == Top.capture /\ ~Top.last
         IN /\ d' = Close(IF feeds THEN Opened(s, "pipe") ELSE s, {Top.pipe} \ {NoRaw})
            /\ stack' = AfterStage(Front(stack), Top.last, IF feeds THEN Lowest(s.open) ELSE NoRaw)
    BY DEF LeaveStage
<1> DEFINE s == restore_all_fds(d, back).s
           v == Opened(s, "pipe")
           next == Lowest(s.open)
<1>4. d' = Close(s, closed) \/ d' = Close(v, closed)
    BY <1>2, <1>3
<1>5. \E last, next2 : stack' = AfterStage(F, last, next2)
    BY <1>3
<1>6. lent = LentWith(rest, pipe) /\ closed = {pipe} \ {NoRaw} /\ s = restore_all_fds(d, back).s /\ v = Opened(s, "pipe")
      /\ next = Lowest(s.open) /\ pipe \notin rest /\ rest = {} /\ none = {} /\ pipe = f.pipe
    OBVIOUS
<1>7. HasCopies(f) /\ f.kind # "subshell"
    BY <1>2 DEF HasCopies
<1> HIDE DEF F, f, N, pipe, rest, lent, none, closed, s, v, next
<1>8. Own(stack, N) = Standard /\ DOMAIN d.saved_fds = Standard /\ DOMAIN d.fds \subseteq Standard
    BY <1>1, <1>2, <1>7, LastCopies
<1>9. ASSUME NEW b, NEW held, Held(b, d, Standard, held)
      PROVE  Held(b, s, {}, held) /\ s.fds = <<>>
    BY <1>6, <1>8, <1>9, RestoresTable
<1>10. ASSUME NEW b, Held(b, d, Standard, lent)
       PROVE  Held(b, s, none, lent) /\ s.fds = <<>>
    BY <1>6, <1>9, <1>10
<1>11. lent \subseteq Pipes(stack, N) /\ \A n \in Away(F) : n \notin lent
    BY <1>1, <1>2, <1>6, <1>7, LastPipe
<1>12. Held(h[N], d, Standard, Pipes(stack, N)) /\ IsStack(stack)
    BY <1>1, <1>8, DFacts, LedgerStack
<1> DEFINE own == Standard
           S == Away(F)
<1>13. ASSUME NEW held, Carries(d, own, lent, d', none, held)
       PROVE  Undisturbed(d, d', S)
    <2>1. /\ own \in SUBSET Own(stack, N) /\ lent \in SUBSET Pipes(stack, N)
          /\ S \in SUBSET Away(stack) /\ \A n \in S : n \notin lent
        BY <1>1, <1>2, <1>8, <1>11, <1>12, AwayOfFront
    <2> HIDE DEF own, S
    <2> QED
        BY <1>1, <1>13, <2>1, AwayKept

\* A pipe that is closed, after s or after one more.
<1>14. ASSUME NEW x, NEW held, NEW more, more = LentWith(held, pipe), pipe \notin held, NEW b,
              Held(b, x, none, more), d' = Close(x, closed)
       PROVE  Held(b, d', none, held) /\ d'.fds = x.fds
    <2>1. d' = Close(x, {pipe} \ {NoRaw})
        BY <1>6, <1>14
    <2> QED
        BY ONLY <1>14, <2>1, ClosesPipe
<1>20. \E b : Held(b, d, own, lent)
    <2>1. own \in SUBSET Standard /\ lent \in SUBSET Pipes(stack, N)
        BY <1>11
    <2> DEFINE all == Standard
    <2>2. Held(h[N], d, all, Pipes(stack, N)) /\ own \in SUBSET all
        BY <1>12, <2>1
    <2> HIDE DEF own, all
    <2> QED
        BY <2>1, <2>2, RebasedOn
<1>15. ASSUME d' = Close(s, closed)
       PROVE  Undisturbed(d, d', S) /\ d'.fds = <<>>
    <2>1. ASSUME NEW b, Held(b, d, own, lent)
          PROVE  Held(b, d', none, rest) /\ d'.fds = <<>>
        <3>1. Held(b, s, none, lent) /\ s.fds = <<>>
            BY <1>10, <2>1
        <3> QED
            BY <1>6, <1>14, <1>15, <3>1
    <2>2. Undisturbed(d, d', S)
        BY <1>13, <2>1 DEF Carries
    <2>3. d'.fds = <<>>
        BY <1>20, <2>1
    <2> QED
        BY <2>2, <2>3
<1>16. ASSUME d' = Close(v, closed)
       PROVE  Undisturbed(d, d', S) /\ d'.fds = <<>>
    <2> DEFINE rest2 == LentWith(rest, next)
               lent2 == LentWith(rest2, pipe)
    <2>1. rest2 = LentWith(rest, next) /\ lent2 = LentWith(rest2, pipe)
        OBVIOUS
    <2> HIDE DEF rest2, lent2
    <2>2. ASSUME NEW b, Held(b, d, own, lent)
          PROVE  Held(b, d', none, rest2) /\ d'.fds = <<>>
        <3>1. Held(b, s, none, lent) /\ s.fds = <<>>
            BY <1>10, <2>2
        <3>2. /\ Held(b, v, none, LentWith(LentWith(rest, next), pipe))
              /\ pipe \notin LentWith(rest, next) /\ v.fds = s.fds
            BY ONLY <1>6, <3>1, OpensPipe
        <3>3. Held(b, v, none, lent2) /\ pipe \notin rest2
            BY <2>1, <3>2
        <3> QED
            BY <1>14, <1>16, <2>1, <3>1, <3>2, <3>3
    <2>3. Undisturbed(d, d', S)
        BY <1>13, <2>2 DEF Carries
    <2>4. d'.fds = <<>>
        BY <1>20, <2>2
    <2> QED
        BY <2>3, <2>4
<1>17. Undisturbed(d, d', S) /\ d'.fds = <<>>
    BY <1>4, <1>15, <1>16
<1>18. Kept(F, d')
    BY <1>1, <1>2, <1>12, <1>17, KeptEmpty
<1>19. IsStack(F) /\ \A i \in 1..Len(F) : IsFrame(F[i])
    <2>1. \A i \in 1..Len(stack) : IsFrame(stack[i])
        BY StackFacts
    <2> DEFINE m == Len(F)
    <2>2. m = Len(F)
        OBVIOUS
    <2> HIDE DEF m
    <2>3. IsStack(F) /\ m \in Nat /\ Len(stack) = m + 1 /\ \A i \in 1..m : F[i] = stack[i]
        BY <1>1, <1>2, <1>12, <2>2, StackFront
    <2> QED
        BY <2>1, <2>2, <2>3
<1> QED
    BY <1>5, <1>18, <1>19, KeptAfterStage

\* Whoever was lent the pipe that a stage reads from, it is closed.
LEMMA PreviousReturned ==
    ASSUME NEW a, NEW t, NEW none, Held(a, t, none, CommandLent), NEW u, u = WithoutPrevious(t)
    PROVE  Held(a, u, none, {}) /\ u.fds = t.fds
<1>1. CASE InPipeline
    <2> DEFINE pipe == Top.pipe
               rest == {}
               lent == LentWith(rest, pipe)
    <2>1. Held(a, t, none, lent) /\ u = Close(t, {pipe} \ {NoRaw})
        BY <1>1 DEF CommandLent, WithoutPrevious
    <2>2. pipe \notin rest /\ lent = LentWith(rest, pipe) /\ rest = {}
        OBVIOUS
    <2> HIDE DEF pipe, rest, lent
    <2>3. Held(a, u, none, rest) /\ u.fds = t.fds
        BY ONLY <2>1, <2>2, ClosesPipe
    <2> QED
        BY <2>2, <2>3
<1>2. CASE ~InPipeline
    BY <1>2 DEF CommandLent, WithoutPrevious
<1> QED
    BY <1>1, <1>2

LEMMA BuiltinKept ==
    ASSUME NEW h, Ledger(h, stack, d), Kept(stack, d), Builtin, ~Stays
    PROVE  Kept(stack', d')
<1>1. PICK rs \in Redirections, last \in Lasts, order \in Orders(d.fds) :
         LET saved == save_all_fds(d, order)
             applied == InOrder(rs, saved.s, ApplyForBuiltin)
         IN /\ last /\ ~Capturing
            /\ IF ~saved.ok THEN d' = WithoutPrevious(saved.s)
               ELSE \E back \in Orders(applied.s.saved_fds) :
                       d' = WithoutPrevious(restore_all_fds(applied.s, back).s)
            /\ stack' = AfterStage(stack, last, NoRaw)
            /\ event' = Event("builtin", rs, saved.ok /\ applied.ok, last,
                              IF saved.ok /\ applied.ok THEN Writing(Writer(applied.s)) ELSE NotSeen)
    BY DEF Builtin
<1> DEFINE saved == save_all_fds(d, order)
           applied == InOrder(rs, save_all_fds(d, order).s, ApplyForBuiltin)
           N == Len(stack)
           own == {}
           some == CommandLent
<1>2. \E ok, seen : event' = Event("builtin", rs, ok, last, seen)
    BY <1>1, Zenon
<1>3. event'.kind = "builtin" /\ event'.last = last
    BY <1>2, EventFields
<1>4. ~CopiesInUse /\ DOMAIN d'.fds \ 0..2 = DOMAIN d.fds \ 0..2
    BY <1>1, <1>3 DEF Stays, StaysChanged, Saves
<1>5. Len(rs) \in Nat /\ \A i \in 1..Len(rs) : rs[i].op \in Operators
    BY RedirectionsFacts
<1>6. N = Len(stack) /\ own = {} /\ some = CommandLent
    OBVIOUS
<1> HIDE DEF N, own, some
<1>7. Held(h[N], d, Own(stack, N), Pipes(stack, N)) /\ DOMAIN d.fds \subseteq Standard /\ DOMAIN d.saved_fds \subseteq Standard
    BY <1>6, DFacts
<1>8. Own(stack, N) = {}
    <2>1. ~Copying(stack, N)
        BY <1>6, NoCopiesFacts, <1>4
    <2> QED
        BY <2>1 DEF Own
<1>9. saved.ok
    BY <1>7, <1>8, SaveAllStandard
<1>10. PICK back \in Orders(applied.s.saved_fds) : d' = WithoutPrevious(restore_all_fds(applied.s, back).s)
    BY <1>1, <1>9
<1> DEFINE w == restore_all_fds(applied.s, back).s
<1>11. stack' = AfterStage(stack, last, NoRaw) /\ d' = WithoutPrevious(w)
    BY <1>1, <1>10
<1>12. ASSUME NEW b, NEW lent, Held(b, d, {}, lent)
       PROVE  Held(b, w, {}, lent) /\ \A fd \in DOMAIN w.fds : fd \notin Standard
    <2>1. /\ applied = AllForBuiltin(rs, save_all_fds(d, order).s)
          /\ back \in Orders(applied.s.saved_fds) /\ w = restore_all_fds(applied.s, back).s
        BY <1>10 DEF AllForBuiltin
    <2> HIDE DEF applied, w
    <2>2. order \in Orders(d.fds)
        OBVIOUS
    <2>3. GivenBack(b, d, lent, w)
        BY ONLY <1>5, <1>7, <1>12, <2>1, <2>2, BuiltinKeeps
    <2> QED
        BY <2>3 DEF GivenBack
<1> HIDE DEF saved, applied, w
<1>13. ASSUME NEW b, Held(b, d, own, some)
       PROVE  Held(b, d', own, {}) /\ d'.fds = w.fds
    BY <1>6, <1>11, <1>12, <1>13, PreviousReturned
<1>14. own \in SUBSET Own(stack, N) /\ some \in SUBSET Pipes(stack, N)
    BY <1>6, CommandLentFacts
<1>15. Undisturbed(d, d', Away(stack))
    <2> DEFINE none == {}
    <2>1. Carries(d, own, some, d', own, none)
        BY <1>13 DEF Carries
    <2> HIDE DEF none
    <2> QED
        BY <1>6, <1>14, <2>1, CommandDisturbs
<1>16. d'.fds = <<>>
    <2>1. PICK b : Held(b, d, own, some)
        BY <1>7, <1>14, RebasedOn
    <2>2. d'.fds = w.fds /\ Held(b, d', own, {}) /\ \A fd \in DOMAIN w.fds : fd \notin Standard
        BY <1>6, <1>12, <1>13, <2>1
    <2>3. DOMAIN d'.fds = {}
        BY <1>4, <1>7, <2>2 DEF Standard
    <2>4. IsState(d')
        BY <2>2 DEF Held, KernelOK
    <2> QED
        BY <2>3, <2>4, NoEntries
<1>17. Kept(stack, d')
    BY <1>15, <1>16, KeptStill DEF TableOpen
<1> QED
    BY <1>11, <1>17, StageKept

ReadsOther(st, f, unread) == unread => HasInput(st, Len(st)) \/ HasPipe(f)

\* A group or a stage more.
LEMMA KeptWithin ==
    ASSUME NEW st, IsStack(st), Framed(st), NEW f, f.kind # "subshell", NEW st2, st2 = Append(st, f),
           NEW u, AwayFits(st, u), InputFits(f, u),
           NEW env, env = OfShell(StreamsOf(st, Len(st)), f), NEW unread, TableIs(u, env, unread),
           ReadsOther(st, f, unread)
    PROVE  Kept(st2, u)
<1> DEFINE n == Len(st)
           before == StreamsOf(st, Len(st))
<1>0. n = Len(st) /\ before = StreamsOf(st, n)
    OBVIOUS
<1>1. Says(st, f, st2, before)
    BY MeantWithin
<1>2. IsStack(st2) /\ Deeper(st, f, st2)
    BY StackAppend
<1>3. /\ n \in Nat /\ Len(st2) = n + 1 /\ st2[n + 1] = f /\ \A i \in 1..n : st2[i] = st[i]
      /\ \A i \in 1..Len(st2) : i \in 1..n \/ i = n + 1
    BY <1>2 DEF Deeper
<1>4. /\ StreamsOf(st2, n + 1) = env
      /\ HasInput(st2, n + 1) <=> HasInput(st, n) \/ (f.kind = "stage" /\ f.pipe # NoRaw)
    BY <1>1 DEF Says
<1>8. (f.kind = "stage" /\ f.pipe # NoRaw => IsInput(u, f.pipe)) /\ (unread => HasInput(st2, n + 1))
    BY <1>4 DEF InputFits, ReadsOther, HasPipe
<1> HIDE DEF n, before
<1>5. ASSUME NEW i \in 1..Len(st2), st2[i].kind = "stage", st2[i].pipe # NoRaw PROVE IsInput(u, st2[i].pipe)
    <2>1. CASE i \in 1..n
        BY <1>0, <1>3, <1>5, <2>1 DEF AwayFits
    <2>2. CASE i = n + 1
        BY <1>3, <1>5, <1>8, <2>2
    <2> QED
        BY <1>3, <2>1, <2>2
<1>6. ASSUME NEW i \in 1..Len(st2), st2[i].kind = "subshell" PROVE TableFits(st2, i - 1, st2[i].fds, u)
    <2> DEFINE m == i - 1
    <2>1. i \in 1..n /\ st2[i] = st[i]
        BY <1>3, <1>6
    <2>2. m \in Nat /\ m <= Len(st) /\ m <= Len(st2) /\ \A j \in 1..m : st2[j] = st[j]
        BY <1>0, <1>3, <2>1
    <2>3. TableFits(st, m, st[i].fds, u)
        BY <1>0, <1>6, <2>1 DEF AwayFits
    <2> HIDE DEF m
    <2>4. TableFits(st2, m, st[i].fds, u)
        BY <1>2, <2>2, <2>3, TableSame
    <2> QED
        BY <2>1, <2>4 DEF m
<1>7. TableFits(st2, n + 1, u.fds, u)
    BY <1>0, <1>4, <1>8 DEF TableFits, TableIs
<1> QED
    BY <1>3, <1>5, <1>6, <1>7 DEF AwayFits, Kept

\* The innermost table, which the streams are found in as well.
LEMMA TableNow ==
    ASSUME NEW t, Kept(stack, t), NEW before, before = StreamsOf(stack, Len(stack))
    PROVE  TableIs(t, before, HasInput(stack, Len(stack)))
BY DEF Kept, TableFits, TableIs

LEMMA MeantNow ==
    ASSUME NEW st, IsStack(st), Framed(st)
    PROVE  Meant(st, Len(st))
<1>1. Len(st) \in Nat
    BY LastOf
<1>2. Len(st) \in 0..Len(st)
    BY <1>1
<1> QED
    BY <1>2 DEF Framed

LEMMA EnterGroupKept ==
    ASSUME NEW h, Ledger(h, stack, d), Kept(stack, d), Framed(stack), EnterGroup, ~Lost(event'.redirections), ~Stays
    PROVE  Kept(stack', d')
<1>1. PICK rs \in Redirections \ {<<>>} : \E prepared \in Prepared(d, rs, NoRaw) :
          /\ d' = prepared.s
          /\ stack' = IF prepared.ok THEN Append(stack, Frame("group", rs)) ELSE stack
          /\ event' = Event("group", rs, prepared.ok, TRUE, NotSeen)
    BY DEF EnterGroup
<1>2. PICK prepared \in Prepared(d, rs, NoRaw) :
          /\ d' = prepared.s
          /\ stack' = IF prepared.ok THEN Append(stack, Frame("group", rs)) ELSE stack
          /\ event' = Event("group", rs, prepared.ok, TRUE, NotSeen)
    BY <1>1
<1>3. \E ok, last, seen : event' = Event("group", rs, ok, last, seen)
    BY <1>2, Zenon
<1>4. event'.kind = "group" /\ event'.redirections = rs
    BY <1>3, EventFields
<1>5. ~CopiesInUse /\ ~LostByConstruct(rs)
    BY <1>4 DEF Stays, StaysChanged, Saves, Lost
<1>6. rs \in Redirections
    OBVIOUS
<1>7. Len(rs) \in Nat /\ DOMAIN rs = 1..Len(rs) /\ \A i \in 1..Len(rs) : Plain(rs[i])
    BY <1>5, <1>6, RedirectionsFacts, ConstructPlain, SequenceDomain
<1> DEFINE N == Len(stack)
           a == h[N]
           rest == Pipes(stack, N)
           hook == NoRaw
           nothing == {}
<1>8. N = Len(stack) /\ a = h[N] /\ rest = Pipes(stack, N) /\ hook = NoRaw /\ nothing = {}
    OBVIOUS
<1>9. prepared \in Prepared(d, rs, hook)
    OBVIOUS
<1> HIDE DEF N, a, rest, hook, nothing
<1>10. Own(stack, N) = {}
    BY <1>5, <1>8, NoCopiesFacts DEF Own
<1>11. Held(a, d, {}, rest) /\ DOMAIN d.fds \subseteq Standard /\ DOMAIN d.saved_fds \subseteq Standard
    BY <1>8, <1>10, DFacts
<1>12. ASSUME NEW b, NEW lent, Held(b, d, {}, lent)
       PROVE  /\ prepared.ok => Held(b, prepared.s, Standard, lent)
              /\ ~prepared.ok => Held(b, prepared.s, {}, lent) /\ prepared.s.fds = <<>>
    BY ONLY <1>7, <1>8, <1>9, <1>11, <1>12, PreparedKeeps
<1>13. Undisturbed(d, d', Away(stack))
    <2> DEFINE some == CommandLent
               own2 == IF prepared.ok THEN Standard ELSE {}
    <2>1. Carries(d, nothing, some, d', own2, some)
        BY <1>2, <1>8, <1>12 DEF Carries
    <2>2. nothing \in SUBSET Own(stack, N) /\ some = CommandLent
        BY <1>8
    <2> HIDE DEF some, own2
    <2> QED
        BY <1>8, <2>1, <2>2, CommandDisturbs
<1>14. AwayFits(stack, d')
    BY <1>13, AwaySame DEF Kept
<1>15. IsStack(stack)
    BY LedgerStack
<1>16. CASE prepared.ok
    <2> DEFINE f == Frame("group", rs)
               before == StreamsOf(stack, Len(stack))
               env == AllRedirected(before, rs)
               unread == HasInput(stack, Len(stack))
               st2 == stack'
    <2>1. f.kind = "group" /\ f.redirections = rs
        BY FrameFields
    <2>2. st2 = Append(stack, f)
        BY <1>2, <1>16
    <2>3. env = OfShell(before, f)
        BY <2>1 DEF OfShell
    <2>4. TableIs(d, before, unread)
        BY TableNow
    <2>5. Standard \subseteq DOMAIN before
        BY <1>15, MeantNow DEF Meant
    <2>6. before = StreamsOf(stack, Len(stack)) /\ unread = HasInput(stack, Len(stack)) /\ env = AllRedirected(before, rs)
        OBVIOUS
    <2> HIDE DEF f, before, env, unread, st2
    <2>7. TableIs(prepared.s, AllRedirected(before, rs), unread)
        BY ONLY <1>7, <1>8, <1>9, <1>11, <1>16, <2>4, <2>5, PreparedTable
    <2>8. TableIs(d', env, unread)
        BY <1>2, <2>6, <2>7
    <2>10. ReadsOther(stack, f, unread) /\ InputFits(f, d')
        BY <2>1 DEF unread, ReadsOther, InputFits, HasPipe
    <2>11. f.kind # "subshell" /\ f.kind # "stage" /\ env = OfShell(StreamsOf(stack, Len(stack)), f)
        BY <2>1, <2>3, <2>6
    <2>9. Kept(st2, d')
        BY ONLY Framed(stack), <1>14, <1>15, <2>2, <2>8, <2>10, <2>11, KeptWithin
    <2> QED
        BY <2>9 DEF st2
<1>17. CASE ~prepared.ok
    <2>1. d'.fds = <<>> /\ stack' = stack
        BY <1>2, <1>11, <1>12, <1>17
    <2> QED
        BY <1>14, <2>1, NoTable DEF Kept
<1> QED
    BY <1>16, <1>17

\* The input of a stage, in the place of its pipeline's pipe.
LEMMA InputLent ==
    ASSUME InPipeline, NEW null, null \in BOOLEAN, null => Top.pipe = NoRaw,
           NEW input, input = IF null THEN Handle(d) ELSE Top.pipe,
           NEW s, s = IF null THEN Opened(d, "null") ELSE d,
           NEW b, NEW none, Held(b, d, none, CommandLent)
    PROVE  /\ Held(b, s, none, LentWith({}, input)) /\ s.fds = d.fds /\ s.saved_fds = d.saved_fds
           /\ Undisturbed(d, s, DOMAIN d.open)
           /\ null => IsInput(s, input)
<1>1. CommandLent = LentWith({}, Top.pipe)
    BY DEF CommandLent
<1>2. CASE ~null
    BY <1>1, <1>2 DEF Undisturbed
<1>3. CASE null
    <2> DEFINE n == Lowest(d.open)
               lent == {}
    <2>1. CommandLent = lent /\ s = Opened(d, "null") /\ input = n /\ n = Lowest(d.open)
        BY <1>1, <1>3, LentFacts DEF Handle
    <2>2. IsState(d) /\ n \in Nat /\ n \notin DOMAIN d.open
        <3>1. IsState(d)
            BY DEF Held, KernelOK
        <3> QED
            BY <3>1, FreshNumber
    <2>3. s.open = With(d.open, n, "null") /\ s.fds = d.fds /\ s.saved_fds = d.saved_fds
        BY <2>1, <2>2, OpenedFields
    <2> HIDE DEF lent, n
    <2>4. Held(b, s, none, lent \cup {Lowest(d.open)})
        BY <2>1, OpenedLends
    <2>5. lent \cup {Lowest(d.open)} = LentWith({}, input)
        BY <2>1, <2>2 DEF LentWith, Plus, NoRaw, lent
    <2>6. Undisturbed(d, s, DOMAIN d.open) /\ IsInput(s, input)
        BY <2>1, <2>2, <2>3 DEF Undisturbed, IsInput, With
    <2> QED
        BY <2>3, <2>4, <2>5, <2>6
<1> QED
    BY <1>2, <1>3

\* Where a stage's pipeline stood.
LEMMA TakenAway ==
    ASSUME NEW st, IsStack(st), Framed(st), InPipelineOf(st), NEW g, g.kind = "pipeline",
           NEW taken, taken = Append(Front(st), g), NEW u, AwayFits(st, u)
    PROVE  /\ IsStack(taken) /\ AwayFits(taken, u)
           /\ HasInput(taken, Len(taken)) <=> HasInput(st, Len(st))
<1> DEFINE F == Front(st)
           m == Len(F)
<1>1. F = Front(st) /\ m = Len(F) /\ st # <<>> /\ Last(st).kind = "pipeline"
    BY DEF InPipelineOf
<1> HIDE DEF F, m
<1>2. /\ IsStack(F) /\ m \in Nat /\ Len(st) = m + 1
      /\ \A i \in 1..m : F[i] = st[i]
      /\ Last(st) = st[m + 1]
    BY <1>1, StackFront
<1>3. IsStack(taken) /\ Deeper(F, g, taken)
    BY <1>1, <1>2, StackAppend
<1>4. Len(taken) = m + 1 /\ taken[m + 1] = g /\ \A i \in 1..m : taken[i] = st[i]
    BY <1>1, <1>2, <1>3 DEF Deeper
<1>5. m <= Len(st) /\ m <= Len(taken) /\ \A i \in 1..Len(taken) : i \in 1..m \/ i = m + 1
    BY <1>2, <1>4
<1>6. \A i \in 1..Len(taken) : i \in 1..m \/ taken[i].kind \notin {"stage", "subshell"}
    BY <1>4, <1>5
<1>7. AwayFits(taken, u)
    BY <1>2, <1>3, <1>4, <1>5, <1>6, AwayPrefix
<1>8. HasInput(taken, m + 1) <=> HasInput(st, m + 1)
    <2>1. \A i : i \in 1..(m + 1) <=> i \in 1..m \/ i = m + 1
        BY <1>2
    <2>2. taken[m + 1].kind # "stage" /\ st[m + 1].kind # "stage"
        BY <1>1, <1>2, <1>4
    <2> QED
        BY <1>4, <2>1, <2>2 DEF HasInput
<1> QED
    BY <1>2, <1>3, <1>4, <1>7, <1>8

LEMMA EnterStageKept ==
    ASSUME NEW h, Ledger(h, stack, d), Kept(stack, d), Steady(stack, d), EnterStage, ~Lost(event'.redirections), ~Stays
    PROVE  Kept(stack', d')
<1>1. PICK rs \in Redirections, last \in Lasts :
          LET null == Top.pipe = NoRaw /\ ~Top.first /\ stdin_override = NoRaw
              input == IF null THEN Handle(d) ELSE Top.pipe
              s == IF null THEN Opened(d, "null") ELSE d
              taken == Append(Front(stack), [Top EXCEPT !.pipe = NoRaw])
              frame == [Frame("stage", rs) EXCEPT !.first = Top.first,
                          !.pipe = input, !.last = last,
                          !.capture = (~last \/ Capturing) /\ ~has_stdout_redirection(rs)]
          IN \E prepared \in Prepared(s, rs, input) :
                /\ d' = IF prepared.ok THEN prepared.s ELSE Close(prepared.s, {input} \ {NoRaw})
                /\ stack' = IF prepared.ok THEN Append(taken, frame) ELSE AfterStage(stack, last, NoRaw)
                /\ event' = Event("stage", rs, prepared.ok, last, NotSeen)
    BY DEF EnterStage
<1> DEFINE null == Top.pipe = NoRaw /\ ~Top.first /\ stdin_override = NoRaw
           input == IF null THEN Handle(d) ELSE Top.pipe
           s == IF null THEN Opened(d, "null") ELSE d
           g == WithPipe(Top, NoRaw)
           taken == Append(Front(stack), g)
           e == Frame("stage", rs)
           capture == (~last \/ Capturing) /\ ~has_stdout_redirection(rs)
           f == Stage(e, Top.first, input, last, capture)
           rest == {}
           lent == LentWith(rest, input)
           N == Len(stack)
           none == {}
           nothing == {}
           some == CommandLent
<1>2. PICK prepared \in Prepared(s, rs, input) :
         /\ d' = IF prepared.ok THEN prepared.s ELSE Close(prepared.s, {input} \ {NoRaw})
         /\ stack' = IF prepared.ok THEN Append(taken, f) ELSE AfterStage(stack, last, NoRaw)
         /\ event' = Event("stage", rs, prepared.ok, last, NotSeen)
    BY <1>1, Zenon DEF WithPipe, Stage
<1>3. \E ok, seen : event' = Event("stage", rs, ok, last, seen)
    BY <1>2, Zenon
<1>4. event'.kind = "stage" /\ event'.redirections = rs
    BY <1>3, EventFields
<1>5. ~CopiesInUse /\ ~LostByConstruct(rs)
    BY <1>4 DEF Stays, StaysChanged, Saves, Lost
<1>6. Len(rs) \in Nat /\ DOMAIN rs = 1..Len(rs) /\ \A i \in 1..Len(rs) : Plain(rs[i])
    BY <1>5, RedirectionsFacts, ConstructPlain, SequenceDomain
<1>7. InPipeline
    BY DEF EnterStage
<1>8. null \in BOOLEAN /\ (null => Top.pipe = NoRaw) /\ (input = IF null THEN Handle(d) ELSE Top.pipe)
      /\ (s = IF null THEN Opened(d, "null") ELSE d) /\ lent = LentWith(rest, input)
      /\ rest = {} /\ none = {} /\ nothing = {} /\ some = CommandLent /\ N = Len(stack) /\ taken = Append(Front(stack), g)
    OBVIOUS
<1>9. /\ null <=> Top.pipe = NoRaw /\ ~Top.first /\ stdin_override = NoRaw
      /\ prepared \in Prepared(s, rs, input)
    OBVIOUS
<1>10. IsStack(stack) /\ Framed(stack) /\ InPipelineOf(stack) /\ Top = Last(stack) /\ stack # <<>>
    BY <1>7, LedgerStack, InPipelineFacts DEF Steady, InPipelineOf
<1>11. IsFrame(Top) /\ Top.kind = "pipeline"
    <2>1. IsFrame(Top)
        BY <1>10, TopFrame
    <2> QED
        BY <1>7, <2>1 DEF InPipeline
<1>12. g.kind = "pipeline"
    BY <1>11, PipeFields
<1>13. f.kind = "stage" /\ f.redirections = rs /\ f.pipe = input /\ f.first = Top.first
    <2>1. IsFrame(e) /\ e.kind = "stage" /\ e.redirections = rs
        BY FrameFields
    <2> HIDE DEF e, capture, input
    <2> QED
        BY <2>1, StageFields
<1> HIDE DEF null, input, s, g, taken, e, capture, f, rest, lent, N, none, nothing, some
<1>14. Own(stack, N) = {} /\ Held(h[N], d, Own(stack, N), Pipes(stack, N))
       /\ DOMAIN d.fds \subseteq Standard /\ DOMAIN d.saved_fds \subseteq Standard
    BY <1>5, <1>8, NoCopiesFacts, DFacts DEF Own
<1>15. ASSUME NEW b, Held(b, d, none, some)
       PROVE  /\ Held(b, s, none, lent) /\ s.fds = d.fds /\ s.saved_fds = d.saved_fds
              /\ Undisturbed(d, s, DOMAIN d.open)
              /\ null => IsInput(s, input)
    <2>1. Held(b, d, none, CommandLent)
        BY <1>8, <1>15
    <2>2. /\ Held(b, s, none, LentWith({}, input)) /\ s.fds = d.fds /\ s.saved_fds = d.saved_fds
          /\ Undisturbed(d, s, DOMAIN d.open)
          /\ null => IsInput(s, input)
        BY ONLY <1>7, <1>8, <2>1, InputLent
    <2> QED
        BY <1>8, <2>2
<1>16. none \in SUBSET Own(stack, N) /\ some \in SUBSET Pipes(stack, N) /\ \A n \in Away(stack) : n \notin some
    BY <1>8, CommandLentFacts
<1>17. PICK a : Held(a, d, none, some)
    BY <1>14, <1>16, RebasedOn
<1>18. /\ Held(a, s, none, lent) /\ s.fds = d.fds /\ s.saved_fds = d.saved_fds
       /\ Undisturbed(d, s, DOMAIN d.open)
       /\ null => IsInput(s, input)
    BY <1>15, <1>17
<1>19. DOMAIN s.fds \subseteq Standard /\ DOMAIN s.saved_fds \subseteq Standard /\ (input = NoRaw \/ input \in lent)
    BY <1>8, <1>14, <1>18 DEF LentWith, Plus
<1>20. ASSUME NEW b, Held(b, d, none, some)
       PROVE  /\ prepared.ok => Held(b, prepared.s, Standard, lent)
              /\ ~prepared.ok => Held(b, prepared.s, {}, lent) /\ prepared.s.fds = <<>>
    <2>1. Held(b, s, {}, lent)
        BY <1>8, <1>15, <1>20
    <2> QED
        BY ONLY <1>6, <1>9, <1>19, <2>1, PreparedKeeps
<1>21. CASE prepared.ok
    <2>1. d' = prepared.s /\ stack' = Append(taken, f)
        BY <1>2, <1>21
    <2> DEFINE own2 == Standard
    <2>2. Undisturbed(d, d', Away(stack))
        <3>1. Carries(d, none, some, d', own2, lent)
            BY <1>20, <1>21, <2>1 DEF Carries
        <3> HIDE DEF own2
        <3> QED
            BY <1>8, <1>16, <3>1, CommandDisturbs
    <2>3. AwayFits(stack, d')
        BY <2>2, AwaySame DEF Kept
    <2>4. /\ IsStack(taken) /\ AwayFits(taken, d')
          /\ HasInput(taken, Len(taken)) <=> HasInput(stack, Len(stack))
        BY <1>8, <1>10, <1>12, <2>3, TakenAway
    <2> DEFINE before == StreamsOf(stack, Len(stack))
               piped == WithInput(before, Top.first)
               env == AllRedirected(piped, rs)
               unread == HasInput(stack, Len(stack)) \/ HasPipe(f)
               st2 == stack'
    <2>5. /\ before = StreamsOf(stack, Len(stack)) /\ piped = WithInput(before, Top.first)
          /\ env = AllRedirected(piped, rs) /\ st2 = Append(taken, f)
        BY <2>1
    <2>6. /\ Framed(taken) /\ Len(taken) = Len(stack)
          /\ StreamsOf(taken, Len(taken)) = StreamsOf(stack, Len(stack))
        <3>1. Top.first => f.pipe = NoRaw
            <4>1. Top.first => Top.pipe = NoRaw
                BY <1>10 DEF Steady, NextInput
            <4> QED
                BY <1>8, <1>9, <1>13, <4>1
        <3>2. rs \in Redirections
            OBVIOUS
        <3> QED
            BY ONLY <1>5, <1>8, <1>10, <1>12, <1>13, <2>5, <3>1, <3>2, FramedStage
    <2>7. env = OfShell(StreamsOf(taken, Len(taken)), f)
        BY <1>13, <2>6 DEF OfShell, WithInput
    <2>8. Meant(stack, Len(stack))
        BY <1>10, MeantNow
    <2>9. Standard \subseteq DOMAIN before
        BY <2>8 DEF Meant
    <2>10. /\ Standard \subseteq DOMAIN piped
           /\ piped[0] = IF Top.first THEN before[0] ELSE "pipe"
           /\ \A fd \in Standard : fd # 0 => piped[fd] = before[fd]
        BY <2>9, PipedFacts
    <2>11. ~Top.first => unread
        <3>1. CASE null
            <4>1. input \in DOMAIN s.open /\ input = Handle(d)
                BY <1>8, <1>18, <3>1 DEF IsInput
            <4>2. input # NoRaw
                <5>1. Lowest(d.open) \in Nat
                    BY <1>14, FreshNumber
                <5> QED
                    BY <4>1, <5>1 DEF Handle, NoRaw
            <4> QED
                BY <1>13, <4>2 DEF HasPipe
        <3>2. CASE ~null /\ Top.pipe # NoRaw
            BY <1>8, <1>13, <3>2 DEF HasPipe
        <3>3. CASE ~null /\ Top.pipe = NoRaw
            BY <1>9, <1>10, <3>3, OverrideFacts
        <3> QED
            BY <3>1, <3>2, <3>3
    <2>12. TableIs(s, piped, unread)
        <3>1. TableIs(d, before, HasInput(stack, Len(stack)))
            BY TableNow
        <3> HIDE DEF before, piped, env, st2
        <3>2. ASSUME NEW fd \in DOMAIN d.fds
              PROVE  /\ d.fds[fd].kind = "File" /\ d.fds[fd].raw \in DOMAIN s.open
                     /\ s.open[d.fds[fd].raw] = piped[fd] \/ (fd = 0 /\ unread)
            <4>1. /\ d.fds[fd].kind = "File" /\ d.fds[fd].raw \in DOMAIN d.open
                  /\ d.open[d.fds[fd].raw] = before[fd] \/ (fd = 0 /\ HasInput(stack, Len(stack)))
                BY <3>1 DEF TableIs
            <4>2. d.fds[fd].raw \in DOMAIN s.open /\ s.open[d.fds[fd].raw] = d.open[d.fds[fd].raw]
                BY <1>18, <4>1 DEF Undisturbed
            <4>3. fd \in Standard
                BY <1>14
            <4> QED
                BY <2>10, <2>11, <4>1, <4>2, <4>3
        <3> QED
            BY <1>18, <3>2 DEF TableIs
    <2>13. ReadsOther(taken, f, unread)
        BY <2>4 DEF ReadsOther
    <2> HIDE DEF before, piped, env, unread, st2
    <2>14. TableIs(prepared.s, AllRedirected(piped, rs), unread) /\ Undisturbed(s, prepared.s, lent)
        <3>1. Held(a, s, {}, lent) /\ Standard \subseteq DOMAIN piped
            BY <1>8, <1>18, <2>10
        <3> QED
            BY ONLY <1>6, <1>9, <1>19, <1>21, <2>12, <3>1, PreparedTable
    <2>15. TableIs(d', env, unread)
        BY <2>1, <2>5, <2>14
    <2>16. InputFits(f, d')
        <3>1. ASSUME input # NoRaw PROVE IsInput(d', input)
            <4>1. IsInput(s, input)
                <5>1. CASE null
                    BY <1>18, <5>1
                <5>2. CASE ~null
                    <6>1. input = Top.pipe /\ d.open[input] = "pipe"
                        BY <1>8, <1>10, <3>1, <5>2 DEF Steady, NextInput
                    <6>2. input \in DOMAIN d.open
                        <7>1. input \in some
                            BY <1>7, <1>8, <3>1, <6>1 DEF CommandLent, LentWith, Plus
                        <7> QED
                            BY <1>17, <7>1, LentApart
                    <6> QED
                        BY <1>18, <6>1, <6>2 DEF IsInput, Undisturbed
                <5> QED
                    BY <5>1, <5>2
            <4>2. input \in lent
                BY <1>19, <3>1
            <4> QED
                BY <2>1, <2>14, <4>1, <4>2 DEF IsInput, Undisturbed
        <3> QED
            BY <1>13, <3>1 DEF InputFits, HasPipe
    <2>17. f.kind # "subshell"
        BY <1>13
    <2>18. Kept(st2, d')
        BY ONLY <2>4, <2>5, <2>6, <2>7, <2>13, <2>15, <2>16, <2>17, KeptWithin
    <2> QED
        BY <2>18 DEF st2
<1>22. CASE ~prepared.ok
    <2> DEFINE w == prepared.s
    <2>1. d' = Close(w, {input} \ {NoRaw}) /\ stack' = AfterStage(stack, last, NoRaw)
        BY <1>2, <1>22
    <2>2. input \notin rest /\ w = prepared.s
        BY <1>8
    <2> HIDE DEF w
    <2>3. ASSUME NEW b, Held(b, d, none, some)
          PROVE  Held(b, d', none, nothing) /\ d'.fds = <<>>
        <3>1. Held(b, w, none, lent) /\ w.fds = <<>>
            BY <1>8, <1>20, <1>22, <2>2, <2>3
        <3>2. /\ Held(b, w, none, LentWith(rest, input)) /\ input \notin rest
              /\ d' = Close(w, {input} \ {NoRaw})
            BY <1>8, <2>1, <2>2, <3>1
        <3>3. Held(b, d', none, rest) /\ d'.fds = w.fds
            BY ONLY <3>2, ClosesPipe
        <3> QED
            BY <1>8, <3>1, <3>3
    <2>4. Undisturbed(d, d', Away(stack))
        <3>1. Carries(d, none, some, d', none, nothing)
            BY <2>3 DEF Carries
        <3> QED
            BY <1>8, <1>16, <3>1, CommandDisturbs
    <2>5. Kept(stack, d')
        BY <1>17, <2>3, <2>4, KeptStill DEF TableOpen
    <2> QED
        BY <2>1, <2>5, StageKept
<1> QED
    BY <1>21, <1>22

\* A command can be prepared in any state with its pipe.
LEMMA CommandHeld ==
    ASSUME NEW h, Ledger(h, stack, d), NEW own, NEW b, Held(b, d, own, CommandLent), NEW none, none = {}
    PROVE  HeldForCommand(b, d, own, none)
<1> DEFINE pipe == IF InPipeline THEN Top.pipe ELSE NoRaw
           lent == CommandLent
<1>1. lent = LentWith(none, pipe)
    <2>1. LentWith(none, NoRaw) = none
        BY LentFacts
    <2> QED
        BY <2>1 DEF CommandLent
<1>2. pipe \notin none /\ (InPipeline => pipe = Top.pipe) /\ (~InPipeline => pipe = NoRaw) /\ Held(b, d, own, lent)
    OBVIOUS
<1>3. d.child = NoChild
    BY DFacts
<1> HIDE DEF pipe, lent
<1> QED
    BY <1>1, <1>2, <1>3, CommandHeldBy

LEMMA CommandHolder ==
    ASSUME NEW h, Ledger(h, stack, d), NEW none, none = {}
    PROVE  \E b : HeldForCommand(b, d, none, none)
<1> DEFINE N == Len(stack)
           a == h[N]
           all == Own(stack, N)
           lent == Pipes(stack, N)
           some == CommandLent
<1>0. N = Len(stack) /\ some = CommandLent
    OBVIOUS
<1>1. Held(a, d, all, lent)
    BY DFacts
<1>2. none \in SUBSET all /\ some \in SUBSET lent
    BY CommandLentFacts
<1> HIDE DEF N, a, all, lent, some
<1>3. PICK b : Held(b, d, none, some)
    BY ONLY <1>1, <1>2, RebasedOn
<1>4. HeldForCommand(b, d, none, none)
    BY <1>0, <1>3, CommandHeld
<1> QED
    BY <1>4

LEMMA ExternalCommandKept ==
    ASSUME NEW h, Ledger(h, stack, d), Kept(stack, d), ExternalCommand, ~Lost(event'.redirections), ~Stays
    PROVE  Kept(stack', d')
<1>1. PICK rs \in Redirections, last \in Lasts :
              /\ ExternalEvent(rs, last)
              /\ ExternalResult(rs, last, AllToChild(rs, ReadyFor(last)))
              /\ ExternalLeaves(last, AllToChild(rs, ReadyFor(last)))
    BY ExternalFacts
<1> DEFINE w == ReadyFor(last)
           prepared == AllToChild(rs, w)
           s == prepared.s
           after == Dropped(s)
           fed == Dropped(Opened(s, "pipe"))
           none == {}
<1>2. AllReach(rs) /\ event'.kind = "external"
    BY <1>1, ExternalReach DEF ExternalEvent
<1>3. d'.fds = d.fds
    BY <1>2 DEF Stays, StaysChanged
<1>4. (d' = after \/ d' = fed) /\ ExternalLeaves(last, prepared)
    BY <1>1 DEF ExternalLeaves
<1>5. OnlyFiles(d) /\ \A fd \in DOMAIN d.fds : d.fds[fd].raw \in DOMAIN d.open
    BY DFacts DEF Kept, TableFits, OnlyFiles
<1>6. StaysIn(d, d)
    BY <1>5 DEF StaysIn
<1>7. /\ prepared = AllToChild(rs, WithStdout(WithStdin(d), last)) /\ w = ReadyFor(last) /\ s = AllToChild(rs, w).s
      /\ after = Dropped(prepared.s) /\ fed = Dropped(Opened(prepared.s, "pipe")) /\ none = {} /\ prepared.s = s
    BY DEF ReadyFor
<1>8. Len(rs) \in Nat /\ \A i \in 1..Len(rs) : rs[i].op \in Operators
    BY RedirectionsFacts
<1> HIDE DEF w, prepared, s, after, fed, none
<1>9. d.child = NoChild
    BY DFacts
<1>10. PICK b : HeldForCommand(b, d, none, none)
    BY <1>7, CommandHolder
<1>11. HeldWith(b, w, none, none) /\ Ready(w, last)
    BY <1>7, <1>9, <1>10, CommandReady
<1>12. StaysIn(d, w)
    BY <1>5, <1>6, <1>11 DEF Ready, Began, StaysIn, Undisturbed
<1>13. HeldWith(b, s, none, none)
    BY <1>7, <1>8, <1>11, AllToChildKeep
<1>14. StaysIn(d, s)
    BY <1>2, <1>5, <1>7, <1>11, <1>12, AllStay
<1>15. IsState(s) /\ Lowest(s.open) \notin DOMAIN s.open
    <2> DEFINE all == Together(none, s.child)
    <2>1. Held(b, s, none, all)
        BY <1>13 DEF HeldWith
    <2> HIDE DEF all
    <2> QED
        BY <2>1, FreshNumber DEF Held, KernelOK
<1>16. d'.fds = s.fds /\ \A n \in DOMAIN d'.open \cap DOMAIN s.open : d'.open[n] = s.open[n]
    <2>1. after.fds = s.fds /\ \A n \in DOMAIN after.open \cap DOMAIN s.open : after.open[n] = s.open[n]
        BY <1>7, <1>15, DroppedOpen
    <2>2. fed.fds = s.fds /\ \A n \in DOMAIN fed.open \cap DOMAIN s.open : fed.open[n] = s.open[n]
        BY <1>7, <1>15, FedOpen
    <2> QED
        BY <1>4, <2>1, <2>2
<1>17. \E lent2 : Held(b, d', none, lent2)
    <2>1. Held(b, after, none, none) /\ Held(b, fed, none, Plus(none, Handle(prepared.s)))
        BY <1>7, <1>8, <1>10, ExternalKeeps
    <2> QED
        BY <1>4, <2>1
<1>18. Undisturbed(d, d', FilesAt(d))
    <2> SUFFICES ASSUME NEW fd \in DOMAIN d.fds
                 PROVE  d.fds[fd].raw \in DOMAIN d'.open /\ d'.open[d.fds[fd].raw] = d.open[d.fds[fd].raw]
        BY DEF Undisturbed, FilesAt, Files
    <2>1. d.fds[fd].kind = "File" /\ d'.fds[fd] = d.fds[fd] /\ fd \in DOMAIN d'.fds
        BY <1>3, <1>5 DEF OnlyFiles
    <2>2. d.fds[fd].raw \in DOMAIN d'.open
        <3>1. PICK lent2 : Held(b, d', none, lent2)
            BY <1>17
        <3>2. d'.fds[fd].raw \in DOMAIN d'.open
            BY <2>1, <3>1 DEF Held, Accounted, Files
        <3> QED
            BY <2>1, <3>2
    <2>3. s.fds[fd].kind # "Closed"
        BY <1>16, <2>1
    <2>4. d.fds[fd].raw \in DOMAIN s.open /\ s.open[d.fds[fd].raw] = d.open[d.fds[fd].raw]
        BY <1>14, <2>3 DEF StaysIn
    <2> QED
        BY <1>16, <2>2, <2>4
<1>19. TableOpen(d, d')
    BY <1>3, <1>18 DEF TableOpen
<1>20. Undisturbed(d, d', Away(stack))
    <2> DEFINE N == Len(stack)
               own == Own(stack, N)
               next == Plus(none, Handle(prepared.s))
               some == CommandLent
    <2>1. N = Len(stack) /\ own \in SUBSET Own(stack, N) /\ some = CommandLent /\ next = Plus(none, Handle(prepared.s))
        OBVIOUS
    <2> HIDE DEF own, next, some
    <2>2. ASSUME NEW c, Held(c, d, own, some) PROVE Held(c, after, own, none) /\ Held(c, fed, own, next)
        <3>1. HeldForCommand(c, d, own, none)
            BY <1>7, <2>1, <2>2, CommandHeld
        <3> QED
            BY <1>7, <1>8, <2>1, <3>1, ExternalKeeps
    <2>3. \E own2, lent2 : Carries(d, own, some, d', own2, lent2)
        BY <1>4, <2>2 DEF Carries
    <2> HIDE DEF N
    <2> QED
        BY <2>1, <2>3, CommandDisturbs
<1>21. Kept(stack, d')
    <2> DEFINE u == d'
    <2>1. Undisturbed(d, u, Away(stack)) /\ TableOpen(d, u)
        BY <1>19, <1>20
    <2> HIDE DEF u
    <2>2. Kept(stack, u)
        BY <2>1, KeptStill
    <2> QED
        BY <2>2 DEF u
<1>22. CASE stack' = stack
    BY <1>21, <1>22
<1>23. CASE InPipeline /\ stack' = Front(stack)
    <2>1. IsStack(stack) /\ stack # <<>> /\ Last(stack).kind = "pipeline"
        BY <1>23, StackFacts DEF InPipeline, Top, Frame
    <2>2. Kept(Front(stack), d')
        BY <1>21, <2>1, KeptFront
    <2> QED
        BY <1>23, <2>2
<1>24. CASE \E pipe : stack' = AfterStage(stack, last, pipe)
    BY <1>21, <1>24, StageKept
<1> QED
    BY <1>4, <1>22, <1>23, <1>24 DEF ExternalLeaves

-----------------------------------------------------------------------------
(* The invariant                                                           *)

\* The invariant of CommandsSeeWhatIsMeant.
Whole(st, t) == Sound(st, t) /\ Decent(st) /\ Kept(st, t)

LEMMA InitWhole == Init => Whole(stack, d)
<1> SUFFICES ASSUME Init PROVE Whole(stack, d)
    OBVIOUS
<1>1. Sound(stack, d)
    BY InitSound
<1>2. stack = <<>> /\ d.fds = <<>> /\ Len(stack) = 0
    BY DEF Init
<1>3. Decent(stack)
    BY <1>2 DEF Decent
<1>4. TableFits(stack, Len(stack), d.fds, d)
    BY <1>2, NoTable
<1>5. AwayFits(stack, d)
    BY <1>2 DEF AwayFits
<1> QED
    BY <1>1, <1>3, <1>4, <1>5 DEF Whole, Kept

LEMMA StepKept ==
    ASSUME NEW h, Ledger(h, stack, d), Steady(stack, d), Kept(stack, d), Next, ~Lost(event'.redirections), ~Stays
    PROVE  Kept(stack', d')
<1>0. Ledger(h, stack, d) /\ Steady(stack, d) /\ Kept(stack, d) /\ Framed(stack)
    BY DEF Steady
<1>1. CASE ExternalCommand
    BY ONLY <1>0, <1>1, ~Lost(event'.redirections), ~Stays, ExternalCommandKept
<1>2. CASE BuiltinCaptured
    BY ONLY <1>0, <1>2, BuiltinCapturedKept
<1>3. CASE Builtin
    BY ONLY <1>0, <1>3, ~Stays, BuiltinKept
<1>4. CASE NoCommand
    BY ONLY <1>0, <1>4, ~Stays, NoCommandKept
<1>5. CASE EnterGroup
    BY ONLY <1>0, <1>5, ~Lost(event'.redirections), ~Stays, EnterGroupKept
<1>6. CASE LeaveGroup
    BY ONLY <1>0, <1>6, LeaveGroupKept
<1>7. CASE EnterSubshell
    BY ONLY <1>0, <1>7, EnterSubshellKept
<1>8. CASE LeaveSubshell
    BY ONLY <1>0, <1>8, LeaveSubshellKept
<1>9. CASE EnterCaptured
    BY ONLY <1>0, <1>9, EnterCapturedKept
<1>10. CASE LeaveCaptured
    BY ONLY <1>0, <1>10, LeaveCapturedKept
<1>11. CASE BeginPipeline
    BY ONLY <1>0, <1>11, BeginPipelineKept
<1>12. CASE EnterStage
    BY ONLY <1>0, <1>12, ~Lost(event'.redirections), ~Stays, EnterStageKept
<1>13. CASE LeaveStage
    BY ONLY <1>0, <1>13, LeaveStageKept
<1> QED
    BY <1>1, <1>2, <1>3, <1>4, <1>5, <1>6, <1>7, <1>8, <1>9, <1>10, <1>11, <1>12, <1>13 DEF Next

LEMMA StepWhole ==
    ASSUME Whole(stack, d), Next, ~Lost(event'.redirections), ~Stays
    PROVE  Whole(stack', d')
<1>1. PICK h : Ledger(h, stack, d)
    BY DEF Whole, Sound
<1>2. Sound(stack, d) /\ Steady(stack, d) /\ Decent(stack) /\ Kept(stack, d)
    BY DEF Whole, Sound
<1>3. Sound(stack', d')
    BY ONLY <1>2, Next, ~Lost(event'.redirections), ~Stays, StepSound
<1>4. Decent(stack')
    BY ONLY <1>1, <1>2, Next, ~Lost(event'.redirections), StepDecent
<1>5. Kept(stack', d')
    BY ONLY <1>1, <1>2, Next, ~Lost(event'.redirections), ~Stays, StepKept
<1> QED
    BY <1>3, <1>4, <1>5 DEF Whole

\* A run that has departed from what was meant is over.
WholeInv == departed \/ Whole(stack, d)

\* In every run, until it departs from what was meant, the ledger and the streams
\* are sound, what the constructs say of collected output holds together, and the
\* input of every stage and every File of a table, that of a parent around a
\* subshell too, is open on what is meant (execute_pipeline, a stage's
\* stdin_override and deep_clone, src/src/state/fd_table.rs:282).
THEOREM AlwaysWhole == MCSpec => []WholeInv
<1>1. MCInit => WholeInv
    BY InitWhole DEF MCInit, WholeInv
<1>2. WholeInv /\ [MCNext]_vars => WholeInv'
    <2> SUFFICES ASSUME WholeInv, [MCNext]_vars PROVE WholeInv'
        OBVIOUS
    <2>1. CASE MCNext
        <3>1. Whole(stack, d)
            BY <2>1 DEF MCNext, WholeInv
        <3>2. CASE departed'
            BY <3>2 DEF WholeInv
        <3>3. CASE ~departed'
            <4>1. Next /\ ~Lost(event'.redirections) /\ ~Stays
                BY <2>1, <3>3 DEF MCNext
            <4>2. Whole(stack', d')
                BY ONLY <3>1, <4>1, StepWhole
            <4> QED
                BY <4>2 DEF WholeInv
        <3> QED
            BY <3>2, <3>3
    <2>2. CASE UNCHANGED vars
        BY <2>2 DEF vars, desc_vars, WholeInv
    <2> QED
        BY <2>1, <2>2
<1> QED
    BY <1>1, <1>2, PTL DEF MCSpec

-----------------------------------------------------------------------------
(* What the redirections of a command mean, one after the other            *)

\* The environment after the first k of them.
EnvAt(e0, rs, k) == AllRedirected(e0, SubSeq(rs, 1, k))

\* The files there are then.
There(existed, rs, k) == existed \cup {rs[j].file : j \in {i \in 1..k : rs[i].op # "<"}}
FailsWith(e, r, there) ==
    \/ r.op = "dup" /\ e[r.source] = "closed"
    \/ r.op \in FileOperators /\ \/ r.file \in Unopenable
                                 \/ r.op = "<" /\ r.file \notin there
                                 \/ r.op = ">" /\ noclobber /\ r.file \in there

LEMMA OneRedirectionMore ==
    ASSUME NEW f, NEW g, NEW r, OfRedirected!Prolongs(f, g, r), DOMAIN f = 1..Len(f), DOMAIN g = 1..Len(g),
           NEW e0, NEW e, e = AllRedirected(e0, f)
    PROVE  AllRedirected(e0, g) = Redirected(e, r)
<1>1. e = OfRedirected!Folded(f, e0)
    BY RedirectedInOrder
<1>2. OfRedirected!Folded(g, e0) = Redirected(e, r)
    <2>1. OfRedirected!Folded(g, e0) = OfRedirected!After(OfRedirected!Folded(f, e0), r)
        BY OfRedirected!FoldOfOneMore
    <2> QED
        BY <1>1, <2>1 DEF OfRedirected!After
<1>3. AllRedirected(e0, g) = OfRedirected!Folded(g, e0)
    BY RedirectedInOrder
<1> QED
    BY <1>2, <1>3

\* The environment after one.
LEMMA RedirectedEnv ==
    ASSUME NEW e, DOMAIN e = 0..9, NEW r, r.op \in Operators, IsRedirection(r), NEW e2, e2 = Redirected(e, r)
    PROVE  /\ DOMAIN e2 = 0..9
           /\ \A fd \in 0..9 : fd # r.fd => e2[fd] = e[fd]
           /\ r.op \in FileOperators => e2[r.fd] = r.file /\ e2[r.fd] # "closed"
           /\ r.op = "dup" => e2[r.fd] = e[r.source] /\ r.source \in 0..9
           /\ r.op = "close" => e2[r.fd] = "closed"
           /\ r.op = "<<" => e2[r.fd] = "here"
           /\ r.fd \in 0..9
<1>1. r.fd \in 0..9 /\ (r.op = "dup" => r.source \in 0..9) /\ (r.op \in FileOperators => r.file # "closed")
    BY DEF IsRedirection
<1>2. e2 = [e EXCEPT ![r.fd] = CASE r.op = "dup" -> e[r.source]
                            [] r.op = "close" -> "closed"
                            [] r.op = "<<" -> "here"
                            [] r.op \in {"<", ">", ">|", ">>", "<>"} -> r.file]
    BY Zenon DEF Redirected
<1>3. DOMAIN e2 = 0..9 /\ \A fd \in 0..9 : fd # r.fd => e2[fd] = e[fd]
    BY <1>1, <1>2
<1>4. e2[r.fd] = CASE r.op = "dup" -> e[r.source]
                            [] r.op = "close" -> "closed"
                            [] r.op = "<<" -> "here"
                            [] r.op \in {"<", ">", ">|", ">>", "<>"} -> r.file
    BY <1>1, <1>2
<1>5. r.op \in {"<", ">", ">|", ">>", "<>", "<<", "dup", "close"}
    BY DEF Operators
<1>6. r.op \in FileOperators <=> r.op \in {"<", ">", ">|", ">>", "<>"}
    BY DEF FileOperators
<1> QED
    BY <1>1, <1>3, <1>4, <1>5, <1>6

LEMMA RedirectionSeq ==
    ASSUME NEW rs \in Redirections
    PROVE  IsStack(rs)
BY RedirectionsAssumption DEF IsStack

LEMMA EnvNone ==
    ASSUME NEW rs, IsStack(rs), NEW e0
    PROVE  EnvAt(e0, rs, 0) = e0
<1>1. PICK S : rs \in Seq(S)
    BY DEF IsStack
<1> DEFINE none == SubSeq(rs, 1, 0)
<1>2. none \in Seq(S) /\ Len(none) = 0
    <2>1. 0 <= Len(rs) /\ 0 \in Nat
        BY <1>1, LenProperties
    <2> DEFINE n == 0
    <2>2. n \in Nat /\ n <= Len(rs) /\ none = SubSeq(rs, 1, n)
        BY <2>1
    <2>3. n = 0
        OBVIOUS
    <2> HIDE DEF n, none
    <2> QED
        BY <1>1, <2>2, <2>3, FirstFrames
<1>3. EnvAt(e0, rs, 0) = AllRedirected(e0, none)
    BY DEF EnvAt
<1> HIDE DEF none
<1>4. DOMAIN none = 1..Len(none)
    BY <1>2, LenProperties
<1>5. AllRedirected(e0, none) = OfRedirected!Folded(none, e0)
    BY <1>4, RedirectedInOrder
<1> QED
    BY <1>2, <1>3, <1>5, OfRedirected!FoldOfNothing

LEMMA EnvMore ==
    ASSUME NEW rs, IsStack(rs), NEW e0, NEW m \in 1..Len(rs), NEW e, e = EnvAt(e0, rs, m - 1)
    PROVE  EnvAt(e0, rs, m) = Redirected(e, rs[m])
<1>1. PICK S : rs \in Seq(S)
    BY DEF IsStack
<1> DEFINE n == m - 1
           f == SubSeq(rs, 1, n)
           g == SubSeq(rs, 1, m)
<1>2. Len(rs) \in Nat
    BY <1>1, LenProperties
<1>3. n \in Nat /\ n <= Len(rs) /\ m \in Nat /\ m <= Len(rs) /\ m = n + 1
    BY <1>2
<1>4. e = AllRedirected(e0, f) /\ EnvAt(e0, rs, m) = AllRedirected(e0, g)
    BY DEF EnvAt
<1>5. f = SubSeq(rs, 1, n) /\ g = SubSeq(rs, 1, m)
    OBVIOUS
<1> HIDE DEF n, f, g
<1>6. f \in Seq(S) /\ Len(f) = n /\ \A i \in 1..n : f[i] = rs[i]
    BY <1>1, <1>3, <1>5, FirstFrames
<1>7. g \in Seq(S) /\ Len(g) = m /\ \A i \in 1..m : g[i] = rs[i]
    BY <1>1, <1>3, <1>5, FirstFrames
<1>8. DOMAIN f = 1..Len(f) /\ DOMAIN g = 1..Len(g)
    BY <1>6, <1>7, LenProperties
<1>9. OfRedirected!Prolongs(f, g, rs[m])
    BY <1>3, <1>6, <1>7 DEF OfRedirected!Prolongs
<1> QED
    BY <1>4, <1>8, <1>9, OneRedirectionMore

LEMMA EnvAll ==
    ASSUME NEW rs, IsStack(rs), NEW e0
    PROVE  EnvAt(e0, rs, Len(rs)) = AllRedirected(e0, rs)
<1>1. PICK S : rs \in Seq(S)
    BY DEF IsStack
<1> DEFINE n == Len(rs)
           f == SubSeq(rs, 1, n)
<1>2. n \in Nat /\ n <= Len(rs) /\ f = SubSeq(rs, 1, n) /\ n = Len(rs)
    BY <1>1, LenProperties
<1>3. EnvAt(e0, rs, n) = AllRedirected(e0, f)
    BY DEF EnvAt
<1> HIDE DEF n, f
<1>4. f \in Seq(S) /\ Len(f) = n /\ \A i \in 1..n : f[i] = rs[i]
    BY <1>1, <1>2, FirstFrames
<1>5. f = rs
    BY <1>1, <1>2, <1>4, SeqEqual
<1> QED
    BY <1>2, <1>3, <1>5

\* A redirection is made, or fails, in the environment of those before it.
LEMMA FailsAtIs ==
    ASSUME NEW rs, IsStack(rs), NEW e0, NEW i \in 1..Len(rs), rs[i].op \in Operators,
           NEW there, there = There(event'.existed, rs, i - 1)
    PROVE  FailsAt(e0, rs, i) <=> FailsWith(EnvAt(e0, rs, i - 1), rs[i], there)
<1>1. PICK S : rs \in Seq(S)
    BY DEF IsStack
<1> DEFINE n == i - 1
           before == SubSeq(rs, 1, n)
           known == event'.existed \cup {before[j].file : j \in {k \in DOMAIN before : before[k].op # "<"}}
           e == EnvAt(e0, rs, n)
           r == rs[i]
<1>2. Len(rs) \in Nat
    BY <1>1, LenProperties
<1>3. n \in Nat /\ n <= Len(rs) /\ before = SubSeq(rs, 1, n) /\ n = i - 1
    BY <1>2
<1>4. e = AllRedirected(e0, before)
    BY DEF EnvAt
<1>5. FailsAt(e0, rs, i) <=>
        CASE r.op = "dup" -> e[r.source] = "closed"
          [] r.op \in {"<", ">", ">|", ">>", "<>"} ->
               r.file \in Unopenable \/ (r.op = "<" /\ r.file \notin known)
                                     \/ (r.op = ">" /\ noclobber /\ r.file \in known)
          [] r.op \in {"close", "<<"} -> FALSE
    BY <1>4, Zenon DEF FailsAt
<1>6. known = event'.existed \cup {before[j].file : j \in {k \in DOMAIN before : before[k].op # "<"}}
    OBVIOUS
<1>7. r = rs[i] /\ e = EnvAt(e0, rs, n)
    OBVIOUS
<1> HIDE DEF n, before, known, e, r
<1>8. before \in Seq(S) /\ Len(before) = n /\ \A j \in 1..n : before[j] = rs[j]
    BY <1>1, <1>3, FirstFrames
<1>9. DOMAIN before = 1..n
    BY <1>8, LenProperties
<1>10. known = there
    <2> DEFINE J == {k \in 1..n : rs[k].op # "<"}
    <2>1. {k \in DOMAIN before : before[k].op # "<"} = J
        BY <1>8, <1>9
    <2>2. \A j \in J : before[j].file = rs[j].file
        BY <1>8
    <2>3. there = event'.existed \cup {rs[j].file : j \in J}
        BY <1>3 DEF There
    <2> HIDE DEF J
    <2>4. known = event'.existed \cup {before[j].file : j \in J}
        BY <1>6, <2>1
    <2>5. \A x : x \in {before[j].file : j \in J} <=> x \in {rs[j].file : j \in J}
        BY <2>2
    <2> QED
        BY <2>3, <2>4, <2>5
<1>11. r.op \in {"<", ">", ">|", ">>", "<>", "<<", "dup", "close"}
    BY <1>7 DEF Operators
<1>12. FailsAt(e0, rs, i) <=> FailsWith(e, r, there)
    BY <1>5, <1>10, <1>11 DEF FailsWith, FileOperators
<1> QED
    BY <1>3, <1>7, <1>12

-----------------------------------------------------------------------------
(* What a command finds before its own redirections                        *)

CommandEnv(last) ==
    IF InPipeline THEN Piped(FoldLeft(Within, Outside, stack), Top.first, last)
                  ELSE FoldLeft(Within, Outside, stack)

LEMMA ForCommandIs ==
    ASSUME NEW last, event'.last = last
    PROVE  ForCommand = CommandEnv(last)
BY DEF ForCommand, CommandEnv

\* e is the environment, and s the shell's streams.
ScopeOfCommand(last, e, s) ==
    /\ IsEnv(e)
    /\ e[0] = IF InPipeline /\ ~Top.first THEN "pipe" ELSE s[0]
    /\ Collected(last) => e[1] \in {"capture", "pipe"} /\ (~last => e[1] = "pipe")
    /\ ~Collected(last) => e[1] = s[1]
    /\ e[2] = s[2]

LEMMA CommandScope ==
    ASSUME NEW h, Ledger(h, stack, d), Steady(stack, d), Decent(stack), NEW last \in Lasts,
           NEW e, e = CommandEnv(last), NEW N, N = Len(stack), NEW s, s = StreamsOf(stack, N)
    PROVE  ScopeOfCommand(last, e, s) /\ (~InPipeline => last) /\ last \in BOOLEAN
<1> DEFINE base == FoldLeft(Within, Outside, stack)
<1>1. IsStack(stack) /\ Framed(stack)
    BY LedgerStack DEF Steady
<1>2. ScopeFits(stack, N, base, s)
    BY <1>1, Scope
<1>3. Capturing <=> Captures(stack, N)
    BY DEF Capturing, Captures
<1>4. (~InPipeline => last) /\ last \in BOOLEAN
    BY DEF Lasts
<1>5. e = IF InPipeline THEN Piped(base, Top.first, last) ELSE base
    BY DEF CommandEnv
<1> HIDE DEF base
<1>6. IsEnv(base) /\ base[0] = s[0] /\ base[2] = s[2]
    BY <1>2 DEF ScopeFits
<1>7. IF Capturing THEN base[1] \in {"capture", "pipe"} ELSE base[1] = s[1]
    BY <1>2, <1>3 DEF ScopeFits
<1>8. CASE ~InPipeline
    BY <1>4, <1>5, <1>6, <1>7, <1>8 DEF ScopeOfCommand, Collected
<1>9. CASE InPipeline
    <2> DEFINE first == Top.first
    <2>1. e = Piped(base, first, last)
        BY <1>5, <1>9
    <2>2. first = Top.first
        OBVIOUS
    <2> HIDE DEF first
    <2>3. /\ IsEnv(e)
          /\ e[0] = IF first THEN base[0] ELSE "pipe"
          /\ e[1] = IF last THEN base[1] ELSE "pipe"
          /\ e[2] = base[2]
        BY <1>6, <2>1, PipedEnv
    <2>4. e[0] = IF InPipeline /\ ~Top.first THEN "pipe" ELSE s[0]
        BY <1>6, <1>9, <2>2, <2>3
    <2> QED
        BY <1>4, <1>6, <1>7, <2>3, <2>4 DEF ScopeOfCommand, Collected
<1> QED
    BY <1>8, <1>9

\* An input that overrides the shell's is that of a stage around the command.
LEMMA OverrideIs ==
    ASSUME IsStack(stack), stdin_override # NoRaw
    PROVE  \E i \in 1..Len(stack) : stack[i].kind = "stage" /\ stack[i].pipe = stdin_override
<1> DEFINE none == NoRaw
           Of(n) == n = NoRaw \/ \E i \in 1..Len(stack) : stack[i].kind = "stage" /\ stack[i].pipe = n
<1>1. PICK T : stack \in Seq(T)
    BY DEF IsStack
<1>2. Len(stack) \in Nat /\ DOMAIN stack = 1..Len(stack)
    BY <1>1, LenProperties
<1>3. stdin_override = OfOverriding!Folded(stack, none)
    BY <1>2, OverridesInOrder
<1>4. PICK ns : OfOverriding!FoldChain(stack, none, OfOverriding!Folded(stack, none), ns)
    BY <1>2, OfOverriding!FoldInOrder
<1> DEFINE N == Len(stack)
           S == {n \in 0..N : Of(ns[n])}
<1>5. 0 \in S
    BY <1>2, <1>4 DEF OfOverriding!FoldChain
<1>6. ASSUME NEW n \in 1..N, n - 1 \in S PROVE n \in S
    <2>1. ns[n] = Overriding(ns[n - 1], stack[n])
        BY <1>4 DEF OfOverriding!FoldChain
    <2>2. Of(ns[n - 1])
        BY <1>6
    <2>3. ns[n] = ns[n - 1] \/ (stack[n].kind = "stage" /\ ns[n] = stack[n].pipe)
        BY <2>1 DEF Overriding
    <2>4. Of(ns[n])
        BY <2>2, <2>3
    <2> QED
        BY <2>4
<1>7. S = 0..N
    <2> HIDE DEF S
    <2>1. S \in SUBSET (0..N)
        BY DEF S
    <2> QED
        BY <1>2, <1>5, <1>6, <2>1, OfSave!UpTo
<1>8. Of(ns[N])
    BY <1>2, <1>7
<1>9. ns[N] = stdin_override
    BY <1>3, <1>4 DEF OfOverriding!FoldChain
<1> QED
    BY <1>8, <1>9

\* The input that it begins with, if it is not the shell's.
LEMMA InputBegins ==
    ASSUME NEW h, Ledger(h, stack, d), Steady(stack, d), Kept(stack, d),
           NEW v, Beginning(v), NEW N, N = Len(stack), NEW s, s = StreamsOf(stack, N),
           NEW meant, meant = IF InPipeline /\ ~Top.first THEN "pipe" ELSE s[0]
    PROVE  \/ 0 \notin DOMAIN v.child.std /\ meant = s[0]
           \/ 0 \in DOMAIN v.child.std /\ v.child.std[0] = Stdio("null", NoRaw) /\ meant = "pipe"
           \/ /\ 0 \in DOMAIN v.child.std /\ meant = "pipe"
              /\ \E n \in DOMAIN v.open : v.child.std[0] = Stdio("file", n) /\ v.open[n] \in {"pipe", "null"}
<1>1. IsStack(stack) /\ N \in Nat
    <2>1. IsStack(stack)
        BY LedgerStack
    <2>2. PICK T : stack \in Seq(T)
        BY <2>1 DEF IsStack
    <2> QED
        BY <2>1, <2>2, LenProperties
<1>2. InPipeline => InPipelineOf(stack) /\ stack # <<>> /\ Top = Last(stack) /\ Last(stack).kind = "pipeline"
    BY InPipelineFacts
<1>3. CASE Feeding
    <2>1. Last(stack).kind # "subshell" /\ Last(stack).pipe = Top.pipe /\ Top.pipe # NoRaw /\ stack # <<>>
        BY <1>2, <1>3 DEF Feeding
    <2>2. Top.pipe \in DOMAIN d.open
        BY <2>1, PipeIsOpen
    <2>3. d.open[Top.pipe] = "pipe" /\ ~Top.first
        BY <1>2, <1>3, <2>1 DEF Steady, NextInput, Feeding
    <2>4. BeginsWith(v, Top.pipe)
        BY <1>3, <2>2 DEF Beginning, Feeding, Unfed
    <2> QED
        BY <1>3, <2>3, <2>4 DEF BeginsWith, Feeding
<1>4. CASE Unfed
    BY <1>4 DEF Beginning, Feeding, Unfed
<1>5. CASE ~Feeding /\ ~Unfed /\ stdin_override # NoRaw
    <2>1. PICK i \in 1..N : stack[i].kind = "stage" /\ stack[i].pipe = stdin_override
        BY <1>1, <1>5, OverrideIs
    <2>2. IsInput(d, stdin_override)
        BY <1>5, <2>1 DEF Kept, AwayFits
    <2>3. BeginsWith(v, stdin_override)
        BY <1>5, <2>2 DEF Beginning, IsInput
    <2>4. HasInput(stack, N)
        BY <1>5, <2>1 DEF HasInput
    <2>5. s[0] = "pipe"
        <3>1. Meant(stack, N)
            BY <1>1 DEF Steady, Framed
        <3> QED
            BY <2>4, <3>1 DEF Meant
    <2> QED
        BY <2>2, <2>3, <2>5 DEF BeginsWith, IsInput
<1>6. CASE ~Feeding /\ ~Unfed /\ stdin_override = NoRaw
    BY <1>6 DEF Beginning, Feeding, Unfed
<1> QED
    BY <1>3, <1>4, <1>5, <1>6

-----------------------------------------------------------------------------
(* The redirections of a builtin                                           *)

\* What there is for the descriptor of one that was made.
BuiltinMade(t, u, r) ==
    \/ /\ r.op \in FileOperators /\ FileFor(t, u, r.fd, r.file)
       /\ Spares(t, u, Owned(t, {r.fd})) /\ u.exists = Plus(t.exists, r.file)
    \/ /\ r.op = "dup" /\ get_raw_fd(t, r.source) # NoRaw
       /\ EntryFor(t, u, r.fd, Descriptor("Duplicate", get_raw_fd(t, r.source)))
       /\ Spares(t, u, Owned(t, {r.fd})) /\ u.exists = t.exists
    \/ /\ r.op = "close" /\ EntryFor(t, u, r.fd, Descriptor("Closed", NoRaw))
       /\ Spares(t, u, Owned(t, {r.fd})) /\ u.exists = t.exists
    \/ r.op = "<<" /\ u = t
BuiltinWorks(t, r) ==
    /\ r.op \in FileOperators => CanOpen(t, r.file, r.op # "<")
    /\ r.op = "dup" => get_raw_fd(t, r.source) # NoRaw

LEMMA ForBuiltinMakes ==
    ASSUME NEW a, NEW t, NEW own, NEW lent, Held(a, t, own, lent), NEW r, r.op \in Operators,
           r.op = "dup" => r.fd # r.source, NEW result, result = ApplyForBuiltin(t, r)
    PROVE  /\ result.ok <=> BuiltinWorks(t, r)
           /\ result.ok => BuiltinMade(t, result.s, r)
<1>0. IsState(t)
    BY DEF Held, KernelOK
<1>1. CASE r.op \in FileOperators
    <2> DEFINE creating == r.op # "<"
    <2>1. result = open_fd(t, r.fd, r.file, creating)
        BY <1>1 DEF ApplyForBuiltin, FileOperators
    <2>2. BuiltinWorks(t, r) <=> CanOpen(t, r.file, creating)
        BY <1>1 DEF BuiltinWorks, FileOperators
    <2> HIDE DEF creating
    <2>3. CASE ~CanOpen(t, r.file, creating)
        <3>1. result = Failed(t)
            BY <2>1, <2>3 DEF open_fd
        <3> QED
            BY <2>2, <2>3, <3>1, FailedFields
    <2>4. CASE CanOpen(t, r.file, creating)
        <3> DEFINE u == result.s
        <3>1. result.ok
            BY <2>1, <2>4 DEF open_fd, Ok
        <3>2. u = open_fd(t, r.fd, r.file, creating).s
            BY <2>1
        <3> HIDE DEF u
        <3>3. /\ FileFor(t, u, r.fd, r.file) /\ Spares(t, u, Owned(t, {r.fd}))
              /\ u.exists = Plus(t.exists, r.file)
            BY <2>4, <3>2, OpensFile
        <3> QED
            BY <1>1, <2>2, <2>4, <3>1, <3>3 DEF BuiltinMade, u
    <2> QED
        BY <2>3, <2>4
<1>2. CASE r.op = "dup"
    <2>0. r.op \notin FileOperators
        BY <1>2 DEF FileOperators
    <2>1. result = duplicate_fd(t, r.source, r.fd) /\ r.fd # r.source
        BY <1>2 DEF ApplyForBuiltin
    <2>2. CASE get_raw_fd(t, r.source) = NoRaw
        <3>1. result = Failed(t)
            BY <2>1, <2>2 DEF duplicate_fd
        <3> QED
            BY <1>2, <2>2, <3>1, FailedFields DEF BuiltinWorks
    <2>3. CASE get_raw_fd(t, r.source) # NoRaw
        <3> DEFINE entry == Descriptor("Duplicate", get_raw_fd(t, r.source))
                   u == Insert(t, r.fd, entry)
        <3>1. result = Ok(u)
            BY <2>1, <2>3 DEF duplicate_fd
        <3>2. u = Insert(t, r.fd, entry) /\ entry = Descriptor("Duplicate", get_raw_fd(t, r.source))
            OBVIOUS
        <3> HIDE DEF u, entry
        <3>3. EntryFor(t, u, r.fd, entry) /\ Spares(t, u, Owned(t, {r.fd})) /\ u.exists = t.exists
            BY <1>0, <3>2, InsertEntry
        <3>4. BuiltinMade(t, u, r)
            BY <1>2, <2>3, <3>2, <3>3 DEF BuiltinMade
        <3> QED
            BY <1>2, <2>0, <2>3, <3>1, <3>4, OkFields DEF BuiltinWorks
    <2> QED
        BY <2>2, <2>3
<1>3. CASE r.op = "close"
    <2> DEFINE entry == Descriptor("Closed", NoRaw)
               u == Insert(t, r.fd, entry)
    <2>1. result = Ok(u)
        BY <1>3 DEF ApplyForBuiltin, close_fd
    <2>2. u = Insert(t, r.fd, entry) /\ entry = Descriptor("Closed", NoRaw)
        OBVIOUS
    <2> HIDE DEF u, entry
    <2>3. EntryFor(t, u, r.fd, entry) /\ Spares(t, u, Owned(t, {r.fd})) /\ u.exists = t.exists
        BY <1>0, <2>2, InsertEntry
    <2>4. BuiltinMade(t, u, r)
        BY <1>3, <2>2, <2>3 DEF BuiltinMade
    <2>5. BuiltinWorks(t, r)
        BY <1>3 DEF BuiltinWorks, FileOperators
    <2> QED
        BY <2>1, <2>4, <2>5, OkFields
<1>4. CASE r.op = "<<"
    <2>1. result = Ok(t)
        BY <1>4 DEF ApplyForBuiltin
    <2>2. BuiltinWorks(t, r) /\ BuiltinMade(t, t, r)
        BY <1>4 DEF BuiltinWorks, BuiltinMade, FileOperators
    <2> QED
        BY <2>1, <2>2, OkFields
<1> QED
    BY <1>1, <1>2, <1>3, <1>4 DEF Operators, FileOperators

\* What a descriptor of the table is open on is what is meant.
View(t, e, fd) ==
    LET raw == get_raw_fd(t, fd)
    IN IF raw = NoRaw THEN e[fd] = "closed"
       ELSE raw \in DOMAIN t.open /\ e[fd] # "closed" /\ Agrees(t.open[raw], e[fd])

\* That of the input is, if it is looked at.
Views(t, e, zero) == \A fd \in 0..9 : fd # 0 \/ zero => View(t, e, fd)

\* Before it was duplicated, it was in the table.
Locked(rs, k, s) ==
    \E i \in 1..k : /\ rs[i].op = "dup" /\ rs[i].source = s
                    /\ s \in DOMAIN d.fds \/ Sets(rs, i, s, AllOps)
EntryOf(t, n, rs, k) == \E s \in Files(t) : t.fds[s].raw = n /\ Locked(rs, k, s)

\* A duplicate is of a stream, or of a File that stays in the table.
Copied(t, rs, k) ==
    \A fd \in DOMAIN t.fds : t.fds[fd].kind = "Duplicate" =>
       t.fds[fd].raw \in Standard \/ EntryOf(t, t.fds[fd].raw, rs, k)
Entered(t, rs, k) ==
    \A fd \in DOMAIN t.fds : /\ fd \in DOMAIN d.fds \/ Sets(rs, k + 1, fd, AllOps)
                             /\ t.fds[fd].kind \in {"File", "Duplicate", "Closed"}
                             /\ t.fds[fd].kind = "Closed" => t.fds[fd].raw = NoRaw

\* One of them that is not r's stays open when r is made.
LEMMA RawSpared ==
    ASSUME NEW a, NEW t, NEW own, NEW lent, Held(a, t, own, lent), NEW rs, NEW k, Copied(t, rs, k), Entered(t, rs, k),
           NEW fd, \A s : Locked(rs, k, s) => s # fd,
           NEW f, f # fd, get_raw_fd(t, f) # NoRaw
    PROVE  get_raw_fd(t, f) \notin Owned(t, {fd})
<1> DEFINE raw == get_raw_fd(t, f)
<1>1. /\ \A n \in Owned(t, {fd}) : n \notin 0..2
      /\ \A n : n \in Owned(t, {fd}) <=> fd \in Files(t) /\ n = t.fds[fd].raw
      /\ \A g \in Files(t) : g # fd => t.fds[g].raw \notin Owned(t, {fd})
    BY OwnedFacts
<1>2. CASE f \notin DOMAIN t.fds
    BY <1>1, <1>2 DEF get_raw_fd
<1>3. CASE f \in DOMAIN t.fds
    <2>1. raw = t.fds[f].raw /\ t.fds[f].kind # "Closed"
        BY <1>3 DEF get_raw_fd
    <2>2. t.fds[f].kind = "File" \/ t.fds[f].kind = "Duplicate"
        BY <1>3, <2>1 DEF Entered
    <2>3. CASE t.fds[f].kind = "File"
        BY <1>1, <1>3, <2>1, <2>3 DEF Files
    <2>4. CASE t.fds[f].kind = "Duplicate"
        <3>1. raw \in Standard \/ EntryOf(t, raw, rs, k)
            BY <1>3, <2>1, <2>4 DEF Copied
        <3>2. CASE raw \in Standard
            BY <1>1, <3>2 DEF Standard
        <3>3. CASE EntryOf(t, raw, rs, k)
            <4>1. PICK s \in Files(t) : t.fds[s].raw = raw /\ Locked(rs, k, s)
                BY <3>3 DEF EntryOf
            <4> QED
                BY <1>1, <4>1
        <3> QED
            BY <3>1, <3>2, <3>3
    <2> QED
        BY <2>2, <2>3, <2>4
<1> QED
    BY <1>2, <1>3

LEMMA LockedStays ==
    ASSUME NEW rs, NEW m \in Nat \ {0}, NEW k, k = m - 1, NEW s
    PROVE  /\ Locked(rs, k, s) => Locked(rs, m, s)
           /\ rs[m].op = "dup" /\ rs[m].source = s /\ (s \in DOMAIN d.fds \/ Sets(rs, m, s, AllOps)) => Locked(rs, m, s)
BY DEF Locked

LEMMA SetsStays ==
    ASSUME NEW rs, NEW m \in Nat \ {0}, NEW fd, NEW ops
    PROVE  Sets(rs, m + 1, fd, ops) <=> Sets(rs, m, fd, ops) \/ (rs[m].fd = fd /\ rs[m].op \in ops)
<1>1. (m + 1) - 1 = m /\ \A i : i \in 1..m <=> i \in 1..(m - 1) \/ i = m
    OBVIOUS
<1> QED
    BY <1>1 DEF Sets

\* The entry that a redirection makes.
MadeEntry(t, u, r, entry) ==
    /\ EntryFor(t, u, r.fd, entry) /\ Spares(t, u, Owned(t, {r.fd}))
    /\ \/ /\ r.op \in FileOperators /\ entry.kind = "File" /\ entry.raw # NoRaw
          /\ entry.raw \in DOMAIN u.open /\ u.open[entry.raw] = r.file
       \/ /\ r.op = "dup" /\ entry.kind = "Duplicate" /\ entry.raw = get_raw_fd(t, r.source)
          /\ get_raw_fd(t, r.source) # NoRaw
       \/ r.op = "close" /\ entry.kind = "Closed" /\ entry.raw = NoRaw

LEMMA MakesEntry ==
    ASSUME NEW t, NEW u, KernelOK(u), NEW r, r.op # "<<", BuiltinMade(t, u, r)
    PROVE  \E entry : MadeEntry(t, u, r, entry)
<1>1. CASE r.op \in FileOperators
    <2>1. FileFor(t, u, r.fd, r.file) /\ Spares(t, u, Owned(t, {r.fd}))
        BY <1>1 DEF BuiltinMade, FileOperators
    <2>2. PICK n \in DOMAIN u.open : u.open[n] = r.file /\ EntryFor(t, u, r.fd, Descriptor("File", n))
        BY <2>1 DEF FileFor
    <2>3. n \in Nat
        BY DEF KernelOK
    <2> DEFINE entry == Descriptor("File", n)
    <2>4. entry.kind = "File" /\ entry.raw = n /\ n # NoRaw
        BY <2>3 DEF Descriptor, NoRaw
    <2>5. EntryFor(t, u, r.fd, entry)
        BY <2>2
    <2> HIDE DEF entry
    <2> QED
        BY <1>1, <2>1, <2>2, <2>4, <2>5 DEF MadeEntry
<1>2. CASE r.op = "dup"
    <2> DEFINE entry == Descriptor("Duplicate", get_raw_fd(t, r.source))
    <2>1. /\ get_raw_fd(t, r.source) # NoRaw /\ EntryFor(t, u, r.fd, entry)
          /\ Spares(t, u, Owned(t, {r.fd}))
        BY <1>2 DEF BuiltinMade, FileOperators
    <2>2. entry.kind = "Duplicate" /\ entry.raw = get_raw_fd(t, r.source)
        BY DEF Descriptor
    <2> HIDE DEF entry
    <2> QED
        BY <1>2, <2>1, <2>2 DEF MadeEntry
<1>3. CASE r.op = "close"
    <2> DEFINE entry == Descriptor("Closed", NoRaw)
    <2>1. EntryFor(t, u, r.fd, entry) /\ Spares(t, u, Owned(t, {r.fd}))
        BY <1>3 DEF BuiltinMade, FileOperators
    <2>2. entry.kind = "Closed" /\ entry.raw = NoRaw
        BY DEF Descriptor
    <2> HIDE DEF entry
    <2> QED
        BY <1>3, <2>1, <2>2 DEF MadeEntry
<1> QED
    BY <1>1, <1>2, <1>3 DEF BuiltinMade

\* What one of a builtin's redirections leaves of the table, after k of rs.
LEMMA TableAfter ==
    ASSUME NEW rs, NEW m \in Nat \ {0}, NEW k, k = m - 1, NEW r, r = rs[m], r.op \in Operators,
           r.op = "dup" => r.fd # r.source,
           NEW t, NEW u, Copied(t, rs, k), Entered(t, rs, k), \A s : Locked(rs, k, s) => s # r.fd,
           NEW entry, MadeEntry(t, u, r, entry)
    PROVE  Copied(u, rs, m) /\ Entered(u, rs, m)
<1>1. /\ DOMAIN u.fds = DOMAIN t.fds \cup {r.fd} /\ u.fds[r.fd] = entry
      /\ \A f \in DOMAIN t.fds : f # r.fd => u.fds[f] = t.fds[f]
    BY DEF MadeEntry, EntryFor
<1>2. \A f : Sets(rs, m + 1, f, AllOps) <=> Sets(rs, m, f, AllOps) \/ (r.fd = f /\ r.op \in AllOps)
    BY SetsStays
<1>3. r.op \in AllOps /\ k + 1 = m
    BY DEF AllOps, Operators
<1>4. Entered(u, rs, m)
    <2> SUFFICES ASSUME NEW fd \in DOMAIN u.fds
                 PROVE  /\ fd \in DOMAIN d.fds \/ Sets(rs, m + 1, fd, AllOps)
                        /\ u.fds[fd].kind \in {"File", "Duplicate", "Closed"}
                        /\ u.fds[fd].kind = "Closed" => u.fds[fd].raw = NoRaw
        BY DEF Entered
    <2>1. CASE fd = r.fd
        BY <1>1, <1>2, <1>3, <2>1 DEF MadeEntry
    <2>2. CASE fd # r.fd
        BY <1>1, <1>2, <1>3, <2>2 DEF Entered
    <2> QED
        BY <2>1, <2>2
<1>5. ASSUME NEW n, EntryOf(t, n, rs, k) PROVE EntryOf(u, n, rs, m)
    <2>1. PICK s \in Files(t) : t.fds[s].raw = n /\ Locked(rs, k, s)
        BY <1>5 DEF EntryOf
    <2>2. s # r.fd /\ s \in DOMAIN t.fds /\ t.fds[s].kind = "File"
        BY <2>1 DEF Files
    <2>3. s \in Files(u) /\ u.fds[s].raw = n
        BY <1>1, <2>1, <2>2 DEF Files
    <2>4. Locked(rs, m, s)
        BY <2>1, LockedStays
    <2> QED
        BY <2>3, <2>4 DEF EntryOf
<1>6. ASSUME NEW fd \in DOMAIN u.fds, u.fds[fd].kind = "Duplicate"
      PROVE  u.fds[fd].raw \in Standard \/ EntryOf(u, u.fds[fd].raw, rs, m)
    <2>1. CASE fd # r.fd
        BY <1>1, <1>5, <1>6, <2>1 DEF Copied
    <2>2. CASE fd = r.fd
        <3>1. r.op = "dup" /\ entry.raw = get_raw_fd(t, r.source) /\ get_raw_fd(t, r.source) # NoRaw
            BY <1>1, <1>6, <2>2 DEF MadeEntry
        <3> DEFINE s == r.source
                   raw == get_raw_fd(t, s)
        <3>2. u.fds[fd].raw = raw /\ s # r.fd
            BY <1>1, <2>2, <3>1
        <3>3. CASE s \notin DOMAIN t.fds
            BY <3>1, <3>2, <3>3 DEF get_raw_fd, Standard
        <3>4. CASE s \in DOMAIN t.fds
            <4>1. raw = t.fds[s].raw /\ t.fds[s].kind # "Closed"
                BY <3>1, <3>4 DEF get_raw_fd
            <4>2. t.fds[s].kind = "File" \/ t.fds[s].kind = "Duplicate"
                BY <3>4, <4>1 DEF Entered
            <4>3. CASE t.fds[s].kind = "Duplicate"
                <5>1. raw \in Standard \/ EntryOf(t, raw, rs, k)
                    BY <3>4, <4>1, <4>3 DEF Copied
                <5> QED
                    BY <1>5, <3>2, <5>1
            <4>4. CASE t.fds[s].kind = "File"
                <5>1. s \in Files(u) /\ u.fds[s].raw = raw
                    BY <1>1, <3>2, <3>4, <4>1, <4>4 DEF Files
                <5>2. s \in DOMAIN d.fds \/ Sets(rs, m, s, AllOps)
                    BY <1>3, <3>4 DEF Entered
                <5>3. Locked(rs, m, s)
                    BY <3>1, <5>2, LockedStays
                <5> QED
                    BY <3>2, <5>1, <5>3 DEF EntryOf
            <4> QED
                BY <4>2, <4>3, <4>4
        <3> QED
            BY <3>3, <3>4
    <2> QED
        BY <2>1, <2>2
<1>7. Copied(u, rs, m)
    BY <1>6 DEF Copied
<1> QED
    BY <1>4, <1>7

\* What is seen of it.
LEMMA ViewsAfter ==
    ASSUME NEW a, NEW t, NEW own, NEW lent, Held(a, t, own, lent),
           NEW rs, NEW k, NEW r, r.op \in Operators, IsRedirection(r), r.op = "dup" => r.fd # r.source,
           NEW u, Copied(t, rs, k), Entered(t, rs, k), \A s : Locked(rs, k, s) => s # r.fd,
           NEW entry, MadeEntry(t, u, r, entry),
           NEW e, DOMAIN e = 0..9, NEW zero, r.op = "dup" /\ r.source = 0 => zero, Views(t, e, zero),
           NEW e2, e2 = Redirected(e, r)
    PROVE  Views(u, e2, zero)
<1>1. /\ DOMAIN u.fds = DOMAIN t.fds \cup {r.fd} /\ u.fds[r.fd] = entry
      /\ \A f \in DOMAIN t.fds : f # r.fd => u.fds[f] = t.fds[f]
      /\ \A n \in DOMAIN t.open : n \notin Owned(t, {r.fd}) => n \in DOMAIN u.open /\ u.open[n] = t.open[n]
    BY DEF MadeEntry, EntryFor, Spares
<1>2. /\ r.fd \in 0..9
      /\ \A fd \in 0..9 : fd # r.fd => e2[fd] = e[fd]
      /\ r.op \in FileOperators => e2[r.fd] = r.file /\ e2[r.fd] # "closed"
      /\ r.op = "dup" => e2[r.fd] = e[r.source] /\ r.source \in 0..9
      /\ r.op = "close" => e2[r.fd] = "closed"
    BY RedirectedEnv

\* A number that another descriptor has in the table is open on the same.
<1>3. ASSUME NEW f, f # r.fd, get_raw_fd(t, f) # NoRaw, get_raw_fd(t, f) \in DOMAIN t.open
      PROVE  get_raw_fd(t, f) \in DOMAIN u.open /\ u.open[get_raw_fd(t, f)] = t.open[get_raw_fd(t, f)]
    <2> DEFINE fd == r.fd
    <2>1. \A s : Locked(rs, k, s) => s # fd
        OBVIOUS
    <2>2. f # fd /\ fd = r.fd
        BY <1>3
    <2> HIDE DEF fd
    <2>3. get_raw_fd(t, f) \notin Owned(t, {fd})
        BY <1>3, <2>1, <2>2, RawSpared
    <2> QED
        BY <1>1, <1>3, <2>2, <2>3
<1> SUFFICES ASSUME NEW fd \in 0..9, fd # 0 \/ zero PROVE View(u, e2, fd)
    BY DEF Views
<1>4. CASE fd # r.fd
    <2>1. get_raw_fd(u, fd) = get_raw_fd(t, fd)
        BY <1>1, <1>4 DEF get_raw_fd
    <2>2. View(t, e, fd) /\ e2[fd] = e[fd]
        BY <1>2, <1>4 DEF Views
    <2> QED
        BY <1>3, <1>4, <2>1, <2>2 DEF View
<1>5. CASE fd = r.fd
    <2>1. get_raw_fd(u, fd) = IF entry.kind = "Closed" THEN NoRaw ELSE entry.raw
        BY <1>1, <1>5 DEF get_raw_fd
    <2>2. CASE r.op = "close"
        <3>1. entry.kind = "Closed"
            BY <2>2 DEF MadeEntry, FileOperators
        <3> QED
            BY <1>2, <1>5, <2>1, <2>2, <3>1 DEF View
    <2>3. CASE r.op \in FileOperators
        <3>1. entry.kind = "File" /\ entry.raw # NoRaw /\ entry.raw \in DOMAIN u.open /\ u.open[entry.raw] = r.file
            BY <2>3 DEF MadeEntry, FileOperators
        <3> QED
            BY <1>2, <1>5, <2>1, <2>3, <3>1 DEF View, Agrees
    <2>4. CASE r.op = "dup"
        <3>1. entry.kind = "Duplicate" /\ entry.raw = get_raw_fd(t, r.source) /\ get_raw_fd(t, r.source) # NoRaw
            BY <2>4 DEF MadeEntry, FileOperators
        <3>2. View(t, e, r.source) /\ r.source # r.fd
            BY <1>2, <2>4 DEF Views
        <3>3. get_raw_fd(u, fd) = get_raw_fd(t, r.source) /\ e2[fd] = e[r.source]
            BY <1>2, <1>5, <2>1, <2>4, <3>1
        <3> QED
            BY <1>3, <3>1, <3>2, <3>3 DEF View
    <2> QED
        BY <2>2, <2>3, <2>4 DEF MadeEntry
<1> QED
    BY <1>4, <1>5

\* A builtin's redirections, where the program does what is meant.
ReadsInput(rs) == \E i \in 1..Len(rs) : rs[i].op = "dup" /\ rs[i].source = 0
NeverLocked(rs) == \A m \in 1..Len(rs) : \A s : Locked(rs, m - 1, s) => s # rs[m].fd
ForBuiltin(r) ==
    /\ r.op \in Operators /\ IsRedirection(r) /\ (r.op = "dup" => r.fd # r.source)
    /\ ~(noclobber /\ r.op = ">")

\* Whether a file is there: "none" is not one.
SameFiles(t, there) == \A file : file # "none" => (file \in t.exists <=> file \in there)

LEMMA ThereMore ==
    ASSUME NEW existed, NEW rs, NEW m \in Nat \ {0}, NEW r, r = rs[m], NEW file
    PROVE  file \in There(existed, rs, m) <=> file \in There(existed, rs, m - 1) \/ (r.op # "<" /\ file = r.file)
<1>1. \A i : i \in 1..m <=> i \in 1..(m - 1) \/ i = m
    OBVIOUS
<1> QED
    BY <1>1 DEF There

LEMMA ThereNone ==
    ASSUME NEW existed, NEW rs
    PROVE  There(existed, rs, 0) = existed
BY DEF There

\* It fails when it should.
LEMMA BuiltinFailsWith ==
    ASSUME NEW r, ForBuiltin(r), NEW t, NEW there, SameFiles(t, there), NEW e, r.op = "dup" => View(t, e, r.source)
    PROVE  BuiltinWorks(t, r) <=> ~FailsWith(e, r, there)
<1>1. r.op \in FileOperators => r.file # "none"
    BY DEF ForBuiltin, IsRedirection
<1>2. CASE r.op \in FileOperators
    <2>1. r.file \in t.exists <=> r.file \in there
        BY <1>1, <1>2 DEF SameFiles
    <2>2. r.op # "dup"
        BY <1>2 DEF FileOperators
    <2> QED
        BY <1>2, <2>1, <2>2 DEF BuiltinWorks, FailsWith, CanOpen, Exists, ForBuiltin
<1>3. CASE r.op = "dup"
    <2>1. r.op \notin FileOperators
        BY <1>3 DEF FileOperators
    <2> QED
        BY <1>3, <2>1 DEF BuiltinWorks, FailsWith, View
<1>4. CASE r.op \notin FileOperators /\ r.op # "dup"
    BY <1>4 DEF BuiltinWorks, FailsWith
<1> QED
    BY <1>2, <1>3, <1>4

LEMMA FilesAfter ==
    ASSUME NEW existed, NEW rs, NEW m \in Nat \ {0}, NEW k, k = m - 1, NEW r, r = rs[m], ForBuiltin(r),
           NEW t, SameFiles(t, There(existed, rs, k)), BuiltinWorks(t, r), NEW u, BuiltinMade(t, u, r)
    PROVE  SameFiles(u, There(existed, rs, m))
<1> SUFFICES ASSUME NEW file, file # "none"
             PROVE  file \in u.exists <=> file \in There(existed, rs, m)
    BY DEF SameFiles
<1>1. file \in There(existed, rs, m) <=> file \in There(existed, rs, k) \/ (r.op # "<" /\ file = r.file)
    BY ThereMore
<1>2. file \in t.exists <=> file \in There(existed, rs, k)
    BY DEF SameFiles
<1>3. CASE r.op \in FileOperators
    <2>1. u.exists = Plus(t.exists, r.file)
        BY <1>3 DEF BuiltinMade, FileOperators
    <2>2. r.op = "<" => r.file \in t.exists
        BY <1>3 DEF BuiltinWorks, CanOpen, Exists
    <2> QED
        BY <1>1, <1>2, <2>1, <2>2 DEF Plus
<1>4. CASE r.op \notin FileOperators
    <2>1. u.exists = t.exists /\ r.file = "none"
        BY <1>4 DEF BuiltinMade, ForBuiltin, IsRedirection
    <2> QED
        BY <1>1, <1>2, <2>1
<1> QED
    BY <1>3, <1>4

\* After the first n of a builtin's redirections the copies can still be put back,
\* and the table says of each descriptor what the environment does.
BuiltinPath(a, lent, rs, e0, n, t) ==
    /\ Held(a, t, Standard, lent)
    /\ DOMAIN EnvAt(e0, rs, n) = 0..9 /\ Views(t, EnvAt(e0, rs, n), ReadsInput(rs))
    /\ Copied(t, rs, n) /\ Entered(t, rs, n)
    /\ SameFiles(t, There(event'.existed, rs, n))

\* Saving creates no file.
LEMMA SaveExists ==
    ASSUME NEW t, IsState(t), NEW fd, NEW u, u = save_fd(t, fd).s
    PROVE  IsState(u) /\ u.exists = t.exists
<1>1. CASE fd \notin DOMAIN t.open
    BY <1>1 DEF save_fd, Failed
<1>2. CASE fd \in DOMAIN t.open
    <2> DEFINE v == Dup(t, fd)
               copies == With(v.saved_fds, fd, Lowest(t.open))
    <2>1. IsState(v) /\ v.exists = t.exists
        BY DupFields
    <2>2. u = [v EXCEPT !.saved_fds = copies]
        BY <1>2 DEF save_fd, Ok
    <2>3. IsFunction(copies)
        BY WithFacts
    <2> HIDE DEF v, copies
    <2>4. u.saved_fds = copies /\ u.exists = v.exists
        BY <2>1, <2>2 DEF IsState
    <2> QED
        BY <2>1, <2>2, <2>3, <2>4 DEF IsState
<1> QED
    BY <1>1, <1>2

LEMMA SaveStandardExists ==
    ASSUME NEW t, IsState(t), NEW fd, NEW u, u = SaveStandard(t, fd).s
    PROVE  IsState(u) /\ u.exists = t.exists
<1>1. u = t \/ u = save_fd(t, fd).s
    BY DEF SaveStandard, Ok
<1> QED
    BY <1>1, SaveExists

SameThere(t, u) == IsState(u) /\ u.exists = t.exists

LEMMA SavesExist ==
    ASSUME NEW t, IsState(t), NEW order, Len(order) \in Nat, NEW last, last = InOrder(order, t, save_fd)
    PROVE  SameThere(t, last.s)
<1> DEFINE N == Len(order)
<1>1. PICK results : OfSave!Chain(order, Ok(t), last, results)
    BY SavesInOrder
<1> DEFINE S == {n \in 0..N : SameThere(t, results[n].s)}
<1>2. 0 \in S
    BY <1>1 DEF OfSave!Chain, Ok, SameThere
<1>3. ASSUME NEW m \in 1..N, m - 1 \in S PROVE m \in S
    <2> DEFINE k == m - 1
               v == results[k].s
    <2>1. SameThere(t, v)
        BY <1>3
    <2>2. results[k].ok => results[m] = save_fd(v, order[m])
        BY <1>1 DEF OfSave!Chain
    <2>3. ~results[k].ok => results[m] = results[k]
        BY <1>1 DEF OfSave!Chain
    <2> HIDE DEF v
    <2>4. CASE results[k].ok
        <3>1. results[m].s = save_fd(v, order[m]).s
            BY <2>2, <2>4
        <3>2. SameThere(t, results[m].s)
            BY <2>1, <3>1, SaveExists DEF SameThere
        <3> QED
            BY <3>2
    <2>5. CASE ~results[k].ok
        BY <2>1, <2>3, <2>5 DEF v
    <2> QED
        BY <2>4, <2>5
<1>4. N \in S
    <2>1. S = 0..N
        <3> HIDE DEF S
        <3>1. S \in SUBSET (0..N)
            BY DEF S
        <3> QED
            BY <1>2, <1>3, <3>1, OfSave!UpTo
    <2> QED
        BY <2>1
<1> QED
    BY <1>1, <1>4 DEF OfSave!Chain

LEMMA SavesStandardExist ==
    ASSUME NEW t, IsState(t), NEW order, Len(order) \in Nat, NEW last, last = InOrder(order, t, SaveStandard)
    PROVE  SameThere(t, last.s)
<1> DEFINE N == Len(order)
<1>1. PICK results : OfSaveStandard!Chain(order, Ok(t), last, results)
    BY SavesStandardInOrder
<1> DEFINE S == {n \in 0..N : SameThere(t, results[n].s)}
<1>2. 0 \in S
    BY <1>1 DEF OfSaveStandard!Chain, Ok, SameThere
<1>3. ASSUME NEW m \in 1..N, m - 1 \in S PROVE m \in S
    <2> DEFINE k == m - 1
               v == results[k].s
    <2>1. SameThere(t, v)
        BY <1>3
    <2>2. results[k].ok => results[m] = SaveStandard(v, order[m])
        BY <1>1 DEF OfSaveStandard!Chain
    <2>3. ~results[k].ok => results[m] = results[k]
        BY <1>1 DEF OfSaveStandard!Chain
    <2> HIDE DEF v
    <2>4. CASE results[k].ok
        <3>1. results[m].s = SaveStandard(v, order[m]).s
            BY <2>2, <2>4
        <3>2. SameThere(t, results[m].s)
            BY <2>1, <3>1, SaveStandardExists DEF SameThere
        <3> QED
            BY <3>2
    <2>5. CASE ~results[k].ok
        BY <2>1, <2>3, <2>5 DEF v
    <2> QED
        BY <2>4, <2>5
<1>4. N \in S
    <2>1. S = 0..N
        <3> HIDE DEF S
        <3>1. S \in SUBSET (0..N)
            BY DEF S
        <3> QED
            BY <1>2, <1>3, <3>1, OfSave!UpTo
    <2> QED
        BY <2>1
<1> QED
    BY <1>1, <1>4 DEF OfSaveStandard!Chain

LEMMA SaveAllExist ==
    ASSUME NEW t, IsState(t), NEW order, Len(order) \in Nat, NEW saved, saved = save_all_fds(t, order)
    PROVE  saved.s.exists = t.exists
<1> DEFINE tracked == InOrder(order, t, save_fd)
           three == <<0, 1, 2>>
           others == InOrder(three, tracked.s, SaveStandard)
<1>1. saved = IF tracked.ok THEN others ELSE tracked
    BY DEF save_all_fds
<1>2. tracked = InOrder(order, t, save_fd) /\ others = InOrder(three, tracked.s, SaveStandard) /\ Len(three) \in Nat
    OBVIOUS
<1> HIDE DEF tracked, three, others
<1>3. SameThere(t, tracked.s)
    BY <1>2, SavesExist
<1>4. SameThere(tracked.s, others.s)
    <2> DEFINE v == tracked.s
    <2>1. IsState(v) /\ others = InOrder(three, v, SaveStandard)
        BY <1>2, <1>3 DEF SameThere
    <2> HIDE DEF v
    <2>2. SameThere(v, others.s)
        BY <1>2, <2>1, SavesStandardExist
    <2> QED
        BY <2>2 DEF v
<1> QED
    BY <1>1, <1>3, <1>4 DEF SameThere

LEMMA NothingFails ==
    ASSUME NEW e, NEW rs, rs = <<>>
    PROVE  ~Fails(e, rs) /\ AllRedirected(e, rs) = e
<1>1. Len(rs) = 0 /\ DOMAIN rs = {} /\ DOMAIN rs = 1..Len(rs)
    OBVIOUS
<1>2. AllRedirected(e, rs) = OfRedirected!Folded(rs, e)
    BY <1>1, RedirectedInOrder
<1>3. OfRedirected!Folded(rs, e) = e
    BY <1>1, OfRedirected!FoldOfNothing
<1> QED
    BY <1>1, <1>2, <1>3 DEF Fails

BuiltinFit(rs) ==
    /\ IsStack(rs) /\ Len(rs) \in Nat /\ DOMAIN rs = 1..Len(rs)
    /\ \A i \in 1..Len(rs) : ForBuiltin(rs[i])
    /\ \A i \in 1..Len(rs) : rs[i].op = "<<" => ~ReadsInput(rs)
    /\ NeverLocked(rs)
    /\ ReadsInput(rs) => ~(InPipeline /\ ~Top.first) /\ ~Overridden(stack, 0)

LEMMA BuiltinFits ==
    ASSUME NEW rs \in Redirections, event'.kind = "builtin", ~Lost(rs)
    PROVE  BuiltinFit(rs)
<1>1. IsStack(rs) /\ Len(rs) \in Nat /\ DOMAIN rs = 1..Len(rs) /\ \A i \in 1..Len(rs) : rs[i].op \in Operators /\ IsRedirection(rs[i])
    BY RedirectionSeq, RedirectionShape
<1>2. ~LostByBuiltin(rs) /\ ~LostByDuplicate(rs)
    BY DEF Lost
<1>3. \A i \in 1..Len(rs) : rs[i].op = "dup" => rs[i].fd # rs[i].source
    BY <1>1, <1>2 DEF LostByDuplicate, Has
<1>4. ReadsInput(rs) => ~(InPipeline /\ ~Top.first) /\ ~Overridden(stack, 0)
    BY <1>1, <1>2 DEF LostByDuplicate, Has, ReadsInput
<1>5. \A i \in 1..Len(rs) : ~(noclobber /\ rs[i].op = ">")
    BY <1>1, <1>2 DEF LostByBuiltin, Has
<1>6. \A i \in 1..Len(rs) : rs[i].op = "<<" => ~ReadsInput(rs)
    BY <1>1, <1>2 DEF LostByBuiltin, Has, ReadsInput
<1>7. NeverLocked(rs)
    <2> SUFFICES ASSUME NEW m \in 1..Len(rs), NEW s, Locked(rs, m - 1, s), s = rs[m].fd PROVE FALSE
        BY DEF NeverLocked
    <2>1. PICK i \in 1..(m - 1) : rs[i].op = "dup" /\ rs[i].source = s /\ (s \in DOMAIN d.fds \/ Sets(rs, i, s, AllOps))
        BY DEF Locked
    <2>2. i \in DOMAIN rs /\ m \in DOMAIN rs /\ i < m
        BY <1>1
    <2> QED
        BY <1>2, <2>1, <2>2 DEF LostByBuiltin
<1> QED
    BY <1>1, <1>3, <1>4, <1>5, <1>6, <1>7 DEF BuiltinFit, ForBuiltin

LEMMA BuiltinStep ==
    ASSUME NEW rs, BuiltinFit(rs), NEW a, NEW lent, NEW e0, NEW m \in 1..Len(rs), NEW k, k = m - 1,
           NEW t, BuiltinPath(a, lent, rs, e0, k, t), NEW result, result = ApplyForBuiltin(t, rs[m])
    PROVE  /\ result.ok <=> ~FailsAt(e0, rs, m)
           /\ result.ok => BuiltinPath(a, lent, rs, e0, m, result.s)
<1> DEFINE r == rs[m]
           e == EnvAt(e0, rs, k)
           e2 == EnvAt(e0, rs, m)
           zero == ReadsInput(rs)
           there == There(event'.existed, rs, k)
           own == Standard
           u == result.s
<1>1. /\ IsStack(rs) /\ Len(rs) \in Nat /\ ForBuiltin(r) /\ (r.op = "<<" => ~zero)
      /\ \A s : Locked(rs, k, s) => s # r.fd
    BY DEF BuiltinFit, NeverLocked
<1>2. m \in Nat \ {0}
    BY <1>1
<1>3. r.op = "dup" /\ r.source = 0 => zero
    BY DEF ReadsInput
<1>4. e2 = Redirected(e, r)
    BY <1>1, EnvMore
<1>5. FailsAt(e0, rs, m) <=> FailsWith(e, r, there)
    <2>1. rs[m].op \in Operators
        BY <1>1 DEF ForBuiltin
    <2> QED
        BY <1>1, <2>1, FailsAtIs
<1>6. /\ Held(a, t, own, lent) /\ DOMAIN e = 0..9 /\ Views(t, e, zero)
      /\ Copied(t, rs, k) /\ Entered(t, rs, k) /\ SameFiles(t, there)
    BY DEF BuiltinPath
<1>7. r.op \in Operators /\ IsRedirection(r) /\ (r.op = "dup" => r.fd # r.source)
    BY <1>1 DEF ForBuiltin
<1>8. r = rs[m] /\ there = There(event'.existed, rs, k) /\ result = ApplyForBuiltin(t, r) /\ u = result.s
    OBVIOUS
<1>8a. zero = ReadsInput(rs) /\ e = EnvAt(e0, rs, k) /\ e2 = EnvAt(e0, rs, m) /\ own = Standard
    OBVIOUS
<1> HIDE DEF r, e, e2, zero, there, own, u
<1>9. r.op = "dup" => View(t, e, r.source)
    <2>1. r.op = "dup" => r.source \in 0..9
        BY <1>7 DEF IsRedirection
    <2> QED
        BY <1>3, <1>6, <2>1 DEF Views
<1>10. BuiltinWorks(t, r) <=> ~FailsWith(e, r, there)
    BY <1>1, <1>6, <1>9, BuiltinFailsWith
<1>11. (result.ok <=> BuiltinWorks(t, r)) /\ (result.ok => BuiltinMade(t, u, r))
    BY <1>6, <1>7, <1>8, ForBuiltinMakes
<1>12. ASSUME result.ok PROVE BuiltinPath(a, lent, rs, e0, m, u)
    <2>1. BuiltinMade(t, u, r) /\ BuiltinWorks(t, r)
        BY <1>11, <1>12
    <2>2. Held(a, u, own, lent)
        <3>1. u = ApplyForBuiltin(t, r).s
            BY <1>8
        <3> QED
            BY <1>6, <1>7, <3>1, ForBuiltinKeeps
    <2>3. SameFiles(u, There(event'.existed, rs, m))
        <3> DEFINE existed == event'.existed
        <3>1. SameFiles(t, There(existed, rs, k))
            BY <1>6, <1>8
        <3> HIDE DEF existed
        <3>2. SameFiles(u, There(existed, rs, m))
            BY <1>1, <1>2, <1>8, <2>1, <3>1, FilesAfter
        <3> QED
            BY <3>2 DEF existed
    <2>4. DOMAIN e2 = 0..9 /\ \A fd \in 0..9 : fd # r.fd => e2[fd] = e[fd]
        BY <1>4, <1>6, <1>7, RedirectedEnv
    <2>5. CASE r.op = "<<"
        <3>1. u = t /\ ~zero /\ r.fd = 0
            BY <1>1, <1>7, <2>1, <2>5 DEF BuiltinMade, FileOperators, IsRedirection
        <3>2. Views(u, e2, zero)
            <4> SUFFICES ASSUME NEW fd \in 0..9, fd # 0 PROVE View(u, e2, fd)
                BY <3>1 DEF Views
            <4> QED
                BY <1>6, <2>4, <3>1 DEF Views, View
        <3>3. Copied(u, rs, m)
            <4>1. \A s : Locked(rs, k, s) => Locked(rs, m, s)
                BY <1>2, LockedStays
            <4> QED
                BY <1>6, <3>1, <4>1 DEF Copied, EntryOf
        <3>4. Entered(u, rs, m)
            <4> DEFINE ops == AllOps
            <4>1. \A fd : Sets(rs, m, fd, ops) => Sets(rs, m + 1, fd, ops)
                BY <1>2, SetsStays
            <4>2. k + 1 = m
                BY <1>2
            <4> QED
                BY <1>6, <3>1, <4>1, <4>2 DEF Entered
        <3> QED
            BY <1>8a, <2>2, <2>3, <2>4, <3>2, <3>3, <3>4 DEF BuiltinPath
    <2>6. CASE r.op # "<<"
        <3>1. KernelOK(u)
            BY <2>2 DEF Held
        <3>2. PICK entry : MadeEntry(t, u, r, entry)
            BY <2>1, <2>6, <3>1, MakesEntry
        <3>3. Copied(u, rs, m) /\ Entered(u, rs, m)
            BY <1>1, <1>2, <1>6, <1>7, <1>8, <3>2, TableAfter
        <3>4. Views(u, e2, zero)
            BY <1>1, <1>3, <1>4, <1>6, <1>7, <3>2, ViewsAfter
        <3> QED
            BY <1>8a, <2>2, <2>3, <2>4, <3>3, <3>4 DEF BuiltinPath
    <2> QED
        BY <2>5, <2>6
<1> QED
    BY <1>5, <1>10, <1>11, <1>12 DEF u

\* All of them.
LEMMA AllOfBuiltin ==
    ASSUME NEW rs, BuiltinFit(rs), NEW a, NEW lent, NEW e0, NEW t, BuiltinPath(a, lent, rs, e0, 0, t),
           NEW last, last = AllForBuiltin(rs, t)
    PROVE  /\ last.ok <=> ~Fails(e0, rs)
           /\ last.ok => BuiltinPath(a, lent, rs, e0, Len(rs), last.s)
<1> DEFINE N == Len(rs)
           Clear(n) == \A i \in 1..n : ~FailsAt(e0, rs, i)
<1>0. N \in Nat /\ DOMAIN rs = 1..N /\ N = Len(rs)
    BY DEF BuiltinFit
<1>1. PICK results : OfApplyForBuiltin!Chain(rs, Ok(t), last, results)
    BY <1>0, AppliesForBuiltin DEF AllForBuiltin
<1> DEFINE Good(n) == IF results[n].ok THEN Clear(n) /\ BuiltinPath(a, lent, rs, e0, n, results[n].s) ELSE ~Clear(n)
           S == {n \in 0..N : Good(n)}
<1>2. 0 \in S
    <2>1. results[0].ok /\ results[0].s = t
        BY <1>1 DEF OfApplyForBuiltin!Chain, Ok
    <2>2. Clear(0)
        OBVIOUS
    <2> HIDE DEF Clear
    <2> QED
        BY <1>0, <2>1, <2>2
<1>3. ASSUME NEW m \in 1..N, m - 1 \in S PROVE m \in S
    <2> DEFINE k == m - 1
    <2>1. Clear(m) <=> Clear(k) /\ ~FailsAt(e0, rs, m)
        <3>1. \A i : i \in 1..m <=> i \in 1..k \/ i = m
            BY <1>0
        <3> QED
            BY <3>1
    <2>2. Good(k) /\ k = m - 1 /\ m \in 0..N
        BY <1>3
    <2>3. results[k].ok => results[m] = ApplyForBuiltin(results[k].s, rs[m])
        BY <1>0, <1>1 DEF OfApplyForBuiltin!Chain
    <2>4. ~results[k].ok => results[m] = results[k]
        BY <1>0, <1>1 DEF OfApplyForBuiltin!Chain
    <2> HIDE DEF k, Clear
    <2>5. CASE ~results[k].ok
        BY <2>1, <2>2, <2>4, <2>5
    <2>6. CASE results[k].ok
        <3> DEFINE v == results[k].s
                   result == results[m]
        <3>1. BuiltinPath(a, lent, rs, e0, k, v) /\ Clear(k)
            BY <2>2, <2>6
        <3>2. result = ApplyForBuiltin(v, rs[m]) /\ result = results[m]
            BY <2>3, <2>6
        <3> HIDE DEF v, result
        <3>3. /\ result.ok <=> ~FailsAt(e0, rs, m)
              /\ result.ok => BuiltinPath(a, lent, rs, e0, m, result.s)
            BY <1>0, <2>2, <3>1, <3>2, BuiltinStep
        <3>4. Good(m)
            BY <2>1, <3>1, <3>2, <3>3
        <3> QED
            BY <2>2, <3>4
    <2> QED
        BY <2>5, <2>6
<1>4. Good(N)
    <2>1. S = 0..N
        <3> HIDE DEF S
        <3>1. S \in SUBSET (0..N)
            BY DEF S
        <3> QED
            BY <1>0, <1>2, <1>3, <3>1, OfSave!UpTo
    <2>2. N \in S
        BY <1>0, <2>1
    <2> QED
        BY <2>2
<1>5. results[N] = last
    BY <1>0, <1>1 DEF OfApplyForBuiltin!Chain
<1>6. Fails(e0, rs) <=> ~Clear(N)
    BY <1>0 DEF Fails
<1> HIDE DEF Clear
<1> QED
    BY <1>4, <1>5, <1>6, <1>0

\* What a builtin's redirections find.
LEMMA BuiltinBegins ==
    ASSUME NEW h, Ledger(h, stack, d), Steady(stack, d), Decent(stack), Kept(stack, d),
           NEW last \in Lasts, ~Collected(last), NEW e0, e0 = CommandEnv(last),
           NEW order \in Orders(d.fds), NEW saved, saved = save_all_fds(d, order),
           event'.existed = d.exists, NEW rs, BuiltinFit(rs)
    PROVE  /\ saved.ok
           /\ \E b : BuiltinPath(b, CommandLent, rs, e0, 0, saved.s)
<1> DEFINE N == Len(stack)
           s == StreamsOf(stack, N)
           t == saved.s
           zero == ReadsInput(rs)
           own == {}
           some == CommandLent
<1>1. N = Len(stack) /\ s = StreamsOf(stack, N) /\ t = saved.s /\ zero = ReadsInput(rs) /\ own = {} /\ some = CommandLent
    OBVIOUS
<1> HIDE DEF N, s, t, zero, own, some
<1>2. /\ Held(h[N], d, Own(stack, N), Pipes(stack, N))
      /\ IsState(d) /\ DOMAIN d.fds \subseteq Standard /\ DOMAIN d.saved_fds \subseteq Standard
    BY <1>1, DFacts
<1>3. own \in SUBSET Own(stack, N) /\ some \in SUBSET Pipes(stack, N)
    BY <1>1, CommandLentFacts
<1>4. PICK b : Held(b, d, own, some)
    BY <1>2, <1>3, RebasedOn
<1>5. saved.ok /\ Held(b, t, Standard, some) /\ t.fds = d.fds /\ Unmoved(d, t)
    <2>1. Held(b, d, {}, some)
        BY <1>1, <1>4
    <2> QED
        BY <1>1, <1>2, <2>1, SaveAllStandard
<1>6. t.exists = d.exists
    <2>1. Len(order) \in Nat
        BY <1>2, OrderFacts DEF Standard
    <2> QED
        BY <1>1, <1>2, <2>1, SaveAllExist
<1>7. ScopeOfCommand(last, e0, s)
    BY <1>1, CommandScope
<1>8. IsEnv(e0) /\ e0[1] = s[1] /\ e0[2] = s[2] /\ e0[0] = IF InPipeline /\ ~Top.first THEN "pipe" ELSE s[0]
    BY <1>7 DEF ScopeOfCommand
<1>9. zero => e0[0] = s[0] /\ ~HasInput(stack, N)
    <2>1. IsStack(stack)
        BY LedgerStack
    <2>2. PICK T : stack \in Seq(T)
        BY <2>1 DEF IsStack
    <2>3. DOMAIN stack = 1..N
        BY <1>1, <2>2, LenProperties
    <2> QED
        BY <1>1, <1>8, <2>3 DEF BuiltinFit, Overridden, HasInput
<1>10. EnvAt(e0, rs, 0) = e0
    BY EnvNone DEF BuiltinFit
<1>11. ASSUME NEW fd \in Standard, fd # 0 \/ zero PROVE e0[fd] = s[fd] /\ e0[fd] # "closed"
    BY <1>8, <1>9, <1>11 DEF Standard, IsEnv
<1>12. \A n \in DOMAIN d.open : n # NoRaw /\ n \in DOMAIN t.open /\ t.open[n] = d.open[n]
    <2>1. DOMAIN d.open \subseteq Nat
        BY <1>2 DEF Held, KernelOK
    <2> QED
        BY <1>5, <2>1 DEF Unmoved, NoRaw
<1>13. Views(t, e0, zero)
    <2> SUFFICES ASSUME NEW fd \in 0..9, fd # 0 \/ zero PROVE View(t, e0, fd)
        BY DEF Views
    <2> DEFINE raw == get_raw_fd(t, fd)
    <2>1. CASE fd \notin Standard
        <3>1. fd \notin DOMAIN t.fds
            BY <1>2, <1>5, <2>1
        <3>2. raw = NoRaw
            BY <2>1, <3>1 DEF get_raw_fd, Standard
        <3>3. e0[fd] = "closed"
            BY <1>8, <2>1 DEF IsEnv
        <3> QED
            BY <3>2, <3>3 DEF View
    <2>2. CASE fd \in Standard /\ fd \in DOMAIN d.fds
        <3>1. /\ d.fds[fd].kind = "File" /\ d.fds[fd].raw \in DOMAIN d.open
              /\ d.open[d.fds[fd].raw] = s[fd] \/ (fd = 0 /\ HasInput(stack, N))
            BY <1>1, <2>2 DEF Kept, TableFits
        <3>2. raw = d.fds[fd].raw
            BY <1>5, <2>2, <3>1 DEF get_raw_fd
        <3>3. d.open[d.fds[fd].raw] = s[fd]
            BY <1>9, <3>1
        <3>4. e0[fd] = s[fd] /\ e0[fd] # "closed"
            BY <1>11, <2>2
        <3> QED
            BY <1>12, <3>1, <3>2, <3>3, <3>4 DEF View, Agrees
    <2>3. CASE fd \in Standard /\ fd \notin DOMAIN d.fds
        <3>1. raw = fd
            BY <1>5, <2>3 DEF get_raw_fd, Standard
        <3>2. Agrees(d.open[fd], s[fd])
            BY <1>1, <2>3 DEF Steady, Fits
        <3>3. fd \in DOMAIN d.open
            BY <1>2, <2>3 DEF Held, KernelOK, Standard
        <3>4. e0[fd] = s[fd] /\ e0[fd] # "closed"
            BY <1>11, <2>3
        <3> QED
            BY <1>12, <3>1, <3>2, <3>3, <3>4 DEF View
    <2> QED
        BY <2>1, <2>2, <2>3
<1>14. \A fd \in DOMAIN t.fds : t.fds[fd].kind = "File" /\ fd \in DOMAIN d.fds
    BY <1>5 DEF Kept, TableFits
<1>15. Copied(t, rs, 0) /\ Entered(t, rs, 0)
    BY <1>14 DEF Copied, Entered
<1>16. SameFiles(t, There(event'.existed, rs, 0))
    BY <1>6, ThereNone DEF SameFiles
<1>17. DOMAIN e0 = 0..9
    BY <1>8 DEF IsEnv
<1>18. BuiltinPath(b, some, rs, e0, 0, t)
    BY <1>1, <1>5, <1>10, <1>13, <1>15, <1>16, <1>17 DEF BuiltinPath
<1> QED
    BY <1>1, <1>5, <1>18

\* A builtin finds what is meant.
LEMMA BuiltinSees ==
    ASSUME NEW h, Ledger(h, stack, d), Steady(stack, d), Decent(stack), Kept(stack, d),
           Builtin, ~Lost(event'.redirections)
    PROVE  SeesWhatIsMeant(event'.redirections)
<1>1. PICK rs \in Redirections, last \in Lasts, order \in Orders(d.fds) :
         LET saved == save_all_fds(d, order)
             applied == InOrder(rs, saved.s, ApplyForBuiltin)
         IN /\ last /\ ~Capturing
            /\ event' = Event("builtin", rs, saved.ok /\ applied.ok, last,
                              IF saved.ok /\ applied.ok THEN Writing(Writer(applied.s)) ELSE NotSeen)
    BY DEF Builtin
<1> DEFINE saved == save_all_fds(d, order)
           applied == AllForBuiltin(rs, saved.s)
           ok == saved.ok /\ applied.ok
           seen == IF ok THEN Writing(Writer(applied.s)) ELSE NotSeen
           e0 == CommandEnv(last)
           N == Len(rs)
           e == EnvAt(e0, rs, N)
           u == applied.s
<1>2. last /\ ~Capturing /\ event' = Event("builtin", rs, ok, last, seen)
    BY <1>1, Zenon DEF AllForBuiltin
<1>3. /\ saved = save_all_fds(d, order) /\ applied = AllForBuiltin(rs, saved.s) /\ (ok <=> saved.ok /\ applied.ok)
      /\ (ok => seen = Writing(Writer(u))) /\ e0 = CommandEnv(last) /\ N = Len(rs) /\ e = EnvAt(e0, rs, N) /\ u = applied.s
    OBVIOUS
<1>3a. ok \in BOOLEAN
    OBVIOUS
<1> HIDE DEF saved, applied, ok, seen, e0, N, e, u
<1>4. /\ event'.kind = "builtin" /\ event'.redirections = rs /\ event'.last = last /\ event'.ok = ok
      /\ event'.seen = seen /\ event'.existed = d.exists
    BY <1>2 DEF Event
<1>5. BuiltinFit(rs)
    BY <1>4, BuiltinFits
<1>6. ~Collected(last)
    BY <1>2 DEF Collected
<1>7. saved.ok /\ \E b : BuiltinPath(b, CommandLent, rs, e0, 0, saved.s)
    BY <1>3, <1>4, <1>5, <1>6, BuiltinBegins
<1> DEFINE some == CommandLent
           t == saved.s
<1>8. PICK b : BuiltinPath(b, some, rs, e0, 0, t)
    BY <1>7
<1>9. applied = AllForBuiltin(rs, t)
    BY <1>3
<1> HIDE DEF some, t
<1>10. /\ applied.ok <=> ~Fails(e0, rs)
       /\ applied.ok => BuiltinPath(b, some, rs, e0, Len(rs), u)
    BY <1>3, <1>5, <1>8, <1>9, AllOfBuiltin
<1>11. ForCommand = e0
    BY <1>3, <1>4, ForCommandIs
<1>12. e = AllRedirected(e0, rs)
    BY <1>3, <1>5, EnvAll DEF BuiltinFit
<1>13. event'.ok = ~Fails(e0, rs)
    BY <1>3, <1>3a, <1>4, <1>7, <1>10
<1>14. ASSUME event'.ok PROVE Agrees(event'.seen[1], e[1])
    <2>1. ok /\ applied.ok
        BY <1>3, <1>4, <1>14
    <2>2. event'.seen[1] = Writer(u)
        BY <1>3, <1>4, <2>1 DEF Writing
    <2>3. Held(b, u, Standard, some) /\ Views(u, e, ReadsInput(rs))
        BY <1>3, <1>10, <2>1 DEF BuiltinPath
    <2>4. View(u, e, 1)
        BY <2>3 DEF Views
    <2>5. NoRaw \notin DOMAIN u.open
        BY <2>3 DEF Held, KernelOK, NoRaw
    <2> QED
        BY <2>2, <2>4, <2>5 DEF View, Writer, Agrees
<1> QED
    BY <1>4, <1>11, <1>12, <1>13, <1>14 DEF SeesWhatIsMeant, Watched

\* One whose output is collected, too.
LEMMA BuiltinCapturedSees ==
    ASSUME NEW h, Ledger(h, stack, d), Steady(stack, d), Decent(stack), Kept(stack, d),
           BuiltinCaptured, ~Lost(event'.redirections)
    PROVE  SeesWhatIsMeant(event'.redirections)
<1>1. PICK rs \in Redirections, last \in Lasts :
         /\ ~last \/ Capturing
         /\ event' = Event("builtin", rs, TRUE, last, Writing(IF last THEN "capture" ELSE "pipe"))
    BY Zenon DEF BuiltinCaptured
<1> DEFINE e0 == CommandEnv(last)
           N == Len(stack)
           s == StreamsOf(stack, N)
<1>2. /\ event'.kind = "builtin" /\ event'.redirections = rs /\ event'.last = last /\ event'.ok = TRUE
      /\ event'.seen = Writing(IF last THEN "capture" ELSE "pipe")
    BY <1>1 DEF Event
<1>3. event'.seen[1] = IF last THEN "capture" ELSE "pipe"
    BY <1>2 DEF Writing
<1>4. rs = <<>>
    BY <1>1, <1>2 DEF Lost, LostByBuiltin
<1>5. e0 = CommandEnv(last) /\ N = Len(stack) /\ s = StreamsOf(stack, N)
    OBVIOUS
<1> HIDE DEF e0, N, s
<1>6. ScopeOfCommand(last, e0, s)
    BY <1>5, CommandScope
<1>7. e0[1] \in {"capture", "pipe"} /\ (~last => e0[1] = "pipe")
    BY <1>1, <1>6 DEF ScopeOfCommand, Collected
<1>8. ForCommand = e0
    BY <1>2, <1>5, ForCommandIs
<1>9. ~Fails(e0, rs) /\ AllRedirected(e0, rs) = e0
    BY <1>4, NothingFails
<1>10. Agrees(event'.seen[1], e0[1])
    BY <1>3, <1>7 DEF Agrees
<1> QED
    BY <1>2, <1>8, <1>9, <1>10 DEF SeesWhatIsMeant, Watched

-----------------------------------------------------------------------------
(* The redirections of an external command                                 *)

\* What the child has for a stream is what is meant.
Output(last) == IF last THEN "capture" ELSE "pipe"
StreamView(t, e, fd, last) ==
    IF fd \in DOMAIN t.child.std
    THEN LET stdio == t.child.std[fd]
         IN \/ stdio.to = "file" /\ stdio.raw \in DOMAIN t.open /\ Agrees(t.open[stdio.raw], e[fd])
            \/ stdio.to = "null" /\ Agrees("null", e[fd])
            \/ stdio.to = "piped" /\ Agrees(Output(last), e[fd])
    ELSE Agrees(t.open[fd], e[fd])
StreamsView(t, e, last) == \A fd \in Standard : StreamView(t, e, fd, last)

LEMMA StreamsStep ==
    ASSUME NEW t, NEW r, ReachesChild(r), NEW u, Made(t, u, r), NEW last,
           NEW e, DOMAIN e = 0..9, StreamsView(t, e, last), NEW e2, e2 = Redirected(e, r)
    PROVE  StreamsView(u, e2, last)
<1>1. /\ \A fd \in 0..9 : fd # r.fd => e2[fd] = e[fd]
      /\ r.op \in FileOperators => e2[r.fd] = r.file
      /\ r.op = "close" => e2[r.fd] = "closed"
      /\ r.op = "<<" => e2[r.fd] = "here"
    BY RedirectedEnv DEF ReachesChild
<1>2. Touched(t, u, r.fd)
    BY DEF Made
<1> SUFFICES ASSUME NEW fd \in Standard PROVE StreamView(u, e2, fd, last)
    BY DEF StreamsView
<1>3. StreamView(t, e, fd, last)
    BY DEF StreamsView
<1>4. CASE fd # r.fd
    <2>1. e2[fd] = e[fd]
        BY <1>1, <1>4 DEF Standard
    <2>2. CASE fd \in DOMAIN t.child.std
        <3>1. fd \in DOMAIN u.child.std /\ u.child.std[fd] = t.child.std[fd]
            BY <1>2, <1>4, <2>2 DEF Touched
        <3>2. t.child.std[fd].to = "file" => /\ t.child.std[fd].raw \in DOMAIN u.open
                                             /\ u.open[t.child.std[fd].raw] = t.open[t.child.std[fd].raw]
            BY <1>2, <1>4, <2>2 DEF Touched
        <3> QED
            BY <1>3, <2>1, <2>2, <3>1, <3>2 DEF StreamView
    <2>3. CASE fd \notin DOMAIN t.child.std
        <3>1. fd \notin DOMAIN u.child.std /\ u.open[fd] = t.open[fd]
            BY <1>2, <1>4, <2>3 DEF Touched
        <3> QED
            BY <1>3, <2>1, <2>3, <3>1 DEF StreamView
    <2> QED
        BY <2>2, <2>3
<1>5. CASE fd = r.fd
    <2>1. StreamMade(t, u, r) \/ CloseMade(t, u, r)
        BY <1>5 DEF Made, FileMade, DuplicateMade
    <2>2. CASE StreamMade(t, u, r)
        <3>1. PICK n \in DOMAIN u.open : u.open[n] = Named(r) /\ fd \in DOMAIN u.child.std /\ u.child.std[fd] = Stdio("file", n)
            BY <1>5, <2>2 DEF StreamMade
        <3>2. Named(r) = e2[fd]
            BY <1>1, <1>5, <2>2 DEF StreamMade, Named, FileOperators
        <3>3. Stdio("file", n).to = "file" /\ Stdio("file", n).raw = n
            BY DEF Stdio
        <3> QED
            BY <3>1, <3>2, <3>3 DEF StreamView, Agrees
    <2>3. CASE CloseMade(t, u, r)
        <3>1. fd \in DOMAIN u.child.std /\ u.child.std[fd] = Stdio("null", NoRaw) /\ e2[fd] = "closed"
            BY <1>1, <1>5, <2>3 DEF CloseMade
        <3>2. Stdio("null", NoRaw).to = "null"
            BY DEF Stdio
        <3> QED
            BY <3>1, <3>2 DEF StreamView, Agrees
    <2> QED
        BY <2>1, <2>2, <2>3
<1> QED
    BY <1>4, <1>5

\* The table's others are Files that are open on it.
EntryView(t, e, fd) ==
    IF fd \in DOMAIN t.fds /\ t.fds[fd].kind # "Closed"
    THEN /\ t.fds[fd].kind = "File" /\ t.fds[fd].raw \in DOMAIN t.open
         /\ t.open[t.fds[fd].raw] = e[fd] /\ e[fd] # "closed"
    ELSE e[fd] = "closed"
TableView(t, e) == \A fd \in 0..9 : fd \notin Standard => EntryView(t, e, fd)

LEMMA OtherEntry ==
    ASSUME NEW t, NEW r, ReachesChild(r), NEW u, Made(t, u, r),
           NEW e, DOMAIN e = 0..9, TableView(t, e), NEW e2, e2 = Redirected(e, r),
           NEW fd \in 0..9, fd \notin Standard, fd # r.fd
    PROVE  EntryView(u, e2, fd)
<1>1. e2[fd] = e[fd]
    BY RedirectedEnv DEF ReachesChild
<1>2. Touched(t, u, r.fd)
    BY DEF Made
<1>3. EntryView(t, e, fd)
    BY DEF TableView
<1>4. CASE fd \in DOMAIN t.fds
    <2>1. fd \in DOMAIN u.fds /\ u.fds[fd] = t.fds[fd]
        BY <1>2, <1>4 DEF Touched
    <2>2. t.fds[fd].kind = "File" => t.fds[fd].raw \in DOMAIN u.open /\ u.open[t.fds[fd].raw] = t.open[t.fds[fd].raw]
        BY <1>2, <1>4 DEF Touched
    <2> QED
        BY <1>1, <1>3, <1>4, <2>1, <2>2 DEF EntryView
<1>5. CASE fd \notin DOMAIN t.fds
    <2>1. fd \notin DOMAIN u.fds
        BY <1>2, <1>5 DEF Touched
    <2> QED
        BY <1>1, <1>3, <1>5, <2>1 DEF EntryView
<1> QED
    BY <1>4, <1>5

LEMMA TableStep ==
    ASSUME NEW t, NEW r, ReachesChild(r), r.op # "dup", NEW u, Made(t, u, r),
           NEW e, DOMAIN e = 0..9, TableView(t, e), NEW e2, e2 = Redirected(e, r)
    PROVE  TableView(u, e2)
<1>1. /\ r.op \in FileOperators => e2[r.fd] = r.file /\ e2[r.fd] # "closed"
      /\ r.op = "close" => e2[r.fd] = "closed"
    BY RedirectedEnv DEF ReachesChild
<1> SUFFICES ASSUME NEW fd \in 0..9, fd \notin Standard PROVE EntryView(u, e2, fd)
    BY DEF TableView
<1>2. CASE fd # r.fd
    BY <1>2, OtherEntry
<1>5. CASE fd = r.fd
    <2>1. FileMade(t, u, r) \/ CloseMade(t, u, r)
        BY <1>5 DEF Made, StreamMade, DuplicateMade
    <2>2. CASE FileMade(t, u, r)
        <3>1. PICK n \in DOMAIN u.open : u.open[n] = r.file /\ fd \in DOMAIN u.fds /\ u.fds[fd] = Descriptor("File", n)
            BY <1>5, <2>2 DEF FileMade
        <3>2. e2[fd] = r.file /\ e2[fd] # "closed"
            BY <1>1, <1>5, <2>2 DEF FileMade
        <3>3. Descriptor("File", n).kind = "File" /\ Descriptor("File", n).raw = n
            BY DEF Descriptor
        <3> QED
            BY <3>1, <3>2, <3>3 DEF EntryView
    <2>3. CASE CloseMade(t, u, r)
        <3>1. fd \in DOMAIN u.fds /\ u.fds[fd] = Descriptor("Closed", NoRaw) /\ e2[fd] = "closed"
            BY <1>1, <1>5, <2>3 DEF CloseMade
        <3>2. Descriptor("Closed", NoRaw).kind = "Closed"
            BY DEF Descriptor
        <3> QED
            BY <3>1, <3>2 DEF EntryView
    <2> QED
        BY <2>1, <2>2, <2>3
<1> QED
    BY <1>2, <1>5

\* The dup2 calls of the child are of numbers that it keeps, to the table's others.
CallOK(t, pair) == pair[1] \in t.child.kept /\ pair[2] \in DOMAIN t.fds /\ pair[2] \notin Standard

\* The table has a stream that was closed, or the File that was there before.
Closes(rs, k, fd) == Sets(rs, k + 1, fd, {"close"})
Opens(rs, k, fd) == Sets(rs, k + 1, fd, AllOps \ {"close"})
Changes(rs, k, fd) == Sets(rs, k + 1, fd, AllOps)

LEMMA SetsOneMore ==
    ASSUME NEW rs, NEW m \in Nat \ {0}, NEW k, k = m - 1, NEW r, r = rs[m], r.op \in Operators, NEW fd
    PROVE  /\ Closes(rs, m, fd) <=> Closes(rs, k, fd) \/ (r.fd = fd /\ r.op = "close")
           /\ Opens(rs, m, fd) <=> Opens(rs, k, fd) \/ (r.fd = fd /\ r.op # "close")
           /\ Changes(rs, m, fd) <=> Changes(rs, k, fd) \/ r.fd = fd
<1> DEFINE close == {"close"}
           opening == AllOps \ {"close"}
           all == AllOps
<1>1. r.op \in all /\ (r.op \in close <=> r.op = "close") /\ (r.op \in opening <=> r.op # "close")
    BY DEF AllOps, Operators
<1>2. k + 1 = m
    OBVIOUS
<1>3. /\ Closes(rs, m, fd) <=> Sets(rs, m + 1, fd, close)
      /\ Opens(rs, m, fd) <=> Sets(rs, m + 1, fd, opening)
      /\ Changes(rs, m, fd) <=> Sets(rs, m + 1, fd, all)
      /\ Closes(rs, k, fd) <=> Sets(rs, m, fd, close)
      /\ Opens(rs, k, fd) <=> Sets(rs, m, fd, opening)
      /\ Changes(rs, k, fd) <=> Sets(rs, m, fd, all)
    BY <1>2 DEF Closes, Opens, Changes
<1> HIDE DEF close, opening, all
<1>4. /\ Sets(rs, m + 1, fd, close) <=> Sets(rs, m, fd, close) \/ (r.fd = fd /\ r.op \in close)
      /\ Sets(rs, m + 1, fd, opening) <=> Sets(rs, m, fd, opening) \/ (r.fd = fd /\ r.op \in opening)
      /\ Sets(rs, m + 1, fd, all) <=> Sets(rs, m, fd, all) \/ (r.fd = fd /\ r.op \in all)
    BY SetsStays
<1> QED
    BY <1>1, <1>3, <1>4

LEMMA SetsNone ==
    ASSUME NEW rs, NEW fd
    PROVE  ~Closes(rs, 0, fd) /\ ~Opens(rs, 0, fd) /\ ~Changes(rs, 0, fd)
BY DEF Closes, Opens, Changes, Sets

LEMMA ChangesIs ==
    ASSUME NEW rs, NEW k, NEW fd
    PROVE  Changes(rs, k, fd) => Closes(rs, k, fd) \/ Opens(rs, k, fd)
BY DEF Closes, Opens, Changes, Sets

StandardEntry(t, rs, k, fd) ==
    /\ fd \in DOMAIN t.fds /\ t.fds[fd].kind # "Closed" => fd \in DOMAIN d.fds
    /\ Closes(rs, k, fd) <=> fd \in DOMAIN t.fds /\ t.fds[fd].kind = "Closed"
StandardEntries(t, rs, k) == \A fd \in Standard : StandardEntry(t, rs, k, fd)

LEMMA StandardStep ==
    ASSUME NEW rs, NEW m \in Nat \ {0}, NEW k, k = m - 1, NEW r, r = rs[m], ReachesChild(r),
           NEW t, NEW u, Made(t, u, r), StandardEntries(t, rs, k)
    PROVE  StandardEntries(u, rs, m)
<1> SUFFICES ASSUME NEW fd \in Standard PROVE StandardEntry(u, rs, m, fd)
    BY DEF StandardEntries
<1>1. Touched(t, u, r.fd) /\ StandardEntry(t, rs, k, fd)
    BY DEF Made, StandardEntries
<1>2. Closes(rs, m, fd) <=> Closes(rs, k, fd) \/ (r.fd = fd /\ r.op = "close")
    BY SetsOneMore DEF ReachesChild
<1>3. CASE fd # r.fd
    <2>1. (fd \in DOMAIN u.fds <=> fd \in DOMAIN t.fds) /\ (fd \in DOMAIN t.fds => u.fds[fd] = t.fds[fd])
        BY <1>1, <1>3 DEF Touched
    <2> QED
        BY <1>1, <1>2, <1>3, <2>1 DEF StandardEntry
<1>4. CASE fd = r.fd
    <2>1. StreamMade(t, u, r) \/ CloseMade(t, u, r)
        BY <1>4 DEF Made, FileMade, DuplicateMade
    <2>2. CASE StreamMade(t, u, r)
        <3>1. u.fds = t.fds /\ r.op # "close"
            BY <2>2 DEF StreamMade, SameFds
        <3> QED
            BY <1>1, <1>2, <3>1 DEF StandardEntry
    <2>3. CASE CloseMade(t, u, r)
        <3>1. fd \in DOMAIN u.fds /\ u.fds[fd] = Descriptor("Closed", NoRaw) /\ r.op = "close"
            BY <1>4, <2>3 DEF CloseMade
        <3>2. u.fds[fd].kind = "Closed"
            BY <3>1 DEF Descriptor
        <3> QED
            BY <1>2, <1>4, <3>1, <3>2 DEF StandardEntry
    <2> QED
        BY <2>1, <2>2, <2>3
<1> QED
    BY <1>3, <1>4

\* What a stream is meant to be, after k of them.
Past(e0, e, rs, k, fd) ==
    /\ ~Changes(rs, k, fd) => e[fd] = e0[fd]
    /\ e[fd] = "closed" => Closes(rs, k, fd)
    /\ Closes(rs, k, fd) /\ ~Opens(rs, k, fd) => e[fd] = "closed"
History(e0, e, rs, k) == \A fd \in Standard : Past(e0, e, rs, k, fd)

LEMMA HistoryStep ==
    ASSUME NEW rs, NEW m \in Nat \ {0}, NEW k, k = m - 1, NEW r, r = rs[m], ReachesChild(r),
           NEW e0, NEW e, DOMAIN e = 0..9, History(e0, e, rs, k), NEW e2, e2 = Redirected(e, r)
    PROVE  History(e0, e2, rs, m)
<1> SUFFICES ASSUME NEW fd \in Standard PROVE Past(e0, e2, rs, m, fd)
    BY DEF History
<1>1. Past(e0, e, rs, k, fd)
    BY DEF History
<1>2. /\ \A f \in 0..9 : f # r.fd => e2[f] = e[f]
      /\ r.op \in FileOperators => e2[r.fd] # "closed"
      /\ r.op = "close" => e2[r.fd] = "closed"
      /\ r.op = "<<" => e2[r.fd] = "here"
    BY RedirectedEnv DEF ReachesChild
<1>3. /\ Closes(rs, m, fd) <=> Closes(rs, k, fd) \/ (r.fd = fd /\ r.op = "close")
      /\ Opens(rs, m, fd) <=> Opens(rs, k, fd) \/ (r.fd = fd /\ r.op # "close")
      /\ Changes(rs, m, fd) <=> Changes(rs, k, fd) \/ r.fd = fd
    BY SetsOneMore DEF ReachesChild
<1>4. CASE fd # r.fd
    <2>1. e2[fd] = e[fd]
        BY <1>2, <1>4 DEF Standard
    <2> QED
        BY <1>1, <1>3, <1>4, <2>1 DEF Past
<1>5. CASE fd = r.fd
    <2>1. r.op \in FileOperators \/ r.op = "close" \/ r.op = "<<"
        BY <1>5 DEF ReachesChild, Operators, FileOperators
    <2>2. e2[fd] = "closed" <=> r.op = "close"
        BY <1>2, <1>5, <2>1 DEF FileOperators
    <2> QED
        BY <1>3, <1>5, <2>2 DEF Past
<1> QED
    BY <1>4, <1>5

\* The files there are.
LEMMA ChildFilesStep ==
    ASSUME NEW existed, NEW rs, NEW m \in Nat \ {0}, NEW k, k = m - 1, NEW r, r = rs[m], ReachesChild(r),
           NEW t, SameFiles(t, There(existed, rs, k)), Works(t, r), NEW u, Made(t, u, r)
    PROVE  SameFiles(u, There(existed, rs, m))
<1> SUFFICES ASSUME NEW file, file # "none"
             PROVE  file \in u.exists <=> file \in There(existed, rs, m)
    BY DEF SameFiles
<1>1. file \in There(existed, rs, m) <=> file \in There(existed, rs, k) \/ (r.op # "<" /\ file = r.file)
    BY ThereMore
<1>2. file \in t.exists <=> file \in There(existed, rs, k)
    BY DEF SameFiles
<1>3. u.exists = IF Creates(r) THEN Plus(t.exists, r.file) ELSE t.exists
    BY DEF Made
<1>4. CASE Creates(r)
    BY <1>1, <1>2, <1>3, <1>4 DEF Plus, Creates
<1>5. CASE r.op = "<"
    BY <1>1, <1>2, <1>3, <1>5 DEF Creates
<1>6. CASE ~Creates(r) /\ r.op # "<"
    <2>1. r.op \notin FileOperators
        BY <1>6 DEF Creates, FileOperators
    <2>2. r.file = "none"
        BY <2>1 DEF ReachesChild, IsRedirection
    <2> QED
        BY <1>1, <1>2, <1>3, <1>6, <2>2
<1> QED
    BY <1>4, <1>5, <1>6

\* It fails when it should.
LEMMA ChildFailsWith ==
    ASSUME NEW r, ReachesChild(r), NEW t, NEW there, SameFiles(t, there), NEW e,
           r.op = "dup" => (Duplicable(t, r) <=> e[r.source] # "closed")
    PROVE  Works(t, r) <=> ~FailsWith(e, r, there)
<1>1. CASE r.op \in FileOperators
    <2>1. r.file # "none"
        BY <1>1 DEF ReachesChild, IsRedirection
    <2>2. r.file \in t.exists <=> r.file \in there
        BY <2>1 DEF SameFiles
    <2>3. r.op # "dup" /\ (r.op = "<" \/ Writes(r) \/ r.op = "<>") /\ (r.op = ">" => Writes(r))
          /\ (Writes(r) => r.op \notin {"<", "<>"}) /\ r.op \in FileOperators
        BY <1>1 DEF FileOperators, Writes
    <2>4. CASE r.op = "<"
        BY <2>2, <2>3, <2>4 DEF Works, FailsWith, CanOpen, Exists
    <2>5. CASE r.op = "<>"
        BY <2>2, <2>3, <2>5 DEF Works, FailsWith, CanOpen, Exists
    <2>6. CASE Writes(r)
        <3>1. Works(t, r) <=> ~Refused(t, r) /\ r.file \notin Unopenable
            BY <2>3, <2>6 DEF Works, CanOpen
        <3>2. Refused(t, r) <=> noclobber /\ r.op = ">" /\ r.file \in t.exists
            BY DEF Refused, Exists
        <3>3. FailsWith(e, r, there) <=> r.file \in Unopenable \/ (r.op = ">" /\ noclobber /\ r.file \in there)
            BY <2>3, <2>6 DEF FailsWith
        <3> QED
            BY <2>2, <3>1, <3>2, <3>3
    <2> QED
        BY <2>3, <2>4, <2>5, <2>6
<1>2. CASE r.op = "dup"
    BY <1>2 DEF Works, FailsWith, FileOperators, Writes
<1>3. CASE r.op \notin FileOperators /\ r.op # "dup"
    BY <1>3 DEF Works, FailsWith, FileOperators, Writes
<1> QED
    BY <1>1, <1>2, <1>3

\* Only streams are redirected in a pipeline.
Narrow(e) == InPipeline => \A fd \in 0..9 : fd \notin Standard => e[fd] = "closed"

\* A File that a duplicate can be made of is what is meant.
Sourced(e0, s) ==
    s \in DOMAIN d.fds => /\ d.fds[s].kind = "File" /\ d.fds[s].raw \in DOMAIN d.open
                          /\ d.open[d.fds[s].raw] = e0[s] /\ e0[s] # "closed"
Looked(rs, k, s) == Opens(rs, k, s) => s \notin DOMAIN d.fds /\ ~Closes(rs, k, s)

LEMMA SourceView ==
    ASSUME NEW rs, NEW k, NEW e0, NEW e, NEW t, NEW a, NEW own, NEW lent, HeldWith(a, t, own, lent),
           TableView(t, e), History(e0, e, rs, k), StandardEntries(t, rs, k), StaysIn(d, t),
           NEW r, r.source \in 0..9, NEW s, s = r.source, Sourced(e0, s), Looked(rs, k, s)
    PROVE  /\ Duplicable(t, r) <=> e[s] # "closed"
           /\ Duplicable(t, r) /\ s \in DOMAIN t.fds =>
                 t.fds[s].kind = "File" /\ t.open[t.fds[s].raw] = e[s]
<1>0. NoRaw \notin DOMAIN t.open
    BY StreamApart DEF KernelOK, NoRaw
<1>1. CASE s \notin Standard
    <2>1. EntryView(t, e, s)
        BY <1>1 DEF TableView
    <2>2. CASE s \in DOMAIN t.fds
        BY <1>0, <2>1, <2>2 DEF EntryView, Duplicable, is_closed, get_raw_fd
    <2>3. CASE s \notin DOMAIN t.fds
        BY <1>1, <2>1, <2>3 DEF EntryView, Duplicable, is_closed, get_raw_fd, Standard
    <2> QED
        BY <2>2, <2>3
<1>2. CASE s \in Standard /\ s \in DOMAIN t.fds /\ t.fds[s].kind = "Closed"
    <2>1. Closes(rs, k, s)
        BY <1>2 DEF StandardEntries, StandardEntry
    <2>2. e[s] = "closed"
        BY <1>2, <2>1 DEF Looked, History, Past
    <2> QED
        BY <1>2, <2>2 DEF Duplicable, is_closed
<1>3. CASE s \in Standard /\ s \in DOMAIN t.fds /\ t.fds[s].kind # "Closed"
    <2>1. s \in DOMAIN d.fds /\ ~Closes(rs, k, s)
        BY <1>3 DEF StandardEntries, StandardEntry
    <2>2. t.fds[s] = d.fds[s] /\ d.fds[s].raw \in DOMAIN t.open /\ t.open[d.fds[s].raw] = d.open[d.fds[s].raw]
        BY <1>3, <2>1 DEF StaysIn
    <2>3. ~Changes(rs, k, s)
        BY <2>1, ChangesIs DEF Looked
    <2>4. e[s] = e0[s]
        BY <1>3, <2>3 DEF History, Past
    <2> QED
        BY <1>0, <1>3, <2>1, <2>2, <2>4 DEF Sourced, Duplicable, is_closed, get_raw_fd
<1>4. CASE s \in Standard /\ s \notin DOMAIN t.fds
    <2>1. ~Closes(rs, k, s)
        BY <1>4 DEF StandardEntries, StandardEntry
    <2>2. e[s] # "closed"
        BY <1>4, <2>1 DEF History, Past
    <2>3. s # NoRaw
        BY <1>4 DEF Standard, NoRaw
    <2> QED
        BY <1>4, <2>2, <2>3 DEF Duplicable, is_closed, get_raw_fd, Standard
<1> QED
    BY <1>1, <1>2, <1>3, <1>4

\* What a child has for a number, before its dup2 calls.
ChildHas(t, n, last) == IF n \in DOMAIN t.child.std THEN StreamContent(t, n, last) ELSE t.open[n]

LEMMA StreamIsSeen ==
    ASSUME NEW t, NEW e, NEW fd, NEW last, StreamView(t, e, fd, last)
    PROVE  Agrees(ChildHas(t, fd, last), e[fd])
<1>1. CASE fd \notin DOMAIN t.child.std
    BY <1>1 DEF StreamView, ChildHas
<1>2. CASE fd \in DOMAIN t.child.std
    <2> DEFINE stdio == t.child.std[fd]
               has == StreamContent(t, fd, last)
    <2>1. \/ stdio.to = "file" /\ Agrees(t.open[stdio.raw], e[fd])
          \/ stdio.to = "null" /\ Agrees("null", e[fd])
          \/ stdio.to = "piped" /\ Agrees(Output(last), e[fd])
        BY <1>2 DEF StreamView
    <2>2. has = CASE stdio.to = "file" -> t.open[stdio.raw]
                  [] stdio.to = "null" -> "null"
                  [] stdio.to = "piped" -> Output(last)
        BY DEF StreamContent, Output
    <2>3. ChildHas(t, fd, last) = has
        BY <1>2 DEF ChildHas
    <2> HIDE DEF stdio, has
    <2>4. CASE stdio.to = "file" /\ Agrees(t.open[stdio.raw], e[fd])
        BY <2>2, <2>3, <2>4
    <2>5. CASE stdio.to = "null" /\ Agrees("null", e[fd])
        BY <2>2, <2>3, <2>5
    <2>6. CASE stdio.to = "piped" /\ Agrees(Output(last), e[fd])
        BY <2>2, <2>3, <2>6
    <2> QED
        BY <2>1, <2>4, <2>5, <2>6
<1> QED
    BY <1>1, <1>2

\* What is handed over by number is what is meant.
HandedEntry(t, e, fd, last) ==
    /\ fd \in DOMAIN t.fds /\ t.fds[fd].kind # "Closed" =>
          t.fds[fd].raw \in DOMAIN t.open /\ Agrees(ChildHas(t, t.fds[fd].raw, last), e[fd])
    /\ e[fd] # "closed" => fd \in DOMAIN t.fds /\ t.fds[fd].kind # "Closed"
HandedView(t, e, last) == \A fd \in 0..9 : fd \notin Standard => HandedEntry(t, e, fd, last)

\* A File is no stream of the child.
LEMMA FileIsNoStream ==
    ASSUME NEW a, NEW t, NEW own, NEW lent, HeldWith(a, t, own, lent), NEW fd \in DOMAIN t.fds, t.fds[fd].kind = "File",
           NEW last
    PROVE  t.fds[fd].raw \in DOMAIN t.open /\ ChildHas(t, t.fds[fd].raw, last) = t.open[t.fds[fd].raw]
<1> DEFINE both == Together(lent, t.child)
<1>1. Held(a, t, own, both) /\ DOMAIN t.child.std \subseteq Standard
    BY DEF HeldWith, IsCommand
<1> HIDE DEF both
<1>2. t.fds[fd].raw \in DOMAIN t.open /\ t.fds[fd].raw \notin Standard
    BY <1>1, FileApart
<1> QED
    BY <1>1, <1>2 DEF ChildHas

LEMMA EntryHanded ==
    ASSUME NEW a, NEW t, NEW own, NEW lent, HeldWith(a, t, own, lent), NEW e, NEW fd, EntryView(t, e, fd), NEW last
    PROVE  HandedEntry(t, e, fd, last)
<1>1. CASE fd \in DOMAIN t.fds /\ t.fds[fd].kind # "Closed"
    <2>1. t.fds[fd].kind = "File" /\ t.open[t.fds[fd].raw] = e[fd]
        BY <1>1 DEF EntryView
    <2>2. t.fds[fd].raw \in DOMAIN t.open /\ ChildHas(t, t.fds[fd].raw, last) = t.open[t.fds[fd].raw]
        BY <1>1, <2>1, FileIsNoStream
    <2> QED
        BY <1>1, <2>1, <2>2 DEF HandedEntry, Agrees
<1>2. CASE ~(fd \in DOMAIN t.fds /\ t.fds[fd].kind # "Closed")
    <2>1. e[fd] = "closed"
        BY <1>2 DEF EntryView
    <2> QED
        BY <1>2, <2>1 DEF HandedEntry
<1> QED
    BY <1>1, <1>2

\* A duplicate is what it was made of.
LEMMA DuplicateHanded ==
    ASSUME NEW a, NEW t, NEW own, NEW lent, HeldWith(a, t, own, lent), NEW last,
           NEW e, DOMAIN e = 0..9, NEW r, ReachesChild(r), r.op = "dup", NEW s, s = r.source,
           Duplicable(t, r), s \in DOMAIN t.fds => t.fds[s].kind = "File" /\ t.open[t.fds[s].raw] = e[s],
           NEW u, Made(t, u, r), HeldWith(a, u, own, lent), NEW e2, e2 = Redirected(e, r), StreamsView(u, e2, last)
    PROVE  HandedEntry(u, e2, r.fd, last)
<1>1. /\ s \in 0..9 /\ s # r.fd /\ e2[r.fd] = e[s] /\ e2[s] = e[s]
    BY RedirectedEnv DEF ReachesChild, IsRedirection
<1>2. DuplicateMade(t, u, r) /\ Touched(t, u, r.fd)
    BY DEF Made, StreamMade, FileMade, CloseMade, FileOperators
<1> DEFINE raw == get_raw_fd(t, s)
<1>3. r.fd \in DOMAIN u.fds /\ u.fds[r.fd].kind = "Duplicate" /\ u.fds[r.fd].raw = raw /\ raw # NoRaw
    BY <1>2 DEF DuplicateMade, Descriptor
<1>4. raw \in DOMAIN u.open /\ Agrees(ChildHas(u, raw, last), e2[r.fd])
    <2>1. CASE s \notin DOMAIN t.fds
        <3>1. raw = s /\ s \in Standard
            BY <1>3, <2>1 DEF get_raw_fd, Standard
        <3>2. s \in DOMAIN u.open
            BY <1>2, <3>1 DEF Touched
        <3>3. Agrees(ChildHas(u, s, last), e2[s])
            BY <3>1, StreamIsSeen DEF StreamsView
        <3> QED
            BY <1>1, <3>1, <3>2, <3>3
    <2>2. CASE s \in DOMAIN t.fds
        <3>1. t.fds[s].kind = "File" /\ t.open[t.fds[s].raw] = e[s] /\ raw = t.fds[s].raw
            BY <2>2 DEF get_raw_fd
        <3>2. s \in DOMAIN u.fds /\ u.fds[s] = t.fds[s] /\ raw \in DOMAIN u.open /\ u.open[raw] = t.open[raw]
            BY <1>1, <1>2, <2>2, <3>1 DEF Touched
        <3>3. ChildHas(u, u.fds[s].raw, last) = u.open[u.fds[s].raw]
            BY <3>1, <3>2, FileIsNoStream
        <3> QED
            BY <1>1, <3>1, <3>2, <3>3 DEF Agrees
    <2> QED
        BY <2>1, <2>2
<1> QED
    BY <1>3, <1>4 DEF HandedEntry

\* An external command's redirections, where the program does what is meant.
DuplicateFit(rs, i) ==
    /\ i = Len(rs) /\ ~InPipeline /\ ~Capturing
    /\ Looked(rs, i - 1, rs[i].source)
    /\ rs[i].source = 0 => ~Overridden(stack, 0)
SourcesFit(e0, rs) == \A i \in 1..Len(rs) : rs[i].op = "dup" => Sourced(e0, rs[i].source)

-----------------------------------------------------------------------------
(* The child of an external command                                        *)

OfMakeDup2 == INSTANCE OneAfterAnother WITH Step <- MakeDup2
OfHandOver == INSTANCE OneAfterAnother WITH Step <- HandOver

LEMMA CallsInOrder ==
    ASSUME NEW calls, Len(calls) \in Nat, NEW s
    PROVE  \E results : OfMakeDup2!Chain(calls, Ok(s), InOrder(calls, s, MakeDup2), results)
<1>1. InOrder(calls, s, MakeDup2) = OfMakeDup2!LastResult(calls, Ok(s))
    BY DEF InOrder, OfMakeDup2!LastResult, OfMakeDup2!Results
<1> QED
    BY <1>1, OfMakeDup2!ResultsInOrder

LEMMA HandsOverInOrder ==
    ASSUME NEW fds, Len(fds) \in Nat, NEW s
    PROVE  \E results : OfHandOver!Chain(fds, Ok(s), InOrder(fds, s, HandOver), results)
<1>1. InOrder(fds, s, HandOver) = OfHandOver!LastResult(fds, Ok(s))
    BY DEF InOrder, OfHandOver!LastResult, OfHandOver!Results
<1> QED
    BY <1>1, OfHandOver!ResultsInOrder

\* The child starts as the shell is, with the Command's streams.
Streamed(s, last) ==
    LET std == [fd \in DOMAIN s.child.std |-> StreamContent(s, fd, last)]
    IN [s EXCEPT !.open = [n \in DOMAIN @ \cup DOMAIN std |-> IF n \in DOMAIN std THEN std[n] ELSE @[n]],
                 !.cloexec = @ \ DOMAIN std]

\* A child v of t: what was open is, but for the table's others.
IsChild(t, v, last) ==
    /\ IsState(v) /\ v.fds = t.fds
    /\ \A n \in DOMAIN t.open : n \in DOMAIN v.open
    /\ \A n \in DOMAIN t.open : n \notin DOMAIN t.fds \/ n \in Standard => v.open[n] = ChildHas(t, n, last)
    /\ \A n \in Standard : n \notin v.cloexec

LEMMA StreamedChild ==
    ASSUME NEW a, NEW t, NEW own, NEW lent, HeldWith(a, t, own, lent), NEW last, NEW v, v = Streamed(t, last)
    PROVE  IsChild(t, v, last)
<1>1. KernelOK(t) /\ IsCommand(t.child)
    BY StreamApart
<1> DEFINE D == DOMAIN t.child.std
           std == [fd \in D |-> StreamContent(t, fd, last)]
           open == [n \in DOMAIN t.open \cup DOMAIN std |-> IF n \in DOMAIN std THEN std[n] ELSE t.open[n]]
<1>2. D \subseteq Standard /\ Standard \subseteq DOMAIN t.open /\ IsState(t) /\ \A n \in Standard : n \notin t.cloexec
    BY <1>1 DEF IsCommand, KernelOK, Standard
<1>3. v = [t EXCEPT !.open = open, !.cloexec = @ \ DOMAIN std]
    BY DEF Streamed
<1>4. DOMAIN std = D /\ \A fd \in D : std[fd] = StreamContent(t, fd, last)
    OBVIOUS
<1>5. DOMAIN open = DOMAIN t.open \cup DOMAIN std
      /\ \A n \in DOMAIN t.open \cup DOMAIN std : open[n] = IF n \in DOMAIN std THEN std[n] ELSE t.open[n]
    OBVIOUS
<1> HIDE DEF open, std
<1>6. v.open = open /\ v.cloexec = t.cloexec \ DOMAIN std /\ v.fds = t.fds /\ IsState(v)
    BY <1>2, <1>3 DEF IsState
<1>7. \A n \in DOMAIN t.open : n \in DOMAIN v.open /\ v.open[n] = ChildHas(t, n, last)
    BY <1>4, <1>5, <1>6 DEF ChildHas
<1>8. \A n \in Standard : n \notin v.cloexec
    BY <1>2, <1>6
<1> QED
    BY <1>6, <1>7, <1>8 DEF IsChild

\* One of its calls.
LEMMA CallMade ==
    ASSUME NEW t, NEW v, NEW last, IsChild(t, v, last), NEW from \in DOMAIN v.open, NEW to \in DOMAIN t.fds, to \notin Standard,
           NEW u, u = Dup2(v, from, to)
    PROVE  /\ IsChild(t, u, last)
           /\ \A n \in DOMAIN v.open : n \in DOMAIN u.open /\ (n # to => u.open[n] = v.open[n])
           /\ to \in DOMAIN u.open /\ u.open[to] = v.open[from]
           /\ \A n : n \in u.cloexec => n \in v.cloexec
           /\ from # to => to \notin u.cloexec
<1>1. CASE from = to
    <2>1. u = v
        BY <1>1 DEF Dup2
    <2> QED
        BY <1>1, <2>1
<1>2. CASE from # to
    <2>1. /\ IsState(u) /\ u.open = With(v.open, to, v.open[from]) /\ u.cloexec = Drop(v.cloexec, to) /\ u.fds = v.fds
        BY <1>2, Dup2Fields DEF IsChild
    <2>2. /\ DOMAIN u.open = DOMAIN v.open \cup {to} /\ u.open[to] = v.open[from]
          /\ \A n \in DOMAIN v.open : n # to => u.open[n] = v.open[n]
        BY <2>1 DEF With
    <2>3. \A n : n \in u.cloexec <=> n \in v.cloexec /\ n # to
        BY <2>1 DEF Drop
    <2>4. IsChild(t, u, last)
        BY <2>1, <2>2, <2>3 DEF IsChild
    <2> QED
        BY <2>2, <2>3, <2>4
<1> QED
    BY <1>1, <1>2

LEMMA CallSucceeds ==
    ASSUME NEW t, NEW v, NEW last, IsChild(t, v, last), \A n \in t.child.kept : n \in DOMAIN t.open,
           NEW pair, CallOK(t, pair), NEW result, result = MakeDup2(v, pair)
    PROVE  result.ok = TRUE /\ IsChild(t, result.s, last)
<1> DEFINE u == Dup2(v, pair[1], pair[2])
<1>1. pair[1] \in DOMAIN v.open /\ pair[2] \in DOMAIN t.fds /\ pair[2] \notin Standard
    BY DEF CallOK, IsChild
<1>2. result = Ok(u)
    BY <1>1 DEF MakeDup2
<1>3. u = Dup2(v, pair[1], pair[2])
    OBVIOUS
<1> HIDE DEF u
<1>4. IsChild(t, u, last)
    BY <1>1, <1>3, CallMade
<1> QED
    BY <1>2, <1>4 DEF Ok

\* What an entry of the table, which is not closed, is handed over as.
HandedTo(t, v, fd, last) ==
    fd \in DOMAIN t.fds /\ t.fds[fd].kind # "Closed" =>
       fd \in DOMAIN v.open /\ fd \notin v.cloexec /\ v.open[fd] = ChildHas(t, t.fds[fd].raw, last)

\* None of them is another one's number.
RawsApart(t) == \A fd \in DOMAIN t.fds : fd \notin Standard => t.fds[fd].raw \notin DOMAIN t.fds
RawOpen(t, fd) == fd \in DOMAIN t.fds /\ t.fds[fd].kind # "Closed" => t.fds[fd].raw \in DOMAIN t.open

LEMMA HandStep ==
    ASSUME NEW t, NEW v, NEW last, IsChild(t, v, last), RawsApart(t), NEW fd, fd \notin Standard, RawOpen(t, fd),
           NEW result, result = HandOver(v, fd), NEW u, u = result.s
    PROVE  /\ result.ok = TRUE /\ IsChild(t, u, last) /\ HandedTo(t, u, fd, last)
           /\ \A f : HandedTo(t, v, f, last) => HandedTo(t, u, f, last)
<1>1. v.fds = t.fds
    BY DEF IsChild
<1>2. CASE fd \in DOMAIN t.fds /\ t.fds[fd].kind # "Closed"
    <2> DEFINE raw == t.fds[fd].raw
               to == Dup2(v, raw, fd)
    <2>1. raw \in DOMAIN t.open /\ raw \notin DOMAIN t.fds
        BY <1>2 DEF RawOpen, RawsApart
    <2>2. raw \in DOMAIN v.open /\ v.open[raw] = ChildHas(t, raw, last) /\ raw # fd
        BY <1>2, <2>1 DEF IsChild
    <2>3. result = Ok(to)
        <3>1. HandOver(v, fd) = MakeDup2(v, <<raw, fd>>)
            BY <1>1, <1>2 DEF HandOver
        <3>2. <<raw, fd>>[1] = raw /\ <<raw, fd>>[2] = fd
            OBVIOUS
        <3>3. MakeDup2(v, <<raw, fd>>) = Ok(to)
            BY <2>2, <3>2 DEF MakeDup2
        <3> QED
            BY <3>1, <3>3
    <2>4. u = Dup2(v, raw, fd) /\ result.ok = TRUE
        BY <2>3 DEF Ok
    <2>5. raw = t.fds[fd].raw
        OBVIOUS
    <2> HIDE DEF raw, to
    <2>6. /\ IsChild(t, u, last)
          /\ \A n \in DOMAIN v.open : n \in DOMAIN u.open /\ (n # fd => u.open[n] = v.open[n])
          /\ fd \in DOMAIN u.open /\ u.open[fd] = v.open[raw]
          /\ \A n : n \in u.cloexec => n \in v.cloexec
          /\ fd \notin u.cloexec
        BY <1>2, <2>2, <2>4, CallMade
    <2>7. HandedTo(t, u, fd, last)
        BY <2>2, <2>5, <2>6 DEF HandedTo
    <2>8. ASSUME NEW f, HandedTo(t, v, f, last) PROVE HandedTo(t, u, f, last)
        BY <2>6, <2>7, <2>8 DEF HandedTo
    <2> QED
        BY <2>4, <2>6, <2>7, <2>8
<1>3. CASE ~(fd \in DOMAIN t.fds /\ t.fds[fd].kind # "Closed")
    <2>1. result = Ok(v)
        BY <1>1, <1>3 DEF HandOver
    <2>2. u = v /\ result.ok = TRUE
        BY <2>1 DEF Ok
    <2> QED
        BY <1>3, <2>2 DEF HandedTo
<1> QED
    BY <1>2, <1>3

LEMMA AllHandedOver ==
    ASSUME NEW t, NEW v, NEW last, IsChild(t, v, last), RawsApart(t), NEW fds, Len(fds) \in Nat,
           \A i \in 1..Len(fds) : fds[i] \notin Standard /\ RawOpen(t, fds[i]),
           NEW end, end = InOrder(fds, v, HandOver)
    PROVE  end.ok = TRUE /\ IsChild(t, end.s, last) /\ \A i \in 1..Len(fds) : HandedTo(t, end.s, fds[i], last)
<1> DEFINE N == Len(fds)
<1>0. N \in Nat /\ N = Len(fds) /\ \A i \in 1..N : fds[i] \notin Standard /\ RawOpen(t, fds[i])
    OBVIOUS
<1>1. PICK results : OfHandOver!Chain(fds, Ok(v), end, results)
    BY HandsOverInOrder
<1> HIDE DEF N
<1> DEFINE Good(n) == /\ results[n].ok = TRUE /\ IsChild(t, results[n].s, last)
                      /\ \A i \in 1..n : HandedTo(t, results[n].s, fds[i], last)
           S == {n \in 0..N : Good(n)}
<1>2. 0 \in S
    <2>1. results[0].ok = TRUE /\ results[0].s = v
        BY <1>1 DEF OfHandOver!Chain, Ok
    <2> QED
        BY <1>0, <2>1
<1>3. ASSUME NEW m \in 1..N, m - 1 \in S PROVE m \in S
    <2> DEFINE k == m - 1
               fd == fds[m]
               w == results[k].s
               result == results[m]
               u == result.s
    <2>1. Good(k) /\ fd \notin Standard /\ RawOpen(t, fd) /\ m \in 0..N
        BY <1>0, <1>3
    <2>2. results[k].ok => result = HandOver(w, fd)
        BY <1>0, <1>1 DEF OfHandOver!Chain
    <2>3. /\ result = HandOver(w, fd) /\ IsChild(t, w, last) /\ u = result.s
          /\ \A i \in 1..k : HandedTo(t, w, fds[i], last)
        BY <2>1, <2>2
    <2>4. result = results[m] /\ fd = fds[m] /\ \A i \in 1..m : i \in 1..k \/ i = m
        BY <1>0
    <2> HIDE DEF k, fd, w, result, u
    <2>5. /\ result.ok = TRUE /\ IsChild(t, u, last) /\ HandedTo(t, u, fd, last)
          /\ \A f : HandedTo(t, w, f, last) => HandedTo(t, u, f, last)
        BY <2>1, <2>3, HandStep
    <2>6. \A i \in 1..m : HandedTo(t, u, fds[i], last)
        BY <2>3, <2>4, <2>5
    <2>7. u = results[m].s
        BY <2>3, <2>4
    <2> QED
        BY <2>1, <2>4, <2>5, <2>6, <2>7
<1>4. S = 0..N
    <2> HIDE DEF S
    <2>1. S \in SUBSET (0..N)
        BY DEF S
    <2> QED
        BY <1>0, <1>2, <1>3, <2>1, OfSave!UpTo
<1>5. N \in S
    BY <1>0, <1>4
<1>6. results[N] = end
    BY <1>0, <1>1 DEF OfHandOver!Chain
<1> QED
    BY <1>0, <1>5, <1>6

\* The descriptors that are handed over.
LEMMA CustomFacts ==
    /\ Len(CustomFds) \in Nat
    /\ \A i \in 1..Len(CustomFds) : CustomFds[i] \in 0..9 /\ CustomFds[i] \notin Standard
    /\ ~InPipeline => \A fd \in 0..9 : fd \notin Standard => \E i \in 1..Len(CustomFds) : CustomFds[i] = fd
<1>1. CASE InPipeline
    <2>1. CustomFds = <<>>
        BY <1>1 DEF CustomFds
    <2>2. Len(CustomFds) = 0
        BY <2>1
    <2> QED
        BY <1>1, <2>2
<1>2. CASE ~InPipeline
    <2> DEFINE fds == <<3, 4, 5, 6, 7, 8, 9>>
    <2>1. CustomFds = fds
        BY <1>2 DEF CustomFds
    <2>2. /\ Len(fds) = 7
          /\ fds[1] = 3 /\ fds[2] = 4 /\ fds[3] = 5 /\ fds[4] = 6 /\ fds[5] = 7 /\ fds[6] = 8 /\ fds[7] = 9
        OBVIOUS
    <2> HIDE DEF fds
    <2>3. \A i \in 1..7 : fds[i] = i + 2
        BY <2>2
    <2>4. \A i \in 1..7 : fds[i] \in 0..9 /\ fds[i] \notin Standard
        BY <2>3 DEF Standard
    <2>5. ASSUME NEW fd \in 0..9, fd \notin Standard PROVE \E i \in 1..7 : fds[i] = fd
        <3>1. fd - 2 \in 1..7 /\ fds[fd - 2] = fd
            BY <2>3, <2>5 DEF Standard
        <3> QED
            BY <3>1
    <2> QED
        BY <2>1, <2>2, <2>4, <2>5
<1> QED
    BY <1>1, <1>2

\* An external command leaves the table that its redirections made.
LEMMA ExternalTable ==
    ASSUME NEW a, NEW own, NEW lent, NEW prepared, NEW t, t = prepared.s, HeldWith(a, t, own, lent),
           NEW last, ExternalLeaves(last, prepared)
    PROVE  d'.fds = t.fds
<1>1. IsState(t) /\ KernelOK(t)
    BY StreamApart
<1>2. Lowest(t.open) \notin DOMAIN t.open
    BY <1>1, LowestIsFree DEF KernelOK
<1> DEFINE after == Dropped(t)
           fed == Dropped(Opened(t, "pipe"))
<1>3. after = Dropped(t) /\ fed = Dropped(Opened(t, "pipe"))
    OBVIOUS
<1>4. d' = after \/ d' = fed
    BY DEF ExternalLeaves
<1> HIDE DEF after, fed
<1>5. after.fds = t.fds
    BY <1>1, <1>3, DroppedOpen
<1>6. fed.fds = t.fds
    BY <1>1, <1>2, <1>3, FedOpen
<1> QED
    BY <1>4, <1>5, <1>6

CallsOK(t) ==
    /\ IsStack(t.child.pre_exec)
    /\ \A i \in 1..Len(t.child.pre_exec) : CallOK(t, t.child.pre_exec[i])

LEMMA CallsStep ==
    ASSUME NEW t, NEW r, NEW u, Made(t, u, r), CallsOK(t)
    PROVE  CallsOK(u)
<1> DEFINE p == t.child.pre_exec
           q == u.child.pre_exec
<1>1. Touched(t, u, r.fd) /\ (r.fd \notin Standard => r.fd \in DOMAIN u.fds)
    BY DEF Made, StreamMade, FileMade, CloseMade, DuplicateMade
<1>2. \A f \in DOMAIN t.fds : f \notin Standard => f \in DOMAIN u.fds
    BY <1>1 DEF Touched
<1>3. CASE SameCalls(t, u)
    BY <1>2, <1>3 DEF CallsOK, CallOK, SameCalls
<1>4. CASE ~SameCalls(t, u)
    <2>1. r.fd \notin Standard /\ CallsFor(t, u, r.fd)
        BY <1>4 DEF Made, Calls
    <2>2. PICK n : q = Append(p, <<n, r.fd>>) /\ u.child.kept = Plus(t.child.kept, n)
        BY <1>4, <2>1 DEF CallsFor, SameCalls
    <2> DEFINE pair == <<n, r.fd>>
    <2>3. pair[1] = n /\ pair[2] = r.fd /\ q = Append(p, pair)
        BY <2>2
    <2>4. CallOK(u, pair)
        BY <1>1, <2>1, <2>2, <2>3 DEF CallOK, Plus
    <2>5. PICK S : p \in Seq(S)
        BY DEF CallsOK, IsStack
    <2>5a. IsStack(p)
        BY DEF CallsOK
    <2>6. \A i \in 1..Len(p) : CallOK(u, p[i])
        BY <1>2, <2>2 DEF CallsOK, CallOK, Plus
    <2> HIDE DEF pair, p, q
    <2>7. IsStack(q) /\ Len(q) = Len(p) + 1 /\ Len(p) \in Nat /\ q[Len(p) + 1] = pair
          /\ \A i \in 1..Len(p) : q[i] = p[i]
        BY <2>3, <2>5, AppendFacts DEF IsStack
    <2>8. \A i \in 1..Len(q) : CallOK(u, q[i])
        <3>1. \A i \in 1..Len(q) : i \in 1..Len(p) \/ i = Len(p) + 1
            BY <2>7
        <3> QED
            BY <2>4, <2>6, <2>7, <3>1
    <2> QED
        BY <2>7, <2>8 DEF CallsOK, q
<1> QED
    BY <1>3, <1>4

\* After the first k of an external command's redirections: its streams are what
\* the environment says (StreamsView), the table's other entries are Files open on
\* it (TableView), and what there was before is still found for a duplicate
\* (History, StandardEntries, StaysIn).
ChildPath(a, own, lent, rs, e0, last, k, t) ==
    /\ HeldWith(a, t, own, lent)
    /\ DOMAIN EnvAt(e0, rs, k) = 0..9 /\ Narrow(EnvAt(e0, rs, k))
    /\ StreamsView(t, EnvAt(e0, rs, k), last) /\ TableView(t, EnvAt(e0, rs, k))
    /\ History(e0, EnvAt(e0, rs, k), rs, k)
    /\ StandardEntries(t, rs, k) /\ StaysIn(d, t) /\ CallsOK(t)
    /\ SameFiles(t, There(event'.existed, rs, k))

ChildFit(rs) ==
    /\ IsStack(rs) /\ Len(rs) \in Nat /\ DOMAIN rs = 1..Len(rs)
    /\ \A i \in 1..Len(rs) : ReachesChild(rs[i])
    /\ \A i \in 1..Len(rs) : rs[i].op = "dup" => DuplicateFit(rs, i)
    /\ InPipeline => \A i \in 1..Len(rs) : rs[i].fd \in Standard

LEMMA ChildFits ==
    ASSUME NEW rs \in Redirections, event'.kind = "external", ~Lost(rs)
    PROVE  ChildFit(rs)
<1>1. IsStack(rs)
    BY RedirectionSeq
<1>2. AllReach(rs) /\ ~LostByExternal(rs) /\ ~LostByDuplicate(rs)
    BY ExternalReach
<1>3. Len(rs) \in Nat /\ DOMAIN rs = 1..Len(rs) /\ \A i \in 1..Len(rs) : ReachesChild(rs[i])
    BY <1>2 DEF AllReach
<1>4. ASSUME NEW i \in 1..Len(rs), rs[i].op = "dup" PROVE DuplicateFit(rs, i)
    <2> DEFINE s == rs[i].source
    <2>1. i \in DOMAIN rs
        BY <1>3
    <2>2. i = Len(rs)
        <3> DEFINE N == Len(rs)
        <3>1. i \notin 1..(N - 1)
            BY <1>2, <1>4 DEF LostByExternal
        <3>2. N \in Nat /\ i \in 1..N
            BY <1>3
        <3> HIDE DEF N
        <3>3. i = N
            BY ONLY <3>1, <3>2
        <3> QED
            BY <3>3 DEF N
    <2>3. ~Capturing
        BY <1>2, <1>4, <2>1 DEF LostByExternal, Has
    <2>4. ~InPipeline
        <3>1. rs[i].fd \notin Standard /\ rs[i].fd \in 0..9
            BY <1>3, <1>4 DEF ReachesChild, IsRedirection
        <3>2. rs[i].fd > 2
            BY <3>1 DEF Standard
        <3> QED
            BY <1>2, <2>1, <3>2 DEF LostByExternal, Has
    <2>5. s = 0 => ~Overridden(stack, 0)
        BY <1>2, <1>4, <2>1 DEF LostByDuplicate, Has
    <2>6. Sets(rs, i, s, AllOps \ {"close"}) => s \notin DOMAIN d.fds /\ ~Sets(rs, i, s, {"close"})
        BY <1>2, <1>4, <2>1 DEF LostByExternal
    <2>7. Looked(rs, i - 1, s)
        <3>1. (i - 1) + 1 = i
            BY <1>3
        <3> QED
            BY <2>6, <3>1 DEF Looked, Opens, Closes
    <2> QED
        BY <2>2, <2>3, <2>4, <2>5, <2>7 DEF DuplicateFit
<1>5. ASSUME InPipeline, NEW i \in 1..Len(rs) PROVE rs[i].fd \in Standard
    <2>1. i \in DOMAIN rs
        BY <1>3
    <2>2. ~(rs[i].fd > 2)
        BY <1>2, <1>5, <2>1 DEF LostByExternal, Has
    <2>3. rs[i].fd \in 0..9
        BY <1>3 DEF ReachesChild, IsRedirection
    <2> QED
        BY <2>2, <2>3 DEF Standard
<1> QED
    BY <1>1, <1>3, <1>4, <1>5 DEF ChildFit

\* What a duplicate is made of.
LEMMA SourceFits ==
    ASSUME NEW h, Ledger(h, stack, d), Steady(stack, d), Decent(stack), Kept(stack, d),
           NEW last \in Lasts, NEW e0, e0 = CommandEnv(last), ~InPipeline, ~Capturing,
           NEW s, s = 0 => ~Overridden(stack, 0)
    PROVE  Sourced(e0, s)
<1> DEFINE N == Len(stack)
           meant == StreamsOf(stack, N)
<1>1. N = Len(stack) /\ meant = StreamsOf(stack, N)
    OBVIOUS
<1> HIDE DEF N, meant
<1>2. ScopeOfCommand(last, e0, meant) /\ last
    BY <1>1, CommandScope
<1>3. DOMAIN d.fds \subseteq Standard
    BY <1>1, DFacts
<1> SUFFICES ASSUME s \in DOMAIN d.fds
             PROVE  /\ d.fds[s].kind = "File" /\ d.fds[s].raw \in DOMAIN d.open
                    /\ d.open[d.fds[s].raw] = e0[s] /\ e0[s] # "closed"
    BY DEF Sourced
<1>4. s \in Standard
    BY <1>3
<1>5. e0[s] = meant[s] /\ e0[s] # "closed"
    <2>1. ~Collected(last)
        BY <1>2, Zenon DEF Collected
    <2>2. e0[0] = meant[0] /\ e0[1] = meant[1] /\ e0[2] = meant[2]
        BY <1>2, <2>1, Zenon DEF ScopeOfCommand
    <2>3. IsEnv(e0)
        BY <1>2 DEF ScopeOfCommand
    <2> QED
        BY <1>4, <2>2, <2>3 DEF IsEnv, Standard
<1>6. ~(s = 0 /\ HasInput(stack, N))
    <2>1. IsStack(stack)
        BY StackFacts
    <2>2. DOMAIN stack = 1..N
        BY <1>1, <2>1 DEF IsStack
    <2> QED
        BY <2>2 DEF HasInput, Overridden
<1>7. /\ d.fds[s].kind = "File" /\ d.fds[s].raw \in DOMAIN d.open
      /\ d.open[d.fds[s].raw] = meant[s] \/ (s = 0 /\ HasInput(stack, N))
    BY <1>1 DEF Kept, TableFits
<1> QED
    BY <1>5, <1>6, <1>7

\* What is left of that when all were made, a duplicate being the last one.
ChildEnd(a, own, lent, e, last, t) ==
    /\ HeldWith(a, t, own, lent) /\ DOMAIN e = 0..9 /\ Narrow(e)
    /\ StreamsView(t, e, last) /\ HandedView(t, e, last) /\ CallsOK(t)

LEMMA PathEnds ==
    ASSUME NEW a, NEW own, NEW lent, NEW rs, NEW e0, NEW last, NEW k, NEW t,
           ChildPath(a, own, lent, rs, e0, last, k, t), NEW e, e = EnvAt(e0, rs, k)
    PROVE  ChildEnd(a, own, lent, e, last, t)
<1>1. HeldWith(a, t, own, lent) /\ DOMAIN e = 0..9 /\ Narrow(e) /\ StreamsView(t, e, last) /\ TableView(t, e) /\ CallsOK(t)
    BY DEF ChildPath
<1>2. ASSUME NEW fd \in 0..9, fd \notin Standard PROVE HandedEntry(t, e, fd, last)
    <2>1. EntryView(t, e, fd)
        BY <1>1, <1>2 DEF TableView
    <2> QED
        BY <1>1, <2>1, EntryHanded
<1> QED
    BY <1>1, <1>2 DEF ChildEnd, HandedView

\* Its redirections up to the m-th, which may be a duplicate.
ChildAt(a, own, lent, rs, e0, last, m, t) ==
    IF m # 0 /\ rs[m].op = "dup" THEN ChildEnd(a, own, lent, EnvAt(e0, rs, m), last, t)
                                 ELSE ChildPath(a, own, lent, rs, e0, last, m, t)

LEMMA NarrowStep ==
    ASSUME NEW rs, ChildFit(rs), NEW m \in 1..Len(rs), NEW r, r = rs[m],
           NEW e, DOMAIN e = 0..9, Narrow(e), NEW e2, e2 = Redirected(e, r)
    PROVE  DOMAIN e2 = 0..9 /\ Narrow(e2)
<1>1. ReachesChild(r) /\ (InPipeline => r.fd \in Standard)
    BY DEF ChildFit
<1>2. r.op \in Operators /\ IsRedirection(r)
    BY <1>1 DEF ReachesChild
<1>3. DOMAIN e2 = 0..9 /\ \A fd \in 0..9 : fd # r.fd => e2[fd] = e[fd]
    BY <1>2, RedirectedEnv
<1> QED
    BY <1>1, <1>3 DEF Narrow

LEMMA ChildStep ==
    ASSUME NEW rs, ChildFit(rs), OnlyFiles(d), NEW a, NEW own, NEW lent, NEW e0, SourcesFit(e0, rs), NEW last,
           NEW m \in 1..Len(rs), NEW k, k = m - 1,
           NEW t, ChildPath(a, own, lent, rs, e0, last, k, t), NEW result, result = ApplyToChild(t, rs[m])
    PROVE  /\ result.ok <=> ~FailsAt(e0, rs, m)
           /\ result.ok => ChildAt(a, own, lent, rs, e0, last, m, result.s)
<1> DEFINE r == rs[m]
           e == EnvAt(e0, rs, k)
           e2 == EnvAt(e0, rs, m)
           existed == event'.existed
           there == There(existed, rs, k)
           s == r.source
           u == result.s
<1>1. IsStack(rs) /\ Len(rs) \in Nat /\ ReachesChild(r)
    BY DEF ChildFit
<1>2. m \in Nat \ {0}
    BY <1>1
<1>3. e2 = Redirected(e, r)
    BY <1>1, EnvMore
<1>4. FailsAt(e0, rs, m) <=> FailsWith(e, r, there)
    <2>1. rs[m].op \in Operators
        BY <1>1 DEF ReachesChild
    <2> QED
        BY <1>1, <2>1, FailsAtIs
<1>5. /\ HeldWith(a, t, own, lent) /\ DOMAIN e = 0..9 /\ Narrow(e) /\ StreamsView(t, e, last) /\ TableView(t, e)
      /\ History(e0, e, rs, k) /\ StandardEntries(t, rs, k) /\ StaysIn(d, t) /\ CallsOK(t)
      /\ SameFiles(t, there)
    BY DEF ChildPath
<1>6. r = rs[m] /\ there = There(existed, rs, k) /\ result = ApplyToChild(t, r) /\ u = result.s /\ s = r.source
    OBVIOUS
<1>7. e = EnvAt(e0, rs, k) /\ e2 = EnvAt(e0, rs, m) /\ existed = event'.existed
    OBVIOUS
<1> HIDE DEF r, e, e2, existed, there, s, u
<1>8. r.op \in Operators /\ IsRedirection(r)
    BY <1>1 DEF ReachesChild
<1>9. DOMAIN e2 = 0..9 /\ Narrow(e2)
    BY <1>3, <1>5, <1>6, NarrowStep
<1>10. ASSUME r.op = "dup"
       PROVE  /\ Duplicable(t, r) <=> e[s] # "closed"
              /\ Duplicable(t, r) /\ s \in DOMAIN t.fds => t.fds[s].kind = "File" /\ t.open[t.fds[s].raw] = e[s]
              /\ m = Len(rs)
    <2>1. DuplicateFit(rs, m)
        BY <1>6, <1>10 DEF ChildFit
    <2>2. m = Len(rs) /\ Looked(rs, k, s)
        BY <1>6, <2>1 DEF DuplicateFit
    <2>3. Sourced(e0, s)
        BY <1>6, <1>10 DEF SourcesFit
    <2>4. r.source \in 0..9
        BY <1>8, <1>10 DEF IsRedirection
    <2> QED
        BY <1>5, <1>6, <2>2, <2>3, <2>4, SourceView
<1>11. Works(t, r) <=> ~FailsWith(e, r, there)
    <2>1. r.op = "dup" => (Duplicable(t, r) <=> e[r.source] # "closed")
        BY <1>6, <1>10
    <2> QED
        BY <1>1, <1>5, <2>1, ChildFailsWith
<1>12. /\ result.ok <=> Works(t, r)
       /\ result.ok => Made(t, u, r)
    BY <1>1, <1>5, <1>6, ChildMakes
<1>13. HeldWith(a, u, own, lent)
    <2>1. u = ApplyToChild(t, r).s
        BY <1>6
    <2> QED
        BY <1>5, <1>8, <2>1, ToChildKeeps
<1>14. ASSUME result.ok PROVE ChildAt(a, own, lent, rs, e0, last, m, u)
    <2>1. Made(t, u, r) /\ Works(t, r)
        BY <1>12, <1>14
    <2>2. StreamsView(u, e2, last)
        BY <1>1, <1>3, <1>5, <2>1, StreamsStep
    <2>3. CallsOK(u)
        BY <1>5, <2>1, CallsStep
    <2>4. CASE r.op = "dup"
        <3>1. ASSUME NEW fd \in 0..9, fd \notin Standard PROVE HandedEntry(u, e2, fd, last)
            <4>1. CASE fd = r.fd
                <5>1. /\ Duplicable(t, r)
                      /\ s \in DOMAIN t.fds => t.fds[s].kind = "File" /\ t.open[t.fds[s].raw] = e[s]
                    BY <1>10, <2>1, <2>4 DEF Works
                <5>2. HandedEntry(u, e2, r.fd, last)
                    BY <1>1, <1>3, <1>5, <1>6, <1>13, <2>1, <2>2, <2>4, <5>1, DuplicateHanded
                <5> QED
                    BY <4>1, <5>2
            <4>2. CASE fd # r.fd
                <5>1. EntryView(u, e2, fd)
                    BY <1>1, <1>3, <1>5, <2>1, <3>1, <4>2, OtherEntry
                <5> QED
                    BY <1>13, <5>1, EntryHanded
            <4> QED
                BY <4>1, <4>2
        <3>2. ChildEnd(a, own, lent, e2, last, u)
            BY <1>9, <1>13, <2>2, <2>3, <3>1 DEF ChildEnd, HandedView
        <3> QED
            BY <1>2, <1>6, <1>7, <2>4, <3>2 DEF ChildAt
    <2>5. CASE r.op # "dup"
        <3>1. TableView(u, e2)
            BY <1>1, <1>3, <1>5, <2>1, <2>5, TableStep
        <3>2. History(e0, e2, rs, m)
            BY <1>1, <1>2, <1>3, <1>5, <1>6, HistoryStep
        <3>3. StandardEntries(u, rs, m)
            BY <1>1, <1>2, <1>5, <1>6, <2>1, StandardStep
        <3>4. StaysIn(d, u)
            BY <1>5, <2>1, MadeStays
        <3>5. SameFiles(u, There(existed, rs, m))
            <4>1. SameFiles(t, There(existed, rs, k))
                BY <1>5, <1>6
            <4> QED
                BY <1>1, <1>2, <1>6, <2>1, <4>1, ChildFilesStep
        <3>6. ChildPath(a, own, lent, rs, e0, last, m, u)
            BY <1>7, <1>9, <1>13, <2>2, <2>3, <3>1, <3>2, <3>3, <3>4, <3>5 DEF ChildPath
        <3> QED
            BY <1>6, <2>5, <3>6 DEF ChildAt
    <2> QED
        BY <2>4, <2>5
<1> QED
    BY <1>4, <1>11, <1>12, <1>14 DEF u

\* All of them.
LEMMA AllOfChild ==
    ASSUME NEW rs, ChildFit(rs), OnlyFiles(d), NEW a, NEW own, NEW lent, NEW e0, SourcesFit(e0, rs), NEW last,
           NEW t, ChildPath(a, own, lent, rs, e0, last, 0, t), NEW end, end = AllToChild(rs, t)
    PROVE  /\ end.ok <=> ~Fails(e0, rs)
           /\ end.ok => ChildEnd(a, own, lent, EnvAt(e0, rs, Len(rs)), last, end.s)
<1> DEFINE N == Len(rs)
           Clear(n) == \A i \in 1..n : ~FailsAt(e0, rs, i)
<1>0. N \in Nat /\ DOMAIN rs = 1..N /\ N = Len(rs)
    BY DEF ChildFit
<1>1. PICK results : OfApplyToChild!Chain(rs, Ok(t), end, results)
    BY <1>0, AppliesToChild
<1> DEFINE Good(n) == IF results[n].ok THEN Clear(n) /\ ChildAt(a, own, lent, rs, e0, last, n, results[n].s) ELSE ~Clear(n)
           S == {n \in 0..N : Good(n)}
<1>2. 0 \in S
    <2>1. results[0].ok /\ results[0].s = t
        BY <1>1 DEF OfApplyToChild!Chain, Ok
    <2>2. Clear(0)
        OBVIOUS
    <2>3. ChildAt(a, own, lent, rs, e0, last, 0, t)
        BY DEF ChildAt
    <2> HIDE DEF Clear
    <2> QED
        BY <1>0, <2>1, <2>2, <2>3
<1>3. ASSUME NEW m \in 1..N, m - 1 \in S PROVE m \in S
    <2> DEFINE k == m - 1
    <2>1. Clear(m) <=> Clear(k) /\ ~FailsAt(e0, rs, m)
        <3>1. \A i : i \in 1..m <=> i \in 1..k \/ i = m
            BY <1>0
        <3> QED
            BY <3>1
    <2>2. Good(k) /\ k = m - 1 /\ m \in 0..N
        BY <1>3
    <2>3. results[k].ok => results[m] = ApplyToChild(results[k].s, rs[m])
        BY <1>0, <1>1 DEF OfApplyToChild!Chain
    <2>4. ~results[k].ok => results[m] = results[k]
        BY <1>0, <1>1 DEF OfApplyToChild!Chain
    <2>4a. ~(k # 0 /\ rs[k].op = "dup")
        <3>1. k # 0 => k \in 1..N /\ k # N
            BY <1>0
        <3> QED
            BY <1>0, <3>1 DEF ChildFit, DuplicateFit
    <2> HIDE DEF k, Clear
    <2>5. CASE ~results[k].ok
        BY <2>1, <2>2, <2>4, <2>5
    <2>6. CASE results[k].ok
        <3> DEFINE v == results[k].s
                   result == results[m]
        <3>1. ChildPath(a, own, lent, rs, e0, last, k, v) /\ Clear(k)
            BY <2>2, <2>4a, <2>6 DEF ChildAt
        <3>2. result = ApplyToChild(v, rs[m]) /\ result = results[m]
            BY <2>3, <2>6
        <3> HIDE DEF v, result
        <3>3. /\ result.ok <=> ~FailsAt(e0, rs, m)
              /\ result.ok => ChildAt(a, own, lent, rs, e0, last, m, result.s)
            BY <1>0, <2>2, <3>1, <3>2, ChildStep
        <3>4. Good(m)
            BY <2>1, <3>1, <3>2, <3>3
        <3> QED
            BY <2>2, <3>4
    <2> QED
        BY <2>5, <2>6
<1>4. Good(N)
    <2>1. S = 0..N
        <3> HIDE DEF S
        <3>1. S \in SUBSET (0..N)
            BY DEF S
        <3> QED
            BY <1>0, <1>2, <1>3, <3>1, OfSave!UpTo
    <2>2. N \in S
        BY <1>0, <2>1
    <2> QED
        BY <2>2
<1>5. results[N] = end
    BY <1>0, <1>1 DEF OfApplyToChild!Chain
<1>6. Fails(e0, rs) <=> ~Clear(N)
    BY <1>0 DEF Fails
<1>7. end.ok <=> Clear(N)
    BY <1>4, <1>5
<1>8. ASSUME end.ok PROVE ChildEnd(a, own, lent, EnvAt(e0, rs, N), last, end.s)
    <2> DEFINE e == EnvAt(e0, rs, N)
               u == end.s
    <2>1. ChildAt(a, own, lent, rs, e0, last, N, u)
        BY <1>4, <1>5, <1>8
    <2>2. e = EnvAt(e0, rs, N)
        OBVIOUS
    <2> HIDE DEF e, u
    <2>3. CASE ChildPath(a, own, lent, rs, e0, last, N, u)
        <3>1. ChildEnd(a, own, lent, e, last, u)
            BY <2>2, <2>3, PathEnds
        <3> QED
            BY <3>1 DEF e, u
    <2>4. CASE ChildEnd(a, own, lent, e, last, u)
        BY <2>4 DEF e, u
    <2> QED
        BY <2>1, <2>2, <2>3, <2>4 DEF ChildAt
<1> HIDE DEF Clear
<1> QED
    BY <1>0, <1>6, <1>7, <1>8

\* What the streams of a Command are before its redirections.
LEMMA BeginsStreams ==
    ASSUME NEW h, Ledger(h, stack, d), Steady(stack, d), Decent(stack), Kept(stack, d),
           NEW last \in Lasts, NEW e0, e0 = CommandEnv(last), NEW w, Ready(w, last)
    PROVE  StreamsView(w, e0, last)
<1> DEFINE N == Len(stack)
           meant == StreamsOf(stack, N)
           input == IF InPipeline /\ ~Top.first THEN "pipe" ELSE meant[0]
<1>1. N = Len(stack) /\ meant = StreamsOf(stack, N) /\ input = IF InPipeline /\ ~Top.first THEN "pipe" ELSE meant[0]
    OBVIOUS
<1> HIDE DEF N, meant, input
<1>2. ScopeOfCommand(last, e0, meant)
    BY <1>1, CommandScope
<1>3. Fits(stack, N, d) /\ KernelOK(d)
    <2>1. Held(h[N], d, Own(stack, N), Pipes(stack, N))
        BY <1>1, DFacts
    <2> QED
        BY <1>1, <2>1 DEF Steady, Held
<1>4. Began(w) /\ Beginning(w)
    BY DEF Ready
<1>5. \A fd \in Standard : fd \in DOMAIN d.open /\ w.open[fd] = d.open[fd] /\ Agrees(w.open[fd], meant[fd])
    BY <1>1, <1>3, <1>4 DEF Began, Undisturbed, KernelOK, Standard, Fits
<1>6. StreamView(w, e0, 0, last)
    <2>1. e0[0] = input
        BY <1>1, <1>2 DEF ScopeOfCommand
    <2>2. \/ 0 \notin DOMAIN w.child.std /\ input = meant[0]
          \/ 0 \in DOMAIN w.child.std /\ w.child.std[0] = Stdio("null", NoRaw) /\ input = "pipe"
          \/ /\ 0 \in DOMAIN w.child.std /\ input = "pipe"
             /\ \E n \in DOMAIN w.open : w.child.std[0] = Stdio("file", n) /\ w.open[n] \in {"pipe", "null"}
        BY <1>1, <1>4, InputBegins
    <2>3. CASE 0 \notin DOMAIN w.child.std /\ input = meant[0]
        <3>1. Agrees(w.open[0], e0[0])
            BY <1>5, <2>1, <2>3 DEF Standard
        <3> QED
            BY <2>3, <3>1 DEF StreamView
    <2>4. CASE 0 \in DOMAIN w.child.std /\ w.child.std[0] = Stdio("null", NoRaw) /\ input = "pipe"
        <3>1. w.child.std[0].to = "null" /\ Agrees("null", e0[0])
            BY <2>1, <2>4 DEF Stdio, Agrees
        <3> QED
            BY <2>4, <3>1 DEF StreamView
    <2>5. CASE /\ 0 \in DOMAIN w.child.std /\ input = "pipe"
               /\ \E n \in DOMAIN w.open : w.child.std[0] = Stdio("file", n) /\ w.open[n] \in {"pipe", "null"}
        <3>1. PICK n \in DOMAIN w.open : w.child.std[0] = Stdio("file", n) /\ w.open[n] \in {"pipe", "null"}
            BY <2>5
        <3>2. w.child.std[0].to = "file" /\ w.child.std[0].raw = n /\ Agrees(w.open[n], e0[0])
            BY <2>1, <2>5, <3>1 DEF Stdio, Agrees
        <3> QED
            BY <2>5, <3>1, <3>2 DEF StreamView
    <2> QED
        BY <2>2, <2>3, <2>4, <2>5
<1>7. StreamView(w, e0, 1, last)
    <2>1. CASE Collected(last)
        <3>1. 1 \in DOMAIN w.child.std /\ w.child.std[1] = Stdio("piped", NoRaw)
            BY <2>1 DEF Ready
        <3>2. e0[1] \in {"capture", "pipe"} /\ (~last => e0[1] = "pipe")
            BY <1>2, <2>1 DEF ScopeOfCommand
        <3>3. w.child.std[1].to = "piped" /\ Agrees(Output(last), e0[1])
            BY <3>1, <3>2 DEF Stdio, Agrees, Output
        <3> QED
            BY <3>1, <3>3 DEF StreamView
    <2>2. CASE ~Collected(last)
        <3>1. 1 \notin DOMAIN w.child.std /\ e0[1] = meant[1]
            BY <1>2, <2>2 DEF Ready, ScopeOfCommand
        <3>2. Agrees(w.open[1], e0[1])
            BY <1>5, <3>1 DEF Standard
        <3> QED
            BY <3>1, <3>2 DEF StreamView
    <2> QED
        BY <2>1, <2>2
<1>8. StreamView(w, e0, 2, last)
    <2>1. 2 \notin DOMAIN w.child.std /\ e0[2] = meant[2]
        BY <1>2 DEF Ready, ScopeOfCommand
    <2>2. Agrees(w.open[2], e0[2])
        BY <1>5, <2>1 DEF Standard
    <2> QED
        BY <2>1, <2>2 DEF StreamView
<1> QED
    BY <1>6, <1>7, <1>8 DEF StreamsView, Standard

\* The table is the shell's.
LEMMA BeginsTable ==
    ASSUME NEW h, Ledger(h, stack, d), Kept(stack, d), NEW last, NEW w, Ready(w, last), NEW e0, IsEnv(e0), NEW rs
    PROVE  /\ TableView(w, e0) /\ History(e0, e0, rs, 0) /\ StandardEntries(w, rs, 0) /\ StaysIn(d, w)
           /\ CallsOK(w) /\ OnlyFiles(d)
<1>1. /\ w.fds = d.fds /\ w.child.pre_exec = <<>>
      /\ Undisturbed(d, w, DOMAIN d.open)
    BY DEF Ready, Began
<1>2. DOMAIN d.fds \subseteq Standard
    BY DFacts
<1>3. \A fd \in DOMAIN d.fds : d.fds[fd].kind = "File" /\ d.fds[fd].raw \in DOMAIN d.open
    BY DEF Kept, TableFits
<1>4. TableView(w, e0)
    <2> SUFFICES ASSUME NEW fd \in 0..9, fd \notin Standard PROVE EntryView(w, e0, fd)
        BY DEF TableView
    <2>1. fd \notin DOMAIN w.fds /\ e0[fd] = "closed"
        BY <1>1, <1>2 DEF IsEnv
    <2> QED
        BY <2>1 DEF EntryView
<1>5. History(e0, e0, rs, 0)
    <2> SUFFICES ASSUME NEW fd \in Standard PROVE Past(e0, e0, rs, 0, fd)
        BY DEF History
    <2>1. ~Closes(rs, 0, fd) /\ e0[fd] # "closed"
        BY SetsNone DEF IsEnv
    <2> QED
        BY <2>1 DEF Past
<1>6. StandardEntries(w, rs, 0)
    <2> SUFFICES ASSUME NEW fd \in Standard PROVE StandardEntry(w, rs, 0, fd)
        BY DEF StandardEntries
    <2>1. ~Closes(rs, 0, fd)
        BY SetsNone
    <2>2. fd \in DOMAIN w.fds => fd \in DOMAIN d.fds /\ w.fds[fd].kind = "File"
        BY <1>1, <1>3
    <2> QED
        BY <2>1, <2>2 DEF StandardEntry
<1>7. StaysIn(d, w)
    BY <1>1, <1>3 DEF StaysIn, Undisturbed
<1>8. CallsOK(w)
    <2>1. IsStack(<<>>) /\ Len(<<>>) = 0
        <3>1. <<>> \in Seq({})
            OBVIOUS
        <3> QED
            BY <3>1 DEF IsStack
    <2> QED
        BY <1>1, <2>1 DEF CallsOK
<1>9. OnlyFiles(d)
    BY <1>2, <1>3 DEF OnlyFiles
<1> QED
    BY <1>4, <1>5, <1>6, <1>7, <1>8, <1>9

\* What an external command's redirections find.
LEMMA ChildBegins ==
    ASSUME NEW h, Ledger(h, stack, d), Steady(stack, d), Decent(stack), Kept(stack, d),
           NEW last \in Lasts, NEW e0, e0 = CommandEnv(last), event'.existed = d.exists,
           NEW rs, ChildFit(rs), NEW none, none = {}, NEW w, w = ReadyFor(last)
    PROVE  /\ OnlyFiles(d) /\ SourcesFit(e0, rs)
           /\ \E b : ChildPath(b, none, none, rs, e0, last, 0, w)
<1> DEFINE N == Len(stack)
           meant == StreamsOf(stack, N)
<1>1. N = Len(stack) /\ meant = StreamsOf(stack, N)
    OBVIOUS
<1> HIDE DEF N, meant
<1>2. IsEnv(e0)
    <2>1. ScopeOfCommand(last, e0, meant)
        BY <1>1, CommandScope
    <2> QED
        BY <2>1 DEF ScopeOfCommand
<1>3. PICK b : HeldForCommand(b, d, none, none)
    BY CommandHolder
<1>4. HeldWith(b, w, none, none) /\ Ready(w, last)
    <2>1. d.child = NoChild
        BY DFacts
    <2> QED
        BY <1>3, <2>1, CommandReady
<1>5. StreamsView(w, e0, last)
    BY <1>4, BeginsStreams
<1>6. /\ TableView(w, e0) /\ History(e0, e0, rs, 0) /\ StandardEntries(w, rs, 0) /\ StaysIn(d, w)
      /\ CallsOK(w) /\ OnlyFiles(d)
    BY <1>2, <1>4, BeginsTable
<1>7. EnvAt(e0, rs, 0) = e0
    BY EnvNone DEF ChildFit
<1>8. SameFiles(w, There(event'.existed, rs, 0))
    <2> DEFINE existed == event'.existed
    <2>1. w.exists = existed
        BY <1>4 DEF Ready, Began
    <2> HIDE DEF existed
    <2>2. There(existed, rs, 0) = existed
        BY ThereNone
    <2>3. SameFiles(w, There(existed, rs, 0))
        BY <2>1, <2>2 DEF SameFiles
    <2> QED
        BY <2>3 DEF existed
<1>9. DOMAIN e0 = 0..9 /\ Narrow(e0)
    BY <1>2 DEF IsEnv, Narrow
<1>10. ChildPath(b, none, none, rs, e0, last, 0, w)
    BY <1>4, <1>5, <1>6, <1>7, <1>8, <1>9 DEF ChildPath
<1>11. ASSUME NEW i \in 1..Len(rs), rs[i].op = "dup" PROVE Sourced(e0, rs[i].source)
    <2> DEFINE s == rs[i].source
    <2>1. DuplicateFit(rs, i)
        BY <1>11 DEF ChildFit
    <2>2. ~InPipeline /\ ~Capturing /\ (s = 0 => ~Overridden(stack, 0))
        BY <2>1 DEF DuplicateFit
    <2> HIDE DEF s
    <2>3. Sourced(e0, s)
        BY <2>2, SourceFits
    <2> QED
        BY <2>3 DEF s
<1> QED
    BY <1>6, <1>10, <1>11 DEF SourcesFit

LEMMA AllCallsSucceed ==
    ASSUME NEW t, NEW v, NEW last, IsChild(t, v, last), \A n \in t.child.kept : n \in DOMAIN t.open, CallsOK(t),
           NEW end, end = InOrder(t.child.pre_exec, v, MakeDup2)
    PROVE  end.ok = TRUE /\ IsChild(t, end.s, last)
<1> DEFINE calls == t.child.pre_exec
           N == Len(calls)
<1>0. N \in Nat /\ N = Len(calls) /\ \A i \in 1..N : CallOK(t, calls[i])
    BY DEF CallsOK, IsStack
<1>1. PICK results : OfMakeDup2!Chain(calls, Ok(v), end, results)
    <2>1. end = InOrder(calls, v, MakeDup2)
        OBVIOUS
    <2> HIDE DEF calls
    <2> QED
        BY <1>0, <2>1, CallsInOrder
<1> HIDE DEF calls, N
<1> DEFINE Good(n) == results[n].ok = TRUE /\ IsChild(t, results[n].s, last)
           S == {n \in 0..N : Good(n)}
<1>2. 0 \in S
    <2>1. results[0].ok = TRUE /\ results[0].s = v
        BY <1>1 DEF OfMakeDup2!Chain, Ok
    <2> QED
        BY <1>0, <2>1
<1>3. ASSUME NEW m \in 1..N, m - 1 \in S PROVE m \in S
    <2> DEFINE k == m - 1
               pair == calls[m]
               w == results[k].s
               result == results[m]
    <2>1. Good(k) /\ CallOK(t, pair) /\ m \in 0..N
        BY <1>0, <1>3
    <2>2. results[k].ok => result = MakeDup2(w, pair)
        BY <1>0, <1>1 DEF OfMakeDup2!Chain
    <2>3. result = MakeDup2(w, pair) /\ IsChild(t, w, last)
        BY <2>1, <2>2
    <2>4. result = results[m]
        OBVIOUS
    <2> HIDE DEF k, pair, w, result
    <2>5. result.ok = TRUE /\ IsChild(t, result.s, last)
        BY <2>1, <2>3, CallSucceeds
    <2> QED
        BY <2>1, <2>4, <2>5
<1>4. S = 0..N
    <2> HIDE DEF S
    <2>1. S \in SUBSET (0..N)
        BY DEF S
    <2> QED
        BY <1>0, <1>2, <1>3, <2>1, OfSave!UpTo
<1>5. N \in S
    BY <1>0, <1>4
<1>6. results[N] = end
    BY <1>0, <1>1 DEF OfMakeDup2!Chain
<1> QED
    BY <1>5, <1>6

\* The program of the child sees what is meant.
LEMMA ChildSees ==
    ASSUME NEW a, NEW own, NEW lent, NEW e, NEW last, NEW t, ChildEnd(a, own, lent, e, last, t), RawsApart(t),
           NEW spawned, spawned = Spawn(t, last), NEW seen, seen = Seen(spawned.s)
    PROVE  /\ spawned.ok = TRUE
           /\ \A fd \in 0..9 : fd \in Standard \/ e[fd] # "closed" => Agrees(seen[fd], e[fd])
<1> DEFINE child == Streamed(t, last)
           called == InOrder(t.child.pre_exec, child, MakeDup2)
           v == called.s
<1>1. /\ HeldWith(a, t, own, lent) /\ Narrow(e)
      /\ StreamsView(t, e, last) /\ HandedView(t, e, last) /\ CallsOK(t)
    BY DEF ChildEnd
<1>2. Spawn(t, last) = IF called.ok THEN InOrder(CustomFds, called.s, HandOver) ELSE called
    BY DEF Spawn, Streamed
<1>3. child = Streamed(t, last) /\ called = InOrder(t.child.pre_exec, child, MakeDup2) /\ v = called.s
    OBVIOUS
<1> HIDE DEF child, called, v
<1>4. IsChild(t, child, last)
    BY <1>1, <1>3, StreamedChild
<1>5. (\A n \in t.child.kept : n \in DOMAIN t.open) /\ KernelOK(t)
    BY <1>1, StreamApart
<1>6. called.ok = TRUE /\ IsChild(t, v, last)
    BY <1>1, <1>3, <1>4, <1>5, AllCallsSucceed
<1>7. spawned = InOrder(CustomFds, v, HandOver)
    BY <1>2, <1>3, <1>6
<1> DEFINE fds == CustomFds
           u == spawned.s
<1>8. /\ Len(fds) \in Nat
      /\ \A i \in 1..Len(fds) : fds[i] \notin Standard /\ RawOpen(t, fds[i])
      /\ ~InPipeline => \A fd \in 0..9 : fd \notin Standard => \E i \in 1..Len(fds) : fds[i] = fd
      /\ spawned = InOrder(fds, v, HandOver)
    <2>1. ASSUME NEW fd \in 0..9, fd \notin Standard PROVE RawOpen(t, fd)
        BY <1>1, <2>1 DEF HandedView, HandedEntry, RawOpen
    <2> QED
        BY <1>7, <2>1, CustomFacts
<1> HIDE DEF fds
<1>9. spawned.ok = TRUE /\ IsChild(t, u, last) /\ \A i \in 1..Len(fds) : HandedTo(t, u, fds[i], last)
    <2>1. spawned.ok = TRUE /\ IsChild(t, spawned.s, last) /\ \A i \in 1..Len(fds) : HandedTo(t, spawned.s, fds[i], last)
        BY <1>6, <1>8, AllHandedOver
    <2> QED
        BY <2>1
<1>10. u = spawned.s
    OBVIOUS
<1> HIDE DEF u
<1>11. \A fd \in 0..9 : seen[fd] = IF fd \in DOMAIN u.open \ u.cloexec THEN u.open[fd] ELSE "closed"
    BY <1>10 DEF Seen
<1>12. ASSUME NEW fd \in Standard PROVE Agrees(seen[fd], e[fd])
    <2>1. fd \in 0..9 /\ fd \in DOMAIN t.open
        BY <1>5 DEF KernelOK, Standard
    <2>2. fd \in DOMAIN u.open /\ fd \notin u.cloexec /\ u.open[fd] = ChildHas(t, fd, last)
        BY <1>9, <2>1 DEF IsChild
    <2>3. StreamView(t, e, fd, last)
        BY <1>1 DEF StreamsView
    <2>4. Agrees(ChildHas(t, fd, last), e[fd])
        BY <2>3, StreamIsSeen
    <2>5. seen[fd] = ChildHas(t, fd, last)
        BY <1>11, <2>1, <2>2
    <2> QED
        BY <2>4, <2>5
<1>13. ASSUME NEW fd \in 0..9, fd \notin Standard, e[fd] # "closed" PROVE Agrees(seen[fd], e[fd])
    <2>1. ~InPipeline
        BY <1>1, <1>13 DEF Narrow
    <2>2. PICK i \in 1..Len(fds) : fds[i] = fd
        BY <1>8, <1>13, <2>1
    <2>3. HandedTo(t, u, fd, last)
        BY <1>9, <2>2
    <2>4. HandedEntry(t, e, fd, last)
        BY <1>1, <1>13 DEF HandedView
    <2>5. /\ fd \in DOMAIN u.open /\ fd \notin u.cloexec
          /\ u.open[fd] = ChildHas(t, t.fds[fd].raw, last) /\ Agrees(ChildHas(t, t.fds[fd].raw, last), e[fd])
        BY <1>13, <2>3, <2>4 DEF HandedEntry, HandedTo
    <2>6. seen[fd] = ChildHas(t, t.fds[fd].raw, last)
        BY <1>11, <1>13, <2>5
    <2> QED
        BY <2>5, <2>6
<1> QED
    BY <1>9, <1>12, <1>13

\* An external command finds what is meant.
LEMMA ExternalSees ==
    ASSUME NEW h, Ledger(h, stack, d), Steady(stack, d), Decent(stack), Kept(stack, d),
           ExternalCommand, ~Lost(event'.redirections)
    PROVE  SeesWhatIsMeant(event'.redirections)
<1>1. PICK rs \in Redirections, last \in Lasts :
         /\ ExternalEvent(rs, last)
         /\ ExternalResult(rs, last, AllToChild(rs, ReadyFor(last)))
         /\ ExternalLeaves(last, AllToChild(rs, ReadyFor(last)))
    BY ExternalFacts
<1> DEFINE w == ReadyFor(last)
           prepared == AllToChild(rs, w)
           t == prepared.s
           spawned == Spawn(t, last)
           e0 == CommandEnv(last)
           e == EnvAt(e0, rs, Len(rs))
           none == {}
           seen == Seen(spawned.s)
<1>2. /\ w = ReadyFor(last) /\ prepared = AllToChild(rs, w) /\ t = prepared.s /\ spawned = Spawn(t, last)
      /\ e0 = CommandEnv(last) /\ e = EnvAt(e0, rs, Len(rs)) /\ none = {} /\ seen = Seen(spawned.s)
    OBVIOUS
<1>3. /\ ~prepared.ok => event'.ok = FALSE
      /\ prepared.ok => event'.ok = spawned.ok /\ (spawned.ok => event'.seen = seen)
    BY <1>1 DEF ExternalResult
<1>4. ExternalLeaves(last, prepared)
    BY <1>1
<1> HIDE DEF w, prepared, t, spawned, e0, e, none, seen
<1>5. event'.kind = "external" /\ event'.redirections = rs /\ event'.last = last /\ event'.existed = d.exists
    BY <1>1 DEF ExternalEvent
<1>6. ~Lost(rs) /\ ChildFit(rs) /\ ~LostByExternal(rs)
    BY <1>5, ChildFits, ExternalReach
<1>7. OnlyFiles(d) /\ SourcesFit(e0, rs) /\ \E b : ChildPath(b, none, none, rs, e0, last, 0, w)
    BY <1>2, <1>5, <1>6, ChildBegins
<1>8. PICK b : ChildPath(b, none, none, rs, e0, last, 0, w)
    BY <1>7
<1>9. /\ prepared.ok <=> ~Fails(e0, rs)
      /\ prepared.ok => ChildEnd(b, none, none, e, last, t)
    BY <1>2, <1>6, <1>7, <1>8, AllOfChild
<1>10. ForCommand = e0
    BY <1>2, <1>5, ForCommandIs
<1>11. e = AllRedirected(e0, rs)
    BY <1>2, <1>6, EnvAll DEF ChildFit
<1>12. ASSUME prepared.ok
       PROVE  /\ event'.ok = TRUE
              /\ \A fd \in 0..9 : fd \in Standard \/ e[fd] # "closed" => Agrees(event'.seen[fd], e[fd])
    <2>1. ChildEnd(b, none, none, e, last, t)
        BY <1>9, <1>12
    <2>2. RawsApart(t)
        <3>1. HeldWith(b, t, none, none)
            BY <2>1 DEF ChildEnd
        <3>2. d'.fds = t.fds
            BY <1>2, <1>4, <3>1, ExternalTable
        <3>3. \A fd \in DOMAIN d'.fds \ 0..2 : d'.fds[fd].raw \notin DOMAIN d'.fds
            BY <1>6 DEF LostByExternal
        <3> QED
            BY <3>2, <3>3 DEF RawsApart, Standard
    <2>3. /\ spawned.ok = TRUE
          /\ \A fd \in 0..9 : fd \in Standard \/ e[fd] # "closed" => Agrees(seen[fd], e[fd])
        BY <1>2, <2>1, <2>2, ChildSees
    <2> QED
        BY <1>3, <1>12, <2>3
<1>13. event'.ok = ~Fails(e0, rs)
    <2>1. CASE prepared.ok
        BY <1>9, <1>12, <2>1
    <2>2. CASE ~prepared.ok
        BY <1>3, <1>9, <2>2
    <2> QED
        BY <2>1, <2>2
<1>14. ASSUME event'.ok, NEW fd \in 0..9, fd \in Standard \/ e[fd] # "closed" PROVE Agrees(event'.seen[fd], e[fd])
    <2>1. prepared.ok
        BY <1>3, <1>14
    <2> QED
        BY <1>12, <1>14, <2>1
<1>15. Watched(e) = {fd \in 0..9 : fd \in Standard \/ e[fd] # "closed"}
    BY <1>5 DEF Watched, Standard
<1> QED
    BY <1>5, <1>10, <1>11, <1>13, <1>14, <1>15 DEF SeesWhatIsMeant

-----------------------------------------------------------------------------
(* Every command                                                           *)

\* Nothing else is a command.
LEMMA OthersEvents ==
    ASSUME Next, event'.kind \in {"external", "builtin"}
    PROVE  ExternalCommand \/ BuiltinCaptured \/ Builtin
<1>1. CASE NoCommand
    BY <1>1 DEF NoCommand, Event
<1>2. CASE EnterGroup
    BY <1>2 DEF EnterGroup, Event
<1>3. CASE LeaveGroup
    BY <1>3 DEF LeaveGroup, Left, Event
<1>4. CASE EnterSubshell
    BY <1>4 DEF EnterSubshell, Event
<1>5. CASE LeaveSubshell
    BY <1>5 DEF LeaveSubshell, Left, Event
<1>6. CASE EnterCaptured
    BY <1>6 DEF EnterCaptured, Event
<1>7. CASE LeaveCaptured
    BY <1>7 DEF LeaveCaptured, Left, Event
<1>8. CASE BeginPipeline
    BY <1>8 DEF BeginPipeline, Event
<1>9. CASE EnterStage
    BY <1>9 DEF EnterStage, Event
<1>10. CASE LeaveStage
    BY <1>10 DEF LeaveStage, Left, Event
<1> QED
    BY <1>1, <1>2, <1>3, <1>4, <1>5, <1>6, <1>7, <1>8, <1>9, <1>10 DEF Next

Sees == event'.kind \in {"external", "builtin"} /\ ~Lost(event'.redirections) => SeesWhatIsMeant(event'.redirections)

LEMMA StepSees ==
    ASSUME Whole(stack, d), Next
    PROVE  Sees
<1> SUFFICES ASSUME event'.kind \in {"external", "builtin"}, ~Lost(event'.redirections)
             PROVE  SeesWhatIsMeant(event'.redirections)
    BY DEF Sees
<1>1. Sound(stack, d) /\ Decent(stack) /\ Kept(stack, d)
    BY DEF Whole
<1>2. Steady(stack, d)
    BY <1>1 DEF Sound
<1>3. PICK h : Ledger(h, stack, d)
    BY <1>1 DEF Sound
<1>4. ExternalCommand \/ BuiltinCaptured \/ Builtin
    BY OthersEvents
<1> QED
    BY <1>1, <1>2, <1>3, <1>4, ExternalSees, BuiltinCapturedSees, BuiltinSees

\* However constructs, redirections and commands follow one another, a command
\* whose redirections are not among those that are known to be lost runs
\* exactly if none of its redirections means an error, and then has on its
\* descriptors what the constructs around it and its own redirections mean,
\* from left to right: an external command what is left after the streams were
\* set and its child made its dup2 calls (apply_redirections,
\* src/src/executor/redirection.rs:215, and pre_exec,
\* src/src/executor/command.rs:480), a builtin what the table says that its
\* output goes to.
THEOREM CommandsFindWhatIsMeant == MCSpec => CommandsSeeWhatIsMeant
<1>1. MCSpec => []WholeInv
    BY AlwaysWhole
<1>2. ASSUME WholeInv, [MCNext]_vars PROVE [Sees]_vars
    <2>1. CASE UNCHANGED vars
        BY <2>1
    <2>2. CASE MCNext
        <3>1. Whole(stack, d) /\ Next
            BY <1>2, <2>2 DEF WholeInv, MCNext
        <3> QED
            BY <3>1, StepSees
    <2> QED
        BY <1>2, <2>1, <2>2
<1>3. CommandsSeeWhatIsMeant <=> [][Sees]_vars
    BY DEF CommandsSeeWhatIsMeant, Sees
<1> QED
    BY <1>1, <1>2, <1>3, PTL DEF MCSpec

=============================================================================
