------------------------- MODULE DescriptorsProofs -------------------------
(***************************************************************************)
(* The shell gives back every descriptor that it takes, whatever its       *)
(* redirections, its files and the constructs around its commands.  The    *)
(* ledger says, of the state now and of the one in which the innermost     *)
(* subshell was entered, which numbers are open now and were not then, and *)
(* whose each of them is: the saved copy of a descriptor, a File of the    *)
(* table, the pipe of a construct, or what a Command that is being prepared *)
(* holds.  Here are the operations of the table, redirections, what the    *)
(* constructs do around their bodies and the external command, and what    *)
(* each of them does to the streams and leaves in the table.               *)
(* ConstructsProofs has the constructs within one another, and the ledger  *)
(* in every action; CommandsProofs has what commands find.                 *)
(***************************************************************************)
EXTENDS MCDescriptors, FiniteSetTheorems, SequenceTheorems, TLAPS

-----------------------------------------------------------------------------
(* The steps that are taken in order *)

ApplyToShell(s, r) == Apply(s, r, FALSE)

OfSave == INSTANCE OneAfterAnother WITH Step <- save_fd
OfSaveStandard == INSTANCE OneAfterAnother WITH Step <- SaveStandard
OfRestore == INSTANCE OneAfterAnother WITH Step <- restore_fd
OfApplyForBuiltin == INSTANCE OneAfterAnother WITH Step <- ApplyForBuiltin
OfApplyToShell == INSTANCE OneAfterAnother WITH Step <- ApplyToShell

LEMMA SavesInOrder ==
    ASSUME NEW order, Len(order) \in Nat, NEW s
    PROVE  \E results : OfSave!Chain(order, Ok(s), InOrder(order, s, save_fd), results)
<1>1. InOrder(order, s, save_fd) = OfSave!LastResult(order, Ok(s))
    BY DEF InOrder, OfSave!LastResult, OfSave!Results
<1> QED
    BY <1>1, OfSave!ResultsInOrder

LEMMA SavesStandardInOrder ==
    ASSUME NEW order, Len(order) \in Nat, NEW s
    PROVE  \E results : OfSaveStandard!Chain(order, Ok(s), InOrder(order, s, SaveStandard), results)
<1>1. InOrder(order, s, SaveStandard) = OfSaveStandard!LastResult(order, Ok(s))
    BY DEF InOrder, OfSaveStandard!LastResult, OfSaveStandard!Results
<1> QED
    BY <1>1, OfSaveStandard!ResultsInOrder

LEMMA RestoresInOrder ==
    ASSUME NEW order, Len(order) \in Nat, NEW s
    PROVE  \E results : OfRestore!Chain(order, Ok(s), InOrder(order, s, restore_fd), results)
<1>1. InOrder(order, s, restore_fd) = OfRestore!LastResult(order, Ok(s))
    BY DEF InOrder, OfRestore!LastResult, OfRestore!Results
<1> QED
    BY <1>1, OfRestore!ResultsInOrder

LEMMA AppliesForBuiltin ==
    ASSUME NEW rs, Len(rs) \in Nat, NEW s
    PROVE  \E results : OfApplyForBuiltin!Chain(rs, Ok(s), InOrder(rs, s, ApplyForBuiltin), results)
<1>1. InOrder(rs, s, ApplyForBuiltin) = OfApplyForBuiltin!LastResult(rs, Ok(s))
    BY DEF InOrder, OfApplyForBuiltin!LastResult, OfApplyForBuiltin!Results
<1> QED
    BY <1>1, OfApplyForBuiltin!ResultsInOrder

LEMMA AppliesToShell ==
    ASSUME NEW rs, Len(rs) \in Nat, NEW s
    PROVE  \E results : OfApplyToShell!Chain(rs, Ok(s), apply_redirections(rs, s, FALSE), results)
<1>1. apply_redirections(rs, s, FALSE) = OfApplyToShell!LastResult(rs, Ok(s))
    BY DEF InOrder, OfApplyToShell!LastResult, OfApplyToShell!Results, apply_redirections, ApplyToShell
<1> QED
    BY <1>1, OfApplyToShell!ResultsInOrder

\* Any order has each descriptor once.
LEMMA OrderFacts ==
    ASSUME NEW f, DOMAIN f \subseteq 0..2, NEW order \in Orders(f)
    PROVE  /\ Len(order) \in Nat
           /\ \A i \in 1..Len(order) : order[i] \in DOMAIN f
           /\ \A i, j \in 1..Len(order) : order[i] = order[j] => i = j
           /\ \A x \in DOMAIN f : \E i \in 1..Len(order) : order[i] = x
<1> DEFINE S == DOMAIN f
           n == Cardinality(S)
<1>1. IsFiniteSet(S) /\ n \in Nat
    <2>1. IsFiniteSet(0..2)
        <3>1. \A k \in Nat : IsFiniteSet(0..k)
            BY FS_Interval
        <3> QED
            BY <3>1
    <2> QED
        BY <2>1, FS_Subset, FS_CardinalityType
<1>2. order \in [1..n -> S] /\ \A i, j \in 1..n : order[i] = order[j] => i = j
    BY DEF Orders, SetToSeqs
<1> HIDE DEF n, S
<1>3. Len(order) = n
    BY <1>1, <1>2
<1>4. order \in Injection(1..n, S)
    BY <1>2 DEF Injection, IsInjective
<1>5. Cardinality(1..n) = n
    <2>1. Cardinality(1..n) = IF 1 > n THEN 0 ELSE n - 1 + 1
        BY <1>1, FS_Interval
    <2> QED
        BY <1>1, <2>1
<1>6. order \in Surjection(1..n, S)
    BY <1>1, <1>4, <1>5, FS_Injection DEF n
<1> QED
    BY <1>1, <1>2, <1>3, <1>6 DEF Surjection, S

-----------------------------------------------------------------------------
(* Numbers *)

\* The kernel hands out a number that is not open.
LEMMA LowestIsFree ==
    ASSUME NEW open, IsFiniteSet(DOMAIN open), DOMAIN open \subseteq Nat
    PROVE  Lowest(open) \in Nat \ DOMAIN open
<1> DEFINE n == Cardinality(DOMAIN open)
           Free == (0..n) \ DOMAIN open
<1>1. n \in Nat
    BY FS_CardinalityType
<1>2. Free # {}
    <2> SUFFICES ASSUME 0..n \subseteq DOMAIN open PROVE FALSE
        OBVIOUS
    <2>1. Cardinality(0..n) = n + 1
        <3>1. Cardinality(0..n) = IF 0 > n THEN 0 ELSE n - 0 + 1
            BY <1>1, FS_Interval
        <3> QED
            BY <1>1, <3>1
    <2>2. Cardinality(0..n) <= n
        BY FS_Subset
    <2> QED
        BY <1>1, <2>1, <2>2
<1>3. PICK k \in Free : \A m \in Free : k <= m
    <2>1. Free \in SUBSET Nat
        BY <1>1
    <2> QED
        BY <1>2, <2>1, OfSave!LeastNumber
<1>4. \E k2 \in 0..n : k2 \notin DOMAIN open /\ \A m \in 0..(k2 - 1) : m \in DOMAIN open
    <2>1. \A m \in 0..(k - 1) : m \in 0..n /\ ~(k <= m)
        BY <1>1, <1>3
    <2> QED
        BY <1>3, <2>1
<1> HIDE DEF n
<1>5. Lowest(open) \in 0..n /\ Lowest(open) \notin DOMAIN open
    BY <1>4 DEF Lowest, n
<1> QED
    BY <1>1, <1>5

-----------------------------------------------------------------------------
(* A state is a record, and its parts are functions *)

\* Their equations stay short when they are cited.
Plus(S, x) == S \cup {x}
Minus(S, T) == S \ T
Drop(S, x) == S \ {x}

IsFunction(f) == f = [x \in DOMAIN f |-> f[x]]

IsState(s) ==
    /\ s = [open |-> s.open, cloexec |-> s.cloexec, exists |-> s.exists,
            fds |-> s.fds, saved_fds |-> s.saved_fds, child |-> s.child]
    /\ IsFunction(s.fds) /\ IsFunction(s.saved_fds)

LEMMA WithFacts ==
    ASSUME NEW f, NEW x, NEW y
    PROVE  /\ IsFunction(With(f, x, y))
           /\ DOMAIN With(f, x, y) = DOMAIN f \cup {x}
           /\ With(f, x, y)[x] = y
           /\ \A z \in DOMAIN f : z # x => With(f, x, y)[z] = f[z]
BY DEF With, IsFunction

LEMMA WithoutFacts ==
    ASSUME NEW f, NEW S
    PROVE  /\ IsFunction(Without(f, S))
           /\ DOMAIN Without(f, S) = DOMAIN f \ S
           /\ \A z \in DOMAIN f \ S : Without(f, S)[z] = f[z]
BY DEF Without, Restrict, IsFunction

LEMMA OpenedFields ==
    ASSUME NEW s, IsState(s), NEW content
    PROVE  /\ IsState(Opened(s, content))
           /\ Opened(s, content).open = With(s.open, Lowest(s.open), content)
           /\ Opened(s, content).cloexec = Plus(s.cloexec, Lowest(s.open))
           /\ Opened(s, content).exists = s.exists
           /\ Opened(s, content).fds = s.fds
           /\ Opened(s, content).saved_fds = s.saved_fds
           /\ Opened(s, content).child = s.child
<1> DEFINE t == [s EXCEPT !.open = With(@, Lowest(s.open), content)]
<1>1. /\ IsState(t) /\ t.open = With(s.open, Lowest(s.open), content) /\ t.cloexec = s.cloexec
      /\ t.exists = s.exists /\ t.fds = s.fds /\ t.saved_fds = s.saved_fds /\ t.child = s.child
    BY DEF IsState
<1>2. Opened(s, content) = [t EXCEPT !.cloexec = Plus(s.cloexec, Lowest(s.open))]
    BY DEF Opened, Plus
<1> HIDE DEF t
<1> QED
    BY <1>1, <1>2 DEF IsState

LEMMA DupFields ==
    ASSUME NEW s, IsState(s), NEW n
    PROVE  /\ IsState(Dup(s, n))
           /\ Dup(s, n).open = With(s.open, Lowest(s.open), s.open[n])
           /\ Dup(s, n).cloexec = s.cloexec
           /\ Dup(s, n).exists = s.exists
           /\ Dup(s, n).fds = s.fds
           /\ Dup(s, n).saved_fds = s.saved_fds
           /\ Dup(s, n).child = s.child
BY DEF Dup, IsState

LEMMA CloseFields ==
    ASSUME NEW s, IsState(s), NEW S
    PROVE  /\ IsState(Close(s, S))
           /\ Close(s, S).open = Without(s.open, S)
           /\ Close(s, S).cloexec = Minus(s.cloexec, S)
           /\ Close(s, S).exists = s.exists
           /\ Close(s, S).fds = s.fds
           /\ Close(s, S).saved_fds = s.saved_fds
           /\ Close(s, S).child = s.child
<1> DEFINE t == [s EXCEPT !.open = Without(@, S)]
<1>1. /\ IsState(t) /\ t.open = Without(s.open, S) /\ t.cloexec = s.cloexec
      /\ t.exists = s.exists /\ t.fds = s.fds /\ t.saved_fds = s.saved_fds /\ t.child = s.child
    BY DEF IsState
<1>2. Close(s, S) = [t EXCEPT !.cloexec = Minus(s.cloexec, S)]
    BY DEF Close, Minus
<1> HIDE DEF t
<1> QED
    BY <1>1, <1>2 DEF IsState

LEMMA Dup2Fields ==
    ASSUME NEW s, IsState(s), NEW from, NEW to, from # to, NEW u, u = Dup2(s, from, to)
    PROVE  /\ IsState(u)
           /\ u.open = With(s.open, to, s.open[from])
           /\ u.cloexec = Drop(s.cloexec, to)
           /\ u.exists = s.exists
           /\ u.fds = s.fds
           /\ u.saved_fds = s.saved_fds
           /\ u.child = s.child
<1> DEFINE t == [s EXCEPT !.open = With(@, to, @[from])]
<1>1. /\ IsState(t) /\ t.open = With(s.open, to, s.open[from]) /\ t.cloexec = s.cloexec
      /\ t.exists = s.exists /\ t.fds = s.fds /\ t.saved_fds = s.saved_fds /\ t.child = s.child
    BY DEF IsState
<1>2. u = [t EXCEPT !.cloexec = Drop(s.cloexec, to)]
    BY DEF Dup2, Drop
<1> HIDE DEF t
<1> QED
    BY <1>1, <1>2 DEF IsState

LEMMA InsertFields ==
    ASSUME NEW s, IsState(s), NEW fd, NEW descriptor
    PROVE  LET t == Insert(s, fd, descriptor)
           IN  /\ IsState(t)
               /\ t.open = Without(s.open, Owned(s, {fd}))
               /\ t.cloexec = Minus(s.cloexec, Owned(s, {fd}))
               /\ t.exists = s.exists
               /\ t.fds = With(s.fds, fd, descriptor)
               /\ t.saved_fds = s.saved_fds
               /\ t.child = s.child
<1> DEFINE t0 == [s EXCEPT !.fds = With(@, fd, descriptor)]
<1>1. IsFunction(With(s.fds, fd, descriptor))
    BY WithFacts
<1>2. /\ IsState(t0) /\ t0.open = s.open /\ t0.cloexec = s.cloexec /\ t0.exists = s.exists
      /\ t0.fds = With(s.fds, fd, descriptor) /\ t0.saved_fds = s.saved_fds /\ t0.child = s.child
    BY <1>1 DEF IsState
<1>3. Insert(s, fd, descriptor) = Close(t0, Owned(s, {fd}))
    BY DEF Insert
<1> HIDE DEF t0
<1> QED
    BY <1>2, <1>3, CloseFields

LEMMA ForgetFields ==
    ASSUME NEW s, IsState(s), NEW fd
    PROVE  LET t == Forget(s, fd)
           IN  /\ IsState(t)
               /\ t.open = Without(s.open, Owned(s, {fd}))
               /\ t.cloexec = Minus(s.cloexec, Owned(s, {fd}))
               /\ t.exists = s.exists
               /\ t.fds = Without(s.fds, {fd})
               /\ t.saved_fds = s.saved_fds
               /\ t.child = s.child
<1> DEFINE t0 == [s EXCEPT !.fds = Without(@, {fd})]
<1>1. IsFunction(Without(s.fds, {fd}))
    BY WithoutFacts
<1>2. /\ IsState(t0) /\ t0.open = s.open /\ t0.cloexec = s.cloexec /\ t0.exists = s.exists
      /\ t0.fds = Without(s.fds, {fd}) /\ t0.saved_fds = s.saved_fds /\ t0.child = s.child
    BY <1>1 DEF IsState
<1>3. Forget(s, fd) = Close(t0, Owned(s, {fd}))
    BY DEF Forget
<1> HIDE DEF t0
<1> QED
    BY <1>2, <1>3, CloseFields

-----------------------------------------------------------------------------
(* The ledger: what is open, compared with an earlier state a              *)

Files(t) == {fd \in DOMAIN t.fds : t.fds[fd].kind = "File"}

KernelOK(t) ==
    /\ IsState(t)
    /\ IsFunction(t.open) /\ IsFiniteSet(DOMAIN t.open) /\ DOMAIN t.open \subseteq Nat
    /\ 0..2 \subseteq DOMAIN t.open
    /\ t.cloexec \subseteq DOMAIN t.open \ (0..2)

\* Every number that was not open then is a copy of a descriptor of own, or
\* belongs to a File of the table, or is lent to a pipe or a Command; and it
\* is so once only.
Accounted(a, t, own, lent) ==
    /\ DOMAIN a.open \subseteq DOMAIN t.open
    /\ \A n \in lent : n \in DOMAIN t.open /\ n \notin DOMAIN a.open
    /\ \A f \in own : /\ t.saved_fds[f] \in DOMAIN t.open
                      /\ t.saved_fds[f] \notin DOMAIN a.open /\ t.saved_fds[f] \notin lent
    /\ \A f \in Files(t) : /\ t.fds[f].raw \in DOMAIN t.open
                           /\ t.fds[f].raw \notin DOMAIN a.open /\ t.fds[f].raw \notin lent
    /\ \A f, g \in own : t.saved_fds[f] = t.saved_fds[g] => f = g
    /\ \A f, g \in Files(t) : t.fds[f].raw = t.fds[g].raw => f = g
    /\ \A f \in own, g \in Files(t) : t.saved_fds[f] # t.fds[g].raw
    /\ \A n \in DOMAIN t.open :
          \/ n \in DOMAIN a.open
          \/ n \in lent
          \/ \E f \in own : n = t.saved_fds[f]
          \/ \E f \in Files(t) : n = t.fds[f].raw

\* A descriptor with a copy may be open on anything, as its copy is on what
\* the descriptor was; all others are as they were.
Contents(a, t, own) ==
    /\ \A n \in DOMAIN a.open : n \notin own => t.open[n] = a.open[n]
    /\ \A f \in own : t.open[t.saved_fds[f]] = a.open[f]
    /\ \A n \in DOMAIN a.open : n \in t.cloexec <=> n \in a.cloexec

Held(a, t, own, lent) ==
    /\ KernelOK(a) /\ KernelOK(t)
    /\ own \subseteq 0..2 /\ own \subseteq DOMAIN t.saved_fds
    /\ Accounted(a, t, own, lent)
    /\ Contents(a, t, own)

\* Without copies, the streams are as they were.
LEMMA HeldStreams ==
    ASSUME NEW a, NEW t, NEW lent, Held(a, t, {}, lent)
    PROVE  \A fd \in 0..2 : a.open[fd] = t.open[fd]
BY DEF Held, Contents, KernelOK

\* At first nothing is held.
LEMMA HeldAtFirst ==
    ASSUME NEW a, KernelOK(a), Files(a) = {}
    PROVE  Held(a, a, {}, {})
BY DEF Held, Accounted, Contents

\* Nothing is held: the kernel's side is what it was.
LEMMA NothingHeld ==
    ASSUME NEW a, NEW t, Held(a, t, {}, {}), Files(t) = {}
    PROVE  t.open = a.open /\ t.cloexec = a.cloexec
<1>1. DOMAIN t.open = DOMAIN a.open
    BY DEF Held, Accounted
<1>2. t.open = a.open
    BY <1>1 DEF Held, Contents, KernelOK, IsFunction
<1>3. t.cloexec = a.cloexec
    BY <1>1 DEF Held, Contents, KernelOK
<1> QED
    BY <1>2, <1>3

LEMMA FreshNumber ==
    ASSUME NEW a, NEW t, NEW own, NEW lent, Held(a, t, own, lent)
    PROVE  /\ Lowest(t.open) \in Nat
           /\ Lowest(t.open) \notin DOMAIN t.open
           /\ Lowest(t.open) \notin 0..2
           /\ Lowest(t.open) \notin DOMAIN a.open
<1>1. Lowest(t.open) \in Nat \ DOMAIN t.open
    BY LowestIsFree DEF Held, KernelOK
<1> QED
    BY <1>1 DEF Held, Accounted, KernelOK

LEMMA KernelWith ==
    ASSUME NEW t, KernelOK(t), NEW u, IsState(u), NEW n \in Nat, NEW c, u.open = With(t.open, n, c),
           \A m \in u.cloexec : m \in t.cloexec \/ m = n, n \in u.cloexec => n \notin 0..2
    PROVE  KernelOK(u)
<1>1. DOMAIN u.open = DOMAIN t.open \cup {n} /\ IsFunction(u.open)
    BY DEF With, IsFunction
<1>2. IsFiniteSet(DOMAIN u.open)
    BY <1>1, FS_AddElement DEF KernelOK
<1> QED
    BY <1>1, <1>2 DEF KernelOK

LEMMA KernelWithout ==
    ASSUME NEW t, KernelOK(t), NEW u, IsState(u), NEW S, S \cap (0..2) = {}, u.open = Without(t.open, S),
           u.cloexec = Minus(t.cloexec, S)
    PROVE  KernelOK(u)
<1>1. DOMAIN u.open = DOMAIN t.open \ S /\ IsFunction(u.open)
    BY DEF Without, Restrict, IsFunction
<1>2. IsFiniteSet(DOMAIN u.open)
    BY <1>1, FS_Subset DEF KernelOK
<1> QED
    BY <1>1, <1>2 DEF KernelOK, Minus

\* Only the kernel's side, the Files and the copies matter.
LEMMA HeldSame ==
    ASSUME NEW a, NEW t, NEW own, NEW lent, Held(a, t, own, lent), NEW u, IsState(u),
           u.open = t.open, u.cloexec = t.cloexec, u.saved_fds = t.saved_fds,
           Files(u) = Files(t), \A f \in Files(t) : u.fds[f].raw = t.fds[f].raw
    PROVE  Held(a, u, own, lent)
<1>1. KernelOK(u)
    BY DEF Held, KernelOK
<1>2. Accounted(a, u, own, lent)
    BY DEF Held, Accounted
<1>3. Contents(a, u, own)
    BY DEF Held, Contents
<1> QED
    BY <1>1, <1>2, <1>3 DEF Held

-----------------------------------------------------------------------------
(* Numbers are lent and given back *)

LEMMA Lends ==
    ASSUME NEW a, NEW t, NEW own, NEW lent, Held(a, t, own, lent), NEW u, IsState(u), NEW n, NEW c,
           n = Lowest(t.open), u.open = With(t.open, n, c),
           \A m : m \in u.cloexec => m \in t.cloexec \/ m = n,
           \A m \in t.cloexec : m \in u.cloexec,
           u.saved_fds = t.saved_fds, u.fds = t.fds
    PROVE  Held(a, u, own, lent \cup {n})
<1>1. n \in Nat /\ n \notin DOMAIN t.open /\ n \notin 0..2 /\ n \notin DOMAIN a.open
    BY FreshNumber
<1>2. KernelOK(u)
    BY <1>1, KernelWith DEF Held
<1>3. DOMAIN u.open = DOMAIN t.open \cup {n} /\ \A m \in DOMAIN t.open : u.open[m] = t.open[m]
    BY <1>1 DEF With
<1>4. Files(u) = Files(t)
    BY DEF Files
<1>5. Accounted(a, u, own, lent \cup {n})
    BY <1>1, <1>3, <1>4 DEF Held, Accounted
<1>6. Contents(a, u, own)
    BY <1>1, <1>3 DEF Held, Contents, Accounted
<1> QED
    BY <1>2, <1>5, <1>6 DEF Held

LEMMA OpenedLends ==
    ASSUME NEW a, NEW t, NEW own, NEW lent, Held(a, t, own, lent), NEW c, NEW u, u = Opened(t, c)
    PROVE  Held(a, u, own, lent \cup {Lowest(t.open)})
<1>1. IsState(t)
    BY DEF Held, KernelOK
<1>2. /\ IsState(u) /\ u.open = With(t.open, Lowest(t.open), c)
      /\ u.cloexec = Plus(t.cloexec, Lowest(t.open))
      /\ u.fds = t.fds /\ u.saved_fds = t.saved_fds
    BY <1>1, OpenedFields
<1>3. \A m : m \in u.cloexec <=> m \in t.cloexec \/ m = Lowest(t.open)
    BY <1>2 DEF Plus
<1> QED
    BY <1>2, <1>3, Lends

LEMMA DupLends ==
    ASSUME NEW a, NEW t, NEW own, NEW lent, Held(a, t, own, lent), NEW m, NEW u, u = Dup(t, m)
    PROVE  Held(a, u, own, lent \cup {Lowest(t.open)})
<1>1. IsState(t)
    BY DEF Held, KernelOK
<1>2. /\ IsState(u) /\ u.open = With(t.open, Lowest(t.open), t.open[m])
      /\ u.cloexec = t.cloexec
      /\ u.fds = t.fds /\ u.saved_fds = t.saved_fds
    BY <1>1, DupFields
<1> QED
    BY <1>2, Lends

LEMMA CloseReturns ==
    ASSUME NEW a, NEW t, NEW own, NEW lent, Held(a, t, own, lent), NEW S, S \subseteq lent, NEW u, u = Close(t, S)
    PROVE  Held(a, u, own, lent \ S)
<1>1. IsState(t) /\ Accounted(a, t, own, lent) /\ Contents(a, t, own) /\ KernelOK(a) /\ KernelOK(t)
    BY DEF Held, KernelOK
<1>2. /\ IsState(u) /\ u.open = Without(t.open, S) /\ u.cloexec = Minus(t.cloexec, S)
      /\ u.fds = t.fds /\ u.saved_fds = t.saved_fds
    BY ONLY <1>1, CloseFields, u = Close(t, S)
<1>3. \A n \in S : n \in DOMAIN t.open /\ n \notin DOMAIN a.open /\ n \notin 0..2
    BY <1>1 DEF Accounted, KernelOK
<1>4. KernelOK(u)
    BY <1>1, <1>2, <1>3, KernelWithout
<1>5. DOMAIN u.open = DOMAIN t.open \ S /\ \A m \in DOMAIN u.open : u.open[m] = t.open[m]
    BY <1>2 DEF Without, Restrict
<1>6. Files(u) = Files(t)
    BY <1>2 DEF Files
<1>7. Accounted(a, u, own, lent \ S)
    BY <1>1, <1>2, <1>3, <1>5, <1>6 DEF Accounted
<1>8. Contents(a, u, own)
    BY <1>1, <1>2, <1>3, <1>5, <1>7 DEF Accounted, Contents, Minus
<1> QED
    BY <1>1, <1>2, <1>4, <1>7, <1>8 DEF Held

-----------------------------------------------------------------------------
(* The table's operations keep it *)

\* What was open is open on what it was.
Unmoved(t, u) == \A n \in DOMAIN t.open : n \in DOMAIN u.open /\ u.open[n] = t.open[n]

\* A copy is taken of a descriptor that has none.
LEMMA SaveKeeps ==
    ASSUME NEW a, NEW t, NEW own, NEW lent, Held(a, t, own, lent), NEW fd \in 0..2, fd \notin own,
           NEW u, u = save_fd(t, fd).s
    PROVE  /\ save_fd(t, fd).ok
           /\ Held(a, u, Plus(own, fd), lent)
           /\ u.fds = t.fds /\ u.child = t.child
           /\ DOMAIN u.saved_fds = Plus(DOMAIN t.saved_fds, fd)
           /\ Unmoved(t, u)
<1> DEFINE n == Lowest(t.open)
           v == Dup(t, fd)
<1>1. /\ fd \in DOMAIN t.open /\ IsState(t) /\ Accounted(a, t, own, lent) /\ Contents(a, t, own)
      /\ KernelOK(a) /\ KernelOK(t)
    BY DEF Held, KernelOK
<1>2. n \in Nat /\ n \notin DOMAIN t.open /\ n \notin 0..2 /\ n \notin DOMAIN a.open
    BY FreshNumber
<1>3. /\ v.fds = t.fds /\ v.saved_fds = t.saved_fds /\ v.child = t.child /\ v.cloexec = t.cloexec
      /\ IsState(v) /\ v.open = With(t.open, n, t.open[fd])
    BY <1>1, DupFields
<1>4. save_fd(t, fd) = Ok([v EXCEPT !.saved_fds = With(v.saved_fds, fd, n)])
    BY <1>1 DEF save_fd
<1> HIDE DEF v, n
<1>5. IsFunction(With(v.saved_fds, fd, n))
    BY WithFacts
<1>6. /\ IsState(u) /\ u.open = With(t.open, n, t.open[fd]) /\ u.cloexec = t.cloexec
      /\ u.fds = t.fds /\ u.saved_fds = With(t.saved_fds, fd, n) /\ u.child = t.child
      /\ save_fd(t, fd).ok
    BY <1>3, <1>4, <1>5 DEF IsState, Ok
<1>7. KernelOK(u)
    BY <1>1, <1>2, <1>6, KernelWith
<1>8. /\ DOMAIN u.open = DOMAIN t.open \cup {n}
      /\ u.open[n] = t.open[fd] /\ \A m \in DOMAIN t.open : u.open[m] = t.open[m]
    BY <1>2, <1>6 DEF With
<1>9. /\ DOMAIN u.saved_fds = DOMAIN t.saved_fds \cup {fd}
      /\ u.saved_fds[fd] = n /\ \A f \in own : u.saved_fds[f] = t.saved_fds[f]
    BY <1>6 DEF With, Held
<1>10. Files(u) = Files(t)
    BY <1>6 DEF Files
<1>11. \A f \in own \cup {fd} : u.saved_fds[f] = IF f = fd THEN n ELSE t.saved_fds[f]
    BY <1>9
<1>12. Accounted(a, u, own \cup {fd}, lent)
    <2>1. /\ DOMAIN a.open \subseteq DOMAIN u.open
          /\ \A m \in lent : m \in DOMAIN u.open /\ m \notin DOMAIN a.open
        BY <1>1, <1>8 DEF Accounted
    <2>2. \A f \in own \cup {fd} : /\ u.saved_fds[f] \in DOMAIN u.open
                                   /\ u.saved_fds[f] \notin DOMAIN a.open /\ u.saved_fds[f] \notin lent
        BY <1>1, <1>2, <1>8, <1>11 DEF Accounted
    <2>3. \A f, g \in own \cup {fd} : u.saved_fds[f] = u.saved_fds[g] => f = g
        BY <1>1, <1>2, <1>11 DEF Accounted
    <2>4. \A f \in own \cup {fd}, g \in Files(t) : u.saved_fds[f] # t.fds[g].raw
        BY <1>1, <1>2, <1>11 DEF Accounted
    <2>5. \A m \in DOMAIN u.open :
             \/ m \in DOMAIN a.open
             \/ m \in lent
             \/ \E f \in own \cup {fd} : m = u.saved_fds[f]
             \/ \E f \in Files(t) : m = t.fds[f].raw
        <3> SUFFICES ASSUME NEW m \in DOMAIN u.open
                     PROVE  \/ m \in DOMAIN a.open
                            \/ m \in lent
                            \/ \E f \in own \cup {fd} : m = u.saved_fds[f]
                            \/ \E f \in Files(t) : m = t.fds[f].raw
            OBVIOUS
        <3>1. CASE m = n
            BY <1>9, <3>1
        <3>2. CASE m # n
            BY <1>1, <1>8, <1>9, <3>2 DEF Accounted
        <3> QED
            BY <3>1, <3>2
    <2>6. /\ \A f \in Files(t) : /\ t.fds[f].raw \in DOMAIN u.open
                                 /\ t.fds[f].raw \notin DOMAIN a.open /\ t.fds[f].raw \notin lent
          /\ \A f, g \in Files(t) : t.fds[f].raw = t.fds[g].raw => f = g
        BY <1>1, <1>8 DEF Accounted
    <2> QED
        BY <1>6, <1>10, <2>1, <2>2, <2>3, <2>4, <2>5, <2>6 DEF Accounted
<1>13. Contents(a, u, own \cup {fd})
    <2>1. t.open[fd] = a.open[fd]
        BY <1>1 DEF Contents, KernelOK
    <2>2. \A m \in DOMAIN a.open : m \notin own \cup {fd} => u.open[m] = a.open[m]
        BY <1>1, <1>8 DEF Contents, Accounted
    <2>3. \A f \in own \cup {fd} : u.open[u.saved_fds[f]] = a.open[f]
        BY <1>1, <1>8, <1>11, <2>1 DEF Contents, Accounted
    <2> QED
        BY <1>1, <1>6, <2>2, <2>3 DEF Contents
<1>14. Unmoved(t, u)
    BY <1>8 DEF Unmoved
<1> QED
    BY <1>1, <1>6, <1>7, <1>9, <1>12, <1>13, <1>14 DEF Held, Plus

\* What is closed with an entry of the table is nobody else's.
LEMMA OwnedFacts ==
    ASSUME NEW a, NEW t, NEW own, NEW lent, Held(a, t, own, lent), NEW fd
    PROVE  /\ \A n \in Owned(t, {fd}) : n \in DOMAIN t.open /\ n \notin DOMAIN a.open /\ n \notin 0..2 /\ n \notin lent
           /\ \A n : n \in Owned(t, {fd}) <=> fd \in Files(t) /\ n = t.fds[fd].raw
           /\ \A f \in own : t.saved_fds[f] \notin Owned(t, {fd})
           /\ \A f \in Files(t) : f # fd => t.fds[f].raw \notin Owned(t, {fd})
<1>1. \A n : n \in Owned(t, {fd}) <=> fd \in Files(t) /\ n = t.fds[fd].raw
    BY DEF Owned, Files
<1>2. \A n \in Owned(t, {fd}) : n \in DOMAIN t.open /\ n \notin DOMAIN a.open /\ n \notin lent
    <2>1. \A f \in Files(t) : /\ t.fds[f].raw \in DOMAIN t.open
                              /\ t.fds[f].raw \notin DOMAIN a.open /\ t.fds[f].raw \notin lent
        BY DEF Held, Accounted
    <2> QED
        BY ONLY <1>1, <2>1
<1>3. \A n \in Owned(t, {fd}) : n \notin 0..2
    <2> SUFFICES ASSUME NEW n \in Owned(t, {fd}), n \in 0..2 PROVE FALSE
        OBVIOUS
    <2>1. 0..2 \subseteq DOMAIN a.open
        BY DEF Held, KernelOK
    <2>2. n \in DOMAIN a.open
        BY ONLY <2>1, n \in 0..2, Zenon
    <2> QED
        BY <1>2, <2>2
<1>4. \A f \in own : t.saved_fds[f] \notin Owned(t, {fd})
    <2> SUFFICES ASSUME NEW f \in own, t.saved_fds[f] \in Owned(t, {fd}) PROVE FALSE
        OBVIOUS
    <2>1. \A e \in own, g \in Files(t) : t.saved_fds[e] # t.fds[g].raw
        <3>1. Accounted(a, t, own, lent)
            BY DEF Held
        <3> QED
            BY ONLY <3>1, Zenon DEF Accounted
    <2>2. fd \in Files(t) /\ t.saved_fds[f] = t.fds[fd].raw
        BY <1>1
    <2> QED
        BY <2>1, <2>2
<1>5. \A f \in Files(t) : f # fd => t.fds[f].raw \notin Owned(t, {fd})
    <2> SUFFICES ASSUME NEW f \in Files(t), f # fd, t.fds[f].raw \in Owned(t, {fd}) PROVE FALSE
        OBVIOUS
    <2>1. \A e, g \in Files(t) : e # g => t.fds[e].raw # t.fds[g].raw
        <3>1. Accounted(a, t, own, lent)
            BY DEF Held
        <3> QED
            BY ONLY <3>1, Zenon DEF Accounted
    <2>2. fd \in Files(t) /\ t.fds[f].raw = t.fds[fd].raw
        BY <1>1
    <2> QED
        BY <2>1, <2>2
<1> QED
    BY ONLY <1>1, <1>2, <1>3, <1>4, <1>5

LEMMA ForgetKeeps ==
    ASSUME NEW a, NEW t, NEW own, NEW lent, Held(a, t, own, lent), NEW fd, NEW u, u = Forget(t, fd)
    PROVE  /\ Held(a, u, own, lent)
           /\ DOMAIN u.fds = Drop(DOMAIN t.fds, fd)
           /\ u.saved_fds = t.saved_fds
           /\ u.child = t.child
<1> DEFINE old == Owned(t, {fd})
<1>1. IsState(t) /\ Accounted(a, t, own, lent) /\ Contents(a, t, own) /\ KernelOK(t)
    BY DEF Held, KernelOK
<1>2. /\ IsState(u) /\ u.open = Without(t.open, old) /\ u.cloexec = Minus(t.cloexec, old)
      /\ u.fds = Without(t.fds, {fd}) /\ u.child = t.child /\ u.saved_fds = t.saved_fds
    BY <1>1, ForgetFields
<1>3. /\ \A n \in old : n \in DOMAIN t.open /\ n \notin DOMAIN a.open /\ n \notin 0..2 /\ n \notin lent
      /\ \A n : n \in old <=> fd \in Files(t) /\ n = t.fds[fd].raw
      /\ \A f \in own : t.saved_fds[f] \notin old
      /\ \A f \in Files(t) : f # fd => t.fds[f].raw \notin old
    BY OwnedFacts
<1> HIDE DEF old
<1>4. KernelOK(u)
    BY <1>1, <1>2, <1>3, KernelWithout
<1>5. DOMAIN u.open = DOMAIN t.open \ old /\ \A n \in DOMAIN u.open : u.open[n] = t.open[n]
    BY <1>2 DEF Without, Restrict
<1>6. DOMAIN u.fds = DOMAIN t.fds \ {fd} /\ \A f \in DOMAIN u.fds : u.fds[f] = t.fds[f]
    BY <1>2 DEF Without, Restrict
<1>7. Files(u) = Files(t) \ {fd} /\ \A f \in Files(u) : u.fds[f] = t.fds[f]
    BY <1>6 DEF Files
<1>71. \A f \in Files(u) : f \in Files(t) /\ u.fds[f] = t.fds[f]
    BY <1>7
<1>8. Accounted(a, u, own, lent)
    <2>1. /\ DOMAIN a.open \subseteq DOMAIN u.open
          /\ \A n \in lent : n \in DOMAIN u.open /\ n \notin DOMAIN a.open
        BY <1>1, <1>3, <1>5 DEF Accounted
    <2>2. \A f \in own : /\ u.saved_fds[f] \in DOMAIN u.open
                         /\ u.saved_fds[f] \notin DOMAIN a.open /\ u.saved_fds[f] \notin lent
        BY <1>1, <1>2, <1>3, <1>5 DEF Accounted
    <2>3. \A f \in Files(u) : /\ u.fds[f].raw \in DOMAIN u.open
                              /\ u.fds[f].raw \notin DOMAIN a.open /\ u.fds[f].raw \notin lent
        BY <1>1, <1>3, <1>5, <1>7 DEF Accounted
    <2>4. \A n \in DOMAIN u.open :
             \/ n \in DOMAIN a.open
             \/ n \in lent
             \/ \E f \in own : n = u.saved_fds[f]
             \/ \E f \in Files(u) : n = u.fds[f].raw
        <3> SUFFICES ASSUME NEW n \in DOMAIN u.open, n \notin DOMAIN a.open, n \notin lent,
                            ~ \E f \in own : n = t.saved_fds[f]
                     PROVE  \E f \in Files(u) : n = u.fds[f].raw
            BY <1>2
        <3>1. PICK f \in Files(t) : n = t.fds[f].raw
            BY <1>1, <1>5 DEF Accounted
        <3>2. f # fd
            BY <1>3, <1>5, <3>1
        <3> QED
            BY <1>7, <3>1, <3>2
    <2>5. \A f, g \in own : u.saved_fds[f] = u.saved_fds[g] => f = g
        BY <1>1, <1>2 DEF Accounted
    <2>6. \A f, g \in Files(u) : u.fds[f].raw = u.fds[g].raw => f = g
        BY <1>1, <1>71 DEF Accounted
    <2>7. \A f \in own, g \in Files(u) : u.saved_fds[f] # u.fds[g].raw
        <3>1. \A f \in own, g \in Files(t) : t.saved_fds[f] # t.fds[g].raw
            BY <1>1 DEF Accounted
        <3>2. u.saved_fds = t.saved_fds
            BY <1>2
        <3> QED
            BY <1>71, <3>1, <3>2
    <2> QED
        BY <2>1, <2>2, <2>3, <2>4, <2>5, <2>6, <2>7 DEF Accounted
<1>9. Contents(a, u, own)
    <2>1. \A n \in DOMAIN a.open : n \notin old /\ n \in DOMAIN u.open
        BY <1>3, <1>8 DEF Accounted
    <2>2. \A n \in DOMAIN a.open : n \notin own => u.open[n] = a.open[n]
        BY <1>1, <1>5, <2>1 DEF Contents
    <2>3. \A f \in own : u.open[u.saved_fds[f]] = a.open[f]
        BY <1>1, <1>2, <1>5, <1>8 DEF Contents, Accounted
    <2>4. \A n \in DOMAIN a.open : n \in u.cloexec <=> n \in a.cloexec
        BY <1>1, <1>2, <2>1 DEF Contents, Minus
    <2> QED
        BY <2>2, <2>3, <2>4 DEF Contents
<1> QED
    BY <1>2, <1>4, <1>6, <1>8, <1>9 DEF Held, Drop

\* A File is added for a descriptor that has none.
LEMMA FileAdded ==
    ASSUME NEW a, NEW t, NEW own, NEW lent, Held(a, t, own, lent), NEW fd, fd \notin Files(t),
           NEW n \in Nat, n \notin DOMAIN t.open, NEW c,
           NEW u, IsState(u), u.open = With(t.open, n, c), u.cloexec = Plus(t.cloexec, n),
           u.saved_fds = t.saved_fds,
           Files(u) = Plus(Files(t), fd), u.fds[fd].raw = n,
           \A f \in Files(t) : u.fds[f] = t.fds[f]
    PROVE  Held(a, u, own, lent)
<1>1. DOMAIN a.open \subseteq DOMAIN t.open /\ n \notin DOMAIN a.open /\ n \notin 0..2
    BY DEF Held, Accounted, KernelOK
<1>2. KernelOK(u)
    <2>1. \A m \in u.cloexec : m \in t.cloexec \/ m = n
        BY DEF Plus
    <2> QED
        BY <1>1, <2>1, KernelWith DEF Held
<1>3. /\ DOMAIN u.open = DOMAIN t.open \cup {n}
      /\ \A m \in DOMAIN t.open : u.open[m] = t.open[m]
    BY DEF With
<1>4. Accounted(a, t, own, lent)
    BY DEF Held
<1>5. \A f \in own : t.saved_fds[f] # n
    BY <1>4 DEF Accounted
<1>6. (\A f \in Files(t) : t.fds[f].raw # n) /\ n \notin lent
    BY <1>4 DEF Accounted
<1>7. \A f \in Files(u) : f = fd \/ (f \in Files(t) /\ u.fds[f] = t.fds[f])
    BY DEF Plus
<1>8. Accounted(a, u, own, lent)
    <2>1. /\ \A m \in lent : m \in DOMAIN u.open /\ m \notin DOMAIN a.open
          /\ \A f \in own : /\ u.saved_fds[f] \in DOMAIN u.open
                            /\ u.saved_fds[f] \notin DOMAIN a.open /\ u.saved_fds[f] \notin lent
        BY <1>3, <1>4 DEF Accounted
    <2>2. \A f \in Files(u) : /\ u.fds[f].raw \in DOMAIN u.open
                              /\ u.fds[f].raw \notin DOMAIN a.open /\ u.fds[f].raw \notin lent
        BY <1>1, <1>3, <1>4, <1>6, <1>7 DEF Accounted
    <2>3. \A f, g \in Files(u) : u.fds[f].raw = u.fds[g].raw => f = g
        BY <1>4, <1>6, <1>7 DEF Accounted
    <2>4. \A f \in own, g \in Files(u) : u.saved_fds[f] # u.fds[g].raw
        BY <1>4, <1>5, <1>7 DEF Accounted
    <2>5. \A m \in DOMAIN u.open :
             \/ m \in DOMAIN a.open
             \/ m \in lent
             \/ \E f \in own : m = u.saved_fds[f]
             \/ \E f \in Files(u) : m = u.fds[f].raw
        <3> SUFFICES ASSUME NEW m \in DOMAIN u.open, m \notin DOMAIN a.open, m \notin lent,
                            ~ \E f \in own : m = u.saved_fds[f]
                     PROVE  \E f \in Files(u) : m = u.fds[f].raw
            OBVIOUS
        <3>1. CASE m = n
            BY <3>1 DEF Plus
        <3>2. CASE m # n
            <4>1. PICK f \in Files(t) : m = t.fds[f].raw
                BY <1>3, <1>4, <3>2 DEF Accounted
            <4> QED
                BY <4>1 DEF Plus
        <3> QED
            BY <3>1, <3>2
    <2>6. \A f, g \in own : u.saved_fds[f] = u.saved_fds[g] => f = g
        BY <1>4 DEF Accounted
    <2> QED
        BY <1>1, <1>3, <2>1, <2>2, <2>3, <2>4, <2>5, <2>6 DEF Accounted
<1>9. Contents(a, u, own)
    <2>1. Contents(a, t, own)
        BY DEF Held
    <2>2. \A m \in DOMAIN a.open : m \in u.cloexec <=> m \in a.cloexec
        BY <1>1, <2>1 DEF Contents, Plus
    <2>3. \A m \in DOMAIN a.open : m \notin own => u.open[m] = a.open[m]
        BY <1>1, <1>3, <2>1 DEF Contents
    <2>4. \A f \in own : u.open[u.saved_fds[f]] = a.open[f]
        BY <1>3, <1>4, <2>1 DEF Contents, Accounted
    <2> QED
        BY <2>2, <2>3, <2>4 DEF Contents
<1> QED
    BY <1>2, <1>8, <1>9 DEF Held

LEMMA WithWithout ==
    ASSUME NEW f, NEW S, NEW x, x \notin S, NEW y
    PROVE  Without(With(f, x, y), S) = With(Without(f, S), x, y)
BY DEF With, Without, Restrict

\* A descriptor is opened, duplicated or closed in the table.
LEMMA InsertOtherKeeps ==
    ASSUME NEW a, NEW t, NEW own, NEW lent, Held(a, t, own, lent), NEW fd,
           NEW descriptor, descriptor.kind # "File", NEW u, u = Insert(t, fd, descriptor)
    PROVE  /\ Held(a, u, own, lent)
           /\ u.saved_fds = t.saved_fds
           /\ u.child = t.child
           /\ DOMAIN u.fds = DOMAIN t.fds \cup {fd}
<1> DEFINE w == Forget(t, fd)
<1>1. IsState(t)
    BY DEF Held, KernelOK
<1>2. /\ IsState(u) /\ u.open = Without(t.open, Owned(t, {fd})) /\ u.cloexec = Minus(t.cloexec, Owned(t, {fd}))
      /\ u.fds = With(t.fds, fd, descriptor) /\ u.saved_fds = t.saved_fds /\ u.child = t.child
    BY <1>1, InsertFields
<1>3. /\ IsState(w) /\ w.open = Without(t.open, Owned(t, {fd})) /\ w.cloexec = Minus(t.cloexec, Owned(t, {fd}))
      /\ w.fds = Without(t.fds, {fd}) /\ w.saved_fds = t.saved_fds
    BY <1>1, ForgetFields
<1>4. Held(a, w, own, lent)
    BY ForgetKeeps
<1> HIDE DEF w
<1>5. /\ DOMAIN u.fds = DOMAIN t.fds \cup {fd} /\ u.fds[fd] = descriptor
      /\ \A f \in DOMAIN t.fds : f # fd => u.fds[f] = t.fds[f]
    BY <1>2 DEF With
<1>6. DOMAIN w.fds = DOMAIN t.fds \ {fd} /\ \A f \in DOMAIN w.fds : w.fds[f] = t.fds[f]
    BY <1>3 DEF Without, Restrict
<1>7. Files(u) = Files(w)
    BY <1>5, <1>6 DEF Files
<1>8. \A f \in Files(w) : u.fds[f].raw = w.fds[f].raw
    BY <1>5, <1>6 DEF Files
<1>9. u.open = w.open /\ u.cloexec = w.cloexec /\ u.saved_fds = w.saved_fds
    BY <1>2, <1>3
<1>10. Held(a, u, own, lent)
    BY <1>2, <1>4, <1>7, <1>8, <1>9, HeldSame
<1> QED
    BY <1>2, <1>5, <1>10

LEMMA CreatedKeeps ==
    ASSUME NEW a, NEW t, NEW own, NEW lent, Held(a, t, own, lent), NEW file, NEW u, u = Created(t, file)
    PROVE  /\ Held(a, u, own, lent)
           /\ u.open = t.open /\ u.fds = t.fds /\ u.saved_fds = t.saved_fds /\ u.child = t.child
<1>1. /\ IsState(u) /\ u.open = t.open /\ u.cloexec = t.cloexec /\ u.fds = t.fds
      /\ u.saved_fds = t.saved_fds /\ u.child = t.child
    BY DEF Created, IsState, Held, KernelOK
<1>2. Files(u) = Files(t) /\ \A f \in Files(t) : u.fds[f].raw = t.fds[f].raw
    BY <1>1 DEF Files
<1>3. Held(a, u, own, lent)
    BY <1>1, <1>2, HeldSame
<1> QED
    BY <1>1, <1>3

LEMMA OpenKeeps ==
    ASSUME NEW a, NEW t, NEW own, NEW lent, Held(a, t, own, lent), NEW fd, NEW file, NEW creating,
           NEW u, u = open_fd(t, fd, file, creating).s
    PROVE  /\ Held(a, u, own, lent)
           /\ u.saved_fds = t.saved_fds
           /\ u.child = t.child
           /\ DOMAIN u.fds \subseteq DOMAIN t.fds \cup {fd}
           /\ CanOpen(t, file, creating) => fd \in Files(u)
<1>1. CASE ~ CanOpen(t, file, creating)
    BY <1>1 DEF open_fd, Failed
<1>2. CASE CanOpen(t, file, creating)
    <2> DEFINE s == Created(t, file)
               n == Lowest(s.open)
               v == Opened(s, file)
               w == Forget(s, fd)
               new == Descriptor("File", n)
    <2>1. Held(a, s, own, lent)
        BY CreatedKeeps
    <2>2. s.open = t.open /\ s.fds = t.fds /\ s.saved_fds = t.saved_fds /\ s.child = t.child
        BY CreatedKeeps
    <2>3. u = Insert(v, fd, new)
        BY <1>2, <2>2 DEF open_fd, Ok
    <2>16. new.kind = "File" /\ new.raw = n
        BY DEF Descriptor
    <2> HIDE DEF s, new
    <2>4. n \in Nat /\ n \notin DOMAIN s.open
        BY <2>1, FreshNumber
    <2>5. IsState(s)
        BY <2>1 DEF Held, KernelOK
    <2>6. /\ IsState(v) /\ v.open = With(s.open, n, file) /\ v.cloexec = Plus(s.cloexec, n)
          /\ v.fds = s.fds /\ v.saved_fds = s.saved_fds /\ v.child = s.child
        BY <2>5, OpenedFields
    <2>7. /\ IsState(w) /\ w.open = Without(s.open, Owned(s, {fd})) /\ w.cloexec = Minus(s.cloexec, Owned(s, {fd}))
          /\ w.fds = Without(s.fds, {fd}) /\ w.saved_fds = s.saved_fds /\ w.child = s.child
        BY <2>5, ForgetFields
    <2> HIDE DEF v
    <2>8. Owned(v, {fd}) = Owned(s, {fd})
        BY <2>6 DEF Owned
    <2>9. /\ IsState(u) /\ u.open = Without(v.open, Owned(v, {fd})) /\ u.cloexec = Minus(v.cloexec, Owned(v, {fd}))
          /\ u.fds = With(v.fds, fd, new) /\ u.saved_fds = v.saved_fds /\ u.child = v.child
        BY ONLY <2>3, <2>6, InsertFields
    <2>10. Held(a, w, own, lent)
        BY <2>1, ForgetKeeps
    <2> HIDE DEF w
    <2> HIDE DEF n
    <2>11. n \notin Owned(s, {fd})
        BY ONLY <2>1, <2>4, OwnedFacts
    <2>12. u.open = With(w.open, n, file)
        <3>1. /\ u.open = Without(With(s.open, n, file), Owned(s, {fd}))
              /\ w.open = Without(s.open, Owned(s, {fd}))
            BY <2>6, <2>7, <2>8, <2>9
        <3>2. Without(With(s.open, n, file), Owned(s, {fd})) = With(Without(s.open, Owned(s, {fd})), n, file)
            BY ONLY <2>11, WithWithout
        <3> QED
            BY ONLY <3>1, <3>2
    <2>13. u.cloexec = Plus(w.cloexec, n)
        <3>1. u.cloexec = Minus(Plus(s.cloexec, n), Owned(s, {fd})) /\ w.cloexec = Minus(s.cloexec, Owned(s, {fd}))
            BY <2>6, <2>7, <2>8, <2>9
        <3> QED
            BY ONLY <2>11, <3>1 DEF Plus, Minus
    <2>14. /\ DOMAIN u.fds = DOMAIN s.fds \cup {fd} /\ u.fds[fd] = new
           /\ \A f \in DOMAIN s.fds : f # fd => u.fds[f] = s.fds[f]
        BY <2>6, <2>9 DEF With
    <2>15. /\ DOMAIN w.fds = DOMAIN s.fds \ {fd} /\ \A f \in DOMAIN w.fds : w.fds[f] = s.fds[f]
           /\ DOMAIN w.open = DOMAIN s.open \ Owned(s, {fd})
        BY <2>7 DEF Without, Restrict
    <2>17. Files(u) = Plus(Files(w), fd) /\ fd \notin Files(w) /\ u.fds[fd].raw = n
        BY <2>14, <2>15, <2>16 DEF Files, Plus
    <2>18. \A f \in Files(w) : u.fds[f] = w.fds[f]
        BY <2>14, <2>15 DEF Files
    <2>19. u.saved_fds = w.saved_fds /\ u.child = t.child /\ u.saved_fds = t.saved_fds
        BY <2>2, <2>6, <2>7, <2>9
    <2>20. Held(a, u, own, lent)
        <3>1. IsState(u) /\ n \notin DOMAIN w.open
            BY <2>4, <2>9, <2>15
        <3> QED
            BY ONLY <2>4, <2>10, <2>12, <2>13, <2>17, <2>18, <2>19, <3>1, FileAdded
    <2> QED
        BY <2>2, <2>14, <2>17, <2>19, <2>20 DEF Plus
<1> QED
    BY <1>1, <1>2

\* A descriptor with a copy is opened on what another number is open on.
LEMMA Dup2Keeps ==
    ASSUME NEW a, NEW t, NEW own, NEW lent, Held(a, t, own, lent), NEW fd \in own,
           NEW n \in DOMAIN t.open, NEW u, u = Dup2(t, n, fd)
    PROVE  /\ Held(a, u, own, lent)
           /\ u.fds = t.fds /\ u.saved_fds = t.saved_fds /\ u.child = t.child
<1>1. CASE n = fd
    BY <1>1 DEF Dup2
<1>2. CASE n # fd
    <2>1. /\ IsState(t) /\ fd \in 0..2 /\ Accounted(a, t, own, lent) /\ Contents(a, t, own)
          /\ KernelOK(a) /\ KernelOK(t)
        BY DEF Held, KernelOK
    <2>2. /\ IsState(u) /\ u.open = With(t.open, fd, t.open[n]) /\ u.cloexec = Drop(t.cloexec, fd)
          /\ u.fds = t.fds /\ u.saved_fds = t.saved_fds /\ u.child = t.child
        BY <1>2, <2>1, Dup2Fields
    <2>3. KernelOK(u)
        BY <2>1, <2>2, KernelWith DEF Drop
    <2>4. DOMAIN u.open = DOMAIN t.open /\ \A m \in DOMAIN t.open : m # fd => u.open[m] = t.open[m]
        BY <2>1, <2>2 DEF With, KernelOK
    <2>5. Files(u) = Files(t)
        BY <2>2 DEF Files
    <2>6. Accounted(a, u, own, lent)
        BY <2>1, <2>2, <2>4, <2>5 DEF Accounted
    <2>7. Contents(a, u, own)
        <3>1. \A m \in DOMAIN a.open : m \notin own => u.open[m] = a.open[m]
            BY <2>1, <2>4 DEF Contents, Accounted
        <3>2. \A f \in own : u.open[u.saved_fds[f]] = a.open[f]
            <4> SUFFICES ASSUME NEW f \in own
                         PROVE  u.open[u.saved_fds[f]] = a.open[f]
                OBVIOUS
            <4>1. t.saved_fds[f] \in DOMAIN t.open /\ t.saved_fds[f] # fd
                BY <2>1 DEF Accounted, KernelOK
            <4>2. u.saved_fds[f] = t.saved_fds[f] /\ t.open[t.saved_fds[f]] = a.open[f]
                BY <2>1, <2>2 DEF Contents
            <4> QED
                BY <2>4, <4>1, <4>2
        <3>3. fd \notin t.cloexec
            BY <2>1 DEF KernelOK
        <3>4. \A m \in DOMAIN a.open : m \in u.cloexec <=> m \in a.cloexec
            BY <2>1, <2>2, <3>3 DEF Contents, Minus, Drop
        <3> QED
            BY <3>1, <3>2, <3>4 DEF Contents
    <2> QED
        BY <2>1, <2>2, <2>3, <2>6, <2>7 DEF Held
<1> QED
    BY <1>1, <1>2

\* The copy comes back, is closed, and the table forgets the descriptor.
LEMMA RestoreKeeps ==
    ASSUME NEW a, NEW t, NEW own, NEW lent, Held(a, t, own, lent), NEW fd \in own,
           NEW u, u = restore_fd(t, fd).s
    PROVE  /\ restore_fd(t, fd).ok
           /\ Held(a, u, Drop(own, fd), lent)
           /\ DOMAIN u.saved_fds = Drop(DOMAIN t.saved_fds, fd)
           /\ DOMAIN u.fds = Drop(DOMAIN t.fds, fd)
           /\ u.child = t.child
<1> DEFINE n == t.saved_fds[fd]
           t1 == [t EXCEPT !.saved_fds = Without(@, {fd})]
           t2 == Dup2(t1, n, fd)
           t3 == Close(t2, {n})
<1>2. /\ IsState(t) /\ fd \in 0..2 /\ Accounted(a, t, own, lent) /\ Contents(a, t, own) /\ KernelOK(a) /\ KernelOK(t)
      /\ own \subseteq DOMAIN t.saved_fds /\ own \subseteq 0..2
    BY DEF Held, KernelOK
<1>3. n \in DOMAIN t.open /\ n \notin DOMAIN a.open /\ n \notin 0..2 /\ n # fd /\ n \notin lent
    BY <1>2 DEF Accounted, KernelOK
<1>1. IsFunction(Without(t.saved_fds, {fd}))
    BY WithoutFacts
<1>4. /\ IsState(t1) /\ t1.open = t.open /\ t1.cloexec = t.cloexec /\ t1.fds = t.fds
      /\ t1.saved_fds = Without(t.saved_fds, {fd}) /\ t1.child = t.child
    BY <1>1, <1>2 DEF IsState
<1>5. restore_fd(t, fd) = Ok(Forget(t3, fd))
    BY <1>3 DEF restore_fd
<1>6. restore_fd(t, fd).ok /\ u = Forget(t3, fd)
    BY <1>5 DEF Ok
<1> HIDE DEF n, t1
<1>7. /\ IsState(t2) /\ t2.open = With(t1.open, fd, t1.open[n]) /\ t2.cloexec = Drop(t1.cloexec, fd)
      /\ t2.fds = t1.fds /\ t2.saved_fds = t1.saved_fds /\ t2.child = t1.child
    BY <1>3, <1>4, Dup2Fields
<1> HIDE DEF t2
<1>8. /\ IsState(t3) /\ t3.open = Without(t2.open, {n}) /\ t3.cloexec = Minus(t2.cloexec, {n})
      /\ t3.fds = t2.fds /\ t3.saved_fds = t2.saved_fds /\ t3.child = t2.child
    BY ONLY <1>7, CloseFields
<1> HIDE DEF t3
<1>72. IsFunction(t.saved_fds) /\ fd \notin t.cloexec
    BY <1>2 DEF IsState, KernelOK
<1>9. KernelOK(t2)
    <2>1. t2.open = With(t.open, fd, t.open[n]) /\ \A m \in t2.cloexec : m \in t.cloexec /\ m # fd
        BY <1>4, <1>7, <1>72 DEF Drop
    <2> QED
        BY <1>2, <1>7, <2>1, KernelWith
<1>10. KernelOK(t3)
    BY <1>3, <1>8, <1>9, KernelWithout
<1>11. /\ DOMAIN t2.open = DOMAIN t.open /\ t2.open[fd] = t.open[n]
       /\ \A m \in DOMAIN t.open : m # fd => t2.open[m] = t.open[m]
    BY <1>2, <1>4, <1>7 DEF With, KernelOK
<1>12. DOMAIN t3.open = DOMAIN t.open \ {n} /\ \A m \in DOMAIN t3.open : t3.open[m] = t2.open[m]
    BY <1>8, <1>11 DEF Without, Restrict
<1>13. t3.fds = t.fds /\ Files(t3) = Files(t) /\ t3.child = t.child
    BY <1>4, <1>7, <1>8 DEF Files
<1>14. t3.saved_fds = Without(t.saved_fds, {fd})
    BY <1>4, <1>7, <1>8
<1>15. /\ DOMAIN t3.saved_fds = DOMAIN t.saved_fds \ {fd}
       /\ \A f \in own \ {fd} : t3.saved_fds[f] = t.saved_fds[f] /\ t.saved_fds[f] # n
    BY <1>2, <1>14 DEF Without, Restrict, Accounted, n
<1>16. Accounted(a, t3, own \ {fd}, lent)
    <2>1. /\ DOMAIN a.open \subseteq DOMAIN t3.open
          /\ \A m \in lent : m \in DOMAIN t3.open /\ m \notin DOMAIN a.open
        BY <1>2, <1>3, <1>12 DEF Accounted
    <2>2. \A f \in own \ {fd} : /\ t3.saved_fds[f] \in DOMAIN t3.open
                                /\ t3.saved_fds[f] \notin DOMAIN a.open /\ t3.saved_fds[f] \notin lent
        BY <1>2, <1>12, <1>15 DEF Accounted
    <2>3. \A f \in Files(t) : /\ t.fds[f].raw \in DOMAIN t3.open
                              /\ t.fds[f].raw \notin DOMAIN a.open /\ t.fds[f].raw \notin lent
        BY <1>2, <1>12 DEF Accounted, n
    <2>4. \A m \in DOMAIN t3.open :
             \/ m \in DOMAIN a.open
             \/ m \in lent
             \/ \E f \in own \ {fd} : m = t3.saved_fds[f]
             \/ \E f \in Files(t) : m = t.fds[f].raw
        <3> SUFFICES ASSUME NEW m \in DOMAIN t3.open, m \notin DOMAIN a.open, m \notin lent,
                            ~ \E f \in Files(t) : m = t.fds[f].raw
                     PROVE  \E f \in own \ {fd} : m = t3.saved_fds[f]
            OBVIOUS
        <3>1. PICK f \in own : m = t.saved_fds[f]
            BY <1>2, <1>12 DEF Accounted
        <3>2. f # fd
            BY <1>12, <3>1 DEF n
        <3> QED
            BY <1>15, <3>1, <3>2
    <2>5. \A f, g \in own \ {fd} : t3.saved_fds[f] = t3.saved_fds[g] => f = g
        BY <1>2, <1>15 DEF Accounted
    <2>6. \A f \in own \ {fd}, g \in Files(t) : t3.saved_fds[f] # t.fds[g].raw
        BY <1>2, <1>15 DEF Accounted
    <2>7. \A f, g \in Files(t) : t.fds[f].raw = t.fds[g].raw => f = g
        BY <1>2 DEF Accounted
    <2> QED
        BY <1>13, <2>1, <2>2, <2>3, <2>4, <2>5, <2>6, <2>7 DEF Accounted
<1>17. Contents(a, t3, own \ {fd})
    <2>1. \A m \in DOMAIN a.open : m \notin own \ {fd} => t3.open[m] = a.open[m]
        <3> SUFFICES ASSUME NEW m \in DOMAIN a.open, m \notin own \ {fd}
                     PROVE  t3.open[m] = a.open[m]
            OBVIOUS
        <3>1. m \in DOMAIN t3.open /\ t3.open[m] = t2.open[m]
            BY <1>2, <1>3, <1>12 DEF Accounted
        <3>2. CASE m = fd
            BY <1>2, <1>11, <3>1, <3>2 DEF Contents, n
        <3>3. CASE m # fd
            BY <1>2, <1>11, <3>1, <3>3 DEF Contents, Accounted
        <3> QED
            BY <3>2, <3>3
    <2>2. \A f \in own \ {fd} : t3.open[t3.saved_fds[f]] = a.open[f]
        <3> SUFFICES ASSUME NEW f \in own \ {fd}
                     PROVE  t3.open[t3.saved_fds[f]] = a.open[f]
            OBVIOUS
        <3>1. t3.saved_fds[f] = t.saved_fds[f] /\ t.saved_fds[f] \in DOMAIN t3.open /\ t.saved_fds[f] # fd
            BY <1>2, <1>12, <1>15 DEF Accounted, KernelOK
        <3>2. t3.open[t.saved_fds[f]] = t.open[t.saved_fds[f]]
            BY <1>11, <1>12, <3>1
        <3> QED
            BY <1>2, <3>1, <3>2 DEF Contents
    <2>3. \A m \in DOMAIN a.open : m \in t3.cloexec <=> m \in a.cloexec
        <3>1. t3.cloexec = Minus(Drop(t.cloexec, fd), {n})
            BY <1>4, <1>7, <1>8
        <3> QED
            BY <1>2, <1>3, <1>72, <3>1 DEF Contents, Minus, Drop
    <2> QED
        BY <2>1, <2>2, <2>3 DEF Contents
<1>18. Held(a, t3, own \ {fd}, lent)
    BY <1>2, <1>10, <1>15, <1>16, <1>17 DEF Held
<1>19. /\ Held(a, u, own \ {fd}, lent) /\ DOMAIN u.fds = Drop(DOMAIN t3.fds, fd)
       /\ u.saved_fds = t3.saved_fds /\ u.child = t3.child
    BY <1>6, <1>18, ForgetKeeps
<1> QED
    BY <1>6, <1>13, <1>15, <1>19 DEF Drop

-----------------------------------------------------------------------------
(* Everything is saved, and restored                                       *)

LEMMA SaveAllKeeps ==
    ASSUME NEW a, NEW t, NEW lent, Held(a, t, {}, lent),
           DOMAIN t.fds \subseteq 0..2, DOMAIN t.saved_fds \subseteq 0..2,
           NEW order \in Orders(t.fds), NEW saved, saved = save_all_fds(t, order)
    PROVE  /\ saved.ok
           /\ Held(a, saved.s, 0..2, lent)
           /\ saved.s.fds = t.fds /\ saved.s.child = t.child
           /\ DOMAIN saved.s.saved_fds = 0..2
           /\ Unmoved(t, saved.s)
<1> DEFINE N == Len(order)
           tracked == InOrder(order, t, save_fd)
           Taken(n) == {order[i] : i \in 1..n}
           Good(own, r) == /\ r.ok /\ Held(a, r.s, own, lent) /\ r.s.fds = t.fds /\ r.s.child = t.child
                           /\ DOMAIN r.s.saved_fds \subseteq 0..2 /\ Unmoved(t, r.s)
<1>1. /\ N \in Nat
      /\ \A i \in 1..N : order[i] \in DOMAIN t.fds
      /\ \A i, j \in 1..N : order[i] = order[j] => i = j
      /\ \A x \in DOMAIN t.fds : \E i \in 1..N : order[i] = x
    BY OrderFacts
<1>2. ASSUME NEW own, NEW r, Good(own, r), NEW fd \in 0..2, fd \notin own
      PROVE  Good(Plus(own, fd), save_fd(r.s, fd))
    <2> DEFINE u == save_fd(r.s, fd).s
    <2>1. /\ save_fd(r.s, fd).ok
          /\ Held(a, u, Plus(own, fd), lent)
          /\ u.fds = r.s.fds /\ u.child = r.s.child
          /\ DOMAIN u.saved_fds = Plus(DOMAIN r.s.saved_fds, fd)
          /\ Unmoved(r.s, u)
        BY <1>2, SaveKeeps
    <2> HIDE DEF u
    <2>2. DOMAIN u.saved_fds \subseteq 0..2
        BY <1>2, <2>1 DEF Plus
    <2>3. Unmoved(t, u)
        BY <1>2, <2>1 DEF Unmoved
    <2> QED
        BY <1>2, <2>1, <2>2, <2>3 DEF u
<1>3. PICK results : OfSave!Chain(order, Ok(t), tracked, results)
    BY <1>1, SavesInOrder
<1>4. Good(DOMAIN t.fds, tracked)
    <2> DEFINE S == {n \in 0..N : Good(Taken(n), results[n])}
    <2>1. 0 \in S
        <3>1. results[0] = Ok(t) /\ Taken(0) = {}
            BY <1>3 DEF OfSave!Chain
        <3>2. Good({}, Ok(t))
            BY DEF Ok, Unmoved
        <3> HIDE DEF Good, Taken
        <3>3. Good(Taken(0), results[0])
            BY <3>1, <3>2
        <3> QED
            BY <1>1, <3>3
    <2>2. ASSUME NEW n \in 1..N, n - 1 \in S
          PROVE  n \in S
        <3> HIDE DEF Good
        <3>1. Good(Taken(n - 1), results[n - 1])
            BY <2>2
        <3>2. results[n] = save_fd(results[n - 1].s, order[n])
            <4>1. results[n - 1].ok
                BY <3>1 DEF Good
            <4> QED
                BY <1>3, <4>1 DEF OfSave!Chain
        <3>3. order[n] \in 0..2 /\ order[n] \notin Taken(n - 1)
            BY <1>1
        <3>4. Taken(n) = Plus(Taken(n - 1), order[n])
            BY <1>1 DEF Plus
        <3> HIDE DEF Taken
        <3>5. Good(Taken(n), results[n])
            BY <1>2, <3>1, <3>2, <3>3, <3>4
        <3> QED
            BY <3>5
    <2> HIDE DEF Good, Taken
    <2>3. S = 0..N
        <3> HIDE DEF S
        <3>1. S \in SUBSET (0..N)
            BY DEF S
        <3> QED
            BY <1>1, <2>1, <2>2, <3>1, OfSave!UpTo
    <2>4. N \in S
        BY <1>1, <2>3
    <2>5. Taken(N) = DOMAIN t.fds
        BY <1>1 DEF Taken
    <2>6. results[N] = tracked
        BY <1>3 DEF OfSave!Chain
    <2> QED
        BY <2>4, <2>5, <2>6
<1>5. PICK results2 : OfSaveStandard!Chain(<<0, 1, 2>>, Ok(tracked.s),
                                           InOrder(<<0, 1, 2>>, tracked.s, SaveStandard), results2)
    BY SavesStandardInOrder
<1>6. saved = InOrder(<<0, 1, 2>>, tracked.s, SaveStandard)
    BY <1>4 DEF save_all_fds
<1> HIDE DEF tracked, Taken, N
<1>7. ASSUME NEW own, NEW r, Good(own, r), DOMAIN t.fds \subseteq own,
             NEW fd \in 0..2, fd \notin own \/ fd \in DOMAIN t.fds
      PROVE  Good(Plus(own, fd), SaveStandard(r.s, fd))
    <2>1. r.s.fds = t.fds
        BY <1>7
    <2> HIDE DEF Good
    <2>2. CASE fd \in DOMAIN t.fds
        <3>1. SaveStandard(r.s, fd) = Ok(r.s)
            BY <2>1, <2>2 DEF SaveStandard
        <3>2. Plus(own, fd) = own
            BY <1>7, <2>2 DEF Plus
        <3> QED
            BY <1>7, <3>1, <3>2 DEF Good, Ok
    <2>3. CASE fd \notin DOMAIN t.fds
        <3>1. Good(Plus(own, fd), save_fd(r.s, fd))
            BY <1>2, <1>7, <2>3
        <3>2. SaveStandard(r.s, fd) = Ok(save_fd(r.s, fd).s)
            BY <2>1, <2>3 DEF SaveStandard
        <3> QED
            BY <3>1, <3>2 DEF Good, Ok
    <2> QED
        BY <2>2, <2>3
<1> DEFINE own0 == DOMAIN t.fds
           own1 == Plus(own0, 0)
           own2 == Plus(own1, 1)
<1>8. Good(own0, results2[0])
    BY <1>4, <1>5 DEF OfSaveStandard!Chain, Ok
<1> HIDE DEF Good
<1>9. \A n \in 1..3 : results2[n - 1].ok => results2[n] = SaveStandard(results2[n - 1].s, n - 1)
    BY <1>5 DEF OfSaveStandard!Chain
<1>15. /\ own0 \subseteq own0 /\ own0 \subseteq own1 /\ own0 \subseteq own2
       /\ 0 \notin own0 \/ 0 \in own0
       /\ 1 \notin own1 \/ 1 \in own0
       /\ 2 \notin own2 \/ 2 \in own0
       /\ 0 \in 0..2 /\ 1 \in 0..2 /\ 2 \in 0..2
    BY DEF Plus
<1>10. Good(own1, results2[1])
    <2>1. results2[1] = SaveStandard(results2[0].s, 0)
        BY <1>8, <1>9 DEF Good
    <2> QED
        BY <1>7, <1>8, <1>15, <2>1
<1>11. Good(own2, results2[2])
    <2>1. results2[2] = SaveStandard(results2[1].s, 1)
        BY <1>9, <1>10 DEF Good
    <2> QED
        BY <1>7, <1>10, <1>15, <2>1
<1>12. Good(Plus(own2, 2), results2[3])
    <2>1. results2[3] = SaveStandard(results2[2].s, 2)
        BY <1>9, <1>11 DEF Good
    <2> QED
        BY <1>7, <1>11, <1>15, <2>1
<1>13. Plus(own2, 2) = 0..2
    BY DEF Plus
<1>14. results2[3] = saved
    BY <1>5, <1>6 DEF OfSaveStandard!Chain
<1>16. Good(0..2, saved)
    BY <1>12, <1>13, <1>14
<1> QED
    BY <1>16 DEF Good, Held

LEMMA RestoreAllKeeps ==
    ASSUME NEW a, NEW t, NEW own, NEW lent, Held(a, t, own, lent), DOMAIN t.saved_fds = own,
           NEW back \in Orders(t.saved_fds), NEW u, u = restore_all_fds(t, back).s
    PROVE  /\ Held(a, u, {}, lent)
           /\ DOMAIN u.saved_fds = {}
           /\ \A fd \in DOMAIN u.fds : fd \in DOMAIN t.fds /\ fd \notin own
           /\ u.child = t.child
<1> DEFINE N == Len(back)
           Left0(n) == {fd \in own : \A i \in 1..n : back[i] # fd}
           Good(o, r) == /\ r.ok /\ Held(a, r.s, o, lent) /\ DOMAIN r.s.saved_fds = o /\ r.s.child = t.child
                         /\ \A fd \in DOMAIN r.s.fds : fd \in DOMAIN t.fds /\ (fd \in own => fd \in o)
<1>1. /\ N \in Nat
      /\ \A i \in 1..N : back[i] \in own
      /\ \A i, j \in 1..N : back[i] = back[j] => i = j
      /\ \A x \in own : \E i \in 1..N : back[i] = x
    <2>1. DOMAIN t.saved_fds \subseteq 0..2
        BY DEF Held
    <2> QED
        BY <2>1, OrderFacts
<1>2. ASSUME NEW o, NEW r, Good(o, r), NEW fd \in o
      PROVE  Good(Drop(o, fd), restore_fd(r.s, fd))
    <2> DEFINE u2 == restore_fd(r.s, fd).s
    <2>1. /\ restore_fd(r.s, fd).ok
          /\ Held(a, u2, Drop(o, fd), lent)
          /\ DOMAIN u2.saved_fds = Drop(DOMAIN r.s.saved_fds, fd)
          /\ DOMAIN u2.fds = Drop(DOMAIN r.s.fds, fd)
          /\ u2.child = r.s.child
        BY <1>2, RestoreKeeps
    <2> HIDE DEF u2
    <2>2. \A x \in DOMAIN u2.fds : x \in DOMAIN t.fds /\ (x \in own => x \in Drop(o, fd))
        BY <1>2, <2>1 DEF Drop
    <2>3. DOMAIN u2.saved_fds = Drop(o, fd)
        BY <1>2, <2>1
    <2> QED
        BY <1>2, <2>1, <2>2, <2>3 DEF u2
<1>3. PICK results : OfRestore!Chain(back, Ok(t), restore_all_fds(t, back), results)
    BY <1>1, RestoresInOrder DEF restore_all_fds
<1> DEFINE S == {n \in 0..N : Good(Left0(n), results[n])}
<1>4. 0 \in S
    <2>1. results[0] = Ok(t) /\ Left0(0) = own
        BY <1>3 DEF OfRestore!Chain
    <2>2. Good(own, Ok(t))
        BY DEF Ok
    <2> HIDE DEF Good, Left0
    <2>3. Good(Left0(0), results[0])
        BY <2>1, <2>2
    <2> QED
        BY <1>1, <2>3
<1>5. ASSUME NEW n \in 1..N, n - 1 \in S
      PROVE  n \in S
    <2> HIDE DEF Good
    <2>1. Good(Left0(n - 1), results[n - 1])
        BY <1>5
    <2>2. results[n] = restore_fd(results[n - 1].s, back[n])
        <3>1. results[n - 1].ok
            BY <2>1 DEF Good
        <3> QED
            BY <1>3, <3>1 DEF OfRestore!Chain
    <2>3. back[n] \in Left0(n - 1)
        BY <1>1
    <2>4. Left0(n) = Drop(Left0(n - 1), back[n])
        BY <1>1 DEF Drop
    <2> HIDE DEF Left0
    <2>5. Good(Left0(n), results[n])
        BY <1>2, <2>1, <2>2, <2>3, <2>4
    <2> QED
        BY <2>5
<1> HIDE DEF Good, Left0
<1>6. S = 0..N
    <2> HIDE DEF S
    <2>1. S \in SUBSET (0..N)
        BY DEF S
    <2> QED
        BY <1>1, <1>4, <1>5, <2>1, OfSave!UpTo
<1>7. N \in S
    BY <1>1, <1>6
<1>8. Left0(N) = {}
    BY <1>1 DEF Left0
<1>9. results[N] = restore_all_fds(t, back)
    BY <1>3 DEF OfRestore!Chain
<1>10. Good({}, restore_all_fds(t, back))
    BY <1>7, <1>8, <1>9
<1> QED
    BY <1>10 DEF Good

-----------------------------------------------------------------------------
(* Redirections keep it: those of a builtin, and those of the shell itself *)

LEMMA ForBuiltinKeeps ==
    ASSUME NEW a, NEW t, NEW own, NEW lent, Held(a, t, own, lent), NEW r, r.op \in Operators,
           NEW u, u = ApplyForBuiltin(t, r).s
    PROVE  Held(a, u, own, lent) /\ u.saved_fds = t.saved_fds /\ u.child = t.child
<1>1. CASE r.op \in {"<", ">", ">|", ">>", "<>"}
    <2>1. u = open_fd(t, r.fd, r.file, r.op # "<").s
        BY <1>1 DEF ApplyForBuiltin
    <2> QED
        BY <2>1, OpenKeeps
<1>2. CASE r.op = "dup"
    <2>1. u = duplicate_fd(t, r.source, r.fd).s
        BY <1>2 DEF ApplyForBuiltin
    <2>2. CASE r.source = r.fd \/ get_raw_fd(t, r.source) = NoRaw
        <3>1. u = t
            BY <2>1, <2>2 DEF duplicate_fd, Ok, Failed
        <3> QED
            BY <3>1
    <2>3. CASE ~(r.source = r.fd \/ get_raw_fd(t, r.source) = NoRaw)
        <3> DEFINE copy == Descriptor("Duplicate", get_raw_fd(t, r.source))
        <3>1. u = Insert(t, r.fd, copy)
            BY <2>1, <2>3 DEF duplicate_fd, Ok
        <3>2. copy.kind # "File"
            BY DEF Descriptor
        <3> QED
            BY <3>1, <3>2, InsertOtherKeeps
    <2> QED
        BY <2>2, <2>3
<1>3. CASE r.op = "close"
    <2> DEFINE closed == Descriptor("Closed", NoRaw)
    <2>1. u = Insert(t, r.fd, closed)
        BY <1>3 DEF ApplyForBuiltin, close_fd, Ok
    <2>2. closed.kind # "File"
        BY DEF Descriptor
    <2> QED
        BY <2>1, <2>2, InsertOtherKeeps
<1>4. CASE r.op = "<<"
    <2>1. u = t
        BY <1>4 DEF ApplyForBuiltin, Ok
    <2> QED
        BY <2>1
<1> QED
    BY <1>1, <1>2, <1>3, <1>4 DEF Operators

LEMMA AllForBuiltinKeep ==
    ASSUME NEW a, NEW t, NEW own, NEW lent, Held(a, t, own, lent), NEW rs, Len(rs) \in Nat,
           \A i \in 1..Len(rs) : rs[i].op \in Operators,
           NEW u, u = InOrder(rs, t, ApplyForBuiltin).s
    PROVE  Held(a, u, own, lent) /\ u.saved_fds = t.saved_fds /\ u.child = t.child
<1> DEFINE N == Len(rs)
           last == InOrder(rs, t, ApplyForBuiltin)
           Good(v) == Held(a, v, own, lent) /\ v.saved_fds = t.saved_fds /\ v.child = t.child
<1>1. PICK results : OfApplyForBuiltin!Chain(rs, Ok(t), last, results)
    BY AppliesForBuiltin
<1> DEFINE S == {n \in 0..N : Good(results[n].s)}
<1>2. 0 \in S
    BY <1>1 DEF OfApplyForBuiltin!Chain, Ok
<1>3. ASSUME NEW n \in 1..N, n - 1 \in S
      PROVE  n \in S
    <2>1. Good(results[n - 1].s)
        BY <1>3
    <2>2. CASE results[n - 1].ok
        <3>1. results[n] = ApplyForBuiltin(results[n - 1].s, rs[n])
            BY <1>1, <2>2 DEF OfApplyForBuiltin!Chain
        <3>2. Good(results[n].s)
            BY <2>1, <3>1, ForBuiltinKeeps
        <3> QED
            BY <3>2
    <2>3. CASE ~results[n - 1].ok
        BY <1>1, <2>1, <2>3 DEF OfApplyForBuiltin!Chain
    <2> QED
        BY <2>2, <2>3
<1> HIDE DEF Good
<1>4. N \in S
    <2>1. S = 0..N
        <3> HIDE DEF S
        <3>1. S \in SUBSET (0..N)
            BY DEF S
        <3> QED
            BY <1>2, <1>3, <3>1, OfSave!UpTo
    <2> QED
        BY <2>1
<1>5. results[N] = last
    BY <1>1 DEF OfApplyForBuiltin!Chain
<1>6. Good(last.s)
    BY <1>4, <1>5
<1> QED
    BY <1>6 DEF Good

\* A plain redirection of the shell's own: the standard descriptor is opened
\* on what the table's File is open on.
LEMMA OnFileAndKernelKeeps ==
    ASSUME NEW a, NEW t, NEW own, NEW lent, Held(a, t, own, lent), NEW r, r.fd \in own,
           NEW creating, CanOpen(t, r.file, creating), NEW u, u = OnFileAndKernel(t, r, creating)
    PROVE  /\ Held(a, u, own, Plus(lent, Lowest(t.open)))
           /\ u.saved_fds = t.saved_fds /\ u.child = t.child
           /\ DOMAIN u.fds \subseteq Plus(DOMAIN t.fds, r.fd)
<1> DEFINE v == Opened(t, r.file)
           w == OnFile(t, r, creating)
           raw == get_raw_fd(w, r.fd)
           lent2 == Plus(lent, Lowest(t.open))
<1>1. Held(a, v, own, lent2)
    BY OpenedLends DEF Plus
<1>2. v.saved_fds = t.saved_fds /\ v.child = t.child /\ v.fds = t.fds /\ v.exists = t.exists
    BY OpenedFields DEF Held, KernelOK
<1>3. CanOpen(v, r.file, creating)
    BY <1>2 DEF CanOpen, Exists
<1>4. w = open_fd(v, r.fd, r.file, creating).s
    BY DEF OnFile
<1> HIDE DEF v, w, lent2
<1>5. /\ Held(a, w, own, lent2)
      /\ w.saved_fds = v.saved_fds /\ w.child = v.child
      /\ DOMAIN w.fds \subseteq DOMAIN v.fds \cup {r.fd}
      /\ r.fd \in Files(w)
    BY <1>1, <1>3, <1>4, OpenKeeps
<1>6. raw \in DOMAIN w.open
    <2>1. raw = w.fds[r.fd].raw
        BY <1>5 DEF get_raw_fd, Files
    <2> QED
        BY <1>5, <2>1 DEF Held, Accounted
<1>7. u = Dup2(w, raw, r.fd)
    BY DEF OnFileAndKernel, w
<1> HIDE DEF raw
<1>8. Held(a, u, own, lent2) /\ u.fds = w.fds /\ u.saved_fds = w.saved_fds /\ u.child = w.child
    BY <1>5, <1>6, <1>7, Dup2Keeps
<1> QED
    BY <1>2, <1>5, <1>8 DEF Plus, lent2

\* A number that was lent for a moment.
LEMMA ReturnsOne ==
    ASSUME NEW a, NEW t, NEW own, NEW lent, Held(a, t, own, lent), NEW n, n \notin lent,
           NEW w, Held(a, w, own, Plus(lent, n)), NEW u, u = Close(w, {n})
    PROVE  /\ Held(a, u, own, lent)
           /\ u.fds = w.fds /\ u.saved_fds = w.saved_fds /\ u.child = w.child
<1>1. {n} \subseteq Plus(lent, n) /\ Plus(lent, n) \ {n} = lent
    BY DEF Plus
<1>2. Held(a, u, own, Plus(lent, n) \ {n})
    <2> DEFINE S == {n}
    <2>1. S \subseteq Plus(lent, n) /\ u = Close(w, S)
        BY <1>1
    <2> HIDE DEF S
    <2>2. Held(a, u, own, Plus(lent, n) \ S)
        BY <2>1, CloseReturns
    <2> QED
        BY <2>2 DEF S
<1>3. IsState(w)
    BY DEF Held, KernelOK
<1>4. u.fds = w.fds /\ u.saved_fds = w.saved_fds /\ u.child = w.child
    BY ONLY <1>3, CloseFields, u = Close(w, {n})
<1> QED
    BY <1>1, <1>2, <1>4

LEMMA LowestNotLent ==
    ASSUME NEW a, NEW t, NEW own, NEW lent, Held(a, t, own, lent)
    PROVE  Lowest(t.open) \notin lent
<1>1. lent \subseteq DOMAIN t.open
    BY DEF Held, Accounted
<1>2. Lowest(t.open) \notin DOMAIN t.open
    BY FreshNumber
<1> QED
    BY ONLY <1>1, <1>2, Zenon

LEMMA OnFileAndBack ==
    ASSUME NEW a, NEW t, NEW own, NEW lent, Held(a, t, own, lent), NEW r, r.fd \in own,
           NEW creating, CanOpen(t, r.file, creating),
           NEW u, u = Close(OnFileAndKernel(t, r, creating), {Handle(t)})
    PROVE  /\ Held(a, u, own, lent)
           /\ u.saved_fds = t.saved_fds /\ u.child = t.child
           /\ DOMAIN u.fds \subseteq Plus(DOMAIN t.fds, r.fd)
<1> DEFINE w == OnFileAndKernel(t, r, creating)
           n == Lowest(t.open)
<1>1. /\ Held(a, w, own, Plus(lent, n))
      /\ w.saved_fds = t.saved_fds /\ w.child = t.child
      /\ DOMAIN w.fds \subseteq Plus(DOMAIN t.fds, r.fd)
    BY OnFileAndKernelKeeps
<1>2. n \notin lent
    BY LowestNotLent
<1>3. u = Close(w, {n})
    BY DEF Handle
<1> HIDE DEF w, n
<1>4. Held(a, u, own, lent) /\ u.fds = w.fds /\ u.saved_fds = w.saved_fds /\ u.child = w.child
    BY <1>1, <1>2, <1>3, ReturnsOne
<1> QED
    BY <1>1, <1>4

Standard == 0..2

LEMMA ToShellKeeps ==
    ASSUME NEW a, NEW t, NEW lent, Held(a, t, Standard, lent), DOMAIN t.fds \subseteq Standard,
           NEW r, Plain(r), NEW u, u = ApplyToShell(t, r).s
    PROVE  /\ Held(a, u, Standard, lent)
           /\ u.saved_fds = t.saved_fds /\ u.child = t.child /\ DOMAIN u.fds \subseteq Standard
<1>1. r.fd \in Standard
    BY DEF Plain, Standard
<1>2. CASE r.op = "<"
    <2>1. r.fd = 0 /\ u = apply_input_redirection(t, r, FALSE).s
        BY <1>2 DEF Plain, Writes, ApplyToShell, Apply
    <2>2. CASE ~CanOpen(t, r.file, FALSE)
        BY <2>1, <2>2 DEF apply_input_redirection, Failed
    <2>3. CASE CanOpen(t, r.file, FALSE)
        <3> DEFINE creating == FALSE
        <3>1. u = Close(OnFileAndKernel(t, r, creating), {Handle(t)}) /\ CanOpen(t, r.file, creating)
            BY <2>1, <2>3 DEF apply_input_redirection, Ok
        <3> HIDE DEF creating
        <3>2. /\ Held(a, u, Standard, lent)
              /\ u.saved_fds = t.saved_fds /\ u.child = t.child
              /\ DOMAIN u.fds \subseteq Plus(DOMAIN t.fds, r.fd)
            <4>1. Held(a, t, Standard, lent) /\ r.fd \in Standard
                BY <1>1
            <4> QED
                BY ONLY <3>1, <4>1, OnFileAndBack
        <3> QED
            BY <1>1, <3>2 DEF Plus
    <2> QED
        BY <2>2, <2>3
<1>3. CASE Writes(r)
    <2>1. u = apply_output_redirection(t, r, FALSE).s
        BY <1>3 DEF Writes, ApplyToShell, Apply
    <2> DEFINE v == Created(t, r.file)
    <2>2. Held(a, v, Standard, lent) /\ v.open = t.open /\ v.fds = t.fds /\ v.saved_fds = t.saved_fds /\ v.child = t.child
        BY CreatedKeeps
    <2>3. CASE Refused(t, r) \/ ~CanOpen(t, r.file, TRUE)
        BY <2>1, <2>3 DEF apply_output_redirection, Failed
    <2>4. CASE ~(Refused(t, r) \/ ~CanOpen(t, r.file, TRUE)) /\ Refused(v, r)
        <3>1. u = v
            BY <2>1, <2>4 DEF apply_output_redirection, Failed
        <3> QED
            BY <2>2, <3>1
    <2>5. CASE ~(Refused(t, r) \/ ~CanOpen(t, r.file, TRUE)) /\ ~Refused(v, r)
        <3> DEFINE creating == TRUE
        <3>1. u = Close(OnFileAndKernel(v, r, creating), {Handle(v)})
            BY <2>1, <2>2, <2>5 DEF apply_output_redirection, Ok, Handle
        <3>2. CanOpen(v, r.file, creating)
            BY <2>5 DEF CanOpen
        <3> HIDE DEF v, creating
        <3>3. Held(a, v, Standard, lent) /\ r.fd \in Standard
            BY <1>1, <2>2
        <3>4. /\ Held(a, u, Standard, lent)
              /\ u.saved_fds = v.saved_fds /\ u.child = v.child
              /\ DOMAIN u.fds \subseteq Plus(DOMAIN v.fds, r.fd)
            BY ONLY <3>1, <3>2, <3>3, OnFileAndBack
        <3> QED
            BY <1>1, <2>2, <3>4 DEF Plus
    <2> QED
        BY <2>3, <2>4, <2>5
<1> QED
    BY <1>2, <1>3 DEF Plain

AllToShell(rs, s) == apply_redirections(rs, s, FALSE)

LEMMA AllToShellKeep ==
    ASSUME NEW a, NEW t, NEW lent, Held(a, t, Standard, lent), DOMAIN t.fds \subseteq Standard,
           NEW rs, Len(rs) \in Nat, \A i \in 1..Len(rs) : Plain(rs[i]),
           NEW u, u = AllToShell(rs, t).s
    PROVE  /\ Held(a, u, Standard, lent)
           /\ u.saved_fds = t.saved_fds /\ u.child = t.child /\ DOMAIN u.fds \subseteq Standard
<1> DEFINE N == Len(rs)
           last == AllToShell(rs, t)
           Good(v) == /\ Held(a, v, Standard, lent)
                      /\ v.saved_fds = t.saved_fds /\ v.child = t.child /\ DOMAIN v.fds \subseteq Standard
<1>1. PICK results : OfApplyToShell!Chain(rs, Ok(t), last, results)
    BY AppliesToShell DEF AllToShell
<1> DEFINE S == {n \in 0..N : Good(results[n].s)}
<1>2. 0 \in S
    <2>1. results[0].s = t
        BY <1>1 DEF OfApplyToShell!Chain, Ok
    <2>2. Good(results[0].s)
        BY <2>1
    <2> HIDE DEF Good
    <2> QED
        BY <2>2
<1>3. ASSUME NEW n \in 1..N, n - 1 \in S
      PROVE  n \in S
    <2>1. Good(results[n - 1].s)
        BY <1>3
    <2>2. Good(results[n].s)
        <3>1. CASE results[n - 1].ok
            <4>1. results[n] = ApplyToShell(results[n - 1].s, rs[n])
                BY <1>1, <3>1 DEF OfApplyToShell!Chain
            <4>2. Plain(rs[n])
                OBVIOUS
            <4> QED
                BY <2>1, <4>1, <4>2, ToShellKeeps
        <3>2. CASE ~results[n - 1].ok
            <4>1. results[n] = results[n - 1]
                BY <1>1, <3>2 DEF OfApplyToShell!Chain
            <4> QED
                BY <2>1, <4>1
        <3> QED
            BY <3>1, <3>2
    <2> HIDE DEF Good
    <2> QED
        BY <2>2
<1> HIDE DEF Good
<1>4. N \in S
    <2>1. S = 0..N
        <3> HIDE DEF S
        <3>1. S \in SUBSET (0..N)
            BY DEF S
        <3> QED
            BY <1>2, <1>3, <3>1, OfSave!UpTo
    <2> QED
        BY <2>1
<1>5. results[N] = last
    BY <1>1 DEF OfApplyToShell!Chain
<1>6. Good(last.s)
    BY <1>4, <1>5
<1> QED
    BY <1>6 DEF Good

-----------------------------------------------------------------------------
(* A builtin, and what a group or a stage does before its body             *)

LEMMA SaveAllStandard ==
    ASSUME NEW a, NEW t, NEW lent, Held(a, t, {}, lent),
           DOMAIN t.fds \subseteq Standard, DOMAIN t.saved_fds \subseteq Standard,
           NEW order \in Orders(t.fds), NEW saved, saved = save_all_fds(t, order)
    PROVE  /\ saved.ok
           /\ Held(a, saved.s, Standard, lent)
           /\ saved.s.fds = t.fds /\ saved.s.child = t.child
           /\ DOMAIN saved.s.saved_fds = Standard
           /\ Unmoved(t, saved.s)
BY SaveAllKeeps DEF Standard

\* A table without entries.
LEMMA NoEntries ==
    ASSUME NEW t, IsState(t)
    PROVE  /\ DOMAIN t.fds = {} => t.fds = <<>>
           /\ DOMAIN t.saved_fds = {} => t.saved_fds = <<>>
<1>1. \A f : IsFunction(f) /\ DOMAIN f = {} => f = <<>>
    BY DEF IsFunction
<1> QED
    BY <1>1 DEF IsState

LEMMA RestoreAllStandard ==
    ASSUME NEW a, NEW t, NEW lent, Held(a, t, Standard, lent), DOMAIN t.saved_fds = Standard,
           NEW back \in Orders(t.saved_fds), NEW u, u = restore_all_fds(t, back).s
    PROVE  /\ Held(a, u, {}, lent)
           /\ u.saved_fds = <<>>
           /\ \A fd \in DOMAIN u.fds : fd \in DOMAIN t.fds /\ fd \notin Standard
           /\ u.child = t.child
<1>1. /\ Held(a, u, {}, lent)
      /\ DOMAIN u.saved_fds = {}
      /\ \A fd \in DOMAIN u.fds : fd \in DOMAIN t.fds /\ fd \notin Standard
      /\ u.child = t.child
    BY RestoreAllKeeps
<1>2. IsState(u)
    BY <1>1 DEF Held, KernelOK
<1> QED
    BY <1>1, <1>2, NoEntries

AllForBuiltin(rs, s) == InOrder(rs, s, ApplyForBuiltin)

GivenBack(a, t, lent, u) ==
    /\ Held(a, u, {}, lent)
    /\ u.saved_fds = <<>>
    /\ \A fd \in DOMAIN u.fds : fd \notin Standard
    /\ u.child = t.child

\* Whatever its redirections are, and whichever of them fails, a builtin that
\* is run when nothing is saved leaves what was open as it was.
LEMMA BuiltinKeeps ==
    ASSUME NEW a, NEW t, NEW lent, Held(a, t, {}, lent),
           DOMAIN t.fds \subseteq Standard, DOMAIN t.saved_fds \subseteq Standard,
           NEW order \in Orders(t.fds), NEW rs, Len(rs) \in Nat, \A i \in 1..Len(rs) : rs[i].op \in Operators,
           NEW applied, applied = AllForBuiltin(rs, save_all_fds(t, order).s),
           NEW back \in Orders(applied.s.saved_fds), NEW u, u = restore_all_fds(applied.s, back).s
    PROVE  /\ save_all_fds(t, order).ok
           /\ GivenBack(a, t, lent, u)
<1> DEFINE saved == save_all_fds(t, order)
<1>1. /\ saved.ok /\ Held(a, saved.s, Standard, lent) /\ saved.s.child = t.child
      /\ DOMAIN saved.s.saved_fds = Standard
    BY SaveAllStandard
<1>2. applied.s = InOrder(rs, saved.s, ApplyForBuiltin).s
    BY DEF AllForBuiltin
<1> HIDE DEF saved
<1>3. Held(a, applied.s, Standard, lent) /\ applied.s.saved_fds = saved.s.saved_fds /\ applied.s.child = saved.s.child
    BY <1>1, <1>2, AllForBuiltinKeep
<1>4. DOMAIN applied.s.saved_fds = Standard
    BY <1>1, <1>3
<1>5. /\ Held(a, u, {}, lent) /\ u.saved_fds = <<>>
      /\ \A fd \in DOMAIN u.fds : fd \in DOMAIN applied.s.fds /\ fd \notin Standard
      /\ u.child = applied.s.child
    BY <1>3, <1>4, RestoreAllStandard
<1>6. saved.ok
    BY <1>1
<1> QED
    BY <1>1, <1>3, <1>5 DEF saved, GivenBack

LEMMA PreparedKeeps ==
    ASSUME NEW a, NEW t, NEW lent, Held(a, t, {}, lent),
           DOMAIN t.fds \subseteq Standard, DOMAIN t.saved_fds \subseteq Standard,
           NEW rs, Len(rs) \in Nat, \A i \in 1..Len(rs) : Plain(rs[i]),
           NEW hook, hook = NoRaw \/ hook \in lent,
           NEW prepared \in Prepared(t, rs, hook)
    PROVE  /\ prepared.s.child = t.child
           /\ prepared.ok => /\ Held(a, prepared.s, Standard, lent)
                             /\ DOMAIN prepared.s.fds \subseteq Standard
                             /\ DOMAIN prepared.s.saved_fds = Standard
           /\ ~prepared.ok => /\ Held(a, prepared.s, {}, lent)
                              /\ prepared.s.fds = <<>> /\ prepared.s.saved_fds = <<>>
<1> DEFINE saved(order) == save_all_fds(t, order)
           hooked(order) == IF hook # NoRaw THEN Dup2(saved(order).s, hook, 0) ELSE saved(order).s
           applied(order) == apply_redirections(rs, hooked(order), FALSE)
           outcomes(order) == IF ~saved(order).ok \/ applied(order).ok
                              THEN {IF saved(order).ok THEN applied(order) ELSE saved(order)}
                              ELSE {Failed(restore_all_fds(applied(order).s, back).s) :
                                       back \in Orders(applied(order).s.saved_fds)}
<1>1. Prepared(t, rs, hook) = UNION {outcomes(order) : order \in Orders(t.fds)}
    BY DEF Prepared
<1> HIDE DEF outcomes
<1>2. PICK order \in Orders(t.fds) : prepared \in outcomes(order)
    BY <1>1
<1> DEFINE sv == saved(order)
           hk == hooked(order)
           ap == applied(order)
<1>3. /\ sv.ok /\ Held(a, sv.s, Standard, lent) /\ sv.s.fds = t.fds /\ sv.s.child = t.child
      /\ DOMAIN sv.s.saved_fds = Standard
    BY SaveAllStandard
<1>4. prepared \in IF ~sv.ok \/ ap.ok THEN {IF sv.ok THEN ap ELSE sv}
                   ELSE {Failed(restore_all_fds(ap.s, back).s) : back \in Orders(ap.s.saved_fds)}
    BY <1>2 DEF outcomes
<1>5. hk = IF hook # NoRaw THEN Dup2(sv.s, hook, 0) ELSE sv.s
    OBVIOUS
<1>6. ap = apply_redirections(rs, hk, FALSE)
    OBVIOUS
<1> HIDE DEF sv, hk, ap, saved, hooked, applied
<1>7. Held(a, hk, Standard, lent) /\ hk.fds = sv.s.fds /\ hk.saved_fds = sv.s.saved_fds /\ hk.child = sv.s.child
    <2>1. CASE hook = NoRaw
        BY <1>3, <1>5, <2>1
    <2>2. CASE hook # NoRaw
        <3>1. hook \in DOMAIN sv.s.open
            BY <1>3, <2>2 DEF Held, Accounted
        <3>2. hk = Dup2(sv.s, hook, 0)
            BY <1>5, <2>2
        <3>3. 0 \in Standard
            BY DEF Standard
        <3> QED
            BY <1>3, <3>1, <3>2, <3>3, Dup2Keeps
    <2> QED
        BY <2>1, <2>2
<1>8. DOMAIN hk.fds \subseteq Standard
    BY <1>3, <1>7
<1>9. /\ Held(a, ap.s, Standard, lent) /\ ap.s.saved_fds = hk.saved_fds /\ ap.s.child = hk.child
      /\ DOMAIN ap.s.fds \subseteq Standard
    <2>1. ap.s = AllToShell(rs, hk).s
        BY <1>6 DEF AllToShell
    <2>2. Held(a, hk, Standard, lent)
        BY <1>7
    <2> QED
        BY <1>8, <2>1, <2>2, AllToShellKeep
<1>10. DOMAIN ap.s.saved_fds = Standard
    BY <1>3, <1>7, <1>9
<1>11. CASE ap.ok
    <2>1. prepared = ap
        BY <1>3, <1>4, <1>11
    <2> QED
        BY <1>3, <1>7, <1>9, <1>10, <1>11, <2>1
<1>12. CASE ~ap.ok
    <2>1. PICK back \in Orders(ap.s.saved_fds) : prepared = Failed(restore_all_fds(ap.s, back).s)
        BY <1>3, <1>4, <1>12
    <2> DEFINE u == restore_all_fds(ap.s, back).s
    <2>2. /\ Held(a, u, {}, lent) /\ u.saved_fds = <<>>
          /\ \A fd \in DOMAIN u.fds : fd \in DOMAIN ap.s.fds /\ fd \notin Standard
          /\ u.child = ap.s.child
        BY <1>9, <1>10, RestoreAllStandard
    <2>3. prepared.s = u /\ ~prepared.ok
        BY <2>1 DEF Failed
    <2> HIDE DEF u
    <2>4. DOMAIN u.fds = {}
        BY <1>9, <2>2
    <2>5. u.fds = <<>>
        BY <2>2, <2>4, NoEntries DEF Held, KernelOK
    <2> QED
        BY <1>3, <1>7, <1>9, <2>2, <2>3, <2>5
<1> QED
    BY <1>11, <1>12

-----------------------------------------------------------------------------
(* The table of a subshell: every File is a duplicate of its own           *)

OfClone == INSTANCE OneAfterAnother WITH Step <- CloneOf

LEMMA ClonesInOrder ==
    ASSUME NEW order, Len(order) \in Nat, NEW s
    PROVE  \E results : OfClone!Chain(order, Ok(s), deep_clone(s, order), results)
<1>1. deep_clone(s, order) = OfClone!LastResult(order, Ok(s))
    BY DEF InOrder, OfClone!LastResult, OfClone!Results, deep_clone
<1> QED
    BY <1>1, OfClone!ResultsInOrder

\* A state with some of the entries of its table.
Only(s, C) == [s EXCEPT !.fds = [fd \in C |-> s.fds[fd]]]

LEMMA OnlyFields ==
    ASSUME NEW s, IsState(s), NEW C, NEW u, u = Only(s, C)
    PROVE  /\ IsState(u)
           /\ u.open = s.open /\ u.cloexec = s.cloexec /\ u.saved_fds = s.saved_fds /\ u.child = s.child
           /\ DOMAIN u.fds = C /\ \A fd \in C : u.fds[fd] = s.fds[fd]
<1>1. IsFunction([fd \in C |-> s.fds[fd]])
    BY DEF IsFunction
<1> QED
    BY <1>1 DEF Only, IsState

\* At first none of the Files is a duplicate.
LEMMA NoneCloned ==
    ASSUME NEW a, KernelOK(a), NEW u, u = Only(a, {})
    PROVE  Held(a, u, {}, {})
<1> DEFINE C == {}
<1>1. u = Only(a, C) /\ IsState(a)
    BY DEF KernelOK
<1> HIDE DEF C
<1>2. /\ IsState(u) /\ u.open = a.open /\ u.cloexec = a.cloexec
      /\ DOMAIN u.fds = C
    BY <1>1, OnlyFields
<1>3. Files(u) = {}
    BY <1>2 DEF Files, C
<1> QED
    BY <1>2, <1>3 DEF Held, Accounted, Contents, KernelOK

LEMMA CloneKeeps ==
    ASSUME NEW a, NEW v, IsState(v), NEW C, C \subseteq Files(v), Held(a, Only(v, C), {}, {}),
           NEW fd \in Files(v), fd \notin C, CloneOf(v, fd).ok, NEW u, u = CloneOf(v, fd).s
    PROVE  /\ IsState(u)
           /\ Held(a, Only(u, Plus(C, fd)), {}, {})
           /\ Files(u) = Files(v) /\ DOMAIN u.fds = DOMAIN v.fds
           /\ u.saved_fds = v.saved_fds /\ u.child = v.child
<1> DEFINE n == Lowest(v.open)
           content == v.open[v.fds[fd].raw]
           w == Opened(v, content)
           new == Descriptor("File", n)
           before == Only(v, C)
           after == Only(u, Plus(C, fd))
<1>1. u = [w EXCEPT !.fds = With(w.fds, fd, new)]
    BY DEF CloneOf, Ok, Failed, Files
<1>2. /\ IsState(w) /\ w.open = With(v.open, n, content) /\ w.cloexec = Plus(v.cloexec, n)
      /\ w.fds = v.fds /\ w.saved_fds = v.saved_fds /\ w.child = v.child
    BY OpenedFields
<1>3. new.kind = "File" /\ new.raw = n
    BY DEF Descriptor
<1> HIDE DEF w, new
<1>4. IsFunction(With(w.fds, fd, new))
    BY WithFacts
<1>5. /\ IsState(u) /\ u.open = w.open /\ u.cloexec = w.cloexec /\ u.fds = With(w.fds, fd, new)
      /\ u.saved_fds = w.saved_fds /\ u.child = w.child
    BY <1>1, <1>2, <1>4 DEF IsState
<1>6. /\ DOMAIN u.fds = DOMAIN v.fds /\ u.fds[fd] = new
      /\ \A f \in DOMAIN v.fds : f # fd => u.fds[f] = v.fds[f]
    BY <1>2, <1>5 DEF With, Files
<1>7. Files(u) = Files(v)
    BY <1>3, <1>6 DEF Files
<1>8. /\ before.open = v.open /\ before.cloexec = v.cloexec /\ before.saved_fds = v.saved_fds
      /\ DOMAIN before.fds = C /\ \A f \in C : before.fds[f] = v.fds[f]
    BY OnlyFields
<1>9. /\ IsState(after) /\ after.open = u.open /\ after.cloexec = u.cloexec /\ after.saved_fds = u.saved_fds
      /\ DOMAIN after.fds = Plus(C, fd) /\ \A f \in Plus(C, fd) : after.fds[f] = u.fds[f]
    BY <1>5, OnlyFields
<1>10. Held(a, before, {}, {})
    OBVIOUS
<1> HIDE DEF before, after
<1>11. n \in Nat /\ n \notin DOMAIN before.open
    <2>1. n = Lowest(before.open)
        BY <1>8
    <2> QED
        BY <1>10, <2>1, FreshNumber
<1> HIDE DEF n, content
<1>12. Files(before) = C
    BY <1>8 DEF Files
<1>13. Files(after) = Plus(C, fd)
    BY <1>3, <1>6, <1>9 DEF Files, Plus
<1>14. after.fds[fd].raw = n /\ \A f \in C : after.fds[f] = before.fds[f]
    BY <1>3, <1>6, <1>8, <1>9 DEF Files, Plus
<1>15. fd \notin Files(before) /\ Files(after) = Plus(Files(before), fd) /\ \A f \in Files(before) : after.fds[f] = before.fds[f]
    BY <1>12, <1>13, <1>14
<1>16. after.open = With(before.open, n, content) /\ after.cloexec = Plus(before.cloexec, n) /\ after.saved_fds = before.saved_fds
    BY <1>2, <1>5, <1>8, <1>9
<1>17. Held(a, after, {}, {})
    BY ONLY <1>9, <1>10, <1>11, <1>14, <1>15, <1>16, FileAdded
<1>18. Held(a, Only(u, Plus(C, fd)), {}, {})
    BY ONLY <1>17 DEF after
<1> QED
    BY ONLY <1>2, <1>5, <1>6, <1>7, <1>18

LEMMA CloneAllKeeps ==
    ASSUME NEW t, KernelOK(t), DOMAIN t.fds \subseteq 0..2, NEW order \in Orders(t.fds),
           deep_clone(t, order).ok, NEW u, u = deep_clone(t, order).s
    PROVE  /\ Held(t, u, {}, {})
           /\ DOMAIN u.fds = DOMAIN t.fds /\ u.saved_fds = t.saved_fds /\ u.child = t.child
<1> DEFINE N == Len(order)
           last == deep_clone(t, order)
           Cloned(n) == {fd \in Files(t) : \E i \in 1..n : order[i] = fd}
           Good(C, r) == r.ok => /\ IsState(r.s) /\ Held(t, Only(r.s, C), {}, {})
                                 /\ Files(r.s) = Files(t) /\ DOMAIN r.s.fds = DOMAIN t.fds
                                 /\ r.s.saved_fds = t.saved_fds /\ r.s.child = t.child
<1>1. /\ N \in Nat
      /\ \A i \in 1..N : order[i] \in DOMAIN t.fds
      /\ \A i, j \in 1..N : order[i] = order[j] => i = j
      /\ \A x \in DOMAIN t.fds : \E i \in 1..N : order[i] = x
    <2>1. DOMAIN t.fds \subseteq 0..2 /\ order \in Orders(t.fds)
        OBVIOUS
    <2> QED
        BY ONLY <2>1, OrderFacts
<1>2. PICK results : OfClone!Chain(order, Ok(t), last, results)
    BY <1>1, ClonesInOrder
<1> DEFINE S == {n \in 0..N : Good(Cloned(n), results[n])}
<1>3. 0 \in S
    <2>1. results[0].s = t /\ Cloned(0) = {}
        BY <1>2 DEF OfClone!Chain, Ok
    <2>2. Held(t, Only(t, {}), {}, {}) /\ IsState(t)
        BY NoneCloned DEF KernelOK
    <2>3. Good(Cloned(0), results[0])
        BY <2>1, <2>2
    <2> HIDE DEF Good, Cloned
    <2> QED
        BY <1>1, <2>3
<1>4. ASSUME NEW n \in 1..N, n - 1 \in S
      PROVE  n \in S
    <2> DEFINE before == results[n - 1]
    <2>1. Good(Cloned(n - 1), before)
        BY <1>4
    <2>2. Good(Cloned(n), results[n])
        <3>1. CASE ~before.ok
            <4>1. results[n] = before
                BY <1>2, <3>1 DEF OfClone!Chain
            <4> QED
                BY <3>1, <4>1
        <3>2. CASE before.ok /\ order[n] \in Files(t)
            <4>1. results[n] = CloneOf(before.s, order[n])
                BY <1>2, <3>2 DEF OfClone!Chain
            <4>2. order[n] \notin Cloned(n - 1) /\ Cloned(n) = Plus(Cloned(n - 1), order[n])
                BY <1>1, <3>2 DEF Plus
            <4>3. Cloned(n - 1) \subseteq Files(before.s)
                BY <2>1, <3>2
            <4>4. /\ IsState(before.s) /\ Held(t, Only(before.s, Cloned(n - 1)), {}, {})
                  /\ order[n] \in Files(before.s)
                BY <2>1, <3>2
            <4> HIDE DEF Cloned, before
            <4>5. CASE results[n].ok
                <5> DEFINE v == results[n].s
                <5>1. CloneOf(before.s, order[n]).ok /\ v = CloneOf(before.s, order[n]).s
                    BY <4>1, <4>5
                <5> HIDE DEF v
                <5>2. /\ IsState(v)
                      /\ Held(t, Only(v, Plus(Cloned(n - 1), order[n])), {}, {})
                      /\ Files(v) = Files(before.s) /\ DOMAIN v.fds = DOMAIN before.s.fds
                      /\ v.saved_fds = before.s.saved_fds /\ v.child = before.s.child
                    BY <4>2, <4>3, <4>4, <5>1, CloneKeeps
                <5>3. Held(t, Only(v, Cloned(n)), {}, {})
                    BY <4>2, <5>2
                <5> QED
                    BY <2>1, <3>2, <5>2, <5>3 DEF v
            <4> QED
                BY <4>5
        <3>3. CASE before.ok /\ order[n] \notin Files(t)
            <4>1. results[n] = CloneOf(before.s, order[n])
                BY <1>2, <3>3 DEF OfClone!Chain
            <4>2. Cloned(n) = Cloned(n - 1)
                BY <1>1, <3>3
            <4>3. before.s.fds[order[n]].kind # "File"
                BY <1>1, <2>1, <3>3 DEF Files
            <4> HIDE DEF before
            <4>4. results[n] = Ok(before.s)
                BY ONLY <4>1, <4>3 DEF CloneOf
            <4> USE DEF before
            <4>5. results[n].s = before.s
                BY <4>4 DEF Ok
            <4> HIDE DEF Cloned, before
            <4> QED
                BY <2>1, <3>3, <4>2, <4>5
        <3> QED
            BY <3>1, <3>2, <3>3
    <2> HIDE DEF Good, Cloned
    <2> QED
        BY <2>2
<1> HIDE DEF Good, Cloned
<1>5. N \in S
    <2>1. S = 0..N
        <3> HIDE DEF S
        <3>1. S \in SUBSET (0..N)
            BY DEF S
        <3> QED
            BY <1>1, <1>3, <1>4, <3>1, OfSave!UpTo
    <2> QED
        BY <1>1, <2>1
<1>6. results[N] = last /\ Cloned(N) = Files(t)
    <2>1. Cloned(N) = Files(t)
        BY <1>1 DEF Cloned, Files
    <2> QED
        BY <1>2, <2>1 DEF OfClone!Chain
<1>7. Good(Files(t), last)
    BY <1>5, <1>6
<1>8. /\ IsState(u) /\ Held(t, Only(u, Files(t)), {}, {})
      /\ Files(u) = Files(t) /\ DOMAIN u.fds = DOMAIN t.fds
      /\ u.saved_fds = t.saved_fds /\ u.child = t.child
    BY <1>7 DEF Good
<1> DEFINE w == Only(u, Files(t))
<1>9. /\ w.open = u.open /\ w.cloexec = u.cloexec /\ w.saved_fds = u.saved_fds
      /\ DOMAIN w.fds = Files(t) /\ \A fd \in Files(t) : w.fds[fd] = u.fds[fd]
    BY <1>8, OnlyFields
<1>10. Held(t, w, {}, {})
    BY <1>8
<1> HIDE DEF w
<1>11. Files(w) = Files(u)
    BY <1>8, <1>9 DEF Files
<1>12. \A f \in Files(w) : u.fds[f].raw = w.fds[f].raw
    BY <1>8, <1>9, <1>11
<1>13. Held(t, u, {}, {})
    BY <1>8, <1>9, <1>10, <1>11, <1>12, HeldSame
<1> QED
    BY <1>8, <1>13

BackTo(a, t) == [clear(t) EXCEPT !.fds = a.fds, !.saved_fds = a.saved_fds]

\* The subshell's Files are closed, and the table of its parent comes back.
LEMMA ParentAgain ==
    ASSUME NEW a, NEW t, Held(a, t, {}, {}),
           NEW u, u = BackTo(a, t)
    PROVE  /\ IsState(u) /\ u.open = a.open /\ u.cloexec = a.cloexec
           /\ u.fds = a.fds /\ u.saved_fds = a.saved_fds /\ u.child = t.child
<1> DEFINE old == Owned(t, DOMAIN t.fds)
           t1 == [t EXCEPT !.fds = <<>>]
           t2 == [t1 EXCEPT !.saved_fds = <<>>]
           t3 == Close(t2, old)
           t4 == [t3 EXCEPT !.fds = a.fds]
<1>1. IsState(t) /\ IsState(a) /\ KernelOK(a) /\ KernelOK(t) /\ Accounted(a, t, {}, {}) /\ Contents(a, t, {})
    BY DEF Held, KernelOK
<1>2. IsFunction(<<>>)
    BY DEF IsFunction
<1>3. /\ IsState(t1) /\ t1.open = t.open /\ t1.cloexec = t.cloexec /\ t1.child = t.child
    BY <1>1, <1>2 DEF IsState
<1>4. clear(t) = Close([t1 EXCEPT !.saved_fds = <<>>], old)
    BY DEF clear
<1> HIDE DEF t1
<1>5. /\ IsState(t2) /\ t2.open = t.open /\ t2.cloexec = t.cloexec /\ t2.child = t.child
    BY <1>2, <1>3 DEF IsState
<1>6. clear(t) = t3
    BY <1>4
<1> HIDE DEF t2, old
<1>7. /\ IsState(t3) /\ t3.open = Without(t.open, old) /\ t3.cloexec = Minus(t.cloexec, old) /\ t3.child = t.child
    BY <1>5, CloseFields
<1>8. u = [t4 EXCEPT !.saved_fds = a.saved_fds]
    BY <1>6 DEF BackTo
<1> HIDE DEF t3
<1>9. /\ IsState(t4) /\ t4.open = t3.open /\ t4.cloexec = t3.cloexec /\ t4.child = t3.child /\ t4.fds = a.fds
    BY <1>1, <1>7 DEF IsState
<1> HIDE DEF t4
<1>10. /\ IsState(u) /\ u.open = t3.open /\ u.cloexec = t3.cloexec /\ u.child = t3.child
       /\ u.fds = a.fds /\ u.saved_fds = a.saved_fds
    BY <1>1, <1>8, <1>9 DEF IsState
<1>11. \A n : n \in old <=> \E fd \in Files(t) : n = t.fds[fd].raw
    BY DEF old, Owned, Files
<1>12. DOMAIN u.open = DOMAIN a.open
    <2>1. DOMAIN u.open = DOMAIN t.open \ old
        BY <1>7, <1>10 DEF Without, Restrict
    <2>2. \A n \in DOMAIN a.open : n \in DOMAIN t.open /\ ~(\E fd \in Files(t) : n = t.fds[fd].raw)
        BY <1>1 DEF Accounted
    <2>3. \A n \in DOMAIN t.open : n \in DOMAIN a.open \/ \E fd \in Files(t) : n = t.fds[fd].raw
        BY <1>1 DEF Accounted
    <2>4. \A n : n \in DOMAIN t.open /\ n \notin old <=> n \in DOMAIN a.open
        BY <1>11, <2>2, <2>3
    <2> QED
        BY <2>1, <2>4
<1>13. u.open = a.open
    <2>0. IsFunction(Without(t.open, old))
        BY WithoutFacts
    <2>1. IsFunction(u.open)
        BY <1>7, <1>10, <2>0
    <2>2. \A n \in DOMAIN a.open : u.open[n] = t.open[n]
        BY <1>7, <1>10, <1>12 DEF Without, Restrict
    <2>3. \A n \in DOMAIN a.open : u.open[n] = a.open[n]
        BY <1>1, <2>2 DEF Contents
    <2> QED
        BY <1>1, <1>12, <2>1, <2>3 DEF KernelOK, IsFunction
<1>14. u.cloexec = a.cloexec
    <2>1. u.cloexec = Minus(t.cloexec, old)
        BY <1>7, <1>10
    <2>2. \A n : n \in old => n \notin DOMAIN a.open
        BY <1>1, <1>11 DEF Accounted
    <2>3. \A n \in DOMAIN t.open : n \in DOMAIN a.open \/ n \in old
        BY <1>1, <1>11 DEF Accounted
    <2>4. \A n \in DOMAIN a.open : n \in t.cloexec <=> n \in a.cloexec
        BY <1>1 DEF Contents
    <2>5. t.cloexec \subseteq DOMAIN t.open /\ a.cloexec \subseteq DOMAIN a.open
        BY <1>1 DEF KernelOK
    <2> QED
        BY <2>1, <2>2, <2>3, <2>4, <2>5 DEF Minus
<1> QED
    BY <1>7, <1>10, <1>13, <1>14

-----------------------------------------------------------------------------
(* Output that is collected is written to files                            *)

OfWriteOutput == INSTANCE OneAfterAnother WITH Step <- WriteOutput

LEMMA WritesInOrder ==
    ASSUME NEW rs, Len(rs) \in Nat, NEW s
    PROVE  \E results : OfWriteOutput!Chain(rs, Ok(s), InOrder(rs, s, WriteOutput), results)
<1>1. InOrder(rs, s, WriteOutput) = OfWriteOutput!LastResult(rs, Ok(s))
    BY DEF InOrder, OfWriteOutput!LastResult, OfWriteOutput!Results
<1> QED
    BY <1>1, OfWriteOutput!ResultsInOrder

LEMMA WriteOutputKeeps ==
    ASSUME NEW a, NEW t, NEW own, NEW lent, Held(a, t, own, lent), NEW r, NEW u, u = WriteOutput(t, r).s
    PROVE  Held(a, u, own, lent) /\ u.fds = t.fds /\ u.saved_fds = t.saved_fds /\ u.child = t.child
<1>1. u = t \/ u = Created(t, r.file)
    BY DEF WriteOutput, Ok, Failed
<1> QED
    BY <1>1, CreatedKeeps

LEMMA AllOutputKeeps ==
    ASSUME NEW a, NEW t, NEW own, NEW lent, Held(a, t, own, lent), NEW rs, Len(rs) \in Nat,
           NEW u, u = InOrder(rs, t, WriteOutput).s
    PROVE  Held(a, u, own, lent) /\ u.fds = t.fds /\ u.saved_fds = t.saved_fds /\ u.child = t.child
<1> DEFINE N == Len(rs)
           last == InOrder(rs, t, WriteOutput)
           Good(v) == Held(a, v, own, lent) /\ v.fds = t.fds /\ v.saved_fds = t.saved_fds /\ v.child = t.child
<1>1. PICK results : OfWriteOutput!Chain(rs, Ok(t), last, results)
    BY WritesInOrder
<1> DEFINE S == {n \in 0..N : Good(results[n].s)}
<1>2. 0 \in S
    BY <1>1 DEF OfWriteOutput!Chain, Ok
<1>3. ASSUME NEW n \in 1..N, n - 1 \in S
      PROVE  n \in S
    <2>1. Good(results[n - 1].s)
        BY <1>3
    <2>2. CASE results[n - 1].ok
        <3>1. results[n] = WriteOutput(results[n - 1].s, rs[n])
            BY <1>1, <2>2 DEF OfWriteOutput!Chain
        <3>2. Good(results[n].s)
            BY <2>1, <3>1, WriteOutputKeeps
        <3> QED
            BY <3>2
    <2>3. CASE ~results[n - 1].ok
        BY <1>1, <2>1, <2>3 DEF OfWriteOutput!Chain
    <2> QED
        BY <2>2, <2>3
<1> HIDE DEF Good
<1>4. N \in S
    <2>1. S = 0..N
        <3> HIDE DEF S
        <3>1. S \in SUBSET (0..N)
            BY DEF S
        <3> QED
            BY <1>2, <1>3, <3>1, OfSave!UpTo
    <2> QED
        BY <2>1
<1>5. results[N] = last
    BY <1>1 DEF OfWriteOutput!Chain
<1>6. Good(last.s)
    BY <1>4, <1>5
<1> QED
    BY <1>6 DEF Good

-----------------------------------------------------------------------------
(* A Command that is prepared holds numbers of its own                     *)

FileStreams(c) == {fd \in DOMAIN c.std : c.std[fd].to = "file"}
Taken(c) == {c.std[fd].raw : fd \in FileStreams(c)} \cup c.kept
Together(lent, c) == lent \cup Taken(c)

IsCommand(c) ==
    /\ c = [std |-> c.std, pre_exec |-> c.pre_exec, kept |-> c.kept]
    /\ IsFunction(c.std) /\ DOMAIN c.std \subseteq Standard

\* Each of its numbers once, and none that is lent to another.
Separate(c, lent) ==
    /\ \A n \in lent : n \notin Taken(c)
    /\ \A f, g \in FileStreams(c) : c.std[f].raw = c.std[g].raw => f = g
    /\ \A f \in FileStreams(c) : c.std[f].raw \notin c.kept

HeldWith(a, t, own, lent) ==
    /\ Held(a, t, own, Together(lent, t.child))
    /\ IsCommand(t.child) /\ Separate(t.child, lent)

LEMMA TakenFacts ==
    ASSUME NEW c, NEW n
    PROVE  n \in Taken(c) <=> (\E f \in FileStreams(c) : n = c.std[f].raw) \/ n \in c.kept
BY DEF Taken

LEMMA TogetherPlus ==
    ASSUME NEW c, NEW lent, NEW n
    PROVE  Together(Plus(lent, n), c) = Plus(Together(lent, c), n)
BY DEF Together, Plus

\* Without a Command.
LEMMA NoCommandYet ==
    ASSUME NEW a, NEW t, NEW own, NEW lent, Held(a, t, own, lent), t.child = NoChild
    PROVE  HeldWith(a, t, own, lent)
<1>1. FileStreams(NoChild) = {} /\ NoChild.kept = {} /\ IsCommand(NoChild)
    BY DEF FileStreams, NoChild, IsCommand, IsFunction, Standard
<1>2. Taken(NoChild) = {}
    BY <1>1 DEF Taken
<1>3. Together(lent, NoChild) = lent /\ Separate(NoChild, lent)
    BY <1>1, <1>2 DEF Together, Separate
<1> QED
    BY <1>1, <1>3 DEF HeldWith

LEMMA SameCommand ==
    ASSUME NEW a, NEW t, NEW own, NEW lent, HeldWith(a, t, own, lent),
           NEW u, Held(a, u, own, Together(lent, t.child)), u.child = t.child
    PROVE  HeldWith(a, u, own, lent)
BY DEF HeldWith

LEMMA LendsWith ==
    ASSUME NEW a, NEW t, NEW own, NEW lent, HeldWith(a, t, own, lent), NEW n, n \notin Together(lent, t.child),
           NEW u, Held(a, u, own, Together(lent, t.child) \cup {n}), u.child = t.child
    PROVE  HeldWith(a, u, own, Plus(lent, n)) /\ n \notin lent
<1>1. n \notin lent /\ n \notin Taken(t.child)
    BY DEF Together
<1>2. Separate(u.child, Plus(lent, n))
    BY <1>1 DEF HeldWith, Separate, Plus
<1>3. Together(lent, t.child) \cup {n} = Together(Plus(lent, n), u.child)
    BY DEF Together, Plus
<1>4. Held(a, u, own, Together(Plus(lent, n), u.child))
    BY <1>3
<1> QED
    BY <1>1, <1>2, <1>4 DEF HeldWith

LEMMA OpenedWith ==
    ASSUME NEW a, NEW t, NEW own, NEW lent, HeldWith(a, t, own, lent), NEW c, NEW u, u = Opened(t, c)
    PROVE  /\ HeldWith(a, u, own, Plus(lent, Lowest(t.open))) /\ Lowest(t.open) \notin lent
           /\ u.fds = t.fds /\ u.saved_fds = t.saved_fds /\ u.exists = t.exists /\ u.child = t.child
<1> DEFINE n == Lowest(t.open)
           all == Together(lent, t.child)
<1>1. Held(a, t, own, all) /\ IsState(t)
    BY DEF HeldWith, Held, KernelOK
<1>2. u.fds = t.fds /\ u.saved_fds = t.saved_fds /\ u.exists = t.exists /\ u.child = t.child
    BY <1>1, OpenedFields
<1> HIDE DEF all
<1>3. Held(a, u, own, all \cup {Lowest(t.open)}) /\ n \notin all
    BY <1>1, OpenedLends, LowestNotLent
<1> QED
    BY <1>2, <1>3, LendsWith DEF all

LEMMA DupWith ==
    ASSUME NEW a, NEW t, NEW own, NEW lent, HeldWith(a, t, own, lent), NEW m, NEW u, u = Dup(t, m)
    PROVE  /\ HeldWith(a, u, own, Plus(lent, Lowest(t.open))) /\ Lowest(t.open) \notin lent
           /\ u.fds = t.fds /\ u.saved_fds = t.saved_fds /\ u.child = t.child
<1> DEFINE n == Lowest(t.open)
           all == Together(lent, t.child)
<1>1. Held(a, t, own, all) /\ IsState(t)
    BY DEF HeldWith, Held, KernelOK
<1>2. u.fds = t.fds /\ u.saved_fds = t.saved_fds /\ u.child = t.child
    BY <1>1, DupFields
<1> HIDE DEF all
<1>3. Held(a, u, own, all \cup {Lowest(t.open)}) /\ n \notin all
    BY <1>1, DupLends, LowestNotLent
<1> QED
    BY <1>2, <1>3, LendsWith DEF all

LEMMA ReturnsWith ==
    ASSUME NEW a, NEW w, NEW own, NEW lent, NEW n, n \notin lent, HeldWith(a, w, own, Plus(lent, n)),
           NEW u, u = Close(w, {n})
    PROVE  /\ HeldWith(a, u, own, lent)
           /\ u.fds = w.fds /\ u.saved_fds = w.saved_fds /\ u.child = w.child
<1> DEFINE all == Together(lent, w.child)
           S == {n}
<1>1. Held(a, w, own, Plus(all, n)) /\ IsState(w)
    BY TogetherPlus DEF HeldWith, Held, KernelOK
<1>2. n \notin all
    BY DEF HeldWith, Separate, Together, Plus
<1>3. S \subseteq Plus(all, n) /\ Plus(all, n) \ S = all /\ u = Close(w, S)
    BY <1>2 DEF Plus
<1> HIDE DEF all, S
<1>4. Held(a, u, own, Plus(all, n) \ S)
    BY <1>1, <1>3, CloseReturns
<1>5. Held(a, u, own, all)
    BY <1>3, <1>4
<1>6. u.fds = w.fds /\ u.saved_fds = w.saved_fds /\ u.child = w.child
    BY ONLY <1>1, <1>3, CloseFields
<1>7. Separate(w.child, lent) /\ IsCommand(w.child)
    BY DEF HeldWith, Separate, Plus
<1> QED
    BY <1>5, <1>6, <1>7 DEF HeldWith, all

\* The number becomes one of those that the Command keeps until its child runs.
LEMMA KeepsNumber ==
    ASSUME NEW a, NEW w, NEW own, NEW lent, NEW n, n \notin lent, HeldWith(a, w, own, Plus(lent, n)),
           NEW u, IsState(u), u.open = w.open, u.cloexec = w.cloexec, u.fds = w.fds, u.saved_fds = w.saved_fds,
           IsCommand(u.child), u.child.std = w.child.std, u.child.kept = Plus(w.child.kept, n)
    PROVE  HeldWith(a, u, own, lent)
<1>1. FileStreams(u.child) = FileStreams(w.child)
    BY DEF FileStreams
<1>2. n \notin Taken(w.child)
    BY DEF HeldWith, Separate, Plus
<1>3. Taken(u.child) = Plus(Taken(w.child), n)
    BY <1>1 DEF Taken, Plus
<1>4. Together(lent, u.child) = Together(Plus(lent, n), w.child)
    BY <1>3 DEF Together, Plus
<1>5. Separate(u.child, lent)
    <2>1. \A m \in lent : m \notin Taken(u.child)
        BY <1>3 DEF HeldWith, Separate, Plus
    <2>2. \A f \in FileStreams(w.child) : w.child.std[f].raw # n
        BY <1>2, TakenFacts
    <2> QED
        BY <1>1, <2>1, <2>2 DEF HeldWith, Separate, Plus
<1>6. Held(a, u, own, Together(Plus(lent, n), w.child))
    <2>1. Files(u) = Files(w) /\ \A f \in Files(w) : u.fds[f].raw = w.fds[f].raw
        BY DEF Files
    <2>2. Held(a, w, own, Together(Plus(lent, n), w.child))
        BY DEF HeldWith
    <2> QED
        BY <2>1, <2>2, HeldSame
<1> QED
    BY <1>4, <1>5, <1>6 DEF HeldWith

\* A stream of the Command is set, and what was there is closed.
SetStream(s, fd, stdio) == [s EXCEPT !.child.std = With(@, fd, stdio)]

LEMMA StreamFields ==
    ASSUME NEW s, IsState(s), IsCommand(s.child), NEW fd \in Standard, NEW stdio,
           NEW t, t = SetStream(s, fd, stdio)
    PROVE  /\ IsState(t) /\ IsCommand(t.child)
           /\ t.open = s.open /\ t.cloexec = s.cloexec /\ t.fds = s.fds /\ t.saved_fds = s.saved_fds
           /\ t.child.std = With(s.child.std, fd, stdio) /\ t.child.kept = s.child.kept
<1> DEFINE c == [s.child EXCEPT !.std = With(@, fd, stdio)]
<1>1. IsFunction(With(s.child.std, fd, stdio)) /\ DOMAIN With(s.child.std, fd, stdio) = DOMAIN s.child.std \cup {fd}
    BY WithFacts
<1>2. IsCommand(c) /\ c.std = With(s.child.std, fd, stdio) /\ c.kept = s.child.kept
    BY <1>1 DEF IsCommand
<1>3. t = [s EXCEPT !.child = c]
    BY DEF SetStream
<1> HIDE DEF c
<1> QED
    BY <1>2, <1>3 DEF IsState

LEMMA WithStreamFields ==
    ASSUME NEW a, NEW s, NEW own, NEW lent, HeldWith(a, s, own, lent), NEW fd \in Standard, NEW stdio,
           NEW u, u = WithStream(s, fd, stdio)
    PROVE  /\ IsCommand(u.child)
           /\ u.child.std = With(s.child.std, fd, stdio) /\ u.child.kept = s.child.kept
           /\ u.fds = s.fds /\ u.saved_fds = s.saved_fds
           /\ Held(a, u, own, Minus(Together(lent, s.child), Streams(s, {fd})))
<1> DEFINE t == SetStream(s, fd, stdio)
           old == Streams(s, {fd})
           all == Together(lent, s.child)
<1>1. IsState(s) /\ IsCommand(s.child) /\ Held(a, s, own, all)
    BY DEF HeldWith, Held, KernelOK
<1>2. /\ IsState(t) /\ IsCommand(t.child)
      /\ t.open = s.open /\ t.cloexec = s.cloexec /\ t.fds = s.fds /\ t.saved_fds = s.saved_fds
      /\ t.child.std = With(s.child.std, fd, stdio) /\ t.child.kept = s.child.kept
    BY <1>1, StreamFields
<1>3. u = Close(t, old)
    BY DEF WithStream, SetStream
<1>4. old \subseteq all
    BY DEF Streams, Together, Taken, FileStreams
<1> HIDE DEF t, old, all
<1>5. Held(a, t, own, all)
    <2>1. Files(t) = Files(s) /\ \A f \in Files(s) : t.fds[f].raw = s.fds[f].raw
        BY <1>2 DEF Files
    <2> QED
        BY <1>1, <1>2, <2>1, HeldSame
<1>6. Held(a, u, own, all \ old)
    BY <1>3, <1>4, <1>5, CloseReturns
<1>7. u.fds = t.fds /\ u.saved_fds = t.saved_fds /\ u.child = t.child
    BY ONLY <1>2, <1>3, CloseFields
<1>8. all \ old = Minus(all, old)
    BY DEF Minus
<1> QED
    BY <1>2, <1>6, <1>7, <1>8 DEF all, old

LEMMA OldStream ==
    ASSUME NEW s, NEW fd, NEW n
    PROVE  n \in Streams(s, {fd}) <=> fd \in FileStreams(s.child) /\ n = s.child.std[fd].raw
BY DEF Streams, FileStreams

\* The number goes to the Command.
LEMMA GivesStream ==
    ASSUME NEW a, NEW s, NEW own, NEW lent, NEW n, n \notin lent, HeldWith(a, s, own, Plus(lent, n)),
           NEW fd \in Standard, NEW u, u = WithStream(s, fd, Stdio("file", n))
    PROVE  HeldWith(a, u, own, lent) /\ u.fds = s.fds /\ u.saved_fds = s.saved_fds
<1> DEFINE stdio == Stdio("file", n)
           c == s.child
           old == Streams(s, {fd})
<1>1. stdio.to = "file" /\ stdio.raw = n
    BY DEF Stdio
<1> HIDE DEF stdio
<1>2. /\ IsCommand(u.child)
      /\ u.child.std = With(c.std, fd, stdio) /\ u.child.kept = c.kept
      /\ u.fds = s.fds /\ u.saved_fds = s.saved_fds
      /\ Held(a, u, own, Minus(Together(Plus(lent, n), c), old))
    BY WithStreamFields DEF stdio
<1>3. u.child.std[fd] = stdio /\ \A f \in DOMAIN u.child.std : f # fd => f \in DOMAIN c.std /\ u.child.std[f] = c.std[f]
    BY <1>2 DEF With
<1>31. fd \in DOMAIN u.child.std /\ \A f \in DOMAIN c.std : f \in DOMAIN u.child.std
    BY <1>2 DEF With
<1>4. \A f : f \in FileStreams(u.child) <=> f = fd \/ f \in FileStreams(c)
    BY <1>1, <1>3, <1>31 DEF FileStreams
<1>5. \A f \in FileStreams(u.child) : u.child.std[f].raw = IF f = fd THEN n ELSE c.std[f].raw
    BY <1>1, <1>3 DEF FileStreams
<1>6. /\ Separate(c, Plus(lent, n))
      /\ n \notin Taken(c)
    BY DEF HeldWith, Separate, Plus
<1>7. \A f \in FileStreams(c) : c.std[f].raw # n /\ c.std[f].raw \notin lent
    BY <1>6, TakenFacts DEF Separate, Plus
<1>8. n \notin c.kept /\ \A m \in lent : m \notin c.kept
    BY <1>6, TakenFacts DEF Separate, Plus
<1>9. \A m : m \in old <=> fd \in FileStreams(c) /\ m = c.std[fd].raw
    BY OldStream
<1> HIDE DEF c, old
<1>10. \A m : m \in Taken(u.child) <=> m = n \/ (m \in Taken(c) /\ m \notin old)
    <2> SUFFICES ASSUME NEW m
                 PROVE  m \in Taken(u.child) <=> m = n \/ (m \in Taken(c) /\ m \notin old)
        OBVIOUS
    <2>1. m \in Taken(u.child) <=> (\E f \in FileStreams(u.child) : m = u.child.std[f].raw) \/ m \in u.child.kept
        BY TakenFacts
    <2>2. m \in Taken(c) <=> (\E f \in FileStreams(c) : m = c.std[f].raw) \/ m \in c.kept
        BY TakenFacts
    <2>3. (\E f \in FileStreams(u.child) : m = u.child.std[f].raw)
             <=> m = n \/ \E f \in FileStreams(c) : f # fd /\ m = c.std[f].raw
        BY <1>4, <1>5
    <2>4. m \in c.kept => m \notin old
        BY <1>6, <1>9 DEF Separate
    <2>5. \A f \in FileStreams(c) : m = c.std[f].raw => (f # fd <=> m \notin old)
        BY <1>6, <1>9 DEF Separate
    <2> QED
        BY <1>2, <2>1, <2>2, <2>3, <2>4, <2>5
<1>11. \A m \in lent : m \notin old /\ m # n
    BY <1>7, <1>9
<1>12. n \notin old
    BY <1>7, <1>9
<1>13. Minus(Together(Plus(lent, n), c), old) = Together(lent, u.child)
    BY <1>10, <1>11, <1>12 DEF Minus, Together, Plus
<1>14. Held(a, u, own, Together(lent, u.child))
    BY <1>2, <1>13
<1>15. Separate(u.child, lent)
    <2>1. \A m \in lent : m \notin Taken(u.child)
        BY <1>6, <1>10, <1>11 DEF Separate, Plus
    <2>2. \A f, g \in FileStreams(u.child) : u.child.std[f].raw = u.child.std[g].raw => f = g
        BY <1>4, <1>5, <1>6, <1>7 DEF Separate
    <2>3. \A f \in FileStreams(u.child) : u.child.std[f].raw \notin u.child.kept
        BY <1>2, <1>4, <1>5, <1>6, <1>8 DEF Separate
    <2> QED
        BY <2>1, <2>2, <2>3 DEF Separate
<1> QED
    BY <1>2, <1>14, <1>15 DEF HeldWith

\* A stream that is not a number of the shell's.
LEMMA OtherStream ==
    ASSUME NEW a, NEW s, NEW own, NEW lent, HeldWith(a, s, own, lent),
           NEW fd \in Standard, NEW stdio, stdio.to # "file", NEW u, u = WithStream(s, fd, stdio)
    PROVE  HeldWith(a, u, own, lent) /\ u.fds = s.fds /\ u.saved_fds = s.saved_fds
<1> DEFINE c == s.child
           old == Streams(s, {fd})
<1>2. /\ IsCommand(u.child)
      /\ u.child.std = With(c.std, fd, stdio) /\ u.child.kept = c.kept
      /\ u.fds = s.fds /\ u.saved_fds = s.saved_fds
      /\ Held(a, u, own, Minus(Together(lent, c), old))
    BY WithStreamFields
<1>3. u.child.std[fd] = stdio /\ \A f \in DOMAIN u.child.std : f # fd => f \in DOMAIN c.std /\ u.child.std[f] = c.std[f]
    BY <1>2 DEF With
<1>31. fd \in DOMAIN u.child.std /\ \A f \in DOMAIN c.std : f \in DOMAIN u.child.std
    BY <1>2 DEF With
<1>4. \A f : f \in FileStreams(u.child) <=> f # fd /\ f \in FileStreams(c)
    BY <1>3, <1>31 DEF FileStreams
<1>5. \A f \in FileStreams(u.child) : u.child.std[f].raw = c.std[f].raw
    BY <1>3, <1>4 DEF FileStreams
<1>6. Separate(c, lent)
    BY DEF HeldWith
<1>9. \A m : m \in old <=> fd \in FileStreams(c) /\ m = c.std[fd].raw
    BY OldStream
<1> HIDE DEF c, old
<1>10. \A m : m \in Taken(u.child) <=> m \in Taken(c) /\ m \notin old
    <2> SUFFICES ASSUME NEW m
                 PROVE  m \in Taken(u.child) <=> m \in Taken(c) /\ m \notin old
        OBVIOUS
    <2>1. m \in Taken(u.child) <=> (\E f \in FileStreams(u.child) : m = u.child.std[f].raw) \/ m \in u.child.kept
        BY TakenFacts
    <2>2. m \in Taken(c) <=> (\E f \in FileStreams(c) : m = c.std[f].raw) \/ m \in c.kept
        BY TakenFacts
    <2>3. (\E f \in FileStreams(u.child) : m = u.child.std[f].raw)
             <=> \E f \in FileStreams(c) : f # fd /\ m = c.std[f].raw
        BY <1>4, <1>5
    <2>4. m \in c.kept => m \notin old
        BY <1>6, <1>9 DEF Separate
    <2>5. \A f \in FileStreams(c) : m = c.std[f].raw => (f # fd <=> m \notin old)
        BY <1>6, <1>9 DEF Separate
    <2> QED
        BY <1>2, <2>1, <2>2, <2>3, <2>4, <2>5
<1>11. \A m \in lent : m \notin old
    BY <1>6, <1>9, TakenFacts DEF Separate
<1>13. Minus(Together(lent, c), old) = Together(lent, u.child)
    BY <1>10, <1>11 DEF Minus, Together
<1>14. Held(a, u, own, Together(lent, u.child))
    BY <1>2, <1>13
<1>15. Separate(u.child, lent)
    <2>1. \A m \in lent : m \notin Taken(u.child)
        BY <1>6, <1>10 DEF Separate
    <2>2. \A f, g \in FileStreams(u.child) : u.child.std[f].raw = u.child.std[g].raw => f = g
        BY <1>4, <1>5, <1>6 DEF Separate
    <2>3. \A f \in FileStreams(u.child) : u.child.std[f].raw \notin u.child.kept
        BY <1>2, <1>4, <1>5, <1>6 DEF Separate
    <2> QED
        BY <2>1, <2>2, <2>3 DEF Separate
<1> QED
    BY <1>2, <1>14, <1>15 DEF HeldWith

\* The Command is dropped with all that it holds.
LEMMA DropsCommand ==
    ASSUME NEW a, NEW s, NEW own, NEW lent, HeldWith(a, s, own, lent), NEW u, u = Dropped(s)
    PROVE  Held(a, u, own, lent) /\ u.fds = s.fds /\ u.saved_fds = s.saved_fds /\ u.child = NoChild
<1> DEFINE all == Together(lent, s.child)
           S == Streams(s, 0..2) \cup s.child.kept
           t == Close(s, S)
<1>1. Held(a, s, own, all) /\ IsState(s)
    BY DEF HeldWith, Held, KernelOK
<1>2. S = Taken(s.child)
    BY DEF HeldWith, IsCommand, Streams, Taken, FileStreams, Standard
<1>3. S \subseteq all /\ all \ S = lent
    BY <1>2 DEF HeldWith, Separate, Together
<1>4. u = [t EXCEPT !.child = NoChild]
    BY DEF Dropped
<1> HIDE DEF all, S
<1>5. Held(a, t, own, all \ S)
    BY <1>1, <1>3, CloseReturns
<1>6. Held(a, t, own, lent)
    BY <1>3, <1>5
<1>7. IsState(t) /\ t.fds = s.fds /\ t.saved_fds = s.saved_fds
    BY <1>1, CloseFields
<1> HIDE DEF t
<1>8. /\ IsState(u) /\ u.open = t.open /\ u.cloexec = t.cloexec /\ u.fds = t.fds /\ u.saved_fds = t.saved_fds
      /\ u.child = NoChild
    BY <1>4, <1>7 DEF IsState
<1>9. Files(u) = Files(t) /\ \A f \in Files(t) : u.fds[f].raw = t.fds[f].raw
    BY <1>8 DEF Files
<1> QED
    BY <1>6, <1>7, <1>8, <1>9, HeldSame

-----------------------------------------------------------------------------
(* Redirections of a Command                                               *)

ApplyToChild(s, r) == Apply(s, r, TRUE)
AllToChild(rs, s) == apply_redirections(rs, s, TRUE)

OfApplyToChild == INSTANCE OneAfterAnother WITH Step <- ApplyToChild

LEMMA AppliesToChild ==
    ASSUME NEW rs, Len(rs) \in Nat, NEW s
    PROVE  \E results : OfApplyToChild!Chain(rs, Ok(s), AllToChild(rs, s), results)
<1>1. AllToChild(rs, s) = OfApplyToChild!LastResult(rs, Ok(s))
    BY DEF InOrder, OfApplyToChild!LastResult, OfApplyToChild!Results, apply_redirections, ApplyToChild, AllToChild
<1> QED
    BY <1>1, OfApplyToChild!ResultsInOrder

LEMMA OpenWith ==
    ASSUME NEW a, NEW t, NEW own, NEW lent, HeldWith(a, t, own, lent), NEW fd, NEW file, NEW creating,
           NEW u, u = open_fd(t, fd, file, creating).s
    PROVE  HeldWith(a, u, own, lent) /\ u.saved_fds = t.saved_fds /\ u.child = t.child
<1> DEFINE all == Together(lent, t.child)
<1>1. Held(a, t, own, all)
    BY DEF HeldWith
<1> HIDE DEF all
<1>2. Held(a, u, own, all) /\ u.saved_fds = t.saved_fds /\ u.child = t.child
    BY <1>1, OpenKeeps
<1> QED
    BY <1>2, SameCommand DEF all

LEMMA InsertOtherWith ==
    ASSUME NEW a, NEW t, NEW own, NEW lent, HeldWith(a, t, own, lent), NEW fd,
           NEW descriptor, descriptor.kind # "File", NEW u, u = Insert(t, fd, descriptor)
    PROVE  HeldWith(a, u, own, lent) /\ u.saved_fds = t.saved_fds
<1> DEFINE all == Together(lent, t.child)
<1>1. Held(a, t, own, all)
    BY DEF HeldWith
<1> HIDE DEF all
<1>2. Held(a, u, own, all) /\ u.saved_fds = t.saved_fds /\ u.child = t.child
    BY <1>1, InsertOtherKeeps
<1> QED
    BY <1>2, SameCommand DEF all

LEMMA CreatedWith ==
    ASSUME NEW a, NEW t, NEW own, NEW lent, HeldWith(a, t, own, lent), NEW file, NEW u, u = Created(t, file)
    PROVE  /\ HeldWith(a, u, own, lent)
           /\ u.open = t.open /\ u.fds = t.fds /\ u.saved_fds = t.saved_fds /\ u.child = t.child
<1> DEFINE all == Together(lent, t.child)
<1>1. Held(a, t, own, all)
    BY DEF HeldWith
<1> HIDE DEF all
<1>2. /\ Held(a, u, own, all)
      /\ u.open = t.open /\ u.fds = t.fds /\ u.saved_fds = t.saved_fds /\ u.child = t.child
    BY <1>1, CreatedKeeps
<1> QED
    BY <1>2, SameCommand DEF all

\* A stream that is opened for the Command.
LEMMA OpensStream ==
    ASSUME NEW a, NEW t, NEW own, NEW lent, HeldWith(a, t, own, lent), NEW content, NEW fd \in Standard,
           NEW u, u = WithStream(Opened(t, content), fd, Stdio("file", Handle(t)))
    PROVE  HeldWith(a, u, own, lent) /\ u.saved_fds = t.saved_fds
<1> DEFINE n == Lowest(t.open)
           v == Opened(t, content)
<1>1. HeldWith(a, v, own, Plus(lent, n)) /\ n \notin lent /\ v.saved_fds = t.saved_fds
    BY OpenedWith
<1>2. u = WithStream(v, fd, Stdio("file", n))
    BY DEF Handle
<1> HIDE DEF n, v
<1> QED
    BY <1>1, <1>2, GivesStream

KeptFor(s, n, pair) == [s EXCEPT !.child.pre_exec = Append(@, pair), !.child.kept = @ \cup {n}]

LEMMA KeptFields ==
    ASSUME NEW s, IsState(s), IsCommand(s.child), NEW n, NEW pair,
           NEW u, u = KeptFor(s, n, pair)
    PROVE  /\ IsState(u) /\ IsCommand(u.child)
           /\ u.open = s.open /\ u.cloexec = s.cloexec /\ u.fds = s.fds /\ u.saved_fds = s.saved_fds
           /\ u.child.std = s.child.std /\ u.child.kept = Plus(s.child.kept, n)
<1> DEFINE c == s.child
           later == Append(c.pre_exec, pair)
           c1 == [c EXCEPT !.pre_exec = later]
           c2 == [c1 EXCEPT !.kept = Plus(@, n)]
           t == [s EXCEPT !.child = c1]
<1>1. IsCommand(c1) /\ c1.std = c.std /\ c1.kept = c.kept
    <2> HIDE DEF later
    <2> QED
        BY DEF IsCommand
<1>2. u = [t EXCEPT !.child.kept = Plus(@, n)]
    BY DEF Plus, KeptFor
<1> HIDE DEF c1
<1>3. IsCommand(c2) /\ c2.std = c1.std /\ c2.kept = Plus(c1.kept, n)
    BY <1>1 DEF IsCommand
<1>4. /\ IsState(t) /\ t.child = c1
      /\ t.open = s.open /\ t.cloexec = s.cloexec /\ t.fds = s.fds /\ t.saved_fds = s.saved_fds
    BY DEF IsState
<1> HIDE DEF t
<1>5. u = [t EXCEPT !.child = c2]
    BY <1>2, <1>4
<1> HIDE DEF c2
<1>6. /\ IsState(u) /\ u.child = c2
      /\ u.open = t.open /\ u.cloexec = t.cloexec /\ u.fds = t.fds /\ u.saved_fds = t.saved_fds
    BY <1>4, <1>5 DEF IsState
<1> QED
    BY <1>1, <1>3, <1>4, <1>6

ForReading(s, fd, file) == open_fd(s, fd, file, FALSE).s
OnNewFile(s, r) == OnFile(s, r, TRUE)

LEMMA ForReadingWith ==
    ASSUME NEW a, NEW t, NEW own, NEW lent, HeldWith(a, t, own, lent), NEW fd, NEW file,
           NEW u, u = ForReading(t, fd, file)
    PROVE  HeldWith(a, u, own, lent) /\ u.saved_fds = t.saved_fds
<1> DEFINE creating == FALSE
<1>1. u = open_fd(t, fd, file, creating).s
    BY DEF ForReading
<1> HIDE DEF creating
<1> QED
    BY <1>1, OpenWith

\* The file opened for the child, for the table and once more, the first closed.
InputTo(t, r) ==
    LET second == Lowest(Opened(t, r.file).open)
        twice == ForReading(Opened(Opened(t, r.file), r.file), r.fd, r.file)
    IN Close(KeptFor(twice, second, <<second, r.fd>>), {Handle(t)})

LEMMA InputToChild ==
    ASSUME NEW a, NEW t, NEW own, NEW lent, HeldWith(a, t, own, lent), NEW r,
           NEW u, u = InputTo(t, r)
    PROVE  HeldWith(a, u, own, lent) /\ u.saved_fds = t.saved_fds
<1> DEFINE n == Lowest(t.open)
           v == Opened(t, r.file)
           second == Lowest(v.open)
           twice == ForReading(Opened(v, r.file), r.fd, r.file)
           pair == <<second, r.fd>>
           w == Opened(v, r.file)
           kept == KeptFor(twice, second, pair)
<1>1. HeldWith(a, v, own, Plus(lent, n)) /\ n \notin lent /\ v.saved_fds = t.saved_fds
    BY OpenedWith
<1>2. second = Lowest(v.open) /\ twice = ForReading(w, r.fd, r.file) /\ u = Close(kept, {n})
    BY DEF Handle, InputTo
<1> HIDE DEF v, n, second, twice, pair
<1>3. /\ HeldWith(a, w, own, Plus(Plus(lent, n), second)) /\ second \notin Plus(lent, n)
      /\ w.saved_fds = v.saved_fds
    BY <1>1, <1>2, OpenedWith
<1> HIDE DEF w
<1>4. HeldWith(a, twice, own, Plus(Plus(lent, n), second)) /\ twice.saved_fds = w.saved_fds
    BY <1>2, <1>3, ForReadingWith
<1>5. IsState(twice) /\ IsCommand(twice.child)
    BY <1>4 DEF HeldWith, Held, KernelOK
<1>6. /\ IsState(kept) /\ IsCommand(kept.child)
      /\ kept.open = twice.open /\ kept.cloexec = twice.cloexec /\ kept.fds = twice.fds
      /\ kept.saved_fds = twice.saved_fds
      /\ kept.child.std = twice.child.std /\ kept.child.kept = Plus(twice.child.kept, second)
    BY <1>5, KeptFields
<1> HIDE DEF kept
<1>7. HeldWith(a, kept, own, Plus(lent, n))
    BY <1>3, <1>4, <1>6, KeepsNumber
<1>8. HeldWith(a, u, own, lent) /\ u.saved_fds = kept.saved_fds
    BY <1>1, <1>2, <1>7, ReturnsWith
<1> QED
    BY <1>1, <1>3, <1>4, <1>6, <1>8

LEMMA OnNewFileWith ==
    ASSUME NEW a, NEW t, NEW own, NEW lent, HeldWith(a, t, own, lent), NEW r,
           NEW u, u = Close(OnNewFile(t, r), {Handle(t)})
    PROVE  HeldWith(a, u, own, lent) /\ u.saved_fds = t.saved_fds
<1> DEFINE n == Lowest(t.open)
           v == Opened(t, r.file)
           w == OnNewFile(t, r)
           creating == TRUE
<1>1. HeldWith(a, v, own, Plus(lent, n)) /\ n \notin lent /\ v.saved_fds = t.saved_fds
    BY OpenedWith
<1>2. w = open_fd(v, r.fd, r.file, creating).s /\ u = Close(w, {n})
    BY DEF Handle, OnFile, OnNewFile
<1> HIDE DEF v, w, n, creating
<1>3. HeldWith(a, w, own, Plus(lent, n)) /\ w.saved_fds = v.saved_fds
    BY <1>1, <1>2, OpenWith
<1> QED
    BY <1>1, <1>2, <1>3, ReturnsWith

OutputTo(s, r) == apply_output_redirection(s, r, TRUE).s

LEMMA OutputToChild ==
    ASSUME NEW a, NEW t, NEW own, NEW lent, HeldWith(a, t, own, lent), NEW r, NEW u, u = OutputTo(t, r)
    PROVE  HeldWith(a, u, own, lent) /\ u.saved_fds = t.saved_fds
<1> DEFINE v == Created(t, r.file)
<1>1. HeldWith(a, v, own, lent) /\ v.open = t.open /\ v.saved_fds = t.saved_fds
    BY CreatedWith
<1>2. Handle(t) = Handle(v)
    BY <1>1 DEF Handle
<1>3. \/ u = t
      \/ r.fd \in Standard /\ u = WithStream(Opened(v, r.file), r.fd, Stdio("file", Handle(t)))
      \/ u = Close(OnNewFile(v, r), {Handle(t)})
    <2>1. CASE Refused(t, r) \/ ~CanOpen(t, r.file, TRUE)
        BY <2>1 DEF OutputTo, apply_output_redirection, Failed
    <2>2. CASE ~(Refused(t, r) \/ ~CanOpen(t, r.file, TRUE)) /\ r.fd \in 1..2
        <3>1. u = WithStream(Opened(v, r.file), r.fd, Stdio("file", Handle(t)))
            BY <2>2 DEF OutputTo, apply_output_redirection, Ok
        <3>2. r.fd \in Standard
            BY <2>2 DEF Standard
        <3> QED
            BY <3>1, <3>2
    <2>3. CASE ~(Refused(t, r) \/ ~CanOpen(t, r.file, TRUE)) /\ r.fd \notin 1..2
        BY <2>3 DEF OutputTo, apply_output_redirection, Ok, OnNewFile
    <2> QED
        BY <2>1, <2>2, <2>3
<1> HIDE DEF v
<1>4. CASE u = t
    BY <1>4
<1>5. CASE r.fd \in Standard /\ u = WithStream(Opened(v, r.file), r.fd, Stdio("file", Handle(t)))
    <2>1. u = WithStream(Opened(v, r.file), r.fd, Stdio("file", Handle(v)))
        BY <1>2, <1>5
    <2> QED
        BY <1>1, <1>5, <2>1, OpensStream
<1>6. CASE u = Close(OnNewFile(v, r), {Handle(t)})
    <2>1. u = Close(OnNewFile(v, r), {Handle(v)})
        BY <1>2, <1>6
    <2> QED
        BY <1>1, <2>1, OnNewFileWith
<1> QED
    BY <1>3, <1>4, <1>5, <1>6

LEMMA ToChildKeeps ==
    ASSUME NEW a, NEW t, NEW own, NEW lent, HeldWith(a, t, own, lent), NEW r, r.op \in Operators,
           NEW u, u = ApplyToChild(t, r).s
    PROVE  HeldWith(a, u, own, lent) /\ u.saved_fds = t.saved_fds
<1>1. 0 \in Standard
    BY DEF Standard
<1>2. CASE r.op = "<"
    <2>1. u = apply_input_redirection(t, r, TRUE).s
        BY <1>2 DEF ApplyToChild, Apply
    <2>2. CASE ~CanOpen(t, r.file, FALSE)
        BY <2>1, <2>2 DEF apply_input_redirection, Failed
    <2>3. CASE CanOpen(t, r.file, FALSE) /\ r.fd = 0
        <3>1. u = WithStream(Opened(t, r.file), 0, Stdio("file", Handle(t)))
            BY <2>1, <2>3 DEF apply_input_redirection, Ok
        <3> QED
            BY <1>1, <3>1, OpensStream
    <2>4. CASE CanOpen(t, r.file, FALSE) /\ r.fd # 0
        <3>1. u = InputTo(t, r)
            BY <2>1, <2>4, Zenon DEF apply_input_redirection, Ok, KeptFor, ForReading, InputTo
        <3>2. HeldWith(a, t, own, lent)
            OBVIOUS
        <3> QED
            BY ONLY <3>1, <3>2, InputToChild, Zenon
    <2> QED
        BY <2>2, <2>3, <2>4
<1>3. CASE r.op \in {">", ">|", ">>"}
    <2>1. u = OutputTo(t, r)
        BY <1>3 DEF ApplyToChild, Apply, OutputTo
    <2> QED
        BY <2>1, OutputToChild
<1>4. CASE r.op = "dup"
    <2>1. u = apply_fd_duplication(t, r).s
        BY <1>4 DEF ApplyToChild, Apply
    <2> DEFINE copy == Descriptor("Duplicate", get_raw_fd(t, r.source))
    <2>2. u = t \/ u = Insert(t, r.fd, copy)
        BY <2>1 DEF apply_fd_duplication, duplicate_fd, Ok, Failed
    <2>3. copy.kind # "File"
        BY DEF Descriptor
    <2> HIDE DEF copy
    <2> QED
        BY <2>2, <2>3, InsertOtherWith
<1>5. CASE r.op = "close"
    <2> DEFINE closed == Descriptor("Closed", NoRaw)
               v == Insert(t, r.fd, closed)
               null == Stdio("null", NoRaw)
    <2>1. u = IF r.fd \in 0..2 THEN WithStream(v, r.fd, null) ELSE v
        BY <1>5 DEF ApplyToChild, Apply, apply_fd_close, close_fd, Ok
    <2>2. closed.kind # "File" /\ null.to # "file"
        BY DEF Descriptor, Stdio
    <2> HIDE DEF closed, null
    <2>3. HeldWith(a, v, own, lent) /\ v.saved_fds = t.saved_fds
        BY <2>2, InsertOtherWith
    <2> HIDE DEF v
    <2>4. CASE r.fd \in 0..2
        <3>1. r.fd \in Standard /\ u = WithStream(v, r.fd, null)
            BY <2>1, <2>4 DEF Standard
        <3> QED
            BY <2>2, <2>3, <3>1, OtherStream
    <2>5. CASE r.fd \notin 0..2
        BY <2>1, <2>3, <2>5
    <2> QED
        BY <2>4, <2>5
<1>6. CASE r.op = "<>"
    <2> DEFINE creating == TRUE
    <2>1. u = open_fd(t, r.fd, r.file, creating).s
        BY <1>6 DEF ApplyToChild, Apply
    <2> HIDE DEF creating
    <2> QED
        BY <2>1, OpenWith
<1>7. CASE r.op = "<<"
    <2>1. u = WithStream(Opened(t, "here"), 0, Stdio("file", Handle(t)))
        BY <1>7 DEF ApplyToChild, Apply, apply_heredoc_redirection, Ok
    <2> QED
        BY <1>1, <2>1, OpensStream
<1> QED
    BY <1>2, <1>3, <1>4, <1>5, <1>6, <1>7 DEF Operators

LEMMA AllToChildKeep ==
    ASSUME NEW a, NEW t, NEW own, NEW lent, HeldWith(a, t, own, lent), NEW rs, Len(rs) \in Nat,
           \A i \in 1..Len(rs) : rs[i].op \in Operators,
           NEW u, u = AllToChild(rs, t).s
    PROVE  HeldWith(a, u, own, lent) /\ u.saved_fds = t.saved_fds
<1> DEFINE N == Len(rs)
           last == AllToChild(rs, t)
           Good(v) == HeldWith(a, v, own, lent) /\ v.saved_fds = t.saved_fds
<1>1. PICK results : OfApplyToChild!Chain(rs, Ok(t), last, results)
    BY AppliesToChild
<1> DEFINE S == {n \in 0..N : Good(results[n].s)}
<1>2. 0 \in S
    BY <1>1 DEF OfApplyToChild!Chain, Ok
<1>3. ASSUME NEW n \in 1..N, n - 1 \in S
      PROVE  n \in S
    <2>1. Good(results[n - 1].s)
        BY <1>3
    <2>2. CASE results[n - 1].ok
        <3>1. results[n] = ApplyToChild(results[n - 1].s, rs[n])
            BY <1>1, <2>2 DEF OfApplyToChild!Chain
        <3>2. Good(results[n].s)
            BY <2>1, <3>1, ToChildKeeps
        <3> QED
            BY <3>2
    <2>3. CASE ~results[n - 1].ok
        BY <1>1, <2>1, <2>3 DEF OfApplyToChild!Chain
    <2> QED
        BY <2>2, <2>3
<1> HIDE DEF Good
<1>4. N \in S
    <2>1. S = 0..N
        <3> HIDE DEF S
        <3>1. S \in SUBSET (0..N)
            BY DEF S
        <3> QED
            BY <1>2, <1>3, <3>1, OfSave!UpTo
    <2> QED
        BY <2>1
<1>5. results[N] = last
    BY <1>1 DEF OfApplyToChild!Chain
<1>6. Good(last.s)
    BY <1>4, <1>5
<1> QED
    BY <1>6 DEF Good

-----------------------------------------------------------------------------
(* An external command                                                     *)

\* What is lent to others than the pipeline that the command is a stage of.
HeldForCommand(a, t, own, rest) ==
    IF InPipeline /\ Top.pipe # NoRaw
    THEN Top.pipe \notin rest /\ HeldWith(a, t, own, Plus(rest, Top.pipe))
    ELSE HeldWith(a, t, own, rest)

LEMMA WithStdinKeeps ==
    ASSUME NEW a, NEW t, NEW own, NEW rest, HeldForCommand(a, t, own, rest), NEW u, u = WithStdin(t)
    PROVE  HeldWith(a, u, own, rest) /\ u.saved_fds = t.saved_fds
<1>1. 0 \in Standard
    BY DEF Standard
<1>2. CASE InPipeline /\ Top.pipe # NoRaw
    <2> DEFINE n == Top.pipe
    <2>1. n \notin rest /\ HeldWith(a, t, own, Plus(rest, n)) /\ u = WithStream(t, 0, Stdio("file", n))
        BY <1>2 DEF HeldForCommand, WithStdin
    <2> HIDE DEF n
    <2> QED
        BY <1>1, <2>1, GivesStream
<1>3. CASE ~(InPipeline /\ Top.pipe # NoRaw)
    <2> DEFINE null == Stdio("null", NoRaw)
               n == Lowest(t.open)
               v == Dup(t, stdin_override)
    <2>1. \/ u = WithStream(t, 0, null)
          \/ u = WithStream(v, 0, Stdio("file", n))
          \/ u = t
        BY <1>3 DEF WithStdin, Handle
    <2>2. HeldWith(a, t, own, rest) /\ null.to # "file"
        BY <1>3 DEF HeldForCommand, Stdio
    <2> HIDE DEF null
    <2>3. CASE u = WithStream(t, 0, null)
        BY <1>1, <2>2, <2>3, OtherStream
    <2>4. CASE u = WithStream(v, 0, Stdio("file", n))
        <3>1. HeldWith(a, v, own, Plus(rest, n)) /\ n \notin rest /\ v.saved_fds = t.saved_fds
            BY <2>2, DupWith
        <3> HIDE DEF v, n
        <3> QED
            BY <1>1, <2>4, <3>1, GivesStream
    <2> QED
        BY <2>1, <2>2, <2>3, <2>4
<1> QED
    BY <1>2, <1>3

LEMMA WithStdoutKeeps ==
    ASSUME NEW a, NEW t, NEW own, NEW rest, HeldWith(a, t, own, rest), NEW last, NEW u, u = WithStdout(t, last)
    PROVE  HeldWith(a, u, own, rest) /\ u.saved_fds = t.saved_fds
<1> DEFINE piped == Stdio("piped", NoRaw)
<1>1. u = WithStream(t, 1, piped) \/ u = t
    BY DEF WithStdout
<1>2. piped.to # "file" /\ 1 \in Standard
    BY DEF Stdio, Standard
<1> HIDE DEF piped
<1> QED
    BY <1>1, <1>2, OtherStream

LEMMA ExternalKeeps ==
    ASSUME NEW a, NEW t, NEW own, NEW rest, HeldForCommand(a, t, own, rest),
           NEW rs, Len(rs) \in Nat, \A i \in 1..Len(rs) : rs[i].op \in Operators, NEW last,
           NEW prepared, prepared = AllToChild(rs, WithStdout(WithStdin(t), last)),
           NEW after, after = Dropped(prepared.s),
           NEW fed, fed = Dropped(Opened(prepared.s, "pipe"))
    PROVE  /\ Held(a, after, own, rest) /\ after.child = NoChild
           /\ Held(a, fed, own, Plus(rest, Handle(prepared.s))) /\ fed.child = NoChild
           /\ Handle(prepared.s) \notin rest /\ Handle(prepared.s) # NoRaw
           /\ after.saved_fds = t.saved_fds /\ fed.saved_fds = t.saved_fds
<1> DEFINE v == WithStdin(t)
           w == WithStdout(v, last)
           x == prepared.s
           n == Lowest(x.open)
           y == Opened(x, "pipe")
<1>1. HeldWith(a, v, own, rest) /\ v.saved_fds = t.saved_fds
    BY WithStdinKeeps
<1> HIDE DEF v
<1>2. HeldWith(a, w, own, rest) /\ w.saved_fds = v.saved_fds
    BY <1>1, WithStdoutKeeps
<1>3. x = AllToChild(rs, w).s
    BY DEF v
<1> HIDE DEF w, x
<1>4. HeldWith(a, x, own, rest) /\ x.saved_fds = w.saved_fds
    BY <1>2, <1>3, AllToChildKeep
<1>5. Held(a, after, own, rest) /\ after.saved_fds = x.saved_fds /\ after.child = NoChild
    <2>1. after = Dropped(x)
        BY DEF x
    <2> QED
        BY <1>4, <2>1, DropsCommand
<1>6. HeldWith(a, y, own, Plus(rest, n)) /\ n \notin rest /\ y.saved_fds = x.saved_fds
    BY <1>4, OpenedWith
<1>7. n # NoRaw
    <2>1. n \in Nat
        BY <1>4, FreshNumber DEF HeldWith
    <2> QED
        BY <2>1 DEF NoRaw
<1>8. fed = Dropped(y) /\ n = Handle(prepared.s)
    BY DEF x, Handle
<1> HIDE DEF y, n
<1>9. Held(a, fed, own, Plus(rest, n)) /\ fed.saved_fds = y.saved_fds /\ fed.child = NoChild
    BY <1>6, <1>8, DropsCommand
<1> QED
    BY <1>1, <1>2, <1>4, <1>5, <1>6, <1>7, <1>8, <1>9

-----------------------------------------------------------------------------
(* The state now as the earlier one                                        *)

CopiesAt(t, own) == {t.saved_fds[f] : f \in own}
FilesAt(t) == {t.fds[f].raw : f \in Files(t)}
Before(t, own, lent) ==
    LET D == DOMAIN t.open \ (lent \cup CopiesAt(t, own) \cup FilesAt(t))
    IN [t EXCEPT !.open = [n \in D |-> IF n \in own THEN t.open[t.saved_fds[n]] ELSE t.open[n]],
                 !.cloexec = @ \cap D, !.fds = <<>>, !.saved_fds = <<>>]

LEMMA BeforeFields ==
    ASSUME NEW t, IsState(t), NEW own, NEW lent, NEW b, b = Before(t, own, lent)
    PROVE  /\ IsState(b) /\ b.fds = <<>>
           /\ b.open = [n \in DOMAIN t.open \ (lent \cup CopiesAt(t, own) \cup FilesAt(t)) |->
                          IF n \in own THEN t.open[t.saved_fds[n]] ELSE t.open[n]]
           /\ b.cloexec = t.cloexec \cap (DOMAIN t.open \ (lent \cup CopiesAt(t, own) \cup FilesAt(t)))
<1>1. IsFunction(<<>>)
    BY DEF IsFunction
<1> QED
    BY <1>1 DEF Before, IsState

\* What is held, is held of a state with the copies of own put back.
LEMMA Rebased ==
    ASSUME NEW a, NEW t, NEW all, NEW lent, Held(a, t, all, lent), NEW own \in SUBSET all
    PROVE  \E b : /\ Held(b, t, own, lent)
                  /\ \A fd \in 0..2 : fd \notin own => b.open[fd] = t.open[fd]
<1> DEFINE b == Before(t, own, lent)
           D == DOMAIN t.open \ (lent \cup CopiesAt(t, own) \cup FilesAt(t))
<1>1. /\ IsState(t) /\ Accounted(a, t, all, lent) /\ KernelOK(a) /\ KernelOK(t)
      /\ all \subseteq 0..2 /\ all \subseteq DOMAIN t.saved_fds
    BY DEF Held, KernelOK
<1>2. /\ IsState(b) /\ b.fds = <<>>
      /\ b.open = [n \in D |-> IF n \in own THEN t.open[t.saved_fds[n]] ELSE t.open[n]]
      /\ b.cloexec = t.cloexec \cap D
    BY <1>1, BeforeFields
<1>3. \A n : n \in D <=> n \in DOMAIN t.open /\ n \notin lent
                         /\ (\A f \in own : n # t.saved_fds[f]) /\ (\A f \in Files(t) : n # t.fds[f].raw)
    BY DEF CopiesAt, FilesAt
<1> HIDE DEF b, D
<1>4. DOMAIN b.open = D /\ IsFunction(b.open)
    BY <1>2 DEF IsFunction
<1>5. DOMAIN a.open \subseteq D
    BY <1>1, <1>3 DEF Accounted
<1>6. KernelOK(b)
    <2>1. IsFiniteSet(D)
        <3>1. D \subseteq DOMAIN t.open /\ IsFiniteSet(DOMAIN t.open)
            BY <1>1, <1>3 DEF KernelOK
        <3> QED
            BY ONLY <3>1, FS_Subset
    <2>2. 0..2 \subseteq D /\ D \subseteq Nat
        BY <1>1, <1>3, <1>5 DEF KernelOK
    <2>3. b.cloexec \subseteq D \ (0..2)
        BY <1>1, <1>2 DEF KernelOK
    <2> QED
        BY <1>2, <1>4, <2>1, <2>2, <2>3 DEF KernelOK
<1>7. Accounted(b, t, own, lent)
    BY <1>1, <1>3, <1>4 DEF Accounted
<1>8. Contents(b, t, own)
    <2>1. \A n \in D : n \notin own => t.open[n] = b.open[n]
        BY <1>2
    <2>2. \A f \in own : f \in D /\ t.open[t.saved_fds[f]] = b.open[f]
        <3>1. \A f \in own : f \in 0..2
            BY <1>1
        <3>2. \A f \in own : f \in D
            BY <1>5, <3>1, <1>1 DEF KernelOK
        <3> QED
            BY <1>2, <3>2
    <2>3. \A n \in D : n \in t.cloexec <=> n \in b.cloexec
        BY <1>2
    <2> QED
        BY <1>4, <2>1, <2>2, <2>3 DEF Contents
<1>9. \A fd \in 0..2 : fd \notin own => b.open[fd] = t.open[fd]
    BY <1>1, <1>2, <1>5 DEF KernelOK
<1>10. Held(b, t, own, lent)
    <2>1. own \subseteq 0..2 /\ own \subseteq DOMAIN t.saved_fds
        BY <1>1
    <2> QED
        BY <1>1, <1>6, <1>7, <1>8, <2>1 DEF Held
<1> QED
    BY <1>9, <1>10

\* A command that keeps what is held leaves the streams alone.
KeepsHeld(t, own, lent, u, lent2) == \A b : Held(b, t, own, lent) => Held(b, u, own, lent2)
SameStreams(t, u) == \A fd \in Standard : u.open[fd] = t.open[fd]

LEMMA StreamsKept ==
    ASSUME NEW a, NEW t, NEW own, NEW lent, Held(a, t, own, lent), NEW u, NEW lent2,
           NEW none, none = {}, KeepsHeld(t, none, lent, u, lent2)
    PROVE  SameStreams(t, u)
<1>1. none \in SUBSET own
    OBVIOUS
<1>2. PICK b : Held(b, t, none, lent) /\ \A fd \in 0..2 : fd \notin none => b.open[fd] = t.open[fd]
    BY <1>1, Rebased
<1>3. Held(b, u, none, lent2)
    BY <1>2 DEF KeepsHeld
<1>4. \A fd \in 0..2 : b.open[fd] = u.open[fd]
    BY <1>3, HeldStreams
<1> QED
    BY <1>2, <1>4 DEF SameStreams, Standard

-----------------------------------------------------------------------------
(* What redirections of the shell itself open                              *)

OfRedirected == INSTANCE OneAfterAnother WITH Step <- Redirected

LEMMA RedirectedInOrder ==
    ASSUME NEW rs, DOMAIN rs = 1..Len(rs), NEW env
    PROVE  AllRedirected(env, rs) = OfRedirected!Folded(rs, env)
BY DEF AllRedirected, FoldLeft, MapThenFoldSet, Max, OfRedirected!Folded, OfRedirected!Folds, OfRedirected!Greatest

LEMMA NoneRedirected ==
    ASSUME NEW env
    PROVE  AllRedirected(env, <<>>) = env
<1> DEFINE none == <<>>
<1>1. Len(none) = 0 /\ DOMAIN none = 1..Len(none)
    OBVIOUS
<1> HIDE DEF none
<1>2. AllRedirected(env, none) = OfRedirected!Folded(none, env)
    BY <1>1, RedirectedInOrder
<1>3. OfRedirected!Folded(none, env) = env
    BY <1>1, OfRedirected!FoldOfNothing
<1> QED
    BY <1>2, <1>3 DEF none

LEMMA OpenedOn ==
    ASSUME NEW a, NEW t, NEW own, NEW lent, Held(a, t, own, lent), NEW fd, NEW file, NEW creating,
           CanOpen(t, file, creating), NEW u, u = open_fd(t, fd, file, creating).s
    PROVE  fd \in DOMAIN u.fds /\ u.fds[fd].kind = "File" /\ u.open[u.fds[fd].raw] = file
<1> DEFINE s == Created(t, file)
           n == Lowest(s.open)
           v == Opened(s, file)
           new == Descriptor("File", n)
<1>1. Held(a, s, own, lent) /\ s.open = t.open
    BY CreatedKeeps
<1>2. u = Insert(v, fd, new)
    BY <1>1 DEF open_fd, Ok
<1>3. new.kind = "File" /\ new.raw = n
    BY DEF Descriptor
<1> HIDE DEF s, new
<1>4. n \in Nat /\ n \notin DOMAIN s.open /\ IsState(s)
    BY <1>1, FreshNumber DEF Held, KernelOK
<1>5. IsState(v) /\ v.open = With(s.open, n, file) /\ v.fds = s.fds
    BY <1>4, OpenedFields
<1> HIDE DEF v
<1>6. Owned(v, {fd}) = Owned(s, {fd})
    BY <1>5 DEF Owned
<1>7. u.open = Without(v.open, Owned(v, {fd})) /\ u.fds = With(v.fds, fd, new)
    BY ONLY <1>2, <1>5, InsertFields
<1> HIDE DEF n
<1>8. n \notin Owned(s, {fd})
    BY ONLY <1>1, <1>4, OwnedFacts
<1>9. u.open[n] = file
    <2>1. n \in DOMAIN v.open /\ v.open[n] = file
        BY <1>5 DEF With
    <2> QED
        BY <1>6, <1>7, <1>8, <2>1 DEF Without, Restrict
<1>10. fd \in DOMAIN u.fds /\ u.fds[fd] = new
    BY <1>7 DEF With
<1> QED
    BY <1>3, <1>9, <1>10

LEMMA FileBehind ==
    ASSUME NEW a, NEW t, NEW own, NEW lent, Held(a, t, own, lent), NEW r, r.fd \in own,
           NEW creating, CanOpen(t, r.file, creating),
           NEW u, u = Close(OnFileAndKernel(t, r, creating), {Handle(t)})
    PROVE  u.open[r.fd] = r.file
<1> DEFINE v == Opened(t, r.file)
           w == OnFile(t, r, creating)
           raw == get_raw_fd(w, r.fd)
           x == Dup2(w, raw, r.fd)
           n == Lowest(t.open)
           lent2 == lent \cup {n}
<1>1. Held(a, v, own, lent2)
    BY OpenedLends
<1>2. v.exists = t.exists
    BY OpenedFields DEF Held, KernelOK
<1>3. CanOpen(v, r.file, creating)
    BY <1>2 DEF CanOpen, Exists
<1>4. w = open_fd(v, r.fd, r.file, creating).s
    BY DEF OnFile
<1>5. u = Close(x, {n})
    BY DEF OnFileAndKernel, Handle
<1>6. raw = get_raw_fd(w, r.fd) /\ x = Dup2(w, raw, r.fd)
    OBVIOUS
<1>7. n \notin 0..2
    BY FreshNumber
<1> HIDE DEF v, w, raw, x, n, lent2
<1>8. Held(a, w, own, lent2)
    BY <1>1, <1>4, OpenKeeps
<1>9. r.fd \in DOMAIN w.fds /\ w.fds[r.fd].kind = "File" /\ w.open[w.fds[r.fd].raw] = r.file
    BY ONLY <1>1, <1>3, <1>4, OpenedOn
<1>10. raw = w.fds[r.fd].raw /\ w.open[raw] = r.file
    BY <1>6, <1>9 DEF get_raw_fd
<1>11. raw \in DOMAIN w.open /\ raw \notin 0..2 /\ r.fd \in 0..2
    <2>1. r.fd \in Files(w)
        BY <1>9 DEF Files
    <2>2. w.fds[r.fd].raw \in DOMAIN w.open /\ w.fds[r.fd].raw \notin DOMAIN a.open
        BY <1>8, <2>1 DEF Held, Accounted
    <2> QED
        BY <1>8, <1>10, <2>2 DEF Held, KernelOK
<1>12. IsState(w) /\ raw # r.fd /\ r.fd # n
    BY <1>7, <1>8, <1>11 DEF Held, KernelOK
<1>13. IsState(x) /\ x.open = With(w.open, r.fd, w.open[raw])
    BY <1>6, <1>12, Dup2Fields
<1>14. u.open = Without(x.open, {n})
    BY <1>5, <1>13, CloseFields
<1> QED
    BY <1>10, <1>12, <1>13, <1>14 DEF With, Without, Restrict

LEMMA OkFields ==
    ASSUME NEW s
    PROVE  Ok(s).ok /\ Ok(s).s = s
BY DEF Ok

LEMMA FailedFields ==
    ASSUME NEW s
    PROVE  ~Failed(s).ok /\ Failed(s).s = s
BY DEF Failed

\* A redirection of the shell opens its own descriptor, and no other stream.
LEMMA ToShellStreams ==
    ASSUME NEW a, NEW t, NEW lent, Held(a, t, Standard, lent), DOMAIN t.fds \subseteq Standard,
           NEW r, Plain(r), NEW result, result = ApplyToShell(t, r), result.ok, NEW u, u = result.s
    PROVE  u.open[r.fd] = r.file /\ \A fd \in Standard : fd # r.fd => u.open[fd] = t.open[fd]
<1> DEFINE own == {r.fd}
<1>1. own \in SUBSET Standard /\ r.fd \in Standard
    BY DEF Plain, Standard
<1>2. \A fd \in Standard : fd \in own <=> fd = r.fd
    OBVIOUS
<1>3. r.fd \in own
    OBVIOUS
<1> HIDE DEF own
<1>4. PICK b : Held(b, t, own, lent) /\ \A fd \in 0..2 : fd \notin own => b.open[fd] = t.open[fd]
    BY <1>1, Rebased

\* The file is opened after t has been given the name.
<1>5. ASSUME NEW v, Held(b, v, own, lent), NEW creating, CanOpen(v, r.file, creating),
             u = Close(OnFileAndKernel(v, r, creating), {Handle(v)})
      PROVE  u.open[r.fd] = r.file /\ \A fd \in Standard : fd # r.fd => u.open[fd] = t.open[fd]
    <2>1. u.open[r.fd] = r.file
        BY <1>3, <1>5, FileBehind
    <2>2. Held(b, u, own, lent)
        BY <1>3, <1>5, OnFileAndBack
    <2>3. ASSUME NEW fd \in Standard, fd # r.fd PROVE u.open[fd] = t.open[fd]
        <3>1. fd \in DOMAIN b.open /\ fd \notin own /\ fd \in 0..2
            BY <1>2, <1>4, <2>3 DEF Held, KernelOK, Standard
        <3>2. u.open[fd] = b.open[fd]
            BY <2>2, <3>1 DEF Held, Contents
        <3> QED
            BY <1>4, <3>1, <3>2
    <2> QED
        BY <2>1, <2>3
<1>6. CASE r.op = "<"
    <2>1. r.fd = 0 /\ result = apply_input_redirection(t, r, FALSE)
        BY <1>6 DEF Plain, Writes, ApplyToShell, Apply
    <2> DEFINE creating == FALSE
    <2>2. CanOpen(t, r.file, creating)
        <3>1. ~CanOpen(t, r.file, creating) => result = Failed(t)
            BY <2>1, Zenon DEF apply_input_redirection
        <3> QED
            BY <3>1, FailedFields
    <2>3. u = Close(OnFileAndKernel(t, r, creating), {Handle(t)})
        <3>1. result = Ok(Close(OnFileAndKernel(t, r, creating), {Handle(t)}))
            BY <2>1, <2>2 DEF apply_input_redirection
        <3> QED
            BY <3>1, OkFields
    <2> HIDE DEF creating
    <2> QED
        BY <1>4, <1>5, <2>2, <2>3
<1>7. CASE Writes(r)
    <2>1. result = apply_output_redirection(t, r, FALSE)
        BY <1>7 DEF Writes, ApplyToShell, Apply
    <2> DEFINE v == Created(t, r.file)
               creating == TRUE
    <2>2. Held(b, v, own, lent) /\ v.open = t.open
        BY <1>4, CreatedKeeps
    <2>3. ~(Refused(t, r) \/ ~CanOpen(t, r.file, TRUE)) /\ ~Refused(v, r)
        <3>1. Refused(t, r) \/ ~CanOpen(t, r.file, TRUE) => result = Failed(t)
            BY <2>1 DEF apply_output_redirection
        <3>2. ~(Refused(t, r) \/ ~CanOpen(t, r.file, TRUE)) /\ Refused(v, r) => result = Failed(v)
            BY <2>1 DEF apply_output_redirection
        <3> QED
            BY <3>1, <3>2, FailedFields
    <2>4. u = Close(OnFileAndKernel(v, r, creating), {Handle(v)})
        <3>1. result = Ok(Close(OnFileAndKernel(v, r, creating), {Handle(t)}))
            BY <2>1, <2>3 DEF apply_output_redirection
        <3>2. Handle(v) = Handle(t)
            BY <2>2 DEF Handle
        <3> QED
            BY <3>1, <3>2, OkFields
    <2>5. CanOpen(v, r.file, creating)
        BY <2>3 DEF CanOpen
    <2> HIDE DEF v, creating
    <2> QED
        BY <1>5, <2>2, <2>4, <2>5
<1> QED
    BY <1>6, <1>7 DEF Plain

\* The meaning of such a redirection.
LEMMA RedirectedStream ==
    ASSUME NEW env, Standard \subseteq DOMAIN env, NEW r, Plain(r), NEW env2, env2 = Redirected(env, r)
    PROVE  /\ DOMAIN env2 = DOMAIN env
           /\ env2[r.fd] = r.file
           /\ \A fd \in Standard : fd # r.fd => env2[fd] = env[fd]
<1>1. r.fd \in DOMAIN env /\ r.op \in {"<", ">", ">|", ">>"}
    BY DEF Plain, Writes, Standard
<1>2. env2 = [env EXCEPT ![r.fd] = r.file]
    BY <1>1 DEF Redirected
<1> QED
    BY <1>1, <1>2

\* What is open agrees with what is meant.
AgreesWith(t, env) == \A fd \in Standard : Agrees(t.open[fd], env[fd])

LEMMA AllToShellStreams ==
    ASSUME NEW a, NEW t, NEW lent, Held(a, t, Standard, lent), DOMAIN t.fds \subseteq Standard,
           NEW rs, Len(rs) \in Nat, DOMAIN rs = 1..Len(rs), \A i \in 1..Len(rs) : Plain(rs[i]),
           NEW env, Standard \subseteq DOMAIN env, AgreesWith(t, env),
           NEW last, last = AllToShell(rs, t), last.ok
    PROVE  AgreesWith(last.s, AllRedirected(env, rs))
<1> DEFINE N == Len(rs)
           Good(v, e) == /\ Held(a, v, Standard, lent) /\ DOMAIN v.fds \subseteq Standard
                         /\ Standard \subseteq DOMAIN e
           Both(result, e) == Good(result.s, e) /\ (result.ok => AgreesWith(result.s, e))
<1>1. PICK results : OfApplyToShell!Chain(rs, Ok(t), last, results)
    BY AppliesToShell DEF AllToShell
<1>2. AllRedirected(env, rs) = OfRedirected!Folded(rs, env)
    BY RedirectedInOrder
<1>3. PICK envs : OfRedirected!FoldChain(rs, env, OfRedirected!Folded(rs, env), envs)
    BY OfRedirected!FoldInOrder
<1> DEFINE S == {n \in 0..N : Both(results[n], envs[n])}
<1>4. 0 \in S
    <2>1. results[0] = Ok(t) /\ envs[0] = env
        BY <1>1, <1>3 DEF OfApplyToShell!Chain, OfRedirected!FoldChain
    <2>2. results[0].s = t
        BY <2>1, OkFields
    <2>3. Both(results[0], envs[0])
        BY <2>1, <2>2
    <2> HIDE DEF Both
    <2> QED
        BY <2>3
<1>5. ASSUME NEW n \in 1..N, n - 1 \in S
      PROVE  n \in S
    <2> DEFINE p == results[n - 1]
               q == results[n]
               e == envs[n - 1]
               e2 == envs[n]
               r == rs[n]
    <2>1. Both(p, e)
        BY <1>5
    <2>2. Plain(r) /\ e2 = Redirected(e, r)
        BY <1>3 DEF OfRedirected!FoldChain
    <2>3. (p.ok => q = ApplyToShell(p.s, r)) /\ (~p.ok => q = p)
        BY <1>1 DEF OfApplyToShell!Chain
    <2> HIDE DEF p, q, e, e2, r
    <2>4. /\ DOMAIN e2 = DOMAIN e
          /\ e2[r.fd] = r.file
          /\ \A fd \in Standard : fd # r.fd => e2[fd] = e[fd]
        BY <2>1, <2>2, RedirectedStream
    <2>5. CASE p.ok
        <3>1. Held(a, q.s, Standard, lent) /\ DOMAIN q.s.fds \subseteq Standard
            BY <2>1, <2>2, <2>3, <2>5, ToShellKeeps
        <3>2. ASSUME q.ok PROVE AgreesWith(q.s, e2)
            <4>1. q.s.open[r.fd] = r.file /\ \A fd \in Standard : fd # r.fd => q.s.open[fd] = p.s.open[fd]
                BY <2>1, <2>2, <2>3, <2>5, <3>2, ToShellStreams
            <4>2. AgreesWith(p.s, e)
                BY <2>1, <2>5
            <4>3. \A fd \in Standard : q.s.open[fd] = e2[fd] \/ Agrees(q.s.open[fd], e2[fd])
                BY <2>4, <4>1, <4>2 DEF AgreesWith
            <4> QED
                BY <4>3 DEF AgreesWith, Agrees
        <3>3. Both(q, e2)
            BY <2>1, <2>4, <3>1, <3>2
        <3> HIDE DEF Both
        <3> QED
            BY <3>3 DEF q, e2
    <2>6. CASE ~p.ok
        <3>1. Both(q, e2)
            BY <2>1, <2>3, <2>4, <2>6
        <3> HIDE DEF Both
        <3> QED
            BY <3>1 DEF q, e2
    <2> QED
        BY <2>5, <2>6
<1> HIDE DEF Both
<1>6. S = 0..N
    <2> HIDE DEF S
    <2>1. S \in SUBSET (0..N)
        BY DEF S
    <2> QED
        BY <1>4, <1>5, <2>1, OfSave!UpTo
<1>7. N \in S
    BY <1>6
<1>8. results[N] = last /\ envs[N] = OfRedirected!Folded(rs, env)
    BY <1>1, <1>3 DEF OfApplyToShell!Chain, OfRedirected!FoldChain
<1>9. Both(last, AllRedirected(env, rs))
    BY <1>2, <1>7, <1>8
<1> QED
    BY <1>9 DEF Both

\* The streams that the body of a group or a stage finds.
Hooked(t, hook) == [fd \in Standard |-> IF hook # NoRaw /\ fd = 0 THEN t.open[hook] ELSE t.open[fd]]

LEMMA PreparedStreams ==
    ASSUME NEW a, NEW t, NEW lent, Held(a, t, {}, lent),
           DOMAIN t.fds \subseteq Standard, DOMAIN t.saved_fds \subseteq Standard,
           NEW rs, Len(rs) \in Nat, DOMAIN rs = 1..Len(rs), \A i \in 1..Len(rs) : Plain(rs[i]),
           NEW hook, hook = NoRaw \/ hook \in lent,
           NEW prepared \in Prepared(t, rs, hook), prepared.ok,
           NEW env, Standard \subseteq DOMAIN env, \A fd \in Standard : Agrees(Hooked(t, hook)[fd], env[fd])
    PROVE  AgreesWith(prepared.s, AllRedirected(env, rs))
<1> DEFINE saved(order) == save_all_fds(t, order)
           hooked(order) == IF hook # NoRaw THEN Dup2(saved(order).s, hook, 0) ELSE saved(order).s
           applied(order) == apply_redirections(rs, hooked(order), FALSE)
           outcomes(order) == IF ~saved(order).ok \/ applied(order).ok
                              THEN {IF saved(order).ok THEN applied(order) ELSE saved(order)}
                              ELSE {Failed(restore_all_fds(applied(order).s, back).s) :
                                       back \in Orders(applied(order).s.saved_fds)}
<1>1. Prepared(t, rs, hook) = UNION {outcomes(order) : order \in Orders(t.fds)}
    BY DEF Prepared
<1> HIDE DEF outcomes
<1>2. PICK order \in Orders(t.fds) : prepared \in outcomes(order)
    BY <1>1
<1> DEFINE sv == saved(order)
           hk == hooked(order)
           ap == applied(order)
<1>3. /\ sv.ok /\ Held(a, sv.s, Standard, lent) /\ sv.s.fds = t.fds /\ sv.s.child = t.child
      /\ DOMAIN sv.s.saved_fds = Standard
      /\ Unmoved(t, sv.s)
    BY SaveAllStandard
<1>4. prepared \in IF ~sv.ok \/ ap.ok THEN {IF sv.ok THEN ap ELSE sv}
                   ELSE {Failed(restore_all_fds(ap.s, back).s) : back \in Orders(ap.s.saved_fds)}
    BY <1>2 DEF outcomes
<1>5. hk = IF hook # NoRaw THEN Dup2(sv.s, hook, 0) ELSE sv.s
    OBVIOUS
<1>6. ap = AllToShell(rs, hk)
    BY DEF AllToShell
<1> HIDE DEF sv, hk, ap, saved, hooked, applied
<1>7. ap = prepared
    <2>1. ASSUME ~ap.ok PROVE FALSE
        <3>1. PICK back : prepared = Failed(restore_all_fds(ap.s, back).s)
            BY <1>3, <1>4, <2>1
        <3> QED
            BY <3>1, FailedFields
    <2> QED
        BY <1>3, <1>4, <2>1
<1>8. Standard \subseteq DOMAIN t.open
    BY DEF Held, KernelOK, Standard
<1>9. Held(a, hk, Standard, lent) /\ hk.fds = sv.s.fds /\ \A fd \in Standard : hk.open[fd] = Hooked(t, hook)[fd]
    <2>1. CASE hook = NoRaw
        <3>1. \A fd \in Standard : sv.s.open[fd] = t.open[fd]
            BY <1>3, <1>8 DEF Unmoved
        <3> QED
            BY <1>3, <1>5, <2>1, <3>1 DEF Hooked
    <2>2. CASE hook # NoRaw
        <3>1. hook \in DOMAIN t.open /\ hook \notin Standard
            BY <2>2 DEF Held, Accounted, KernelOK, Standard
        <3>2. hk = Dup2(sv.s, hook, 0) /\ 0 \in Standard
            BY <1>5, <2>2 DEF Standard
        <3>3. hook \in DOMAIN sv.s.open /\ sv.s.open[hook] = t.open[hook] /\ IsState(sv.s)
            BY <1>3, <3>1 DEF Unmoved, Held, KernelOK
        <3>4. hk.open = With(sv.s.open, 0, sv.s.open[hook])
            <4>1. hook # 0
                BY <3>1, <3>2
            <4> QED
                BY <3>2, <3>3, <4>1, Dup2Fields
        <3>5. \A fd \in Standard : fd \in DOMAIN sv.s.open /\ sv.s.open[fd] = t.open[fd]
            BY <1>3, <1>8 DEF Unmoved
        <3>6. \A fd \in Standard : hk.open[fd] = IF fd = 0 THEN t.open[hook] ELSE t.open[fd]
            BY <3>2, <3>3, <3>4, <3>5 DEF With
        <3>7. Held(a, hk, Standard, lent) /\ hk.fds = sv.s.fds
            BY <1>3, <3>2, <3>3, Dup2Keeps
        <3> QED
            BY <2>2, <3>6, <3>7 DEF Hooked
    <2> QED
        BY <2>1, <2>2
<1>10. DOMAIN hk.fds \subseteq Standard /\ AgreesWith(hk, env)
    BY <1>3, <1>9 DEF AgreesWith
<1>11. AgreesWith(ap.s, AllRedirected(env, rs))
    <2>1. Held(a, hk, Standard, lent) /\ ap.ok
        BY <1>7, <1>9
    <2> QED
        BY <1>6, <1>10, <2>1, AllToShellStreams
<1> QED
    BY <1>7, <1>11

LEMMA AllRedirectedKeeps ==
    ASSUME NEW rs, Len(rs) \in Nat, DOMAIN rs = 1..Len(rs), \A i \in 1..Len(rs) : Plain(rs[i]),
           NEW env, Standard \subseteq DOMAIN env, NEW last, last = AllRedirected(env, rs)
    PROVE  /\ Standard \subseteq DOMAIN last
           /\ \A fd \in Standard : (\A i \in 1..Len(rs) : rs[i].fd # fd) => last[fd] = env[fd]
<1> DEFINE N == Len(rs)
           Unnamed(fd) == \A i \in 1..N : rs[i].fd # fd
           Good(e) == Standard \subseteq DOMAIN e /\ \A fd \in Standard : Unnamed(fd) => e[fd] = env[fd]
<1>1. AllRedirected(env, rs) = OfRedirected!Folded(rs, env)
    BY RedirectedInOrder
<1>2. PICK envs : OfRedirected!FoldChain(rs, env, OfRedirected!Folded(rs, env), envs)
    BY OfRedirected!FoldInOrder
<1> DEFINE S == {n \in 0..N : Good(envs[n])}
<1>3. 0 \in S
    <2>1. envs[0] = env
        BY <1>2 DEF OfRedirected!FoldChain
    <2>2. Good(envs[0])
        BY <2>1
    <2> HIDE DEF Good
    <2> QED
        BY <2>2
<1>4. ASSUME NEW n \in 1..N, n - 1 \in S
      PROVE  n \in S
    <2> DEFINE e == envs[n - 1]
               e2 == envs[n]
               r == rs[n]
    <2>1. Good(e)
        BY <1>4
    <2>2. Plain(r) /\ e2 = Redirected(e, r)
        BY <1>2 DEF OfRedirected!FoldChain
    <2>3. \A fd : Unnamed(fd) => r.fd # fd
        OBVIOUS
    <2> HIDE DEF e, e2, r, Unnamed
    <2>4. /\ DOMAIN e2 = DOMAIN e
          /\ \A fd \in Standard : fd # r.fd => e2[fd] = e[fd]
        BY <2>1, <2>2, RedirectedStream
    <2>5. Good(e2)
        BY <2>1, <2>3, <2>4
    <2> HIDE DEF Good
    <2> QED
        BY <2>5 DEF e2
<1> HIDE DEF Good
<1>5. S = 0..N
    <2> HIDE DEF S
    <2>1. S \in SUBSET (0..N)
        BY DEF S
    <2> QED
        BY <1>3, <1>4, <2>1, OfSave!UpTo
<1>6. N \in S
    BY <1>5
<1>7. envs[N] = OfRedirected!Folded(rs, env)
    BY <1>2 DEF OfRedirected!FoldChain
<1>8. Good(last)
    BY <1>1, <1>6, <1>7
<1> QED
    BY <1>8 DEF Good

-----------------------------------------------------------------------------
(* What a step leaves of the table                                         *)

LEMMA RedirectionShape ==
    ASSUME NEW rs \in Redirections
    PROVE  /\ Len(rs) \in Nat /\ DOMAIN rs = 1..Len(rs)
           /\ \A i \in 1..Len(rs) : rs[i].op \in Operators /\ IsRedirection(rs[i])
BY RedirectionsAssumption

\* The numbers of S stay open, on the same.
Undisturbed(t, u, S) == \A n \in S : n \in DOMAIN u.open /\ u.open[n] = t.open[n]

IsInput(t, n) == n \in DOMAIN t.open /\ t.open[n] \in {"pipe", "null"}

\* What is open for an outer table stays open, beside what the innermost has.
IsBeside(a, t, n) == n \in DOMAIN a.open /\ n \notin Standard

LEMMA BesideApart ==
    ASSUME NEW a, NEW t, NEW own, NEW lent, Held(a, t, own, lent), NEW n, IsBeside(a, t, n)
    PROVE  /\ n \in DOMAIN t.open /\ n \notin Standard /\ n \notin lent
           /\ n \notin CopiesAt(t, own) /\ n \notin FilesAt(t)
BY DEF Held, Accounted, IsBeside, CopiesAt, FilesAt

LEMMA LentApart ==
    ASSUME NEW a, NEW t, NEW own, NEW lent, Held(a, t, own, lent), NEW n \in lent
    PROVE  /\ n \in DOMAIN t.open /\ n \notin Standard
           /\ n \notin CopiesAt(t, own) /\ n \notin FilesAt(t)
<1>1. n \in DOMAIN t.open /\ n \notin DOMAIN a.open
    BY DEF Held, Accounted
<1>2. n \notin CopiesAt(t, own) /\ n \notin FilesAt(t)
    BY DEF Held, Accounted, CopiesAt, FilesAt
<1> QED
    BY <1>1, <1>2 DEF Held, KernelOK, Standard

LEMMA FileApart ==
    ASSUME NEW a, NEW t, NEW own, NEW lent, Held(a, t, own, lent), NEW fd \in DOMAIN t.fds, t.fds[fd].kind = "File"
    PROVE  /\ t.fds[fd].raw \in DOMAIN t.open /\ t.fds[fd].raw \notin Standard /\ t.fds[fd].raw \notin lent
           /\ t.fds[fd].raw \notin CopiesAt(t, own)
<1>1. fd \in Files(t)
    BY DEF Files
<1> QED
    BY <1>1 DEF Held, Accounted, CopiesAt, KernelOK, Standard

\* The table is as it was, or empty.
TableOpen(t, u) == u.fds = <<>> \/ (u.fds = t.fds /\ Undisturbed(t, u, FilesAt(t)))

\* A command that changes nothing but its pipe.
LEMMA PreviousClosed ==
    ASSUME IsState(d), NEW v, IsState(v), v.fds = d.fds, Undisturbed(d, v, DOMAIN d.open),
           NEW u, u = WithoutPrevious(v)
    PROVE  /\ u.fds = d.fds
           /\ \A n \in DOMAIN d.open : ~(InPipeline /\ n = Top.pipe /\ n # NoRaw) => n \in DOMAIN u.open /\ u.open[n] = d.open[n]
<1> DEFINE S == {Top.pipe} \ {NoRaw}
<1>1. CASE InPipeline
    <2>1. u = Close(v, S)
        BY <1>1 DEF WithoutPrevious
    <2>2. \A n : n \in S => n = Top.pipe /\ n # NoRaw
        OBVIOUS
    <2> HIDE DEF S
    <2>3. u.fds = v.fds /\ u.open = Without(v.open, S)
        BY <2>1, CloseFields
    <2>4. DOMAIN u.open = DOMAIN v.open \ S /\ \A n \in DOMAIN v.open \ S : u.open[n] = v.open[n]
        BY <2>3 DEF Without, Restrict
    <2> QED
        BY <1>1, <2>2, <2>3, <2>4 DEF Undisturbed
<1>2. CASE ~InPipeline
    BY <1>2 DEF WithoutPrevious, Undisturbed
<1> QED
    BY <1>1, <1>2

\* Collected output that is written opens nothing for good.
LEMMA AllOutputOpen ==
    ASSUME NEW a, NEW t, NEW own, NEW lent, Held(a, t, own, lent), NEW rs, Len(rs) \in Nat,
           NEW u, u = InOrder(rs, t, WriteOutput).s
    PROVE  u.open = t.open /\ u.fds = t.fds
<1> DEFINE N == Len(rs)
           last == InOrder(rs, t, WriteOutput)
           Good(v) == Held(a, v, own, lent) /\ v.open = t.open /\ v.fds = t.fds
<1>1. PICK results : OfWriteOutput!Chain(rs, Ok(t), last, results)
    BY WritesInOrder
<1> DEFINE S == {n \in 0..N : Good(results[n].s)}
<1>2. 0 \in S
    BY <1>1 DEF OfWriteOutput!Chain, Ok
<1>3. ASSUME NEW n \in 1..N, n - 1 \in S
      PROVE  n \in S
    <2>1. Good(results[n - 1].s)
        BY <1>3
    <2>2. CASE results[n - 1].ok
        <3>1. results[n] = WriteOutput(results[n - 1].s, rs[n])
            BY <1>1, <2>2 DEF OfWriteOutput!Chain
        <3> DEFINE v == results[n - 1].s
                   w == results[n].s
                   r == rs[n]
        <3>5. w = WriteOutput(v, r).s
            BY <3>1
        <3> HIDE DEF v, w, r
        <3>2. w = v \/ w = Created(v, r.file)
            BY <3>5 DEF WriteOutput, Ok, Failed
        <3>3. Held(a, v, own, lent)
            BY <2>1 DEF v
        <3>4. Held(a, w, own, lent) /\ w.open = v.open /\ w.fds = v.fds
            BY <3>2, <3>3, CreatedKeeps
        <3> QED
            BY <2>1, <3>4 DEF v, w
    <2>3. CASE ~results[n - 1].ok
        BY <1>1, <2>1, <2>3 DEF OfWriteOutput!Chain
    <2> QED
        BY <2>2, <2>3
<1> HIDE DEF Good
<1>4. N \in S
    <2>1. S = 0..N
        <3> HIDE DEF S
        <3>1. S \in SUBSET (0..N)
            BY DEF S
        <3> QED
            BY <1>2, <1>3, <3>1, OfSave!UpTo
    <2> QED
        BY <2>1
<1>5. results[N] = last
    BY <1>1 DEF OfWriteOutput!Chain
<1>6. Good(last.s)
    BY <1>4, <1>5
<1> QED
    BY <1>6 DEF Good

\* A table of Files, each open on what that of t is open on.
AsIn(t, v) ==
    /\ KernelOK(v) /\ DOMAIN v.fds = DOMAIN t.fds
    /\ \A fd \in DOMAIN t.fds : /\ v.fds[fd].kind = "File" /\ v.fds[fd].raw \in DOMAIN v.open
                                /\ v.open[v.fds[fd].raw] = t.open[t.fds[fd].raw]

LEMMA CloneAsIn ==
    ASSUME NEW t, NEW v, AsIn(t, v), NEW fd \in DOMAIN t.fds, NEW u, u = CloneOf(v, fd).s
    PROVE  AsIn(t, u)
<1> DEFINE n == Lowest(v.open)
           content == v.open[v.fds[fd].raw]
           w == Opened(v, content)
           new == Descriptor("File", n)
<1>1. u = [w EXCEPT !.fds = With(w.fds, fd, new)]
    <2>1. u = [w EXCEPT !.fds = With(@, fd, new)]
        BY DEF CloneOf, Ok, Failed, AsIn
    <2> QED
        BY <2>1
<1>2. /\ IsState(w) /\ w.open = With(v.open, n, content) /\ w.cloexec = Plus(v.cloexec, n)
      /\ w.fds = v.fds
    BY OpenedFields DEF AsIn, KernelOK
<1>3. new.kind = "File" /\ new.raw = n
    BY DEF Descriptor
<1>4. n \in Nat /\ n \notin DOMAIN v.open
    BY LowestIsFree DEF AsIn, KernelOK
<1>5. 0..2 \subseteq DOMAIN v.open /\ KernelOK(v)
    BY DEF AsIn, KernelOK
<1>6. content = t.open[t.fds[fd].raw]
    BY DEF AsIn
<1> HIDE DEF w, new, n, content
<1>7. IsFunction(With(w.fds, fd, new))
    BY WithFacts
<1>8. /\ IsState(u) /\ u.open = w.open /\ u.cloexec = w.cloexec /\ u.fds = With(w.fds, fd, new)
    BY <1>1, <1>2, <1>7 DEF IsState
<1>9. KernelOK(u)
    <2>1. \A m \in u.cloexec : m \in v.cloexec \/ m = n
        BY <1>2, <1>8 DEF Plus
    <2>2. n \notin 0..2
        BY <1>4, <1>5
    <2>3. u.open = With(v.open, n, content)
        BY <1>2, <1>8
    <2> QED
        BY <1>4, <1>5, <1>8, <2>1, <2>2, <2>3, KernelWith
<1>10. /\ DOMAIN u.fds = DOMAIN t.fds /\ u.fds[fd] = new
       /\ \A f \in DOMAIN t.fds : f # fd => u.fds[f] = v.fds[f]
    BY <1>2, <1>8 DEF With, AsIn
<1>11. /\ DOMAIN u.open = DOMAIN v.open \cup {n} /\ u.open[n] = content
       /\ \A m \in DOMAIN v.open : u.open[m] = v.open[m]
    BY <1>2, <1>4, <1>8 DEF With
<1>12. ASSUME NEW f \in DOMAIN t.fds
       PROVE  /\ u.fds[f].kind = "File" /\ u.fds[f].raw \in DOMAIN u.open
              /\ u.open[u.fds[f].raw] = t.open[t.fds[f].raw]
    <2>1. CASE f = fd
        BY <1>3, <1>6, <1>10, <1>11, <2>1
    <2>2. CASE f # fd
        BY <1>10, <1>11, <2>2 DEF AsIn
    <2> QED
        BY <2>1, <2>2
<1> QED
    BY <1>9, <1>10, <1>12 DEF AsIn

LEMMA CloneAllAsIn ==
    ASSUME NEW t, AsIn(t, t), DOMAIN t.fds \subseteq 0..2, NEW order \in Orders(t.fds),
           NEW u, u = deep_clone(t, order).s
    PROVE  AsIn(t, u)
<1> DEFINE N == Len(order)
           last == deep_clone(t, order)
<1>1. N \in Nat /\ \A i \in 1..N : order[i] \in DOMAIN t.fds
    <2>1. DOMAIN t.fds \subseteq 0..2 /\ order \in Orders(t.fds)
        OBVIOUS
    <2> QED
        BY ONLY <2>1, OrderFacts
<1>2. PICK results : OfClone!Chain(order, Ok(t), last, results)
    BY <1>1, ClonesInOrder
<1> DEFINE S == {n \in 0..N : AsIn(t, results[n].s)}
<1>3. 0 \in S
    BY <1>1, <1>2 DEF OfClone!Chain, Ok
<1>4. ASSUME NEW n \in 1..N, n - 1 \in S
      PROVE  n \in S
    <2>1. AsIn(t, results[n - 1].s)
        BY <1>4
    <2>2. CASE results[n - 1].ok
        <3>1. results[n] = CloneOf(results[n - 1].s, order[n])
            BY <1>2, <2>2 DEF OfClone!Chain
        <3> DEFINE v == results[n - 1].s
                   fd == order[n]
                   w == results[n].s
        <3>2. AsIn(t, v) /\ fd \in DOMAIN t.fds /\ w = CloneOf(v, fd).s
            BY <1>1, <2>1, <3>1
        <3> HIDE DEF v, fd, w
        <3>3. AsIn(t, w)
            BY <3>2, CloneAsIn
        <3> QED
            BY <3>3 DEF w
    <2>3. CASE ~results[n - 1].ok
        BY <1>2, <2>1, <2>3 DEF OfClone!Chain
    <2> QED
        BY <2>2, <2>3
<1>5. N \in S
    <2>1. S = 0..N
        <3> HIDE DEF S
        <3>1. S \in SUBSET (0..N)
            BY DEF S
        <3> QED
            BY <1>1, <1>3, <1>4, <3>1, OfSave!UpTo
    <2> QED
        BY <1>1, <2>1
<1>6. results[N] = last
    BY <1>2 DEF OfClone!Chain
<1> QED
    BY <1>5, <1>6

\* Everything that was saved is put back.
LEMMA RestoresTable ==
    ASSUME NEW t, DOMAIN t.fds \subseteq Standard, DOMAIN t.saved_fds = Standard,
           NEW back \in Orders(t.saved_fds), NEW u, u = restore_all_fds(t, back).s,
           NEW a, NEW lent, Held(a, t, Standard, lent)
    PROVE  Held(a, u, {}, lent) /\ u.fds = <<>>
<1>1. /\ Held(a, u, {}, lent)
      /\ \A fd \in DOMAIN u.fds : fd \in DOMAIN t.fds /\ fd \notin Standard
    BY RestoreAllStandard
<1>2. IsState(u) /\ DOMAIN u.fds = {}
    BY <1>1 DEF Held, KernelOK
<1> QED
    BY <1>1, <1>2, NoEntries

\* What was open is open on the same, but for the numbers of S.
Spares(t, u, S) == \A n \in DOMAIN t.open : n \notin S => n \in DOMAIN u.open /\ u.open[n] = t.open[n]

\* The table of t has an entry for fd.
EntryFor(t, u, fd, entry) ==
    /\ DOMAIN u.fds = DOMAIN t.fds \cup {fd} /\ u.fds[fd] = entry
    /\ \A f \in DOMAIN t.fds : f # fd => u.fds[f] = t.fds[f]

\* It is a File that is open on file.
FileFor(t, u, fd, file) ==
    \E n \in DOMAIN u.open : n \notin DOMAIN t.open /\ u.open[n] = file /\ EntryFor(t, u, fd, Descriptor("File", n))

LEMMA InsertEntry ==
    ASSUME NEW t, IsState(t), NEW fd, NEW entry, NEW u, u = Insert(t, fd, entry)
    PROVE  /\ EntryFor(t, u, fd, entry) /\ Spares(t, u, Owned(t, {fd})) /\ u.exists = t.exists
           /\ IsState(u) /\ u.child = t.child /\ u.saved_fds = t.saved_fds
           /\ DOMAIN u.open \subseteq DOMAIN t.open
<1> DEFINE S == Owned(t, {fd})
<1>1. /\ IsState(u) /\ u.open = Without(t.open, S) /\ u.fds = With(t.fds, fd, entry) /\ u.exists = t.exists
      /\ u.child = t.child /\ u.saved_fds = t.saved_fds
    BY InsertFields
<1> HIDE DEF S
<1>2. EntryFor(t, u, fd, entry)
    BY <1>1 DEF EntryFor, With
<1>3. Spares(t, u, S) /\ DOMAIN u.open \subseteq DOMAIN t.open
    BY <1>1 DEF Spares, Without, Restrict
<1> QED
    BY <1>1, <1>2, <1>3 DEF S

LEMMA OpensFile ==
    ASSUME NEW a, NEW t, NEW own, NEW lent, Held(a, t, own, lent), NEW fd, NEW file, NEW creating,
           CanOpen(t, file, creating), NEW u, u = open_fd(t, fd, file, creating).s
    PROVE  /\ FileFor(t, u, fd, file) /\ Spares(t, u, Owned(t, {fd}))
           /\ u.exists = Plus(t.exists, file) /\ u.child = t.child
<1> DEFINE s == Created(t, file)
           n == Lowest(t.open)
           v == Opened(s, file)
           entry == Descriptor("File", n)
           S == Owned(t, {fd})
<1>1. Held(a, s, own, lent) /\ s.open = t.open /\ s.fds = t.fds /\ s.child = t.child
    BY CreatedKeeps
<1>2. u = Insert(v, fd, entry)
    BY DEF open_fd, Ok
<1>3. s.exists = Plus(t.exists, file)
    <2>1. IsState(t)
        BY DEF Held, KernelOK
    <2> QED
        BY <2>1 DEF Created, Plus, IsState
<1>4. n \notin DOMAIN t.open /\ IsState(s)
    BY <1>1, FreshNumber DEF Held, KernelOK
<1> HIDE DEF s, entry
<1>5. /\ IsState(v) /\ v.open = With(s.open, Lowest(s.open), file) /\ v.fds = s.fds
      /\ v.exists = s.exists /\ v.child = s.child
    BY <1>4, OpenedFields
<1>6. v.open = With(t.open, n, file) /\ v.fds = t.fds
    BY <1>1, <1>5
<1> HIDE DEF v, n
<1>7. Owned(v, {fd}) = S
    BY <1>6 DEF Owned
<1> HIDE DEF S
<1>8. /\ EntryFor(v, u, fd, entry) /\ Spares(v, u, S) /\ u.exists = v.exists /\ u.child = v.child
    BY ONLY <1>2, <1>5, <1>7, InsertEntry
<1>9. EntryFor(t, u, fd, entry)
    BY <1>6, <1>8 DEF EntryFor
<1>10. DOMAIN v.open = DOMAIN t.open \cup {n} /\ v.open[n] = file /\ \A m \in DOMAIN t.open : m # n => v.open[m] = t.open[m]
    BY <1>6 DEF With
<1>11. n \notin S
    <2>1. \A m \in Owned(t, {fd}) : m \in DOMAIN t.open
        BY OwnedFacts
    <2> QED
        BY <1>4, <2>1 DEF S
<1>12. n \in DOMAIN u.open /\ u.open[n] = file
    BY <1>8, <1>10, <1>11 DEF Spares
<1>13. Spares(t, u, S)
    BY <1>4, <1>8, <1>10 DEF Spares
<1>14. FileFor(t, u, fd, file)
    BY <1>4, <1>9, <1>12 DEF FileFor, entry
<1> QED
    BY <1>1, <1>3, <1>5, <1>8, <1>13, <1>14 DEF S

\* The shell's own: its descriptor is opened on it, and the table has a File.
LEMMA OpensOwn ==
    ASSUME NEW a, NEW t, NEW own, NEW lent, Held(a, t, own, lent), NEW r, r.fd \in own,
           NEW creating, CanOpen(t, r.file, creating),
           NEW u, u = Close(OnFileAndKernel(t, r, creating), {Handle(t)})
    PROVE  FileFor(t, u, r.fd, r.file) /\ Spares(t, u, Plus(Owned(t, {r.fd}), r.fd))
<1> DEFINE v == Opened(t, r.file)
           w == OnFile(t, r, creating)
           raw == get_raw_fd(w, r.fd)
           x == Dup2(w, raw, r.fd)
           n == Lowest(t.open)
           lent2 == lent \cup {n}
           S == Owned(t, {r.fd})
<1>1. Held(a, v, own, lent2)
    BY OpenedLends
<1>2. v.exists = t.exists /\ v.fds = t.fds /\ v.open = With(t.open, n, r.file)
    BY OpenedFields DEF Held, KernelOK
<1>3. CanOpen(v, r.file, creating)
    BY <1>2 DEF CanOpen, Exists
<1>4. w = open_fd(v, r.fd, r.file, creating).s
    BY DEF OnFile
<1>5. u = Close(x, {n})
    BY DEF OnFileAndKernel, Handle
<1>6. raw = get_raw_fd(w, r.fd) /\ x = Dup2(w, raw, r.fd) /\ S = Owned(t, {r.fd})
    OBVIOUS
<1>7. n \notin 0..2 /\ n \notin DOMAIN t.open
    BY FreshNumber
<1>8. DOMAIN v.open = DOMAIN t.open \cup {n} /\ \A m \in DOMAIN t.open : v.open[m] = t.open[m]
    BY <1>2, <1>7 DEF With
<1>9. Owned(v, {r.fd}) = S
    BY <1>2 DEF Owned
<1> HIDE DEF v, w, raw, x, n, lent2, S
<1>10. Held(a, w, own, lent2) /\ FileFor(v, w, r.fd, r.file) /\ Spares(v, w, S)
    BY <1>1, <1>3, <1>4, <1>9, OpenKeeps, OpensFile
<1>11. PICK k \in DOMAIN w.open : k \notin DOMAIN v.open /\ w.open[k] = r.file /\ EntryFor(v, w, r.fd, Descriptor("File", k))
    BY <1>10 DEF FileFor
<1>12. raw = k
    BY <1>6, <1>11 DEF EntryFor, get_raw_fd, Descriptor
<1>13. IsState(w) /\ raw # r.fd /\ r.fd # n /\ k # n /\ k \notin DOMAIN t.open /\ r.fd \in DOMAIN t.open
    <2>1. r.fd \in 0..2 /\ 0..2 \subseteq DOMAIN t.open /\ IsState(w)
        BY <1>10 DEF Held, KernelOK
    <2> QED
        BY <1>7, <1>8, <1>11, <1>12, <2>1
<1>14. IsState(x) /\ x.open = With(w.open, r.fd, w.open[raw]) /\ x.fds = w.fds
    BY <1>6, <1>13, Dup2Fields
<1>15. u.open = Without(x.open, {n}) /\ u.fds = x.fds
    BY <1>5, <1>14, CloseFields
<1>16. DOMAIN x.open = DOMAIN w.open \cup {r.fd} /\ \A m \in DOMAIN w.open : m # r.fd => x.open[m] = w.open[m]
    BY <1>14 DEF With
<1>17. DOMAIN u.open = DOMAIN x.open \ {n} /\ \A m \in DOMAIN u.open : u.open[m] = x.open[m]
    BY <1>15 DEF Without, Restrict
<1>18. k \in DOMAIN u.open /\ u.open[k] = r.file
    BY <1>11, <1>12, <1>13, <1>16, <1>17
<1>19. EntryFor(t, u, r.fd, Descriptor("File", k))
    BY <1>2, <1>11, <1>14, <1>15 DEF EntryFor
<1>20. Spares(t, u, Plus(S, r.fd))
    BY <1>7, <1>8, <1>10, <1>16, <1>17 DEF Spares, Plus
<1> QED
    BY <1>13, <1>18, <1>19, <1>20 DEF FileFor, S

\* A redirection of the shell itself.
LEMMA ToShellTable ==
    ASSUME NEW a, NEW t, NEW lent, Held(a, t, Standard, lent),
           NEW r, Plain(r), NEW result, result = ApplyToShell(t, r), result.ok, NEW u, u = result.s
    PROVE  FileFor(t, u, r.fd, r.file) /\ Spares(t, u, Plus(Owned(t, {r.fd}), r.fd))
<1>1. r.fd \in Standard
    BY DEF Plain, Standard
<1>2. ASSUME NEW v, Held(a, v, Standard, lent), v.open = t.open, v.fds = t.fds, NEW creating, CanOpen(v, r.file, creating),
             u = Close(OnFileAndKernel(v, r, creating), {Handle(v)})
      PROVE  FileFor(t, u, r.fd, r.file) /\ Spares(t, u, Plus(Owned(t, {r.fd}), r.fd))
    <2>1. FileFor(v, u, r.fd, r.file) /\ Spares(v, u, Plus(Owned(v, {r.fd}), r.fd))
        <3> DEFINE own == Standard
        <3>1. r.fd \in own /\ Held(a, v, own, lent)
            BY <1>1, <1>2
        <3> HIDE DEF own
        <3> QED
            BY ONLY <1>2, <3>1, OpensOwn
    <2>2. Owned(v, {r.fd}) = Owned(t, {r.fd})
        BY <1>2 DEF Owned
    <2> QED
        BY <1>2, <2>1, <2>2 DEF FileFor, EntryFor, Spares
<1>6. CASE r.op = "<"
    <2>1. r.fd = 0 /\ result = apply_input_redirection(t, r, FALSE)
        BY <1>6 DEF Plain, Writes, ApplyToShell, Apply
    <2> DEFINE creating == FALSE
    <2>2. CanOpen(t, r.file, creating)
        <3>1. ~CanOpen(t, r.file, creating) => result = Failed(t)
            BY <2>1, Zenon DEF apply_input_redirection
        <3> QED
            BY <3>1, FailedFields
    <2>3. u = Close(OnFileAndKernel(t, r, creating), {Handle(t)})
        <3>1. result = Ok(Close(OnFileAndKernel(t, r, creating), {Handle(t)}))
            BY <2>1, <2>2 DEF apply_input_redirection
        <3> QED
            BY <3>1, OkFields
    <2> HIDE DEF creating
    <2> QED
        BY <1>2, <2>2, <2>3
<1>7. CASE Writes(r)
    <2>1. result = apply_output_redirection(t, r, FALSE)
        BY <1>7 DEF Writes, ApplyToShell, Apply
    <2> DEFINE v == Created(t, r.file)
               creating == TRUE
    <2>2. Held(a, v, Standard, lent) /\ v.open = t.open /\ v.fds = t.fds
        BY CreatedKeeps
    <2>3. ~(Refused(t, r) \/ ~CanOpen(t, r.file, TRUE)) /\ ~Refused(v, r)
        <3>1. Refused(t, r) \/ ~CanOpen(t, r.file, TRUE) => result = Failed(t)
            BY <2>1 DEF apply_output_redirection
        <3>2. ~(Refused(t, r) \/ ~CanOpen(t, r.file, TRUE)) /\ Refused(v, r) => result = Failed(v)
            BY <2>1 DEF apply_output_redirection
        <3> QED
            BY <3>1, <3>2, FailedFields
    <2>4. u = Close(OnFileAndKernel(v, r, creating), {Handle(v)})
        <3>1. result = Ok(Close(OnFileAndKernel(v, r, creating), {Handle(t)}))
            BY <2>1, <2>3 DEF apply_output_redirection
        <3>2. Handle(v) = Handle(t)
            BY <2>2 DEF Handle
        <3> QED
            BY <3>1, <3>2, OkFields
    <2>5. CanOpen(v, r.file, creating)
        BY <2>3 DEF CanOpen
    <2> HIDE DEF v, creating
    <2> QED
        BY <1>2, <2>2, <2>4, <2>5
<1> QED
    BY <1>6, <1>7 DEF Plain

\* The table has Files that are open on what env says; unread is TRUE where
\* what is on 0 does not come from it.
TableIs(t, env, unread) ==
    \A fd \in DOMAIN t.fds :
       /\ t.fds[fd].kind = "File" /\ t.fds[fd].raw \in DOMAIN t.open
       /\ t.open[t.fds[fd].raw] = env[fd] \/ (fd = 0 /\ unread)

LEMMA ToShellTableIs ==
    ASSUME NEW a, NEW t, NEW lent, Held(a, t, Standard, lent), DOMAIN t.fds \subseteq Standard,
           NEW r, Plain(r), NEW result, result = ApplyToShell(t, r), result.ok, NEW u, u = result.s,
           NEW env, Standard \subseteq DOMAIN env, NEW unread, TableIs(t, env, unread),
           NEW env2, env2 = Redirected(env, r)
    PROVE  TableIs(u, env2, unread) /\ Undisturbed(t, u, lent)
<1> DEFINE fd == r.fd
           S == Owned(t, {fd})
<1>1. FileFor(t, u, r.fd, r.file) /\ Spares(t, u, Plus(S, r.fd))
    BY ToShellTable
<1>2. PICK n \in DOMAIN u.open : n \notin DOMAIN t.open /\ u.open[n] = r.file /\ EntryFor(t, u, r.fd, Descriptor("File", n))
    BY <1>1 DEF FileFor
<1>3. /\ env2[r.fd] = r.file
      /\ \A f \in Standard : f # r.fd => env2[f] = env[f]
    BY RedirectedStream
<1>4. r.fd \in Standard
    BY DEF Plain, Standard
<1>5. /\ \A m \in S : m \notin lent
      /\ \A f \in Files(t) : f # r.fd => t.fds[f].raw \notin S
    BY OwnedFacts
<1>6. \A f \in Files(t) : t.fds[f].raw \in DOMAIN t.open /\ t.fds[f].raw \notin Standard
    <2>1. \A f \in Files(t) : t.fds[f].raw \in DOMAIN t.open /\ t.fds[f].raw \notin DOMAIN a.open
        BY DEF Held, Accounted
    <2>2. Standard \subseteq DOMAIN a.open
        BY DEF Held, KernelOK, Standard
    <2> QED
        BY <2>1, <2>2
<1>7. \A m \in lent : m \in DOMAIN t.open /\ m \notin Standard
    BY LentApart
<1> HIDE DEF S
<1>8. ASSUME NEW f \in DOMAIN u.fds
      PROVE  /\ u.fds[f].kind = "File" /\ u.fds[f].raw \in DOMAIN u.open
             /\ u.open[u.fds[f].raw] = env2[f] \/ (f = 0 /\ unread)
    <2>1. CASE f = r.fd
        BY <1>2, <1>3, <2>1 DEF EntryFor, Descriptor
    <2>2. CASE f # r.fd
        <3>1. f \in DOMAIN t.fds /\ u.fds[f] = t.fds[f]
            BY <1>2, <2>2 DEF EntryFor
        <3>2. /\ t.fds[f].kind = "File" /\ t.fds[f].raw \in DOMAIN t.open
              /\ t.open[t.fds[f].raw] = env[f] \/ (f = 0 /\ unread)
            BY <3>1 DEF TableIs
        <3>3. t.fds[f].raw \notin Plus(S, r.fd)
            BY <1>4, <1>5, <1>6, <2>2, <3>1, <3>2 DEF Files, Plus
        <3>4. t.fds[f].raw \in DOMAIN u.open /\ u.open[t.fds[f].raw] = t.open[t.fds[f].raw]
            BY <1>1, <3>2, <3>3 DEF Spares
        <3> QED
            BY <1>3, <2>2, <3>1, <3>2, <3>4
    <2> QED
        BY <2>1, <2>2
<1>9. TableIs(u, env2, unread)
    BY <1>8 DEF TableIs
<1>10. Undisturbed(t, u, lent)
    <2>1. ASSUME NEW m \in lent
          PROVE  m \in DOMAIN u.open /\ u.open[m] = t.open[m]
        <3>1. m \in DOMAIN t.open /\ m \notin Plus(S, r.fd)
            BY <1>4, <1>5, <1>7 DEF Plus
        <3> QED
            BY <1>1, <3>1 DEF Spares
    <2> QED
        BY <2>1 DEF Undisturbed
<1> QED
    BY <1>9, <1>10

LEMMA AllToShellTable ==
    ASSUME NEW a, NEW t, NEW lent, Held(a, t, Standard, lent), DOMAIN t.fds \subseteq Standard,
           NEW rs, Len(rs) \in Nat, DOMAIN rs = 1..Len(rs), \A i \in 1..Len(rs) : Plain(rs[i]),
           NEW env, Standard \subseteq DOMAIN env, NEW unread, TableIs(t, env, unread),
           NEW last, last = AllToShell(rs, t), last.ok
    PROVE  TableIs(last.s, AllRedirected(env, rs), unread) /\ Undisturbed(t, last.s, lent)
<1> DEFINE N == Len(rs)
           Good(v, e) == /\ Held(a, v, Standard, lent) /\ DOMAIN v.fds \subseteq Standard
                         /\ Standard \subseteq DOMAIN e
           Fine(v, e) == TableIs(v, e, unread) /\ Undisturbed(t, v, lent)
           Both(result, e) == Good(result.s, e) /\ (result.ok => Fine(result.s, e))
<1>1. PICK results : OfApplyToShell!Chain(rs, Ok(t), last, results)
    BY AppliesToShell DEF AllToShell
<1>2. AllRedirected(env, rs) = OfRedirected!Folded(rs, env)
    BY RedirectedInOrder
<1>3. PICK envs : OfRedirected!FoldChain(rs, env, OfRedirected!Folded(rs, env), envs)
    BY OfRedirected!FoldInOrder
<1> DEFINE S == {n \in 0..N : Both(results[n], envs[n])}
<1>4. 0 \in S
    <2>1. results[0] = Ok(t) /\ envs[0] = env
        BY <1>1, <1>3 DEF OfApplyToShell!Chain, OfRedirected!FoldChain
    <2>2. results[0].s = t
        BY <2>1, OkFields
    <2>4. Undisturbed(t, t, lent)
        <3>1. \A m \in lent : m \in DOMAIN t.open
            BY LentApart
        <3> QED
            BY <3>1 DEF Undisturbed
    <2>3. Both(results[0], envs[0])
        BY <2>1, <2>2, <2>4
    <2> HIDE DEF Both
    <2> QED
        BY <2>3
<1>5. ASSUME NEW n \in 1..N, n - 1 \in S
      PROVE  n \in S
    <2> DEFINE p == results[n - 1]
               q == results[n]
               e == envs[n - 1]
               e2 == envs[n]
               r == rs[n]
    <2>1. Both(p, e)
        BY <1>5
    <2>2. Plain(r) /\ e2 = Redirected(e, r)
        BY <1>3 DEF OfRedirected!FoldChain
    <2>3. (p.ok => q = ApplyToShell(p.s, r)) /\ (~p.ok => q = p)
        BY <1>1 DEF OfApplyToShell!Chain
    <2> HIDE DEF p, q, e, e2, r
    <2>4. DOMAIN e2 = DOMAIN e
        BY <2>1, <2>2, RedirectedStream
    <2>5. CASE p.ok
        <3>1. Held(a, q.s, Standard, lent) /\ DOMAIN q.s.fds \subseteq Standard
            BY <2>1, <2>2, <2>3, <2>5, ToShellKeeps
        <3>2. ASSUME q.ok PROVE Fine(q.s, e2)
            <4>1. TableIs(p.s, e, unread) /\ Undisturbed(t, p.s, lent)
                BY <2>1, <2>5
            <4>2. /\ Held(a, p.s, Standard, lent) /\ DOMAIN p.s.fds \subseteq Standard
                  /\ Standard \subseteq DOMAIN e
                  /\ q = ApplyToShell(p.s, r)
                BY <2>1, <2>3, <2>5
            <4>3. TableIs(q.s, e2, unread) /\ Undisturbed(p.s, q.s, lent)
                BY ONLY <2>2, <3>2, <4>1, <4>2, ToShellTableIs
            <4>4. Undisturbed(t, q.s, lent)
                BY <4>1, <4>3 DEF Undisturbed
            <4> QED
                BY <4>3, <4>4
        <3>3. Both(q, e2)
            BY <2>1, <2>4, <3>1, <3>2
        <3> HIDE DEF Both
        <3> QED
            BY <3>3 DEF q, e2
    <2>6. CASE ~p.ok
        <3>1. Both(q, e2)
            BY <2>1, <2>3, <2>4, <2>6
        <3> HIDE DEF Both
        <3> QED
            BY <3>1 DEF q, e2
    <2> QED
        BY <2>5, <2>6
<1> HIDE DEF Both
<1>6. S = 0..N
    <2> HIDE DEF S
    <2>1. S \in SUBSET (0..N)
        BY DEF S
    <2> QED
        BY <1>4, <1>5, <2>1, OfSave!UpTo
<1>7. N \in S
    BY <1>6
<1>8. results[N] = last /\ envs[N] = OfRedirected!Folded(rs, env)
    BY <1>1, <1>3 DEF OfApplyToShell!Chain, OfRedirected!FoldChain
<1>9. Both(last, AllRedirected(env, rs))
    BY <1>2, <1>7, <1>8
<1> QED
    BY <1>9 DEF Both

\* A group or a stage has been prepared.
LEMMA PreparedTable ==
    ASSUME NEW a, NEW t, NEW lent, Held(a, t, {}, lent),
           DOMAIN t.fds \subseteq Standard, DOMAIN t.saved_fds \subseteq Standard,
           NEW rs, Len(rs) \in Nat, DOMAIN rs = 1..Len(rs), \A i \in 1..Len(rs) : Plain(rs[i]),
           NEW hook, hook = NoRaw \/ hook \in lent,
           NEW prepared \in Prepared(t, rs, hook), prepared.ok,
           NEW env, Standard \subseteq DOMAIN env, NEW unread, TableIs(t, env, unread)
    PROVE  TableIs(prepared.s, AllRedirected(env, rs), unread) /\ Undisturbed(t, prepared.s, lent)
<1> DEFINE saved(order) == save_all_fds(t, order)
           hooked(order) == IF hook # NoRaw THEN Dup2(saved(order).s, hook, 0) ELSE saved(order).s
           applied(order) == apply_redirections(rs, hooked(order), FALSE)
           outcomes(order) == IF ~saved(order).ok \/ applied(order).ok
                              THEN {IF saved(order).ok THEN applied(order) ELSE saved(order)}
                              ELSE {Failed(restore_all_fds(applied(order).s, back).s) :
                                       back \in Orders(applied(order).s.saved_fds)}
<1>1. Prepared(t, rs, hook) = UNION {outcomes(order) : order \in Orders(t.fds)}
    BY DEF Prepared
<1> HIDE DEF outcomes
<1>2. PICK order \in Orders(t.fds) : prepared \in outcomes(order)
    BY <1>1
<1> DEFINE sv == saved(order)
           hk == hooked(order)
           ap == applied(order)
<1>3. /\ sv.ok /\ Held(a, sv.s, Standard, lent) /\ sv.s.fds = t.fds /\ sv.s.child = t.child
      /\ DOMAIN sv.s.saved_fds = Standard
      /\ Unmoved(t, sv.s)
    BY SaveAllStandard
<1>4. prepared \in IF ~sv.ok \/ ap.ok THEN {IF sv.ok THEN ap ELSE sv}
                   ELSE {Failed(restore_all_fds(ap.s, back).s) : back \in Orders(ap.s.saved_fds)}
    BY <1>2 DEF outcomes
<1>5. hk = IF hook # NoRaw THEN Dup2(sv.s, hook, 0) ELSE sv.s
    OBVIOUS
<1>6. ap = AllToShell(rs, hk)
    BY DEF AllToShell
<1> HIDE DEF sv, hk, ap, saved, hooked, applied
<1>7. ap = prepared
    <2>1. ASSUME ~ap.ok PROVE FALSE
        <3>1. PICK back : prepared = Failed(restore_all_fds(ap.s, back).s)
            BY <1>3, <1>4, <2>1
        <3> QED
            BY <3>1, FailedFields
    <2> QED
        BY <1>3, <1>4, <2>1
<1>8. /\ Held(a, hk, Standard, lent) /\ hk.fds = t.fds
      /\ \A n \in DOMAIN t.open : n # 0 => n \in DOMAIN hk.open /\ hk.open[n] = t.open[n]
    <2>1. CASE hook = NoRaw
        BY <1>3, <1>5, <2>1 DEF Unmoved
    <2>2. CASE hook # NoRaw
        <3>1. hook \in DOMAIN t.open /\ hook \notin Standard
            BY <2>2 DEF Held, Accounted, KernelOK, Standard
        <3>2. hk = Dup2(sv.s, hook, 0) /\ 0 \in Standard
            BY <1>5, <2>2 DEF Standard
        <3>3. hook \in DOMAIN sv.s.open /\ IsState(sv.s)
            BY <1>3, <3>1 DEF Unmoved, Held, KernelOK
        <3>4. hk.open = With(sv.s.open, 0, sv.s.open[hook])
            <4>1. hook # 0
                BY <3>1, <3>2
            <4> QED
                BY <3>2, <3>3, <4>1, Dup2Fields
        <3>5. \A n \in DOMAIN t.open : n # 0 => n \in DOMAIN hk.open /\ hk.open[n] = t.open[n]
            BY <1>3, <3>4 DEF With, Unmoved
        <3>7. Held(a, hk, Standard, lent) /\ hk.fds = sv.s.fds
            BY <1>3, <3>2, <3>3, Dup2Keeps
        <3> QED
            BY <1>3, <3>5, <3>7
    <2> QED
        BY <2>1, <2>2
<1>9. 0 \in Standard
    BY DEF Standard
<1>10. TableIs(hk, env, unread)
    <2>1. ASSUME NEW fd \in DOMAIN t.fds
          PROVE  /\ hk.fds[fd].kind = "File" /\ hk.fds[fd].raw \in DOMAIN hk.open
                 /\ hk.open[hk.fds[fd].raw] = env[fd] \/ (fd = 0 /\ unread)
        <3>1. /\ t.fds[fd].kind = "File"
              /\ t.open[t.fds[fd].raw] = env[fd] \/ (fd = 0 /\ unread)
            BY DEF TableIs
        <3>2. t.fds[fd].raw \in DOMAIN t.open /\ t.fds[fd].raw \notin Standard
            <4> DEFINE own == {}
            <4>1. Held(a, t, own, lent)
                OBVIOUS
            <4> HIDE DEF own
            <4> QED
                BY <3>1, <4>1, FileApart
        <3> QED
            BY <1>8, <1>9, <3>1, <3>2
    <2> QED
        BY <1>8, <2>1 DEF TableIs
<1>11. Undisturbed(t, hk, lent)
    <2>1. \A n \in lent : n \in DOMAIN t.open /\ n \notin Standard
        BY LentApart
    <2> QED
        BY <1>8, <1>9, <2>1 DEF Undisturbed
<1>12. TableIs(ap.s, AllRedirected(env, rs), unread) /\ Undisturbed(hk, ap.s, lent)
    <2>1. Held(a, hk, Standard, lent) /\ DOMAIN hk.fds \subseteq Standard /\ ap.ok
        BY <1>7, <1>8
    <2> QED
        BY <1>6, <1>10, <2>1, AllToShellTable
<1> QED
    BY <1>7, <1>11, <1>12 DEF Undisturbed

HasPipe(f) == f.kind = "stage" /\ f.pipe # NoRaw
InputFits(f, u) == HasPipe(f) => IsInput(u, f.pipe)

-----------------------------------------------------------------------------
(* What a redirection of an external command does to the Command and the   *)
(* table                                                                   *)

\* The dup2 calls that the child will make are those of t, and maybe one more of fd.
CallsFor(t, u, fd) ==
    \/ u.child.pre_exec = t.child.pre_exec /\ u.child.kept = t.child.kept
    \/ \E n : u.child.pre_exec = Append(t.child.pre_exec, <<n, fd>>) /\ u.child.kept = Plus(t.child.kept, n)

\* The Command has the stream stdio for fd.
StreamSetTo(t, u, fd, stdio) == u.child.std = With(t.child.std, fd, stdio)
StreamFor(t, u, fd, content) ==
    \E n \in DOMAIN u.open : n \notin DOMAIN t.open /\ u.open[n] = content /\ StreamSetTo(t, u, fd, Stdio("file", n))
SameCalls(t, u) == u.child.pre_exec = t.child.pre_exec /\ u.child.kept = t.child.kept

\* A stream of the Command is set.
LEMMA StreamSet ==
    ASSUME NEW s, IsState(s), IsCommand(s.child), NEW fd, NEW stdio, NEW u, u = WithStream(s, fd, stdio)
    PROVE  /\ IsState(u) /\ u.open = Without(s.open, Streams(s, {fd})) /\ u.fds = s.fds
           /\ u.exists = s.exists /\ u.saved_fds = s.saved_fds
           /\ StreamSetTo(s, u, fd, stdio) /\ SameCalls(s, u)
<1> DEFINE c == s.child
           std == With(c.std, fd, stdio)
           c1 == [c EXCEPT !.std = std]
           t == [s EXCEPT !.child = c1]
           S == Streams(s, {fd})
<1>1. u = Close(t, S)
    BY DEF WithStream
<1>2. c1.std = std /\ c1.pre_exec = c.pre_exec /\ c1.kept = c.kept
    <2> HIDE DEF std
    <2> QED
        BY DEF IsCommand
<1> HIDE DEF c1
<1>3. /\ IsState(t) /\ t.child = c1 /\ t.open = s.open /\ t.fds = s.fds /\ t.exists = s.exists
      /\ t.saved_fds = s.saved_fds
    BY DEF IsState
<1> HIDE DEF t, S, std
<1>4. IsState(u) /\ u.open = Without(t.open, S) /\ u.fds = t.fds /\ u.exists = t.exists /\ u.child = t.child
      /\ u.saved_fds = t.saved_fds
    BY ONLY <1>1, <1>3, CloseFields
<1> QED
    BY <1>2, <1>3, <1>4 DEF S, std, c, StreamSetTo, SameCalls

\* What a Command holds is open, and is not in the table.
LEMMA StreamApart ==
    ASSUME NEW a, NEW t, NEW own, NEW lent, HeldWith(a, t, own, lent)
    PROVE  /\ IsState(t) /\ IsCommand(t.child) /\ KernelOK(t)
           /\ \A n \in t.child.kept : n \in DOMAIN t.open
<1>1. /\ IsState(t) /\ IsCommand(t.child) /\ KernelOK(t) /\ KernelOK(a)
      /\ Separate(t.child, lent) /\ Accounted(a, t, own, Together(lent, t.child))
    BY DEF HeldWith, Held, KernelOK
<1>2. /\ 0..2 \subseteq DOMAIN a.open
      /\ \A n \in Together(lent, t.child) : n \in DOMAIN t.open /\ n \notin DOMAIN a.open
      /\ \A f \in Files(t) : t.fds[f].raw \notin Together(lent, t.child)
    BY <1>1 DEF KernelOK, Accounted
<1>4. ASSUME NEW n \in t.child.kept
      PROVE  n \in DOMAIN t.open
    <2>1. n \in Together(lent, t.child)
        BY TakenFacts DEF Together
    <2> QED
        BY <1>2, <2>1
<1> QED
    BY <1>1, <1>4

StreamOf(t, fd) == Streams(t, {fd})

LEMMA OneStreamApart ==
    ASSUME NEW a, NEW t, NEW own, NEW lent, HeldWith(a, t, own, lent), NEW fd, NEW n \in StreamOf(t, fd)
    PROVE  /\ n \in DOMAIN t.open /\ n \notin Standard /\ n \notin t.child.kept /\ n \notin lent
           /\ fd \in DOMAIN t.child.std /\ t.child.std[fd].to = "file" /\ t.child.std[fd].raw = n
           /\ \A f \in DOMAIN t.fds : t.fds[f].kind = "File" => t.fds[f].raw # n
<1>1. KernelOK(a) /\ Separate(t.child, lent) /\ Accounted(a, t, own, Together(lent, t.child))
    BY DEF HeldWith, Held
<1>2. /\ 0..2 \subseteq DOMAIN a.open
      /\ \A m \in Together(lent, t.child) : m \in DOMAIN t.open /\ m \notin DOMAIN a.open
      /\ \A f \in Files(t) : t.fds[f].raw \notin Together(lent, t.child)
    BY <1>1 DEF KernelOK, Accounted
<1>3. fd \in FileStreams(t.child) /\ n = t.child.std[fd].raw
    BY OldStream DEF StreamOf
<1>4. n \in Taken(t.child)
    BY <1>3, TakenFacts
<1>5. n \in Together(lent, t.child)
    BY <1>4 DEF Together
<1>6. n \notin t.child.kept /\ n \notin lent
    BY <1>1, <1>3, <1>4 DEF Separate
<1>7. \A f \in DOMAIN t.fds : t.fds[f].kind = "File" => t.fds[f].raw # n
    BY <1>2, <1>5 DEF Files
<1> QED
    BY <1>2, <1>3, <1>5, <1>6, <1>7 DEF Standard, FileStreams

\* A file is opened for a stream.
LEMMA StreamOpened ==
    ASSUME NEW a, NEW t, NEW own, NEW lent, HeldWith(a, t, own, lent), NEW fd, NEW content,
           NEW u, u = WithStream(Opened(t, content), fd, Stdio("file", Handle(t)))
    PROVE  /\ StreamFor(t, u, fd, content) /\ Spares(t, u, Streams(t, {fd})) /\ SameCalls(t, u)
           /\ u.fds = t.fds /\ u.exists = t.exists
<1> DEFINE n == Handle(t)
           v == Opened(t, content)
           S == Streams(t, {fd})
           stdio == Stdio("file", n)
<1>1. IsState(t) /\ IsCommand(t.child) /\ \A m \in S : m \in DOMAIN t.open
    BY StreamApart, OneStreamApart DEF StreamOf
<1>2. n \notin DOMAIN t.open
    BY FreshNumber DEF HeldWith, Handle
<1>3. /\ IsState(v) /\ v.open = With(t.open, Lowest(t.open), content) /\ v.fds = t.fds /\ v.exists = t.exists
      /\ v.child = t.child
    BY <1>1, OpenedFields
<1>4. v.open = With(t.open, n, content)
    BY <1>3 DEF Handle
<1>5. u = WithStream(v, fd, stdio)
    OBVIOUS
<1> HIDE DEF v, n, stdio
<1>6. Streams(v, {fd}) = S
    BY <1>3 DEF Streams
<1>7. /\ u.open = Without(v.open, Streams(v, {fd})) /\ u.fds = v.fds /\ u.exists = v.exists
      /\ StreamSetTo(v, u, fd, stdio) /\ SameCalls(v, u)
    BY <1>1, <1>3, <1>5, StreamSet
<1> HIDE DEF S
<1>8. u.open = Without(With(t.open, n, content), S)
    BY <1>4, <1>6, <1>7
<1>9. /\ n \in DOMAIN u.open /\ u.open[n] = content
      /\ \A m \in DOMAIN t.open : m \notin S => m \in DOMAIN u.open /\ u.open[m] = t.open[m]
    BY <1>1, <1>2, <1>8 DEF With, Without, Restrict
<1>10. StreamSetTo(t, u, fd, stdio) /\ SameCalls(t, u)
    BY <1>3, <1>7 DEF StreamSetTo, SameCalls
<1> QED
    BY <1>2, <1>3, <1>7, <1>9, <1>10 DEF StreamFor, Spares, S, stdio

\* A file for the table, opened once more before.
LEMMA OnFileOpens ==
    ASSUME NEW a, NEW t, NEW own, NEW lent, Held(a, t, own, lent), NEW r, NEW creating, CanOpen(t, r.file, creating),
           NEW u, u = Close(OnFile(t, r, creating), {Handle(t)})
    PROVE  /\ FileFor(t, u, r.fd, r.file) /\ Spares(t, u, Owned(t, {r.fd}))
           /\ u.exists = Plus(t.exists, r.file) /\ u.child = t.child
<1> DEFINE n == Handle(t)
           v == Opened(t, r.file)
           w == open_fd(v, r.fd, r.file, creating).s
           more == lent \cup {n}
           S == Owned(t, {r.fd})
<1>1. n \notin DOMAIN t.open /\ IsState(t)
    BY FreshNumber DEF Handle, Held, KernelOK
<1>2. Held(a, v, own, lent \cup {Lowest(t.open)})
    BY OpenedLends
<1>3. Held(a, v, own, more)
    BY <1>2 DEF Handle
<1>4. /\ IsState(v) /\ v.open = With(t.open, Lowest(t.open), r.file) /\ v.fds = t.fds /\ v.exists = t.exists
      /\ v.child = t.child
    BY <1>1, OpenedFields
<1>5. /\ n \in DOMAIN v.open /\ DOMAIN t.open \subseteq DOMAIN v.open
      /\ \A m \in DOMAIN t.open : v.open[m] = t.open[m]
    BY <1>1, <1>4 DEF With, Handle
<1>6. CanOpen(v, r.file, creating)
    BY <1>4 DEF CanOpen, Exists
<1>7. u = Close(w, {n}) /\ w = open_fd(v, r.fd, r.file, creating).s
    BY DEF OnFile
<1>8. Held(a, w, own, more)
    BY <1>3, OpenKeeps
<1>9. Owned(v, {r.fd}) = S
    BY <1>4 DEF Owned
<1> HIDE DEF n, v, w, more
<1>10. /\ FileFor(v, w, r.fd, r.file) /\ Spares(v, w, Owned(v, {r.fd}))
       /\ w.exists = Plus(v.exists, r.file) /\ w.child = v.child
    BY <1>3, <1>6, <1>7, OpensFile
<1>11. IsState(w)
    BY <1>8 DEF Held, KernelOK
<1>12. u.open = Without(w.open, {n}) /\ u.fds = w.fds /\ u.exists = w.exists /\ u.child = w.child
    BY <1>7, <1>11, CloseFields
<1> HIDE DEF S
<1>13. \A m \in DOMAIN w.open : m # n => m \in DOMAIN u.open /\ u.open[m] = w.open[m]
    BY <1>12 DEF Without, Restrict
<1>14. Spares(t, u, S)
    BY <1>1, <1>5, <1>9, <1>10, <1>13 DEF Spares
<1>15. FileFor(t, u, r.fd, r.file)
    <2>1. PICK m \in DOMAIN w.open : /\ m \notin DOMAIN v.open /\ w.open[m] = r.file
                                      /\ EntryFor(v, w, r.fd, Descriptor("File", m))
        BY <1>10 DEF FileFor
    <2>2. m \in DOMAIN u.open /\ u.open[m] = r.file /\ m \notin DOMAIN t.open
        BY <1>5, <1>13, <2>1
    <2>3. EntryFor(t, u, r.fd, Descriptor("File", m))
        BY <1>4, <1>12, <2>1 DEF EntryFor
    <2> QED
        BY <2>2, <2>3 DEF FileFor
<1> QED
    BY <1>4, <1>10, <1>12, <1>14, <1>15 DEF S

\* A number more that the Command keeps, and a call.
LEMMA KeptCalls ==
    ASSUME NEW s, IsState(s), IsCommand(s.child), NEW n, NEW pair,
           NEW u, u = KeptFor(s, n, pair)
    PROVE  /\ IsState(u) /\ u.open = s.open /\ u.fds = s.fds /\ u.exists = s.exists
           /\ u.child.std = s.child.std /\ u.child.kept = Plus(s.child.kept, n)
           /\ u.child.pre_exec = Append(s.child.pre_exec, pair)
<1> DEFINE c == s.child
           later == Append(c.pre_exec, pair)
           c1 == [c EXCEPT !.pre_exec = later]
           kept == Plus(c.kept, n)
           c2 == [c1 EXCEPT !.kept = kept]
           t == [s EXCEPT !.child = c1]
<1>1. IsCommand(c1) /\ c1.std = c.std /\ c1.kept = c.kept /\ c1.pre_exec = later
    <2> HIDE DEF later
    <2> QED
        BY DEF IsCommand
<1>2. u = [t EXCEPT !.child.kept = Plus(@, n)]
    BY DEF Plus, KeptFor
<1> HIDE DEF c1
<1>3. c2.std = c1.std /\ c2.kept = kept /\ c2.pre_exec = c1.pre_exec
    <2> HIDE DEF kept
    <2> QED
        BY <1>1 DEF IsCommand
<1>4. IsState(t) /\ t.child = c1 /\ t.open = s.open /\ t.fds = s.fds /\ t.exists = s.exists
    BY DEF IsState
<1> HIDE DEF t
<1>5. u = [t EXCEPT !.child = c2]
    BY <1>1, <1>2, <1>4
<1> HIDE DEF c2, later, kept
<1>6. /\ IsState(u) /\ u.child = c2 /\ u.open = t.open /\ u.fds = t.fds /\ u.exists = t.exists
    BY <1>4, <1>5 DEF IsState
<1> QED
    BY <1>1, <1>3, <1>4, <1>6 DEF later, kept, c

\* A file for the table and the child: opened three times, the first is closed.
LEMMA InputOpens ==
    ASSUME NEW a, NEW t, NEW own, NEW lent, HeldWith(a, t, own, lent), NEW r, CanOpen(t, r.file, FALSE),
           NEW u, u = InputTo(t, r)
    PROVE  /\ FileFor(t, u, r.fd, r.file) /\ Spares(t, u, Owned(t, {r.fd}))
           /\ u.exists = t.exists /\ u.child.std = t.child.std /\ CallsFor(t, u, r.fd)
<1> DEFINE n == Handle(t)
           v == Opened(t, r.file)
           second == Lowest(v.open)
           v2 == Opened(v, r.file)
           w == ForReading(v2, r.fd, r.file)
           pair == <<second, r.fd>>
           x == KeptFor(w, second, pair)
           one == Plus(lent, n)
           two == Plus(one, second)
           S == Owned(t, {r.fd})
<1>1. n \notin DOMAIN t.open /\ IsState(t) /\ IsCommand(t.child)
    BY FreshNumber DEF Handle, HeldWith, Held, KernelOK
<1>2. HeldWith(a, v, own, one)
    <2>1. one = Plus(lent, Lowest(t.open))
        BY DEF Handle
    <2> QED
        BY <2>1, OpenedWith
<1>3. HeldWith(a, v2, own, two)
    BY <1>2, OpenedWith
<1>4. /\ IsState(v) /\ v.open = With(t.open, Lowest(t.open), r.file) /\ v.fds = t.fds /\ v.exists = t.exists
      /\ v.child = t.child
    BY <1>1, OpenedFields
<1>5. second \notin DOMAIN v.open
    BY <1>2, FreshNumber DEF HeldWith
<1>6. /\ IsState(v2) /\ v2.open = With(v.open, second, r.file) /\ v2.fds = v.fds /\ v2.exists = v.exists
      /\ v2.child = v.child
    BY <1>4, OpenedFields
<1>7. u = Close(x, {n})
    BY DEF InputTo
<1>8. /\ n \in DOMAIN v2.open /\ n # second /\ DOMAIN t.open \subseteq DOMAIN v2.open
      /\ \A m \in DOMAIN t.open : v2.open[m] = t.open[m]
    <2>1. n \in DOMAIN v.open /\ DOMAIN t.open \subseteq DOMAIN v.open /\ \A m \in DOMAIN t.open : v.open[m] = t.open[m]
        BY <1>1, <1>4 DEF With, Handle
    <2> HIDE DEF n, v, second
    <2> QED
        BY <1>5, <1>6, <2>1 DEF With
<1>9. CanOpen(v2, r.file, FALSE)
    BY <1>4, <1>6 DEF CanOpen, Exists
<1>10. HeldWith(a, w, own, two)
    BY <1>3, ForReadingWith
<1>11. Owned(v2, {r.fd}) = S
    BY <1>4, <1>6 DEF Owned
<1>12. w = open_fd(v2, r.fd, r.file, FALSE).s
    BY DEF ForReading
<1> HIDE DEF n, v, v2, w, second, one, two
<1>13. /\ FileFor(v2, w, r.fd, r.file) /\ Spares(v2, w, Owned(v2, {r.fd}))
       /\ w.exists = Plus(v2.exists, r.file) /\ w.child = v2.child
    <2> DEFINE all == Together(two, v2.child)
               creating == FALSE
    <2>1. Held(a, v2, own, all) /\ CanOpen(v2, r.file, creating) /\ w = open_fd(v2, r.fd, r.file, creating).s
        BY <1>3, <1>9, <1>12 DEF HeldWith
    <2> HIDE DEF all, creating
    <2> QED
        BY ONLY <2>1, OpensFile
<1>14. IsState(w) /\ IsCommand(w.child)
    BY <1>10, StreamApart
<1> HIDE DEF pair, x
<1>15. x = KeptFor(w, second, pair) /\ pair = <<second, r.fd>>
    BY DEF x, pair
<1>16. /\ IsState(x) /\ x.open = w.open /\ x.fds = w.fds /\ x.exists = w.exists
       /\ x.child.std = w.child.std /\ x.child.kept = Plus(w.child.kept, second)
       /\ x.child.pre_exec = Append(w.child.pre_exec, pair)
    BY <1>14, <1>15, KeptCalls
<1>17. u.open = Without(x.open, {n}) /\ u.fds = x.fds /\ u.exists = x.exists /\ u.child = x.child
    BY <1>7, <1>16, CloseFields
<1>18. u.exists = t.exists
    <2>1. w.exists = Plus(t.exists, r.file) /\ r.file \in t.exists
        BY <1>4, <1>6, <1>13 DEF CanOpen, Exists
    <2> QED
        BY <1>16, <1>17, <2>1 DEF Plus
<1>19. u.child.std = t.child.std /\ CallsFor(t, u, r.fd)
    <2>1. w.child = t.child
        BY <1>4, <1>6, <1>13
    <2> QED
        BY <1>15, <1>16, <1>17, <2>1 DEF CallsFor
<1> HIDE DEF S
<1>20. \A m \in DOMAIN w.open : m # n => m \in DOMAIN u.open /\ u.open[m] = w.open[m]
    BY <1>16, <1>17 DEF Without, Restrict
<1>21. Spares(t, u, S)
    BY <1>1, <1>8, <1>11, <1>13, <1>20 DEF Spares
<1>22. FileFor(t, u, r.fd, r.file)
    <2>1. PICK m \in DOMAIN w.open : /\ m \notin DOMAIN v2.open /\ w.open[m] = r.file
                                      /\ EntryFor(v2, w, r.fd, Descriptor("File", m))
        BY <1>13 DEF FileFor
    <2>2. m \in DOMAIN u.open /\ u.open[m] = r.file /\ m \notin DOMAIN t.open
        BY <1>8, <1>20, <2>1
    <2>3. EntryFor(t, u, r.fd, Descriptor("File", m))
        BY <1>4, <1>6, <1>16, <1>17, <2>1 DEF EntryFor
    <2> QED
        BY <2>2, <2>3 DEF FileFor
<1> QED
    BY <1>18, <1>19, <1>21, <1>22 DEF S

(* What a redirection of fd leaves of the others *)
Touched(t, u, fd) ==
    /\ \A f \in DOMAIN t.fds : f # fd => f \in DOMAIN u.fds /\ u.fds[f] = t.fds[f]
    /\ \A f \in DOMAIN u.fds : f = fd \/ f \in DOMAIN t.fds
    /\ \A f \in DOMAIN t.child.std : f # fd => f \in DOMAIN u.child.std /\ u.child.std[f] = t.child.std[f]
    /\ \A f \in DOMAIN u.child.std : f = fd \/ f \in DOMAIN t.child.std
    /\ \A f \in DOMAIN t.fds : (f # fd \/ u.fds = t.fds) /\ t.fds[f].kind = "File" =>
          t.fds[f].raw \in DOMAIN u.open /\ u.open[t.fds[f].raw] = t.open[t.fds[f].raw]
    /\ \A f \in DOMAIN t.child.std : f # fd /\ t.child.std[f].to = "file" =>
          t.child.std[f].raw \in DOMAIN u.open /\ u.open[t.child.std[f].raw] = t.open[t.child.std[f].raw]
    /\ \A n \in Standard : n \in DOMAIN u.open /\ u.open[n] = t.open[n]
SameFds(t, u) == u.fds = t.fds
ClosedWith(t, fd, n) == n \in Owned(t, {fd}) \/ n \in Streams(t, {fd})

\* Either the table is the same, or the Command's streams are, or both entries are fd's.
TableChanges(t, u, fd) ==
    \/ SameFds(t, u)
    \/ \E entry : EntryFor(t, u, fd, entry)
StreamsChange(t, u, fd) ==
    \/ u.child.std = t.child.std
    \/ \E stdio : StreamSetTo(t, u, fd, stdio)

LEMMA IsTouched ==
    ASSUME NEW a, NEW t, NEW own, NEW lent, HeldWith(a, t, own, lent), NEW fd, NEW u,
           TableChanges(t, u, fd), StreamsChange(t, u, fd), NEW S, Spares(t, u, S),
           \A n \in S : ClosedWith(t, fd, n), SameFds(t, u) => \A n \in S : n \in Streams(t, {fd})
    PROVE  Touched(t, u, fd)
<1>1. /\ Held(a, t, own, Together(lent, t.child)) /\ Separate(t.child, lent)
      /\ KernelOK(a) /\ KernelOK(t) /\ Accounted(a, t, own, Together(lent, t.child))
    BY DEF HeldWith, Held
<1>2. /\ \A n \in Owned(t, {fd}) : n \in DOMAIN t.open /\ n \notin DOMAIN a.open /\ n \notin 0..2 /\ n \notin Together(lent, t.child)
      /\ \A f \in Files(t) : f # fd => t.fds[f].raw \notin Owned(t, {fd})
    <2> DEFINE all == Together(lent, t.child)
    <2>1. Held(a, t, own, all)
        BY <1>1
    <2> HIDE DEF all
    <2>2. /\ \A n \in Owned(t, {fd}) : n \in DOMAIN t.open /\ n \notin DOMAIN a.open /\ n \notin 0..2 /\ n \notin all
          /\ \A f \in Files(t) : f # fd => t.fds[f].raw \notin Owned(t, {fd})
        BY ONLY <2>1, OwnedFacts
    <2> QED
        BY <2>2 DEF all
<1>3. \A n \in Streams(t, {fd}) :
         /\ n \in DOMAIN t.open /\ n \notin Standard
         /\ fd \in DOMAIN t.child.std /\ t.child.std[fd].to = "file" /\ t.child.std[fd].raw = n
         /\ \A f \in DOMAIN t.fds : t.fds[f].kind = "File" => t.fds[f].raw # n
    <2> SUFFICES ASSUME NEW n, n \in Streams(t, {fd})
                 PROVE  /\ n \in DOMAIN t.open /\ n \notin Standard
                        /\ fd \in DOMAIN t.child.std /\ t.child.std[fd].to = "file" /\ t.child.std[fd].raw = n
                        /\ \A f \in DOMAIN t.fds : t.fds[f].kind = "File" => t.fds[f].raw # n
        OBVIOUS
    <2>1. /\ n \in DOMAIN t.open /\ n \notin Standard /\ n \notin t.child.kept /\ n \notin lent
          /\ fd \in DOMAIN t.child.std /\ t.child.std[fd].to = "file" /\ t.child.std[fd].raw = n
          /\ \A f \in DOMAIN t.fds : t.fds[f].kind = "File" => t.fds[f].raw # n
        <3>1. n \in StreamOf(t, fd)
            BY DEF StreamOf
        <3> QED
            BY <3>1, OneStreamApart
    <2> QED
        BY <2>1
<1>4. /\ \A f \in DOMAIN t.fds : f # fd => f \in DOMAIN u.fds /\ u.fds[f] = t.fds[f]
      /\ \A f \in DOMAIN u.fds : f = fd \/ f \in DOMAIN t.fds
    BY DEF TableChanges, EntryFor, SameFds
<1>5. /\ \A f \in DOMAIN t.child.std : f # fd => f \in DOMAIN u.child.std /\ u.child.std[f] = t.child.std[f]
      /\ \A f \in DOMAIN u.child.std : f = fd \/ f \in DOMAIN t.child.std
    BY DEF StreamsChange, StreamSetTo, With
<1>6. ASSUME NEW f \in DOMAIN t.fds, f # fd \/ u.fds = t.fds, t.fds[f].kind = "File"
      PROVE  t.fds[f].raw \in DOMAIN u.open /\ u.open[t.fds[f].raw] = t.open[t.fds[f].raw]
    <2>1. f \in Files(t) /\ t.fds[f].raw \in DOMAIN t.open
        BY <1>1, <1>6 DEF Files, Accounted
    <2>2. t.fds[f].raw \notin Streams(t, {fd})
        BY <1>3, <1>6
    <2>3. t.fds[f].raw \notin S
        <3>1. CASE f # fd
            BY <1>2, <2>1, <2>2, <3>1 DEF ClosedWith
        <3>2. CASE u.fds = t.fds
            BY <2>2, <3>2 DEF SameFds
        <3> QED
            BY <1>6, <3>1, <3>2
    <2> QED
        BY <2>1, <2>3 DEF Spares
<1>7. ASSUME NEW f \in DOMAIN t.child.std, f # fd, t.child.std[f].to = "file"
      PROVE  t.child.std[f].raw \in DOMAIN u.open /\ u.open[t.child.std[f].raw] = t.open[t.child.std[f].raw]
    <2> DEFINE n == t.child.std[f].raw
    <2>1. f \in FileStreams(t.child)
        BY <1>7 DEF FileStreams
    <2>2. n \in Taken(t.child)
        BY <2>1, TakenFacts
    <2>3. n \in Together(lent, t.child)
        BY <2>2 DEF Together
    <2>4. n \in DOMAIN t.open
        BY <1>1, <2>3 DEF Accounted
    <2>5. n \notin Streams(t, {fd})
        BY <1>1, <1>7, <2>1, OldStream DEF Separate
    <2>6. n \notin S
        BY <1>2, <2>3, <2>5 DEF ClosedWith
    <2> QED
        BY <2>4, <2>6 DEF Spares
<1>8. ASSUME NEW n \in Standard
      PROVE  n \in DOMAIN u.open /\ u.open[n] = t.open[n]
    <2>1. n \in DOMAIN t.open /\ n \notin S
        BY <1>1, <1>2, <1>3 DEF KernelOK, Standard, ClosedWith
    <2> QED
        BY <2>1 DEF Spares
<1> QED
    BY <1>4, <1>5, <1>6, <1>7, <1>8 DEF Touched

\* A redirection that reaches an external command.
ReachesChild(r) ==
    /\ r.op \in Operators /\ IsRedirection(r)
    /\ r.op \in {"dup", "<>"} => r.fd \notin Standard
    /\ r.op = "dup" => r.fd # r.source
    /\ Writes(r) => r.fd # 0
    /\ r.op = "<" => r.fd \notin 1..2
Named(r) == IF r.op = "<<" THEN "here" ELSE r.file

\* What there is for its descriptor.
StreamMade(t, u, r) ==
    /\ r.fd \in Standard /\ r.op \in {"<", ">", ">|", ">>", "<<"} /\ SameFds(t, u)
    /\ \E n \in DOMAIN u.open : /\ u.open[n] = Named(r)
                                /\ r.fd \in DOMAIN u.child.std /\ u.child.std[r.fd] = Stdio("file", n)
FileMade(t, u, r) ==
    /\ r.fd \notin Standard /\ r.op \in FileOperators /\ u.child.std = t.child.std
    /\ \E n \in DOMAIN u.open : /\ u.open[n] = r.file
                                /\ r.fd \in DOMAIN u.fds /\ u.fds[r.fd] = Descriptor("File", n)
CloseMade(t, u, r) ==
    /\ r.op = "close" /\ r.fd \in DOMAIN u.fds /\ u.fds[r.fd] = Descriptor("Closed", NoRaw)
    /\ IF r.fd \in Standard THEN r.fd \in DOMAIN u.child.std /\ u.child.std[r.fd] = Stdio("null", NoRaw)
                            ELSE u.child.std = t.child.std
DuplicateMade(t, u, r) ==
    /\ r.fd \notin Standard /\ r.op = "dup" /\ u.child.std = t.child.std
    /\ get_raw_fd(t, r.source) # NoRaw /\ r.fd \in DOMAIN u.fds
    /\ u.fds[r.fd] = Descriptor("Duplicate", get_raw_fd(t, r.source))
    /\ Spares(t, u, Owned(t, {r.fd}))
Creates(r) == r.op \in {">", ">|", ">>", "<>"}
Calls(t, u, r) == SameCalls(t, u) \/ (r.fd \notin Standard /\ CallsFor(t, u, r.fd))
Made(t, u, r) ==
    /\ Touched(t, u, r.fd) /\ Calls(t, u, r)
    /\ u.exists = IF Creates(r) THEN Plus(t.exists, r.file) ELSE t.exists
    /\ StreamMade(t, u, r) \/ FileMade(t, u, r) \/ CloseMade(t, u, r) \/ DuplicateMade(t, u, r)

\* A stream was opened.
LEMMA MadeStream ==
    ASSUME NEW a, NEW t, NEW own, NEW lent, HeldWith(a, t, own, lent),
           NEW r, r.fd \in Standard, r.op \in {"<", ">", ">|", ">>", "<<"},
           NEW u, StreamFor(t, u, r.fd, Named(r)), Spares(t, u, Streams(t, {r.fd})), SameCalls(t, u), u.fds = t.fds,
           u.exists = IF Creates(r) THEN Plus(t.exists, r.file) ELSE t.exists
    PROVE  Made(t, u, r)
<1> DEFINE fd == r.fd
           S == Streams(t, {r.fd})
<1>1. PICK n \in DOMAIN u.open : u.open[n] = Named(r) /\ StreamSetTo(t, u, r.fd, Stdio("file", n))
    BY DEF StreamFor
<1>2. TableChanges(t, u, r.fd) /\ StreamsChange(t, u, r.fd)
    BY <1>1 DEF TableChanges, StreamsChange, SameFds
<1>3. Spares(t, u, S) /\ \A m \in S : ClosedWith(t, r.fd, m) /\ m \in Streams(t, {r.fd})
    BY DEF ClosedWith
<1> HIDE DEF S
<1>4. Touched(t, u, r.fd)
    BY <1>2, <1>3, IsTouched
<1>5. StreamMade(t, u, r)
    BY <1>1 DEF StreamMade, SameFds, StreamSetTo, With
<1> QED
    BY <1>4, <1>5 DEF Made, Calls

\* A File was.
LEMMA MadeFile ==
    ASSUME NEW a, NEW t, NEW own, NEW lent, HeldWith(a, t, own, lent),
           NEW r, r.fd \notin Standard, r.op \in FileOperators,
           NEW u, FileFor(t, u, r.fd, r.file), Spares(t, u, Owned(t, {r.fd})), u.child.std = t.child.std,
           CallsFor(t, u, r.fd), u.exists = IF Creates(r) THEN Plus(t.exists, r.file) ELSE t.exists
    PROVE  Made(t, u, r)
<1> DEFINE S == Owned(t, {r.fd})
<1>1. PICK n \in DOMAIN u.open : n \notin DOMAIN t.open /\ u.open[n] = r.file /\ EntryFor(t, u, r.fd, Descriptor("File", n))
    BY DEF FileFor
<1>2. TableChanges(t, u, r.fd) /\ StreamsChange(t, u, r.fd)
    BY <1>1 DEF TableChanges, StreamsChange
<1>3. Spares(t, u, S) /\ \A m \in S : ClosedWith(t, r.fd, m)
    BY DEF ClosedWith
<1>4. SameFds(t, u) => \A m \in S : m \in Streams(t, {r.fd})
    <2>1. ~SameFds(t, u)
        <3>1. u.fds[r.fd].raw = n /\ u.fds[r.fd].kind = "File" /\ r.fd \in DOMAIN u.fds
            BY <1>1 DEF EntryFor, Descriptor
        <3>2. \A f \in DOMAIN t.fds : t.fds[f].kind = "File" => t.fds[f].raw \in DOMAIN t.open
            BY DEF HeldWith, Held, Accounted, Files
        <3> QED
            BY <1>1, <3>1, <3>2 DEF SameFds
    <2> QED
        BY <2>1
<1> HIDE DEF S
<1>5. Touched(t, u, r.fd)
    BY <1>2, <1>3, <1>4, IsTouched
<1>6. FileMade(t, u, r)
    BY <1>1 DEF FileMade, EntryFor
<1> QED
    BY <1>5, <1>6 DEF Made, Calls

LEMMA InputMade ==
    ASSUME NEW a, NEW t, NEW own, NEW lent, HeldWith(a, t, own, lent), NEW r, ReachesChild(r), r.op = "<",
           NEW result, result = ApplyToChild(t, r)
    PROVE  /\ result.ok <=> CanOpen(t, r.file, FALSE)
           /\ result.ok => Made(t, result.s, r)
           /\ ~result.ok => result.s = t
<1>1. result = apply_input_redirection(t, r, TRUE)
    BY DEF ApplyToChild, Apply
<1>2. CASE ~CanOpen(t, r.file, FALSE)
    <2>1. result = Failed(t)
        BY <1>1, <1>2 DEF apply_input_redirection
    <2> QED
        BY <1>2, <2>1, FailedFields
<1>3. CASE CanOpen(t, r.file, FALSE) /\ r.fd = 0
    <2> DEFINE u == WithStream(Opened(t, r.file), 0, Stdio("file", Handle(t)))
    <2>1. result = Ok(u)
        BY <1>1, <1>3 DEF apply_input_redirection
    <2>2. u = WithStream(Opened(t, r.file), r.fd, Stdio("file", Handle(t)))
        BY <1>3
    <2> HIDE DEF u
    <2>3. /\ StreamFor(t, u, r.fd, r.file) /\ Spares(t, u, Streams(t, {r.fd})) /\ SameCalls(t, u)
          /\ u.fds = t.fds /\ u.exists = t.exists
        BY <2>2, StreamOpened
    <2>4. Named(r) = r.file /\ ~Creates(r) /\ r.fd \in Standard
        BY <1>3 DEF Named, Creates, Standard
    <2>5. Made(t, u, r)
        BY <2>3, <2>4, MadeStream
    <2> QED
        BY <1>3, <2>1, <2>5, OkFields
<1>4. CASE CanOpen(t, r.file, FALSE) /\ r.fd # 0
    <2> DEFINE u == InputTo(t, r)
    <2>1. result = Ok(u)
        BY <1>1, <1>4, Zenon DEF apply_input_redirection, KeptFor, ForReading, InputTo
    <2>2. CanOpen(t, r.file, FALSE) /\ u = InputTo(t, r)
        BY <1>4
    <2> HIDE DEF u
    <2>3. /\ FileFor(t, u, r.fd, r.file) /\ Spares(t, u, Owned(t, {r.fd}))
          /\ u.exists = t.exists /\ u.child.std = t.child.std /\ CallsFor(t, u, r.fd)
        BY <2>2, InputOpens
    <2>4. ~Creates(r) /\ r.fd \notin Standard /\ r.op \in FileOperators
        BY <1>4 DEF Creates, Standard, ReachesChild, FileOperators
    <2>5. Made(t, u, r)
        BY <2>3, <2>4, MadeFile
    <2> QED
        BY <1>4, <2>1, <2>5, OkFields
<1> QED
    BY <1>2, <1>3, <1>4

LEMMA OutputMade ==
    ASSUME NEW a, NEW t, NEW own, NEW lent, HeldWith(a, t, own, lent), NEW r, ReachesChild(r), Writes(r),
           NEW result, result = ApplyToChild(t, r)
    PROVE  /\ result.ok <=> ~Refused(t, r) /\ CanOpen(t, r.file, TRUE)
           /\ result.ok => Made(t, result.s, r)
           /\ ~result.ok => result.s = t
<1> DEFINE v == Created(t, r.file)
<1>1. result = apply_output_redirection(t, r, TRUE)
    BY DEF ApplyToChild, Apply, Writes
<1>2. CASE ~(~Refused(t, r) /\ CanOpen(t, r.file, TRUE))
    <2>1. result = Failed(t)
        BY <1>1, <1>2 DEF apply_output_redirection
    <2> QED
        BY <1>2, <2>1, FailedFields
<1>3. /\ HeldWith(a, v, own, lent) /\ v.open = t.open /\ v.fds = t.fds /\ v.child = t.child
    BY CreatedWith
<1>4. v.exists = Plus(t.exists, r.file) /\ Lowest(v.open) = Lowest(t.open)
    <2>1. IsState(t)
        BY DEF HeldWith, Held, KernelOK
    <2> QED
        BY <1>3, <2>1 DEF Created, Plus, IsState
<1>5. Handle(v) = Handle(t)
    BY <1>4 DEF Handle
<1>6. Creates(r) /\ Named(r) = r.file
    BY DEF Creates, Named, Writes
<1>7. CASE ~Refused(t, r) /\ CanOpen(t, r.file, TRUE) /\ r.fd \in 1..2
    <2> DEFINE u == WithStream(Opened(v, r.file), r.fd, Stdio("file", Handle(t)))
    <2>1. result = Ok(u)
        BY <1>1, <1>7 DEF apply_output_redirection
    <2> HIDE DEF v
    <2>2. u = WithStream(Opened(v, r.file), r.fd, Stdio("file", Handle(v)))
        BY <1>5
    <2> HIDE DEF u
    <2>3. /\ StreamFor(v, u, r.fd, r.file) /\ Spares(v, u, Streams(v, {r.fd})) /\ SameCalls(v, u)
          /\ u.fds = v.fds /\ u.exists = v.exists
        BY <1>3, <2>2, StreamOpened
    <2>4. /\ StreamFor(t, u, r.fd, Named(r)) /\ Spares(t, u, Streams(t, {r.fd})) /\ SameCalls(t, u)
          /\ u.fds = t.fds
        BY <1>3, <1>6, <2>3 DEF StreamFor, StreamSetTo, Spares, Streams, SameCalls
    <2>5. u.exists = Plus(t.exists, r.file)
        BY <1>4, <2>3
    <2>6. r.op \in {"<", ">", ">|", ">>", "<<"} /\ r.fd \in Standard
        BY <1>7 DEF Writes, Standard
    <2>7. Made(t, u, r)
        BY <1>6, <2>4, <2>5, <2>6, MadeStream
    <2> QED
        BY <1>7, <2>1, <2>7, OkFields
<1>8. CASE ~Refused(t, r) /\ CanOpen(t, r.file, TRUE) /\ r.fd \notin 1..2
    <2> DEFINE u == Close(OnFile(v, r, TRUE), {Handle(t)})
               creating == TRUE
    <2>1. result = Ok(u)
        BY <1>1, <1>8 DEF apply_output_redirection
    <2> HIDE DEF v
    <2>2. u = Close(OnFile(v, r, creating), {Handle(v)})
        BY <1>5
    <2>3. CanOpen(v, r.file, creating)
        BY <1>8 DEF CanOpen
    <2> HIDE DEF u, creating
    <2> DEFINE all == Together(lent, v.child)
    <2>4. Held(a, v, own, all)
        BY <1>3 DEF HeldWith
    <2> HIDE DEF all
    <2>5. /\ FileFor(v, u, r.fd, r.file) /\ Spares(v, u, Owned(v, {r.fd}))
          /\ u.exists = Plus(v.exists, r.file) /\ u.child = v.child
        BY <2>2, <2>3, <2>4, OnFileOpens
    <2>6. /\ FileFor(t, u, r.fd, r.file) /\ Spares(t, u, Owned(t, {r.fd})) /\ u.child = t.child
        BY <1>3, <2>5 DEF FileFor, EntryFor, Spares, Owned
    <2>7. u.exists = Plus(t.exists, r.file)
        BY <1>4, <2>5 DEF Plus
    <2>8. CallsFor(t, u, r.fd) /\ u.child.std = t.child.std
        BY <2>6 DEF CallsFor
    <2>9. r.fd \notin Standard /\ r.op \in FileOperators
        BY <1>8 DEF Standard, ReachesChild, FileOperators, Writes
    <2>10. Made(t, u, r)
        BY <1>6, <2>6, <2>7, <2>8, <2>9, MadeFile
    <2> QED
        BY <1>8, <2>1, <2>10, OkFields
<1> QED
    BY <1>2, <1>7, <1>8

\* An entry that is not a File took the place of another one.
LEMMA EntryTouches ==
    ASSUME NEW a, NEW t, NEW own, NEW lent, HeldWith(a, t, own, lent), NEW fd, NEW entry, entry.kind # "File",
           NEW u, EntryFor(t, u, fd, entry), StreamsChange(t, u, fd),
           NEW S, Spares(t, u, S), \A n \in S : ClosedWith(t, fd, n)
    PROVE  Touched(t, u, fd)
<1>1. TableChanges(t, u, fd)
    BY DEF TableChanges
<1>2. SameFds(t, u) => \A n \in S : n \in Streams(t, {fd})
    <2>1. SUFFICES ASSUME SameFds(t, u) PROVE \A n \in S : n \in Streams(t, {fd})
        OBVIOUS
    <2>2. t.fds[fd].kind # "File"
        BY <2>1 DEF SameFds, EntryFor
    <2>3. Owned(t, {fd}) = {}
        BY <2>2 DEF Owned
    <2> QED
        BY <2>3 DEF ClosedWith
<1> QED
    BY <1>1, <1>2, IsTouched

LEMMA CloseMakes ==
    ASSUME NEW a, NEW t, NEW own, NEW lent, HeldWith(a, t, own, lent), NEW r, ReachesChild(r), r.op = "close",
           NEW result, result = ApplyToChild(t, r)
    PROVE  result.ok /\ Made(t, result.s, r)
<1> DEFINE v == Insert(t, r.fd, Descriptor("Closed", NoRaw))
           w == WithStream(v, r.fd, Stdio("null", NoRaw))
           u == IF r.fd \in 0..2 THEN w ELSE v
           entry == Descriptor("Closed", NoRaw)
           fd == r.fd
           null == Stdio("null", NoRaw)
<1>1. result = Ok(u)
    BY Zenon DEF ApplyToChild, Apply, apply_fd_close, close_fd, Ok
<1>2. IsState(t) /\ IsCommand(t.child)
    BY StreamApart
<1>3. entry.kind = "Closed" /\ v = Insert(t, fd, entry) /\ w = WithStream(v, fd, null)
    BY DEF Descriptor
<1>4. u = IF fd \in Standard THEN w ELSE v
    BY DEF Standard
<1>0. entry = Descriptor("Closed", NoRaw) /\ null = Stdio("null", NoRaw) /\ fd = r.fd
    OBVIOUS
<1> HIDE DEF u, v, w, entry, fd, null
<1>5. /\ EntryFor(t, v, fd, entry) /\ Spares(t, v, Owned(t, {fd})) /\ v.exists = t.exists
      /\ IsState(v) /\ v.child = t.child
    BY <1>2, <1>3, InsertEntry
<1>6. /\ w.open = Without(v.open, Streams(v, {fd})) /\ w.fds = v.fds /\ w.exists = v.exists
      /\ StreamSetTo(v, w, fd, null) /\ SameCalls(v, w)
    BY <1>2, <1>3, <1>5, StreamSet
<1>7. Streams(v, {fd}) = Streams(t, {fd})
    BY <1>5 DEF Streams
<1>8. ~Creates(r)
    BY DEF Creates
<1>9. CASE fd \notin Standard
    <2> DEFINE S == Owned(t, {fd})
    <2>1. Spares(t, v, S) /\ \A n \in S : ClosedWith(t, fd, n)
        BY <1>5 DEF ClosedWith
    <2> HIDE DEF S
    <2>2. StreamsChange(t, v, fd) /\ entry.kind # "File"
        BY <1>3, <1>5 DEF StreamsChange
    <2>3. Touched(t, v, fd)
        BY <1>5, <2>1, <2>2, EntryTouches
    <2>4. CloseMade(t, v, r) /\ Calls(t, v, r)
        BY <1>0, <1>5, <1>9 DEF CloseMade, Calls, SameCalls, EntryFor
    <2>5. Made(t, v, r)
        BY <1>0, <1>5, <1>8, <2>3, <2>4 DEF Made
    <2>6. u = v
        BY <1>4, <1>9
    <2> QED
        BY <1>1, <2>5, <2>6, OkFields
<1>10. CASE fd \in Standard
    <2> DEFINE S == Owned(t, {fd}) \cup Streams(t, {fd})
    <2>1. Spares(t, w, S) /\ \A n \in S : ClosedWith(t, fd, n)
        BY <1>5, <1>6, <1>7 DEF ClosedWith, Spares, Without, Restrict
    <2> HIDE DEF S
    <2>2. StreamSetTo(t, w, fd, null) /\ SameCalls(t, w)
        BY <1>5, <1>6 DEF StreamSetTo, SameCalls
    <2>3. StreamsChange(t, w, fd) /\ entry.kind # "File" /\ EntryFor(t, w, fd, entry)
        BY <1>3, <1>5, <1>6, <2>2 DEF StreamsChange, EntryFor
    <2>4. Touched(t, w, fd)
        BY <2>1, <2>3, EntryTouches
    <2>5. CloseMade(t, w, r) /\ Calls(t, w, r)
        BY <1>0, <1>10, <2>2, <2>3 DEF CloseMade, Calls, EntryFor, StreamSetTo, With
    <2>6. Made(t, w, r)
        BY <1>0, <1>5, <1>6, <1>8, <2>4, <2>5 DEF Made
    <2>7. u = w
        BY <1>4, <1>10
    <2> QED
        BY <1>1, <2>6, <2>7, OkFields
<1> QED
    BY <1>9, <1>10

\* Whether a duplicate can be made.
Duplicable(t, r) == ~is_closed(t, r.source) /\ get_raw_fd(t, r.source) # NoRaw

LEMMA DuplicateMakes ==
    ASSUME NEW a, NEW t, NEW own, NEW lent, HeldWith(a, t, own, lent), NEW r, ReachesChild(r), r.op = "dup",
           NEW result, result = ApplyToChild(t, r)
    PROVE  /\ result.ok <=> Duplicable(t, r)
           /\ result.ok => Made(t, result.s, r)
           /\ ~result.ok => result.s = t
<1>1. result = apply_fd_duplication(t, r) /\ r.source # r.fd /\ r.fd \notin Standard
    BY DEF ApplyToChild, Apply, ReachesChild
<1>2. CASE ~Duplicable(t, r)
    <2>1. result = Failed(t)
        BY <1>1, <1>2 DEF apply_fd_duplication, duplicate_fd, Duplicable
    <2> QED
        BY <1>2, <2>1, FailedFields
<1>3. CASE Duplicable(t, r)
    <2> DEFINE fd == r.fd
               entry == Descriptor("Duplicate", get_raw_fd(t, r.source))
               u == Insert(t, fd, entry)
               S == Owned(t, {fd})
    <2>1. result = Ok(u)
        BY <1>1, <1>3 DEF apply_fd_duplication, duplicate_fd, Duplicable
    <2>2. entry.kind = "Duplicate" /\ u = Insert(t, fd, entry) /\ S = Owned(t, {fd}) /\ fd = r.fd
          /\ entry = Descriptor("Duplicate", get_raw_fd(t, r.source))
        BY DEF Descriptor
    <2>3. IsState(t)
        BY StreamApart
    <2> HIDE DEF u, entry, fd, S
    <2>4. EntryFor(t, u, fd, entry) /\ Spares(t, u, S) /\ u.exists = t.exists /\ u.child = t.child
        BY <2>2, <2>3, InsertEntry
    <2>5. StreamsChange(t, u, fd) /\ \A n \in S : ClosedWith(t, fd, n)
        BY <2>2, <2>4 DEF StreamsChange, ClosedWith
    <2>6. Touched(t, u, fd)
        BY <2>2, <2>4, <2>5, EntryTouches
    <2>7. DuplicateMade(t, u, r) /\ Calls(t, u, r)
        BY <1>1, <1>3, <2>2, <2>4 DEF DuplicateMade, Calls, SameCalls, EntryFor, Duplicable
    <2>8. Made(t, u, r)
        BY <2>2, <2>4, <2>6, <2>7 DEF Made, Creates
    <2> QED
        BY <1>3, <2>1, <2>8, OkFields
<1> QED
    BY <1>2, <1>3

LEMMA BothWaysMakes ==
    ASSUME NEW a, NEW t, NEW own, NEW lent, HeldWith(a, t, own, lent), NEW r, ReachesChild(r), r.op = "<>",
           NEW result, result = ApplyToChild(t, r)
    PROVE  /\ result.ok <=> CanOpen(t, r.file, TRUE)
           /\ result.ok => Made(t, result.s, r)
           /\ ~result.ok => result.s = t
<1> DEFINE creating == TRUE
           all == Together(lent, t.child)
<1>1. result = open_fd(t, r.fd, r.file, creating) /\ r.fd \notin Standard /\ r.op \in FileOperators /\ Creates(r)
    BY DEF ApplyToChild, Apply, ReachesChild, FileOperators, Creates
<1>2. CASE ~CanOpen(t, r.file, creating)
    <2>1. result = Failed(t)
        BY <1>1, <1>2 DEF open_fd
    <2> QED
        BY <1>2, <2>1, FailedFields
<1>3. CASE CanOpen(t, r.file, creating)
    <2> DEFINE u == open_fd(t, r.fd, r.file, creating).s
    <2>1. result = Ok(u)
        BY <1>1, <1>3 DEF open_fd, Ok
    <2>2. Held(a, t, own, all)
        BY DEF HeldWith
    <2> HIDE DEF all
    <2>3. CanOpen(t, r.file, creating) /\ u = open_fd(t, r.fd, r.file, creating).s
        BY <1>3
    <2> HIDE DEF creating, u
    <2>4. /\ FileFor(t, u, r.fd, r.file) /\ Spares(t, u, Owned(t, {r.fd}))
          /\ u.exists = Plus(t.exists, r.file) /\ u.child = t.child
        BY <2>2, <2>3, OpensFile
    <2>5. CallsFor(t, u, r.fd)
        BY <2>4 DEF CallsFor
    <2>6. Made(t, u, r)
        BY <1>1, <2>4, <2>5, MadeFile
    <2> QED
        BY <1>3, <2>1, <2>6, OkFields DEF creating
<1> QED
    BY <1>2, <1>3

LEMMA HereMakes ==
    ASSUME NEW a, NEW t, NEW own, NEW lent, HeldWith(a, t, own, lent), NEW r, ReachesChild(r), r.op = "<<",
           NEW result, result = ApplyToChild(t, r)
    PROVE  result.ok /\ Made(t, result.s, r)
<1> DEFINE u == WithStream(Opened(t, "here"), 0, Stdio("file", Handle(t)))
<1>1. result = Ok(u)
    BY DEF ApplyToChild, Apply, apply_heredoc_redirection
<1>2. r.fd = 0 /\ Named(r) = "here" /\ ~Creates(r) /\ r.fd \in Standard
    BY DEF ReachesChild, IsRedirection, Named, Creates, Standard
<1>3. u = WithStream(Opened(t, Named(r)), r.fd, Stdio("file", Handle(t)))
    BY <1>2
<1> HIDE DEF u
<1>4. /\ StreamFor(t, u, r.fd, Named(r)) /\ Spares(t, u, Streams(t, {r.fd})) /\ SameCalls(t, u)
      /\ u.fds = t.fds /\ u.exists = t.exists
    BY <1>3, StreamOpened
<1>5. Made(t, u, r)
    BY <1>2, <1>4, MadeStream
<1> QED
    BY <1>1, <1>5, OkFields

\* Whether a redirection of a Command can be made.
Works(t, r) ==
    /\ r.op = "<" => CanOpen(t, r.file, FALSE)
    /\ Writes(r) => ~Refused(t, r) /\ CanOpen(t, r.file, TRUE)
    /\ r.op = "<>" => CanOpen(t, r.file, TRUE)
    /\ r.op = "dup" => Duplicable(t, r)

LEMMA ChildMakes ==
    ASSUME NEW a, NEW t, NEW own, NEW lent, HeldWith(a, t, own, lent), NEW r, ReachesChild(r),
           NEW result, result = ApplyToChild(t, r)
    PROVE  /\ result.ok <=> Works(t, r)
           /\ result.ok => Made(t, result.s, r)
           /\ ~result.ok => result.s = t
<1>1. r.op \in {"<", ">", ">|", ">>", "<>", "<<", "dup", "close"}
    BY DEF ReachesChild, Operators
<1>2. CASE r.op = "<"
    <2>1. /\ result.ok <=> CanOpen(t, r.file, FALSE)
          /\ result.ok => Made(t, result.s, r)
          /\ ~result.ok => result.s = t
        BY <1>2, InputMade
    <2> QED
        BY <1>2, <2>1 DEF Works, Writes
<1>3. CASE Writes(r)
    <2>1. /\ result.ok <=> ~Refused(t, r) /\ CanOpen(t, r.file, TRUE)
          /\ result.ok => Made(t, result.s, r)
          /\ ~result.ok => result.s = t
        BY <1>3, OutputMade
    <2> QED
        BY <1>3, <2>1 DEF Works, Writes
<1>4. CASE r.op = "<>"
    <2>1. /\ result.ok <=> CanOpen(t, r.file, TRUE)
          /\ result.ok => Made(t, result.s, r)
          /\ ~result.ok => result.s = t
        BY <1>4, BothWaysMakes
    <2> QED
        BY <1>4, <2>1 DEF Works, Writes
<1>5. CASE r.op = "<<"
    <2>1. result.ok /\ Made(t, result.s, r)
        BY <1>5, HereMakes
    <2> QED
        BY <1>5, <2>1 DEF Works, Writes
<1>6. CASE r.op = "dup"
    <2>1. /\ result.ok <=> Duplicable(t, r)
          /\ result.ok => Made(t, result.s, r)
          /\ ~result.ok => result.s = t
        BY <1>6, DuplicateMakes
    <2> QED
        BY <1>6, <2>1 DEF Works, Writes
<1>7. CASE r.op = "close"
    <2>1. result.ok /\ Made(t, result.s, r)
        BY <1>7, CloseMakes
    <2> QED
        BY <1>7, <2>1 DEF Works, Writes
<1> QED
    BY <1>1, <1>2, <1>3, <1>4, <1>5, <1>6, <1>7 DEF Writes

-----------------------------------------------------------------------------
(* A Command before its redirections                                       *)

\* Nothing but streams was given to it.
Began(v) ==
    /\ v.fds = d.fds /\ v.exists = d.exists /\ v.child.pre_exec = <<>> /\ v.child.kept = {}
    /\ Undisturbed(d, v, DOMAIN d.open)
BeginsWith(v, input) ==
    /\ 0 \in DOMAIN v.child.std
    /\ \E n \in DOMAIN v.open : v.child.std[0] = Stdio("file", n) /\ v.open[n] = d.open[input]
Feeding == InPipeline /\ Top.pipe # NoRaw
Unfed == InPipeline /\ ~Top.first /\ Top.pipe = NoRaw
Beginning(v) ==
    \/ Feeding /\ (Top.pipe \in DOMAIN d.open => BeginsWith(v, Top.pipe))
    \/ Unfed /\ 0 \in DOMAIN v.child.std /\ v.child.std[0] = Stdio("null", NoRaw)
    \/ /\ ~Feeding /\ ~Unfed /\ stdin_override # NoRaw
       /\ stdin_override \in DOMAIN d.open => BeginsWith(v, stdin_override)
    \/ ~Feeding /\ ~Unfed /\ stdin_override = NoRaw /\ 0 \notin DOMAIN v.child.std

\* A stream of a Command that has none.
LEMMA FirstStream ==
    ASSUME NEW s, IsState(s), IsCommand(s.child), NEW fd, fd \notin DOMAIN s.child.std, NEW stdio,
           NEW u, u = WithStream(s, fd, stdio)
    PROVE  /\ Undisturbed(s, u, DOMAIN s.open) /\ u.fds = s.fds /\ u.exists = s.exists
           /\ StreamSetTo(s, u, fd, stdio) /\ SameCalls(s, u)
<1>1. /\ IsState(u) /\ u.open = Without(s.open, Streams(s, {fd})) /\ u.fds = s.fds /\ u.exists = s.exists
      /\ StreamSetTo(s, u, fd, stdio) /\ SameCalls(s, u)
    BY StreamSet
<1>2. Streams(s, {fd}) = {}
    BY DEF Streams
<1>3. Undisturbed(s, u, DOMAIN s.open)
    BY <1>1, <1>2 DEF Without, Restrict, Undisturbed
<1> QED
    BY <1>1, <1>3

LEMMA StdinBegins ==
    ASSUME IsState(d), d.child = NoChild, Lowest(d.open) \notin DOMAIN d.open, NEW v, v = WithStdin(d)
    PROVE  Began(v) /\ Beginning(v) /\ \A fd \in DOMAIN v.child.std : fd = 0
<1>1. IsCommand(d.child) /\ d.child.std = <<>> /\ DOMAIN d.child.std = {} /\ d.child.pre_exec = <<>> /\ d.child.kept = {}
    BY DEF NoChild, IsCommand, IsFunction
<1>2. ASSUME NEW stdio, v = WithStream(d, 0, stdio)
      PROVE  /\ Began(v) /\ 0 \in DOMAIN v.child.std /\ v.child.std[0] = stdio
             /\ \A fd \in DOMAIN v.child.std : fd = 0
    <2>1. /\ Undisturbed(d, v, DOMAIN d.open) /\ v.fds = d.fds /\ v.exists = d.exists
          /\ StreamSetTo(d, v, 0, stdio) /\ SameCalls(d, v)
        BY <1>1, <1>2, FirstStream
    <2> QED
        BY <1>1, <2>1 DEF Began, StreamSetTo, SameCalls, With
<1>3. CASE Feeding
    <2> DEFINE stdio == Stdio("file", Top.pipe)
    <2>1. v = WithStream(d, 0, stdio)
        BY <1>3 DEF WithStdin, Feeding
    <2>2. /\ Began(v) /\ 0 \in DOMAIN v.child.std /\ v.child.std[0] = stdio
          /\ \A fd \in DOMAIN v.child.std : fd = 0
        <3> HIDE DEF stdio
        <3> QED
            BY <1>2, <2>1
    <2> QED
        BY <1>3, <2>2 DEF Beginning, BeginsWith, Began, Undisturbed
<1>4. CASE Unfed
    <2> DEFINE stdio == Stdio("null", NoRaw)
    <2>1. v = WithStream(d, 0, stdio)
        BY <1>4 DEF WithStdin, Unfed
    <2>2. /\ Began(v) /\ 0 \in DOMAIN v.child.std /\ v.child.std[0] = stdio
          /\ \A fd \in DOMAIN v.child.std : fd = 0
        <3> HIDE DEF stdio
        <3> QED
            BY <1>2, <2>1
    <2> QED
        BY <1>4, <2>2 DEF Beginning
<1>5. CASE ~Feeding /\ ~Unfed /\ stdin_override # NoRaw /\ stdin_override \in DOMAIN d.open
    <2> DEFINE input == stdin_override
               n == Handle(d)
               s == Dup(d, input)
               stdio == Stdio("file", n)
    <2>1. v = WithStream(s, 0, stdio)
        BY <1>5 DEF WithStdin, Unfed, Feeding
    <2>2. input \in DOMAIN d.open /\ n = Lowest(d.open) /\ s = Dup(d, input) /\ stdio = Stdio("file", n) /\ input = stdin_override
        BY <1>5 DEF Handle
    <2> HIDE DEF input, n, s, stdio
    <2>3. /\ IsState(s) /\ s.open = With(d.open, n, d.open[input]) /\ s.exists = d.exists /\ s.fds = d.fds
          /\ s.child = d.child
        BY <2>2, DupFields
    <2>4. n \in DOMAIN s.open /\ s.open[n] = d.open[input] /\ Undisturbed(d, s, DOMAIN d.open)
        BY <2>2, <2>3 DEF With, Undisturbed
    <2>5. /\ Undisturbed(s, v, DOMAIN s.open) /\ v.fds = s.fds /\ v.exists = s.exists
          /\ StreamSetTo(s, v, 0, stdio) /\ SameCalls(s, v)
        <3>1. IsCommand(s.child) /\ 0 \notin DOMAIN s.child.std
            BY <1>1, <2>3
        <3> QED
            BY <2>1, <2>3, <3>1, FirstStream
    <2>6. Began(v)
        BY <1>1, <2>3, <2>4, <2>5 DEF Began, SameCalls, Undisturbed
    <2>7. BeginsWith(v, input) /\ \A fd \in DOMAIN v.child.std : fd = 0
        BY <1>1, <2>2, <2>3, <2>4, <2>5 DEF BeginsWith, StreamSetTo, With, Undisturbed
    <2> QED
        BY <1>5, <2>2, <2>6, <2>7 DEF Beginning
<1>6. CASE ~Feeding /\ ~Unfed /\ ~(stdin_override # NoRaw /\ stdin_override \in DOMAIN d.open)
    <2>1. v = d
        BY <1>6 DEF WithStdin, Unfed, Feeding
    <2>2. Began(v)
        BY <1>1, <2>1 DEF Began, Undisturbed
    <2> QED
        BY <1>1, <1>6, <2>1, <2>2 DEF Beginning
<1> QED
    BY <1>3, <1>4, <1>5, <1>6

ReadyFor(last) == WithStdout(WithStdin(d), last)
Collected(last) == ~last \/ Capturing

\* Its output as well.
Ready(w, last) ==
    /\ Began(w) /\ Beginning(w)
    /\ \A fd \in DOMAIN w.child.std : fd \in {0, 1}
    /\ 1 \in DOMAIN w.child.std <=> Collected(last)
    /\ 1 \in DOMAIN w.child.std => w.child.std[1] = Stdio("piped", NoRaw)

LEMMA CommandReady ==
    ASSUME NEW a, NEW own, NEW rest, HeldForCommand(a, d, own, rest), d.child = NoChild, NEW last, NEW w, w = ReadyFor(last)
    PROVE  HeldWith(a, w, own, rest) /\ Ready(w, last)
<1> DEFINE v == WithStdin(d)
           piped == Stdio("piped", NoRaw)
<1>0. v = WithStdin(d) /\ w = WithStdout(v, last) /\ piped = Stdio("piped", NoRaw)
    BY DEF ReadyFor
<1>1. w = IF Collected(last) THEN WithStream(v, 1, piped) ELSE v
    BY DEF ReadyFor, WithStdout, Collected
<1> HIDE DEF v, piped
<1>2. HeldWith(a, v, own, rest)
    BY <1>0, WithStdinKeeps
<1>3. HeldWith(a, w, own, rest)
    BY <1>0, <1>2, WithStdoutKeeps
<1>4. Began(v) /\ Beginning(v) /\ \A fd \in DOMAIN v.child.std : fd = 0
    <2>1. IsState(d) /\ Lowest(d.open) \notin DOMAIN d.open
        <3>1. ASSUME NEW lent, HeldWith(a, d, own, lent) PROVE IsState(d) /\ Lowest(d.open) \notin DOMAIN d.open
            <4> DEFINE all == Together(lent, d.child)
            <4>1. Held(a, d, own, all)
                BY <3>1 DEF HeldWith
            <4> HIDE DEF all
            <4> QED
                BY <4>1, FreshNumber DEF Held, KernelOK
        <3> QED
            BY <3>1 DEF HeldForCommand
    <2> QED
        BY <1>0, <2>1, StdinBegins
<1>5. CASE ~Collected(last)
    BY <1>1, <1>3, <1>4, <1>5 DEF Ready
<1>6. CASE Collected(last)
    <2>1. IsState(v) /\ IsCommand(v.child) /\ 1 \notin DOMAIN v.child.std
        BY <1>2, <1>4, StreamApart
    <2>2. /\ Undisturbed(v, w, DOMAIN v.open) /\ w.fds = v.fds /\ w.exists = v.exists
          /\ StreamSetTo(v, w, 1, piped) /\ SameCalls(v, w)
        BY <1>1, <1>6, <2>1, FirstStream
    <2>3. Began(w)
        BY <1>4, <2>2 DEF Began, SameCalls, Undisturbed
    <2>4. /\ \A fd \in DOMAIN w.child.std : fd \in {0, 1}
          /\ 1 \in DOMAIN w.child.std /\ w.child.std[1] = piped
          /\ 0 \in DOMAIN w.child.std <=> 0 \in DOMAIN v.child.std
          /\ 0 \in DOMAIN v.child.std => w.child.std[0] = v.child.std[0]
        BY <1>4, <2>2 DEF StreamSetTo, With
    <2>5. \A input : BeginsWith(v, input) => BeginsWith(w, input)
        BY <2>2, <2>4 DEF BeginsWith, Undisturbed
    <2>6. Beginning(w)
        BY <1>4, <2>4, <2>5 DEF Beginning
    <2> QED
        BY <1>0, <1>3, <1>6, <2>3, <2>4, <2>6 DEF Ready
<1> QED
    BY <1>5, <1>6

-----------------------------------------------------------------------------
(* What the external command leaves                                        *)

\* What happened: the command was spawned with what the redirections prepared.
ExternalEvent(rs, last) ==
    /\ event'.kind = "external" /\ event'.redirections = rs /\ event'.last = last /\ event'.existed = d.exists
ExternalResult(rs, last, prepared) ==
    LET spawned == Spawn(prepared.s, last)
    IN /\ ~prepared.ok => event'.ok = FALSE
       /\ prepared.ok => event'.ok = spawned.ok /\ (spawned.ok => event'.seen = Seen(spawned.s))
ExternalLeaves(last, prepared) ==
    \/ d' = Dropped(prepared.s) /\ InPipeline /\ stack' = Front(stack)
    \/ d' = Dropped(prepared.s) /\ ~InPipeline /\ stack' = stack
    \/ d' = Dropped(prepared.s) /\ stack' = AfterStage(stack, last, NoRaw)
    \/ d' = Dropped(Opened(prepared.s, "pipe")) /\ stack' = AfterStage(stack, last, Handle(prepared.s))

LEMMA ExternalFacts ==
    ASSUME ExternalCommand
    PROVE  \E rs \in Redirections, last \in Lasts :
              /\ ExternalEvent(rs, last)
              /\ ExternalResult(rs, last, AllToChild(rs, ReadyFor(last)))
              /\ ExternalLeaves(last, AllToChild(rs, ReadyFor(last)))
<1>1. PICK rs \in Redirections, last \in Lasts :
         LET prepared == apply_redirections(rs, WithStdout(WithStdin(d), last), TRUE)
             spawned == Spawn(prepared.s, last)
             after == Dropped(prepared.s)
             feeds == ~last /\ spawned.ok /\ prepared.s.child.std[1].to = "piped"
         IN IF ~prepared.ok
            THEN /\ d' = after
                 /\ stack' = IF InPipeline THEN Front(stack) ELSE stack
                 /\ event' = Event("external", rs, FALSE, last, NotSeen)
            ELSE /\ d' = IF feeds THEN Dropped(Opened(prepared.s, "pipe")) ELSE after
                 /\ stack' = AfterStage(stack, last, IF feeds THEN Handle(prepared.s) ELSE NoRaw)
                 /\ event' = Event("external", rs, spawned.ok, last, IF spawned.ok THEN Seen(spawned.s) ELSE NotSeen)
    BY DEF ExternalCommand
<1> DEFINE prepared == AllToChild(rs, ReadyFor(last))
           spawned == Spawn(prepared.s, last)
           feeds == ~last /\ spawned.ok /\ prepared.s.child.std[1].to = "piped"
<1>2. CASE ~prepared.ok
    <2>1. /\ d' = Dropped(prepared.s) /\ stack' = IF InPipeline THEN Front(stack) ELSE stack
          /\ event' = Event("external", rs, FALSE, last, NotSeen)
        BY <1>1, <1>2, Zenon DEF AllToChild, ReadyFor
    <2> HIDE DEF prepared
    <2>2. ExternalEvent(rs, last) /\ event'.ok = FALSE
        BY <2>1 DEF ExternalEvent, Event
    <2>3. ExternalLeaves(last, prepared)
        BY <2>1 DEF ExternalLeaves
    <2>4. ExternalResult(rs, last, prepared)
        BY <1>2, <2>2 DEF ExternalResult
    <2> QED
        BY <2>2, <2>3, <2>4 DEF prepared
<1>3. CASE prepared.ok
    <2>1. /\ d' = IF feeds THEN Dropped(Opened(prepared.s, "pipe")) ELSE Dropped(prepared.s)
          /\ stack' = AfterStage(stack, last, IF feeds THEN Handle(prepared.s) ELSE NoRaw)
          /\ event' = Event("external", rs, spawned.ok, last, IF spawned.ok THEN Seen(spawned.s) ELSE NotSeen)
        BY <1>1, <1>3, Zenon DEF AllToChild, ReadyFor
    <2>0. spawned = Spawn(prepared.s, last)
        OBVIOUS
    <2>2. ExternalLeaves(last, prepared)
        <3> HIDE DEF prepared, spawned
        <3> QED
            BY <2>1 DEF ExternalLeaves
    <2> HIDE DEF prepared, spawned
    <2>3. ExternalEvent(rs, last)
        BY <2>1 DEF ExternalEvent, Event
    <2>4. event'.ok = spawned.ok
        BY <2>1 DEF Event
    <2>5. spawned.ok => event'.seen = Seen(spawned.s)
        BY <2>1 DEF Event
    <2>6. ExternalResult(rs, last, prepared)
        BY <1>3, <2>0, <2>4, <2>5, Zenon DEF ExternalResult
    <2> QED
        BY <2>2, <2>3, <2>6 DEF prepared
<1> QED
    BY <1>2, <1>3

\* Where the program does what is meant, its redirections reach the command.
AllReach(rs) == /\ Len(rs) \in Nat /\ DOMAIN rs = 1..Len(rs) /\ \A i \in 1..Len(rs) : ReachesChild(rs[i])

LEMMA ExternalReach ==
    ASSUME NEW rs \in Redirections, event'.kind = "external", ~Lost(rs)
    PROVE  AllReach(rs) /\ ~LostByExternal(rs) /\ ~LostByDuplicate(rs)
<1>1. ~LostByExternal(rs) /\ ~LostByDuplicate(rs)
    BY DEF Lost
<1>2. /\ Len(rs) \in Nat /\ DOMAIN rs = 1..Len(rs)
      /\ \A i \in 1..Len(rs) : rs[i].op \in Operators /\ IsRedirection(rs[i])
    BY RedirectionShape
<1>3. ASSUME NEW i \in 1..Len(rs) PROVE ReachesChild(rs[i])
    <2>1. /\ ~(rs[i].op \in {"dup", "<>"} /\ rs[i].fd \in 0..2) /\ ~(Writes(rs[i]) /\ rs[i].fd = 0)
          /\ ~(rs[i].op = "<" /\ rs[i].fd \in 1..2)
        BY <1>1, <1>2 DEF LostByExternal, Has
    <2>2. ~(rs[i].op = "dup" /\ rs[i].fd = rs[i].source)
        BY <1>1, <1>2 DEF LostByDuplicate, Has
    <2> QED
        BY <1>2, <2>1, <2>2 DEF ReachesChild, Standard
<1> QED
    BY <1>1, <1>2, <1>3 DEF AllReach

\* The entries of s are those of t, on the same, but for closed ones.
StaysIn(s, t) ==
    \A fd \in DOMAIN s.fds :
       /\ fd \in DOMAIN t.fds
       /\ \/ t.fds[fd].kind = "Closed"
          \/ t.fds[fd] = s.fds[fd] /\ s.fds[fd].raw \in DOMAIN t.open /\ t.open[s.fds[fd].raw] = s.open[s.fds[fd].raw]
OnlyFiles(s) == DOMAIN s.fds \subseteq Standard /\ \A fd \in DOMAIN s.fds : s.fds[fd].kind = "File"

LEMMA MadeStays ==
    ASSUME NEW s, OnlyFiles(s), NEW t, StaysIn(s, t), NEW r, NEW u, Made(t, u, r)
    PROVE  StaysIn(s, u)
<1> SUFFICES ASSUME NEW fd \in DOMAIN s.fds
             PROVE  /\ fd \in DOMAIN u.fds
                    /\ \/ u.fds[fd].kind = "Closed"
                       \/ u.fds[fd] = s.fds[fd] /\ s.fds[fd].raw \in DOMAIN u.open /\ u.open[s.fds[fd].raw] = s.open[s.fds[fd].raw]
    BY DEF StaysIn
<1>1. fd \in Standard /\ s.fds[fd].kind = "File"
    BY DEF OnlyFiles
<1>2. /\ fd \in DOMAIN t.fds
      /\ \/ t.fds[fd].kind = "Closed"
         \/ t.fds[fd] = s.fds[fd] /\ s.fds[fd].raw \in DOMAIN t.open /\ t.open[s.fds[fd].raw] = s.open[s.fds[fd].raw]
    BY DEF StaysIn
<1>3. Touched(t, u, r.fd) /\ (StreamMade(t, u, r) \/ FileMade(t, u, r) \/ CloseMade(t, u, r) \/ DuplicateMade(t, u, r))
    BY DEF Made
<1>4. fd # r.fd \/ u.fds = t.fds => u.fds[fd] = t.fds[fd] /\ fd \in DOMAIN u.fds
    BY <1>2, <1>3 DEF Touched
<1>5. (fd # r.fd \/ u.fds = t.fds) /\ t.fds[fd].kind = "File" =>
         t.fds[fd].raw \in DOMAIN u.open /\ u.open[t.fds[fd].raw] = t.open[t.fds[fd].raw]
    BY <1>2, <1>3 DEF Touched
<1>6. CASE fd # r.fd \/ u.fds = t.fds
    BY <1>1, <1>2, <1>4, <1>5, <1>6
<1>7. CASE ~(fd # r.fd \/ u.fds = t.fds)
    <2>1. CloseMade(t, u, r)
        BY <1>1, <1>3, <1>7 DEF StreamMade, FileMade, DuplicateMade, SameFds
    <2> QED
        BY <1>7, <2>1 DEF CloseMade, Descriptor
<1> QED
    BY <1>6, <1>7

LEMMA AllStay ==
    ASSUME NEW s, OnlyFiles(s), NEW a, NEW t, NEW own, NEW lent, HeldWith(a, t, own, lent), StaysIn(s, t),
           NEW rs, AllReach(rs), NEW u, u = AllToChild(rs, t).s
    PROVE  StaysIn(s, u)
<1> DEFINE N == Len(rs)
           last == AllToChild(rs, t)
           Good(v) == HeldWith(a, v, own, lent) /\ StaysIn(s, v)
<1>0. N = Len(rs) /\ N \in Nat /\ \A i \in 1..N : ReachesChild(rs[i])
    BY DEF AllReach
<1>1. PICK results : OfApplyToChild!Chain(rs, Ok(t), last, results)
    BY <1>0, AppliesToChild
<1> DEFINE S == {n \in 0..N : Good(results[n].s)}
<1>2. 0 \in S
    BY <1>0, <1>1 DEF OfApplyToChild!Chain, Ok
<1>3. ASSUME NEW n \in 1..N, n - 1 \in S
      PROVE  n \in S
    <2> DEFINE v == results[n - 1].s
               r == rs[n]
               result == results[n]
    <2>1. HeldWith(a, v, own, lent) /\ StaysIn(s, v) /\ ReachesChild(r)
        BY <1>0, <1>3
    <2>2. results[n - 1].ok => result = ApplyToChild(v, r)
        BY <1>1 DEF OfApplyToChild!Chain
    <2>3. ~results[n - 1].ok => result.s = v
        BY <1>1 DEF OfApplyToChild!Chain
    <2>4. r.op \in Operators
        BY <2>1 DEF ReachesChild
    <2>5. n \in S <=> Good(result.s)
        OBVIOUS
    <2> HIDE DEF v, r, result, S
    <2>6. CASE results[n - 1].ok
        <3> DEFINE w == result.s
        <3>1. w = ApplyToChild(v, r).s /\ w = result.s
            BY <2>2, <2>6
        <3> HIDE DEF w
        <3>2. HeldWith(a, w, own, lent)
            <4>1. HeldWith(a, v, own, lent) /\ r.op \in Operators /\ w = ApplyToChild(v, r).s
                BY <2>1, <2>4, <3>1
            <4> QED
                BY ONLY <4>1, ToChildKeeps
        <3>3. (result.ok => Made(v, w, r)) /\ (~result.ok => w = v)
            BY <2>1, <2>2, <2>6, <3>1, ChildMakes
        <3>4. StaysIn(s, w)
            BY <2>1, <3>3, MadeStays
        <3> QED
            BY <2>5, <3>1, <3>2, <3>4
    <2>7. CASE ~results[n - 1].ok
        BY <2>1, <2>3, <2>5, <2>7
    <2> QED
        BY <2>6, <2>7
<1> HIDE DEF Good
<1>4. N \in S
    <2>1. S = 0..N
        <3> HIDE DEF S
        <3>1. S \in SUBSET (0..N)
            BY DEF S
        <3> QED
            BY <1>0, <1>2, <1>3, <3>1, OfSave!UpTo
    <2> QED
        BY <1>0, <2>1
<1>5. results[N] = last
    BY <1>0, <1>1 DEF OfApplyToChild!Chain
<1>6. Good(last.s)
    BY <1>4, <1>5
<1> QED
    BY <1>6 DEF Good

\* What stays open when the Command is dropped is open on the same.
LEMMA DroppedOpen ==
    ASSUME NEW s, IsState(s), NEW u, u = Dropped(s)
    PROVE  u.fds = s.fds /\ \A n \in DOMAIN u.open : n \in DOMAIN s.open /\ u.open[n] = s.open[n]
<1> DEFINE S == Streams(s, 0..2) \cup s.child.kept
           y == Close(s, S)
<1>1. u = [y EXCEPT !.child = NoChild] /\ y = Close(s, S)
    BY DEF Dropped
<1> HIDE DEF S
<1>2. IsState(y) /\ y.open = Without(s.open, S) /\ y.fds = s.fds
    BY <1>1, CloseFields
<1> HIDE DEF y
<1>3. u.open = Without(s.open, S) /\ u.fds = s.fds
    BY <1>1, <1>2 DEF IsState
<1> QED
    BY <1>3 DEF Without, Restrict

LEMMA FedOpen ==
    ASSUME NEW s, IsState(s), Lowest(s.open) \notin DOMAIN s.open, NEW u, u = Dropped(Opened(s, "pipe"))
    PROVE  u.fds = s.fds /\ \A n \in DOMAIN u.open \cap DOMAIN s.open : u.open[n] = s.open[n]
<1> DEFINE v == Opened(s, "pipe")
           n == Lowest(s.open)
<1>1. IsState(v) /\ v.open = With(s.open, n, "pipe") /\ v.fds = s.fds
    BY OpenedFields
<1>2. u = Dropped(v)
    OBVIOUS
<1> HIDE DEF v
<1>3. u.fds = v.fds /\ \A m \in DOMAIN u.open : m \in DOMAIN v.open /\ u.open[m] = v.open[m]
    BY <1>1, <1>2, DroppedOpen
<1> QED
    BY <1>1, <1>3 DEF With

=============================================================================
