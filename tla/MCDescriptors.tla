--------------------------- MODULE MCDescriptors ---------------------------
(***************************************************************************)
(* What every command should find on its descriptors: what the constructs  *)
(* around it and its own redirections say, from left to right.  Where the  *)
(* program is known to do otherwise is named, and left out; a step that    *)
(* leaves the shell's own descriptors changed is the last one of a run.    *)
(***************************************************************************)
EXTENDS Descriptors

VARIABLE departed           \* the last step left something behind that it should not

vars == <<desc_vars, departed>>

-----------------------------------------------------------------------------
(* Values of the constants *)

R(op, fd, explicit, file) == [op |-> op, fd |-> fd, explicit |-> explicit, file |-> file, source |-> NoRaw]
In(file) == R("<", 0, FALSE, file)
Out(file) == R(">", 1, FALSE, file)
Clobber(file) == R(">|", 1, FALSE, file)
Append1(file) == R(">>", 1, FALSE, file)
FdIn(fd, file) == R("<", fd, TRUE, file)
FdOut(fd, file) == R(">", fd, TRUE, file)
FdInOut(fd, file) == R("<>", fd, TRUE, file)
Duplicate(fd, source) == [R("dup", fd, TRUE, "none") EXCEPT !.source = source]
CloseFd(fd) == R("close", fd, TRUE, "none")
Here == R("<<", 0, FALSE, "none")

MCRedirections ==
    {<<>>} \cup
    {<<r>> : r \in {In("a"), In("b"), Out("a"), Out("b"), Clobber("a"), Append1("b"), FdOut(1, "b"), FdOut(2, "a"),
                    Out("bad"), FdIn(3, "a"), FdOut(3, "b"), FdOut(5, "b"), FdInOut(5, "a"),
                    Duplicate(2, 1), Duplicate(1, 2), Duplicate(3, 1), CloseFd(1), CloseFd(2), Here,
                    R(">|", 1, TRUE, "b"), Duplicate(3, 3), Duplicate(1, 0)}}
    \cup {<<In("a"), Out("b")>>, <<Out("b"), FdOut(2, "a")>>, <<In("a"), Out("bad")>>,
          <<Clobber("b"), Duplicate(2, 1)>>, <<Duplicate(2, 1), Clobber("b")>>, <<FdIn(3, "a"), FdOut(4, "b")>>,
          <<FdOut(3, "b"), Duplicate(1, 3)>>, <<CloseFd(1), Duplicate(2, 1)>>,
          <<FdIn(1, "a"), Out("b")>>, <<Here, Duplicate(1, 0)>>, <<FdOut(1, "b"), Duplicate(3, 1)>>,
          <<FdOut(3, "b"), Duplicate(1, 3), CloseFd(3)>>}

-----------------------------------------------------------------------------
(* The meaning of redirections: an environment is what each descriptor is  *)
(* open on                                                                 *)

Redirected(env, r) ==
    [env EXCEPT ![r.fd] = CASE r.op = "dup" -> env[r.source]
                            [] r.op = "close" -> "closed"
                            [] r.op = "<<" -> "here"
                            [] r.op \in {"<", ">", ">|", ">>", "<>"} -> r.file]
AllRedirected(env, redirections) == FoldLeft(Redirected, env, redirections)
Piped(env, first, last) ==
    [env EXCEPT ![0] = IF first THEN @ ELSE "pipe", ![1] = IF last THEN @ ELSE "pipe"]

Outside == [fd \in 0..9 |-> CASE fd = 0 -> "in" [] fd = 1 -> "out" [] fd = 2 -> "err" [] fd > 2 -> "closed"]

\* Within a construct; "capture" is the output that is collected.
Within(env, f) ==
    CASE f.kind = "stage" -> AllRedirected(Piped(env, f.first, f.last), f.redirections)
      [] f.kind = "captured" -> [AllRedirected(env, f.redirections) EXCEPT ![1] = "capture"]
      [] f.kind \in {"group", "subshell", "pipeline"} -> AllRedirected(env, f.redirections)
ForCommand ==
    IF InPipeline THEN Piped(FoldLeft(Within, Outside, stack), Top.first, event'.last)
    ELSE FoldLeft(Within, Outside, stack)

\* A redirection fails when its file cannot be opened, when -C protects the
\* file, and when it duplicates a closed descriptor.
FailsAt(env, redirections, i) ==
    LET r == redirections[i]
        before == SubSeq(redirections, 1, i - 1)
        there == event'.existed \cup {before[j].file : j \in {k \in DOMAIN before : before[k].op # "<"}}
    IN CASE r.op = "dup" -> AllRedirected(env, before)[r.source] = "closed"
         [] r.op \in {"<", ">", ">|", ">>", "<>"} ->
              r.file \in Unopenable \/ (r.op = "<" /\ r.file \notin there)
                                    \/ (r.op = ">" /\ noclobber /\ r.file \in there)
         [] r.op \in {"close", "<<"} -> FALSE
Fails(env, redirections) == \E i \in DOMAIN redirections : FailsAt(env, redirections, i)

-----------------------------------------------------------------------------
(* Where the program is known to do otherwise                              *)

Has(redirections, P(_)) == \E i \in DOMAIN redirections : P(redirections[i])
Writes(r) == r.op \in {">", ">|", ">>"}
Plain(r) == (r.op = "<" /\ r.fd = 0) \/ (Writes(r) /\ r.fd \in 1..2)

\* A redirection before the i-th, one of ops, is of descriptor fd.
AllOps == {"<", ">", ">|", ">>", "<>", "<<", "dup", "close"}
Sets(redirections, i, fd, ops) == \E k \in 1..(i - 1) : redirections[k].fd = fd /\ redirections[k].op \in ops

\* Output that is collected, and a stage's input, come before the redirections
\* of the constructs within.
Overridden(frames, fd) ==
    \E i \in DOMAIN frames : IF fd = 0 THEN frames[i].kind = "stage" /\ frames[i].pipe # NoRaw
                                       ELSE fd = 1 /\ frames[i].capture

\* A duplicate onto itself succeeds though the descriptor is closed, and what a
\* pipe puts on a stage's input is not in the table that is duplicated from.
LostByDuplicate(redirections) ==
    \/ Has(redirections, LAMBDA r : r.op = "dup" /\ r.fd = r.source)
    \/ /\ Has(redirections, LAMBDA r : r.op = "dup" /\ r.source = 0)
       /\ (InPipeline /\ ~Top.first) \/ Overridden(stack, 0)

\* A child takes its streams from the Command and not from the table, where a
\* duplicate is looked up; the others are handed over by number, outside of
\* pipelines, after its streams.
LostByExternal(redirections) ==
    \/ Has(redirections, LAMBDA r : (r.op \in {"dup", "<>"} /\ r.fd \in 0..2) \/ (Writes(r) /\ r.fd = 0)
                                                                          \/ (r.op = "<" /\ r.fd \in 1..2))
    \/ InPipeline /\ Has(redirections, LAMBDA r : r.fd > 2)
    \/ Capturing /\ Has(redirections, LAMBDA r : r.op = "dup")
    \/ \E i \in 1..(Len(redirections) - 1) : redirections[i].op = "dup"
    \/ \E fd \in DOMAIN d'.fds \ 0..2 : d'.fds[fd].raw \in DOMAIN d'.fds
    \/ \E j \in DOMAIN redirections :
          /\ redirections[j].op = "dup"
          /\ Sets(redirections, j, redirections[j].source, AllOps \ {"close"})
          /\ redirections[j].source \in DOMAIN d.fds \/ Sets(redirections, j, redirections[j].source, {"close"})

\* A builtin whose output is collected does not look at its redirections, and
\* none looks at -C, nor at a here-document. A duplicate is only a number, which
\* names nothing, or something else, once what it was made from is replaced.
LostByBuiltin(redirections) ==
    \/ (~event'.last \/ Capturing) /\ redirections # <<>>
    \/ noclobber /\ Has(redirections, LAMBDA r : r.op = ">")
    \/ Has(redirections, LAMBDA r : r.op = "<<") /\ Has(redirections, LAMBDA r : r.op = "dup" /\ r.source = 0)
    \/ \E i, j \in DOMAIN redirections :
          /\ i < j /\ redirections[i].op = "dup" /\ redirections[j].fd = redirections[i].source
          /\ redirections[j].fd \in DOMAIN d.fds \/ Sets(redirections, i, redirections[j].fd, AllOps)

\* A stage before the last takes no notice of an explicit 1>| and is collected.
LostByConstruct(redirections) ==
    \/ Has(redirections, LAMBDA r : ~Plain(r) \/ Overridden(stack, r.fd))
    \/ InPipeline /\ ~Top.first /\ Has(redirections, LAMBDA r : r.fd = 0)
    \/ event'.kind = "stage" /\ ~event'.last /\ Has(redirections, LAMBDA r : r.op = ">|" /\ r.explicit /\ r.fd = 1)
    \/ noclobber /\ Has(redirections, LAMBDA r : r.op = ">")

Lost(redirections) ==
    CASE event'.kind = "external" -> LostByExternal(redirections) \/ LostByDuplicate(redirections)
      [] event'.kind = "builtin" -> LostByBuiltin(redirections) \/ LostByDuplicate(redirections)
      [] event'.kind \in {"group", "stage"} -> LostByConstruct(redirections)
      [] event'.kind = "subshell" -> redirections # <<>>
      [] event'.kind = "captured" -> redirections \notin {<<r>> : r \in {Out("b"), Append1("b")}}
      [] event'.kind \in {"nothing", "pipeline", "end"} -> FALSE

\* There is one saved copy of a descriptor, which belongs to the innermost
\* group or stage of the table.
CopiesInUse ==
    \E i \in DOMAIN stack : /\ stack[i].kind \in {"group", "stage"}
                            /\ \A j \in DOMAIN stack : j > i => stack[j].kind # "subshell"
Saves == event'.kind \in {"group", "stage"} \/ (event'.kind = "builtin" /\ event'.last /\ ~Capturing)
StaysChanged(redirections) ==
    \/ event'.kind = "nothing" /\ redirections # <<>>
    \/ event'.kind = "external" /\ d'.fds # d.fds
    \/ event'.kind = "builtin" /\ DOMAIN d'.fds \ 0..2 # DOMAIN d.fds \ 0..2
    \/ Saves /\ CopiesInUse

-----------------------------------------------------------------------------
Stays == StaysChanged(event'.redirections)
MCInit == Init /\ departed = FALSE
MCNext == ~departed /\ Next /\ departed' = (Lost(event'.redirections) \/ Stays)
MCSpec == MCInit /\ [][MCNext]_vars

\* No step reads event, nor does an invariant.
MCView == <<d, stack, noclobber, departed>>

-----------------------------------------------------------------------------
(* Properties                                                              *)

Agrees(seen, meant) ==
    seen = meant \/ <<seen, meant>> \in {<<"null", "pipe">>, <<"capture", "pipe">>, <<"null", "closed">>}
Watched(env) == IF event'.kind = "builtin" THEN {1} ELSE {fd \in 0..9 : fd \in 0..2 \/ env[fd] # "closed"}
SeesWhatIsMeant(redirections) ==
    /\ event'.ok = ~Fails(ForCommand, redirections)
    /\ event'.ok => \A fd \in Watched(AllRedirected(ForCommand, redirections)) :
                       Agrees(event'.seen[fd], AllRedirected(ForCommand, redirections)[fd])

\* A command finds on its descriptors what the constructs around it and its
\* own redirections say, from left to right, and it does not run when one of
\* them fails (apply_redirections, src/src/executor/redirection.rs:215).
CommandsSeeWhatIsMeant ==
    [][event'.kind \in {"external", "builtin"} /\ ~Lost(event'.redirections)
       => SeesWhatIsMeant(event'.redirections)]_vars

\* When everything has ended, the shell has exactly the descriptors it
\* started with: no redirection stays, and no copy or pipe leaks
\* (restore_all_fds, src/src/state/fd_table.rs:322).
NothingLeft ==
    stack = <<>> /\ ~departed =>
       /\ d.open = OpenAtStart
       /\ d.cloexec = Internal
       /\ d.fds = <<>> /\ d.saved_fds = <<>> /\ d.child = NoChild

\* The shell's own streams: output that is collected never gets there.
OfShell(env, f) ==
    AllRedirected(IF f.kind = "stage" THEN Piped(env, f.first, TRUE) ELSE env,
                  IF f.kind \in {"group", "stage"} THEN f.redirections ELSE <<>>)
StreamsWithin(n) == FoldLeft(OfShell, Outside, SubSeq(stack, 1, n))

\* The saved copies of the table that construct n was entered with.
CopiesOf(n) ==
    LET inner == {j \in DOMAIN stack : j > n /\ stack[j].kind = "subshell"}
    IN IF inner = {} THEN d.saved_fds ELSE stack[CHOOSE j \in inner : \A k \in inner : j <= k].saved_fds

\* While constructs are being executed the shell's streams are those of the
\* innermost one, and the copies of every group and stage, also of those
\* around a subshell, are still what was there before it
\* (deep_clone and clear, src/src/state/fd_table.rs:282 and 419).
SavedIntact ==
    ~departed =>
       /\ \A fd \in 0..2 : Agrees(d.open[fd], StreamsWithin(Len(stack))[fd])
       /\ \A n \in DOMAIN stack : stack[n].kind \in {"group", "stage"} =>
             \A fd \in 0..2 : /\ CopiesOf(n)[fd] \in DOMAIN d.open
                              /\ Agrees(d.open[CopiesOf(n)[fd]], StreamsWithin(n - 1)[fd])
=============================================================================
