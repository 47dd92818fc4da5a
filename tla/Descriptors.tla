---------------------------- MODULE Descriptors ----------------------------
(***************************************************************************)
(* File descriptors: the kernel's, the shell's table of them with its      *)
(* saved copies (src/src/state/fd_table.rs), and what redirections do to   *)
(* both for external commands, builtins, groups, subshells and the stages  *)
(* of a pipeline (src/src/executor/redirection.rs, subshell.rs,            *)
(* command.rs and execute_builtin in src/src/builtins.rs).                 *)
(*                                                                         *)
(* The kernel hands out the lowest free number.  A descriptor's content is *)
(* the name of what it is open on; reading and writing are left out.  A    *)
(* redirection is a record of its operator, its descriptor and what stands *)
(* behind the operator: a file, or the descriptor of dup.                  *)
(***************************************************************************)
EXTENDS Integers, Sequences, FiniteSets, SequencesExt

CONSTANTS
    Redirections,           \* the sequences of redirections of a command
    Internal,               \* the numbers that the signal thread's sockets have
    Existing,               \* the files there are at first
    Unopenable,             \* files that cannot be opened or created
    MaxDepth                \* bound on constructs within constructs

Operators == {"<", ">", ">|", ">>", "<>", "<<", "dup", "close"}

\* A descriptor is one digit (lexer/mod.rs), here also the one that is duplicated,
\* and what stands behind an operator that opens a file is a name.
FileOperators == {"<", ">", ">|", ">>", "<>"}
IsRedirection(r) ==
    /\ r.fd \in 0..9
    /\ r.op = "<<" => r.fd = 0
    /\ r.op = "dup" => r.source \in 0..9
    /\ IF r.op \in FileOperators THEN r.file \notin {"none", "closed"} ELSE r.file = "none"

ASSUME RedirectionsAssumption ==
    \A redirections \in Redirections :
       /\ redirections \in Seq(Range(redirections))
       /\ \A i \in 1..Len(redirections) : redirections[i].op \in Operators
       /\ \A i \in 1..Len(redirections) : IsRedirection(redirections[i])
ASSUME InternalAssumption == IsFiniteSet(Internal) /\ Internal \subseteq Nat \ (0..2)

VARIABLES
    d,                      \* the kernel's descriptors and the current table
    stack,                  \* the groups, subshells and pipelines being executed
    noclobber,              \* the option -C
    event                   \* what the last step ran, and what it saw

desc_vars == <<d, stack, noclobber, event>>

-----------------------------------------------------------------------------
(* The kernel: d.open is the content of every open number, and those in    *)
(* d.cloexec are closed when a child executes its program.                 *)

Lowest(open) ==
    CHOOSE n \in 0..Cardinality(DOMAIN open) :
       n \notin DOMAIN open /\ \A m \in 0..(n - 1) : m \in DOMAIN open

With(f, x, y) == [z \in DOMAIN f \cup {x} |-> IF z = x THEN y ELSE f[z]]
Without(f, S) == Restrict(f, DOMAIN f \ S)

Opened(s, content) ==
    [s EXCEPT !.open = With(@, Lowest(s.open), content), !.cloexec = @ \cup {Lowest(s.open)}]
Dup(s, n) == [s EXCEPT !.open = With(@, Lowest(s.open), @[n])]
Close(s, S) == [s EXCEPT !.open = Without(@, S), !.cloexec = @ \ S]
Dup2(s, from, to) ==
    IF from = to THEN s ELSE [s EXCEPT !.open = With(@, to, @[from]), !.cloexec = @ \ {to}]

\* The result of what may fail, and one step after another until one does.
Ok(s) == [ok |-> TRUE, s |-> s]
Failed(s) == [ok |-> FALSE, s |-> s]
InOrder(items, s, Step(_, _)) ==
    LET after[n \in 0..Len(items)] ==
          IF n = 0 THEN Ok(s)
          ELSE LET before == after[n - 1]
               IN IF before.ok THEN Step(before.s, items[n]) ELSE before
    IN after[Len(items)]

Exists(s, file) == file \in s.exists
CanOpen(s, file, creating) == file \notin Unopenable /\ (creating \/ Exists(s, file))
Created(s, file) == [s EXCEPT !.exists = @ \cup {file}]

-----------------------------------------------------------------------------
(* The table: d.fds and d.saved_fds *)

Descriptor(kind, raw) == [kind |-> kind, raw |-> raw]

\* A File is closed when it is replaced or removed.
Owned(s, S) == {s.fds[fd].raw : fd \in {x \in S \cap DOMAIN s.fds : s.fds[x].kind = "File"}}
Insert(s, fd, descriptor) == Close([s EXCEPT !.fds = With(@, fd, descriptor)], Owned(s, {fd}))
Forget(s, fd) == Close([s EXCEPT !.fds = Without(@, {fd})], Owned(s, {fd}))

open_fd(s, fd, file, creating) ==
    IF CanOpen(s, file, creating)
    THEN Ok(Insert(Opened(Created(s, file), file), fd, Descriptor("File", Lowest(s.open))))
    ELSE Failed(s)

NoRaw == -1
get_raw_fd(s, fd) ==
    IF fd \in DOMAIN s.fds THEN IF s.fds[fd].kind = "Closed" THEN NoRaw ELSE s.fds[fd].raw
    ELSE IF fd \in 0..2 THEN fd ELSE NoRaw

is_closed(s, fd) == fd \in DOMAIN s.fds /\ s.fds[fd].kind = "Closed"

duplicate_fd(s, source, target) ==
    IF source = target THEN Ok(s)
    ELSE IF get_raw_fd(s, source) = NoRaw THEN Failed(s)
    ELSE Ok(Insert(s, target, Descriptor("Duplicate", get_raw_fd(s, source))))

\* The table is told; the kernel's descriptor stays open.
close_fd(s, fd) == Ok(Insert(s, fd, Descriptor("Closed", NoRaw)))

\* A copy of the kernel's descriptor, whatever the table says of it.
save_fd(s, fd) ==
    IF fd \in DOMAIN s.open
    THEN Ok([Dup(s, fd) EXCEPT !.saved_fds = With(@, fd, Lowest(s.open))])
    ELSE Failed(s)

\* Slip: the copy is not closed after it was put back.
restore_fdKeepsCopy(s, fd) ==
    LET n == s.saved_fds[fd]
        t == [s EXCEPT !.saved_fds = Without(@, {fd})]
    IN IF n \in DOMAIN s.open THEN Ok(Forget(Dup2(t, n, fd), fd)) ELSE Failed(t)
\* The copy comes back, and the table forgets the descriptor.
restore_fd(s, fd) ==
    LET n == s.saved_fds[fd]
        t == [s EXCEPT !.saved_fds = Without(@, {fd})]
    IN IF n \in DOMAIN s.open THEN Ok(Forget(Close(Dup2(t, n, fd), {n}), fd)) ELSE Failed(t)

\* The order is that of a HashMap: any.
Orders(f) == SetToSeqs(DOMAIN f)

\* Those of the table, and the standard ones that it does not have.
SaveStandard(s, fd) == IF fd \in DOMAIN s.fds THEN Ok(s) ELSE Ok(save_fd(s, fd).s)
save_all_fds(s, order) ==
    LET tracked == InOrder(order, s, save_fd)
    IN IF tracked.ok THEN InOrder(<<0, 1, 2>>, tracked.s, SaveStandard) ELSE tracked

restore_all_fds(s, order) == InOrder(order, s, restore_fd)

\* Every File is duplicated; the numbers of the saved copies are copied.
CloneOf(s, fd) ==
    IF s.fds[fd].kind # "File" THEN Ok(s)
    ELSE IF s.fds[fd].raw \in DOMAIN s.open
         THEN Ok([Opened(s, s.open[s.fds[fd].raw]) EXCEPT
                     !.fds = With(@, fd, Descriptor("File", Lowest(s.open)))])
    ELSE Failed(s)
deep_clone(s, order) == InOrder(order, s, CloneOf)

\* Slip: the copies, which are the parent's, are closed too.
clearSaved(s) ==
    Close([s EXCEPT !.fds = <<>>, !.saved_fds = <<>>],
          Owned(s, DOMAIN s.fds) \cup {s.saved_fds[fd] : fd \in DOMAIN s.saved_fds})
clear(s) == Close([s EXCEPT !.fds = <<>>, !.saved_fds = <<>>], Owned(s, DOMAIN s.fds))

-----------------------------------------------------------------------------
(* A Command that is being prepared: d.child has its streams, the dup2     *)
(* calls its child will make, and the numbers that it keeps open until then *)

Stdio(to, raw) == [to |-> to, raw |-> raw]
Streams(s, S) == {s.child.std[fd].raw : fd \in {x \in S \cap DOMAIN s.child.std : s.child.std[x].to = "file"}}
WithStream(s, fd, stdio) == Close([s EXCEPT !.child.std = With(@, fd, stdio)], Streams(s, {fd}))
NoChild == [std |-> <<>>, pre_exec |-> <<>>, kept |-> {}]
Dropped(s) == [Close(s, Streams(s, 0..2) \cup s.child.kept) EXCEPT !.child = NoChild]

-----------------------------------------------------------------------------
(* Redirections of a command, or of the shell itself: external is FALSE    *)

\* The file that a redirection opens first, to see that it can be opened.
Handle(s) == Lowest(s.open)

\* The table's File for a descriptor, and with dup2 the kernel's as well.
OnFile(s, r, creating) == open_fd(Opened(s, r.file), r.fd, r.file, creating).s

\* Slip: only the table is told, and not the kernel.
OnFileWithoutDup2(s, r, creating) == OnFile(s, r, creating)
OnFileAndKernel(s, r, creating) ==
    LET t == OnFile(s, r, creating) IN Dup2(t, get_raw_fd(t, r.fd), r.fd)

apply_input_redirection(s, r, external) ==
    LET second == Lowest(Opened(s, r.file).open)
        twice == open_fd(Opened(Opened(s, r.file), r.file), r.fd, r.file, FALSE).s
    IN IF ~CanOpen(s, r.file, FALSE) THEN Failed(s)
       ELSE Ok(CASE r.fd = 0 /\ external -> WithStream(Opened(s, r.file), 0, Stdio("file", Handle(s)))
                 [] r.fd = 0 /\ ~external -> Close(OnFileAndKernel(s, r, FALSE), {Handle(s)})
                 [] r.fd # 0 /\ external ->
                      Close([twice EXCEPT !.child.pre_exec = Append(@, <<second, r.fd>>),
                                          !.child.kept = @ \cup {second}], {Handle(s)})
                 [] r.fd # 0 /\ ~external -> Close(twice, {Handle(s), second}))

\* -C refuses a file that exists; the shell looks once more after it has
\* created the file, and finds it.
Refused(s, r) == noclobber /\ r.op = ">" /\ Exists(s, r.file)
apply_output_redirection(s, r, external) ==
    LET t == Created(s, r.file)
    IN IF Refused(s, r) \/ ~CanOpen(s, r.file, TRUE) THEN Failed(s)
       ELSE IF external /\ r.fd \in 1..2
            THEN Ok(WithStream(Opened(t, r.file), r.fd, Stdio("file", Handle(s))))
       ELSE IF external THEN Ok(Close(OnFile(t, r, TRUE), {Handle(s)}))
       ELSE IF Refused(t, r) THEN Failed(t)
       ELSE Ok(Close(OnFileAndKernel(t, r, TRUE), {Handle(s)}))

apply_fd_duplication(s, r) ==
    IF is_closed(s, r.source) THEN Failed(s) ELSE duplicate_fd(s, r.source, r.fd)

apply_fd_close(s, r, external) ==
    LET t == close_fd(s, r.fd).s
    IN Ok(IF external /\ r.fd \in 0..2 THEN WithStream(t, r.fd, Stdio("null", NoRaw)) ELSE t)

\* The text of a here-document or here-string is in a pipe.
apply_heredoc_redirection(s, external) ==
    Ok(IF external THEN WithStream(Opened(s, "here"), 0, Stdio("file", Handle(s))) ELSE s)

Apply(s, r, external) ==
    CASE r.op = "<" -> apply_input_redirection(s, r, external)
      [] r.op \in {">", ">|", ">>"} -> apply_output_redirection(s, r, external)
      [] r.op = "dup" -> apply_fd_duplication(s, r)
      [] r.op = "close" -> apply_fd_close(s, r, external)
      [] r.op = "<>" -> open_fd(s, r.fd, r.file, TRUE)
      [] r.op = "<<" -> apply_heredoc_redirection(s, external)

apply_redirections(redirections, s, external) ==
    InOrder(redirections, s, LAMBDA t, r : Apply(t, r, external))

\* execute_builtin has its own, which only changes the table.
ApplyForBuiltin(s, r) ==
    CASE r.op \in {"<", ">", ">|", ">>", "<>"} -> open_fd(s, r.fd, r.file, r.op # "<")
      [] r.op = "dup" -> duplicate_fd(s, r.source, r.fd)
      [] r.op = "close" -> close_fd(s, r.fd)
      [] r.op = "<<" -> Ok(s)

-----------------------------------------------------------------------------
(* What is being executed *)

Frame(kind, redirections) ==
    [kind |-> kind, redirections |-> redirections,
     fds |-> <<>>, saved_fds |-> <<>>,      \* the table of a subshell's parent
     pipe |-> NoRaw,                        \* the stage's input, or the one of the next stage
     capture |-> FALSE, first |-> TRUE, last |-> FALSE]

Top == IF stack = <<>> THEN Frame("shell", <<>>) ELSE Last(stack)
InPipeline == Top.kind = "pipeline"
Lasts == IF ~InPipeline THEN {TRUE} ELSE IF Top.first THEN {FALSE} ELSE BOOLEAN

Capturing == \E i \in 1..Len(stack) : stack[i].capture
stdin_override == FoldLeft(LAMBDA n, f : IF f.kind = "stage" /\ f.pipe # NoRaw THEN f.pipe ELSE n, NoRaw, stack)

Event(kind, redirections, ok, last, seen) ==
    [kind |-> kind, redirections |-> redirections, ok |-> ok, last |-> last, seen |-> seen, existed |-> d.exists]
NotSeen == <<>>

\* A stage of a pipeline is over; what it leaves for the next one is pipe.
AfterStage(frames, last, pipe) ==
    IF frames = <<>> \/ Last(frames).kind # "pipeline" THEN frames
    ELSE IF last THEN Front(frames)
    ELSE Append(Front(frames), [Last(frames) EXCEPT !.pipe = pipe, !.first = FALSE])

\* The previous stage's output is closed when it was not taken.
WithoutPrevious(s) == IF InPipeline THEN Close(s, {Top.pipe} \ {NoRaw}) ELSE s

-----------------------------------------------------------------------------
(* External commands *)

WithStdin(s) ==
    IF InPipeline /\ Top.pipe # NoRaw THEN WithStream(s, 0, Stdio("file", Top.pipe))
    ELSE IF InPipeline /\ ~Top.first THEN WithStream(s, 0, Stdio("null", NoRaw))
    ELSE IF stdin_override # NoRaw /\ stdin_override \in DOMAIN s.open
         THEN WithStream(Dup(s, stdin_override), 0, Stdio("file", Handle(s)))
    ELSE s
WithStdout(s, last) == IF ~last \/ Capturing THEN WithStream(s, 1, Stdio("piped", NoRaw)) ELSE s

\* The open descriptors 3 to 9 of the table, which a pipeline does not hand over.
CustomFds == IF InPipeline THEN <<>> ELSE <<3, 4, 5, 6, 7, 8, 9>>
MakeDup2(s, pair) == IF pair[1] \in DOMAIN s.open THEN Ok(Dup2(s, pair[1], pair[2])) ELSE Failed(s)
HandOver(s, fd) ==
    IF fd \in DOMAIN s.fds /\ s.fds[fd].kind # "Closed" THEN MakeDup2(s, <<s.fds[fd].raw, fd>>) ELSE Ok(s)

\* The child's descriptors when its program starts.
StreamContent(s, fd, last) ==
    CASE s.child.std[fd].to = "file" -> s.open[s.child.std[fd].raw]
      [] s.child.std[fd].to = "null" -> "null"
      [] s.child.std[fd].to = "piped" -> IF last THEN "capture" ELSE "pipe"
Spawn(s, last) ==
    LET std == [fd \in DOMAIN s.child.std |-> StreamContent(s, fd, last)]
        child == [s EXCEPT !.open = [n \in DOMAIN @ \cup DOMAIN std |-> IF n \in DOMAIN std THEN std[n] ELSE @[n]],
                           !.cloexec = @ \ DOMAIN std]
        called == InOrder(s.child.pre_exec, child, MakeDup2)
    IN IF called.ok THEN InOrder(CustomFds, called.s, HandOver) ELSE called
Seen(s) == [fd \in 0..9 |-> IF fd \in DOMAIN s.open \ s.cloexec THEN s.open[fd] ELSE "closed"]

\* Its output goes on to the next stage if it was not redirected.
ExternalCommand ==
    /\ UNCHANGED noclobber
    /\ \E redirections \in Redirections, last \in Lasts :
          LET prepared == apply_redirections(redirections, WithStdout(WithStdin(d), last), TRUE)
              spawned == Spawn(prepared.s, last)
              after == Dropped(prepared.s)
              feeds == ~last /\ spawned.ok /\ prepared.s.child.std[1].to = "piped"
          IN IF ~prepared.ok
             THEN /\ d' = after
                  /\ stack' = IF InPipeline THEN Front(stack) ELSE stack
                  /\ event' = Event("external", redirections, FALSE, last, NotSeen)
             ELSE /\ d' = IF feeds THEN Dropped(Opened(prepared.s, "pipe")) ELSE after
                  /\ stack' = AfterStage(stack, last, IF feeds THEN Handle(prepared.s) ELSE NoRaw)
                  /\ event' = Event("external", redirections, spawned.ok, last,
                                    IF spawned.ok THEN Seen(spawned.s) ELSE NotSeen)

-----------------------------------------------------------------------------
(* Builtins *)

\* A builtin is watched where it writes.
Writing(content) == [fd \in {1} |-> content]

\* With a writer of its own: redirections are not looked at.
BuiltinCaptured ==
    /\ UNCHANGED noclobber
    /\ \E redirections \in Redirections, last \in Lasts :
          LET s == WithoutPrevious(IF last THEN d ELSE Opened(d, "pipe"))
          IN /\ ~last \/ Capturing
             /\ d' = s
             /\ stack' = AfterStage(stack, last, IF last THEN NoRaw ELSE Lowest(d.open))
             /\ event' = Event("builtin", redirections, TRUE, last, Writing(IF last THEN "capture" ELSE "pipe"))

\* What the builtin writes to: a copy of descriptor 1 of the table.
Writer(s) ==
    IF get_raw_fd(s, 1) \in DOMAIN s.open THEN s.open[get_raw_fd(s, 1)] ELSE "closed"

Builtin ==
    /\ UNCHANGED noclobber
    /\ \E redirections \in Redirections, last \in Lasts, order \in Orders(d.fds) :
          LET saved == save_all_fds(d, order)
              applied == InOrder(redirections, saved.s, ApplyForBuiltin)
          IN /\ last /\ ~Capturing
             /\ IF ~saved.ok THEN d' = WithoutPrevious(saved.s)
                ELSE \E back \in Orders(applied.s.saved_fds) :
                        d' = WithoutPrevious(restore_all_fds(applied.s, back).s)
             /\ stack' = AfterStage(stack, last, NoRaw)
             /\ event' = Event("builtin", redirections, saved.ok /\ applied.ok, last,
                               IF saved.ok /\ applied.ok THEN Writing(Writer(applied.s)) ELSE NotSeen)

\* Redirections without a command are those of the shell, for good.
NoCommand ==
    /\ UNCHANGED <<stack, noclobber>>
    /\ \E redirections \in Redirections :
          LET applied == apply_redirections(redirections, d, FALSE)
          IN /\ ~InPipeline
             /\ d' = applied.s
             /\ event' = Event("nothing", redirections, applied.ok, TRUE, NotSeen)

-----------------------------------------------------------------------------
(* Groups and subshells *)

\* What a group or a stage does before its body: hook is the number of the
\* stage's input.  When it cannot be entered, what was saved is restored.
Prepared(s, redirections, hook) ==
    UNION {LET saved == save_all_fds(s, order)
               hooked == IF hook # NoRaw THEN Dup2(saved.s, hook, 0) ELSE saved.s
               applied == apply_redirections(redirections, hooked, FALSE)
           IN IF ~saved.ok \/ applied.ok THEN {IF saved.ok THEN applied ELSE saved}
              ELSE {Failed(restore_all_fds(applied.s, back).s) : back \in Orders(applied.s.saved_fds)} :
           order \in Orders(s.fds)}

EnterGroup ==
    /\ Len(stack) < MaxDepth /\ ~InPipeline
    /\ \E redirections \in Redirections \ {<<>>} : \E prepared \in Prepared(d, redirections, NoRaw) :
          /\ d' = prepared.s
          /\ stack' = IF prepared.ok THEN Append(stack, Frame("group", redirections)) ELSE stack
          /\ event' = Event("group", redirections, prepared.ok, TRUE, NotSeen)
    /\ UNCHANGED noclobber

\* The end of a construct.
Left(ok) == event' = Event("end", Top.redirections, ok, Top.last, NotSeen) /\ UNCHANGED noclobber

LeaveGroup ==
    /\ Top.kind = "group"
    /\ \E back \in Orders(d.saved_fds) : d' = restore_all_fds(d, back).s
    /\ stack' = Front(stack)
    /\ Left(TRUE)

\* A subshell with one of these has its output captured; it shares the table,
\* and its other redirections are not looked at.  Without one, none is.
HasOutputRedirection(redirections) == \E i \in 1..Len(redirections) : redirections[i].op \in {">", ">>"}

EnterSubshell ==
    /\ Len(stack) < MaxDepth /\ ~InPipeline
    /\ \E redirections \in Redirections, order \in Orders(d.fds) :
          LET clone == deep_clone(d, order)
              frame == [Frame("subshell", redirections) EXCEPT !.fds = d.fds, !.saved_fds = d.saved_fds]
          IN /\ ~HasOutputRedirection(redirections)
             /\ d' = IF clone.ok THEN clone.s ELSE d
             /\ stack' = IF clone.ok THEN Append(stack, frame) ELSE stack
             /\ event' = Event("subshell", redirections, clone.ok, TRUE, NotSeen)
    /\ UNCHANGED noclobber

LeaveSubshell ==
    /\ Top.kind = "subshell"
    /\ d' = [clear(d) EXCEPT !.fds = Top.fds, !.saved_fds = Top.saved_fds]
    /\ stack' = Front(stack)
    /\ Left(TRUE)

EnterCaptured ==
    /\ Len(stack) < MaxDepth /\ ~InPipeline
    /\ \E redirections \in Redirections :
          /\ HasOutputRedirection(redirections)
          /\ stack' = Append(stack, [Frame("captured", redirections) EXCEPT !.capture = TRUE])
          /\ event' = Event("captured", redirections, TRUE, TRUE, NotSeen)
    /\ UNCHANGED <<d, noclobber>>

\* The output is written to each file of a redirection without descriptor.
WriteOutput(s, r) ==
    IF r.explicit \/ r.op \notin {">", ">|", ">>"} THEN Ok(s)
    ELSE IF Refused(s, r) \/ ~CanOpen(s, r.file, TRUE) THEN Failed(s)
    ELSE Ok(Created(s, r.file))

LeaveCaptured ==
    /\ Top.kind = "captured"
    /\ LET written == InOrder(Top.redirections, d, WriteOutput)
       IN d' = written.s /\ Left(written.ok)
    /\ stack' = Front(stack)

-----------------------------------------------------------------------------
(* Groups and subshells as stages of a pipeline: they share the table      *)

has_stdout_redirection(redirections) ==
    \E i \in 1..Len(redirections) :
       LET r == redirections[i]
       IN r.fd = 1 /\ (r.op \in {">", ">>", "dup", "close"} \/ (r.op = ">|" /\ ~r.explicit))

BeginPipeline ==
    /\ Len(stack) < MaxDepth /\ ~InPipeline
    /\ stack' = Append(stack, Frame("pipeline", <<>>))
    /\ event' = Event("pipeline", <<>>, TRUE, TRUE, NotSeen)
    /\ UNCHANGED <<d, noclobber>>

EnterStage ==
    /\ Len(stack) < MaxDepth /\ InPipeline
    /\ \E redirections \in Redirections, last \in Lasts :
          LET null == Top.pipe = NoRaw /\ ~Top.first /\ stdin_override = NoRaw
              input == IF null THEN Handle(d) ELSE Top.pipe
              s == IF null THEN Opened(d, "null") ELSE d
              taken == Append(Front(stack), [Top EXCEPT !.pipe = NoRaw])
              frame == [Frame("stage", redirections) EXCEPT !.first = Top.first,
                          !.pipe = input, !.last = last,
                          !.capture = (~last \/ Capturing) /\ ~has_stdout_redirection(redirections)]
          IN \E prepared \in Prepared(s, redirections, input) :
                /\ d' = IF prepared.ok THEN prepared.s ELSE Close(prepared.s, {input} \ {NoRaw})
                /\ stack' = IF prepared.ok THEN Append(taken, frame) ELSE AfterStage(stack, last, NoRaw)
                /\ event' = Event("stage", redirections, prepared.ok, last, NotSeen)
    /\ UNCHANGED noclobber

LeaveStage ==
    /\ Top.kind = "stage"
    /\ \E back \in Orders(d.saved_fds) :
          LET s == restore_all_fds(d, back).s
              feeds == Top.capture /\ ~Top.last
          IN /\ d' = Close(IF feeds THEN Opened(s, "pipe") ELSE s, {Top.pipe} \ {NoRaw})
             /\ stack' = AfterStage(Front(stack), Top.last, IF feeds THEN Lowest(s.open) ELSE NoRaw)
    /\ Left(TRUE)

-----------------------------------------------------------------------------

\* The shell starts with its streams, and the signal thread's sockets.
OpenAtStart ==
    [n \in (0..2) \cup Internal |-> IF n \in Internal THEN "signals" ELSE <<"in", "out", "err">>[n + 1]]

Init ==
    /\ d = [open |-> OpenAtStart,
            cloexec |-> Internal, exists |-> Existing,
            fds |-> <<>>, saved_fds |-> <<>>, child |-> NoChild]
    /\ stack = <<>>
    /\ noclobber \in BOOLEAN
    /\ event = [kind |-> "start", redirections |-> <<>>, ok |-> TRUE, last |-> TRUE, seen |-> NotSeen,
                existed |-> Existing]

Next ==
    \/ ExternalCommand \/ BuiltinCaptured \/ Builtin \/ NoCommand
    \/ EnterGroup \/ LeaveGroup \/ EnterSubshell \/ LeaveSubshell \/ EnterCaptured \/ LeaveCaptured
    \/ BeginPipeline \/ EnterStage \/ LeaveStage
=============================================================================
