----------------------------- MODULE JobControl -----------------------------
(***************************************************************************)
(* Job control: the shell's main thread, its signal thread, and the        *)
(* processes of the background jobs.  The main thread alternates between   *)
(* safe points (process_pending_signals, which reaps children for a queued *)
(* CHLD) and commands; the kernel reports a child's exit or stop by        *)
(* SIGCHLD, which coalesces, and by waitpid, which reports each once.      *)
(* Three callers consume those reports: handle_sigchld, wait, and fg.      *)
(*                                                                         *)
(* The queue of signal events holds CHLD and INT: a full one drops its     *)
(* oldest event for a new one, whichever that is.  (TERM ends the shell,   *)
(* see MainLoop.)  A batch with several CHLDs reaps like one with one,     *)
(* since one reaps every child.  A process identifier is used once.        *)
(***************************************************************************)
EXTENDS JobTable, FiniteSets

CONSTANTS
    Interactive,     \* the interactive loop of main.rs, or execute_script
    Commands,        \* the kinds of command the user gives
    Zero,            \* exit code 0
    Signalled,       \* exit code of a process that a signal ended or stopped
    NotAChild,       \* 127, as the answer of a wait that waitpid refused
    MaxSignalQueueSize

ASSUME JobControlAssumption == /\ Interactive \in BOOLEAN
                               /\ MaxSignalQueueSize \in Nat \ {0}
                               /\ Zero \in Code
                               /\ Signalled \in Code

VARIABLES
    \* the kernel
    proc,            \* Pid -> its state
    exit,            \* Pid -> its exit code, once it has one
    news,            \* stopped processes that no waitpid has reported yet
    sigchld,         \* SIGCHLD is pending for the signal thread
    \* shared by the two threads
    SIGNAL_QUEUE,    \* the names of the events
    since_chld,      \* auxiliary: the INTs since the last CHLD or safe point,
                     \* counted to MaxSignalQueueSize and kept once there
    \* the main thread
    pc,
    targets,         \* wait: jobs still to wait for
    waitpids,        \* wait, fg, foreground command: processes of the current one
    waitall,         \* wait was given no argument
    subject,         \* the job fg, or wait %n, is about
    last,            \* last_exit_code of the running wait or fg
    asked            \* auxiliary: the processes of the jobs wait waits for that
                     \* no waitpid had reported when it began

kernelVars == <<proc, exit, news, sigchld>>
queueVars == <<SIGNAL_QUEUE, since_chld>>
waitVars == <<targets, waitpids, waitall, subject, last, asked>>
vars == <<jtVars, kernelVars, queueVars, pc, waitVars>>

-----------------------------------------------------------------------------
(* The kernel *)

Alive(p) == proc[p] \in {"running", "stopped"}

\* What waitpid(-1, WNOHANG | WUNTRACED) can report.
Reportable == {p \in Pid : proc[p] = "zombie"} \cup news

ProcExit(p, c) ==
    /\ proc[p] = "running"
    /\ proc' = [proc EXCEPT ![p] = "zombie"]
    /\ exit' = [exit EXCEPT ![p] = c]
    /\ sigchld' = TRUE
    /\ UNCHANGED <<jtVars, news, queueVars, pc, waitVars>>

ProcStop(p) ==
    /\ proc[p] = "running"
    /\ proc' = [proc EXCEPT ![p] = "stopped"]
    /\ news' = news \cup {p}
    /\ sigchld' = TRUE
    /\ UNCHANGED <<jtVars, exit, queueVars, pc, waitVars>>

\* The effect of kill(p, sig) for each p of a set, and of the SIGCHLDs it
\* causes: a continued child raises one as well, though nobody waits for it.
Signal(pids, sig) ==
    LET hit == {p \in pids : \/ proc[p] = "running" /\ sig \in {"STOP", "KILL"}
                             \/ proc[p] = "stopped" /\ sig \in {"CONT", "KILL"}}
    IN  /\ proc' = [p \in Pid |->
                      IF p \notin hit THEN proc[p]
                      ELSE CASE sig = "STOP" -> "stopped"
                             [] sig = "CONT" -> "running"
                             [] sig = "KILL" -> "zombie"]
        /\ exit' = [p \in Pid |->
                      IF p \in hit /\ sig = "KILL" THEN Signalled ELSE exit[p]]
        /\ news' = IF sig = "STOP" THEN news \cup hit ELSE news \ hit
        /\ sigchld' = (sigchld \/ hit # {})

\* A waitpid that reports the exit of p.
Reap(p) ==
    /\ proc[p] = "zombie"
    /\ proc' = [proc EXCEPT ![p] = "reaped"]
    /\ UNCHANGED <<exit, news, sigchld>>

\* A waitpid with WUNTRACED that reports the stop of p.
ReportStop(p) ==
    /\ p \in news
    /\ news' = news \ {p}
    /\ UNCHANGED <<proc, exit, sigchld>>

Kernel == \E p \in Pid : ProcStop(p) \/ \E c \in Code : ProcExit(p, c)

-----------------------------------------------------------------------------
(* The signal thread *)

\* Slip: a full queue is emptied, not its oldest event dropped.
QueueWithAllDropped(event) ==
    IF Len(SIGNAL_QUEUE) >= MaxSignalQueueSize THEN <<event>>
    ELSE Append(SIGNAL_QUEUE, event)

\* enqueue_signal
QueueWith(event) ==
    Append(IF Len(SIGNAL_QUEUE) >= MaxSignalQueueSize
           THEN Tail(SIGNAL_QUEUE) ELSE SIGNAL_QUEUE, event)

\* SIGCHLD: however many children it stands for, one CHLD is queued.
SignalThread ==
    /\ sigchld
    /\ sigchld' = FALSE
    /\ SIGNAL_QUEUE' = QueueWith("CHLD")
    /\ since_chld' = 0
    /\ UNCHANGED <<jtVars, proc, exit, news, pc, waitVars>>

\* SIGINT, at any time and any number of them.
Interrupt ==
    /\ SIGNAL_QUEUE' = QueueWith("INT")
    /\ since_chld' = IF since_chld < MaxSignalQueueSize
                     THEN since_chld + 1 ELSE since_chld
    /\ UNCHANGED <<jtVars, kernelVars, pc, waitVars>>

-----------------------------------------------------------------------------
(* The main thread's safe points *)

\* Where a command goes on: the interactive loop has a safe point after the
\* command and one before the next prompt, a script one before each line.
AfterCommand == IF Interactive THEN "after" ELSE "top"

AfterSafePoint(point) ==
    CASE point = "after" -> "top"
      [] point = "top"   -> IF Interactive THEN "notify" ELSE "prompt"

ReapingAt(point) == IF point = "after" THEN "reap_after" ELSE "reap_top"

\* process_pending_signals: drain the queue, then handle a CHLD if it had one
\* (and run the trap of an INT, see MainLoop).
Drain ==
    \E point \in {"after", "top"} :
        /\ pc = point
        /\ SIGNAL_QUEUE' = <<>>
        /\ since_chld' = IF since_chld < MaxSignalQueueSize THEN 0 ELSE since_chld
        /\ pc' = IF "CHLD" \in Range(SIGNAL_QUEUE)
                 THEN ReapingAt(point) ELSE AfterSafePoint(point)
        /\ UNCHANGED <<jtVars, kernelVars, waitVars>>

\* handle_sigchld: one turn of its loop.
ReapOne ==
    /\ pc \in {"reap_after", "reap_top"}
    /\ \E p \in Pid : \/ Reap(p) /\ UpdateJobStatus(p, exit[p])
                      \/ ReportStop(p) /\ UpdateJobStatus(p, Stopped)
    /\ UNCHANGED <<queueVars, pc, waitVars>>

\* Slip: one child for each CHLD event, though SIGCHLDs coalesce.
ReapNoneEarly ==
    \E point \in {"after", "top"} :
        /\ pc = ReapingAt(point)
        /\ pc' = AfterSafePoint(point)
        /\ UNCHANGED <<jtVars, kernelVars, queueVars, waitVars>>

\* waitpid answers 0 or ECHILD: nothing to report.
ReapNone ==
    \E point \in {"after", "top"} :
        /\ pc = ReapingAt(point)
        /\ Reportable = {}
        /\ pc' = AfterSafePoint(point)
        /\ UNCHANGED <<jtVars, kernelVars, queueVars, waitVars>>

\* Slip: every job that was notified is removed, the stopped ones too.
NotifiedJobs == {i \in JobIds : jobs[i].status # Running}

DoneJobs == {i \in JobIds : jobs[i].status \in Code}

\* check_background_jobs: the Done jobs are printed and removed in order.
NotifyDone ==
    /\ pc = "notify"
    /\ \E i \in DoneJobs : /\ \A k \in DoneJobs : i <= k
                           /\ RemoveJob(i)
    /\ UNCHANGED <<kernelVars, queueVars, pc, waitVars>>

NotifyEnd ==
    /\ pc = "notify"
    /\ DoneJobs = {}
    /\ pc' = "prompt"
    /\ UNCHANGED <<jtVars, kernelVars, queueVars, waitVars>>

-----------------------------------------------------------------------------
(* Commands that do not block *)

\* The locals of wait and fg, once they have returned.
Forget ==
    /\ targets' = <<>>
    /\ waitall' = FALSE
    /\ subject' = NoJob
    /\ last' = Zero
    /\ asked' = {}

At(command) == pc = "prompt" /\ command \in Commands

\* An empty line, jobs, bg of a job that is running or done, a jobspec that
\* does not resolve, or an fg that cannot hand over the terminal.
Query ==
    /\ At("query")
    /\ pc' = AfterCommand
    /\ UNCHANGED <<jtVars, kernelVars, queueVars, waitVars>>

\* cmd & : every stage is spawned, then the job is added.
StartBackground ==
    /\ At("start")
    /\ \E pids \in Pipelines, c \in Command :
         /\ \A p \in Range(pids) : proc[p] = "free"
         /\ proc' = [p \in Pid |-> IF p \in Range(pids) THEN "running" ELSE proc[p]]
         /\ AddJob(pids, c)
    /\ pc' = AfterCommand
    /\ UNCHANGED <<exit, news, sigchld, queueVars, waitVars>>

\* bg of a stopped job: SIGCONT to each process, then update_status(Running).
BgResume ==
    /\ At("bg")
    /\ \E i \in JobIds :
         /\ jobs[i].status = Stopped
         /\ Signal(Range(jobs[i].pids), "CONT")
         /\ SetJobStatus(i, Running)
    /\ pc' = AfterCommand
    /\ UNCHANGED <<queueVars, waitVars>>

\* kill -sig %n: the job table is left to the SIGCHLDs that follow.
KillJob ==
    /\ At("kill")
    /\ \E i \in JobIds, sig \in {"STOP", "CONT", "KILL"} :
         Signal(Range(jobs[i].pids), sig)
    /\ pc' = AfterCommand
    /\ UNCHANGED <<jtVars, queueVars, waitVars>>

-----------------------------------------------------------------------------
(* A foreground command: spawn and Child::wait, which does not see stops *)

RunForeground ==
    /\ At("run")
    /\ \E p \in Pid : /\ proc[p] = "free"
                      /\ proc' = [proc EXCEPT ![p] = "running"]
                      /\ waitpids' = <<p>>
    /\ pc' = "run"
    /\ UNCHANGED <<jtVars, exit, news, sigchld, queueVars,
                   targets, waitall, subject, last, asked>>

ForegroundExit ==
    /\ pc = "run"
    /\ Reap(Head(waitpids))
    /\ waitpids' = <<>>
    /\ pc' = AfterCommand
    /\ UNCHANGED <<jtVars, queueVars, targets, waitall, subject, last, asked>>

-----------------------------------------------------------------------------
(* wait *)

BeginWait(ids, pids, all, about, promised) ==
    /\ At("wait")
    /\ targets' = ids
    /\ waitpids' = pids
    /\ waitall' = all
    /\ subject' = about
    /\ last' = Zero
    /\ asked' = promised
    /\ pc' = "wait"
    /\ UNCHANGED <<jtVars, kernelVars, queueVars>>

ActiveJobs == {i \in JobIds : IsActive(jobs[i])}

InOrder(ids) == {s \in [1..Cardinality(ids) -> ids] :
                   \A i, j \in DOMAIN s : i < j => s[i] < s[j]}

Unreaped(ids) ==
    {p \in Pid : proc[p] # "reaped" /\ \E i \in ids : p \in Range(jobs[i].pids)}

\* wait: the jobs that are active now, in order.
WaitAll ==
    \E ids \in InOrder(ActiveJobs) :
        BeginWait(ids, <<>>, TRUE, NoJob, Unreaped(JobIds))

\* wait %n: any job of the table, each has some jobspec.
WaitJob == \E i \in JobIds : BeginWait(<<i>>, <<>>, FALSE, i, Unreaped({i}))

\* wait n: a process, of a job of the table or not.
WaitPid ==
    \E p \in Pid : proc[p] # "free" /\ BeginWait(<<>>, <<p>>, FALSE, NoJob, {})

\* wait_for_job: a job that is Done answers at once, any other is waited for
\* process by process.  (Nothing removes a job while wait runs.)
WaitNextJob ==
    /\ pc = "wait"
    /\ waitpids = <<>>
    /\ targets # <<>>
    /\ targets' = Tail(targets)
    /\ LET job == jobs[Head(targets)]
       IN  \/ /\ job.status \in Code
              /\ last' = job.status
              /\ UNCHANGED waitpids
           \/ /\ job.status \notin Code
              /\ waitpids' = job.pids
              /\ UNCHANGED last
    /\ UNCHANGED <<jtVars, kernelVars, queueVars, pc, waitall, subject, asked>>

DoneJobsOf(p) == {i \in JobsOfPid(p) : jobs[i].status \in Code}

\* Slip: the status of a job that is Done already is not returned.
WaitKnownDoneKeeps ==
    /\ pc = "wait"
    /\ waitpids # <<>>
    /\ DoneJobsOf(Head(waitpids)) # {}
    /\ waitpids' = Tail(waitpids)
    /\ UNCHANGED <<jtVars, kernelVars, queueVars, pc,
                   targets, waitall, subject, last, asked>>

\* wait_for_pid: the job of the process is already Done.
WaitKnownDone ==
    /\ pc = "wait"
    /\ waitpids # <<>>
    /\ \E i \in DoneJobsOf(Head(waitpids)) : last' = jobs[i].status
    /\ waitpids' = Tail(waitpids)
    /\ UNCHANGED <<jtVars, kernelVars, queueVars, pc,
                   targets, waitall, subject, asked>>

\* Slip: the exit is not recorded in the job table.
WaitReapUnrecorded ==
    /\ pc = "wait"
    /\ waitpids # <<>>
    /\ DoneJobsOf(Head(waitpids)) = {}
    /\ Reap(Head(waitpids))
    /\ last' = exit[Head(waitpids)]
    /\ waitpids' = Tail(waitpids)
    /\ UNCHANGED <<jtVars, queueVars, pc, targets, waitall, subject, asked>>

\* wait_for_pid: the blocking waitpid reports the exit.
WaitReap ==
    /\ pc = "wait"
    /\ waitpids # <<>>
    /\ DoneJobsOf(Head(waitpids)) = {}
    /\ Reap(Head(waitpids))
    /\ UpdateJobStatus(Head(waitpids), exit[Head(waitpids)])
    /\ last' = exit[Head(waitpids)]
    /\ waitpids' = Tail(waitpids)
    /\ UNCHANGED <<queueVars, pc, targets, waitall, subject, asked>>

\* wait_for_pid: ECHILD, which ends the wait for the job.  A plain wait goes
\* on to the next job; any other (its operand was the only one) answers 127.
WaitNotAChild ==
    /\ pc = "wait"
    /\ waitpids # <<>>
    /\ DoneJobsOf(Head(waitpids)) = {}
    /\ proc[Head(waitpids)] = "reaped"
    /\ waitpids' = <<>>
    /\ last' = IF waitall THEN last ELSE NotAChild
    /\ UNCHANGED <<jtVars, kernelVars, queueVars, pc,
                   targets, waitall, subject, asked>>

WaitEnd ==
    /\ pc = "wait"
    /\ waitpids = <<>>
    /\ targets = <<>>
    /\ pc' = AfterCommand
    /\ Forget
    /\ UNCHANGED <<jtVars, kernelVars, queueVars, waitpids>>

-----------------------------------------------------------------------------
(* fg *)

\* fg of a job that is Done only removes it.
FgDone ==
    /\ At("fg")
    /\ \E i \in DoneJobs : RemoveJob(i)
    /\ pc' = AfterCommand
    /\ UNCHANGED <<kernelVars, queueVars, waitVars>>

\* fg of an active job.  SIGCONT is sent only to a job recorded as Stopped.
FgStart ==
    /\ At("fg")
    /\ \E i \in ActiveJobs :
         /\ \/ /\ jobs[i].status = Stopped
               /\ Signal(Range(jobs[i].pids), "CONT")
               /\ SetJobStatus(i, Running)
            \/ /\ jobs[i].status = Running
               /\ UNCHANGED <<jtVars, kernelVars>>
         /\ subject' = i
         /\ waitpids' = jobs[i].pids
    /\ last' = Zero
    /\ pc' = "fg"
    /\ UNCHANGED <<queueVars, targets, waitall, asked>>

\* One turn of fg's wait_for_job: waitpid(pid, WUNTRACED).  An exit is not
\* recorded in the job table, a stop only in the job's overall status.
FgWait ==
    /\ pc = "fg"
    /\ waitpids # <<>>
    /\ LET p == Head(waitpids)
       IN  \/ Reap(p) /\ last' = exit[p] /\ UNCHANGED jtVars
           \/ ReportStop(p) /\ last' = Signalled /\ SetJobStatus(subject, Stopped)
           \/ proc[p] = "reaped" /\ UNCHANGED <<jtVars, kernelVars, last>>
    /\ waitpids' = Tail(waitpids)
    /\ UNCHANGED <<queueVars, pc, targets, waitall, subject, asked>>

\* Every process was waited for.  A job that did not stop is Done; removing
\* it borrows the table while the match on its status still holds a borrow,
\* which is a panic: the shell ends there.
FgEnd ==
    /\ pc = "fg"
    /\ waitpids = <<>>
    /\ \/ /\ jobs[subject].status = Stopped
          /\ pc' = AfterCommand
          /\ UNCHANGED jtVars
       \/ /\ jobs[subject].status # Stopped
          /\ SetJobStatus(subject, last)
          /\ pc' = "panicked"
    /\ Forget
    /\ UNCHANGED <<kernelVars, queueVars, waitpids>>

-----------------------------------------------------------------------------
Init ==
    /\ JobTableInit
    /\ proc = [p \in Pid |-> "free"]
    /\ exit = [p \in Pid |-> NoCode]
    /\ news = {}
    /\ sigchld = FALSE
    /\ SIGNAL_QUEUE = <<>>
    /\ since_chld = 0
    /\ pc = "top"
    /\ targets = <<>>
    /\ waitpids = <<>>
    /\ waitall = FALSE
    /\ subject = NoJob
    /\ last = Zero
    /\ asked = {}

SafePoint == Drain \/ ReapOne \/ ReapNone \/ NotifyDone \/ NotifyEnd

Wait == WaitNextJob \/ WaitKnownDone \/ WaitReap \/ WaitNotAChild \/ WaitEnd

Fg == FgWait \/ FgEnd

Prompt == \/ Query \/ StartBackground \/ BgResume \/ KillJob
            \/ RunForeground \/ WaitAll \/ WaitJob \/ WaitPid
            \/ FgDone \/ FgStart

Next == \/ Kernel
        \/ SignalThread
        \/ Interrupt
        \/ SafePoint
        \/ Prompt
        \/ ForegroundExit
        \/ Wait
        \/ Fg

Spec == Init /\ [][Next]_vars

\* The signal thread sits in signals.forever(), the main thread runs on
\* between prompts, and the user (or the script) goes on to another line.
Fairness == /\ WF_vars(SignalThread)
            /\ WF_vars(SafePoint)
            /\ WF_vars(Query)

FairSpec == Spec /\ Fairness

-----------------------------------------------------------------------------
(* Properties *)

PCs == {"top", "after", "reap_top", "reap_after", "notify", "prompt",
        "run", "wait", "fg", "panicked"}

Reaping == pc \in {"reap_top", "reap_after"}

TypeOK ==
    /\ JobTableTypeOK
    /\ proc \in [Pid -> {"free", "running", "stopped", "zombie", "reaped"}]
    /\ exit \in [Pid -> Code \cup {NoCode}]
    /\ news \subseteq Pid
    /\ sigchld \in BOOLEAN
    /\ SIGNAL_QUEUE \in Seq({"CHLD", "INT"})
    /\ Len(SIGNAL_QUEUE) <= MaxSignalQueueSize
    /\ since_chld \in 0..MaxSignalQueueSize
    /\ pc \in PCs
    /\ targets \in Seq(Nat)
    /\ waitpids \in Seq(Pid)
    /\ waitall \in BOOLEAN
    /\ subject \in Nat
    /\ last \in Code \cup {NotAChild}
    /\ asked \subseteq Pid

\* SIGINTs have crowded the queue since the last CHLD: as many as it holds
\* were queued, with no safe point between them and that CHLD.
Crowded == since_chld = MaxSignalQueueSize

\* A report is lost only to a crowded queue: while waitpid has something to
\* report, a SIGCHLD is pending, a CHLD is queued, handle_sigchld is still in
\* its loop, or as many SIGINTs as the queue holds came after the last CHLD.
\* It rests on draining the queue before reaping, on reaping until waitpid
\* has no more, since SIGCHLDs coalesce, and on dropping one event at a time,
\* the oldest.  (What was lost is picked up with the next SIGCHLD.)
NoLostChild ==
    Reportable # {} =>
        sigchld \/ "CHLD" \in Range(SIGNAL_QUEUE) \/ Reaping \/ Crowded

\* A job is called Done only when the shell has reaped all of its processes,
\* whichever of handle_sigchld, wait and fg reaped them.
DoneMeansReaped ==
    \A i \in DoneJobs : \A p \in Range(jobs[i].pids) : proc[p] = "reaped"

\* The code of a Done job is the exit code of the last process of its
\* pipeline, in whatever order the processes ended and were reaped.
DoneWithLastCode ==
    pc # "panicked" =>
        \A i \in DoneJobs : jobs[i].status = exit[LastPid(jobs[i])]

\* When wait %n returns, the job is Done and the answer is the exit code of
\* its last process; or the job is not Done and the answer is 127, and that
\* only if one of its processes had already been reaped when wait was given.
WaitAnswersLastCode ==
    pc = "wait" /\ waitpids = <<>> /\ targets = <<>> /\ subject # NoJob =>
        \/ /\ subject \in DoneJobs
           /\ last = exit[LastPid(jobs[subject])]
        \/ /\ subject \notin DoneJobs
           /\ last = NotAChild
           /\ ~ Range(jobs[subject].pids) \subseteq asked

AllReaped(job) == \A p \in Range(job.pids) : proc[p] = "reaped"

\* A job whose processes have all been reaped is Done: it does not stay
\* Running or Stopped in the table with nothing left to wait for.
ReapedMeansDone ==
    \A i \in JobIds : AllReaped(jobs[i]) => jobs[i].status \in Code

\* A plain wait and wait %n return only when every process of the jobs they
\* wait for has ended, for jobs of a single process, whoever else reaps it,
\* and across its stops and resumptions. (With more processes wait gives up
\* on the job at the first one another waitpid has reaped.)
WaitAllWaitsForSingles ==
    pc = "wait" /\ waitpids = <<>> /\ targets = <<>> =>
        \A i \in JobIds : Len(jobs[i].pids) = 1 =>
            (jobs[i].pids[1] \in asked => ~ Alive(jobs[i].pids[1]))

\* Bringing a job to the foreground leaves the shell running.
FgReturns == pc # "panicked"

\* In the interactive shell a job whose processes have all ended is reported
\* and removed from the table, as long as the user goes on giving commands,
\* unless SIGINTs crowd the CHLD out of the queue.
EndedJobIsRemoved ==
    \A i \in 1..MaxJobId :
        (i \in JobIds /\ \A p \in Range(jobs[i].pids) : ~ Alive(p))
            ~> (i \notin JobIds \/ Crowded)

=============================================================================
