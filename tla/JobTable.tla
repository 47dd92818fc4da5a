------------------------------ MODULE JobTable ------------------------------
(***************************************************************************)
(* The table of background jobs (src/src/state/jobs.rs): the jobs by       *)
(* number, the next number, and the current ("%+") and previous ("%-")     *)
(* job.  A job keeps one status per process and an overall status; the     *)
(* overall status is written in two ways that do not know of each other:   *)
(* Job::update_pid_status recomputes it from the processes, and            *)
(* Job::update_status (used by bg and fg) overwrites it.                   *)
(*                                                                         *)
(* Done(c) is represented by the exit code c itself, None by NoJob (0: job *)
(* numbers start at 1) or NoCode, and a command line by the name of it.    *)
(***************************************************************************)
EXTENDS Naturals, Sequences, Functions

CONSTANTS
    Pid,          \* process identifiers
    Code,         \* exit codes
    NoCode,       \* exit_code: None
    Command,      \* command lines, for %string and %?string
    MaxStages,    \* bound: processes of one job
    MaxJobId      \* bound: job numbers handed out

ASSUME CodesAssumption == /\ "Running" \notin Code
                          /\ "Stopped" \notin Code
                          /\ NoCode \notin Code
ASSUME BoundsAssumption == MaxStages \in Nat \ {0} /\ MaxJobId \in Nat

VARIABLES
    jobs,           \* job number -> Job
    next_job_id,
    current_job,
    previous_job

jtVars == <<jobs, next_job_id, current_job, previous_job>>

-----------------------------------------------------------------------------
(* Jobs *)

Running == "Running"
Stopped == "Stopped"
JobStatus == {Running, Stopped} \cup Code

NoJob == 0

\* The processes of a job, in pipeline order.
Pipelines == {s \in UNION {[1..n -> Pid] : n \in 1..MaxStages} :
                \A i, j \in DOMAIN s : s[i] = s[j] => i = j}

LastPid(job) == job.pids[Len(job.pids)]

\* Slip: only the first process of a pipeline gets a status.
NewJobFirstStage(pids, command) ==
    [pids       |-> pids,
     command    |-> command,
     status     |-> Running,
     exit_code  |-> NoCode,
     pid_status |-> [p \in {pids[1]} |-> Running]]

NewJob(pids, command) ==
    [pids       |-> pids,
     command    |-> command,
     status     |-> Running,
     exit_code  |-> NoCode,
     pid_status |-> [p \in Range(pids) |-> Running]]

\* Slip: a stopped job does not count as active.
IsActiveRunning(job) == job.status = Running

IsActive(job) == job.status \in {Running, Stopped}

\* Slip: the exit code is not stored with Done.
WithStatusOnly(job, status) ==
    [pids       |-> job.pids,
     command    |-> job.command,
     status     |-> status,
     exit_code  |-> job.exit_code,
     pid_status |-> job.pid_status]

\* Job::update_status: the processes' own status is left as it was.
WithStatus(job, status) ==
    [pids       |-> job.pids,
     command    |-> job.command,
     status     |-> status,
     exit_code  |-> IF status \in Code THEN status ELSE job.exit_code,
     pid_status |-> job.pid_status]

\* Slip: the exit code of the first process, not of the last.
AggregateFirst(pids, ps) ==
    IF \E p \in DOMAIN ps : ps[p] = Running THEN Running
    ELSE IF \A p \in DOMAIN ps : ps[p] \in Code THEN ps[pids[1]]
    ELSE Stopped

\* Slip: the pipeline counts as done with its last process.
AggregateLast(pids, ps) ==
    IF ps[pids[Len(pids)]] \in Code THEN ps[pids[Len(pids)]]
    ELSE IF \E p \in DOMAIN ps : ps[p] = Running THEN Running
    ELSE Stopped

\* Job::recompute_job_status as a function of the processes' status.
Aggregate(pids, ps) ==
    IF \E p \in DOMAIN ps : ps[p] = Running THEN Running
    ELSE IF \A p \in DOMAIN ps : ps[p] \in Code THEN ps[pids[Len(pids)]]
    ELSE Stopped

WithPidStatus(job, pid, status) ==
    LET ps  == [job.pid_status EXCEPT ![pid] = status]
        agg == Aggregate(job.pids, ps)
    IN  [pids       |-> job.pids,
         command    |-> job.command,
         status     |-> agg,
         exit_code  |-> IF agg \in Code THEN agg ELSE NoCode,
         pid_status |-> ps]

-----------------------------------------------------------------------------
(* Operations of the table *)

JobIds == DOMAIN jobs

\* The greatest job number of a set, NoJob of the empty one.
Latest(ids) == CHOOSE i \in ids \cup {NoJob} : \A k \in ids : k <= i

JobTableInit ==
    /\ jobs = <<>>
    /\ next_job_id = 1
    /\ current_job = NoJob
    /\ previous_job = NoJob

\* allocate_job_id, Job::new and add_job, as every "&" calls them in a row.
AddJob(pids, command) ==
    /\ next_job_id <= MaxJobId
    /\ next_job_id' = next_job_id + 1
    /\ jobs' = [i \in JobIds \cup {next_job_id} |->
                   IF i = next_job_id THEN NewJob(pids, command) ELSE jobs[i]]
    /\ previous_job' = IF current_job # NoJob THEN current_job ELSE previous_job
    /\ current_job' = next_job_id

\* Slip: the previous job becomes current, and nothing becomes previous.
RemoveJobKeepsMarks(id) ==
    /\ jobs' = [i \in JobIds \ {id} |-> jobs[i]]
    /\ current_job' = IF current_job = id THEN previous_job ELSE current_job
    /\ previous_job' = IF current_job = id THEN NoJob ELSE previous_job
    /\ UNCHANGED next_job_id

\* Slip: the number of a removed job is handed out again.
RemoveJobRestarts(id) ==
    /\ jobs' = [i \in JobIds \ {id} |-> jobs[i]]
    /\ current_job' = Latest(JobIds \ {id})
    /\ previous_job' = Latest((JobIds \ {id}) \ {Latest(JobIds \ {id})})
    /\ next_job_id' = id

RemoveJob(id) ==
    /\ jobs' = [i \in JobIds \ {id} |-> jobs[i]]
    /\ current_job' = Latest(JobIds \ {id})
    /\ previous_job' = Latest((JobIds \ {id}) \ {Latest(JobIds \ {id})})
    /\ UNCHANGED next_job_id

\* find_job_by_pid takes whichever job the hash map yields first.
JobsOfPid(pid) == {i \in JobIds : pid \in Range(jobs[i].pids)}

UpdateJobStatus(pid, status) ==
    /\ IF JobsOfPid(pid) = {}
       THEN UNCHANGED jobs
       ELSE \E i \in JobsOfPid(pid) :
              jobs' = [jobs EXCEPT ![i] = WithPidStatus(@, pid, status)]
    /\ UNCHANGED <<next_job_id, current_job, previous_job>>

\* get_job_mut(id).update_status(status)
SetJobStatus(id, status) ==
    /\ jobs' = [jobs EXCEPT ![id] = WithStatus(@, status)]
    /\ UNCHANGED <<next_job_id, current_job, previous_job>>

\* parse_jobspec.  A pattern stands for the command lines it matches: those
\* that start with the string for %string, that contain it for %?string.
Jobspecs == [kind : {"current", "previous"}]
            \cup [kind : {"number"}, id : 1..MaxJobId + 1]
            \cup [kind : {"pattern"}, matches : SUBSET Command]

\* Slip: completed jobs match as well.
MatchesAny(spec) == {i \in JobIds : jobs[i].command \in spec.matches}

ActiveMatches(spec) ==
    {i \in JobIds : IsActive(jobs[i]) /\ jobs[i].command \in spec.matches}

ParseJobspec(spec) ==
    CASE spec.kind = "current"  -> current_job
      [] spec.kind = "previous" -> previous_job
      [] spec.kind = "number"   -> IF spec.id \in JobIds THEN spec.id ELSE NoJob
      [] spec.kind = "pattern"  ->
           IF ActiveMatches(spec) = {} THEN NoJob
           ELSE CHOOSE i \in ActiveMatches(spec) :
                   \A k \in ActiveMatches(spec) : i <= k

-----------------------------------------------------------------------------
(* The table with every client the shell has.  Clients only remove a job   *)
(* they have just seen Done (fg, check_background_jobs), and overwrite the *)
(* status of a job they have not (bg, fg).                                 *)

StartJob == \E pids \in Pipelines, c \in Command : AddJob(pids, c)

ReportPid ==
    \E p \in Pid, s \in {Stopped} \cup Code : UpdateJobStatus(p, s)

ResumeJob ==
    \E i \in JobIds : jobs[i].status = Stopped /\ SetJobStatus(i, Running)

ForegroundStopped ==
    \E i \in JobIds : IsActive(jobs[i]) /\ SetJobStatus(i, Stopped)

ForegroundDone ==
    \E i \in JobIds, c \in Code :
        jobs[i].status = Running /\ SetJobStatus(i, c)

RemoveDone ==
    \E i \in JobIds : jobs[i].status \in Code /\ RemoveJob(i)

JobTableNext ==
    \/ StartJob
    \/ ReportPid
    \/ ResumeJob
    \/ ForegroundStopped
    \/ ForegroundDone
    \/ RemoveDone

JobTableSpec == JobTableInit /\ [][JobTableNext]_jtVars

-----------------------------------------------------------------------------
(* Properties *)

Jobs == [pids       : Pipelines,
         command    : Command,
         status     : JobStatus,
         exit_code  : Code \cup {NoCode},
         pid_status : UNION {[S -> JobStatus] : S \in SUBSET Pid}]

JobTypeOK(job) == job \in Jobs /\ DOMAIN job.pid_status = Range(job.pids)

CompletionKept(job) ==
    (\A p \in Range(job.pids) : job.pid_status[p] \in Code) =>
        job.status = job.pid_status[LastPid(job)]

ExitCodeMatches(job) ==
    job.exit_code = IF job.status \in Code THEN job.status ELSE NoCode

\* Every job has the shape of struct Job and one status for each of its
\* processes, and the numbers are those of struct JobTable.
JobTableTypeOK ==
    /\ next_job_id \in Nat \ {0}
    /\ current_job \in Nat
    /\ previous_job \in Nat
    /\ JobIds \subseteq 1..(next_job_id - 1)
    /\ jobs = [i \in JobIds |-> jobs[i]]
    /\ \A i \in JobIds : JobTypeOK(jobs[i])

\* What "%+" and "%-" denote: after any mix of add_job and remove_job the
\* current job is the latest of the table and the previous one the latest
\* but it, so both are in the table as long as it has that many jobs.
CurrentAndPrevious ==
    /\ current_job = Latest(JobIds)
    /\ previous_job = Latest(JobIds \ {current_job})

\* A number always means the job it was first given to: no number comes back
\* after its job was removed, and the processes of a job never change.
NumbersAreForever ==
    [][/\ \A i \in JobIds' \ JobIds : i >= next_job_id
       /\ next_job_id' >= next_job_id
       /\ \A i \in JobIds' \cap JobIds :
            /\ jobs'[i].pids = jobs[i].pids
            /\ jobs'[i].command = jobs[i].command]_jtVars

\* The two writers of the overall status never lose a completion: once every
\* process of a job is recorded as done, the job is Done with the status of
\* the last process of the pipeline, whatever bg or fg wrote before.
AllDoneIsDone == \A i \in JobIds : CompletionKept(jobs[i])

\* exit_code is Some(c) exactly when the status is Done(c), on both paths.
ExitCodeAgrees == \A i \in JobIds : ExitCodeMatches(jobs[i])

\* A jobspec that resolves names a job of the table, a pattern an active one
\* (the "skip completed jobs" of parse_jobspec), and "%-" is never "%+".
JobspecsResolve ==
    /\ \A spec \in Jobspecs :
         ParseJobspec(spec) # NoJob =>
            /\ ParseJobspec(spec) \in JobIds
            /\ spec.kind = "pattern" => IsActive(jobs[ParseJobspec(spec)])
    /\ previous_job # NoJob => previous_job # current_job

=============================================================================
