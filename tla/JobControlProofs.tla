-------------------------- MODULE JobControlProofs --------------------------
(***************************************************************************)
(* Proofs about the job table and job control, for any number of           *)
(* processes, jobs, codes and command lines, and any choice of commands.   *)
(* The job table comes first, by itself.  CurrentAndPrevious needs the     *)
(* types, because the greatest of a set of numbers exists only if the set  *)
(* is bounded; the two status invariants need them to read one process's   *)
(* entry after another's was written.  Every step of the shell and of the  *)
(* kernel is a step of the job table or leaves it alone, so the table's    *)
(* theorems hold of the whole system; what is proved after them relates    *)
(* the table to the processes.                                             *)
(***************************************************************************)
EXTENDS JobControl, WellFoundedInduction, FiniteSetTheorems, TLAPS

-----------------------------------------------------------------------------
(* The greatest number of a bounded set *)

LEMMA GreatestExists ==
    ASSUME NEW n \in Nat, NEW S \in SUBSET (1..n)
    PROVE  \E m \in S \cup {NoJob} : \A k \in S : k <= m
<1> DEFINE R == {ss \in Nat \X Nat : ss[1] < ss[2]}
           T == {n - i : i \in S \cup {NoJob}}
<1>1. T \subseteq Nat /\ T # {}
    BY DEF NoJob
<1>2. IsWellFoundedOn(R, Nat)
    BY NatLessThanWellFounded DEF OpToRel
<1> HIDE DEF T
<1>3. PICK x \in T : \A y \in T : ~ (<<y, x>> \in R)
    BY <1>1, <1>2, WFMin
<1>4. ASSUME NEW y \in T PROVE x <= y
    <2>1. x \in Nat /\ y \in Nat
        BY <1>1
    <2>2. <<y, x>> \notin R
        BY <1>3
    <2>3. ~ (y < x)
        BY <2>1, <2>2
    <2> QED
        BY <2>1, <2>3
<1>5. PICK m \in S \cup {NoJob} : x = n - m
    BY <1>3 DEF T
<1>6. ASSUME NEW k \in S PROVE k <= m
    <2>1. n - k \in T
        BY DEF T
    <2>2. n - m <= n - k
        BY <1>4, <1>5, <2>1
    <2> QED
        BY <2>2 DEF NoJob
<1> QED
    BY <1>5, <1>6

LEMMA LatestIsGreatest ==
    ASSUME NEW n \in Nat, NEW S \in SUBSET (1..n)
    PROVE  /\ Latest(S) \in S \cup {NoJob}
           /\ Latest(S) \in Nat
           /\ \A k \in S : k <= Latest(S)
<1>1. \E m \in S \cup {NoJob} : \A k \in S : k <= m
    BY GreatestExists
<1>2. Latest(S) \in S \cup {NoJob} /\ \A k \in S : k <= Latest(S)
    BY <1>1 DEF Latest, NoJob
<1>3. S \cup {NoJob} \subseteq Nat
    BY DEF NoJob
<1> QED
    BY <1>2, <1>3

\* Whatever bounds the set from inside is its greatest element.
LEMMA LatestIsUnique ==
    ASSUME NEW n \in Nat, NEW S \in SUBSET (1..n),
           NEW m \in S \cup {NoJob}, \A k \in S : k <= m
    PROVE  Latest(S) = m
<1>1. /\ Latest(S) \in S \cup {NoJob}
      /\ \A k \in S : k <= Latest(S)
    BY LatestIsGreatest
<1>2. S \cup {NoJob} \subseteq Nat
    BY DEF NoJob
<1>3. m \in Nat /\ Latest(S) \in Nat
    BY <1>1, <1>2
<1>4. m <= Latest(S)
    BY <1>1, <1>3 DEF NoJob
<1>5. Latest(S) <= m
    BY <1>1, <1>3 DEF NoJob
<1> QED
    BY <1>3, <1>4, <1>5

-----------------------------------------------------------------------------
(* One job *)

LEMMA PipelineShape ==
    ASSUME NEW s \in Pipelines
    PROVE  /\ s \in Seq(Pid)
           /\ Len(s) \in Nat \ {0}
           /\ DOMAIN s = 1..Len(s)
           /\ Range(s) \subseteq Pid
           /\ s[Len(s)] \in Range(s)
<1>1. PICK n \in 1..MaxStages : s \in [1..n -> Pid]
    BY DEF Pipelines
<1>2. n \in Nat \ {0}
    BY <1>1, BoundsAssumption
<1>3. s \in Seq(Pid) /\ Len(s) = n /\ DOMAIN s = 1..n
    BY <1>1, <1>2
<1>4. \A i \in 1..n : s[i] \in Pid /\ s[i] \in Range(s)
    BY <1>1 DEF Range
<1>5. Range(s) \subseteq Pid
    BY <1>1 DEF Range
<1> QED
    BY <1>2, <1>3, <1>4, <1>5

LEMMA NewJobOK ==
    ASSUME NEW pids \in Pipelines, NEW c \in Command
    PROVE  /\ JobTypeOK(NewJob(pids, c))
           /\ CompletionKept(NewJob(pids, c))
           /\ ExitCodeMatches(NewJob(pids, c))
<1> DEFINE job == NewJob(pids, c)
<1>1. /\ Range(pids) \in SUBSET Pid
      /\ pids[Len(pids)] \in Range(pids)
    BY PipelineShape
<1>2. job.pid_status \in [Range(pids) -> JobStatus]
    BY DEF NewJob, JobStatus
<1>3. JobTypeOK(job)
    BY <1>1, <1>2 DEF JobTypeOK, Jobs, NewJob, JobStatus
<1>4. CompletionKept(job)
    BY <1>1, CodesAssumption DEF CompletionKept, NewJob, Running
<1>5. ExitCodeMatches(job)
    BY CodesAssumption DEF ExitCodeMatches, NewJob, Running
<1> QED
    BY <1>3, <1>4, <1>5

LEMMA AggregateType ==
    ASSUME NEW pids \in Pipelines, NEW ps \in [Range(pids) -> JobStatus]
    PROVE  /\ Aggregate(pids, ps) \in JobStatus
           /\ (\A p \in Range(pids) : ps[p] \in Code)
                => Aggregate(pids, ps) = ps[pids[Len(pids)]]
<1>1. pids[Len(pids)] \in Range(pids)
    BY PipelineShape
<1> QED
    BY <1>1, CodesAssumption DEF Aggregate, JobStatus, Running, Stopped

\* A process's report keeps the job well formed, in whatever state it was.
LEMMA WithPidStatusOK ==
    ASSUME NEW job, JobTypeOK(job),
           NEW pid \in Range(job.pids), NEW st \in JobStatus
    PROVE  /\ JobTypeOK(WithPidStatus(job, pid, st))
           /\ CompletionKept(WithPidStatus(job, pid, st))
           /\ ExitCodeMatches(WithPidStatus(job, pid, st))
           /\ WithPidStatus(job, pid, st).pids = job.pids
           /\ WithPidStatus(job, pid, st).command = job.command
<1> DEFINE new == WithPidStatus(job, pid, st)
           ps  == [job.pid_status EXCEPT ![pid] = st]
           agg == Aggregate(job.pids, ps)
<1>1. /\ job \in Jobs
      /\ job.pids \in Pipelines
      /\ job.pid_status \in [Range(job.pids) -> JobStatus]
      /\ Range(job.pids) \in SUBSET Pid
    <2>1. job.pids \in Pipelines /\ DOMAIN job.pid_status = Range(job.pids)
        BY DEF JobTypeOK, Jobs
    <2>2. PICK S \in SUBSET Pid : job.pid_status \in [S -> JobStatus]
        BY DEF JobTypeOK, Jobs
    <2> QED
        BY <2>1, <2>2, PipelineShape DEF JobTypeOK
<1>2. ps \in [Range(job.pids) -> JobStatus]
    BY <1>1
<1>3. agg \in JobStatus
    BY <1>1, <1>2, AggregateType
<1>4. /\ new.pids = job.pids
      /\ new.command = job.command
      /\ new.status = agg
      /\ new.pid_status = ps
      /\ new.exit_code = IF agg \in Code THEN agg ELSE NoCode
    BY DEF WithPidStatus
<1>5. JobTypeOK(new)
    <2>1. new.pid_status \in UNION {[S -> JobStatus] : S \in SUBSET Pid}
        BY <1>1, <1>2, <1>4
    <2>2. /\ new.command \in Command
          /\ new.exit_code \in Code \cup {NoCode}
        BY <1>1, <1>3, <1>4 DEF Jobs
    <2>3. new \in Jobs
        BY <1>1, <1>3, <1>4, <2>1, <2>2 DEF Jobs, WithPidStatus
    <2> QED
        BY <1>2, <1>4, <2>3 DEF JobTypeOK
<1>6. CompletionKept(new)
    BY <1>1, <1>2, <1>4, AggregateType DEF CompletionKept, LastPid
<1>7. ExitCodeMatches(new)
    BY <1>4 DEF ExitCodeMatches
<1> QED
    BY <1>4, <1>5, <1>6, <1>7

\* Overwriting the status of a job that is not done keeps it well formed.
LEMMA WithStatusOK ==
    ASSUME NEW job, JobTypeOK(job), CompletionKept(job), ExitCodeMatches(job),
           job.status \notin Code, NEW st \in JobStatus
    PROVE  /\ JobTypeOK(WithStatus(job, st))
           /\ CompletionKept(WithStatus(job, st))
           /\ ExitCodeMatches(WithStatus(job, st))
           /\ WithStatus(job, st).pids = job.pids
           /\ WithStatus(job, st).command = job.command
<1> DEFINE new == WithStatus(job, st)
<1>1. /\ new.pids = job.pids
      /\ new.command = job.command
      /\ new.status = st
      /\ new.pid_status = job.pid_status
      /\ new.exit_code = IF st \in Code THEN st ELSE NoCode
    BY DEF WithStatus, ExitCodeMatches
<1>2. JobTypeOK(new)
    BY <1>1 DEF JobTypeOK, Jobs, JobStatus, WithStatus
<1>3. job.pids[Len(job.pids)] \in Range(job.pids)
    BY PipelineShape DEF JobTypeOK, Jobs
<1>4. CompletionKept(new)
    BY <1>1, <1>3 DEF CompletionKept, LastPid
<1>5. ExitCodeMatches(new)
    BY <1>1 DEF ExitCodeMatches
<1> QED
    BY <1>1, <1>2, <1>4, <1>5

-----------------------------------------------------------------------------
(* The table *)

JobTableInv ==
    /\ JobTableTypeOK
    /\ AllDoneIsDone
    /\ ExitCodeAgrees
    /\ CurrentAndPrevious

JobsOK(js) ==
    \A i \in DOMAIN js :
        JobTypeOK(js[i]) /\ CompletionKept(js[i]) /\ ExitCodeMatches(js[i])

LEMMA JobTableInvParts ==
    JobTableInv <=>
        /\ next_job_id \in Nat \ {0}
        /\ current_job \in Nat
        /\ previous_job \in Nat
        /\ JobIds \subseteq 1..(next_job_id - 1)
        /\ jobs = [i \in JobIds |-> jobs[i]]
        /\ JobsOK(jobs)
        /\ CurrentAndPrevious
BY DEF JobTableInv, JobTableTypeOK, AllDoneIsDone, ExitCodeAgrees, JobsOK, JobIds

LEMMA InitInv == JobTableInit => JobTableInv
<1> SUFFICES ASSUME JobTableInit PROVE JobTableInv
    OBVIOUS
<1>1. JobIds = {}
    BY DEF JobTableInit, JobIds
<1>2. jobs = [i \in JobIds |-> jobs[i]]
    BY <1>1 DEF JobTableInit
<1>3. Latest({}) = NoJob /\ Latest({} \ {NoJob}) = NoJob
    <2>1. {} \in SUBSET (1..0) /\ {} \ {NoJob} = {}
        OBVIOUS
    <2> QED
        BY <2>1, LatestIsGreatest
<1>4. CurrentAndPrevious
    BY <1>1, <1>3 DEF CurrentAndPrevious, JobTableInit
<1> QED
    BY <1>1, <1>2, <1>4 DEF JobTableInv, JobTableInit, JobTableTypeOK,
       AllDoneIsDone, ExitCodeAgrees, NoJob

\* The new job is the latest; the job that was current is the latest but it.
LEMMA AddJobInv ==
    ASSUME JobTableInv, NEW pids \in Pipelines, NEW c \in Command,
           AddJob(pids, c)
    PROVE  JobTableInv'
<1> DEFINE id == next_job_id
<1>1. /\ id \in Nat \ {0}
      /\ JobIds \subseteq 1..(id - 1)
      /\ current_job = Latest(JobIds)
      /\ previous_job = Latest(JobIds \ {current_job})
      /\ JobsOK(jobs)
    BY JobTableInvParts DEF CurrentAndPrevious
<1>2. /\ JobIds' = JobIds \cup {id}
      /\ \A i \in JobIds : jobs'[i] = jobs[i]
      /\ jobs'[id] = NewJob(pids, c)
      /\ jobs' = [i \in JobIds' |-> jobs'[i]]
    BY <1>1 DEF AddJob, JobIds
<1>3. JobsOK(jobs')
    BY <1>1, <1>2, NewJobOK DEF JobsOK, JobIds
<1>4. /\ next_job_id' = id + 1
      /\ current_job' = id
      /\ previous_job' = IF current_job # NoJob THEN current_job ELSE previous_job
    BY DEF AddJob
<1>5. JobIds' \subseteq 1..id /\ JobIds' \subseteq 1..(next_job_id' - 1)
    BY <1>1, <1>2, <1>4
<1>6. current_job' = Latest(JobIds')
    <2>1. id \in JobIds' \cup {NoJob} /\ \A k \in JobIds' : k <= id
        BY <1>1, <1>2, <1>5
    <2> QED
        BY <1>1, <1>4, <1>5, <2>1, LatestIsUnique
<1>7. current_job \in JobIds \cup {NoJob} /\ current_job \in Nat
    <2>1. JobIds \in SUBSET (1..(id - 1)) /\ id - 1 \in Nat
        BY <1>1
    <2> QED
        BY <1>1, <2>1, LatestIsGreatest
<1>8. previous_job' = Latest(JobIds)
    <2>1. CASE current_job # NoJob
        BY <2>1, <1>1, <1>4
    <2>2. CASE current_job = NoJob
        <3>1. NoJob \notin JobIds
            BY <1>1 DEF NoJob
        <3>2. JobIds \ {current_job} = JobIds
            BY <2>2, <3>1
        <3> QED
            BY <2>2, <3>2, <1>1, <1>4
    <2> QED
        BY <2>1, <2>2
<1>9. JobIds' \ {current_job'} = JobIds
    BY <1>1, <1>2, <1>4
<1>10. CurrentAndPrevious'
    BY <1>6, <1>8, <1>9 DEF CurrentAndPrevious
<1>11. /\ next_job_id' \in Nat \ {0}
       /\ current_job' \in Nat
       /\ previous_job' \in Nat
    BY <1>1, <1>4, <1>7, <1>8
<1> QED
    BY <1>2, <1>3, <1>5, <1>10, <1>11
    DEF JobTableInv, JobTableTypeOK, AllDoneIsDone, ExitCodeAgrees, JobsOK, JobIds

LEMMA RemoveJobInv ==
    ASSUME JobTableInv, NEW id \in JobIds, RemoveJob(id)
    PROVE  JobTableInv'
<1> DEFINE rest == JobIds \ {id}
<1>1. /\ next_job_id \in Nat \ {0}
      /\ JobIds \subseteq 1..(next_job_id - 1)
      /\ JobsOK(jobs)
    BY JobTableInvParts
<1>2. /\ JobIds' = rest
      /\ \A i \in rest : jobs'[i] = jobs[i]
      /\ jobs' = [i \in JobIds' |-> jobs'[i]]
    BY DEF RemoveJob, JobIds
<1>3. JobsOK(jobs')
    BY <1>1, <1>2 DEF JobsOK, JobIds
<1>4. /\ rest \in SUBSET (1..(next_job_id - 1))
      /\ rest \ {Latest(rest)} \in SUBSET (1..(next_job_id - 1))
      /\ next_job_id - 1 \in Nat
    <2>1. next_job_id - 1 \in Nat
        BY <1>1
    <2>2. rest \subseteq 1..(next_job_id - 1)
        BY <1>1
    <2>3. rest \ {Latest(rest)} \subseteq rest
        OBVIOUS
    <2> HIDE DEF rest
    <2> QED
        BY <2>1, <2>2, <2>3
<1>5. Latest(rest) \in Nat /\ Latest(rest \ {Latest(rest)}) \in Nat
    <2> HIDE DEF rest
    <2> QED
        BY <1>4, LatestIsGreatest
<1>6. /\ current_job' = Latest(rest)
      /\ previous_job' = Latest(rest \ {Latest(rest)})
      /\ next_job_id' = next_job_id
    BY DEF RemoveJob
<1>7. CurrentAndPrevious'
    BY <1>2, <1>6 DEF CurrentAndPrevious
<1> QED
    BY <1>1, <1>2, <1>3, <1>4, <1>5, <1>6, <1>7
    DEF JobTableInv, JobTableTypeOK, AllDoneIsDone, ExitCodeAgrees, JobsOK, JobIds

\* Both ways of writing a status replace one job by a well-formed one.
LEMMA ReplaceJobInv ==
    ASSUME JobTableInv, NEW i \in JobIds, NEW job,
           JobTypeOK(job), CompletionKept(job), ExitCodeMatches(job),
           jobs' = [jobs EXCEPT ![i] = job],
           UNCHANGED <<next_job_id, current_job, previous_job>>
    PROVE  JobTableInv'
<1>1. JobIds' = JobIds
    BY DEF JobIds
<1>2. \A k \in JobIds : jobs'[k] = IF k = i THEN job ELSE jobs[k]
    BY DEF JobIds
<1>3. jobs' = [k \in JobIds' |-> jobs'[k]]
    BY DEF JobIds
<1>4. CurrentAndPrevious'
    BY <1>1, JobTableInvParts DEF CurrentAndPrevious
<1> QED
    BY <1>1, <1>2, <1>3, <1>4
    DEF JobTableInv, JobTableTypeOK, AllDoneIsDone, ExitCodeAgrees, JobIds

LEMMA UpdateJobStatusInv ==
    ASSUME JobTableInv, NEW p \in Pid, NEW st \in JobStatus,
           UpdateJobStatus(p, st)
    PROVE  JobTableInv'
<1>1. CASE UNCHANGED jobs
    BY <1>1 DEF UpdateJobStatus, JobTableInv, JobTableTypeOK, AllDoneIsDone,
       ExitCodeAgrees, CurrentAndPrevious, JobIds
<1>2. CASE \E i \in JobsOfPid(p) :
              jobs' = [jobs EXCEPT ![i] = WithPidStatus(jobs[i], p, st)]
    <2>1. PICK i \in JobsOfPid(p) :
              jobs' = [jobs EXCEPT ![i] = WithPidStatus(jobs[i], p, st)]
        BY <1>2
    <2>2. i \in JobIds /\ p \in Range(jobs[i].pids) /\ JobTypeOK(jobs[i])
        BY JobTableInvParts DEF JobsOfPid, JobsOK, JobIds
    <2>3. /\ JobTypeOK(WithPidStatus(jobs[i], p, st))
          /\ CompletionKept(WithPidStatus(jobs[i], p, st))
          /\ ExitCodeMatches(WithPidStatus(jobs[i], p, st))
        BY <2>2, WithPidStatusOK
    <2>4. UNCHANGED <<next_job_id, current_job, previous_job>>
        BY DEF UpdateJobStatus
    <2> QED
        BY <2>1, <2>2, <2>3, <2>4, ReplaceJobInv
<1> QED
    BY <1>1, <1>2 DEF UpdateJobStatus

LEMMA SetJobStatusInv ==
    ASSUME JobTableInv, NEW i \in JobIds, jobs[i].status \notin Code,
           NEW st \in JobStatus, SetJobStatus(i, st)
    PROVE  JobTableInv'
<1>1. /\ JobTypeOK(jobs[i])
      /\ CompletionKept(jobs[i])
      /\ ExitCodeMatches(jobs[i])
    BY JobTableInvParts DEF JobsOK, JobIds
<1>2. /\ JobTypeOK(WithStatus(jobs[i], st))
      /\ CompletionKept(WithStatus(jobs[i], st))
      /\ ExitCodeMatches(WithStatus(jobs[i], st))
    BY <1>1, WithStatusOK
<1>3. /\ jobs' = [jobs EXCEPT ![i] = WithStatus(jobs[i], st)]
      /\ UNCHANGED <<next_job_id, current_job, previous_job>>
    BY DEF SetJobStatus
<1> QED
    BY <1>2, <1>3, ReplaceJobInv

LEMMA NextInv == JobTableInv /\ [JobTableNext]_jtVars => JobTableInv'
<1> SUFFICES ASSUME JobTableInv, [JobTableNext]_jtVars PROVE JobTableInv'
    OBVIOUS
<1> USE DEF JobStatus
<1>1. CASE StartJob
    BY <1>1, AddJobInv DEF StartJob
<1>2. CASE ReportPid
    BY <1>2, UpdateJobStatusInv DEF ReportPid
<1>3. CASE ResumeJob
    <2>1. PICK i \in JobIds : jobs[i].status = Stopped /\ SetJobStatus(i, Running)
        BY <1>3 DEF ResumeJob
    <2> QED
        BY <2>1, SetJobStatusInv, CodesAssumption DEF Stopped
<1>4. CASE ForegroundStopped
    <2>1. PICK i \in JobIds : IsActive(jobs[i]) /\ SetJobStatus(i, Stopped)
        BY <1>4 DEF ForegroundStopped
    <2> QED
        BY <2>1, SetJobStatusInv, CodesAssumption DEF IsActive, Running, Stopped
<1>5. CASE ForegroundDone
    <2>1. PICK i \in JobIds, c \in Code :
              jobs[i].status = Running /\ SetJobStatus(i, c)
        BY <1>5 DEF ForegroundDone
    <2> QED
        BY <2>1, SetJobStatusInv, CodesAssumption DEF Running
<1>6. CASE RemoveDone
    BY <1>6, RemoveJobInv DEF RemoveDone
<1>7. CASE UNCHANGED jtVars
    BY <1>7 DEF jtVars, JobTableInv, JobTableTypeOK, AllDoneIsDone,
       ExitCodeAgrees, CurrentAndPrevious, JobIds
<1> QED
    BY <1>1, <1>2, <1>3, <1>4, <1>5, <1>6, <1>7 DEF JobTableNext

THEOREM InvariantHolds == JobTableSpec => []JobTableInv
BY InitInv, NextInv, PTL DEF JobTableSpec

\* struct Job and struct JobTable keep their shape (jobs.rs).
THEOREM TypeCorrect == JobTableSpec => []JobTableTypeOK
<1>1. JobTableInv => JobTableTypeOK
    BY DEF JobTableInv
<1> QED
    BY <1>1, InvariantHolds, PTL

\* "%+" and "%-" are the latest two jobs however many were added and removed.
THEOREM CurrentAndPreviousHold == JobTableSpec => []CurrentAndPrevious
<1>1. JobTableInv => CurrentAndPrevious
    BY DEF JobTableInv
<1> QED
    BY <1>1, InvariantHolds, PTL

\* No mix of the two writers of a job's status hides its completion: a job all of
\* whose processes are recorded as done is Done (update_pid_status, set_job_status).
THEOREM CompletionIsNeverLost == JobTableSpec => []AllDoneIsDone
<1>1. JobTableInv => AllDoneIsDone
    BY DEF JobTableInv
<1> QED
    BY <1>1, InvariantHolds, PTL

\* exit_code is Some(c) exactly when the status is Done(c), whichever of
\* update_pid_status and set_job_status wrote the status last (jobs.rs).
THEOREM ExitCodesHold == JobTableSpec => []ExitCodeAgrees
<1>1. JobTableInv => ExitCodeAgrees
    BY DEF JobTableInv
<1> QED
    BY <1>1, InvariantHolds, PTL

\* A job number never comes to mean another job.
THEOREM NumbersAreForeverHold == JobTableSpec => NumbersAreForever
<1> DEFINE Kept ==
       /\ \A i \in JobIds' \ JobIds : i >= next_job_id
       /\ next_job_id' >= next_job_id
       /\ \A i \in JobIds' \cap JobIds :
            /\ jobs'[i].pids = jobs[i].pids
            /\ jobs'[i].command = jobs[i].command
<1>1. ASSUME JobTableInv, JobTableNext PROVE Kept
    <2>1. next_job_id \in Nat /\ JobIds \subseteq 1..(next_job_id - 1)
        BY <1>1, JobTableInvParts
    <2>2. CASE StartJob
        BY <2>1, <2>2 DEF StartJob, AddJob, JobIds
    <2>3. CASE ReportPid
        <3>1. PICK p \in Pid, s \in {Stopped} \cup Code : UpdateJobStatus(p, s)
            BY <2>3 DEF ReportPid
        <3>2. CASE UNCHANGED jobs
            BY <2>1, <3>1, <3>2 DEF UpdateJobStatus, JobIds
        <3>3. CASE \E i \in JobsOfPid(p) :
                      jobs' = [jobs EXCEPT ![i] = WithPidStatus(jobs[i], p, s)]
            BY <2>1, <3>1, <3>3 DEF UpdateJobStatus, JobIds, JobsOfPid, WithPidStatus
        <3> QED
            BY <3>1, <3>2, <3>3 DEF UpdateJobStatus
    <2>4. CASE ResumeJob \/ ForegroundStopped \/ ForegroundDone
        <3>1. PICK i \in JobIds, s \in JobStatus : SetJobStatus(i, s)
            BY <2>4 DEF ResumeJob, ForegroundStopped, ForegroundDone, JobStatus
        <3> QED
            BY <2>1, <3>1 DEF SetJobStatus, JobIds, WithStatus
    <2>5. CASE RemoveDone
        BY <2>1, <2>5 DEF RemoveDone, RemoveJob, JobIds
    <2> QED
        BY <1>1, <2>2, <2>3, <2>4, <2>5 DEF JobTableNext
<1>2. JobTableInv /\ [JobTableNext]_jtVars => [Kept]_jtVars
    BY <1>1
<1> QED
    BY <1>2, InvariantHolds, PTL DEF JobTableSpec, NumbersAreForever

LEMMA FirstMatch ==
    ASSUME JobTableInv, NEW spec, ActiveMatches(spec) # {}
    PROVE  \E i \in ActiveMatches(spec) : \A k \in ActiveMatches(spec) : i <= k
<1> DEFINE R == {ss \in Nat \X Nat : ss[1] < ss[2]}
           T == ActiveMatches(spec)
<1>1. T \subseteq Nat /\ T # {}
    BY JobTableInvParts DEF ActiveMatches
<1>2. IsWellFoundedOn(R, Nat)
    BY NatLessThanWellFounded DEF OpToRel
<1> HIDE DEF T
<1>3. PICK i \in T : \A k \in T : ~ (<<k, i>> \in R)
    BY <1>1, <1>2, WFMin
<1>4. ASSUME NEW k \in T PROVE i <= k
    <2>1. i \in Nat /\ k \in Nat
        BY <1>1
    <2>2. ~ (k < i)
        BY <1>3, <2>1
    <2> QED
        BY <2>1, <2>2
<1> QED
    BY <1>3, <1>4 DEF T

LEMMA MarksAreJobs ==
    ASSUME JobTableInv
    PROVE  /\ current_job \in JobIds \cup {NoJob}
           /\ previous_job \in (JobIds \ {current_job}) \cup {NoJob}
<1>1. next_job_id - 1 \in Nat /\ JobIds \in SUBSET (1..(next_job_id - 1))
    BY JobTableInvParts
<1>2. JobIds \ {current_job} \in SUBSET (1..(next_job_id - 1))
    BY <1>1
<1> QED
    BY <1>1, <1>2, LatestIsGreatest, JobTableInvParts DEF CurrentAndPrevious

\* Whatever a jobspec resolves to is a job of the table, an active one if it
\* was found by its command line, and "%-" is never "%+".
THEOREM JobspecsResolveHold == JobTableSpec => []JobspecsResolve
<1>1. ASSUME JobTableInv PROVE JobspecsResolve
    <2>1. ASSUME NEW spec \in Jobspecs, ParseJobspec(spec) # NoJob
          PROVE  /\ ParseJobspec(spec) \in JobIds
                 /\ spec.kind = "pattern" => IsActive(jobs[ParseJobspec(spec)])
        <3>1. CASE spec.kind = "current"
            BY <1>1, <2>1, <3>1, MarksAreJobs DEF ParseJobspec
        <3>2. CASE spec.kind = "previous"
            BY <1>1, <2>1, <3>2, MarksAreJobs DEF ParseJobspec
        <3>3. CASE spec.kind = "number"
            BY <2>1, <3>3 DEF ParseJobspec
        <3>4. CASE spec.kind = "pattern"
            <4>1. ActiveMatches(spec) # {}
                BY <2>1, <3>4 DEF ParseJobspec
            <4>2. PICK i \in ActiveMatches(spec) : \A k \in ActiveMatches(spec) : i <= k
                BY <1>1, <4>1, FirstMatch
            <4>3. ParseJobspec(spec) \in ActiveMatches(spec)
                BY <3>4, <4>1, <4>2 DEF ParseJobspec
            <4> QED
                BY <4>3 DEF ActiveMatches
        <3> QED
            BY <3>1, <3>2, <3>3, <3>4 DEF Jobspecs
    <2>2. previous_job # NoJob => previous_job # current_job
        BY <1>1, MarksAreJobs
    <2> QED
        BY <2>1, <2>2 DEF JobspecsResolve
<1> QED
    BY <1>1, InvariantHolds, PTL

-----------------------------------------------------------------------------
(* The inductive invariant *)

\* A process that has ended has an exit code; only a stopped one has a stop
\* to report.
ProcessesAgree ==
    /\ \A p \in Pid : proc[p] \in {"zombie", "reaped"} => exit[p] \in Code
    /\ \A p \in news : proc[p] = "stopped"

KernelOK ==
    /\ proc \in [Pid -> {"free", "running", "stopped", "zombie", "reaped"}]
    /\ exit \in [Pid -> Code \cup {NoCode}]
    /\ news \subseteq Pid
    /\ sigchld \in BOOLEAN
    /\ ProcessesAgree

LocalsOK ==
    /\ SIGNAL_QUEUE \in Seq({"CHLD", "INT"})
    /\ Len(SIGNAL_QUEUE) <= MaxSignalQueueSize
    /\ since_chld \in 0..MaxSignalQueueSize
    /\ pc \in PCs
    /\ targets \in Seq(Nat)
    /\ waitpids \in Seq(Pid)
    /\ waitall \in BOOLEAN
    /\ subject \in Nat
    /\ last \in Code \cup {NotAChild}
    /\ pc # "wait" => last \in Code
    /\ asked \subseteq Pid

\* While there is something to report, and nothing else sees to it, the last
\* CHLD is in the queue, with the SIGINTs that came since it behind it.
Heard ==
    Reportable # {} /\ ~ sigchld /\ ~ Reaping /\ ~ Crowded =>
        /\ since_chld < Len(SIGNAL_QUEUE)
        /\ SIGNAL_QUEUE[Len(SIGNAL_QUEUE) - since_chld] = "CHLD"

\* What a job says of its processes: one recorded as done was reaped, with
\* that code; a job that is Done has no other processes left; and unless fg,
\* which does not record what it reaps, may have done so, one that was reaped
\* is recorded.
Honest(job, pr, ex) ==
    \A p \in Range(job.pids) :
        /\ pr[p] # "free"
        /\ job.pid_status[p] \in Code => pr[p] = "reaped" /\ ex[p] = job.pid_status[p]
        /\ job.status \in Code => pr[p] = "reaped"
        /\ "fg" \notin Commands /\ pr[p] = "reaped" => job.pid_status[p] \in Code

LastCode(job, ex) == job.status \in Code => job.status = ex[LastPid(job)]

JobsHonest ==
    \A i \in JobIds : /\ Honest(jobs[i], proc, exit)
                      /\ pc # "panicked" => LastCode(jobs[i], exit)

\* No process is in two jobs.
Disjoint(js) ==
    \A i, k \in DOMAIN js :
        i # k => \A p \in Range(js[i].pids) : p \notin Range(js[k].pids)

\* The process of a foreground command is in no job.
RunsNoJob ==
    pc = "run" => /\ waitpids # <<>>
                  /\ \A i \in JobIds : Head(waitpids) \notin Range(jobs[i].pids)

\* While wait runs, the jobs it has to wait for are in the table.
WaitTargets == pc = "wait" => targets \in Seq(JobIds)

Distinct(s) == \A i, j \in DOMAIN s : s[i] = s[j] => i = j

\* Of the processes that had not been reaped when wait was given, those of
\* pids still have not.
LeftToReap(pids, as, pr) == \A p \in Range(pids) : p \in as => pr[p] # "reaped"

\* wait %n before its job, within it, and after it: as long as processes are
\* left, the last of the pipeline is among them, what was passed is recorded
\* as done, and the others are left to wait.  It may end before, with 127, at
\* a process that was reaped before it began.
BeforeSubject ==
    /\ targets = <<subject>>
    /\ waitpids = <<>>
    /\ LeftToReap(jobs[subject].pids, asked, proc)

WithinSubject ==
    /\ targets = <<>>
    /\ waitpids # <<>>
    /\ Distinct(waitpids)
    /\ waitpids[Len(waitpids)] = LastPid(jobs[subject])
    /\ Range(waitpids) \subseteq Range(jobs[subject].pids)
    /\ \/ jobs[subject].status \in Code
       \/ /\ LeftToReap(waitpids, asked, proc)
          /\ \A p \in Range(jobs[subject].pids) :
                 p \in Range(waitpids) \/ jobs[subject].pid_status[p] \in Code

GaveUpSubject ==
    /\ targets = <<>>
    /\ waitpids = <<>>
    /\ jobs[subject].status \notin Code
    /\ last = NotAChild
    /\ ~ Range(jobs[subject].pids) \subseteq asked

AfterSubject ==
    /\ targets = <<>>
    /\ waitpids = <<>>
    /\ jobs[subject].status \in Code
    /\ last = jobs[subject].status

WaitSubject ==
    pc = "wait" /\ subject # NoJob =>
        /\ subject \in JobIds
        /\ ~ waitall
        /\ BeforeSubject \/ WithinSubject \/ AfterSubject \/ GaveUpSubject

\* While fg runs, its job is active, and unless one of its processes was
\* seen stopped, those it has waited for are reaped.
FgSubject ==
    pc = "fg" =>
        /\ "fg" \in Commands
        /\ subject \in JobIds
        /\ IsActive(jobs[subject])
        /\ jobs[subject].status # Stopped =>
             \A p \in Range(jobs[subject].pids) :
                 p \in Range(waitpids) \/ proc[p] = "reaped"

ControlInv ==
    /\ KernelOK
    /\ LocalsOK
    /\ Heard
    /\ JobsHonest
    /\ Disjoint(jobs)
    /\ RunsNoJob
    /\ WaitTargets
    /\ WaitSubject
    /\ FgSubject

IInv == JobTableInv /\ ControlInv

-----------------------------------------------------------------------------
(* What the kernel does to processes *)

\* The processes go on, and none but those of reaped are reaped.
Moves(pr, ex, pr2, ex2, reaped) ==
    \A p \in Pid :
        /\ pr[p] # "free" => pr2[p] # "free"
        /\ pr[p] = "reaped" => pr2[p] = "reaped" /\ ex2[p] = ex[p]
        /\ pr2[p] = "reaped" => pr[p] = "reaped" \/ p \in reaped

\* A step of the kernel does not hide a report without a SIGCHLD.
KernelStep(reaped) ==
    /\ KernelOK'
    /\ Moves(proc, exit, proc', exit', reaped)
    /\ sigchld => sigchld'
    /\ Reportable' # {} => Reportable # {} \/ sigchld'

LEMMA NoKernelStep ==
    ASSUME KernelOK, UNCHANGED kernelVars
    PROVE  KernelStep({})
BY DEF KernelOK, KernelStep, Moves, kernelVars, ProcessesAgree, Reportable

LEMMA SignalStep ==
    ASSUME KernelOK, NEW pids \in SUBSET Pid, NEW sig \in {"STOP", "CONT", "KILL"},
           Signal(pids, sig)
    PROVE  KernelStep({})
<1> DEFINE hit == {p \in pids : \/ proc[p] = "running" /\ sig \in {"STOP", "KILL"}
                                \/ proc[p] = "stopped" /\ sig \in {"CONT", "KILL"}}
<1>1. /\ proc' = [p \in Pid |->
                     IF p \notin hit THEN proc[p]
                     ELSE CASE sig = "STOP" -> "stopped"
                            [] sig = "CONT" -> "running"
                            [] sig = "KILL" -> "zombie"]
      /\ exit' = [p \in Pid |->
                     IF p \in hit /\ sig = "KILL" THEN Signalled ELSE exit[p]]
      /\ news' = IF sig = "STOP" THEN news \cup hit ELSE news \ hit
      /\ sigchld' = (sigchld \/ hit # {})
    BY DEF Signal
<1>2. hit \subseteq Pid /\ \A p \in hit : proc[p] \in {"running", "stopped"}
    OBVIOUS
<1> HIDE DEF hit
<1>3. /\ proc' \in [Pid -> {"free", "running", "stopped", "zombie", "reaped"}]
      /\ exit' \in [Pid -> Code \cup {NoCode}]
      /\ news' \subseteq Pid
    BY <1>1, <1>2, JobControlAssumption DEF KernelOK
<1>4. sigchld' \in BOOLEAN /\ (sigchld => sigchld')
    BY <1>1 DEF KernelOK
<1>5. \A p \in Pid : proc'[p] \in {"zombie", "reaped"} => exit'[p] \in Code
    BY <1>1, <1>2, JobControlAssumption DEF KernelOK, ProcessesAgree
<1>6. \A p \in news' : proc'[p] = "stopped"
    BY <1>1, <1>2 DEF KernelOK, ProcessesAgree
<1>7. Moves(proc, exit, proc', exit', {})
    BY <1>1, <1>2 DEF Moves
<1>8. Reportable' # {} => Reportable # {} \/ sigchld'
    <2>1. CASE hit = {}
        BY <2>1, <1>1, <1>2 DEF Reportable, KernelOK
    <2>2. CASE hit # {}
        BY <2>2, <1>1
    <2> QED
        BY <2>1, <2>2
<1> QED
    BY <1>3, <1>4, <1>5, <1>6, <1>7, <1>8 DEF KernelStep, KernelOK, ProcessesAgree

LEMMA ReapStep ==
    ASSUME KernelOK, NEW p \in Pid, Reap(p)
    PROVE  KernelStep({p}) /\ exit[p] \in Code /\ proc'[p] = "reaped" /\ exit' = exit
<1>1. /\ proc[p] = "zombie"
      /\ proc' = [proc EXCEPT ![p] = "reaped"]
      /\ UNCHANGED <<exit, news, sigchld>>
    BY DEF Reap
<1>2. KernelOK'
    BY <1>1 DEF KernelOK, ProcessesAgree
<1>3. Moves(proc, exit, proc', exit', {p})
    BY <1>1 DEF Moves, KernelOK
<1>4. Reportable # {}
    BY <1>1 DEF Reportable
<1> QED
    BY <1>1, <1>2, <1>3, <1>4 DEF KernelStep, KernelOK, ProcessesAgree

LEMMA ReportStopStep ==
    ASSUME KernelOK, NEW p \in Pid, ReportStop(p)
    PROVE  KernelStep({}) /\ proc[p] = "stopped" /\ UNCHANGED <<proc, exit>>
<1>1. /\ p \in news
      /\ news' = news \ {p}
      /\ UNCHANGED <<proc, exit, sigchld>>
    BY DEF ReportStop
<1>2. KernelOK' /\ proc[p] = "stopped"
    BY <1>1 DEF KernelOK, ProcessesAgree
<1>3. Moves(proc, exit, proc', exit', {})
    BY <1>1 DEF Moves
<1>4. Reportable # {}
    BY <1>1 DEF Reportable
<1> QED
    BY <1>1, <1>2, <1>3, <1>4 DEF KernelStep

LEMMA SpawnStep ==
    ASSUME KernelOK, NEW pids \in SUBSET Pid, \A p \in pids : proc[p] = "free",
           proc' = [p \in Pid |-> IF p \in pids THEN "running" ELSE proc[p]],
           UNCHANGED <<exit, news, sigchld>>
    PROVE  KernelStep({})
<1>1. KernelOK'
    BY DEF KernelOK, ProcessesAgree
<1>2. Moves(proc, exit, proc', exit', {})
    BY DEF Moves
<1>3. Reportable' \subseteq Reportable
    BY DEF Reportable
<1> QED
    BY <1>1, <1>2, <1>3 DEF KernelStep

LEMMA ChildStep ==
    ASSUME KernelOK, Kernel
    PROVE  KernelStep({}) /\ sigchld' /\ UNCHANGED <<jtVars, queueVars, pc, waitVars>>
<1>1. ASSUME NEW p \in Pid, ProcStop(p)
      PROVE  KernelStep({}) /\ sigchld' /\ UNCHANGED <<jtVars, queueVars, pc, waitVars>>
    <2>1. /\ proc[p] = "running"
          /\ proc' = [proc EXCEPT ![p] = "stopped"]
          /\ news' = news \cup {p}
          /\ sigchld' = TRUE
          /\ exit' = exit
        BY <1>1 DEF ProcStop
    <2>2. KernelOK'
        BY <2>1 DEF KernelOK, ProcessesAgree
    <2>3. Moves(proc, exit, proc', exit', {})
        BY <2>1 DEF Moves, KernelOK
    <2> QED
        BY <1>1, <2>1, <2>2, <2>3 DEF KernelStep, ProcStop
<1>2. ASSUME NEW p \in Pid, NEW c \in Code, ProcExit(p, c)
      PROVE  KernelStep({}) /\ sigchld' /\ UNCHANGED <<jtVars, queueVars, pc, waitVars>>
    <2>1. /\ proc[p] = "running"
          /\ proc' = [proc EXCEPT ![p] = "zombie"]
          /\ exit' = [exit EXCEPT ![p] = c]
          /\ sigchld' = TRUE
          /\ news' = news
        BY <1>2 DEF ProcExit
    <2>2. KernelOK'
        BY <2>1 DEF KernelOK, ProcessesAgree
    <2>3. Moves(proc, exit, proc', exit', {})
        BY <2>1 DEF Moves, KernelOK
    <2> QED
        BY <1>2, <2>1, <2>2, <2>3 DEF KernelStep, ProcExit
<1> QED
    BY <1>1, <1>2 DEF Kernel

-----------------------------------------------------------------------------
(* What the steps do to jobs *)

LEMMA JobShape ==
    ASSUME JobTableInv, NEW i \in JobIds
    PROVE  /\ JobTypeOK(jobs[i])
           /\ CompletionKept(jobs[i])
           /\ jobs[i].pids \in Pipelines
           /\ jobs[i].pids \in Seq(Pid)
           /\ jobs[i].pids # <<>>
           /\ jobs[i].status \in JobStatus
           /\ jobs[i].pid_status \in [Range(jobs[i].pids) -> JobStatus]
           /\ Range(jobs[i].pids) \in SUBSET Pid
           /\ LastPid(jobs[i]) \in Range(jobs[i].pids)
<1>1. JobTypeOK(jobs[i]) /\ CompletionKept(jobs[i])
    BY JobTableInvParts DEF JobsOK, JobIds
<1>2. jobs[i].pids \in Pipelines /\ jobs[i].status \in JobStatus
    BY <1>1 DEF JobTypeOK, Jobs
<1>3. jobs[i].pid_status \in [Range(jobs[i].pids) -> JobStatus]
    <2>1. PICK S \in SUBSET Pid : jobs[i].pid_status \in [S -> JobStatus]
        BY <1>1 DEF JobTypeOK, Jobs
    <2> QED
        BY <1>1, <2>1 DEF JobTypeOK
<1>4. /\ jobs[i].pids \in Seq(Pid)
      /\ Len(jobs[i].pids) # 0
      /\ Range(jobs[i].pids) \in SUBSET Pid
      /\ LastPid(jobs[i]) \in Range(jobs[i].pids)
    BY <1>2, PipelineShape DEF LastPid
<1> QED
    BY <1>1, <1>2, <1>3, <1>4

\* A job stays as honest as it was while its processes go on.
LEMMA StaysHonest ==
    ASSUME NEW job, Range(job.pids) \subseteq Pid, LastPid(job) \in Range(job.pids),
           NEW pr, NEW ex, NEW pr2, NEW ex2, NEW reaped,
           Honest(job, pr, ex), Moves(pr, ex, pr2, ex2, reaped),
           "fg" \in Commands \/ \A p \in Range(job.pids) : p \notin reaped
    PROVE  /\ Honest(job, pr2, ex2)
           /\ LastCode(job, ex) => LastCode(job, ex2)
<1>1. Honest(job, pr2, ex2)
    BY DEF Honest, Moves
<1>2. LastCode(job, ex) => LastCode(job, ex2)
    BY DEF Honest, LastCode, Moves
<1> QED
    BY <1>1, <1>2

\* A step that leaves the table alone.
LEMMA JobsKept ==
    ASSUME JobTableInv, JobsHonest, Disjoint(jobs), UNCHANGED jobs,
           NEW reaped, KernelStep(reaped), pc = "panicked" => pc' = "panicked",
           \/ "fg" \in Commands
           \/ \A i \in JobIds : \A p \in Range(jobs[i].pids) : p \notin reaped
    PROVE  JobsHonest' /\ Disjoint(jobs')
<1>1. JobIds' = JobIds /\ \A i \in JobIds : jobs'[i] = jobs[i]
    BY DEF JobIds
<1>2. ASSUME NEW i \in JobIds
      PROVE  /\ Honest(jobs[i], proc', exit')
             /\ pc' # "panicked" => LastCode(jobs[i], exit')
    BY JobShape, StaysHonest DEF JobsHonest, KernelStep
<1> QED
    BY <1>1, <1>2 DEF JobsHonest

\* A step that replaces one job by one of the same processes.
LEMMA JobReplaced ==
    ASSUME JobTableInv, JobsHonest, Disjoint(jobs),
           NEW i \in JobIds, NEW job, jobs' = [jobs EXCEPT ![i] = job],
           job.pids = jobs[i].pids, Honest(job, proc', exit'),
           pc' # "panicked" => LastCode(job, exit'),
           NEW reaped, KernelStep(reaped), pc = "panicked" => pc' = "panicked",
           "fg" \in Commands \/ reaped \subseteq Range(jobs[i].pids)
    PROVE  JobsHonest' /\ Disjoint(jobs') /\ JobIds' = JobIds
<1>1. JobIds' = JobIds
    BY DEF JobIds
<1>2. \A k \in JobIds : jobs'[k] = IF k = i THEN job ELSE jobs[k]
    BY DEF JobIds
<1>3. ASSUME NEW k \in JobIds, k # i
      PROVE  /\ Honest(jobs[k], proc', exit')
             /\ pc' # "panicked" => LastCode(jobs[k], exit')
    <2>1. "fg" \in Commands \/ \A p \in Range(jobs[k].pids) : p \notin reaped
        BY <1>3 DEF Disjoint, JobIds
    <2> QED
        BY <2>1, JobShape, StaysHonest DEF JobsHonest, KernelStep
<1>4. JobsHonest'
    BY <1>1, <1>2, <1>3 DEF JobsHonest
<1>5. Disjoint(jobs')
    BY <1>1, <1>2 DEF Disjoint, JobIds
<1> QED
    BY <1>1, <1>4, <1>5

\* bg and fg overwrite the status of a job that is not done.
LEMMA StatusOverwritten ==
    ASSUME JobTableInv, JobsHonest, Disjoint(jobs),
           NEW i \in JobIds, NEW st \in {Running, Stopped}, SetJobStatus(i, st),
           KernelStep({}), pc = "panicked" => pc' = "panicked"
    PROVE  /\ JobsHonest' /\ Disjoint(jobs') /\ JobIds' = JobIds
           /\ jobs'[i].pids = jobs[i].pids
           /\ jobs'[i].status = st
<1> DEFINE job == WithStatus(jobs[i], st)
<1>1. /\ job.pids = jobs[i].pids
      /\ job.pid_status = jobs[i].pid_status
      /\ job.status = st
      /\ st \notin Code
    BY CodesAssumption DEF WithStatus, Running, Stopped
<1>2. Honest(jobs[i], proc', exit')
    BY JobShape, StaysHonest DEF JobsHonest, KernelStep
<1>3. Honest(job, proc', exit') /\ LastCode(job, exit')
    <2> HIDE DEF job
    <2> QED
        BY <1>1, <1>2 DEF Honest, LastCode
<1>4. jobs' = [jobs EXCEPT ![i] = job]
    BY DEF SetJobStatus
<1>5. jobs'[i] = job
    BY <1>4 DEF JobIds
<1> HIDE DEF job
<1>6. JobsHonest' /\ Disjoint(jobs') /\ JobIds' = JobIds
    BY <1>1, <1>3, <1>4, JobReplaced
<1> QED
    BY <1>1, <1>5, <1>6

LEMMA AggregateCode ==
    ASSUME NEW pids \in Pipelines, NEW ps \in [Range(pids) -> JobStatus],
           Aggregate(pids, ps) \in Code
    PROVE  /\ \A p \in Range(pids) : ps[p] \in Code
           /\ Aggregate(pids, ps) = ps[pids[Len(pids)]]
BY CodesAssumption DEF Aggregate, JobStatus, Running, Stopped

\* A report that says what is the case is recorded in the one job it is about.
LEMMA ReportRecorded ==
    ASSUME JobTableInv, JobsHonest, Disjoint(jobs),
           NEW p \in Pid, NEW st \in JobStatus, UpdateJobStatus(p, st),
           NEW reaped \in SUBSET {p}, KernelStep(reaped),
           st \in Code => proc'[p] = "reaped" /\ exit'[p] = st,
           st \notin Code => proc'[p] # "reaped",
           pc = "panicked" => pc' = "panicked"
    PROVE  /\ JobsHonest' /\ Disjoint(jobs') /\ JobIds' = JobIds
           /\ \A k \in JobIds :
                IF p \in Range(jobs[k].pids)
                THEN jobs'[k] = WithPidStatus(jobs[k], p, st)
                ELSE jobs'[k] = jobs[k]
<1>1. CASE JobsOfPid(p) = {}
    <2>1. UNCHANGED jobs /\ \A k \in JobIds : p \notin Range(jobs[k].pids)
        BY <1>1 DEF UpdateJobStatus, JobsOfPid
    <2>2. JobsHonest' /\ Disjoint(jobs')
        BY <2>1, JobsKept
    <2> QED
        BY <2>1, <2>2 DEF JobIds
<1>2. CASE JobsOfPid(p) # {}
    <2>1. PICK i \in JobsOfPid(p) :
              jobs' = [jobs EXCEPT ![i] = WithPidStatus(jobs[i], p, st)]
        BY <1>2 DEF UpdateJobStatus
    <2>2. i \in JobIds /\ p \in Range(jobs[i].pids)
        BY DEF JobsOfPid
    <2> DEFINE job == WithPidStatus(jobs[i], p, st)
               ps  == [jobs[i].pid_status EXCEPT ![p] = st]
    <2>3. /\ job.pids = jobs[i].pids
          /\ job.pid_status = ps
          /\ job.status = Aggregate(jobs[i].pids, ps)
        BY DEF WithPidStatus
    <2>4. /\ jobs[i].pids \in Pipelines
          /\ ps \in [Range(jobs[i].pids) -> JobStatus]
          /\ Range(jobs[i].pids) \subseteq Pid
          /\ LastPid(jobs[i]) \in Range(jobs[i].pids)
          /\ \A q \in Range(jobs[i].pids) :
               ps[q] = IF q = p THEN st ELSE jobs[i].pid_status[q]
        BY <2>2, JobShape
    <2>5. Honest(jobs[i], proc, exit) /\ Moves(proc, exit, proc', exit', reaped)
        BY <2>2 DEF JobsHonest, KernelStep
    <2>6. \A q \in Range(jobs[i].pids) :
              /\ proc'[q] # "free"
              /\ ps[q] \in Code => proc'[q] = "reaped" /\ exit'[q] = ps[q]
              /\ "fg" \notin Commands /\ proc'[q] = "reaped" => ps[q] \in Code
        BY <2>4, <2>5 DEF Honest, Moves
    <2>7. job.status \in Code =>
              /\ \A q \in Range(jobs[i].pids) : ps[q] \in Code
              /\ job.status = ps[LastPid(jobs[i])]
        BY <2>3, <2>4, AggregateCode DEF LastPid
    <2> HIDE DEF job, ps
    <2>8. Honest(job, proc', exit')
        BY <2>3, <2>6, <2>7 DEF Honest
    <2>9. LastCode(job, exit')
        BY <2>3, <2>4, <2>6, <2>7 DEF LastCode, LastPid
    <2>10. reaped \subseteq Range(jobs[i].pids)
        BY <2>2
    <2>11. jobs' = [jobs EXCEPT ![i] = job]
        BY <2>1 DEF job
    <2>12. JobsHonest' /\ Disjoint(jobs') /\ JobIds' = JobIds
        BY <2>2, <2>3, <2>8, <2>9, <2>10, <2>11, JobReplaced
    <2>13. \A k \in JobIds : k # i => p \notin Range(jobs[k].pids)
        BY <2>2 DEF Disjoint, JobIds
    <2>14. \A k \in JobIds : jobs'[k] = IF k = i THEN job ELSE jobs[k]
        BY <2>11 DEF JobIds
    <2> QED
        BY <2>2, <2>12, <2>13, <2>14 DEF job
<1> QED
    BY <1>1, <1>2

LEMMA ExitRecorded ==
    ASSUME JobTableInv, KernelOK, JobsHonest, Disjoint(jobs),
           NEW p \in Pid, Reap(p), UpdateJobStatus(p, exit[p]),
           pc = "panicked" => pc' = "panicked"
    PROVE  /\ KernelStep({p})
           /\ exit' = exit /\ exit[p] \in Code
           /\ JobsHonest' /\ Disjoint(jobs') /\ JobIds' = JobIds
           /\ \A k \in JobIds :
                IF p \in Range(jobs[k].pids)
                THEN jobs'[k] = WithPidStatus(jobs[k], p, exit[p])
                ELSE jobs'[k] = jobs[k]
<1>1. KernelStep({p}) /\ exit[p] \in Code /\ proc'[p] = "reaped" /\ exit' = exit
    BY ReapStep
<1>2. exit[p] \in JobStatus /\ {p} \in SUBSET {p}
    BY <1>1 DEF JobStatus
<1> QED
    BY <1>1, <1>2, ReportRecorded

LEMMA StopRecorded ==
    ASSUME JobTableInv, KernelOK, JobsHonest, Disjoint(jobs),
           NEW p \in Pid, ReportStop(p), UpdateJobStatus(p, Stopped),
           pc = "panicked" => pc' = "panicked"
    PROVE  KernelStep({}) /\ JobsHonest' /\ Disjoint(jobs') /\ JobIds' = JobIds
<1>1. KernelStep({}) /\ proc[p] = "stopped" /\ UNCHANGED <<proc, exit>>
    BY ReportStopStep
<1>2. Stopped \in JobStatus /\ Stopped \notin Code /\ {} \in SUBSET {p}
    BY CodesAssumption DEF JobStatus, Stopped
<1> QED
    BY <1>1, <1>2, ReportRecorded

\* A new job has processes of its own, since they were free.
LEMMA JobAdded ==
    ASSUME JobTableInv, KernelOK, JobsHonest, Disjoint(jobs), pc # "panicked",
           NEW pids \in Pipelines, NEW c \in Command, AddJob(pids, c),
           \A p \in Range(pids) : proc[p] = "free",
           proc' = [p \in Pid |-> IF p \in Range(pids) THEN "running" ELSE proc[p]],
           UNCHANGED <<exit, news, sigchld>>
    PROVE  KernelStep({}) /\ JobsHonest' /\ Disjoint(jobs')
<1> DEFINE id == next_job_id
           job == NewJob(pids, c)
<1>1. Range(pids) \in SUBSET Pid /\ LastPid(job) \in Range(pids)
    BY PipelineShape DEF NewJob, LastPid
<1>2. KernelStep({})
    BY <1>1, SpawnStep
<1>3. id \notin JobIds
    BY JobTableInvParts
<1>4. /\ JobIds' = JobIds \cup {id}
      /\ \A i \in JobIds : jobs'[i] = jobs[i]
      /\ jobs'[id] = job
    BY <1>3 DEF AddJob, JobIds
<1>5. /\ job.pids = pids
      /\ job.status \notin Code
      /\ \A p \in Range(pids) : job.pid_status[p] \notin Code
    BY CodesAssumption DEF NewJob, Running
<1> HIDE DEF job
<1>6. Honest(job, proc', exit') /\ LastCode(job, exit')
    BY <1>1, <1>5 DEF Honest, LastCode
<1>7. ASSUME NEW i \in JobIds
      PROVE  /\ Honest(jobs[i], proc', exit')
             /\ pc' # "panicked" => LastCode(jobs[i], exit')
    BY <1>2, JobShape, StaysHonest DEF JobsHonest, KernelStep
<1>8. JobsHonest'
    BY <1>4, <1>6, <1>7 DEF JobsHonest
<1>9. \A i \in JobIds : \A p \in Range(jobs[i].pids) : proc[p] # "free"
    BY DEF JobsHonest, Honest
<1>10. Disjoint(jobs')
    BY <1>3, <1>4, <1>5, <1>9 DEF Disjoint, JobIds
<1> QED
    BY <1>2, <1>8, <1>10

LEMMA JobRemoved ==
    ASSUME JobTableInv, KernelOK, JobsHonest, Disjoint(jobs), pc # "panicked",
           NEW id \in JobIds, RemoveJob(id), UNCHANGED kernelVars
    PROVE  KernelStep({}) /\ JobsHonest' /\ Disjoint(jobs')
<1>1. JobIds' = JobIds \ {id} /\ \A i \in JobIds' : jobs'[i] = jobs[i]
    BY DEF RemoveJob, JobIds
<1>2. JobsHonest'
    BY <1>1 DEF JobsHonest, Honest, LastCode, kernelVars
<1>3. Disjoint(jobs')
    BY <1>1 DEF Disjoint, JobIds
<1> QED
    BY <1>2, <1>3, NoKernelStep

-----------------------------------------------------------------------------
(* The two threads, up to the prompt *)

LEMMA AfterCommandType == AfterCommand \in {"after", "top"}
BY DEF AfterCommand

LEMMA ReportsKept ==
    ASSUME Heard, NEW reaped, KernelStep(reaped), UNCHANGED queueVars,
           Reaping => Reaping'
    PROVE  Heard'
BY DEF Heard, Crowded, KernelStep, queueVars

\* The queue is not longer for one more event, which is the last of it; the
\* others stay, one place further to the front if it was full.
LEMMA QueueWithEvent ==
    ASSUME LocalsOK, NEW event \in {"CHLD", "INT"}, SIGNAL_QUEUE' = QueueWith(event)
    PROVE  /\ SIGNAL_QUEUE' \in Seq({"CHLD", "INT"})
           /\ Len(SIGNAL_QUEUE') \in 1..MaxSignalQueueSize
           /\ Len(SIGNAL_QUEUE) <= Len(SIGNAL_QUEUE')
           /\ Len(SIGNAL_QUEUE) < MaxSignalQueueSize
                 => Len(SIGNAL_QUEUE') = Len(SIGNAL_QUEUE) + 1
           /\ SIGNAL_QUEUE'[Len(SIGNAL_QUEUE')] = event
           /\ \A n \in 0..(Len(SIGNAL_QUEUE) - 1) :
                 n + 1 < Len(SIGNAL_QUEUE') =>
                     SIGNAL_QUEUE'[Len(SIGNAL_QUEUE') - (n + 1)]
                         = SIGNAL_QUEUE[Len(SIGNAL_QUEUE) - n]
<1> DEFINE q == SIGNAL_QUEUE
           rest == IF Len(q) >= MaxSignalQueueSize THEN Tail(q) ELSE q
<1>1. q \in Seq({"CHLD", "INT"}) /\ Len(q) \in 0..MaxSignalQueueSize
    BY JobControlAssumption DEF LocalsOK
<1>2. SIGNAL_QUEUE' = Append(rest, event)
    BY DEF QueueWith
<1> HIDE DEF q
<1>3. CASE Len(q) < MaxSignalQueueSize
    <2>1. rest = q
        BY <1>1, <1>3, JobControlAssumption
    <2>2. SIGNAL_QUEUE' = Append(q, event)
        BY <1>2, <2>1
    <2> QED
        BY <1>1, <1>3, <2>2, JobControlAssumption DEF q
<1>4. CASE Len(q) = MaxSignalQueueSize
    <2>1. rest = Tail(q) /\ q # <<>>
        BY <1>1, <1>4, JobControlAssumption
    <2>2. /\ Tail(q) \in Seq({"CHLD", "INT"})
          /\ Len(Tail(q)) = Len(q) - 1
          /\ \A k \in 1..(Len(q) - 1) : Tail(q)[k] = q[k + 1]
        BY <1>1, <2>1
    <2>3. SIGNAL_QUEUE' = Append(Tail(q), event)
        BY <1>2, <2>1
    <2>4. /\ SIGNAL_QUEUE' \in Seq({"CHLD", "INT"})
          /\ Len(SIGNAL_QUEUE') = Len(q)
          /\ SIGNAL_QUEUE'[Len(q)] = event
          /\ \A k \in 1..(Len(q) - 1) : SIGNAL_QUEUE'[k] = q[k + 1]
        BY <1>1, <2>2, <2>3
    <2> QED
        BY <1>1, <1>4, <2>4, JobControlAssumption DEF q
<1> QED
    BY <1>1, <1>3, <1>4, JobControlAssumption

\* A step that does not lead into a command.
LEMMA BetweenCommands ==
    ASSUME KernelOK', Heard', JobsHonest', Disjoint(jobs'), LocalsOK',
           pc' \notin {"run", "wait", "fg"}
    PROVE  ControlInv'
BY DEF ControlInv, RunsNoJob, WaitTargets, WaitSubject, FgSubject

LEMMA KernelKeeps ==
    ASSUME IInv, Kernel
    PROVE  ControlInv'
<1>1. KernelStep({}) /\ sigchld' /\ UNCHANGED <<jtVars, queueVars, pc, waitVars>>
    BY ChildStep DEF IInv, ControlInv
<1>2. JobsHonest' /\ Disjoint(jobs') /\ JobIds' = JobIds
    BY <1>1, JobsKept DEF IInv, ControlInv, jtVars, JobIds
<1>3. KernelOK' /\ Heard'
    BY <1>1 DEF KernelStep, Heard
<1>4. LocalsOK' /\ RunsNoJob' /\ WaitTargets'
    BY <1>1, <1>2 DEF IInv, ControlInv, jtVars, queueVars, waitVars, LocalsOK, RunsNoJob,
       WaitTargets
<1>5. WaitSubject'
    <2>1. \A p \in Pid : proc'[p] = "reaped" => proc[p] = "reaped"
        BY <1>1 DEF KernelStep, Moves
    <2>2. \A pids : LeftToReap(pids, asked, proc) => LeftToReap(pids, asked, proc')
        BY <2>1 DEF LeftToReap, IInv, ControlInv, LocalsOK
    <2> QED
        BY <1>1, <1>2, <2>2 DEF IInv, ControlInv, jtVars, waitVars, WaitSubject,
           BeforeSubject, WithinSubject, AfterSubject, GaveUpSubject
<1>6. FgSubject'
    <2> SUFFICES ASSUME pc' = "fg" PROVE FgSubject'
        BY DEF FgSubject
    <2>1. /\ subject' = subject /\ jobs' = jobs /\ waitpids' = waitpids
          /\ FgSubject /\ pc = "fg"
        BY <1>1 DEF IInv, ControlInv, jtVars, waitVars
    <2>2. \A p \in Pid : proc[p] = "reaped" => proc'[p] = "reaped"
        BY <1>1 DEF KernelStep, Moves
    <2>3. Range(jobs[subject].pids) \subseteq Pid
        BY <2>1, JobShape DEF FgSubject, IInv
    <2> QED
        BY <1>2, <2>1, <2>2, <2>3 DEF FgSubject
<1> QED
    BY <1>2, <1>3, <1>4, <1>5, <1>6 DEF ControlInv

LEMMA SignalThreadKeeps ==
    ASSUME IInv, SignalThread \/ Interrupt
    PROVE  ControlInv'
<1>1. /\ UNCHANGED <<jobs, proc, exit, news, pc, targets, waitpids, waitall,
                     subject, last, asked>>
      /\ JobIds' = JobIds
      /\ sigchld' \in BOOLEAN
    BY DEF SignalThread, Interrupt, jtVars, kernelVars, waitVars, JobIds, IInv,
       ControlInv, KernelOK
<1>2. KernelOK' /\ LocalsOK' /\ Heard'
    <2>1. LocalsOK /\ Heard
        BY DEF IInv, ControlInv
    <2>2. CASE SignalThread
        <3>1. SIGNAL_QUEUE' = QueueWith("CHLD") /\ since_chld' = 0
            BY <2>2 DEF SignalThread
        <3>2. /\ SIGNAL_QUEUE' \in Seq({"CHLD", "INT"})
              /\ Len(SIGNAL_QUEUE') \in 1..MaxSignalQueueSize
              /\ SIGNAL_QUEUE'[Len(SIGNAL_QUEUE')] = "CHLD"
            BY <2>1, <3>1, QueueWithEvent
        <3>3. LocalsOK'
            BY <1>1, <2>1, <3>1, <3>2, JobControlAssumption DEF LocalsOK
        <3>4. Heard'
            BY <3>1, <3>2 DEF Heard
        <3> QED
            BY <1>1, <3>3, <3>4 DEF IInv, ControlInv, KernelOK, ProcessesAgree
    <2>3. CASE Interrupt
        <3>1. /\ SIGNAL_QUEUE' = QueueWith("INT")
              /\ since_chld' = IF since_chld < MaxSignalQueueSize
                               THEN since_chld + 1 ELSE since_chld
              /\ sigchld' = sigchld
            BY <2>3 DEF Interrupt, kernelVars
        <3>2. /\ SIGNAL_QUEUE' \in Seq({"CHLD", "INT"})
              /\ Len(SIGNAL_QUEUE') \in 1..MaxSignalQueueSize
              /\ Len(SIGNAL_QUEUE) < MaxSignalQueueSize
                    => Len(SIGNAL_QUEUE') = Len(SIGNAL_QUEUE) + 1
              /\ Len(SIGNAL_QUEUE) <= Len(SIGNAL_QUEUE')
              /\ \A n \in 0..(Len(SIGNAL_QUEUE) - 1) :
                    n + 1 < Len(SIGNAL_QUEUE') =>
                        SIGNAL_QUEUE'[Len(SIGNAL_QUEUE') - (n + 1)]
                            = SIGNAL_QUEUE[Len(SIGNAL_QUEUE) - n]
            BY <2>1, <3>1, QueueWithEvent
        <3>3. LocalsOK'
            BY <1>1, <2>1, <3>1, <3>2, JobControlAssumption DEF LocalsOK
        <3>4. Heard'
            <4> SUFFICES ASSUME (Reportable # {})', ~ sigchld', ~ Reaping', ~ Crowded'
                         PROVE  /\ since_chld' < Len(SIGNAL_QUEUE')
                                /\ SIGNAL_QUEUE'[Len(SIGNAL_QUEUE') - since_chld'] = "CHLD"
                BY DEF Heard
            <4>1. Reportable # {} /\ ~ sigchld /\ ~ Reaping
                BY <1>1, <3>1 DEF Reportable, Reaping
            <4>2. since_chld \in Nat /\ since_chld <= MaxSignalQueueSize
                BY <2>1, JobControlAssumption DEF LocalsOK
            <4>3. since_chld' = since_chld + 1 /\ since_chld + 1 < MaxSignalQueueSize
                BY <3>1, <4>2, JobControlAssumption DEF Crowded
            <4>4. /\ since_chld < Len(SIGNAL_QUEUE)
                  /\ SIGNAL_QUEUE[Len(SIGNAL_QUEUE) - since_chld] = "CHLD"
                BY <2>1, <4>1, <4>2, <4>3, JobControlAssumption DEF Heard, Crowded
            <4>5. Len(SIGNAL_QUEUE) \in Nat /\ Len(SIGNAL_QUEUE) <= MaxSignalQueueSize
                BY <2>1 DEF LocalsOK
            <4>6. since_chld + 1 < Len(SIGNAL_QUEUE')
                BY <3>2, <4>2, <4>3, <4>4, <4>5, JobControlAssumption
            <4> QED
                BY <3>2, <4>2, <4>3, <4>4, <4>5, <4>6
        <3> QED
            BY <1>1, <3>3, <3>4 DEF IInv, ControlInv, KernelOK, ProcessesAgree
    <2> QED
        BY <2>2, <2>3
<1>3. JobsHonest' /\ Disjoint(jobs')
    BY <1>1 DEF IInv, ControlInv, JobsHonest
<1>4. RunsNoJob' /\ WaitTargets' /\ FgSubject'
    BY <1>1 DEF IInv, ControlInv, RunsNoJob, WaitTargets, FgSubject
<1>5. WaitSubject'
    BY <1>1 DEF IInv, ControlInv, WaitSubject, BeforeSubject, WithinSubject,
       AfterSubject, GaveUpSubject, LeftToReap
<1> QED
    BY <1>2, <1>3, <1>4, <1>5 DEF ControlInv

LEMMA SafePointKeeps ==
    ASSUME IInv, SafePoint
    PROVE  ControlInv'
<1> USE DEF IInv, ControlInv
<1>1. CASE Drain
    <2>1. /\ pc \in {"after", "top"}
          /\ SIGNAL_QUEUE' = <<>>
          /\ since_chld' = IF since_chld < MaxSignalQueueSize THEN 0 ELSE since_chld
          /\ pc' \in {"reap_after", "reap_top", "top", "notify", "prompt"}
          /\ "CHLD" \in Range(SIGNAL_QUEUE) => pc' \in {"reap_after", "reap_top"}
          /\ UNCHANGED <<jtVars, kernelVars, waitVars>>
        BY <1>1 DEF Drain, ReapingAt, AfterSafePoint
    <2>2. KernelStep({})
        BY <2>1, NoKernelStep DEF kernelVars
    <2>3. JobsHonest' /\ Disjoint(jobs')
        BY <2>1, <2>2, JobsKept DEF jtVars
    <2>4. LocalsOK'
        <3>1. <<>> \in Seq({"CHLD", "INT"}) /\ Len(<<>>) = 0
            OBVIOUS
        <3> QED
            BY <2>1, <3>1, JobControlAssumption DEF LocalsOK, waitVars, PCs
    <2>5. Heard'
        <3> SUFFICES ASSUME (Reportable # {})', ~ sigchld', ~ Reaping', ~ Crowded'
                     PROVE  FALSE
            BY DEF Heard
        <3>1. Reportable # {} /\ ~ sigchld /\ ~ Reaping
            BY <2>1 DEF Reportable, Reaping, kernelVars
        <3>2. since_chld \in Nat /\ Len(SIGNAL_QUEUE) \in Nat /\ ~ Crowded
              /\ DOMAIN SIGNAL_QUEUE = 1..Len(SIGNAL_QUEUE)
            BY <2>1, JobControlAssumption DEF Crowded, LocalsOK
        <3>3. /\ since_chld < Len(SIGNAL_QUEUE)
              /\ SIGNAL_QUEUE[Len(SIGNAL_QUEUE) - since_chld] = "CHLD"
            BY <3>1, <3>2 DEF Heard
        <3>4. Len(SIGNAL_QUEUE) - since_chld \in DOMAIN SIGNAL_QUEUE
            BY <3>2, <3>3
        <3>5. "CHLD" \in Range(SIGNAL_QUEUE)
            BY <3>3, <3>4 DEF Range
        <3> QED
            BY <2>1, <3>5 DEF Reaping
    <2> QED
        BY <2>1, <2>2, <2>3, <2>4, <2>5, BetweenCommands DEF KernelStep
<1>2. CASE ReapOne
    <2>1. /\ pc \in {"reap_after", "reap_top"}
          /\ UNCHANGED <<queueVars, pc, waitVars>>
        BY <1>2 DEF ReapOne
    <2>2. LocalsOK' /\ Reaping'
        BY <2>1 DEF LocalsOK, queueVars, waitVars, Reaping
    <2>3. ASSUME NEW p \in Pid, Reap(p), UpdateJobStatus(p, exit[p])
          PROVE  \E reaped : KernelStep(reaped) /\ JobsHonest' /\ Disjoint(jobs')
        BY <2>1, <2>3, ExitRecorded
    <2>4. ASSUME NEW p \in Pid, ReportStop(p), UpdateJobStatus(p, Stopped)
          PROVE  \E reaped : KernelStep(reaped) /\ JobsHonest' /\ Disjoint(jobs')
        BY <2>1, <2>4, StopRecorded
    <2>5. PICK reaped : KernelStep(reaped) /\ JobsHonest' /\ Disjoint(jobs')
        BY <1>2, <2>3, <2>4 DEF ReapOne
    <2>6. Heard'
        BY <2>1, <2>2, <2>5, ReportsKept
    <2> QED
        BY <2>1, <2>2, <2>5, <2>6, BetweenCommands DEF KernelStep
<1>3. CASE ReapNone
    <2>1. /\ pc \in {"reap_after", "reap_top"}
          /\ Reportable = {}
          /\ pc' \in {"top", "notify", "prompt"}
          /\ UNCHANGED <<jtVars, kernelVars, queueVars, waitVars>>
        BY <1>3 DEF ReapNone, ReapingAt, AfterSafePoint
    <2>2. KernelStep({})
        BY <2>1, NoKernelStep DEF kernelVars
    <2>3. JobsHonest' /\ Disjoint(jobs')
        BY <2>1, <2>2, JobsKept DEF jtVars
    <2>4. LocalsOK'
        BY <2>1 DEF LocalsOK, queueVars, waitVars, PCs
    <2>5. Heard'
        BY <2>1 DEF Heard, Reportable, kernelVars
    <2> QED
        BY <2>1, <2>2, <2>3, <2>4, <2>5, BetweenCommands DEF KernelStep
<1>4. CASE NotifyDone
    <2>1. /\ pc = "notify"
          /\ UNCHANGED <<kernelVars, queueVars, pc, waitVars>>
          /\ \E i \in JobIds : RemoveJob(i)
        BY <1>4 DEF NotifyDone, DoneJobs
    <2>2. KernelStep({}) /\ JobsHonest' /\ Disjoint(jobs')
        BY <2>1, JobRemoved
    <2>3. LocalsOK'
        BY <2>1 DEF LocalsOK, queueVars, waitVars
    <2>4. Heard'
        BY <2>1, <2>2, ReportsKept DEF Reaping
    <2> QED
        BY <2>1, <2>2, <2>3, <2>4, BetweenCommands DEF KernelStep
<1>5. CASE NotifyEnd
    <2>1. /\ pc = "notify" /\ pc' = "prompt"
          /\ UNCHANGED <<jtVars, kernelVars, queueVars, waitVars>>
        BY <1>5 DEF NotifyEnd
    <2>2. KernelStep({})
        BY <2>1, NoKernelStep
    <2>3. JobsHonest' /\ Disjoint(jobs')
        BY <2>1, <2>2, JobsKept DEF jtVars
    <2>4. LocalsOK'
        BY <2>1 DEF LocalsOK, queueVars, waitVars, PCs
    <2>5. Heard'
        BY <2>1, <2>2, ReportsKept DEF Reaping
    <2> QED
        BY <2>1, <2>2, <2>3, <2>4, <2>5, BetweenCommands DEF KernelStep
<1> QED
    BY <1>1, <1>2, <1>3, <1>4, <1>5 DEF SafePoint

-----------------------------------------------------------------------------
(* The commands *)

LEMMA PromptKeeps ==
    ASSUME IInv, Query \/ StartBackground \/ BgResume \/ KillJob
                 \/ RunForeground \/ FgDone \/ ForegroundExit
    PROVE  ControlInv'
<1> USE DEF IInv, ControlInv, At
<1>1. CASE Query
    <2>1. /\ pc = "prompt" /\ pc' = AfterCommand
          /\ UNCHANGED <<jtVars, kernelVars, queueVars, waitVars>>
        BY <1>1 DEF Query
    <2>2. KernelStep({})
        BY <2>1, NoKernelStep
    <2>3. JobsHonest' /\ Disjoint(jobs')
        BY <2>1, <2>2, JobsKept DEF jtVars
    <2>4. LocalsOK'
        BY <2>1, AfterCommandType DEF LocalsOK, queueVars, waitVars, PCs
    <2>5. Heard'
        BY <2>1, <2>2, ReportsKept DEF Reaping
    <2> QED
        BY <2>1, <2>2, <2>3, <2>4, <2>5, BetweenCommands, AfterCommandType DEF KernelStep
<1>2. CASE StartBackground
    <2>1. /\ pc = "prompt" /\ pc' = AfterCommand
          /\ UNCHANGED <<exit, news, sigchld, queueVars, waitVars>>
        BY <1>2 DEF StartBackground
    <2>2. PICK pids \in Pipelines, c \in Command :
              /\ \A p \in Range(pids) : proc[p] = "free"
              /\ proc' = [p \in Pid |-> IF p \in Range(pids) THEN "running" ELSE proc[p]]
              /\ AddJob(pids, c)
        BY <1>2 DEF StartBackground
    <2>3. KernelStep({}) /\ JobsHonest' /\ Disjoint(jobs')
        BY <2>1, <2>2, JobAdded
    <2>4. LocalsOK'
        BY <2>1, AfterCommandType DEF LocalsOK, queueVars, waitVars, PCs
    <2>5. Heard'
        BY <2>1, <2>3, ReportsKept DEF Reaping
    <2> QED
        BY <2>1, <2>3, <2>4, <2>5, BetweenCommands, AfterCommandType DEF KernelStep
<1>3. CASE BgResume
    <2>1. /\ pc = "prompt" /\ pc' = AfterCommand
          /\ UNCHANGED <<queueVars, waitVars>>
        BY <1>3 DEF BgResume
    <2>2. PICK i \in JobIds : /\ Signal(Range(jobs[i].pids), "CONT")
                              /\ SetJobStatus(i, Running)
        BY <1>3 DEF BgResume
    <2>3. KernelStep({})
        BY <2>2, JobShape, SignalStep
    <2>4. JobsHonest' /\ Disjoint(jobs')
        BY <2>1, <2>2, <2>3, StatusOverwritten
    <2>5. LocalsOK'
        BY <2>1, AfterCommandType DEF LocalsOK, queueVars, waitVars, PCs
    <2>6. Heard'
        BY <2>1, <2>3, ReportsKept DEF Reaping
    <2> QED
        BY <2>1, <2>3, <2>4, <2>5, <2>6, BetweenCommands, AfterCommandType DEF KernelStep
<1>4. CASE KillJob
    <2>1. /\ pc = "prompt" /\ pc' = AfterCommand
          /\ UNCHANGED <<jtVars, queueVars, waitVars>>
        BY <1>4 DEF KillJob
    <2>2. PICK i \in JobIds, sig \in {"STOP", "CONT", "KILL"} :
              Signal(Range(jobs[i].pids), sig)
        BY <1>4 DEF KillJob
    <2>3. KernelStep({})
        BY <2>2, JobShape, SignalStep
    <2>4. JobsHonest' /\ Disjoint(jobs')
        BY <2>1, <2>3, JobsKept DEF jtVars
    <2>5. LocalsOK'
        BY <2>1, AfterCommandType DEF LocalsOK, queueVars, waitVars, PCs
    <2>6. Heard'
        BY <2>1, <2>3, ReportsKept DEF Reaping
    <2> QED
        BY <2>1, <2>3, <2>4, <2>5, <2>6, BetweenCommands, AfterCommandType DEF KernelStep
<1>5. CASE RunForeground
    <2>1. /\ pc = "prompt" /\ pc' = "run"
          /\ UNCHANGED <<jtVars, exit, news, sigchld, queueVars,
                         targets, waitall, subject, last, asked>>
        BY <1>5 DEF RunForeground
    <2>2. PICK p \in Pid : /\ proc[p] = "free"
                           /\ proc' = [proc EXCEPT ![p] = "running"]
                           /\ waitpids' = <<p>>
        BY <1>5 DEF RunForeground
    <2>3. proc' = [q \in Pid |-> IF q \in {p} THEN "running" ELSE proc[q]]
        BY <2>2 DEF KernelOK
    <2>4. KernelStep({})
        BY <2>1, <2>2, <2>3, SpawnStep
    <2>5. JobsHonest' /\ Disjoint(jobs')
        BY <2>1, <2>4, JobsKept DEF jtVars
    <2>6. LocalsOK'
        BY <2>1, <2>2 DEF LocalsOK, queueVars, PCs
    <2>7. Heard'
        BY <2>1, <2>4, ReportsKept DEF Reaping
    <2>8. RunsNoJob'
        <3>1. \A i \in JobIds : p \notin Range(jobs[i].pids)
            BY <2>2 DEF JobsHonest, Honest
        <3> QED
            BY <2>1, <2>2, <3>1 DEF RunsNoJob, jtVars, JobIds
    <2> QED
        BY <2>1, <2>4, <2>5, <2>6, <2>7, <2>8
        DEF KernelStep, WaitTargets, WaitSubject, FgSubject
<1>6. CASE FgDone
    <2>1. /\ pc = "prompt" /\ pc' = AfterCommand
          /\ UNCHANGED <<kernelVars, queueVars, waitVars>>
          /\ \E i \in JobIds : RemoveJob(i)
        BY <1>6 DEF FgDone, DoneJobs
    <2>2. KernelStep({}) /\ JobsHonest' /\ Disjoint(jobs')
        BY <2>1, JobRemoved, AfterCommandType
    <2>3. LocalsOK'
        BY <2>1, AfterCommandType DEF LocalsOK, queueVars, waitVars, PCs
    <2>4. Heard'
        BY <2>1, <2>2, ReportsKept DEF Reaping
    <2> QED
        BY <2>1, <2>2, <2>3, <2>4, BetweenCommands, AfterCommandType DEF KernelStep
<1>7. CASE ForegroundExit
    <2> DEFINE p == Head(waitpids)
    <2>1. /\ pc = "run" /\ pc' = AfterCommand
          /\ Reap(p)
          /\ waitpids' = <<>>
          /\ UNCHANGED <<jtVars, queueVars, targets, waitall, subject, last, asked>>
        BY <1>7 DEF ForegroundExit
    <2>2. p \in Pid /\ \A i \in JobIds : p \notin Range(jobs[i].pids)
        BY <2>1 DEF RunsNoJob, LocalsOK
    <2> HIDE DEF p
    <2>3. KernelStep({p})
        BY <2>1, <2>2, ReapStep
    <2>4. JobsHonest' /\ Disjoint(jobs')
        BY <2>1, <2>2, <2>3, JobsKept DEF jtVars
    <2>5. LocalsOK'
        BY <2>1, AfterCommandType DEF LocalsOK, queueVars, PCs
    <2>6. Heard'
        BY <2>1, <2>3, ReportsKept DEF Reaping
    <2> QED
        BY <2>1, <2>3, <2>4, <2>5, <2>6, BetweenCommands, AfterCommandType DEF KernelStep
<1> QED
    BY <1>1, <1>2, <1>3, <1>4, <1>5, <1>6, <1>7

\* The rest of a list of processes: nothing but the first is missing, and the
\* last one is still the last.
LEMMA RestOfProcesses ==
    ASSUME NEW s \in Seq(Pid), s # <<>>
    PROVE  /\ Head(s) \in Pid /\ Head(s) \in Range(s)
           /\ Tail(s) \in Seq(Pid)
           /\ Range(Tail(s)) \subseteq Range(s)
           /\ \A q \in Range(s) : q = Head(s) \/ q \in Range(Tail(s))
           /\ IF Tail(s) = <<>> THEN Head(s) = s[Len(s)]
                                ELSE Tail(s)[Len(Tail(s))] = s[Len(s)]
           /\ Distinct(s) => Distinct(Tail(s)) /\ Head(s) \notin Range(Tail(s))
<1> DEFINE t == Tail(s)
<1>1. /\ Head(s) \in Pid /\ Head(s) = s[1]
      /\ t \in Seq(Pid)
      /\ Len(s) \in Nat \ {0} /\ Len(t) = Len(s) - 1
      /\ DOMAIN s = 1..Len(s) /\ DOMAIN t = 1..Len(t)
      /\ \A k \in 1..Len(t) : t[k] = s[k + 1]
    OBVIOUS
<1> HIDE DEF t
<1>2. t = <<>> <=> Len(t) = 0
    <2>1. \A u \in Seq(Pid) : u = <<>> <=> Len(u) = 0
        OBVIOUS
    <2> QED
        BY <1>1, <2>1
<1>3. Range(t) \subseteq Range(s)
    BY <1>1 DEF Range
<1>4. ASSUME NEW q \in Range(s), q # Head(s) PROVE q \in Range(t)
    <2>1. PICK k \in 1..Len(s) : s[k] = q
        BY <1>1 DEF Range
    <2>2. k # 1
        BY <1>1, <1>4, <2>1
    <2>3. k - 1 \in 1..Len(t) /\ t[k - 1] = s[(k - 1) + 1] /\ (k - 1) + 1 = k
        BY <1>1, <2>2
    <2>4. k - 1 \in DOMAIN t /\ t[k - 1] = q
        BY <1>1, <2>1, <2>3
    <2> QED
        BY <2>4 DEF Range
<1>5. Head(s) \in Range(s)
    BY <1>1 DEF Range
<1>6. IF t = <<>> THEN Head(s) = s[Len(s)] ELSE t[Len(t)] = s[Len(s)]
    BY <1>1, <1>2
<1>7. ASSUME Distinct(s) PROVE Distinct(t) /\ Head(s) \notin Range(t)
    <2>1. ASSUME NEW i \in DOMAIN t, NEW j \in DOMAIN t, t[i] = t[j] PROVE i = j
        <3>1. /\ i + 1 \in DOMAIN s /\ j + 1 \in DOMAIN s
              /\ s[i + 1] = t[i] /\ s[j + 1] = t[j]
            BY <1>1
        <3>2. i + 1 = j + 1
            BY <1>7, <2>1, <3>1 DEF Distinct
        <3> QED
            BY <1>1, <3>2
    <2>2. ASSUME NEW i \in DOMAIN t, t[i] = Head(s) PROVE FALSE
        <3>1. i + 1 \in DOMAIN s /\ 1 \in DOMAIN s /\ s[i + 1] = s[1]
            BY <1>1, <2>2
        <3>2. i + 1 = 1
            BY <1>7, <3>1 DEF Distinct
        <3> QED
            BY <1>1, <3>2
    <2> QED
        BY <2>1, <2>2 DEF Distinct, Range
<1> QED
    BY <1>1, <1>3, <1>4, <1>5, <1>6, <1>7 DEF t

LEMMA FgKeeps ==
    ASSUME IInv, FgStart \/ FgWait \/ FgEnd
    PROVE  ControlInv'
<1> USE DEF IInv, ControlInv
<1>1. CASE FgStart
    <2>1. /\ pc = "prompt" /\ pc' = "fg" /\ "fg" \in Commands
          /\ last' = Zero
          /\ UNCHANGED <<queueVars, targets, waitall, asked>>
        BY <1>1 DEF FgStart, At
    <2>2. PICK i \in JobIds :
              /\ IsActive(jobs[i])
              /\ \/ /\ Signal(Range(jobs[i].pids), "CONT")
                    /\ SetJobStatus(i, Running)
                 \/ /\ jobs[i].status = Running
                    /\ UNCHANGED <<jtVars, kernelVars>>
              /\ subject' = i
              /\ waitpids' = jobs[i].pids
        BY <1>1 DEF FgStart, ActiveJobs
    <2>3. /\ KernelStep({}) /\ JobsHonest' /\ Disjoint(jobs') /\ JobIds' = JobIds
          /\ jobs'[i].pids = jobs[i].pids /\ jobs'[i].status = Running
        <3>1. CASE Signal(Range(jobs[i].pids), "CONT") /\ SetJobStatus(i, Running)
            <4>1. KernelStep({})
                BY <3>1, JobShape, SignalStep
            <4> QED
                BY <2>1, <3>1, <4>1, StatusOverwritten
        <3>2. CASE jobs[i].status = Running /\ UNCHANGED <<jtVars, kernelVars>>
            <4>1. KernelStep({})
                BY <3>2, NoKernelStep
            <4>2. JobsHonest' /\ Disjoint(jobs')
                BY <2>1, <3>2, <4>1, JobsKept DEF jtVars
            <4> QED
                BY <3>2, <4>1, <4>2 DEF jtVars, JobIds
        <3> QED
            BY <2>2, <3>1, <3>2
    <2>4. i \in Nat /\ jobs[i].pids \in Seq(Pid)
        BY JobShape, JobTableInvParts
    <2>5. LocalsOK'
        BY <2>1, <2>2, <2>4, JobControlAssumption DEF LocalsOK, queueVars, PCs
    <2>6. Heard'
        BY <2>1, <2>3, ReportsKept DEF Reaping
    <2>7. FgSubject'
        BY <2>1, <2>2, <2>3 DEF FgSubject, IsActive
    <2> QED
        BY <2>1, <2>3, <2>5, <2>6, <2>7 DEF KernelStep, RunsNoJob, WaitTargets, WaitSubject
<1>2. CASE FgWait
    <2> DEFINE p == Head(waitpids)
    <2>1. /\ pc = "fg" /\ waitpids # <<>>
          /\ waitpids' = Tail(waitpids)
          /\ UNCHANGED <<queueVars, pc, targets, waitall, subject, asked>>
          /\ \/ Reap(p) /\ last' = exit[p] /\ UNCHANGED jtVars
             \/ ReportStop(p) /\ last' = Signalled /\ SetJobStatus(subject, Stopped)
             \/ proc[p] = "reaped" /\ UNCHANGED <<jtVars, kernelVars, last>>
        BY <1>2 DEF FgWait
    <2>2. /\ "fg" \in Commands /\ subject \in JobIds /\ IsActive(jobs[subject])
          /\ jobs[subject].status # Stopped =>
               \A q \in Range(jobs[subject].pids) :
                   q \in Range(waitpids) \/ proc[q] = "reaped"
          /\ Range(jobs[subject].pids) \subseteq Pid
        BY <2>1, JobShape DEF FgSubject
    <2>3. /\ p \in Pid /\ Tail(waitpids) \in Seq(Pid)
          /\ \A q \in Range(waitpids) : q = p \/ q \in Range(Tail(waitpids))
        BY <2>1, RestOfProcesses DEF LocalsOK
    <2> HIDE DEF p
    <2>4. CASE Reap(p) /\ last' = exit[p] /\ UNCHANGED jtVars
        <3>1. KernelStep({p}) /\ exit[p] \in Code /\ proc'[p] = "reaped"
            BY <2>3, <2>4, ReapStep
        <3>2. JobsHonest' /\ Disjoint(jobs')
            BY <2>1, <2>2, <2>4, <3>1, JobsKept DEF jtVars
        <3>3. LocalsOK'
            BY <2>1, <2>3, <2>4, <3>1 DEF LocalsOK, queueVars
        <3>4. FgSubject'
            <4>1. \A q \in Pid : proc[q] = "reaped" => proc'[q] = "reaped"
                BY <3>1 DEF KernelStep, Moves
            <4> QED
                BY <2>1, <2>2, <2>3, <2>4, <3>1, <4>1 DEF FgSubject, jtVars, JobIds
        <3>5. Heard'
            BY <2>1, <3>1, ReportsKept DEF Reaping
        <3> QED
            BY <2>1, <3>1, <3>2, <3>3, <3>4, <3>5
            DEF KernelStep, RunsNoJob, WaitTargets, WaitSubject
    <2>5. CASE ReportStop(p) /\ last' = Signalled /\ SetJobStatus(subject, Stopped)
        <3>1. KernelStep({})
            BY <2>3, <2>5, ReportStopStep
        <3>2. JobsHonest' /\ Disjoint(jobs') /\ JobIds' = JobIds
              /\ jobs'[subject].status = Stopped
            BY <2>1, <2>2, <2>5, <3>1, StatusOverwritten
        <3>3. LocalsOK'
            BY <2>1, <2>3, <2>5, JobControlAssumption DEF LocalsOK, queueVars
        <3>4. FgSubject'
            BY <2>1, <2>2, <3>2 DEF FgSubject, IsActive
        <3>5. Heard'
            BY <2>1, <3>1, ReportsKept DEF Reaping
        <3> QED
            BY <2>1, <3>1, <3>2, <3>3, <3>4, <3>5
            DEF KernelStep, RunsNoJob, WaitTargets, WaitSubject
    <2>6. CASE proc[p] = "reaped" /\ UNCHANGED <<jtVars, kernelVars, last>>
        <3>1. KernelStep({})
            BY <2>6, NoKernelStep
        <3>2. JobsHonest' /\ Disjoint(jobs')
            BY <2>1, <2>6, <3>1, JobsKept DEF jtVars
        <3>3. LocalsOK'
            BY <2>1, <2>3, <2>6 DEF LocalsOK, queueVars
        <3>4. FgSubject'
            BY <2>1, <2>2, <2>3, <2>6 DEF FgSubject, jtVars, kernelVars, JobIds
        <3>5. Heard'
            BY <2>1, <3>1, ReportsKept DEF Reaping
        <3> QED
            BY <2>1, <3>1, <3>2, <3>3, <3>4, <3>5
            DEF KernelStep, RunsNoJob, WaitTargets, WaitSubject
    <2> QED
        BY <2>1, <2>4, <2>5, <2>6
<1>3. CASE FgEnd
    <2>1. /\ pc = "fg" /\ waitpids = <<>>
          /\ pc' \in {"after", "top", "panicked"}
          /\ targets' = <<>> /\ waitall' = FALSE /\ subject' = NoJob
          /\ last' = Zero /\ asked' = {}
          /\ UNCHANGED <<kernelVars, queueVars, waitpids>>
        BY <1>3, AfterCommandType DEF FgEnd, Forget
    <2>2. KernelStep({})
        BY <2>1, NoKernelStep
    <2>3. JobsHonest' /\ Disjoint(jobs')
        <3>1. CASE UNCHANGED jtVars
            BY <2>1, <2>2, <3>1, JobsKept DEF jtVars
        <3>2. CASE /\ jobs[subject].status # Stopped
                   /\ SetJobStatus(subject, last)
                   /\ pc' = "panicked"
            <4> DEFINE job == WithStatus(jobs[subject], last)
            <4>1. /\ subject \in JobIds
                  /\ \A q \in Range(jobs[subject].pids) : proc[q] = "reaped"
                BY <2>1, <3>2 DEF FgSubject, Range
            <4>2. /\ job.pids = jobs[subject].pids
                  /\ job.pid_status = jobs[subject].pid_status
                BY DEF WithStatus
            <4>3. Honest(job, proc', exit')
                <5> HIDE DEF job
                <5> QED
                    BY <2>1, <4>1, <4>2 DEF Honest, JobsHonest, kernelVars
            <4>4. jobs' = [jobs EXCEPT ![subject] = job]
                BY <3>2 DEF SetJobStatus
            <4> HIDE DEF job
            <4> QED
                BY <2>2, <3>2, <4>1, <4>2, <4>3, <4>4, JobReplaced
        <3> QED
            BY <1>3, <3>1, <3>2 DEF FgEnd
    <2>4. LocalsOK'
        <3>1. <<>> \in Seq(Nat) /\ NoJob \in Nat
            BY DEF NoJob
        <3> QED
            BY <2>1, <3>1, JobControlAssumption DEF LocalsOK, queueVars, PCs
    <2>5. Heard'
        BY <2>1, <2>2, ReportsKept DEF Reaping
    <2> QED
        BY <2>1, <2>2, <2>3, <2>4, <2>5, BetweenCommands DEF KernelStep
<1> QED
    BY <1>1, <1>2, <1>3

LEMMA SeqOfSubset ==
    ASSUME NEW S, NEW T, S \subseteq T, NEW s \in Seq(S)
    PROVE  s \in Seq(T)
<1>1. s \in [1..Len(s) -> T] /\ Len(s) \in Nat
    OBVIOUS
<1> QED
    BY <1>1

LEMMA ActiveJobsFinite ==
    ASSUME JobTableInv
    PROVE  Cardinality(ActiveJobs) \in Nat
<1>1. next_job_id - 1 \in Int /\ 1 \in Int /\ ActiveJobs \subseteq 1..(next_job_id - 1)
    BY JobTableInvParts DEF ActiveJobs
<1>2. IsFiniteSet(1..(next_job_id - 1))
    BY <1>1, FS_Interval
<1>3. IsFiniteSet(ActiveJobs)
    BY <1>1, <1>2, FS_Subset
<1> QED
    BY <1>3, FS_CardinalityType

LEMMA WaitBeginKeeps ==
    ASSUME IInv, WaitAll \/ WaitJob \/ WaitPid
    PROVE  ControlInv'
<1> USE DEF IInv, ControlInv
<1>1. PICK ids, pids, all, about, promised : BeginWait(ids, pids, all, about, promised)
    BY DEF WaitAll, WaitJob, WaitPid
<1>2. /\ pc = "prompt" /\ pc' = "wait"
      /\ last' = Zero
      /\ UNCHANGED <<jtVars, kernelVars, queueVars>>
    BY <1>1 DEF BeginWait, At
<1>3. /\ targets' \in Seq(JobIds)
      /\ waitpids' \in Seq(Pid)
      /\ waitall' \in BOOLEAN
      /\ subject' \in Nat
      /\ asked' \subseteq Pid
      /\ subject' # NoJob => /\ subject' \in JobIds
                             /\ ~ waitall'
                             /\ targets' = <<subject'>>
                             /\ waitpids' = <<>>
                             /\ asked' = Unreaped({subject'})
    <2> USE DEF Unreaped
    <2>1. CASE WaitAll
        <3>1. PICK ids2 \in InOrder(ActiveJobs) :
                  BeginWait(ids2, <<>>, TRUE, NoJob, Unreaped(JobIds))
            BY <2>1 DEF WaitAll
        <3>2. ids2 \in Seq(JobIds)
            BY ActiveJobsFinite DEF InOrder, ActiveJobs
        <3>3. Unreaped(JobIds) \subseteq Pid
            OBVIOUS
        <3>4. <<>> \in Seq(Pid) /\ NoJob \in Nat
            BY DEF NoJob
        <3> QED
            BY <3>1, <3>2, <3>3, <3>4 DEF BeginWait
    <2>2. CASE WaitJob
        <3>1. PICK i \in JobIds : BeginWait(<<i>>, <<>>, FALSE, i, Unreaped({i}))
            BY <2>2 DEF WaitJob
        <3>2. i \in Nat
            BY JobTableInvParts
        <3>3. <<i>> \in Seq(JobIds) /\ <<>> \in Seq(Pid)
            OBVIOUS
        <3> QED
            BY <3>1, <3>2, <3>3 DEF BeginWait
    <2>3. CASE WaitPid
        <3>1. PICK p \in Pid : BeginWait(<<>>, <<p>>, FALSE, NoJob, {})
            BY <2>3 DEF WaitPid
        <3>2. <<p>> \in Seq(Pid) /\ <<>> \in Seq(JobIds) /\ NoJob \in Nat
            BY DEF NoJob
        <3> QED
            BY <3>1, <3>2 DEF BeginWait
    <2> QED
        BY <2>1, <2>2, <2>3
<1>4. KernelStep({})
    BY <1>2, NoKernelStep
<1>5. JobsHonest' /\ Disjoint(jobs') /\ JobIds' = JobIds
    BY <1>2, <1>4, JobsKept DEF jtVars, JobIds
<1>6. JobIds \subseteq Nat
    BY JobTableInvParts
<1>7. targets' \in Seq(Nat)
    BY <1>3, <1>6, SeqOfSubset
<1>8. LocalsOK'
    BY <1>2, <1>3, <1>7, JobControlAssumption DEF LocalsOK, queueVars, PCs
<1>9. Heard'
    BY <1>2, <1>4, ReportsKept DEF Reaping
<1>10. WaitTargets'
    BY <1>3, <1>5 DEF WaitTargets
<1>11. WaitSubject'
    <2> SUFFICES ASSUME subject' # NoJob 
                 PROVE  LeftToReap(jobs[subject'].pids, asked', proc')
        BY <1>2, <1>3, <1>5 DEF WaitSubject, BeforeSubject, jtVars
    <2>1. asked' = Unreaped({subject'}) /\ proc' = proc
        BY <1>2, <1>3 DEF kernelVars
    <2> QED
        BY <2>1 DEF LeftToReap, Unreaped
<1> QED
    BY <1>2, <1>4, <1>5, <1>8, <1>9, <1>10, <1>11 DEF KernelStep, RunsNoJob, FgSubject

\* A process of the job that wait %n is within is in no other job.
LEMMA SubjectOwns ==
    ASSUME IInv, pc = "wait", waitpids # <<>>, subject # NoJob
    PROVE  /\ subject \in JobIds /\ ~ waitall
           /\ WithinSubject
           /\ Head(waitpids) \in Range(jobs[subject].pids)
           /\ \A i \in JobsOfPid(Head(waitpids)) : i = subject
<1>1. /\ subject \in JobIds /\ ~ waitall
      /\ WithinSubject
    BY DEF IInv, ControlInv, WaitSubject, BeforeSubject, AfterSubject, GaveUpSubject
<1>2. Head(waitpids) \in Range(waitpids)
    BY RestOfProcesses DEF IInv, ControlInv, LocalsOK
<1>3. Head(waitpids) \in Range(jobs[subject].pids)
    BY <1>1, <1>2 DEF WithinSubject
<1> QED
    BY <1>1, <1>3 DEF IInv, ControlInv, Disjoint, JobsOfPid, JobIds

\* The steps of wait that look at the table only.
LEMMA WaitLooksKeeps ==
    ASSUME IInv, WaitNextJob \/ WaitKnownDone
    PROVE  ControlInv'
<1> USE DEF IInv, ControlInv
<1>1. /\ pc = "wait" /\ pc' = "wait"
      /\ UNCHANGED <<jtVars, kernelVars, queueVars, waitall, subject, asked>>
    BY DEF WaitNextJob, WaitKnownDone
<1>2. KernelStep({})
    BY <1>1, NoKernelStep
<1>3. JobsHonest' /\ Disjoint(jobs') /\ JobIds' = JobIds /\ jobs' = jobs
    BY <1>1, <1>2, JobsKept DEF jtVars, JobIds
<1>4. Heard'
    BY <1>1, <1>2, ReportsKept DEF Reaping
<1>5. /\ targets' \in Seq(JobIds)
      /\ waitpids' \in Seq(Pid)
      /\ last' \in Code \cup {NotAChild}
      /\ WaitSubject'
    <2>1. CASE WaitNextJob
        <3> DEFINE i == Head(targets)
        <3>1. /\ waitpids = <<>> /\ targets # <<>> /\ targets' = Tail(targets)
              /\ \/ /\ jobs[i].status \in Code
                    /\ last' = jobs[i].status
                    /\ waitpids' = <<>>
                 \/ /\ jobs[i].status \notin Code
                    /\ waitpids' = jobs[i].pids
                    /\ last' = last
            BY <2>1 DEF WaitNextJob
        <3>2. targets \in Seq(JobIds)
            BY <1>1 DEF WaitTargets
        <3>3. i \in JobIds /\ targets' \in Seq(JobIds)
            BY <3>1, <3>2
        <3>4. subject # NoJob => i = subject /\ targets' = <<>>
            <4>1. subject # NoJob => targets = <<subject>>
                BY <1>1, <3>1
                DEF WaitSubject, WithinSubject, AfterSubject, GaveUpSubject, BeforeSubject
            <4>2. Head(<<subject>>) = subject /\ Tail(<<subject>>) = <<>>
                OBVIOUS
            <4> QED
                BY <3>1, <4>1, <4>2
        <3> HIDE DEF i
        <3>5. /\ jobs[i].pids \in Seq(Pid) /\ jobs[i].pids # <<>>
              /\ <<>> \in Seq(Pid)
            BY <3>3, JobShape
        <3>6. WaitSubject'
            <4> SUFFICES ASSUME subject # NoJob PROVE WaitSubject'
                BY <1>1 DEF WaitSubject
            <4>1. subject' = i /\ subject' \in JobIds' /\ ~ waitall' /\ targets' = <<>>
                BY <1>1, <1>3, <3>4 DEF WaitSubject
            <4>2. CASE jobs[i].status \in Code /\ last' = jobs[i].status /\ waitpids' = <<>>
                BY <1>3, <4>1, <4>2 DEF WaitSubject, AfterSubject
            <4>3. CASE jobs[i].status \notin Code /\ waitpids' = jobs[i].pids
                <5>1. Distinct(jobs[i].pids)
                    BY <3>3, JobShape DEF Pipelines, Distinct
                <5>2. LeftToReap(jobs[i].pids, asked, proc)
                    BY <1>1, <3>1, <3>4
                    DEF WaitSubject, WithinSubject, AfterSubject, GaveUpSubject, BeforeSubject
                <5>3. LeftToReap(waitpids', asked', proc')
                    BY <1>1, <4>3, <5>2 DEF LeftToReap, kernelVars
                <5> QED
                    BY <1>3, <3>5, <4>1, <4>3, <5>1, <5>3
                    DEF WaitSubject, WithinSubject, LastPid, Distinct
            <4> QED
                BY <3>1, <4>2, <4>3
        <3> QED
            BY <3>1, <3>3, <3>5, <3>6 DEF LocalsOK
    <2>2. CASE WaitKnownDone
        <3>1. /\ waitpids # <<>> /\ waitpids' = Tail(waitpids)
              /\ targets' = targets
            BY <2>2 DEF WaitKnownDone
        <3>2. PICK i \in DoneJobsOf(Head(waitpids)) : last' = jobs[i].status
            BY <2>2 DEF WaitKnownDone
        <3>3. i \in JobsOfPid(Head(waitpids)) /\ jobs[i].status \in Code
            BY DEF DoneJobsOf
        <3>4. targets' \in Seq(JobIds)
            BY <1>1, <3>1 DEF WaitTargets
        <3>5. waitpids' \in Seq(Pid)
            BY <3>1, RestOfProcesses DEF LocalsOK
        <3>6. WaitSubject'
            <4> SUFFICES ASSUME subject # NoJob PROVE WaitSubject'
                BY <1>1 DEF WaitSubject
            <4>1. /\ subject' = subject /\ subject' \in JobIds' /\ ~ waitall'
                  /\ WithinSubject /\ i = subject
                BY <1>1, <1>3, <3>1, <3>3, SubjectOwns
            <4>2. targets' = <<>> /\ last' = jobs[subject].status
                BY <3>1, <3>2, <4>1 DEF WithinSubject
            <4>3. CASE waitpids' = <<>>
                BY <1>3, <3>3, <4>1, <4>2, <4>3 DEF WaitSubject, AfterSubject
            <4>4. CASE waitpids' # <<>>
                <5>1. /\ waitpids'[Len(waitpids')] = waitpids[Len(waitpids)]
                      /\ Range(waitpids') \subseteq Range(waitpids)
                      /\ Distinct(waitpids')
                    BY <3>1, <4>1, <4>4, RestOfProcesses DEF LocalsOK, WithinSubject
                <5> QED
                    BY <1>3, <3>3, <4>1, <4>2, <4>4, <5>1
                    DEF WaitSubject, WithinSubject, Distinct
            <4> QED
                BY <4>3, <4>4
        <3> QED
            BY <3>2, <3>3, <3>4, <3>5, <3>6
    <2> QED
        BY <2>1, <2>2
<1>6. targets' \in Seq(Nat)
    BY <1>5, JobTableInvParts, SeqOfSubset
<1>7. LocalsOK'
    BY <1>1, <1>5, <1>6 DEF LocalsOK, queueVars
<1>8. WaitTargets'
    BY <1>3, <1>5 DEF WaitTargets
<1> QED
    BY <1>1, <1>2, <1>3, <1>4, <1>5, <1>7, <1>8 DEF KernelStep, RunsNoJob, FgSubject

LEMMA WaitReapKeeps ==
    ASSUME IInv, WaitReap
    PROVE  ControlInv'
<1> USE DEF IInv, ControlInv
<1> DEFINE p == Head(waitpids)
<1>1. /\ pc = "wait" /\ pc' = "wait" /\ waitpids # <<>>
      /\ DoneJobsOf(p) = {}
      /\ Reap(p) /\ UpdateJobStatus(p, exit[p])
      /\ last' = exit[p]
      /\ waitpids' = Tail(waitpids)
      /\ UNCHANGED <<queueVars, targets, waitall, subject, asked>>
    BY DEF WaitReap
<1>2. /\ p \in Pid
      /\ Tail(waitpids) \in Seq(Pid)
      /\ Range(Tail(waitpids)) \subseteq Range(waitpids)
      /\ \A q \in Range(waitpids) : q = p \/ q \in Range(Tail(waitpids))
      /\ IF Tail(waitpids) = <<>> THEN p = waitpids[Len(waitpids)]
         ELSE Tail(waitpids)[Len(Tail(waitpids))] = waitpids[Len(waitpids)]
      /\ Distinct(waitpids) => Distinct(Tail(waitpids)) /\ p \notin Range(Tail(waitpids))
    BY <1>1, RestOfProcesses DEF LocalsOK
<1>3. subject # NoJob =>
          /\ subject \in JobIds /\ ~ waitall /\ WithinSubject
          /\ p \in Range(jobs[subject].pids)
    BY <1>1, SubjectOwns
<1> HIDE DEF p
<1>4. /\ KernelStep({p}) /\ exit[p] \in Code
      /\ JobsHonest' /\ Disjoint(jobs') /\ JobIds' = JobIds
      /\ \A k \in JobIds : p \in Range(jobs[k].pids)
                               => jobs'[k] = WithPidStatus(jobs[k], p, exit[p])
    BY <1>1, <1>2, ExitRecorded
<1>5. Heard'
    BY <1>1, <1>4, ReportsKept DEF Reaping
<1>6. LocalsOK'
    BY <1>1, <1>2, <1>4 DEF LocalsOK, queueVars
<1>7. WaitTargets'
    BY <1>1, <1>4 DEF WaitTargets
<1>8. WaitSubject'
    <2> SUFFICES ASSUME subject # NoJob PROVE WaitSubject'
        BY <1>1 DEF WaitSubject
    <2> DEFINE job == jobs[subject]
               new == jobs'[subject]
    <2>1. /\ subject' = subject /\ subject' \in JobIds' /\ ~ waitall'
          /\ WithinSubject /\ p \in Range(job.pids)
          /\ targets' = <<>>
        BY <1>1, <1>3, <1>4 DEF WithinSubject
    <2>2. job.status \notin Code
        BY <1>1, <1>3 DEF DoneJobsOf, JobsOfPid
    <2>3. \A q \in Range(job.pids) : q \in Range(waitpids) \/ job.pid_status[q] \in Code
        BY <2>1, <2>2 DEF WithinSubject
    <2>4. /\ JobTypeOK(job)
          /\ job.pid_status \in [Range(job.pids) -> JobStatus]
          /\ LastPid(job) \in Range(job.pids)
        BY <1>3, JobShape
    <2>5. new = WithPidStatus(job, p, exit[p]) /\ exit[p] \in JobStatus
        BY <1>3, <1>4 DEF JobStatus
    <2>6. /\ new.pids = job.pids
          /\ CompletionKept(new)
          /\ new.pid_status = [job.pid_status EXCEPT ![p] = exit[p]]
        <3>1. WithPidStatus(job, p, exit[p]).pid_status
                  = [job.pid_status EXCEPT ![p] = exit[p]]
            BY DEF WithPidStatus
        <3> QED
            BY <2>1, <2>4, <2>5, <3>1, WithPidStatusOK
    <2> HIDE DEF job, new
    <2>7. \A q \in Range(job.pids) :
              new.pid_status[q] = IF q = p THEN exit[p] ELSE job.pid_status[q]
        BY <2>4, <2>6
    <2>8. \A q \in Range(new.pids) :
              q \in Range(Tail(waitpids)) \/ new.pid_status[q] \in Code
        BY <1>2, <1>4, <2>3, <2>6, <2>7
    <2>9. waitpids[Len(waitpids)] = LastPid(new) /\ Range(waitpids) \subseteq Range(new.pids)
        BY <2>1, <2>6 DEF WithinSubject, LastPid, job
    <2>10. CASE Tail(waitpids) = <<>>
        <3>1. \A q \in Range(new.pids) : new.pid_status[q] \in Code
            BY <2>8, <2>10 DEF Range
        <3>2. new.status = exit[p]
            <4>1. LastPid(new) = p
                BY <1>2, <2>9, <2>10
            <4>2. new.status = new.pid_status[LastPid(new)]
                BY <2>6, <3>1 DEF CompletionKept
            <4> QED
                BY <2>1, <2>7, <4>1, <4>2
        <3>3. AfterSubject'
            BY <1>1, <1>4, <2>1, <2>10, <3>2 DEF AfterSubject, new
        <3> QED
            BY <2>1, <3>3 DEF WaitSubject
    <2>11. CASE Tail(waitpids) # <<>>
        <3>1. LeftToReap(Tail(waitpids), asked, proc')
            <4>1. LeftToReap(waitpids, asked, proc) /\ Distinct(waitpids)
                BY <2>1, <2>2 DEF WithinSubject, job
            <4>2. \A q \in Pid : q # p /\ proc'[q] = "reaped" => proc[q] = "reaped"
                BY <1>4 DEF KernelStep, Moves
            <4>3. Range(Tail(waitpids)) \subseteq Pid
                BY <1>2 DEF Range
            <4> QED
                BY <1>1, <1>2, <4>1, <4>2, <4>3 DEF LeftToReap
        <3>2. LeftToReap(waitpids', asked', proc')
            BY <1>1, <3>1 DEF LeftToReap
        <3>3. Distinct(Tail(waitpids))
            BY <1>2, <2>1 DEF WithinSubject
        <3>4. WithinSubject'
            BY <1>1, <1>2, <2>1, <2>8, <2>9, <2>11, <3>2, <3>3
            DEF WithinSubject, Distinct, new
        <3> QED
            BY <2>1, <3>4 DEF WaitSubject
    <2> QED
        BY <2>10, <2>11
<1> QED
    BY <1>1, <1>4, <1>5, <1>6, <1>7, <1>8 DEF KernelStep, RunsNoJob, FgSubject

LEMMA WaitGivesUpKeeps ==
    ASSUME IInv, WaitNotAChild \/ WaitEnd
    PROVE  ControlInv'
<1> USE DEF IInv, ControlInv
<1>1. /\ pc = "wait" /\ waitpids' = <<>>
      /\ UNCHANGED <<jtVars, kernelVars, queueVars>>
    BY DEF WaitNotAChild, WaitEnd
<1>2. KernelStep({})
    BY <1>1, NoKernelStep
<1>3. <<>> \in Seq(Pid) /\ <<>> \in Seq(Nat) /\ NoJob \in Nat
    BY DEF NoJob
<1>4. CASE WaitEnd
    <2>1. pc' = AfterCommand /\ Forget
        BY <1>4 DEF WaitEnd
    <2>2. JobsHonest' /\ Disjoint(jobs')
        BY <1>1, <1>2, JobsKept DEF jtVars
    <2>3. LocalsOK'
        BY <1>1, <1>3, <2>1, AfterCommandType, JobControlAssumption
        DEF LocalsOK, queueVars, Forget, PCs
    <2>4. Heard'
        BY <1>1, <1>2, ReportsKept DEF Reaping
    <2> QED
        BY <1>2, <2>1, <2>2, <2>3, <2>4, AfterCommandType, BetweenCommands DEF KernelStep
<1>5. CASE WaitNotAChild
    <2>1. /\ waitpids # <<>>
          /\ DoneJobsOf(Head(waitpids)) = {}
          /\ proc[Head(waitpids)] = "reaped"
          /\ last' = IF waitall THEN last ELSE NotAChild
          /\ UNCHANGED <<pc, targets, waitall, subject, asked>>
        BY <1>5 DEF WaitNotAChild
    <2>2. JobsHonest' /\ Disjoint(jobs') /\ JobIds' = JobIds
        BY <1>1, <1>2, <2>1, JobsKept DEF jtVars, JobIds
    <2>3. LocalsOK'
        BY <1>1, <1>3, <2>1 DEF LocalsOK, queueVars
    <2>4. Heard'
        BY <1>1, <1>2, <2>1, ReportsKept DEF Reaping
    <2>5. WaitSubject'
        <3> SUFFICES ASSUME subject # NoJob PROVE WaitSubject'
            BY <2>1 DEF WaitSubject
        <3>1. /\ subject \in JobIds /\ ~ waitall
              /\ WithinSubject
              /\ Head(waitpids) \in Range(jobs[subject].pids)
            BY <1>1, <2>1, SubjectOwns
        <3>2. jobs[subject].status \notin Code
            BY <2>1, <3>1 DEF DoneJobsOf, JobsOfPid
        <3>3. Head(waitpids) \in Range(waitpids)
            BY <2>1, RestOfProcesses DEF LocalsOK
        <3>4. Head(waitpids) \notin asked
            BY <2>1, <3>1, <3>2, <3>3 DEF WithinSubject, LeftToReap
        <3>5. GaveUpSubject'
            BY <1>1, <2>1, <3>1, <3>2, <3>4 DEF GaveUpSubject, WithinSubject, jtVars
        <3> QED
            BY <2>1, <2>2, <3>1, <3>5 DEF WaitSubject
    <2> QED
        BY <1>1, <1>2, <2>1, <2>2, <2>3, <2>4, <2>5
        DEF KernelStep, RunsNoJob, WaitTargets, FgSubject
<1> QED
    BY <1>4, <1>5

-----------------------------------------------------------------------------
(* Every step is one of the table, or leaves it alone *)

LEMMA ReapIsReport ==
    ASSUME KernelOK, NEW p \in Pid, Reap(p), UpdateJobStatus(p, exit[p])
    PROVE  JobTableNext
<1>1. exit[p] \in Code
    BY ReapStep
<1> QED
    BY <1>1 DEF JobTableNext, ReportPid

LEMMA StepOfTable ==
    ASSUME IInv, [Next]_vars
    PROVE  [JobTableNext]_jtVars
<1>1. CASE Kernel \/ SignalThread \/ Interrupt
    BY <1>1 DEF Kernel, ProcStop, ProcExit, SignalThread, Interrupt
<1>2. CASE SafePoint
    <2>1. CASE ReapOne
        <3>1. ASSUME NEW p \in Pid, ReportStop(p), UpdateJobStatus(p, Stopped)
              PROVE  JobTableNext
            BY <3>1 DEF JobTableNext, ReportPid
        <3> QED
            BY <2>1, <3>1, ReapIsReport DEF ReapOne, IInv, ControlInv
    <2>2. CASE NotifyDone
        BY <2>2 DEF NotifyDone, DoneJobs, JobTableNext, RemoveDone
    <2>3. CASE Drain \/ ReapNone \/ NotifyEnd
        BY <2>3 DEF Drain, ReapNone, NotifyEnd
    <2> QED
        BY <1>2, <2>1, <2>2, <2>3 DEF SafePoint
<1>3. CASE Prompt
    <2>1. CASE StartBackground
        BY <2>1 DEF StartBackground, JobTableNext, StartJob
    <2>2. CASE BgResume
        BY <2>2 DEF BgResume, JobTableNext, ResumeJob
    <2>3. CASE FgDone
        BY <2>3 DEF FgDone, DoneJobs, JobTableNext, RemoveDone
    <2>4. CASE FgStart
        BY <2>4 DEF FgStart, ActiveJobs, JobTableNext, ResumeJob
    <2>5. CASE Query \/ KillJob \/ RunForeground \/ WaitAll \/ WaitJob \/ WaitPid
        BY <2>5 DEF Query, KillJob, RunForeground, WaitAll, WaitJob, WaitPid, BeginWait
    <2> QED
        BY <1>3, <2>1, <2>2, <2>3, <2>4, <2>5 DEF Prompt
<1>4. CASE Wait
    <2>1. CASE WaitReap
        <3>1. Head(waitpids) \in Pid
            BY <2>1, RestOfProcesses DEF WaitReap, IInv, ControlInv, LocalsOK
        <3> QED
            BY <2>1, <3>1, ReapIsReport DEF WaitReap, IInv, ControlInv
    <2>2. CASE WaitNextJob \/ WaitKnownDone \/ WaitNotAChild \/ WaitEnd
        BY <2>2 DEF WaitNextJob, WaitKnownDone, WaitNotAChild, WaitEnd
    <2> QED
        BY <1>4, <2>1, <2>2 DEF Wait
<1>5. CASE Fg
    <2>1. /\ pc = "fg" /\ subject \in JobIds /\ IsActive(jobs[subject])
          /\ last \in Code
        BY <1>5 DEF Fg, FgWait, FgEnd, IInv, ControlInv, FgSubject, LocalsOK
    <2>2. CASE FgWait
        BY <2>1, <2>2 DEF FgWait, JobTableNext, ForegroundStopped
    <2>3. CASE FgEnd
        BY <2>1, <2>3 DEF FgEnd, JobTableNext, ForegroundDone, IsActive
    <2> QED
        BY <1>5, <2>2, <2>3 DEF Fg
<1>6. CASE ForegroundExit
    BY <1>6 DEF ForegroundExit
<1>7. CASE UNCHANGED vars
    BY <1>7 DEF vars
<1> QED
    BY <1>1, <1>2, <1>3, <1>4, <1>5, <1>6, <1>7 DEF Next

-----------------------------------------------------------------------------
(* The invariant *)

LEMMA ControlInit == Init => IInv
<1> SUFFICES ASSUME Init PROVE IInv
    OBVIOUS
<1>1. JobTableInv
    BY InitInv DEF Init
<1>2. JobIds = {} /\ DOMAIN jobs = {}
    BY DEF Init, JobTableInit, JobIds
<1>3. KernelOK /\ Reportable = {}
    BY DEF Init, KernelOK, ProcessesAgree, Reportable
<1>4. LocalsOK
    <2>1. /\ <<>> \in Seq(Nat) /\ <<>> \in Seq(Pid) /\ NoJob \in Nat
          /\ <<>> \in Seq({"CHLD", "INT"}) /\ Len(<<>>) = 0
          /\ 0 \in 0..MaxSignalQueueSize /\ 0 <= MaxSignalQueueSize
        BY JobControlAssumption DEF NoJob
    <2> QED
        BY <2>1, JobControlAssumption DEF Init, LocalsOK, PCs
<1>5. JobsHonest /\ Disjoint(jobs)
    BY <1>2 DEF JobsHonest, Disjoint
<1> QED
    BY <1>1, <1>3, <1>4, <1>5
    DEF Init, IInv, ControlInv, Heard, RunsNoJob, WaitTargets, WaitSubject, FgSubject

LEMMA ControlStep == IInv /\ [Next]_vars => IInv'
<1> SUFFICES ASSUME IInv, [Next]_vars PROVE IInv'
    OBVIOUS
<1>1. JobTableInv'
    BY StepOfTable, NextInv DEF IInv
<1>2. ControlInv'
    <2>1. CASE UNCHANGED vars
        BY <2>1 DEF vars, jtVars, kernelVars, queueVars, waitVars, IInv, ControlInv,
           KernelOK, ProcessesAgree, LocalsOK, Heard, Crowded, Reportable, Reaping,
           JobsHonest, JobIds, RunsNoJob, WaitTargets, WaitSubject, BeforeSubject,
           WithinSubject, AfterSubject, GaveUpSubject, LeftToReap, FgSubject
    <2>2. CASE Next
        BY <2>2, KernelKeeps, SignalThreadKeeps, SafePointKeeps, PromptKeeps, FgKeeps,
           WaitBeginKeeps, WaitLooksKeeps, WaitReapKeeps, WaitGivesUpKeeps
        DEF Next, Prompt, Wait, Fg
    <2> QED
        BY <2>1, <2>2
<1> QED
    BY <1>1, <1>2 DEF IInv

THEOREM ControlInvariant == Spec => []IInv
BY ControlInit, ControlStep, PTL DEF Spec

-----------------------------------------------------------------------------
(* What holds of job control *)

\* The kernel's side, the queue and the locals of wait and fg keep their types.
THEOREM ControlTypeCorrect == Spec => []TypeOK
<1>1. IInv => TypeOK
    BY DEF IInv, ControlInv, JobTableInv, KernelOK, LocalsOK, TypeOK
<1> QED
    BY <1>1, ControlInvariant, PTL

\* Job control uses the table only as the table's specification says.
THEOREM ImplementsJobTable == Spec => JobTableSpec
<1>1. Init => JobTableInit
    BY DEF Init
<1>2. IInv /\ [Next]_vars => [JobTableNext]_jtVars
    BY StepOfTable
<1> QED
    BY <1>1, <1>2, ControlInvariant, PTL DEF Spec, JobTableSpec

\* What was proved of the table with any clients holds with these: whoever
\* reaps, a job whose processes are all recorded as done is Done.
THEOREM CompletionSurvives == Spec => [](AllDoneIsDone /\ ExitCodeAgrees /\ CurrentAndPrevious)
<1>1. JobTableInv => AllDoneIsDone /\ ExitCodeAgrees /\ CurrentAndPrevious
    BY DEF JobTableInv
<1> QED
    BY <1>1, ImplementsJobTable, InvariantHolds, PTL

\* No report of a child is lost but to a crowded queue, though SIGCHLDs
\* coalesce and three callers of waitpid compete.
THEOREM NoChildIsLost == Spec => []NoLostChild
<1>1. ASSUME IInv PROVE NoLostChild
    <2> SUFFICES ASSUME Reportable # {}, ~ sigchld, ~ Reaping, ~ Crowded
                 PROVE  "CHLD" \in Range(SIGNAL_QUEUE)
        BY DEF NoLostChild
    <2>1. /\ since_chld < Len(SIGNAL_QUEUE)
          /\ SIGNAL_QUEUE[Len(SIGNAL_QUEUE) - since_chld] = "CHLD"
        BY <1>1 DEF IInv, ControlInv, Heard
    <2>2. /\ since_chld \in Nat /\ Len(SIGNAL_QUEUE) \in Nat
          /\ DOMAIN SIGNAL_QUEUE = 1..Len(SIGNAL_QUEUE)
        BY <1>1, JobControlAssumption DEF IInv, ControlInv, LocalsOK
    <2>3. Len(SIGNAL_QUEUE) - since_chld \in DOMAIN SIGNAL_QUEUE
        BY <2>1, <2>2
    <2> QED
        BY <2>1, <2>3 DEF Range
<1> QED
    BY <1>1, ControlInvariant, PTL

\* Done means that the shell reaped every process of the job, whichever of
\* handle_sigchld, wait and fg did.
THEOREM DoneIsTrue == Spec => []DoneMeansReaped
<1>1. ASSUME IInv PROVE DoneMeansReaped
    BY <1>1 DEF IInv, ControlInv, JobsHonest, Honest, LastCode, DoneJobs,
       DoneMeansReaped
<1> QED
    BY <1>1, ControlInvariant, PTL

\* The code of a Done job is that of its last stage, and not of the one reaped
\* last.
THEOREM DoneCodeIsLast == Spec => []DoneWithLastCode
<1>1. ASSUME IInv PROVE DoneWithLastCode
    BY <1>1 DEF IInv, ControlInv, JobsHonest, Honest, LastCode, DoneJobs,
       DoneWithLastCode
<1> QED
    BY <1>1, ControlInvariant, PTL

\* wait %n returns the exit code of the job's last stage when the job is Done,
\* or gives up with 127, and that only if the SIGCHLD handler, fg or an earlier
\* wait had reaped one of the job's processes before it was given.
THEOREM WaitAnswers == Spec => []WaitAnswersLastCode
<1>1. ASSUME IInv PROVE WaitAnswersLastCode
    <2> SUFFICES ASSUME pc = "wait", waitpids = <<>>, targets = <<>>, subject # NoJob
                 PROVE  \/ /\ subject \in DoneJobs
                           /\ last = exit[LastPid(jobs[subject])]
                        \/ /\ subject \notin DoneJobs
                           /\ last = NotAChild
                           /\ ~ Range(jobs[subject].pids) \subseteq asked
        BY DEF WaitAnswersLastCode
    <2>1. subject \in JobIds /\ (AfterSubject \/ GaveUpSubject)
        BY <1>1 DEF IInv, ControlInv, WaitSubject, BeforeSubject, WithinSubject
    <2>2. LastCode(jobs[subject], exit)
        BY <1>1, <2>1 DEF IInv, ControlInv, JobsHonest
    <2> QED
        BY <2>1, <2>2 DEF AfterSubject, GaveUpSubject, LastCode, DoneJobs
<1> QED
    BY <1>1, ControlInvariant, PTL

\* As long as fg is not used, a job does not stay Running or Stopped when all
\* of its processes have been reaped.
THEOREM ReapedIsDone == "fg" \notin Commands => (Spec => []ReapedMeansDone)
<1> SUFFICES ASSUME "fg" \notin Commands PROVE Spec => []ReapedMeansDone
    OBVIOUS
<1>1. ASSUME IInv PROVE ReapedMeansDone
    <2> SUFFICES ASSUME NEW i \in JobIds, AllReaped(jobs[i])
                 PROVE  jobs[i].status \in Code
        BY DEF ReapedMeansDone
    <2>1. \A p \in Range(jobs[i].pids) : jobs[i].pid_status[p] \in Code
        BY <1>1 DEF IInv, ControlInv, JobsHonest, Honest, AllReaped
    <2>2. CompletionKept(jobs[i]) /\ LastPid(jobs[i]) \in Range(jobs[i].pids)
        BY <1>1, JobShape DEF IInv
    <2> QED
        BY <2>1, <2>2 DEF CompletionKept
<1> QED
    BY <1>1, ControlInvariant, PTL

-----------------------------------------------------------------------------
(* What wait promises *)

\* wait has still to come to a job of one process that it promised to wait
\* for, is waiting for it, or the process has ended.
WaitPromise ==
    pc = "wait" =>
        \A i \in JobIds :
            Len(jobs[i].pids) = 1 /\ jobs[i].pids[1] \in asked =>
                \/ ~ Alive(jobs[i].pids[1])
                \/ i \in Range(targets)
                \/ waitpids = jobs[i].pids

\* The first of a job's processes was started.
LEMMA FirstProcess ==
    ASSUME IInv, NEW i \in JobIds
    PROVE  /\ jobs[i].pids[1] \in Pid
           /\ jobs[i].pids[1] \in Range(jobs[i].pids)
           /\ proc[jobs[i].pids[1]] # "free"
           /\ jobs[i].status \in Code => ~ Alive(jobs[i].pids[1])
<1>1. jobs[i].pids \in Seq(Pid) /\ jobs[i].pids # <<>>
    BY JobShape DEF IInv
<1>2. jobs[i].pids[1] \in Pid /\ 1 \in DOMAIN jobs[i].pids
    BY <1>1
<1>3. jobs[i].pids[1] \in Range(jobs[i].pids)
    BY <1>2 DEF Range
<1> QED
    BY <1>2, <1>3 DEF IInv, ControlInv, JobsHonest, Honest, Alive

\* All active jobs are listed in order, as there are places for all of them.
LEMMA OrderIsComplete ==
    ASSUME JobTableInv, NEW ids \in InOrder(ActiveJobs)
    PROVE  Range(ids) = ActiveJobs
<1> DEFINE n == Cardinality(ActiveJobs)
<1>1. /\ n \in Nat
      /\ ids \in [1..n -> ActiveJobs]
      /\ \A i, j \in 1..n : i < j => ids[i] < ids[j]
    BY ActiveJobsFinite DEF InOrder
<1>2. ActiveJobs \subseteq Nat
    BY JobTableInvParts DEF ActiveJobs
<1>3. IsFiniteSet(ActiveJobs)
    <2>1. next_job_id - 1 \in Int /\ 1 \in Int /\ ActiveJobs \subseteq 1..(next_job_id - 1)
        BY JobTableInvParts DEF ActiveJobs
    <2>2. IsFiniteSet(1..(next_job_id - 1))
        BY <2>1, FS_Interval
    <2> QED
        BY <2>1, <2>2, FS_Subset
<1>4. IsFiniteSet(1..n) /\ Cardinality(1..n) = n
    <2>1. 1 \in Int /\ n \in Int
        BY <1>1
    <2>2. IsFiniteSet(1..n) /\ Cardinality(1..n) = IF 1 > n THEN 0 ELSE n - 1 + 1
        BY <2>1, FS_Interval
    <2> HIDE DEF n
    <2> QED
        BY <1>1, <2>2
<1>5. ASSUME NEW x \in ActiveJobs, x \notin Range(ids) PROVE FALSE
    <2> DEFINE others == ActiveJobs \ {x}
    <2>1. IsFiniteSet(others) /\ Cardinality(others) = n - 1
        BY <1>3, <1>5, FS_RemoveElement
    <2>2. ids \in [1..n -> others]
        BY <1>1, <1>5 DEF Range
    <2>3. Cardinality(others) < Cardinality(1..n)
        BY <1>1, <1>4, <2>1
    <2> HIDE DEF n, others
    <2>4. \E i, j \in 1..n : i # j /\ ids[i] = ids[j]
        BY <1>4, <2>1, <2>2, <2>3, FS_PigeonHole
    <2>5. PICK i \in 1..n, j \in 1..n : i # j /\ ids[i] = ids[j]
        BY <2>4
    <2>6. ids[i] \in Nat /\ i \in Nat /\ j \in Nat
        <3>1. ids[i] \in ActiveJobs
            BY <1>1
        <3>2. 1..n \subseteq Nat
            BY <1>1
        <3> QED
            BY <1>2, <3>1, <3>2
    <2>7. i < j \/ j < i
        BY <2>5, <2>6
    <2>8. ids[i] < ids[i]
        BY <1>1, <2>5, <2>7
    <2> QED
        BY <2>6, <2>8
<1>6. Range(ids) \subseteq ActiveJobs
    BY <1>1 DEF Range
<1> QED
    BY <1>5, <1>6

\* It begins with all jobs that can have a process alive, or with its operand.
LEMMA PromiseMade ==
    ASSUME IInv, WaitAll \/ WaitJob \/ WaitPid
    PROVE  WaitPromise'
<1>1. CASE WaitAll
    <2>1. PICK ids \in InOrder(ActiveJobs) :
              BeginWait(ids, <<>>, TRUE, NoJob, Unreaped(JobIds))
        BY <1>1 DEF WaitAll
    <2>2. waitall' /\ targets' = ids /\ jobs' = jobs /\ JobIds' = JobIds /\ proc' = proc
        BY <2>1 DEF BeginWait, jtVars, kernelVars, JobIds
    <2>3. ASSUME NEW i \in JobIds, Alive(jobs[i].pids[1])
          PROVE  i \in Range(ids)
        <3>1. i \in ActiveJobs
            BY <2>3, FirstProcess, JobShape DEF IInv, ActiveJobs, IsActive, JobStatus
        <3> QED
            BY <3>1, OrderIsComplete DEF IInv
    <2> QED
        BY <2>2, <2>3 DEF WaitPromise, Alive
<1>2. CASE WaitJob
    <2>1. PICK i \in JobIds : BeginWait(<<i>>, <<>>, FALSE, i, Unreaped({i}))
        BY <1>2 DEF WaitJob
    <2>2. /\ targets' = <<i>> /\ asked' = Unreaped({i})
          /\ jobs' = jobs /\ JobIds' = JobIds
        BY <2>1 DEF BeginWait, jtVars, JobIds
    <2>3. i \in Range(<<i>>)
        <3>1. 1 \in DOMAIN <<i>> /\ <<i>>[1] = i
            OBVIOUS
        <3> QED
            BY <3>1 DEF Range
    <2>4. ASSUME NEW k \in JobIds, jobs[k].pids[1] \in Unreaped({i})
          PROVE  k = i
        <3>1. jobs[k].pids[1] \in Range(jobs[i].pids)
            BY <2>4 DEF Unreaped
        <3>2. jobs[k].pids[1] \in Range(jobs[k].pids)
            BY FirstProcess
        <3> QED
            BY <3>1, <3>2 DEF IInv, ControlInv, Disjoint, JobIds
    <2> QED
        BY <2>2, <2>3, <2>4 DEF WaitPromise
<1>3. CASE WaitPid
    BY <1>3 DEF WaitPid, BeginWait, WaitPromise
<1> QED
    BY <1>1, <1>2, <1>3

\* The kernel does not bring a process back, and nothing else happens.
LEMMA PromiseUntouched ==
    ASSUME IInv, WaitPromise,
           UNCHANGED <<jobs, pc, targets, waitpids, waitall, asked>>,
           \A p \in Pid : proc[p] # "free" /\ ~ Alive(p) => ~ Alive(p)'
    PROVE  WaitPromise'
<1>1. JobIds' = JobIds
    BY DEF JobIds
<1>2. ASSUME NEW i \in JobIds
      PROVE  ~ Alive(jobs[i].pids[1]) => ~ Alive(jobs[i].pids[1])'
    BY FirstProcess DEF Alive
<1> QED
    BY <1>1, <1>2 DEF WaitPromise, Alive

\* A job is passed when it is Done, or its process is waited for.
LEMMA PromiseKept ==
    ASSUME IInv, WaitPromise, Wait
    PROVE  WaitPromise'
<1> SUFFICES ASSUME pc = "wait", pc' = "wait" PROVE WaitPromise'
    BY DEF Wait, WaitNextJob, WaitKnownDone, WaitReap, WaitNotAChild, WaitEnd, WaitPromise
<1> DEFINE first(i) == jobs[i].pids[1]
<1>1. CASE WaitNextJob
    <2> DEFINE i == Head(targets)
    <2>1. /\ waitpids = <<>> /\ targets # <<>> /\ targets' = Tail(targets)
          /\ jobs[i].status \in Code \/ waitpids' = jobs[i].pids
          /\ jobs' = jobs /\ proc' = proc /\ waitall' = waitall /\ asked' = asked
          /\ JobIds' = JobIds
        BY <1>1 DEF WaitNextJob, jtVars, kernelVars, JobIds
    <2>2. targets \in Seq(JobIds)
        BY DEF IInv, ControlInv, WaitTargets
    <2>3. i \in JobIds /\ \A k \in Range(targets) : k = i \/ k \in Range(Tail(targets))
        <3>1. /\ i = targets[1] /\ i \in JobIds
              /\ Len(targets) \in Nat \ {0} /\ DOMAIN targets = 1..Len(targets)
              /\ DOMAIN Tail(targets) = 1..(Len(targets) - 1)
              /\ \A j \in 1..(Len(targets) - 1) : Tail(targets)[j] = targets[j + 1]
            BY <2>1, <2>2
        <3>2. ASSUME NEW j \in 1..Len(targets), j # 1
              PROVE  targets[j] \in Range(Tail(targets))
            <4>1. j - 1 \in 1..(Len(targets) - 1) /\ (j - 1) + 1 = j
                BY <3>1, <3>2
            <4>2. Tail(targets)[j - 1] = targets[j]
                BY <3>1, <4>1
            <4> QED
                BY <3>1, <4>1, <4>2 DEF Range
        <3> QED
            BY <3>1, <3>2 DEF Range
    <2> HIDE DEF i
    <2>4. ASSUME NEW k \in JobIds, Len(jobs[k].pids) = 1, first(k) \in asked
          PROVE  ~ Alive(first(k)) \/ k \in Range(targets') \/ waitpids' = jobs[k].pids
        <3>1. waitpids # jobs[k].pids
            BY <2>1, JobShape DEF IInv
        <3>2. ~ Alive(first(k)) \/ k = i \/ k \in Range(targets')
            BY <2>1, <2>3, <2>4, <3>1 DEF WaitPromise
        <3> QED
            BY <2>1, <2>3, <3>2, FirstProcess
    <2> QED
        BY <2>1, <2>4 DEF WaitPromise, Alive
<1>2. CASE WaitKnownDone \/ WaitNotAChild
    <2>1. /\ waitpids # <<>>
          /\ UNCHANGED <<jobs, proc, targets, waitall, asked>>
          /\ JobIds' = JobIds
        <3>1. AfterCommand # "wait"
            BY AfterCommandType
        <3> QED
            BY <1>2, <3>1 DEF WaitKnownDone, WaitNotAChild, jtVars, kernelVars, JobIds
    <2>2. ~ Alive(Head(waitpids))
        <3>1. CASE WaitKnownDone
            <4>1. PICK i \in DoneJobsOf(Head(waitpids)) : TRUE
                BY <3>1 DEF WaitKnownDone
            <4> QED
                BY <4>1 DEF DoneJobsOf, JobsOfPid, IInv, ControlInv, JobsHonest, Honest, Alive
        <3>2. CASE WaitNotAChild
            BY <3>2 DEF WaitNotAChild, Alive
        <3> QED
            BY <1>2, <3>1, <3>2
    <2>3. \A i \in JobIds : waitpids = jobs[i].pids => ~ Alive(first(i))
        <3> SUFFICES ASSUME NEW i \in JobIds, waitpids = jobs[i].pids
                     PROVE  ~ Alive(first(i))
            OBVIOUS
        <3>1. waitpids \in Seq(Pid)
            BY DEF IInv, ControlInv, LocalsOK
        <3>2. Head(waitpids) = first(i)
            BY <2>1, <3>1
        <3> QED
            BY <2>2, <3>2
    <2> QED
        BY <2>1, <2>3 DEF WaitPromise, Alive
<1>3. CASE WaitReap
    <2> DEFINE p == Head(waitpids)
    <2>1. /\ waitpids # <<>> /\ Reap(p) /\ UpdateJobStatus(p, exit[p])
          /\ UNCHANGED <<targets, waitall, asked>>
        BY <1>3 DEF WaitReap
    <2>2. waitpids \in Seq(Pid) /\ p \in Pid
        BY <2>1, RestOfProcesses DEF IInv, ControlInv, LocalsOK
    <2>3. \A i \in JobIds : waitpids = jobs[i].pids => p = first(i)
        BY <2>1, <2>2
    <2> HIDE DEF p
    <2>4. /\ JobIds' = JobIds
          /\ \A k \in JobIds :
                IF p \in Range(jobs[k].pids)
                THEN jobs'[k] = WithPidStatus(jobs[k], p, exit[p])
                ELSE jobs'[k] = jobs[k]
          /\ exit[p] \in JobStatus
        BY <2>1, <2>2, ExitRecorded DEF IInv, ControlInv, JobStatus
    <2>5. \A k \in JobIds : jobs'[k].pids = jobs[k].pids
        BY <2>4, JobShape, WithPidStatusOK DEF IInv
    <2>6. \A q \in Pid : Alive(q)' => Alive(q) /\ q # p
        BY <2>1, <2>2 DEF Reap, Alive, IInv, ControlInv, KernelOK
    <2>7. \A k \in JobIds : first(k) \in Pid
        BY FirstProcess
    <2> QED
        BY <2>1, <2>3, <2>4, <2>5, <2>6, <2>7 DEF WaitPromise, Alive
<1>4. CASE WaitEnd
    BY <1>4, AfterCommandType DEF WaitEnd
<1> QED
    BY <1>1, <1>2, <1>3, <1>4 DEF Wait

LEMMA PromiseStep == IInv /\ WaitPromise /\ [Next]_vars => WaitPromise'
<1> SUFFICES ASSUME IInv, WaitPromise, [Next]_vars PROVE WaitPromise'
    OBVIOUS
<1>1. CASE Kernel
    <2>1. UNCHANGED <<jobs, pc, targets, waitpids, waitall, asked>>
        BY <1>1 DEF Kernel, ProcStop, ProcExit, jtVars, waitVars
    <2>2. \A p \in Pid : proc[p] # "free" /\ ~ Alive(p) => ~ Alive(p)'
        BY <1>1 DEF Kernel, ProcStop, ProcExit, Alive, IInv, ControlInv, KernelOK
    <2> QED
        BY <2>1, <2>2, PromiseUntouched
<1>2. CASE SignalThread \/ Interrupt \/ UNCHANGED vars
    BY <1>2, PromiseUntouched
    DEF SignalThread, Interrupt, vars, jtVars, kernelVars, waitVars, Alive
<1>3. CASE Wait
    BY <1>3, PromiseKept
<1>4. CASE WaitAll \/ WaitJob \/ WaitPid
    BY <1>4, PromiseMade
<1>5. CASE SafePoint
    BY <1>5
    DEF SafePoint, Drain, ReapOne, ReapNone, NotifyDone, NotifyEnd, ReapingAt,
        AfterSafePoint, WaitPromise
<1>6. CASE Query \/ StartBackground \/ BgResume \/ KillJob \/ RunForeground \/ FgDone \/ FgStart
    BY <1>6, AfterCommandType
    DEF Query, StartBackground, BgResume, KillJob, RunForeground, FgDone, FgStart,
        WaitPromise
<1>7. CASE Fg \/ ForegroundExit
    BY <1>7, AfterCommandType DEF Fg, FgWait, FgEnd, ForegroundExit, WaitPromise
<1> QED
    BY <1>1, <1>2, <1>3, <1>4, <1>5, <1>6, <1>7 DEF Next, Prompt

\* wait does not come to its end while the process of a job that it waits for,
\* of one process, is alive, running or stopped, whoever reaps it.
THEOREM WaitsForSingles == Spec => []WaitAllWaitsForSingles
<1>1. Init => WaitPromise
    BY DEF Init, WaitPromise
<1>2. Spec => [](IInv /\ WaitPromise)
    BY <1>1, ControlInvariant, PromiseStep, PTL DEF Spec
<1>3. ASSUME IInv, WaitPromise PROVE WaitAllWaitsForSingles
    <2>1. \A i \in JobIds : jobs[i].pids # <<>>
        BY <1>3, JobShape DEF IInv
    <2> QED
        BY <1>3, <2>1 DEF WaitPromise, WaitAllWaitsForSingles, Range
<1> QED
    BY <1>2, <1>3, PTL

=============================================================================
