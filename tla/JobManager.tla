----------------------------- MODULE JobManager -----------------------------
(***************************************************************************)
(* The controller: the worker registry, the job manager and the HTTP       *)
(* handlers that drive them (internal/controller).                         *)
(*                                                                         *)
(* Every HTTP request is served by a goroutine of its own.  The registry   *)
(* has a lock that is held for one map operation at a time, so registry    *)
(* operations are single steps.  The job manager's lock is held for a      *)
(* whole StartJob or StopJob, outgoing HTTP calls included: its critical   *)
(* sections are several steps here, between which other requests may use   *)
(* the registry but not the jobs.  CreateJob, MarkJobStopped and           *)
(* HandleWorkerCompletion make no outgoing call while they hold the lock   *)
(* and are single steps.                                                   *)
(***************************************************************************)
EXTENDS Naturals, FiniteSets

CONSTANTS
  Workers,   \* the worker processes that may register
  MaxJobs    \* bound: job identifiers drawn over the whole behaviour

ASSUME MaxJobsAssumption == MaxJobs \in Nat

Jobs == 1..MaxJobs
NoJob == 0

Outcome == {"completed", "failed"}
WorkerStatus == {"absent", "idle", "busy"}
JobStatus == {"none", "pending", "running", "stopped"} \cup Outcome
AssignmentStatus == {"none", "assigned", "running", "stopped"} \cup Outcome
TaskStatus == {"none", "todo", "marked", "sending", "acked", "lost", "skipped"}

VARIABLES
  wStatus,      \* worker -> Worker.Status in the registry; "absent": no entry
  wJob,         \* worker -> Worker.CurrentJob
  jobStatus,    \* job -> Job.Status; "none": not in the jobs map
  asg,          \* job -> worker -> WorkerAssignment.Status; "none": not assigned
  jobCounter,   \* identifiers drawn so far
  lock,         \* who holds JobManager.mu across steps
  lockJob,      \* the job that StartJob or StopJob is working on
  task,         \* worker -> progress of the lock holder with that worker
  starting,     \* jobs whose StartJobHandler is between CreateJob and StartJob
  stopping,     \* jobs a StopJobHandler has chosen and not yet stopped
  marking,      \* ended jobs a StopJobHandler has chosen to relabel
  delivered     \* <<worker, job>>: /start requests that may have reached it

registryVars == <<wStatus, wJob>>
lockVars == <<lock, lockJob, task>>
handlerVars == <<starting, stopping, marking>>
vars == <<wStatus, wJob, jobStatus, asg, jobCounter, lock, lockJob, task,
          starting, stopping, marking, delivered>>

NoTeam == [w \in Workers |-> "none"]
NoTasks == [w \in Workers |-> "none"]

Team(j) == {w \in Workers : asg[j][w] # "none"}

\* hasRunningJob(excludeID); NoJob excludes nothing.
OtherRunning(j) == \E k \in Jobs \ {j} : jobStatus[k] = "running"

Init ==
  /\ wStatus = [w \in Workers |-> "absent"]
  /\ wJob = [w \in Workers |-> NoJob]
  /\ jobStatus = [j \in Jobs |-> "none"]
  /\ asg = [j \in Jobs |-> NoTeam]
  /\ jobCounter = 0
  /\ lock = "free" /\ lockJob = NoJob /\ task = NoTasks
  /\ starting = {} /\ stopping = {} /\ marking = {}
  /\ delivered = {}

-----------------------------------------------------------------------------
(* The registry.                                                           *)

\* Bug: a re-registration flips a busy worker to idle.
RegisterWorkerAfresh(w) ==
  /\ wStatus' = [wStatus EXCEPT ![w] = "idle"]
  /\ UNCHANGED <<wJob, jobStatus, asg, jobCounter, lockVars, handlerVars, delivered>>

\* A first registration, or one after an unregistration.  A registration
\* that finds an entry refreshes its address and keeps status and job, a
\* stuttering step.
RegisterWorker(w) ==
  /\ wStatus[w] = "absent"
  /\ wStatus' = [wStatus EXCEPT ![w] = "idle"]
  /\ UNCHANGED <<wJob, jobStatus, asg, jobCounter, lockVars, handlerVars, delivered>>

\* DELETE /workers/{id}, and the removal that ends POST /workers/{id}/exit.
UnregisterWorker(w) ==
  /\ wStatus[w] # "absent"
  /\ wStatus' = [wStatus EXCEPT ![w] = "absent"]
  /\ wJob' = [wJob EXCEPT ![w] = NoJob]
  /\ UNCHANGED <<jobStatus, asg, jobCounter, lockVars, handlerVars, delivered>>

-----------------------------------------------------------------------------
(* POST /job/start: CreateJob, then StartJob, with the lock released in    *)
(* between.                                                                *)

\* The assigned workers are any of the idle ones: the registry is a Go map.
\* A pending job reserves nothing, so two jobs may be given the same worker.
CreateJob(team) ==
  /\ lock = "free"
  /\ ~OtherRunning(NoJob)
  /\ team # {}
  /\ \A w \in team : wStatus[w] = "idle"
  /\ jobCounter < MaxJobs
  /\ jobCounter' = jobCounter + 1
  /\ jobStatus' = [jobStatus EXCEPT ![jobCounter + 1] = "pending"]
  /\ asg' = [asg EXCEPT ![jobCounter + 1] =
               [w \in Workers |-> IF w \in team THEN "assigned" ELSE "none"]]
  /\ starting' = starting \cup {jobCounter + 1}
  /\ UNCHANGED <<registryVars, lockVars, stopping, marking, delivered>>

\* A target that does not parse is found after the identifier was drawn.
CreateJobInvalidTarget ==
  /\ lock = "free"
  /\ ~OtherRunning(NoJob)
  /\ \E w \in Workers : wStatus[w] = "idle"
  /\ jobCounter < MaxJobs
  /\ jobCounter' = jobCounter + 1
  /\ UNCHANGED <<registryVars, jobStatus, asg, lockVars, handlerVars, delivered>>

\* Bug: the check made by CreateJob is not repeated.
CanStartUnchecked(j) == jobStatus[j] = "pending"

CanStart(j) == ~OtherRunning(j) /\ jobStatus[j] = "pending"

StartJob(j) ==
  /\ j \in starting
  /\ lock = "free"
  /\ CanStart(j)
  /\ lock' = "start" /\ lockJob' = j
  /\ task' = [w \in Workers |-> IF w \in Team(j) THEN "todo" ELSE "none"]
  /\ jobStatus' = [jobStatus EXCEPT ![j] = "running"]
  /\ starting' = starting \ {j}
  /\ UNCHANGED <<registryVars, asg, jobCounter, stopping, marking, delivered>>

\* The handler answers 409; the job it created stays in the jobs map.
StartJobRefused(j) ==
  /\ j \in starting
  /\ lock = "free"
  /\ ~CanStart(j)
  /\ starting' = starting \ {j}
  /\ UNCHANGED <<registryVars, jobStatus, asg, jobCounter, lockVars, stopping,
                 marking, delivered>>

\* One turn of the loop in StartJob up to UpdateWorkerStatus.  The loop takes
\* the workers one at a time, in the order the registry's map gave them.
StartMarkBusy(w) ==
  /\ lock = "start"
  /\ task[w] = "todo"
  /\ \A v \in Workers : task[v] # "marked"
  /\ asg' = [asg EXCEPT ![lockJob][w] = "running"]
  /\ IF wStatus[w] = "absent"
       THEN /\ task' = [task EXCEPT ![w] = "skipped"]
            /\ UNCHANGED wStatus
       ELSE /\ task' = [task EXCEPT ![w] = "marked"]
            /\ wStatus' = [wStatus EXCEPT ![w] = "busy"]
  /\ UNCHANGED <<wJob, jobStatus, jobCounter, lock, lockJob, handlerVars, delivered>>

\* The rest of the turn: UpdateWorkerJob and the go statement.
StartMarkJob(w) ==
  /\ lock = "start"
  /\ task[w] = "marked"
  /\ IF wStatus[w] = "absent"
       THEN /\ task' = [task EXCEPT ![w] = "skipped"]
            /\ UNCHANGED wJob
       ELSE /\ task' = [task EXCEPT ![w] = "sending"]
            /\ wJob' = [wJob EXCEPT ![w] = lockJob]
  /\ UNCHANGED <<wStatus, jobStatus, asg, jobCounter, lock, lockJob,
                 handlerVars, delivered>>

\* The sending goroutine looks the worker up and posts /start.  The answer may
\* be lost after the worker has accepted the job: a timeout, a broken
\* connection.  A refusal (409, 400, 500) is "lost" without a delivery.
SendJobToWorker(w) ==
  /\ lock = "start"
  /\ task[w] = "sending"
  /\ \/ /\ wStatus[w] # "absent"
        /\ task' = [task EXCEPT ![w] = "acked"]
        /\ delivered' = delivered \cup {<<w, lockJob>>}
     \/ /\ task' = [task EXCEPT ![w] = "lost"]
        /\ UNCHANGED delivered
     \/ /\ wStatus[w] # "absent"
        /\ task' = [task EXCEPT ![w] = "lost"]
        /\ delivered' = delivered \cup {<<w, lockJob>>}
  /\ UNCHANGED <<registryVars, jobStatus, asg, jobCounter, lock, lockJob, handlerVars>>

\* Bug: a worker that is skipped was already added to the wait group.
SentButSkipped(t) == t \in {"none", "acked", "lost"}

\* Bug: wg.Done is not reached when a request fails.
SentButLost(t) == t \in {"none", "acked", "skipped"}

\* Bug: the wait group is not waited for.
SentUnwaited(t) == t # "todo" /\ t # "marked"

Sent(t) == t \in {"none", "acked", "lost", "skipped"}

StartJobReturn ==
  /\ lock = "start"
  /\ \A w \in Workers : Sent(task[w])
  /\ lock' = "free" /\ lockJob' = NoJob /\ task' = NoTasks
  /\ UNCHANGED <<registryVars, jobStatus, asg, jobCounter, handlerVars, delivered>>

-----------------------------------------------------------------------------
(* DELETE /job/stop: the handler lists the jobs, chooses one, and only     *)
(* then asks for the lock again.                                           *)

StopJobPick(j) ==
  /\ lock = "free"
  /\ jobStatus[j] = "running"
  /\ stopping' = stopping \cup {j}
  /\ UNCHANGED <<registryVars, jobStatus, asg, jobCounter, lockVars, starting,
                 marking, delivered>>

\* Bug: assignments are left as they are.
StopJobKeepsAssignments(j) ==
  /\ j \in stopping
  /\ lock = "free"
  /\ jobStatus[j] = "running"
  /\ lock' = "stop" /\ lockJob' = j
  /\ task' = [w \in Workers |-> IF w \in Team(j) THEN "sending" ELSE "none"]
  /\ jobStatus' = [jobStatus EXCEPT ![j] = "stopped"]
  /\ stopping' = stopping \ {j}
  /\ UNCHANGED <<registryVars, asg, jobCounter, starting, marking, delivered>>

\* Every assignment becomes "stopped", those already reported included.
StopJob(j) ==
  /\ j \in stopping
  /\ lock = "free"
  /\ jobStatus[j] = "running"
  /\ lock' = "stop" /\ lockJob' = j
  /\ task' = [w \in Workers |-> IF w \in Team(j) THEN "sending" ELSE "none"]
  /\ jobStatus' = [jobStatus EXCEPT ![j] = "stopped"]
  /\ asg' = [asg EXCEPT ![j] =
               [w \in Workers |-> IF w \in Team(j) THEN "stopped" ELSE "none"]]
  /\ stopping' = stopping \ {j}
  /\ UNCHANGED <<registryVars, jobCounter, starting, marking, delivered>>

StopJobRefused(j) ==
  /\ j \in stopping
  /\ lock = "free"
  /\ jobStatus[j] # "running"
  /\ stopping' = stopping \ {j}
  /\ UNCHANGED <<registryVars, jobStatus, asg, jobCounter, lockVars, starting,
                 marking, delivered>>

StopJobOnWorker(w) ==
  /\ lock = "stop"
  /\ task[w] = "sending"
  /\ \/ wStatus[w] # "absent" /\ task' = [task EXCEPT ![w] = "acked"]
     \/ task' = [task EXCEPT ![w] = "lost"]
  /\ UNCHANGED <<registryVars, jobStatus, asg, jobCounter, lock, lockJob,
                 handlerVars, delivered>>

\* Bug: only the workers that acknowledged the stop are freed.
StopJobReturnAcked ==
  /\ lock = "stop"
  /\ \A w \in Workers : Sent(task[w])
  /\ wStatus' = [w \in Workers |->
                   IF task[w] = "acked" /\ wStatus[w] # "absent" THEN "idle" ELSE wStatus[w]]
  /\ wJob' = [w \in Workers |-> IF task[w] = "acked" THEN NoJob ELSE wJob[w]]
  /\ lock' = "free" /\ lockJob' = NoJob /\ task' = NoTasks
  /\ UNCHANGED <<jobStatus, asg, jobCounter, handlerVars, delivered>>

\* The final loop frees every assigned worker that is still registered,
\* whatever its stop request came to.  Its registry calls are one step: the
\* only other writers of the registry while the lock is held are RegisterWorker
\* and UnregisterWorker, which set the same values.
StopJobReturn ==
  /\ lock = "stop"
  /\ \A w \in Workers : Sent(task[w])
  /\ wStatus' = [w \in Workers |->
                   IF w \in Team(lockJob) /\ wStatus[w] # "absent"
                     THEN "idle" ELSE wStatus[w]]
  /\ wJob' = [w \in Workers |->
                IF w \in Team(lockJob) /\ wStatus[w] # "absent"
                  THEN NoJob ELSE wJob[w]]
  /\ lock' = "free" /\ lockJob' = NoJob /\ task' = NoTasks
  /\ UNCHANGED <<jobStatus, asg, jobCounter, handlerVars, delivered>>

\* No job is running: the last element of the list is taken for the latest
\* job.  The list is a Go map's, so it may be any of them.
StopMarkPick(j) ==
  /\ lock = "free"
  /\ ~OtherRunning(NoJob)
  /\ jobStatus[j] \in Outcome
  /\ marking' = marking \cup {j}
  /\ UNCHANGED <<registryVars, jobStatus, asg, jobCounter, lockVars, starting,
                 stopping, delivered>>

MarkJobStopped(j) ==
  /\ j \in marking
  /\ lock = "free"
  /\ jobStatus' = [jobStatus EXCEPT ![j] = IF @ \in Outcome THEN "stopped" ELSE @]
  /\ marking' = marking \ {j}
  /\ UNCHANGED <<registryVars, asg, jobCounter, lockVars, starting, stopping, delivered>>

-----------------------------------------------------------------------------
(* POST /workers/{id}/completed                                            *)

\* Bug: one failure ends the job.
AggregateHasty(a, old) ==
  LET team == {w \in Workers : a[w] # "none"}
  IN  IF \A w \in team : a[w] = "completed" THEN "completed"
      ELSE IF \E w \in team : a[w] = "failed" THEN "failed" ELSE old

\* Bug: the job fails only when every worker failed.
AggregateAllFailed(a, old) ==
  LET team == {w \in Workers : a[w] # "none"}
  IN  IF \A w \in team : a[w] = "completed" THEN "completed"
      ELSE IF \A w \in team : a[w] = "failed" THEN "failed" ELSE old

\* The job's status once its assignments are a; it was "old" before.
Aggregate(a, old) ==
  LET team == {w \in Workers : a[w] # "none"}
  IN  IF \A w \in team : a[w] = "completed" THEN "completed"
      ELSE IF /\ \E w \in team : a[w] = "failed"
              /\ \A w \in team : a[w] \notin {"running", "assigned"}
             THEN "failed"
             ELSE old

\* The report is applied whatever the status of the job and of the worker's
\* assignment, and the worker is freed whatever job it is busy with.  The two
\* registry calls are one step, as in StopJobReturn.
ApplyReport(w, j, outcome) ==
  /\ lock = "free"
  /\ jobStatus[j] # "none"
  /\ asg[j][w] # "none"
  /\ asg' = [asg EXCEPT ![j][w] = outcome]
  /\ jobStatus' = [jobStatus EXCEPT ![j] = Aggregate(asg'[j], jobStatus[j])]
  /\ wStatus' = [wStatus EXCEPT ![w] = IF @ = "absent" THEN @ ELSE "idle"]
  /\ wJob' = [wJob EXCEPT ![w] = NoJob]
  /\ UNCHANGED <<jobCounter, lockVars, handlerVars, delivered>>

\* A worker may report on any job it was ever handed, at any time, again and
\* again: reports are lost, retried and delayed.
HandleWorkerCompletion(w, j, outcome) ==
  /\ <<w, j>> \in delivered
  /\ ApplyReport(w, j, outcome)

-----------------------------------------------------------------------------
\* The controller process dies and starts again with empty maps.  The workers
\* keep what they were handed.  Identifiers are not drawn twice: they contain
\* the Unix time of their creation.
Restart ==
  /\ wStatus' = [w \in Workers |-> "absent"]
  /\ wJob' = [w \in Workers |-> NoJob]
  /\ jobStatus' = [j \in Jobs |-> "none"]
  /\ asg' = [j \in Jobs |-> NoTeam]
  /\ lock' = "free" /\ lockJob' = NoJob /\ task' = NoTasks
  /\ starting' = {} /\ stopping' = {} /\ marking' = {}
  /\ UNCHANGED <<jobCounter, delivered>>

Next ==
  \/ \E w \in Workers :
       \/ RegisterWorker(w) \/ UnregisterWorker(w)
       \/ StartMarkBusy(w) \/ StartMarkJob(w) \/ SendJobToWorker(w)
       \/ StopJobOnWorker(w)
  \/ \E team \in SUBSET Workers : CreateJob(team)
  \/ CreateJobInvalidTarget
  \/ \E j \in Jobs :
       \/ StartJob(j) \/ StartJobRefused(j)
       \/ StopJobPick(j) \/ StopJob(j) \/ StopJobRefused(j)
       \/ StopMarkPick(j) \/ MarkJobStopped(j)
  \/ StartJobReturn \/ StopJobReturn
  \/ \E w \in Workers, j \in Jobs, o \in Outcome : HandleWorkerCompletion(w, j, o)
  \/ Restart

Spec == Init /\ [][Next]_vars

\* The loops inside the critical sections run on, and the HTTP client's timeout
\* bounds every request they wait for.  A goroutine that waits for the job
\* manager's lock gets it in the end, although the lock may be taken and
\* released in between: Go's mutexes hand over to the longest waiter.
Fairness ==
  /\ \A w \in Workers : WF_vars(StartMarkBusy(w) \/ StartMarkJob(w) \/ SendJobToWorker(w))
  /\ \A w \in Workers : WF_vars(StopJobOnWorker(w))
  /\ WF_vars(StartJobReturn) /\ WF_vars(StopJobReturn)
  /\ \A j \in Jobs : SF_vars(StartJob(j) \/ StartJobRefused(j))
  /\ \A j \in Jobs : SF_vars(StopJob(j) \/ StopJobRefused(j))
  /\ \A j \in Jobs : SF_vars(MarkJobStopped(j))

-----------------------------------------------------------------------------
(* Safety.                                                                 *)

\* Every variable stays in the set of values its Go type and the constants of
\* types.go give it.
TypeOK ==
  /\ wStatus \in [Workers -> WorkerStatus]
  /\ wJob \in [Workers -> Jobs \cup {NoJob}]
  /\ jobStatus \in [Jobs -> JobStatus]
  /\ asg \in [Jobs -> [Workers -> AssignmentStatus]]
  /\ jobCounter \in 0..MaxJobs
  /\ lock \in {"free", "start", "stop"}
  /\ lockJob \in Jobs \cup {NoJob}
  /\ task \in [Workers -> TaskStatus]
  /\ starting \subseteq Jobs /\ stopping \subseteq Jobs /\ marking \subseteq Jobs
  /\ delivered \subseteq Workers \X Jobs

\* At most one job is running (the check in CreateJob, lines 54-57, and again
\* in StartJob, lines 130-133, because the lock is released between the two),
\* late reports and controller restarts included.
SingleRunningJob ==
  \A j, k \in Jobs : jobStatus[j] = "running" /\ jobStatus[k] = "running" => j = k

\* A worker the registry shows as working on a job is working on one that is
\* still running and that still awaits its report, or is being stopped at this
\* moment: no order of stops, reports, registrations and restarts leaves a
\* worker tied to a job that is over, where it would never be freed.
NoLeakedWorker ==
  /\ \A w \in Workers : wJob[w] # NoJob =>
       \/ jobStatus[wJob[w]] = "running" /\ asg[wJob[w]][w] = "running"
       \/ lock = "stop" /\ lockJob = wJob[w] /\ asg[wJob[w]][w] = "stopped"
  /\ \A w \in Workers : wStatus[w] = "busy" => wJob[w] # NoJob \/ task[w] = "marked"

\* A running job, outside StartJob, still awaits some worker's report: it is
\* never left running after the last report (HandleWorkerCompletion, 287-324).
RunningJobAwaitsReport ==
  \A j \in Jobs : jobStatus[j] = "running" /\ lockJob # j =>
    \E w \in Workers : asg[j][w] = "running"

\* A job that has ended, in whatever way, awaits no one: a failure is not
\* declared while another assignment is open (lines 306-313), and no handler
\* reopens an assignment of an ended job.
EndedMeansClosed ==
  \A j \in Jobs : jobStatus[j] \in {"stopped"} \cup Outcome =>
    \A w \in Workers : asg[j][w] \notin {"assigned", "running"}

\* Jobs behave as JobLifecycle promises, which sees an assignment as open until
\* the worker has reported on it or was told to stop.
resultOf == [j \in Jobs |-> [w \in Workers |->
               IF asg[j][w] \in {"assigned", "running"} THEN "open" ELSE asg[j][w]]]

Lifecycle == INSTANCE JobLifecycle WITH
  Jobs <- Jobs, status <- jobStatus, result <- resultOf

ImplementsLifecycle == Lifecycle!LifecycleSpec

\* What a critical section has done so far to the job it holds.
LockInv ==
  /\ lock = "free" <=> lockJob = NoJob
  /\ lock = "free" => \A w \in Workers : task[w] = "none"
  /\ lock # "free" => \A w \in Workers : task[w] = "none" <=> asg[lockJob][w] = "none"
  /\ lock = "start" =>
       /\ jobStatus[lockJob] = "running"
       /\ \A w \in Workers :
            /\ task[w] = "todo" => asg[lockJob][w] = "assigned"
            /\ task[w] \notin {"none", "todo"} => asg[lockJob][w] = "running"
  /\ lock = "stop" =>
       /\ jobStatus[lockJob] = "stopped" /\ ~OtherRunning(NoJob)
       /\ \A w \in Workers :
            /\ asg[lockJob][w] \in {"none", "stopped"}
            /\ task[w] \notin {"todo", "marked"}

\* What the status of a job says about its assignments.
AssignmentInv ==
  \A j \in Jobs :
    /\ jobStatus[j] # "none" => j <= jobCounter /\ Team(j) # {}
    /\ jobStatus[j] = "pending" => \A w \in Workers : asg[j][w] \in {"none", "assigned"}
    /\ jobStatus[j] = "running" /\ lockJob # j =>
         \A w \in Workers : asg[j][w] \in {"none", "running"} \cup Outcome

\* A job reaches a worker only once it runs; an absent worker has no job.
DeliveryInv ==
  /\ \A w \in Workers, j \in Jobs : <<w, j>> \in delivered =>
       j <= jobCounter /\ jobStatus[j] # "pending"
  /\ \A w \in Workers : wStatus[w] = "absent" => wJob[w] = NoJob

\* The inductive invariant of the specification: the safety properties, and
\* how far along each job, critical section and delivery is.
IInv ==
  /\ TypeOK
  /\ SingleRunningJob /\ NoLeakedWorker /\ RunningJobAwaitsReport /\ EndedMeansClosed
  /\ LockInv /\ AssignmentInv /\ DeliveryInv

\* A report on an assignment that is not open: the worker has reported on it
\* before, was told to stop, or reports before StartJob has marked it.
LateReport(w, j) ==
  /\ asg[j][w] # "running"
  /\ \E o \in Outcome : HandleWorkerCompletion(w, j, o)

\* A job that has ended keeps its status, but for the relabelling of a stop
\* request and for a late report on that very job: a report that comes in time,
\* a registration or another job's end never revives it.
TerminalIsFinal ==
  [][\A j \in Jobs : jobStatus[j] \in {"stopped"} \cup Outcome =>
       \/ jobStatus'[j] \in {jobStatus[j], "stopped", "none"}
       \/ \E w \in Workers : LateReport(w, j)]_vars

\* A busy worker is freed only when its job is done with it, by the report it
\* owed or by the stop of that very job, or by its own late report on another
\* one: never by what another worker says or by a registration.
FreedOnlyWhenDone ==
  [][\A w \in Workers : wStatus[w] = "busy" /\ wJob[w] # NoJob /\ wStatus'[w] = "idle"
       => \/ asg'[wJob[w]][w] # "running"
          \/ \E j \in Jobs : LateReport(w, j)]_vars

-----------------------------------------------------------------------------
(* Liveness.                                                               *)

\* Every POST /job/start and every DELETE /job/stop is answered.
RequestsAreAnswered ==
  /\ \A j \in Jobs : j \in starting ~> j \notin starting
  /\ \A j \in Jobs : j \in stopping ~> j \notin stopping
  /\ \A j \in Jobs : j \in marking ~> j \notin marking

-----------------------------------------------------------------------------
(* What the comments of the code say and the code does not do.             *)

\* mock_redis_test.go:201-214, after DELETE /job/stop: "Verify job is stopped",
\* "Expected final job status 'stopped'".
StoppedJobStaysStopped ==
  [][\A j \in Jobs : jobStatus[j] = "stopped" => jobStatus'[j] \in {"stopped", "none"}]_vars
=============================================================================
