------------------------------- MODULE Cluster -------------------------------
(***************************************************************************)
(* The controller (JobManager) and one of its workers (WorkerService),     *)
(* joined by the messages they exchange: POST /start and DELETE /stop from *)
(* the controller, POST /workers/{id}/completed from the worker.           *)
(*                                                                         *)
(* The controller waits for the answer to each request, but not for ever:  *)
(* when its HTTP client times out, the request may still be on its way and *)
(* be handled later.  A report is posted once, and may be lost or come     *)
(* late.  Either process may die and start again.                          *)
(*                                                                         *)
(* The worker gets its requests from this controller only.  A job carries  *)
(* one /start and at most one /stop to the worker, so that the identifier  *)
(* of a job also names its requests and its run.  The steps of the two     *)
(* processes are those of their own modules; what this module adds is when *)
(* a message makes them happen.                                            *)
(***************************************************************************)
EXTENDS Naturals

CONSTANTS
  Worker,    \* the worker process
  MaxJobs,   \* bound: job identifiers drawn over the whole behaviour
  MaxFaults  \* bound: what may go wrong between the two over the behaviour

ASSUME BoundsAssumption == MaxJobs \in Nat /\ MaxFaults \in Nat

VARIABLES
  wStatus, wJob, jobStatus, asg, jobCounter, lock, lockJob, task,
  starting, stopping, marking,                                \* as in JobManager
  status, jobId, owner, cancelFn, pc, runJob, cancelled,
  stopPc, reports, client, meddled,
                        \* as in WorkerService; but reports: those on their way
  start,      \* job -> where the /start request of the job is
  stop,       \* job -> where the /stop request of the job is
  faults,     \* how often something has gone wrong (of the model only)
  mistaken    \* the jobs that a report of another job's run was applied to (of
              \* the model only: a report does not say which run it is of)

controllerVars == <<wStatus, wJob, jobStatus, asg, jobCounter, lock, lockJob, task,
                    starting, stopping, marking>>
workerStateVars == <<status, jobId, owner, cancelFn, pc, runJob, cancelled, stopPc, client,
                    meddled>>
workerVars == <<workerStateVars, reports>>
netVars == <<start, stop, faults, mistaken>>
vars == <<controllerVars, workerVars, netVars>>

\* The operations of the controller; its record of what it has delivered, which
\* stands for the network, is not used here.
C == INSTANCE JobManager WITH Workers <- {Worker}, delivered <- {}

Jobs == C!Jobs

W == INSTANCE WorkerService WITH
  Runs <- Jobs, Stops <- Jobs, NoJob <- 0, NoRun <- 0

\* unsent: the worker was not registered; posted: on its way, the controller
\* waits for the answer; taken: at the worker; late: on its way, the controller
\* has given up; strayed: at the worker, after that; failed: it never arrives.
RequestStatus == {"none", "unsent", "posted", "taken", "late", "strayed", "failed"}

Init ==
  /\ C!Init /\ W!Init
  /\ start = [j \in Jobs |-> "none"]
  /\ stop = [j \in Jobs |-> "none"]
  /\ faults = 0 /\ mistaken = {}

\* Something goes wrong: a message is lost, late or refused, a process dies, or
\* the worker leaves the registry while it may be at work.
Fault == faults < MaxFaults /\ faults' = faults + 1

-----------------------------------------------------------------------------
(* The controller's side.                                                  *)

\* What the controller does without a message to or from the worker.
ControllerStep ==
  /\ \/ C!RegisterWorker(Worker)
     \/ \E team \in SUBSET {Worker} : C!CreateJob(team)
     \/ \E j \in Jobs :
          \/ C!StartJob(j) \/ C!StartJobRefused(j)
          \/ C!StopJobPick(j) \/ C!StopJob(j) \/ C!StopJobRefused(j)
          \/ C!StopMarkPick(j) \/ C!MarkJobStopped(j)
     \/ C!StartMarkBusy(Worker) \/ C!StartMarkJob(Worker)
     \/ C!StartJobReturn \/ C!StopJobReturn
  /\ UNCHANGED <<workerVars, netVars>>

\* The worker is removed from the registry while it may be at work.
UnregisterWorker ==
  /\ C!UnregisterWorker(Worker)
  /\ Fault
  /\ UNCHANGED <<workerVars, start, stop, mistaken>>

\* The goroutine's turn has come to this in the loop of StartJob or StopJob.
Sending(kind) == lock = kind /\ task[Worker] = "sending"

Settled(outcome) ==
  /\ task' = [task EXCEPT ![Worker] = outcome]
  /\ UNCHANGED <<wStatus, wJob, jobStatus, asg, jobCounter, lock, lockJob,
                 starting, stopping, marking>>

\* Bug: the address is not looked up again before the request is sent.
PostStartCached ==
  /\ Sending("start") /\ start[lockJob] = "none"
  /\ start' = [start EXCEPT ![lockJob] = "posted"]
  /\ UNCHANGED <<controllerVars, workerVars, stop, faults, mistaken>>

\* sendJobToWorker: the look-up in the registry, and the request.
PostStart ==
  /\ Sending("start") /\ start[lockJob] = "none"
  /\ wStatus[Worker] # "absent"
  /\ start' = [start EXCEPT ![lockJob] = "posted"]
  /\ UNCHANGED <<controllerVars, workerVars, stop, faults, mistaken>>

PostStop ==
  /\ Sending("stop") /\ stop[lockJob] = "none"
  /\ wStatus[Worker] # "absent"
  /\ stop' = [stop EXCEPT ![lockJob] = "posted"]
  /\ UNCHANGED <<controllerVars, workerVars, start, faults, mistaken>>

\* The worker has left the registry.
NoSuchWorker ==
  /\ \/ /\ Sending("start") /\ start[lockJob] = "none"
        /\ start' = [start EXCEPT ![lockJob] = "unsent"]
        /\ UNCHANGED stop
     \/ /\ Sending("stop") /\ stop[lockJob] = "none"
        /\ stop' = [stop EXCEPT ![lockJob] = "unsent"]
        /\ UNCHANGED start
  /\ wStatus[Worker] = "absent"
  /\ Settled("lost")
  /\ UNCHANGED <<workerVars, faults, mistaken>>

\* Bug: the worker answers before it has taken the cancel function.
StopAnsweredEarly ==
  /\ Sending("stop") /\ stop[lockJob] = "taken"
  /\ Settled("acked")
  /\ UNCHANGED <<workerVars, netVars>>

\* The answer: of a handler that is done, or an error if its process died.
StartAnswered ==
  /\ Sending("start") /\ start[lockJob] = "taken"
  /\ pc[lockJob] \notin W!Handling
  /\ Settled(IF pc[lockJob] \in {"refused", "dead"} THEN "lost" ELSE "acked")
  /\ UNCHANGED <<workerVars, netVars>>

StopAnswered ==
  /\ Sending("stop") /\ stop[lockJob] = "taken"
  /\ stopPc[lockJob] = "done"
  /\ Settled("acked")
  /\ UNCHANGED <<workerVars, netVars>>

\* Nothing reaches the worker, or the worker finds the request invalid.
RequestFails ==
  /\ \/ /\ Sending("start") /\ start[lockJob] = "posted"
        /\ start' = [start EXCEPT ![lockJob] = "failed"]
        /\ UNCHANGED stop
     \/ /\ Sending("stop") /\ stop[lockJob] = "posted"
        /\ stop' = [stop EXCEPT ![lockJob] = "failed"]
        /\ UNCHANGED start
  /\ Settled("lost")
  /\ Fault
  /\ UNCHANGED <<workerVars, mistaken>>

\* The HTTP client times out while the request is on its way or being handled.
RequestTimesOut ==
  /\ \/ /\ Sending("start") /\ start[lockJob] \in {"posted", "taken"}
        /\ start' = [start EXCEPT ![lockJob] = IF @ = "posted" THEN "late" ELSE @]
        /\ UNCHANGED stop
     \/ /\ Sending("stop") /\ stop[lockJob] \in {"posted", "taken"}
        /\ stop' = [stop EXCEPT ![lockJob] = IF @ = "posted" THEN "late" ELSE @]
        /\ UNCHANGED start
  /\ Settled("lost")
  /\ Fault
  /\ UNCHANGED <<workerVars, mistaken>>

\* A completion arrives; it is applied, or refused if the controller does not
\* know the job or the assignment.
ReportArrives(m) ==
  /\ lock = "free"
  /\ reports' = reports \ {m}
  /\ \/ /\ C!ApplyReport(Worker, m.job, m.outcome)
        /\ mistaken' = mistaken \cup ({m.job} \ {m.run})
     \/ /\ jobStatus[m.job] = "none" \/ asg[m.job][Worker] = "none"
        /\ UNCHANGED <<controllerVars, mistaken>>
  /\ UNCHANGED <<workerStateVars, start, stop, faults>>

\* The controller dies with the requests it waits for, and starts again.
ControllerRestarts ==
  /\ C!Restart
  /\ start' = [j \in Jobs |-> IF start[j] = "posted" THEN "late" ELSE start[j]]
  /\ stop' = [j \in Jobs |-> IF stop[j] = "posted" THEN "late" ELSE stop[j]]
  /\ Fault
  /\ UNCHANGED <<workerVars, mistaken>>

-----------------------------------------------------------------------------
(* The worker's side.                                                      *)

\* StartHandler begins, early or late.
StartArrives(j) ==
  /\ start[j] \in {"posted", "late"}
  /\ start' = [start EXCEPT ![j] = IF @ = "late" THEN "strayed" ELSE "taken"]
  /\ W!StartBegin(j, j) \/ W!StartRefused(j)
  /\ UNCHANGED <<controllerVars, stop, faults, mistaken>>

\* StopHandler begins.
StopArrives(j) ==
  /\ stop[j] \in {"posted", "late"}
  /\ stop' = [stop EXCEPT ![j] = IF @ = "late" THEN "strayed" ELSE "taken"]
  /\ W!StopBegin(j) \/ W!StopRefused(j)
  /\ UNCHANGED <<controllerVars, start, faults, mistaken>>

\* A request given up is dropped on its way.
LateRequestLost(j) ==
  /\ \/ /\ start[j] = "late"
        /\ start' = [start EXCEPT ![j] = "failed"]
        /\ UNCHANGED stop
     \/ /\ stop[j] = "late"
        /\ stop' = [stop EXCEPT ![j] = "failed"]
        /\ UNCHANGED start
  /\ UNCHANGED <<controllerVars, workerVars, faults, mistaken>>

\* The handlers and the goroutines of the worker.
WorkerStep ==
  /\ \/ \E r \in Jobs :
          \/ W!StartName(r) \/ W!StartLaunch(r)
          \/ W!ConnectOk(r) \/ W!ConnectFail(r)
          \/ W!RunCancelled(r) \/ W!RunReturns(r) \/ W!Complete(r)
     \/ \E t \in Jobs : W!StopCancel(t)
  /\ UNCHANGED <<controllerVars, netVars>>

\* The completion of a run is posted, once.
Notify(r) ==
  /\ W!Notify(r)
  /\ UNCHANGED <<controllerVars, netVars>>

\* It never arrives.
ReportLost(m) ==
  /\ reports' = reports \ {m}
  /\ Fault
  /\ UNCHANGED <<controllerVars, workerStateVars, start, stop, mistaken>>

\* The worker process dies, or exits, and is started again.
WorkerRestarts ==
  /\ W!ProcessExit
  /\ Fault
  /\ UNCHANGED <<controllerVars, start, stop, mistaken>>

Next ==
  \/ ControllerStep \/ UnregisterWorker
  \/ PostStart \/ PostStop \/ NoSuchWorker
  \/ StartAnswered \/ StopAnswered \/ RequestFails \/ RequestTimesOut
  \/ \E m \in reports : ReportArrives(m) \/ ReportLost(m)
  \/ ControllerRestarts
  \/ \E j \in Jobs : StartArrives(j) \/ StopArrives(j) \/ LateRequestLost(j) \/ Notify(j)
  \/ WorkerStep \/ WorkerRestarts

Spec == Init /\ [][Next]_vars

\* The controller is as fair as in its own module.  The worker's handlers and
\* goroutines run on; dialling Redis is bounded by its timeouts; Run looks at its
\* context again and again.  A request that the controller waits for arrives,
\* fails or times out; a report that is not lost gets the lock in the end,
\* although the lock is taken again and again.  Nothing makes a benchmark that is
\* left alone end, or a client send a request.
Fairness ==
  /\ WF_vars(C!StartMarkBusy(Worker) /\ UNCHANGED <<workerVars, netVars>>)
  /\ WF_vars(C!StartMarkJob(Worker) /\ UNCHANGED <<workerVars, netVars>>)
  /\ WF_vars((C!StartJobReturn \/ C!StopJobReturn) /\ UNCHANGED <<workerVars, netVars>>)
  /\ \A j \in Jobs :
       /\ SF_vars((C!StartJob(j) \/ C!StartJobRefused(j)) /\ UNCHANGED <<workerVars, netVars>>)
       /\ SF_vars((C!StopJob(j) \/ C!StopJobRefused(j)) /\ UNCHANGED <<workerVars, netVars>>)
  /\ WF_vars(PostStart \/ PostStop \/ NoSuchWorker)
  /\ WF_vars(StartAnswered \/ StopAnswered)
  /\ WF_vars(RequestFails \/ RequestTimesOut \/ \E j \in Jobs : StartArrives(j) \/ StopArrives(j))
  /\ SF_vars(\E m \in reports : ReportArrives(m))
  /\ \A r \in Jobs :
       /\ WF_vars((W!StartName(r) \/ W!StartLaunch(r)) /\ UNCHANGED <<controllerVars, netVars>>)
       /\ WF_vars((W!ConnectOk(r) \/ W!ConnectFail(r)) /\ UNCHANGED <<controllerVars, netVars>>)
       /\ WF_vars(W!RunCancelled(r) /\ UNCHANGED <<controllerVars, netVars>>)
       /\ WF_vars(W!Complete(r) /\ UNCHANGED <<controllerVars, netVars>>)
       /\ WF_vars(W!StopCancel(r) /\ UNCHANGED <<controllerVars, netVars>>)
       /\ WF_vars(Notify(r))

FairSpec == Spec /\ Fairness

-----------------------------------------------------------------------------
(* What each process sees of the other.                                    *)

\* The controller's module records a /start as delivered, and as settled, from
\* the moment it is posted: what becomes of it then is the worker's business.
Posted ==
  \/ lock = "start" /\ start[lockJob] \notin {"none", "unsent"}
  \/ lock = "stop" /\ stop[lockJob] \notin {"none", "unsent"}
taskSeen == [task EXCEPT ![Worker] = IF Posted /\ @ \in {"sending", "lost"} THEN "acked" ELSE @]
deliveredSeen == {<<Worker, j>> : j \in {k \in Jobs : start[k] \notin {"none", "unsent"}}}

Controller == INSTANCE JobManager WITH
  Workers <- {Worker}, task <- taskSeen, delivered <- deliveredSeen

\* The controller and its messages behave as JobManager says: a worker of this
\* system sends no report that the module of the controller did not reckon with.
ImplementsController == Controller!Spec

-----------------------------------------------------------------------------
(* Safety.                                                                 *)

\* As long as nothing goes wrong between the two, the controller is a client that
\* waits for answers; and no /start finds the worker, which the registry called
\* idle, busy (409), unless a report of another run has ended a job before.
ControllerWaits ==
  faults = 0 =>
    /\ client # "any"
    /\ mistaken = {} => \A r \in Jobs : pc[r] # "refused"

\* A job whose /start the controller still waits for is running: the lock that
\* is held meanwhile keeps every stop and every other job away (172-173).
StartsRunningJobsOnly ==
  \A j \in Jobs : start[j] = "posted" => jobStatus[j] = "running" /\ lockJob = j

\* A stop, which names no job, ends the run of the job it is for, as long as
\* nothing goes wrong, unless the /start of that job was refused.
StopsItsOwnRun ==
  [][faults = 0 =>
       \A j \in Jobs : stopPc[j] = "idle" /\ stopPc'[j] = "stopping" =>
         owner = j \/ pc[j] = "refused"]_vars

\* A run that loads a Redis server belongs to a job that is running or that the
\* lock is held for, or a stop is at work at the worker, or the run is cancelled
\* and about to see it; otherwise it has escaped in one of five ways: its /start
\* came after the controller had given it up; its /stop did not come, or not in
\* time; the controller has restarted and forgotten the job; the job was ended by
\* the report of another run; another run or request took its place or its cancel
\* function from it.  There is no sixth, whatever fails and however the runs
\* overlap.
NoOrphanRun ==
  \A r \in Jobs : pc[r] \in W!Launched =>
    \/ jobStatus[r] = "running" \/ lockJob = r
    \/ r \in cancelled \/ \E t \in Jobs : stopPc[t] = "stopping"
    \/ start[r] = "strayed"
    \/ stop[r] \in {"unsent", "late", "failed"}
    \/ jobStatus[r] = "none"
    \/ r \in mistaken \/ r \in meddled

\* What a request on its way says about the job it belongs to.
RequestInv ==
  /\ start \in [Jobs -> RequestStatus] /\ stop \in [Jobs -> RequestStatus]
  /\ task \in [{Worker} -> C!TaskStatus]
  /\ \A j \in Jobs : start[j] # "none" => j <= jobCounter /\ jobStatus[j] # "pending"
  /\ \A j \in Jobs : stop[j] # "none" =>
       j <= jobCounter /\ jobStatus[j] \notin {"pending", "running"}
  /\ lock = "start" /\ task[Worker] \in {"todo", "marked"} => start[lockJob] = "none"
  /\ \A j \in Jobs : start[j] = "posted" => Sending("start") /\ lockJob = j

\* The worker knows only what has reached it, and reports only that.
ReachedInv ==
  LET reached(j) == j \in Jobs /\ start[j] \in {"taken", "strayed"}
  IN  /\ pc \in [Jobs -> W!RunPc]
      /\ \A r \in Jobs : pc[r] # "idle" => reached(r)
      /\ runJob \in [Jobs -> Jobs \cup {0}]
      /\ \A r \in Jobs : runJob[r] # 0 => runJob[r] = r /\ reached(r)
      /\ jobId # 0 => reached(jobId)
      /\ \A m \in reports : reached(m.job) /\ m.outcome \in {"completed", "failed"}

\* How far the requests are: the controller waits for those it has posted, and
\* has posted, or could not post, a /stop that is settled.
PhaseInv ==
  /\ \A j \in Jobs : stop[j] = "posted" => Sending("stop") /\ lockJob = j
  /\ \A j \in Jobs : pc[j] = "idle" <=> start[j] \notin {"taken", "strayed"}
  /\ \A j \in Jobs : stopPc[j] = "idle" <=> stop[j] \notin {"taken", "strayed"}
  /\ lock = "stop" => task[Worker] \in {"sending", "acked", "lost"}
  /\ lock = "stop" /\ task[Worker] # "sending" => stop[lockJob] # "none"

\* What NoOrphanRun rests on: a report is the last thing a run does; a stop that
\* was answered has reached its run, or another stop is about to; a job ends by
\* the report of its run or by a /stop for it, or a report is mistaken.
EachForItself ==
  /\ \A m \in reports : pc[m.run] = "done"
  /\ \A r \in Jobs : start[r] = "taken" =>
       /\ pc[r] \in W!Handling \cup W!Launched /\ stopPc[r] = "done" =>
            r \in cancelled \cup meddled \/ \E t \in Jobs : stopPc[t] = "stopping"
       /\ pc[r] \in W!Handling \cup W!Launched =>
            \/ jobStatus[r] \in {"none", "running"} \/ lockJob = r
            \/ stop[r] \notin {"none", "posted"} \/ r \in mistaken

\* As long as nothing goes wrong: what a handler of the worker is busy with is
\* what the controller waits for; a job that was started, or is being stopped, has
\* reached the worker; its run owns the worker's state, unless the /start was
\* refused, until its /stop arrives; and, unless a report was mistaken, a worker
\* that says "running" runs that job.
QuietInv ==
  /\ faults \in Nat
  /\ faults = 0 =>
       /\ wStatus[Worker] = "absent" => jobCounter = 0
       /\ \A j \in Jobs : start[j] # "late" /\ stop[j] # "late"
       /\ \A r \in Jobs : pc[r] \in W!Handling => Sending("start") /\ lockJob = r
       /\ \A t \in Jobs : stopPc[t] = "stopping" => Sending("stop") /\ lockJob = t
       /\ client # "any"
       /\ lock = "start" /\ C!Sent(task[Worker]) => start[lockJob] = "taken"
       /\ lock = "stop" => start[lockJob] = "taken"
       /\ \A j \in Jobs : jobStatus[j] = "running" =>
            start[j] = "taken" \/ (lock = "start" /\ lockJob = j)
       /\ \A j \in Jobs :
            /\ start[j] = "taken" /\ pc[j] # "refused"
            /\ \/ jobStatus[j] = "running"
               \/ lock = "stop" /\ lockJob = j /\ stop[j] \in {"none", "posted"}
            => owner = j
       /\ mistaken = {} =>
            /\ \A r \in Jobs : pc[r] # "refused"
            /\ status = "running" =>
                 \/ jobStatus[owner] = "running" /\ start[owner] = "taken"
                 \/ lock = "stop" /\ lockJob = owner /\ stop[owner] \in {"none", "posted"}

-----------------------------------------------------------------------------
(* Liveness.                                                               *)

\* A run that ends by itself ends its job, unless something goes wrong.
EndedRunEndsItsJob ==
  \A j \in Jobs :
    pc[j] \in {"finished", "failed"} ~> jobStatus[j] # "running" \/ faults > 0

\* The run of a stopped job comes to an end, unless something goes wrong, another
\* run took its place or its cancel function from it, or the job had been ended by
\* the report of another run and was only called stopped afterwards.
StoppedJobsRunEnds ==
  \A j \in Jobs :
    jobStatus[j] = "stopped" ~>
      pc[j] \notin W!Live \/ faults > 0 \/ j \in meddled \cup mistaken

=============================================================================
