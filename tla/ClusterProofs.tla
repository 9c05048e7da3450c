---------------------------- MODULE ClusterProofs ----------------------------
(***************************************************************************)
(* Proofs about Cluster: the controller and its messages implement         *)
(* JobManager, so that what is proved of the controller alone holds of it  *)
(* when its reports come from a worker as WorkerService describes it.      *)
(*                                                                         *)
(* The invariants of JobManager and of WorkerService, which their own      *)
(* proofs show to be inductive, are used here through instances of those   *)
(* proofs, P and Q.                                                        *)
(***************************************************************************)
EXTENDS Cluster, FiniteSetTheorems, TLAPS

P == INSTANCE JobManagerProofs WITH
  Workers <- {Worker}, task <- taskSeen, delivered <- deliveredSeen

\* The instances Controller and P are of one module.
LEMMA SameInit == Controller!Init <=> P!Init
  BY DEF Controller!Init, P!Init, Controller!NoTeam, P!NoTeam,
         Controller!NoTasks, P!NoTasks, Controller!NoJob, P!NoJob,
         Controller!Jobs, P!Jobs

LEMMA SameNext == Controller!Next <=> P!Next
  BY DEF Controller!Next, P!Next, Controller!vars, P!vars, Controller!NoTeam,
         P!NoTeam, Controller!NoTasks, P!NoTasks, Controller!NoJob, P!NoJob,
         Controller!Jobs, P!Jobs, Controller!RegisterWorker, P!RegisterWorker,
         Controller!UnregisterWorker, P!UnregisterWorker,
         Controller!CreateJob, P!CreateJob, Controller!CreateJobInvalidTarget,
         P!CreateJobInvalidTarget, Controller!StartJob, P!StartJob,
         Controller!StartJobRefused, P!StartJobRefused,
         Controller!StartMarkBusy, P!StartMarkBusy, Controller!StartMarkJob,
         P!StartMarkJob, Controller!SendJobToWorker, P!SendJobToWorker,
         Controller!StartJobReturn, P!StartJobReturn, Controller!StopJobPick,
         P!StopJobPick, Controller!StopJob, P!StopJob,
         Controller!StopJobRefused, P!StopJobRefused,
         Controller!StopJobOnWorker, P!StopJobOnWorker,
         Controller!StopJobReturn, P!StopJobReturn, Controller!StopMarkPick,
         P!StopMarkPick, Controller!MarkJobStopped, P!MarkJobStopped,
         Controller!ApplyReport, P!ApplyReport,
         Controller!HandleWorkerCompletion, P!HandleWorkerCompletion,
         Controller!Restart, P!Restart, Controller!CanStart, P!CanStart,
         Controller!OtherRunning, P!OtherRunning, Controller!Team, P!Team,
         Controller!Sent, P!Sent, Controller!Aggregate, P!Aggregate,
         Controller!Outcome, P!Outcome, Controller!registryVars,
         P!registryVars, Controller!lockVars, P!lockVars,
         Controller!handlerVars, P!handlerVars

\* What is proved of JobManager.
LEMMA ControllerInv ==
  /\ P!Init => P!IInv
  /\ P!IInv /\ [P!Next]_(P!vars) => P!IInv'
  BY P!InitIInv, P!NextIInv, BoundsAssumption

-----------------------------------------------------------------------------
(* What the controller's module sees.                                      *)

\* They change only with what they are made of.
LEMMA SeenUnchanged ==
  ASSUME UNCHANGED <<task, lock, lockJob, start, stop>>
  PROVE  UNCHANGED <<taskSeen, deliveredSeen>>
BY DEF taskSeen, deliveredSeen, Posted

LEMMA TaskSeen ==
  ASSUME RequestInv
  PROVE  /\ Posted /\ task[Worker] \in {"sending", "lost"} =>
              taskSeen = [w \in {Worker} |-> "acked"]
         /\ ~(Posted /\ task[Worker] \in {"sending", "lost"}) => taskSeen = task
BY DEF RequestInv, taskSeen

\* Requests that were sent remain so.
LEMMA DeliveredUnchanged ==
  ASSUME \A j \in Jobs : start[j] \in {"none", "unsent"} <=> start'[j] \in {"none", "unsent"}
  PROVE  deliveredSeen' = deliveredSeen
BY DEF deliveredSeen

LEMMA ControllerStepIsJobStep ==
  ASSUME RequestInv, RequestInv', ControllerStep
  PROVE  P!Next \/ UNCHANGED P!vars
<1> USE DEF Jobs, C!NoTeam, P!NoTeam, C!NoTasks, P!NoTasks, C!NoJob, P!NoJob,
            C!Jobs, P!Jobs, C!Team, P!Team, C!registryVars, P!registryVars,
            C!lockVars, P!lockVars, C!handlerVars, P!handlerVars, C!CanStart,
            P!CanStart, C!OtherRunning, P!OtherRunning, C!Sent, P!Sent
<1>1. UNCHANGED <<start, stop, faults>> /\ deliveredSeen' = deliveredSeen
  BY DEF ControllerStep, netVars, deliveredSeen
<1>2. CASE C!RegisterWorker(Worker)
  <2>1. UNCHANGED taskSeen
    BY <1>1, <1>2, SeenUnchanged DEF C!RegisterWorker
  <2>2. P!RegisterWorker(Worker)
    BY <1>1, <1>2, <2>1 DEF C!RegisterWorker, P!RegisterWorker
  <2>. QED
    BY <2>2 DEF P!Next
<1>3. ASSUME NEW team \in SUBSET {Worker}, C!CreateJob(team)
      PROVE  P!Next
  <2>1. UNCHANGED taskSeen
    BY <1>1, <1>3, SeenUnchanged DEF C!CreateJob
  <2>2. P!CreateJob(team)
    BY <1>1, <1>3, <2>1 DEF C!CreateJob, P!CreateJob
  <2>. QED
    BY <2>2 DEF P!Next
<1>4. ASSUME NEW j \in Jobs, C!StartJob(j)
      PROVE  P!Next
  <2>1. lock = "free" /\ task'[Worker] \in {"todo", "none"}
    BY <1>4 DEF C!StartJob
  <2>2. taskSeen = task /\ taskSeen' = task'
    BY <2>1, TaskSeen DEF Posted, RequestInv, taskSeen
  <2>3. P!StartJob(j)
    BY <1>1, <1>4, <2>2 DEF C!StartJob, P!StartJob
  <2>. QED
    BY <2>3 DEF P!Next
<1>5. ASSUME NEW j \in Jobs,
             C!StartJobRefused(j) \/ C!StopJobPick(j) \/ C!StopJobRefused(j)
               \/ C!StopMarkPick(j) \/ C!MarkJobStopped(j)
      PROVE  P!Next
  <2>1. UNCHANGED taskSeen
    BY <1>1, <1>5, SeenUnchanged
       DEF C!StartJobRefused, C!StopJobPick, C!StopJobRefused, C!StopMarkPick, C!MarkJobStopped
  <2>2. \/ P!StartJobRefused(j) \/ P!StopJobPick(j) \/ P!StopJobRefused(j)
        \/ P!StopMarkPick(j) \/ P!MarkJobStopped(j)
    BY <1>1, <1>5, <2>1
       DEF C!StartJobRefused, C!StopJobPick, C!StopJobRefused, C!StopMarkPick, C!MarkJobStopped,
           P!StartJobRefused, P!StopJobPick, P!StopJobRefused, P!StopMarkPick, P!MarkJobStopped,
           C!Outcome, P!Outcome
  <2>. QED
    BY <2>2 DEF P!Next
<1>6. ASSUME NEW j \in Jobs, C!StopJob(j)
      PROVE  P!Next
  <2>1. lock = "free" /\ lock' = "stop" /\ lockJob' = j /\ stop'[j] = "none"
    BY <1>1, <1>6 DEF C!StopJob, RequestInv
  <2>2. taskSeen = task /\ taskSeen' = task'
    BY <2>1, TaskSeen DEF Posted, RequestInv, taskSeen
  <2>3. P!StopJob(j)
    BY <1>1, <1>6, <2>2 DEF C!StopJob, P!StopJob
  <2>. QED
    BY <2>3 DEF P!Next
<1>7. CASE C!StartMarkBusy(Worker) \/ C!StartMarkJob(Worker)
  <2>1. /\ lock = "start" /\ lock' = lock /\ lockJob' = lockJob
        /\ task[Worker] \in {"todo", "marked"} /\ start[lockJob] = "none"
    BY <1>7 DEF C!StartMarkBusy, C!StartMarkJob, RequestInv
  <2>2. taskSeen = task /\ taskSeen' = task'
    BY <1>1, <2>1, TaskSeen DEF Posted, RequestInv, taskSeen
  <2>3. P!StartMarkBusy(Worker) \/ P!StartMarkJob(Worker)
    BY <1>1, <1>7, <2>2 DEF C!StartMarkBusy, C!StartMarkJob, P!StartMarkBusy, P!StartMarkJob
  <2>. QED
    BY <2>3 DEF P!Next
<1>8. CASE C!StartJobReturn \/ C!StopJobReturn
  <2>1. lock' = "free" /\ C!Sent(task[Worker])
    BY <1>8 DEF C!StartJobReturn, C!StopJobReturn
  <2>2. taskSeen' = task' /\ \A w \in {Worker} : P!Sent(taskSeen[w])
    BY <2>1, TaskSeen DEF Posted, RequestInv, taskSeen
  <2>3. P!StartJobReturn \/ P!StopJobReturn
    BY <1>1, <1>8, <2>2 DEF C!StartJobReturn, C!StopJobReturn, P!StartJobReturn, P!StopJobReturn
  <2>. QED
    BY <2>3 DEF P!Next
<1>. QED
  BY <1>2, <1>3, <1>4, <1>5, <1>6, <1>7, <1>8 DEF ControllerStep
-----------------------------------------------------------------------------
(* The messages.                                                           *)

\* A request that is posted, or cannot be, is settled for the controller.
LEMMA PostIsJobStep ==
  ASSUME RequestInv, RequestInv', P!IInv, PostStart \/ PostStop \/ NoSuchWorker
  PROVE  P!Next
<1> USE DEF Jobs, C!Jobs, P!Jobs, P!registryVars, P!handlerVars
<1>1. CASE PostStart
  <2>1. lockJob \in Jobs /\ lock = "start" /\ task[Worker] = "sending"
    BY <1>1 DEF PostStart, Sending, P!IInv, P!TypeOK, P!LockInv, P!NoJob
  <2>2. taskSeen = task /\ taskSeen' = [task EXCEPT ![Worker] = "acked"]
    BY <1>1, <2>1, TaskSeen DEF PostStart, Sending, Posted, RequestInv, taskSeen, controllerVars
  <2>3. deliveredSeen' = deliveredSeen \cup {<<Worker, lockJob>>}
    BY <1>1, <2>1 DEF PostStart, deliveredSeen, RequestInv
  <2>4. P!SendJobToWorker(Worker)
    BY <1>1, <2>1, <2>2, <2>3 DEF PostStart, P!SendJobToWorker, controllerVars
  <2>. QED
    BY <2>4 DEF P!Next
<1>2. CASE PostStop
  <2>1. lockJob \in Jobs /\ lock = "stop" /\ task[Worker] = "sending"
    BY <1>2 DEF PostStop, Sending, P!IInv, P!TypeOK, P!LockInv, P!NoJob
  <2>2. taskSeen = task /\ taskSeen' = [task EXCEPT ![Worker] = "acked"]
    BY <1>2, <2>1, TaskSeen DEF PostStop, Sending, Posted, RequestInv, taskSeen, controllerVars
  <2>3. deliveredSeen' = deliveredSeen
    BY <1>2 DEF PostStop, deliveredSeen
  <2>4. P!StopJobOnWorker(Worker)
    BY <1>2, <2>1, <2>2, <2>3 DEF PostStop, P!StopJobOnWorker, controllerVars
  <2>. QED
    BY <2>4 DEF P!Next
<1>3. CASE NoSuchWorker
  <2>1. lockJob \in Jobs /\ task[Worker] = "sending" /\ lockJob' = lockJob /\ lock' = lock
    BY <1>3 DEF NoSuchWorker, Settled, Sending, P!IInv, P!TypeOK, P!LockInv, P!NoJob
  <2>2. ~Posted /\ ~Posted'
    BY <1>3, <2>1 DEF NoSuchWorker, Sending, Posted, RequestInv
  <2>3. taskSeen = task /\ taskSeen' = [task EXCEPT ![Worker] = "lost"]
    BY <1>3, <2>2, TaskSeen DEF NoSuchWorker, Settled, RequestInv, taskSeen
  <2>4. deliveredSeen' = deliveredSeen
    <3>1. \A j \in Jobs : start[j] \in {"none", "unsent"} <=> start'[j] \in {"none", "unsent"}
      BY <1>3, <2>1 DEF NoSuchWorker, RequestInv
    <3>. QED
      BY <3>1, DeliveredUnchanged
  <2>5. P!SendJobToWorker(Worker) \/ P!StopJobOnWorker(Worker)
    BY <1>3, <2>1, <2>3, <2>4
       DEF NoSuchWorker, Settled, Sending, P!SendJobToWorker, P!StopJobOnWorker
  <2>. QED
    BY <2>5 DEF P!Next
<1>. QED
  BY <1>1, <1>2, <1>3

\* What becomes of a posted request is nothing the controller's module sees.
LEMMA AnswerIsStutter ==
  ASSUME RequestInv, P!IInv,
         StartAnswered \/ StopAnswered \/ RequestFails \/ RequestTimesOut
  PROVE  UNCHANGED P!vars
<1> USE DEF Sending, Settled
<1>1. lockJob \in Jobs /\ task[Worker] = "sending" /\ lock' = lock /\ lockJob' = lockJob
  BY DEF StartAnswered, StopAnswered, RequestFails, RequestTimesOut, P!IInv, P!TypeOK,
         P!LockInv, P!NoJob, P!Jobs, Jobs, C!Jobs
<1>2. Posted /\ Posted'
  BY <1>1 DEF StartAnswered, StopAnswered, RequestFails, RequestTimesOut, Posted, RequestInv,
              netVars
<1>3. task'[Worker] \in {"acked", "lost"} /\ taskSeen' = [w \in {Worker} |-> "acked"]
  BY <1>1, <1>2 DEF StartAnswered, StopAnswered, RequestFails, RequestTimesOut, RequestInv,
                    taskSeen
<1>4. taskSeen' = taskSeen
  BY <1>1, <1>2, <1>3, TaskSeen
<1>5. \A j \in Jobs : start[j] \in {"none", "unsent"} <=> start'[j] \in {"none", "unsent"}
  BY <1>1 DEF StartAnswered, StopAnswered, RequestFails, RequestTimesOut, RequestInv, netVars
<1>. QED
  BY <1>4, <1>5, DeliveredUnchanged
     DEF StartAnswered, StopAnswered, RequestFails, RequestTimesOut, P!vars

\* A report is one that the controller's module reckons with.
LEMMA ReportIsJobStep ==
  ASSUME RequestInv, ReachedInv, NEW m \in reports, ReportArrives(m)
  PROVE  P!Next \/ UNCHANGED P!vars
<1>1. UNCHANGED <<taskSeen, deliveredSeen>>
  BY SeenUnchanged DEF ReportArrives, C!ApplyReport, C!lockVars, netVars, controllerVars
<1>2. m.job \in Jobs /\ m.outcome \in P!Outcome /\ <<Worker, m.job>> \in deliveredSeen
  BY DEF ReachedInv, deliveredSeen, P!Outcome
<1>3. CASE C!ApplyReport(Worker, m.job, m.outcome)
  <2>1. P!HandleWorkerCompletion(Worker, m.job, m.outcome)
    BY <1>1, <1>2, <1>3
       DEF C!ApplyReport, P!HandleWorkerCompletion, P!ApplyReport, C!Aggregate, P!Aggregate,
           C!lockVars, P!lockVars, C!handlerVars, P!handlerVars, C!NoJob, P!NoJob
  <2>. QED
    BY <1>2, <2>1 DEF P!Next, Jobs, C!Jobs, P!Jobs
<1>. QED
  BY <1>1, <1>3 DEF ReportArrives, controllerVars, P!vars

LEMMA RestartIsJobStep ==
  ASSUME RequestInv, ControllerRestarts
  PROVE  P!Restart
<1>1. \A j \in Jobs : start[j] \in {"none", "unsent"} <=> start'[j] \in {"none", "unsent"}
  BY DEF ControllerRestarts, RequestInv
<1>2. lock' = "free" /\ task' = [w \in {Worker} |-> "none"]
  BY DEF ControllerRestarts, C!Restart, C!NoTasks
<1>3. taskSeen' = task'
  BY <1>2 DEF taskSeen, Posted
<1>. QED
  BY <1>1, <1>3, DeliveredUnchanged
     DEF ControllerRestarts, C!Restart, P!Restart, C!NoTasks, P!NoTasks, C!NoTeam, P!NoTeam,
         C!NoJob, P!NoJob, C!Jobs, P!Jobs

\* Neither is what the worker does, nor what the network does behind both.
LEMMA WorkerIsStutter ==
  ASSUME RequestInv, UNCHANGED controllerVars,
         \A j \in Jobs : start[j] \in {"none", "unsent"} <=> start'[j] \in {"none", "unsent"},
         \A j \in Jobs : stop[j] \in {"none", "unsent"} <=> stop'[j] \in {"none", "unsent"},
         lock # "free" => lockJob \in Jobs
  PROVE  UNCHANGED P!vars
<1>1. Posted' <=> Posted
  BY DEF Posted, controllerVars
<1>2. UNCHANGED taskSeen
  BY <1>1 DEF taskSeen, controllerVars
<1>. QED
  BY <1>2, DeliveredUnchanged DEF P!vars, controllerVars

LEMMA RefinementStep ==
  ASSUME RequestInv, RequestInv', ReachedInv, P!IInv, [Next]_vars
  PROVE  [P!Next]_(P!vars)
<1>1. lock # "free" => lockJob \in Jobs
  BY DEF P!IInv, P!TypeOK, P!LockInv, P!NoJob, P!Jobs, Jobs, C!Jobs
<1>2. CASE UnregisterWorker
  <2>1. UNCHANGED <<taskSeen, deliveredSeen>>
    BY <1>2, SeenUnchanged DEF UnregisterWorker, C!UnregisterWorker, C!lockVars
  <2>2. P!UnregisterWorker(Worker)
    BY <1>2, <2>1 DEF UnregisterWorker, C!UnregisterWorker, P!UnregisterWorker, C!lockVars,
                      P!lockVars, C!handlerVars, P!handlerVars, C!NoJob, P!NoJob
  <2>. QED
    BY <2>2 DEF P!Next
<1>3. ASSUME NEW m \in reports, ReportLost(m)
      PROVE  UNCHANGED P!vars
  BY <1>1, <1>3, WorkerIsStutter DEF ReportLost
<1>4. ASSUME NEW j \in Jobs, StartArrives(j) \/ StopArrives(j) \/ LateRequestLost(j)
      PROVE  UNCHANGED P!vars
  <2>1. /\ UNCHANGED controllerVars
        /\ \A k \in Jobs : start[k] \in {"none", "unsent"} <=> start'[k] \in {"none", "unsent"}
        /\ \A k \in Jobs : stop[k] \in {"none", "unsent"} <=> stop'[k] \in {"none", "unsent"}
    BY <1>4 DEF StartArrives, StopArrives, LateRequestLost, RequestInv
  <2>. QED
    BY <1>1, <2>1, WorkerIsStutter
<1>5. CASE WorkerStep \/ WorkerRestarts \/ \E j \in Jobs : Notify(j)
  BY <1>1, <1>5, WorkerIsStutter DEF WorkerStep, WorkerRestarts, Notify, netVars
<1>6. CASE UNCHANGED vars
  BY <1>1, <1>6, WorkerIsStutter DEF vars, netVars
<1>7. CASE ControllerRestarts
  BY <1>7, RestartIsJobStep DEF P!Next
<1>. QED
  BY <1>2, <1>3, <1>4, <1>5, <1>6, <1>7, ControllerStepIsJobStep, PostIsJobStep,
     AnswerIsStutter, ReportIsJobStep DEF Next
-----------------------------------------------------------------------------
(* The invariants.                                                         *)

\* Nothing is on its way.
LEMMA InitInvs == Init => RequestInv /\ ReachedInv
BY BoundsAssumption
   DEF Init, C!Init, W!Init, RequestInv, ReachedInv, RequestStatus, W!RunPc, Jobs, C!Jobs, C!NoJob,
       C!NoTasks, C!TaskStatus

\* The controller's steps keep what is known of its requests.
LEMMA RequestControllerStep ==
  ASSUME RequestInv, P!IInv, ControllerStep
  PROVE  RequestInv'
<1> USE DEF RequestInv, ControllerStep, netVars, C!registryVars, C!lockVars, C!handlerVars,
            C!NoTasks, C!TaskStatus, Sending, Jobs, C!Jobs, C!NoJob
<1>1. jobCounter \in Nat /\ jobStatus \in [Jobs -> P!JobStatus]
      /\ \A j \in Jobs : jobStatus[j] # "none" => j <= jobCounter
  BY BoundsAssumption DEF P!IInv, P!TypeOK, P!AssignmentInv, P!Jobs
<1>2. CASE C!RegisterWorker(Worker) \/ \E j \in Jobs :
             C!StartJobRefused(j) \/ C!StopJobPick(j) \/ C!StopJobRefused(j) \/ C!StopMarkPick(j)
  BY <1>2 DEF C!RegisterWorker, C!StartJobRefused, C!StopJobPick, C!StopJobRefused,
              C!StopMarkPick
<1>3. CASE \E team \in SUBSET {Worker} : C!CreateJob(team)
  BY <1>1, <1>3 DEF C!CreateJob
<1>4. CASE \E j \in Jobs : C!StartJob(j)
  BY <1>1, <1>4 DEF C!StartJob, C!CanStart
<1>5. CASE \E j \in Jobs : C!StopJob(j)
  BY <1>1, <1>5 DEF C!StopJob
<1>6. CASE \E j \in Jobs : C!MarkJobStopped(j)
  BY <1>1, <1>6 DEF C!MarkJobStopped
<1>7. CASE C!StartMarkBusy(Worker) \/ C!StartMarkJob(Worker)
  BY <1>1, <1>7 DEF C!StartMarkBusy, C!StartMarkJob
<1>8. CASE C!StartJobReturn \/ C!StopJobReturn
  BY <1>1, <1>8 DEF C!StartJobReturn, C!StopJobReturn, C!Sent
<1>. QED
  BY <1>2, <1>3, <1>4, <1>5, <1>6, <1>7, <1>8

\* So do the steps of its requests.
LEMMA RequestMessageStep ==
  ASSUME RequestInv, P!IInv,
         \/ PostStart \/ PostStop \/ NoSuchWorker
         \/ StartAnswered \/ StopAnswered \/ RequestFails \/ RequestTimesOut
  PROVE  RequestInv'
<1> USE DEF RequestInv, Sending, Settled, RequestStatus, C!TaskStatus, controllerVars, netVars
<1>1. /\ lockJob \in Jobs /\ lockJob <= jobCounter
      /\ lock = "start" => jobStatus[lockJob] = "running"
      /\ lock = "stop" => jobStatus[lockJob] = "stopped"
  BY DEF PostStart, PostStop, NoSuchWorker, StartAnswered, StopAnswered, RequestFails,
         RequestTimesOut, P!IInv, P!TypeOK, P!LockInv, P!AssignmentInv, P!NoJob, P!Jobs,
         Jobs, C!Jobs
<1>2. CASE PostStart \/ PostStop
  BY <1>1, <1>2 DEF PostStart, PostStop
<1>3. CASE NoSuchWorker
  BY <1>1, <1>3 DEF NoSuchWorker
<1>4. CASE StartAnswered \/ StopAnswered
  BY <1>1, <1>4 DEF StartAnswered, StopAnswered
<1>5. CASE RequestFails
  BY <1>1, <1>5 DEF RequestFails
<1>6. CASE RequestTimesOut
  BY <1>1, <1>6 DEF RequestTimesOut
<1>. QED
  BY <1>2, <1>3, <1>4, <1>5, <1>6

LEMMA RequestStep ==
  ASSUME RequestInv, P!IInv, [Next]_vars
  PROVE  RequestInv'
<1> USE DEF RequestInv, Sending, RequestStatus, controllerVars, netVars
<1>1. jobCounter \in Nat /\ jobStatus \in [Jobs -> P!JobStatus]
  BY DEF P!IInv, P!TypeOK, P!Jobs, Jobs, C!Jobs
<1>2. CASE UnregisterWorker
  BY <1>2 DEF UnregisterWorker, C!UnregisterWorker, C!lockVars
<1>3. ASSUME NEW m \in reports, ReportArrives(m)
      PROVE  RequestInv'
  <2>1. CASE UNCHANGED controllerVars
    BY <1>3, <2>1 DEF ReportArrives
  <2>2. CASE C!ApplyReport(Worker, m.job, m.outcome)
    <3>1. /\ UNCHANGED <<start, stop, jobCounter, lock, lockJob, task>>
          /\ lock = "free"
      BY <1>3, <2>2 DEF ReportArrives, C!ApplyReport, C!lockVars
    <3>2. \A j \in Jobs : jobStatus'[j] \in {jobStatus[j], "completed", "failed"}
      BY <1>1, <2>2 DEF C!ApplyReport, C!Aggregate
    <3>. QED
      BY <1>1, <3>1, <3>2
  <2>. QED
    BY <1>3, <2>1, <2>2 DEF ReportArrives
<1>4. CASE ControllerRestarts
  BY <1>1, <1>4 DEF ControllerRestarts, C!Restart, C!NoTasks, C!TaskStatus, Jobs
<1>5. CASE \E m \in reports : ReportLost(m)
  BY <1>5 DEF ReportLost
<1>6. ASSUME NEW j \in Jobs, StartArrives(j) \/ StopArrives(j) \/ LateRequestLost(j)
      PROVE  RequestInv'
  <2>1. CASE StartArrives(j)
    BY <1>6, <2>1 DEF StartArrives
  <2>2. CASE StopArrives(j)
    BY <1>6, <2>2 DEF StopArrives
  <2>3. CASE LateRequestLost(j)
    <3>1. /\ UNCHANGED controllerVars
          /\ \/ start[j] = "late" /\ start' = [start EXCEPT ![j] = "failed"] /\ stop' = stop
             \/ stop[j] = "late" /\ stop' = [stop EXCEPT ![j] = "failed"] /\ start' = start
      BY <2>3 DEF LateRequestLost
    <3>2. CASE start' = start
      BY <3>1, <3>2
    <3>3. CASE start[j] = "late" /\ start' = [start EXCEPT ![j] = "failed"] /\ stop' = stop
      <4>1. UNCHANGED <<jobCounter, jobStatus, lock, lockJob, task>>
        BY <3>1
      <4>2. \A k \in Jobs : start'[k] # "none" => start[k] # "none"
        BY <3>3
      <4>3. lock = "start" /\ task[Worker] \in {"todo", "marked"} => start'[lockJob] = "none"
        BY <3>3
      <4>4. \A k \in Jobs : start'[k] = "posted" => start[k] = "posted"
        BY <3>3
      <4>5. start' \in [Jobs -> RequestStatus]
        BY <3>3
      <4>. QED
        BY <3>3, <4>1, <4>2, <4>3, <4>4, <4>5
    <3>. QED
      BY <3>1, <3>2, <3>3
  <2>. QED
    BY <1>6, <2>1, <2>2, <2>3
<1>7. CASE WorkerStep \/ WorkerRestarts \/ \E j \in Jobs : Notify(j)
  BY <1>7 DEF WorkerStep, WorkerRestarts, Notify
<1>8. CASE UNCHANGED vars
  BY <1>8 DEF vars
<1>. QED
  BY <1>2, <1>3, <1>4, <1>5, <1>6, <1>7, <1>8, RequestControllerStep, RequestMessageStep
     DEF Next

\* The worker learns of a job from its /start only.
LEMMA ReachedStep ==
  ASSUME RequestInv, ReachedInv, P!IInv, [Next]_vars
  PROVE  ReachedInv'
<1> USE DEF ReachedInv, workerVars, workerStateVars, netVars
<1> USE DEF W!RunPc, W!Live, W!Working, W!Handling
<1>1. start \in [Jobs -> RequestStatus] /\ 0 \notin Jobs
  BY DEF RequestInv, Jobs, C!Jobs
<1>2. CASE UNCHANGED workerVars /\ \A j \in Jobs : start[j] \in {"taken", "strayed"} => start'[j] = start[j]
  BY <1>2
<1>3. CASE ControllerStep \/ UnregisterWorker \/ StopAnswered \/ StartAnswered
  BY <1>2, <1>3 DEF ControllerStep, UnregisterWorker, StopAnswered, StartAnswered
<1>4. CASE PostStart \/ PostStop \/ NoSuchWorker \/ RequestFails \/ RequestTimesOut
  BY <1>1, <1>2, <1>4 DEF PostStart, PostStop, NoSuchWorker, RequestFails, RequestTimesOut
<1>5. CASE \E m \in reports : ReportArrives(m) \/ ReportLost(m)
  BY <1>1, <1>5 DEF ReportArrives, ReportLost
<1>6. CASE ControllerRestarts \/ \E j \in Jobs : LateRequestLost(j)
  BY <1>1, <1>2, <1>6 DEF ControllerRestarts, LateRequestLost
<1>7. ASSUME NEW j \in Jobs, StartArrives(j)
      PROVE  ReachedInv'
  BY <1>1, <1>7 DEF StartArrives, W!StartBegin, W!StartRefused
<1>8. ASSUME NEW j \in Jobs, StopArrives(j)
      PROVE  ReachedInv'
  BY <1>1, <1>8 DEF StopArrives, W!StopBegin, W!StopRefused
<1>9. CASE WorkerStep
  <2> UNCHANGED <<start, reports>>
    BY <1>9 DEF WorkerStep, W!StartName, W!StartLaunch, W!ConnectOk, W!ConnectFail,
                W!RunCancelled, W!RunReturns, W!Complete, W!StopCancel
  <2>1. ASSUME NEW r \in Jobs, W!StartName(r)
        PROVE  ReachedInv'
    BY <1>1, <2>1 DEF W!StartName
  <2>2. ASSUME NEW r \in Jobs,
               \/ W!StartLaunch(r) \/ W!ConnectOk(r) \/ W!ConnectFail(r)
               \/ W!RunCancelled(r) \/ W!RunReturns(r) \/ W!Complete(r)
        PROVE  ReachedInv'
    BY <1>1, <2>2 DEF W!StartLaunch, W!ConnectOk, W!ConnectFail, W!RunCancelled,
                      W!RunReturns, W!Complete
  <2>3. ASSUME NEW r \in Jobs, W!StopCancel(r)
        PROVE  ReachedInv'
    BY <1>1, <2>3 DEF W!StopCancel
  <2>. QED
    BY <1>9, <2>1, <2>2, <2>3 DEF WorkerStep
<1>10. ASSUME NEW r \in Jobs, Notify(r)
       PROVE  ReachedInv'
  BY <1>1, <1>10 DEF Notify, W!Notify, W!Report
<1>11. CASE WorkerRestarts
  BY <1>1, <1>11 DEF WorkerRestarts, W!ProcessExit
<1>12. CASE UNCHANGED vars
  BY <1>2, <1>12 DEF vars
<1>. QED
  BY <1>3, <1>4, <1>5, <1>6, <1>7, <1>8, <1>9, <1>10, <1>11, <1>12 DEF Next

-----------------------------------------------------------------------------
(* The worker: its steps are those of WorkerService, but for the reports,  *)
(* which the network takes away.                                           *)

Q == INSTANCE WorkerServiceProofs WITH
  Runs <- Jobs, Stops <- Jobs, NoJob <- 0, NoRun <- 0

WorkerInv == Q!FreeInv /\ Q!SerialInv

\* What the constants of the instance have to satisfy.
LEMMA ServiceConstants == 0 \notin Jobs /\ Q!IsFiniteSet(Jobs)
<1>1. Jobs = 1..MaxJobs /\ MaxJobs \in Int /\ 1 \in Int
  BY BoundsAssumption DEF Jobs, C!Jobs
<1>2. 0 \notin Jobs
  BY <1>1, SMT
<1>. QED
  BY <1>1, <1>2, FS_Interval DEF IsFiniteSet, Q!IsFiniteSet

\* What is proved of WorkerService.
LEMMA ServiceInv ==
  /\ Q!Init => WorkerInv
  /\ WorkerInv /\ [Q!Next]_(Q!vars) => WorkerInv'
BY Q!InitInvs, Q!FreeStep, Q!SerialStep, ServiceConstants DEF WorkerInv

\* The instances W and Q are of one module.
LEMMA SameWorkerInit == W!Init <=> Q!Init
BY DEF W!Init, Q!Init

\* A step of the system is a step of the worker, or the network's.
LEMMA WorkerSees ==
  ASSUME [Next]_vars
  PROVE  \/ [Q!Next]_(Q!vars)
         \/ UNCHANGED workerStateVars /\ reports' \subseteq reports
<1> USE DEF workerVars, workerStateVars
<1>1. CASE \/ ControllerStep \/ UnregisterWorker \/ PostStart \/ PostStop \/ NoSuchWorker
           \/ StartAnswered \/ StopAnswered \/ RequestFails \/ RequestTimesOut
           \/ (\E m \in reports : ReportArrives(m) \/ ReportLost(m))
           \/ ControllerRestarts \/ (\E j \in Jobs : LateRequestLost(j)) \/ UNCHANGED vars
  BY <1>1 DEF ControllerStep, UnregisterWorker, PostStart, PostStop, NoSuchWorker, StartAnswered,
              StopAnswered, RequestFails, RequestTimesOut, ReportArrives, ReportLost,
              ControllerRestarts, LateRequestLost, vars
<1>2. ASSUME NEW j \in Jobs, StartArrives(j)
      PROVE  Q!Next
  <2>1. Q!StartBegin(j, j) \/ Q!StartRefused(j)
    BY <1>2 DEF StartArrives, W!StartBegin, W!StartRefused, W!AfterRequest, W!Answered,
                Q!StartBegin, Q!StartRefused, Q!AfterRequest, Q!Answered, W!Others, Q!Others,
                W!Live, W!Working, W!Handling, Q!Live, Q!Working, Q!Handling
  <2>. QED
    BY <2>1 DEF Q!Next
<1>3. ASSUME NEW j \in Jobs, StopArrives(j)
      PROVE  Q!Next
  <2>1. Q!StopBegin(j) \/ Q!StopRefused(j)
    BY <1>3 DEF StopArrives, W!StopBegin, W!StopRefused, W!AfterRequest, W!Answered,
                Q!StopBegin, Q!StopRefused, Q!AfterRequest, Q!Answered, W!Handling, Q!Handling
  <2>. QED
    BY <2>1 DEF Q!Next
<1>4. CASE WorkerStep \/ WorkerRestarts \/ \E j \in Jobs : Notify(j)
  <2>1. \/ \E r \in Jobs : \/ Q!StartName(r) \/ Q!StartLaunch(r)
                           \/ Q!ConnectOk(r) \/ Q!ConnectFail(r) \/ Q!RunCancelled(r)
                           \/ Q!RunReturns(r) \/ Q!Complete(r) \/ Q!Notify(r) \/ Q!StopCancel(r)
        \/ Q!ProcessExit
    BY <1>4 DEF WorkerStep, WorkerRestarts, Notify, W!StartName, W!StartLaunch, W!ConnectOk,
                W!ConnectFail, W!RunCancelled, W!RunReturns, W!Complete, W!Notify, W!Report,
                W!StopCancel, W!ProcessExit, W!Live, W!Working, W!Handling,
                Q!StartName, Q!StartLaunch, Q!ConnectOk, Q!ConnectFail, Q!RunCancelled,
                Q!RunReturns, Q!Complete, Q!Notify, Q!Report, Q!StopCancel, Q!ProcessExit,
                Q!Live, Q!Working, Q!Handling, W!Others, Q!Others
  <2>. QED
    BY <2>1 DEF Q!Next
<1>. QED
  BY <1>1, <1>2, <1>3, <1>4 DEF Next

\* Taking reports away disturbs nothing that is said of the worker.
LEMMA WorkerInvStep ==
  ASSUME WorkerInv, [Next]_vars
  PROVE  WorkerInv'
<1>1. CASE [Q!Next]_(Q!vars)
  BY <1>1, ServiceInv
<1>2. CASE UNCHANGED workerStateVars /\ reports' \subseteq reports
  BY <1>2 DEF WorkerInv, workerStateVars, Q!FreeInv, Q!SerialInv, Q!TypeOK, Q!OneRunPerStop,
              Q!ReportedJobWasAccepted, Q!RunningIsBacked, Q!RunningMeansRunning
<1>. QED
  BY <1>1, <1>2, WorkerSees

-----------------------------------------------------------------------------
(* The requests, once more: how far they are.                              *)

\* What the invariants of the controller say of the variables of the system.
LEMMA ControllerFacts ==
  ASSUME P!IInv
  PROVE  /\ wStatus \in [{Worker} -> P!WorkerStatus]
         /\ jobStatus \in [Jobs -> P!JobStatus] /\ jobCounter \in Nat
         /\ lock \in {"free", "start", "stop"}
         /\ lock # "free" => lockJob \in Jobs /\ lockJob <= jobCounter /\ jobCounter # 0
         /\ lock = "free" => lockJob = 0
         /\ lock = "start" => jobStatus[lockJob] = "running"
         /\ lock = "stop" => \A j \in Jobs : jobStatus[j] # "running"
         /\ \A j, k \in Jobs : jobStatus[j] = "running" /\ jobStatus[k] = "running" => j = k
         /\ \A j \in Jobs : jobStatus[j] # "none" =>
              j <= jobCounter /\ asg[j][Worker] # "none" /\ jobCounter # 0
<1> USE DEF P!IInv, P!TypeOK, P!LockInv, P!AssignmentInv, P!SingleRunningJob, P!OtherRunning,
            P!Team, P!NoJob, P!Jobs, Jobs, C!Jobs, P!JobStatus
<1>1. jobCounter \in Nat /\ Jobs \subseteq Nat \ {0}
  BY BoundsAssumption
<1>2. \A j \in Jobs : j <= jobCounter => jobCounter # 0
  BY <1>1
<1>3. \A j \in Jobs : jobStatus[j] # "none" => j <= jobCounter /\ asg[j][Worker] # "none"
  OBVIOUS
<1>. QED
  BY <1>1, <1>2, <1>3

\* What the handlers and goroutines of the worker do to runs and stops.
LEMMA WorkerFacts ==
  ASSUME WorkerInv, WorkerStep \/ WorkerRestarts \/ \E j \in Jobs : Notify(j)
  PROVE  /\ UNCHANGED <<controllerVars, start, stop, client, runJob>>
         /\ \A r \in Jobs : /\ pc'[r] = "idle" <=> pc[r] = "idle"
                            /\ pc'[r] = "refused" <=> pc[r] = "refused"
                            /\ pc'[r] \in W!Handling => pc[r] \in W!Handling
                            /\ pc[r] = "done" => pc'[r] = "done"
         /\ \A t \in Jobs : /\ stopPc'[t] = "idle" <=> stopPc[t] = "idle"
                            /\ stopPc'[t] = "stopping" => stopPc[t] = "stopping"
         /\ status' = "running" => status = "running" /\ owner' = owner
<1> USE DEF WorkerInv, Q!FreeInv, Q!TypeOK, Q!RunPc, Q!Live, Q!Working, Q!Handling,
            W!Live, W!Working, W!Handling, netVars
<1>1. CASE WorkerStep
  BY <1>1 DEF WorkerStep, W!StartName, W!StartLaunch, W!ConnectOk, W!ConnectFail,
              W!RunCancelled, W!RunReturns, W!Complete, W!StopCancel
<1>2. CASE WorkerRestarts
  BY <1>2 DEF WorkerRestarts, W!ProcessExit
<1>3. ASSUME NEW j \in Jobs, Notify(j)
      PROVE  /\ UNCHANGED <<controllerVars, start, stop, client, runJob>>
             /\ \A r \in Jobs : /\ pc'[r] = "idle" <=> pc[r] = "idle"
                                /\ pc'[r] = "refused" <=> pc[r] = "refused"
                                /\ pc'[r] \in W!Handling => pc[r] \in W!Handling
                                /\ pc[r] = "done" => pc'[r] = "done"
             /\ UNCHANGED <<stopPc, status, owner>>
  BY <1>3 DEF Notify, W!Notify
<1>. QED
  BY <1>1, <1>2, <1>3

\* Every step keeps what is known of how far the requests are.
LEMMA PhaseStep ==
  ASSUME P!IInv, RequestInv, WorkerInv, PhaseInv, [Next]_vars
  PROVE  PhaseInv'
<1> USE DEF PhaseInv, Sending
<1>1. /\ start \in [Jobs -> RequestStatus] /\ stop \in [Jobs -> RequestStatus]
      /\ task \in [{Worker} -> C!TaskStatus]
      /\ pc \in [Jobs -> Q!RunPc] /\ stopPc \in [Jobs -> {"idle", "stopping", "done"}]
      /\ lock # "free" => lockJob \in Jobs
  BY ControllerFacts DEF RequestInv, WorkerInv, Q!FreeInv, Q!TypeOK
<1>2. CASE ControllerStep
  <2>1. UNCHANGED <<pc, stopPc, start, stop>>
    BY <1>2 DEF ControllerStep, workerVars, workerStateVars, netVars
  <2>2. CASE UNCHANGED <<lock, lockJob, task>>
    BY <2>1, <2>2
  <2>3. CASE \E j \in Jobs : C!StopJob(j)
    <3>1. PICK j \in Jobs : C!StopJob(j)
      BY <2>3
    <3>2. lock = "free" /\ lock' = "stop" /\ task' = [w \in {Worker} |-> "sending"]
      BY <3>1, ControllerFacts DEF C!StopJob, C!Team
    <3>. QED
      BY <1>1, <2>1, <3>2
  <2>4. CASE \/ \E j \in Jobs : C!StartJob(j)
             \/ C!StartMarkBusy(Worker) \/ C!StartMarkJob(Worker)
             \/ C!StartJobReturn
    BY <2>1, <2>4 DEF C!StartJob, C!StartMarkBusy, C!StartMarkJob, C!StartJobReturn, C!handlerVars
  <2>5. CASE C!StopJobReturn
    BY <1>1, <2>1, <2>5 DEF C!StopJobReturn, C!Sent
  <2>. QED
    BY <1>2, <2>2, <2>3, <2>4, <2>5
       DEF ControllerStep, C!RegisterWorker, C!CreateJob, C!StartJobRefused, C!StopJobPick,
           C!StopJobRefused, C!StopMarkPick, C!MarkJobStopped, C!lockVars
<1>3. CASE PostStart \/ PostStop \/ NoSuchWorker
  BY <1>1, <1>3 DEF PostStart, PostStop, NoSuchWorker, Settled, controllerVars, workerVars,
                    workerStateVars, RequestStatus
<1>4. CASE StartAnswered \/ StopAnswered \/ RequestFails \/ RequestTimesOut
  BY <1>1, <1>4 DEF StartAnswered, StopAnswered, RequestFails, RequestTimesOut, Settled,
                    workerVars, workerStateVars, netVars, RequestStatus, PhaseInv
<1>5. CASE UnregisterWorker \/ \E m \in reports : ReportArrives(m) \/ ReportLost(m)
  <2>1. UNCHANGED <<pc, stopPc, start, stop, lock, lockJob, task>>
    BY <1>5 DEF UnregisterWorker, ReportArrives, ReportLost, C!UnregisterWorker, C!ApplyReport,
                C!lockVars, controllerVars, workerVars, workerStateVars, netVars
  <2>. QED
    BY <2>1
<1>6. CASE ControllerRestarts
  BY <1>1, <1>6 DEF ControllerRestarts, C!Restart, workerVars, workerStateVars
<1>7. ASSUME NEW j \in Jobs, StartArrives(j) \/ StopArrives(j) \/ LateRequestLost(j)
      PROVE  PhaseInv'
  <2>1. CASE StartArrives(j)
    BY <1>1, <2>1 DEF StartArrives, W!StartBegin, W!StartRefused, controllerVars
  <2>2. CASE StopArrives(j)
    BY <1>1, <2>2 DEF StopArrives, W!StopBegin, W!StopRefused, controllerVars
  <2>3. CASE LateRequestLost(j)
    BY <1>1, <2>3 DEF LateRequestLost, controllerVars, workerVars, workerStateVars
  <2>. QED
    BY <1>7, <2>1, <2>2, <2>3
<1>8. CASE WorkerStep \/ WorkerRestarts \/ \E j \in Jobs : Notify(j)
  <2>1. /\ UNCHANGED <<controllerVars, start, stop>>
        /\ \A r \in Jobs : pc'[r] = "idle" <=> pc[r] = "idle"
        /\ \A t \in Jobs : stopPc'[t] = "idle" <=> stopPc[t] = "idle"
    BY <1>8, WorkerFacts
  <2>. QED
    BY <2>1 DEF controllerVars
<1>9. CASE UNCHANGED vars
  BY <1>9 DEF vars, controllerVars, workerVars, workerStateVars, netVars
<1>. QED
  BY <1>2, <1>3, <1>4, <1>5, <1>6, <1>7, <1>8, <1>9 DEF Next

-----------------------------------------------------------------------------
(* Runs, jobs and reports.                                                 *)

\* The types that the proofs about runs need.
LEMMA RunTypes ==
  ASSUME RequestInv, ReachedInv, WorkerInv
  PROVE  /\ start \in [Jobs -> RequestStatus] /\ stop \in [Jobs -> RequestStatus]
         /\ task \in [{Worker} -> C!TaskStatus]
         /\ pc \in [Jobs -> Q!RunPc] /\ stopPc \in [Jobs -> {"idle", "stopping", "done"}]
         /\ cancelled \subseteq Jobs /\ meddled \subseteq Jobs /\ owner \in Jobs \cup {0} /\ cancelFn \in Jobs \cup {0}
         /\ \A r \in Jobs : runJob[r] \in {0, r}
         /\ \A m \in reports : m.job \in Jobs /\ m.run \in Jobs
BY DEF RequestInv, ReachedInv, WorkerInv, Q!FreeInv, Q!TypeOK

\* A run that nothing has cancelled or meddled with can be stopped.
LEMMA HeldFacts ==
  ASSUME WorkerInv, NEW r \in Jobs, pc[r] \in W!Handling \cup W!Launched,
         r \notin cancelled \cup meddled
  PROVE  /\ r = owner /\ r # 0
         /\ status = "running" \/ \E t \in Jobs : stopPc[t] = "stopping"
         /\ pc[r] \in W!Launched => cancelFn = r
BY ServiceConstants
   DEF WorkerInv, Q!FreeInv, W!Working, W!Handling, W!Launched, Q!Working, Q!Handling, Q!Launched

\* The steps of the controller end no job whose run works on, but by a stop.
LEMMA OwnEndControllerStep ==
  ASSUME P!IInv, RequestInv, PhaseInv, EachForItself, ControllerStep
  PROVE  EachForItself'
<1> SUFFICES ASSUME NEW r \in Jobs, start[r] = "taken",
                    pc[r] \in W!Handling \cup W!Launched,
                    jobStatus'[r] \notin {"none", "running"}, lockJob' # r,
                    stop[r] \in {"none", "posted"}, r \notin mistaken
             PROVE  FALSE
  BY DEF EachForItself, ControllerStep, workerVars, workerStateVars, netVars
<1>1. /\ r <= jobCounter /\ jobStatus[r] # "pending"
      /\ jobStatus[r] \in {"none", "running"} \/ lockJob = r
  BY DEF EachForItself, RequestInv
<1>2. jobStatus[r] \in P!JobStatus /\ jobCounter \in Nat /\ r \in Nat /\ r # 0
      /\ jobStatus \in [Jobs -> P!JobStatus]
  BY ControllerFacts, ServiceConstants DEF Jobs, C!Jobs
<1>3. CASE UNCHANGED <<jobStatus, lock, lockJob>>
  BY <1>1, <1>3
<1>4. CASE \E team \in SUBSET {Worker} : C!CreateJob(team)
  BY <1>1, <1>2, <1>4, ControllerFacts DEF C!CreateJob, C!lockVars, Jobs
<1>5. CASE \E j \in Jobs : C!StartJob(j)
  BY <1>1, <1>2, <1>5, ControllerFacts DEF C!StartJob
<1>6. CASE \E j \in Jobs : C!StopJob(j)
  BY <1>1, <1>2, <1>6, ControllerFacts DEF C!StopJob
<1>7. CASE \E j \in Jobs : C!MarkJobStopped(j)
  BY <1>1, <1>2, <1>7, ControllerFacts DEF C!MarkJobStopped, C!lockVars, C!Outcome
<1>8. CASE C!StartJobReturn
  BY <1>1, <1>2, <1>8, ControllerFacts DEF C!StartJobReturn
<1>9. CASE C!StopJobReturn
  <2>1. lock = "stop" /\ task[Worker] # "sending" /\ jobStatus' = jobStatus
    BY <1>9 DEF C!StopJobReturn, C!Sent
  <2>. QED
    BY <1>1, <2>1 DEF PhaseInv, Sending
<1>. QED
  BY <1>3, <1>4, <1>5, <1>6, <1>7, <1>8, <1>9
     DEF ControllerStep, C!RegisterWorker, C!StartJobRefused, C!StopJobPick, C!StopJobRefused,
         C!StopMarkPick, C!StartMarkBusy, C!StartMarkJob, C!lockVars

\* The messages on their way change none of it; a report ends the job of a run
\* that is done.
LEMMA OwnEndMessageStep ==
  ASSUME P!IInv, RequestInv, ReachedInv, WorkerInv, PhaseInv, EachForItself,
         \/ UnregisterWorker \/ PostStart \/ PostStop \/ NoSuchWorker
         \/ StartAnswered \/ StopAnswered \/ RequestFails \/ RequestTimesOut
         \/ \E m \in reports : ReportArrives(m) \/ ReportLost(m)
         \/ ControllerRestarts
         \/ \E j \in Jobs : LateRequestLost(j)
  PROVE  EachForItself'
<1> USE RunTypes DEF EachForItself, Sending, workerVars, workerStateVars, RequestStatus, W!Handling, W!Launched
<1>1. CASE \/ UnregisterWorker \/ PostStart \/ PostStop \/ NoSuchWorker
           \/ StartAnswered \/ StopAnswered
  BY <1>1, ControllerFacts
     DEF UnregisterWorker, C!UnregisterWorker, C!lockVars, PostStart, PostStop, NoSuchWorker,
         StartAnswered, StopAnswered, Settled, controllerVars, netVars
<1>2. CASE RequestFails \/ RequestTimesOut
  BY <1>2, ControllerFacts DEF RequestFails, RequestTimesOut, Settled
<1>3. ASSUME NEW m \in reports, ReportArrives(m)
      PROVE  EachForItself'
  <2>1. /\ UNCHANGED <<workerStateVars, start, stop, lockJob>> /\ reports' \subseteq reports
        /\ mistaken \subseteq mistaken'
        /\ \A j \in Jobs \ {m.job} : jobStatus'[j] = jobStatus[j]
        /\ jobStatus' = jobStatus \/ m.job = m.run \/ m.job \in mistaken'
    BY <1>3, ControllerFacts DEF ReportArrives, C!ApplyReport, C!lockVars, controllerVars
  <2>2. pc[m.run] = "done"
    OBVIOUS
  <2>. QED
    BY <2>1, <2>2
<1>4. CASE \E m \in reports : ReportLost(m)
  BY <1>4 DEF ReportLost, controllerVars
<1>5. CASE ControllerRestarts
  <2>1. /\ UNCHANGED <<workerStateVars, reports, mistaken>>
        /\ \A r \in Jobs : start'[r] = "taken" => start[r] = "taken"
        /\ \A r \in Jobs : jobStatus'[r] = "none"
    BY <1>5 DEF ControllerRestarts, C!Restart, Jobs
  <2>. QED
    BY <2>1
<1>6. CASE \E j \in Jobs : LateRequestLost(j)
  BY <1>6 DEF LateRequestLost, controllerVars
<1>. QED
  BY <1>1, <1>2, <1>3, <1>4, <1>5, <1>6

\* A /start that arrives in time finds its job running; a /stop is taken, or finds
\* that the run is over or another stop at work.
LEMMA OwnEndArrivalStep ==
  ASSUME P!IInv, RequestInv, ReachedInv, WorkerInv, PhaseInv, EachForItself,
         NEW j \in Jobs, StartArrives(j) \/ StopArrives(j)
  PROVE  EachForItself'
<1> USE RunTypes
<1>1. CASE StartArrives(j)
  <2>1. /\ UNCHANGED <<stopPc, stop, cancelled, reports, mistaken, controllerVars>>
        /\ meddled \subseteq meddled'
        /\ pc[j] = "idle" /\ pc'[j] \in {"accepted", "refused"}
        /\ \A r \in Jobs \ {j} : pc'[r] = pc[r] /\ start'[r] = start[r]
        /\ start'[j] = "taken" => start[j] = "posted"
    BY <1>1 DEF StartArrives, W!StartBegin, W!StartRefused
  <2>2. start'[j] = "taken" => stopPc[j] = "idle" /\ jobStatus[j] = "running"
    BY <2>1, ControllerFacts DEF RequestInv, PhaseInv, Sending
  <2>. QED
    BY <2>1, <2>2 DEF EachForItself, controllerVars, W!Handling, W!Launched
<1>2. CASE StopArrives(j)
  <2>1. /\ UNCHANGED <<pc, start, cancelled, meddled, reports, mistaken, controllerVars>>
        /\ stopPc[j] = "idle"
        /\ \/ stopPc' = [stopPc EXCEPT ![j] = "stopping"]
           \/ stopPc' = [stopPc EXCEPT ![j] = "done"] /\ status # "running"
        /\ stop' = [stop EXCEPT ![j] = IF @ = "late" THEN "strayed" ELSE "taken"]
    BY <1>2 DEF StopArrives, W!StopBegin, W!StopRefused
  <2>2. ASSUME \E t \in Jobs : stopPc[t] = "stopping"
        PROVE  \E t \in Jobs : stopPc'[t] = "stopping"
    BY <2>1, <2>2
  <2>3. ASSUME pc[j] \in W!Handling \cup W!Launched, stopPc'[j] = "done", j \notin cancelled \cup meddled
        PROVE  \E t \in Jobs : stopPc[t] = "stopping"
    BY <2>1, <2>3, HeldFacts
  <2>. QED
    BY <2>1, <2>2, <2>3 DEF EachForItself, controllerVars
<1>. QED
  BY <1>1, <1>2

\* What the worker does: a stop that is answered has cancelled the run it found,
\* or another run is in the way; a report is the last thing a run does.
LEMMA OwnEndWorkerStep ==
  ASSUME RequestInv, ReachedInv, WorkerInv, EachForItself,
         WorkerStep \/ WorkerRestarts \/ \E j \in Jobs : Notify(j)
  PROVE  EachForItself'
<1> USE RunTypes DEF EachForItself, W!Handling, W!Launched, W!Working, W!Live, controllerVars
<1>1. /\ UNCHANGED <<start, stop, jobStatus, lockJob, mistaken>>
      /\ \A r \in Jobs : pc[r] = "done" => pc'[r] = "done"
  BY WorkerFacts DEF WorkerStep, WorkerRestarts, Notify, netVars
<1>2. ASSUME NEW j \in Jobs, \/ W!StartName(j) \/ W!StartLaunch(j)
                             \/ W!ConnectOk(j) \/ W!ConnectFail(j)
                             \/ W!RunCancelled(j) \/ W!RunReturns(j) \/ W!Complete(j)
      PROVE  EachForItself'
  <2>1. /\ UNCHANGED <<stopPc, cancelled, reports>> /\ meddled \subseteq meddled'
        /\ \A r \in Jobs : pc'[r] \in W!Handling \cup W!Launched =>
             pc[r] \in W!Handling \cup W!Launched
    BY <1>2 DEF W!StartName, W!StartLaunch, W!ConnectOk, W!ConnectFail, W!RunCancelled,
                W!RunReturns, W!Complete
  <2>. QED
    BY <1>1, <2>1
<1>3. ASSUME NEW j \in Jobs, W!StopCancel(j)
      PROVE  EachForItself'
  <2>1. /\ UNCHANGED <<pc, reports>> /\ cancelled \subseteq cancelled' /\ meddled \subseteq meddled'
        /\ stopPc[j] = "stopping" /\ \A t \in Jobs \ {j} : stopPc'[t] = stopPc[t]
        /\ cancelFn # 0 => cancelFn \in cancelled'
        /\ \A r \in Jobs : r = owner /\ pc[r] \in W!Handling => r \in meddled'
    BY <1>3 DEF W!StopCancel
  <2>2. \A r \in Jobs : pc[r] \in W!Handling \cup W!Launched => r \in cancelled' \cup meddled'
    BY <2>1, HeldFacts
  <2>. QED
    BY <1>1, <2>1, <2>2
<1>4. CASE WorkerRestarts
  <2>1. /\ UNCHANGED reports
        /\ \A r \in Jobs : pc'[r] \notin W!Handling \cup W!Launched
    BY <1>4 DEF WorkerRestarts, W!ProcessExit
  <2>. QED
    BY <1>1, <2>1
<1>5. ASSUME NEW j \in Jobs, Notify(j)
      PROVE  EachForItself'
  <2>1. /\ UNCHANGED <<stopPc, cancelled, meddled>> /\ pc[j] \in {"finished", "failed"}
        /\ pc' = [pc EXCEPT ![j] = "done"]
        /\ \A m \in reports' \ reports : m.run = j
    BY <1>5 DEF Notify, W!Notify, W!Report
  <2>. QED
    BY <1>1, <2>1
<1>. QED
  BY <1>2, <1>3, <1>4, <1>5 DEF WorkerStep

\* Every step keeps it.
LEMMA OwnEndStep ==
  ASSUME P!IInv, RequestInv, ReachedInv, WorkerInv, PhaseInv, EachForItself, [Next]_vars
  PROVE  EachForItself'
<1>1. CASE UNCHANGED vars
  BY <1>1 DEF vars, controllerVars, workerVars, workerStateVars, netVars, EachForItself
<1>. QED
  BY <1>1, OwnEndControllerStep, OwnEndMessageStep, OwnEndArrivalStep, OwnEndWorkerStep DEF Next

-----------------------------------------------------------------------------
(* The system as long as nothing goes wrong.                               *)

\* A fault is counted.
LEMMA FaultIsCounted ==
  ASSUME QuietInv, Fault
  PROVE  faults' \in Nat /\ faults' # 0
BY DEF QuietInv, Fault

\* What the worker's status says of the run that set it.
LEMMA OwnerWorks ==
  ASSUME WorkerInv, client # "any", status = "running"
  PROVE  owner \in Jobs /\ pc[owner] \in W!Working
BY DEF WorkerInv, Q!SerialInv, Q!RunningMeansRunning, Q!Working, W!Working, W!Handling, Q!Handling

\* The controller starts a job when the one before is over, and stops the job
\* that is running.
LEMMA QuietControllerStep ==
  ASSUME P!IInv, RequestInv, ReachedInv, WorkerInv, PhaseInv, QuietInv, ControllerStep
  PROVE  QuietInv'
<1>1. UNCHANGED <<workerStateVars, reports, start, stop, faults, mistaken>>
  BY DEF ControllerStep, workerVars, netVars
<1> SUFFICES ASSUME faults = 0, QuietInv!2!2
             PROVE  QuietInv!2!2'
  BY <1>1 DEF QuietInv
<1> USE ControllerFacts, RunTypes, OwnerWorks DEF Sending, workerStateVars
<1>2. CASE UNCHANGED <<jobStatus, jobCounter, lock, lockJob, task>> /\ (wStatus'[Worker] = "absent" => wStatus[Worker] = "absent")
  BY <1>1, <1>2
<1>3. CASE \E team \in SUBSET {Worker} : C!CreateJob(team)
  <2>1. /\ wStatus[Worker] = "idle" /\ UNCHANGED <<wStatus, lock, lockJob, task>>
        /\ \A j \in Jobs : jobStatus[j] = "running" <=> jobStatus'[j] = "running"
    BY <1>3 DEF C!CreateJob, C!lockVars, C!registryVars, Jobs, C!Jobs
  <2>. QED
    BY <1>1, <2>1
<1>4. CASE \E j \in Jobs : C!StartJob(j)
  <2>1. PICK j \in Jobs : C!StartJob(j)
    BY <1>4
  <2>2. /\ lock = "free" /\ lock' = "start" /\ lockJob' = j /\ UNCHANGED <<wStatus, jobCounter>>
        /\ jobStatus[j] = "pending" /\ jobStatus' = [jobStatus EXCEPT ![j] = "running"]
        /\ task'[Worker] \notin {"sending", "acked", "lost"} /\ ~C!Sent(task'[Worker])
    BY <2>1 DEF C!StartJob, C!CanStart, C!registryVars, C!Team, C!Sent
  <2>3. start[j] = "none"
    BY <2>2 DEF RequestInv
  <2>. QED
    BY <1>1, <2>2, <2>3
<1>5. CASE \E j \in Jobs : C!StopJob(j)
  <2>1. PICK j \in Jobs : C!StopJob(j)
    BY <1>5
  <2>2. /\ lock = "free" /\ lock' = "stop" /\ lockJob' = j /\ UNCHANGED <<wStatus, jobCounter>>
        /\ jobStatus[j] = "running"
        /\ \A k \in Jobs : jobStatus'[k] = "running" => jobStatus[k] = "running"
    BY <2>1 DEF C!StopJob, C!registryVars
  <2>3. stop[j] = "none"
    BY <2>2 DEF RequestInv
  <2>. QED
    BY <1>1, <2>2, <2>3
<1>6. CASE \E j \in Jobs : C!MarkJobStopped(j)
  <2>1. /\ UNCHANGED <<wStatus, jobCounter, lock, lockJob, task>>
        /\ \A j \in Jobs : jobStatus[j] = "running" <=> jobStatus'[j] = "running"
    BY <1>6 DEF C!MarkJobStopped, C!lockVars, C!registryVars, C!Outcome
  <2>. QED
    BY <1>1, <2>1
<1>7. CASE C!StartMarkBusy(Worker) \/ C!StartMarkJob(Worker)
  <2>1. /\ lock = "start" /\ task[Worker] # "sending" /\ UNCHANGED <<lock, lockJob, jobStatus, jobCounter>>
        /\ wStatus'[Worker] = "absent" => wStatus[Worker] = "absent"
    BY <1>7 DEF C!StartMarkBusy, C!StartMarkJob
  <2>2. ~C!Sent(task'[Worker])
    <3>1. wStatus[Worker] # "absent" /\ task \in [{Worker} -> C!TaskStatus]
      BY <2>1 DEF RequestInv
    <3>. QED
      BY <1>7, <3>1 DEF C!StartMarkBusy, C!StartMarkJob, C!Sent
  <2>. QED
    BY <1>1, <2>1, <2>2
<1>8. CASE C!StartJobReturn
  <2>1. /\ lock = "start" /\ lock' = "free" /\ UNCHANGED <<wStatus, jobStatus, jobCounter>>
        /\ task[Worker] # "sending" /\ C!Sent(task[Worker])
    BY <1>8 DEF C!StartJobReturn, C!Sent, C!registryVars
  <2>2. start[lockJob] = "taken"
    BY <2>1
  <2>3. \A j \in Jobs : jobStatus[j] = "running" => start[j] = "taken"
    BY <2>2
  <2>. QED
    BY <1>1, <2>1, <2>2, <2>3
<1>9. CASE C!StopJobReturn
  <2>1. /\ lock = "stop" /\ lock' = "free" /\ UNCHANGED <<jobStatus, jobCounter>>
        /\ task[Worker] # "sending"
        /\ wStatus'[Worker] = "absent" => wStatus[Worker] = "absent"
    BY <1>9 DEF C!StopJobReturn, C!Sent
  <2>2. stop[lockJob] \notin {"none", "posted"}
    BY <2>1 DEF PhaseInv
  <2>. QED
    BY <1>1, <2>1, <2>2
<1>. QED
  BY <1>2, <1>3, <1>4, <1>5, <1>6, <1>7, <1>8, <1>9
     DEF ControllerStep, C!RegisterWorker, C!StartJobRefused, C!StopJobPick, C!StopJobRefused,
         C!StopMarkPick, C!lockVars, C!registryVars

\* Requests are sent, answered and reported on.
LEMMA QuietMessageStep ==
  ASSUME P!IInv, RequestInv, ReachedInv, WorkerInv, PhaseInv, EachForItself, QuietInv,
         \/ UnregisterWorker \/ PostStart \/ PostStop \/ NoSuchWorker
         \/ StartAnswered \/ StopAnswered \/ RequestFails \/ RequestTimesOut
         \/ \E m \in reports : ReportArrives(m) \/ ReportLost(m)
         \/ ControllerRestarts
         \/ \E j \in Jobs : LateRequestLost(j)
  PROVE  QuietInv'
<1>1. CASE \/ UnregisterWorker \/ RequestFails \/ RequestTimesOut \/ ControllerRestarts
           \/ \E m \in reports : ReportLost(m)
  BY <1>1, FaultIsCounted
     DEF UnregisterWorker, RequestFails, RequestTimesOut, ControllerRestarts, ReportLost, QuietInv
<1>2. CASE \/ PostStart \/ PostStop \/ NoSuchWorker \/ StartAnswered \/ StopAnswered
           \/ (\E m \in reports : ReportArrives(m)) \/ \E j \in Jobs : LateRequestLost(j)
  <2>1. UNCHANGED <<workerStateVars, faults>> /\ mistaken \subseteq mistaken'
    BY <1>2 DEF PostStart, PostStop, NoSuchWorker, StartAnswered, StopAnswered, ReportArrives,
                LateRequestLost, workerVars, netVars
  <2> SUFFICES ASSUME faults = 0, QuietInv!2!2
               PROVE  QuietInv!2!2'
    BY <2>1 DEF QuietInv
  <2> USE ControllerFacts, RunTypes, OwnerWorks
      DEF Sending, Settled, controllerVars, workerVars, workerStateVars, netVars
  <2>2. CASE PostStart \/ PostStop
    BY <2>1, <2>2 DEF PostStart, PostStop
  <2>3. CASE NoSuchWorker
    BY <2>3 DEF NoSuchWorker
  <2>4. CASE StartAnswered \/ StopAnswered
    BY <2>1, <2>4 DEF StartAnswered, StopAnswered
  <2>5. ASSUME NEW m \in reports, ReportArrives(m)
        PROVE  QuietInv!2!2'
    <3>1. /\ UNCHANGED <<start, stop, jobCounter, lock, lockJob, task>> /\ lock = "free"
          /\ wStatus'[Worker] = "absent" => wStatus[Worker] = "absent"
          /\ \A j \in Jobs \ {m.job} : jobStatus'[j] = jobStatus[j]
          /\ jobStatus' = jobStatus \/ m.job = m.run \/ m.job \in mistaken'
      BY <2>5 DEF ReportArrives, C!ApplyReport, C!lockVars
    <3>2. \A j \in Jobs : jobStatus'[j] = "running" => jobStatus[j] = "running"
      BY <2>5 DEF ReportArrives, C!ApplyReport, C!Aggregate
    <3>3. mistaken' = {} /\ status = "running" => jobStatus'[owner] = jobStatus[owner]
      <4>1. status = "running" => owner # m.run
        BY DEF EachForItself, W!Working, W!Handling
      <4>. QED
        BY <3>1, <4>1
    <3>. QED
      BY <2>1, <3>1, <3>2, <3>3
  <2>6. CASE \E j \in Jobs : LateRequestLost(j)
    BY <2>6 DEF LateRequestLost
  <2>. QED
    BY <1>2, <2>2, <2>3, <2>4, <2>5, <2>6
<1>. QED
  BY <1>1, <1>2

\* The controller has one request at the worker at a time.
LEMMA QuietArrivalStep ==
  ASSUME P!IInv, RequestInv, ReachedInv, WorkerInv, PhaseInv, QuietInv,
         NEW j \in Jobs, StartArrives(j) \/ StopArrives(j)
  PROVE  QuietInv'
<1>1. UNCHANGED <<controllerVars, faults, mistaken>>
  BY DEF StartArrives, StopArrives
<1> SUFFICES ASSUME faults = 0, QuietInv!2!2
             PROVE  QuietInv!2!2'
  BY <1>1 DEF QuietInv
<1> USE ControllerFacts, RunTypes, OwnerWorks DEF Sending, controllerVars
<1>2. CASE StartArrives(j)
  <2>1. start[j] = "posted" /\ lock = "start" /\ task[Worker] = "sending" /\ lockJob = j
    BY <1>2 DEF StartArrives, RequestInv
  <2>2. pc[j] = "idle" /\ W!Answered
    BY <1>2, <2>1 DEF StartArrives, W!StartBegin, W!StartRefused, W!Answered, W!Handling
  <2>3. client' # "any"
    BY <1>2, <2>2 DEF StartArrives, W!StartBegin, W!StartRefused, W!AfterRequest
  <2>4. mistaken = {} => status # "running"
    BY <2>1
  <2>5. start' = [start EXCEPT ![j] = "taken"] /\ UNCHANGED <<stop, stopPc>>
        /\ (W!StartBegin(j, j) \/ W!StartRefused(j))
    BY <1>2, <2>1 DEF StartArrives, W!StartBegin, W!StartRefused
  <2>6. CASE W!StartRefused(j)
    <3>1. mistaken # {} /\ pc' = [pc EXCEPT ![j] = "refused"] /\ owner' = owner
      BY <2>4, <2>6 DEF W!StartRefused
    <3>. QED
      BY <1>1, <2>1, <2>2, <2>3, <2>5, <3>1 DEF W!Handling
  <2>7. CASE W!StartBegin(j, j)
    <3>1. owner' = j /\ pc' = [pc EXCEPT ![j] = "accepted"]
      BY <2>7 DEF W!StartBegin
    <3>. QED
      BY <1>1, <2>1, <2>2, <2>3, <2>5, <3>1 DEF W!Handling
  <2>. QED
    BY <2>5, <2>6, <2>7
<1>3. CASE StopArrives(j)
  <2>1. stop[j] = "posted" /\ lock = "stop" /\ task[Worker] = "sending" /\ lockJob = j
    BY <1>3 DEF StopArrives, PhaseInv
  <2>2. W!Answered
    BY <1>3, <2>1 DEF StopArrives, W!StopBegin, W!StopRefused, W!Answered
  <2>3. client' = client /\ pc' = pc /\ start' = start /\ status' # "running"
        /\ stop' = [stop EXCEPT ![j] = "taken"]
        /\ owner' = owner /\ \A t \in Jobs \ {j} : stopPc'[t] = stopPc[t]
    BY <1>3, <2>1, <2>2 DEF StopArrives, W!StopBegin, W!StopRefused, W!AfterRequest
  <2>. QED
    BY <1>1, <2>1, <2>2, <2>3
<1>. QED
  BY <1>2, <1>3

\* A system in which nothing goes wrong stays in step.
LEMMA QuietStep ==
  ASSUME P!IInv, RequestInv, ReachedInv, WorkerInv, PhaseInv, EachForItself, QuietInv,
         [Next]_vars
  PROVE  QuietInv'
<1>1. CASE WorkerStep \/ \E j \in Jobs : Notify(j)
  <2>1. UNCHANGED <<faults, mistaken>>
    BY <1>1 DEF WorkerStep, Notify, netVars
  <2>2. owner' = owner
    BY <1>1 DEF WorkerStep, Notify, W!StartName, W!StartLaunch, W!ConnectOk, W!ConnectFail,
                W!RunCancelled, W!RunReturns, W!Complete, W!StopCancel, W!Notify
  <2>. QED
    BY <1>1, <2>1, <2>2, WorkerFacts DEF QuietInv, Sending, controllerVars
<1>2. CASE WorkerRestarts
  BY <1>2, FaultIsCounted DEF WorkerRestarts, QuietInv
<1>3. CASE UNCHANGED vars
  BY <1>3 DEF vars, controllerVars, workerVars, workerStateVars, netVars, QuietInv, Sending
<1>. QED
  BY <1>1, <1>2, <1>3, QuietControllerStep, QuietMessageStep, QuietArrivalStep DEF Next

-----------------------------------------------------------------------------
(* The theorems.                                                           *)

\* Initial states correspond.
LEMMA RefinementInit == Init => P!Init
BY DEF Init, C!Init, P!Init, C!NoTeam, P!NoTeam, C!Jobs, P!Jobs, Jobs, C!NoJob, P!NoJob,
       C!NoTasks, P!NoTasks, taskSeen, deliveredSeen, Posted

\* Nothing is sent, and nobody at work.
LEMMA InitPhases == Init => WorkerInv /\ PhaseInv /\ EachForItself /\ QuietInv
<1> SUFFICES ASSUME Init
             PROVE  WorkerInv /\ PhaseInv /\ EachForItself /\ QuietInv
  OBVIOUS
<1>1. WorkerInv
  BY ServiceInv, SameWorkerInit DEF Init
<1>2. /\ start = [j \in Jobs |-> "none"] /\ stop = [j \in Jobs |-> "none"] /\ faults = 0
      /\ pc = [r \in Jobs |-> "idle"] /\ stopPc = [t \in Jobs |-> "idle"] /\ reports = {}
      /\ status = "idle" /\ client = "waits" /\ lock = "free" /\ jobCounter = 0
      /\ mistaken = {} /\ \A j \in Jobs : jobStatus[j] = "none"
  BY DEF Init, W!Init, C!Init, Jobs, C!Jobs
<1>. QED
  BY <1>1, <1>2 DEF PhaseInv, EachForItself, QuietInv, W!Handling

\* The inductive invariant: the controller's own, as its module sees it; the
\* worker's own; what requests on their way say of jobs, and what the worker has
\* been told; and what holds of the two as long as clients wait, or nothing fails.
ClusterInv ==
  /\ P!IInv /\ WorkerInv
  /\ RequestInv /\ ReachedInv /\ PhaseInv
  /\ EachForItself /\ QuietInv

\* The inductive invariant holds in every state of every behaviour.
THEOREM Invariant == Spec => []ClusterInv
<1>1. Init => ClusterInv
  BY RefinementInit, InitInvs, InitPhases, ControllerInv DEF ClusterInv
<1>2. ClusterInv /\ [Next]_vars => ClusterInv'
  BY RequestStep, ReachedStep, RefinementStep, ControllerInv, WorkerInvStep, PhaseStep,
     OwnEndStep, QuietStep DEF ClusterInv
<1>. QED
  BY <1>1, <1>2, PTL DEF Spec

\* The controller, joined to a worker by messages that are lost, late and given
\* up, behaves as JobManager says; in particular, no worker reports on a job that
\* it was not handed.
THEOREM ControllerIsImplemented == Spec => ImplementsController
<1>1. Init => Controller!Init
  BY RefinementInit, SameInit
<1>2. ClusterInv /\ ClusterInv' /\ [Next]_vars => [Controller!Next]_(Controller!vars)
  BY RefinementStep, SameNext DEF ClusterInv, P!vars, Controller!vars
<1>. QED
  BY <1>1, <1>2, Invariant, PTL DEF Spec, ImplementsController, Controller!Spec

\* The same of the instance that the proofs about JobManager are cited from.
LEMMA ControllerBehaves == Spec => P!Spec
<1>1. Init => P!Init
  BY RefinementInit
<1>2. ClusterInv /\ ClusterInv' /\ [Next]_vars => [P!Next]_(P!vars)
  BY RefinementStep DEF ClusterInv
<1>. QED
  BY <1>1, <1>2, Invariant, PTL DEF Spec, P!Spec

\* So every job of the whole system follows the path of JobLifecycle, whatever
\* becomes of the messages.
THEOREM JobsFollowTheLifecycle == Spec => P!ImplementsLifecycle
<1>1. P!Spec => P!ImplementsLifecycle
  BY P!JobsFollowTheLifecycle, BoundsAssumption
<1>. QED
  BY <1>1, ControllerBehaves, PTL

\* A job that is over stays over, and a worker that is busy with a job is not
\* taken for free, but for the reports that a real worker sends too late.
THEOREM OnlyLateReportsDisturb == Spec => P!TerminalIsFinal /\ P!FreedOnlyWhenDone
<1>1. P!Spec => P!TerminalIsFinal /\ P!FreedOnlyWhenDone
  BY P!EndedJobsStayEnded, P!WorkersAreFreedWhenDone, BoundsAssumption
<1>. QED
  BY <1>1, ControllerBehaves, PTL

\* The job of a /start that is on its way, and waited for, is running.
THEOREM OnlyRunningJobsAreStarted == Spec => []StartsRunningJobsOnly
<1>1. ClusterInv => StartsRunningJobsOnly
  BY DEF ClusterInv, StartsRunningJobsOnly, RequestInv, Sending, P!IInv, P!LockInv
<1>. QED
  BY <1>1, Invariant, PTL

\* Whatever becomes of the messages and however the runs overlap, a run goes on
\* loading a server after its job is over only in the ways that NoOrphanRun names.
THEOREM NoRunOutlivesItsJob == Spec => []NoOrphanRun
<1>1. ClusterInv => NoOrphanRun
  <2> SUFFICES ASSUME ClusterInv, NEW r \in Jobs,
                      pc[r] \in W!Launched, r \notin cancelled \cup mistaken \cup meddled,
                      start[r] # "strayed", \A t \in Jobs : stopPc[t] # "stopping"
               PROVE  \/ jobStatus[r] \in {"none", "running"} \/ lockJob = r
                      \/ stop[r] \in {"unsent", "late", "failed"}
    BY DEF NoOrphanRun
  <2>1. start[r] = "taken"
    BY DEF ClusterInv, ReachedInv, W!Launched
  <2>2. /\ jobStatus[r] \in {"none", "running"} \/ lockJob = r \/ stop[r] \notin {"none", "posted"}
        /\ stopPc[r] # "done"
    BY <2>1 DEF ClusterInv, EachForItself
  <2>3. stop[r] \notin {"taken", "strayed"}
    BY <2>2, RunTypes DEF ClusterInv, PhaseInv
  <2>. QED
    BY <2>2, <2>3, RunTypes DEF ClusterInv, RequestStatus
<1>. QED
  BY <1>1, Invariant, PTL

\* Without faults the controller is a client that waits for each answer, and
\* until a report is applied to another job than its run's no /start is answered
\* 409.
THEOREM TheControllerWaits == Spec => []ControllerWaits
<1>1. ClusterInv => ControllerWaits
  BY DEF ClusterInv, QuietInv, ControllerWaits
<1>. QED
  BY <1>1, Invariant, PTL

\* Without faults, a /stop that takes effect finds the run of the job it was sent
\* for, or the /start of that job was refused.
THEOREM AStopFindsItsRun == Spec => StopsItsOwnRun
<1>1. ASSUME ClusterInv, [Next]_vars, faults = 0,
             NEW j \in Jobs, stopPc[j] = "idle", stopPc'[j] = "stopping"
      PROVE  owner = j \/ pc[j] = "refused"
  <2>1. PICK k \in Jobs : StopArrives(k)
    <3>1. CASE \/ ControllerStep \/ UnregisterWorker \/ PostStart \/ PostStop \/ NoSuchWorker
               \/ StartAnswered \/ StopAnswered \/ RequestFails \/ RequestTimesOut
               \/ (\E m \in reports : ReportArrives(m) \/ ReportLost(m))
               \/ ControllerRestarts \/ (\E i \in Jobs : LateRequestLost(i)) \/ UNCHANGED vars
      BY <1>1, <3>1
         DEF ControllerStep, UnregisterWorker, PostStart, PostStop, NoSuchWorker, StartAnswered,
             StopAnswered, RequestFails, RequestTimesOut, ReportArrives, ReportLost,
             ControllerRestarts, LateRequestLost, vars, workerVars, workerStateVars
    <3>2. CASE \E i \in Jobs : StartArrives(i)
      BY <1>1, <3>2 DEF StartArrives, W!StartBegin, W!StartRefused
    <3>3. CASE WorkerStep \/ WorkerRestarts \/ \E i \in Jobs : Notify(i)
      BY <1>1, <3>3, WorkerFacts DEF ClusterInv
    <3>. QED
      BY <1>1, <3>1, <3>2, <3>3 DEF Next
  <2>2. k = j /\ status = "running"
    BY <1>1, <2>1, RunTypes DEF ClusterInv, StopArrives, W!StopBegin, W!StopRefused
  <2>3. lock = "stop" /\ lockJob = j /\ stop[j] = "posted"
    BY <1>1, <2>1, <2>2 DEF ClusterInv, QuietInv, PhaseInv, StopArrives, Sending
  <2>. QED
    BY <1>1, <2>2, <2>3 DEF ClusterInv, QuietInv
<1>2. ClusterInv /\ [Next]_vars =>
        [faults = 0 =>
           \A j \in Jobs : stopPc[j] = "idle" /\ stopPc'[j] = "stopping" =>
             owner = j \/ pc[j] = "refused"]_vars
  BY <1>1
<1>. QED
  BY <1>2, Invariant, PTL DEF Spec, StopsItsOwnRun

\* The worker keeps its promises to this controller, whatever becomes of the
\* messages: the third as long as each answer is waited for.
THEOREM WorkerKeepsItsPromises ==
  Spec => [](W!RunningIsBacked /\ W!OneRunPerStop /\ W!RunningMeansRunning /\ W!StopReachesRun)
<1>1. ClusterInv =>
        W!RunningIsBacked /\ W!OneRunPerStop /\ W!RunningMeansRunning /\ W!StopReachesRun
  <2> SUFFICES ASSUME ClusterInv
               PROVE  W!RunningIsBacked /\ W!OneRunPerStop /\ W!RunningMeansRunning /\ W!StopReachesRun
    OBVIOUS
  <2>1. W!StopReachesRun
    <3> SUFFICES ASSUME status = "stopped", \A t \in Jobs : stopPc[t] # "stopping",
                        pc[owner] \in W!Launched, owner \notin meddled \cup cancelled
                 PROVE  FALSE
      BY DEF W!StopReachesRun
    <3>1. owner \in Jobs
      BY RunTypes DEF ClusterInv, WorkerInv, Q!FreeInv
    <3>. QED
      BY <3>1, HeldFacts DEF ClusterInv
  <2>2. W!RunningIsBacked /\ W!RunningMeansRunning
    BY DEF ClusterInv, WorkerInv, Q!FreeInv, Q!SerialInv, Q!RunningIsBacked,
           Q!RunningMeansRunning, W!RunningIsBacked, W!RunningMeansRunning, W!Working,
           W!Handling, Q!Working, Q!Handling
  <2>3. W!OneRunPerStop
    BY DEF ClusterInv, WorkerInv, Q!FreeInv, Q!OneRunPerStop, W!OneRunPerStop, W!Working,
           W!Handling, Q!Working, Q!Handling, W!Cardinality, Q!Cardinality
  <2>. QED
    BY <2>1, <2>2, <2>3
<1>. QED
  BY <1>1, Invariant, PTL

\* And as long as each answer is waited for, every run that ends by itself is
\* reported under the job it was started for, or, if it has lost the state to
\* another run, under the job of that run; and a run that was cancelled, and that
\* nothing meddled with, finds the state stopped.
THEOREM RunsReportTheirOwnJobs == Spec => W!CancelledMeansStopped /\ W!EachRunReportsItsJob
<1>1. ASSUME ClusterInv, [Next]_vars, client # "any", NEW r \in Jobs, pc'[r] = "done"
      PROVE  /\ pc[r] = "running" /\ r \notin meddled => status = "stopped"
             /\ pc[r] \in {"finished", "failed"} =>
                  IF r = owner THEN W!ReportsTheJobOf(r) ELSE W!ReportsAsOwner(r)
  <2>1. CASE [Q!Next]_(Q!vars)
    <3>1. pc[r] = "running" /\ r \notin meddled => status = "stopped"
      BY <1>1, <2>1, Q!CancelledStep, ServiceConstants DEF ClusterInv, WorkerInv
    <3>2. pc[r] \in {"finished", "failed"} =>
            IF r = owner THEN Q!ReportsTheJobOf(r) ELSE Q!ReportsAsOwner(r)
      BY <1>1, <2>1, Q!ReportStep, ServiceConstants DEF ClusterInv, WorkerInv
    <3>. QED
      BY <3>1, <3>2 DEF Q!ReportsTheJobOf, W!ReportsTheJobOf, Q!ReportsAsOwner, W!ReportsAsOwner,
                        Q!Report, W!Report
  <2>2. CASE UNCHANGED workerStateVars
    BY <1>1, <2>2 DEF workerStateVars
  <2>. QED
    BY <1>1, <2>1, <2>2, WorkerSees
<1>2. ClusterInv /\ [Next]_vars =>
        [client # "any" =>
           \A r \in Jobs : pc[r] = "running" /\ pc'[r] = "done" /\ r \notin meddled =>
             status = "stopped"]_(W!vars)
  BY <1>1
<1>3. ClusterInv /\ [Next]_vars =>
        [client # "any" =>
           \A r \in Jobs : pc[r] \in {"finished", "failed"} /\ pc'[r] = "done" =>
             IF r = owner THEN W!ReportsTheJobOf(r) ELSE W!ReportsAsOwner(r)]_(W!vars)
  BY <1>1
<1>. QED
  BY <1>2, <1>3, Invariant, PTL DEF Spec, W!CancelledMeansStopped, W!EachRunReportsItsJob

\* The controller keeps its own: one job runs at a time, no worker is left tied
\* to a job that is over, and a running job still awaits the worker's report.
THEOREM ControllerKeepsItsPromises ==
  Spec => [](P!SingleRunningJob /\ P!NoLeakedWorker /\ P!RunningJobAwaitsReport)
<1>1. ClusterInv => P!SingleRunningJob /\ P!NoLeakedWorker /\ P!RunningJobAwaitsReport
  BY DEF ClusterInv, P!IInv
<1>. QED
  BY <1>1, Invariant, PTL
=============================================================================
