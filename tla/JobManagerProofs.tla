-------------------------- MODULE JobManagerProofs --------------------------
(***************************************************************************)
(* Proofs about JobManager for every set of workers, every bound on the    *)
(* identifiers and either kind of reports.                                 *)
(***************************************************************************)
EXTENDS JobManager, TLAPS

\* Identifiers are numbers and NoJob is none of them.
LEMMA JobsFacts == NoJob \notin Jobs /\ Jobs \subseteq Nat
  BY MaxJobsAssumption, SMT DEF NoJob, Jobs

\* Every step keeps the types, provided the lock's holder works on a job.
LEMMA TypeStep ==
  ASSUME TypeOK, lock = "free" <=> lockJob = NoJob, [Next]_vars
  PROVE  TypeOK'
<1> USE JobsFacts DEF TypeOK, WorkerStatus, JobStatus, AssignmentStatus, TaskStatus,
                      Outcome, lockVars, registryVars, handlerVars, NoTasks
<1>1. ASSUME NEW w \in Workers, RegisterWorker(w) PROVE TypeOK'
  BY <1>1 DEF RegisterWorker
<1>2. ASSUME NEW w \in Workers, UnregisterWorker(w) PROVE TypeOK'
  BY <1>2 DEF UnregisterWorker
<1>3. ASSUME NEW team \in SUBSET Workers, CreateJob(team) PROVE TypeOK'
  BY <1>3, MaxJobsAssumption DEF CreateJob, Jobs
<1>4. CASE CreateJobInvalidTarget
  BY <1>4, MaxJobsAssumption DEF CreateJobInvalidTarget
<1>5. ASSUME NEW j \in Jobs, StartJob(j) PROVE TypeOK'
  BY <1>5 DEF StartJob
<1>6. ASSUME NEW j \in Jobs, StartJobRefused(j) PROVE TypeOK'
  BY <1>6 DEF StartJobRefused
<1>7. ASSUME NEW w \in Workers, StartMarkBusy(w) PROVE TypeOK'
  BY <1>7 DEF StartMarkBusy
<1>8. ASSUME NEW w \in Workers, StartMarkJob(w) PROVE TypeOK'
  BY <1>8 DEF StartMarkJob
<1>9. ASSUME NEW w \in Workers, SendJobToWorker(w) PROVE TypeOK'
  BY <1>9 DEF SendJobToWorker
<1>10. CASE StartJobReturn
  BY <1>10 DEF StartJobReturn
<1>11. ASSUME NEW j \in Jobs, StopJobPick(j) PROVE TypeOK'
  BY <1>11 DEF StopJobPick
<1>12. ASSUME NEW j \in Jobs, StopJob(j) PROVE TypeOK'
  BY <1>12 DEF StopJob
<1>13. ASSUME NEW j \in Jobs, StopJobRefused(j) PROVE TypeOK'
  BY <1>13 DEF StopJobRefused
<1>14. ASSUME NEW w \in Workers, StopJobOnWorker(w) PROVE TypeOK'
  BY <1>14 DEF StopJobOnWorker
<1>15. CASE StopJobReturn
  BY <1>15 DEF StopJobReturn
<1>16. ASSUME NEW j \in Jobs, StopMarkPick(j) PROVE TypeOK'
  BY <1>16 DEF StopMarkPick
<1>17. ASSUME NEW j \in Jobs, MarkJobStopped(j) PROVE TypeOK'
  BY <1>17 DEF MarkJobStopped
<1>18. ASSUME NEW w \in Workers, NEW j \in Jobs, NEW o \in Outcome, HandleWorkerCompletion(w, j, o)
       PROVE TypeOK'
  BY <1>18 DEF HandleWorkerCompletion, ApplyReport, Aggregate
<1>19. CASE Restart
  BY <1>19 DEF Restart, NoTeam
<1>20. CASE UNCHANGED vars
  BY <1>20 DEF vars
<1>. QED
  BY <1>1, <1>2, <1>3, <1>4, <1>5, <1>6, <1>7, <1>8, <1>9, <1>10, <1>11, <1>12, <1>13,
     <1>14, <1>15, <1>16, <1>17, <1>18, <1>19, <1>20 DEF Next

\* The steps of Next, one lemma each.  A registration gives an absent worker,
\* which has no job, an idle entry.
LEMMA RegisterWorkerStep ==
  ASSUME IInv, TypeOK', NEW w \in Workers, RegisterWorker(w)
  PROVE  IInv'
<1> USE JobsFacts DEF IInv, TypeOK, RegisterWorker, handlerVars, lockVars
<1>1. NoLeakedWorker'
  BY DEF NoLeakedWorker
<1>2. DeliveryInv'
  BY DEF DeliveryInv
<1>3. SingleRunningJob' /\ RunningJobAwaitsReport' /\ EndedMeansClosed' /\ LockInv' /\ AssignmentInv'
  BY DEF SingleRunningJob, RunningJobAwaitsReport, EndedMeansClosed, LockInv,
         AssignmentInv, Team, OtherRunning
<1>. QED
  BY <1>1, <1>2, <1>3

\* A worker that leaves takes its job entry along.
LEMMA UnregisterWorkerStep ==
  ASSUME IInv, TypeOK', NEW w \in Workers, UnregisterWorker(w)
  PROVE  IInv'
<1> USE JobsFacts DEF IInv, TypeOK, UnregisterWorker, handlerVars, lockVars
<1>1. NoLeakedWorker'
  BY DEF NoLeakedWorker
<1>2. DeliveryInv'
  BY DEF DeliveryInv
<1>3. SingleRunningJob' /\ RunningJobAwaitsReport' /\ EndedMeansClosed' /\ LockInv' /\ AssignmentInv'
  BY DEF SingleRunningJob, RunningJobAwaitsReport, EndedMeansClosed, LockInv,
         AssignmentInv, Team, OtherRunning
<1>. QED
  BY <1>1, <1>2, <1>3

\* The new job's identifier is beyond all that were ever delivered.
LEMMA CreateJobStep ==
  ASSUME IInv, TypeOK', NEW team \in SUBSET Workers, CreateJob(team)
  PROVE  IInv'
<1> USE JobsFacts DEF IInv, TypeOK, CreateJob, registryVars, lockVars
<1> DEFINE new == jobCounter + 1
<1>0. new \in Jobs /\ jobStatus[new] = "none" /\ jobStatus' = [jobStatus EXCEPT ![new] = "pending"]
  BY MaxJobsAssumption DEF AssignmentInv, Jobs
<1>1. SingleRunningJob'
  BY DEF SingleRunningJob
<1>2. NoLeakedWorker'
  BY <1>0 DEF NoLeakedWorker
<1>3. RunningJobAwaitsReport'
  BY DEF RunningJobAwaitsReport
<1>4. EndedMeansClosed'
  BY DEF EndedMeansClosed, Outcome
<1>5. LockInv'
  BY DEF LockInv, OtherRunning
<1>6. AssignmentInv'
  <2>1. /\ asg'[new] = [w \in Workers |-> IF w \in team THEN "assigned" ELSE "none"]
        /\ \A j \in Jobs \ {new} : asg'[j] = asg[j] /\ jobStatus'[j] = jobStatus[j]
        /\ jobStatus'[new] = "pending" /\ jobCounter' = new /\ team # {}
    BY <1>0
  <2>2. \A j \in Jobs \ {new} : j <= jobCounter => j <= jobCounter'
    BY <2>1 DEF Jobs
  <2>. HIDE DEF new
  <2>3. ASSUME NEW j \in Jobs, j # new
        PROVE  /\ jobStatus'[j] # "none" => j <= jobCounter' /\ Team(j)' # {}
               /\ jobStatus'[j] = "pending" => \A w \in Workers : asg'[j][w] \in {"none", "assigned"}
               /\ jobStatus'[j] = "running" /\ lockJob' # j =>
                    \A w \in Workers : asg'[j][w] \in {"none", "running"} \cup Outcome
    BY <2>1, <2>2, <2>3 DEF AssignmentInv, Team
  <2>4. \A w \in Workers : asg'[new][w] \in {"none", "assigned"}
    BY <1>0, <2>1
  <2>5. new <= jobCounter'
    BY <1>0, <2>1, MaxJobsAssumption DEF Jobs
  <2>6. ASSUME NEW j \in Jobs, j = new PROVE Team(j)' # {}
    <3>1. PICK w \in team : TRUE
      BY <2>1
    <3>2. asg'[j][w] = "assigned"
      BY <2>1, <2>6, <3>1
    <3>. QED
      BY <3>1, <3>2 DEF Team
  <2>. HIDE DEF IInv, TypeOK, CreateJob
  <2>7. ASSUME NEW j \in Jobs
        PROVE  /\ jobStatus'[j] # "none" => j <= jobCounter' /\ Team(j)' # {}
               /\ jobStatus'[j] = "pending" => \A w \in Workers : asg'[j][w] \in {"none", "assigned"}
               /\ jobStatus'[j] = "running" /\ lockJob' # j =>
                    \A w \in Workers : asg'[j][w] \in {"none", "running"} \cup Outcome
    <3>1. CASE j = new
      BY <2>1, <2>4, <2>5, <2>6, <3>1
    <3>. QED
      BY <2>3, <3>1
  <2>. QED
    BY <2>7 DEF AssignmentInv
<1>7. DeliveryInv'
  BY <1>0, MaxJobsAssumption DEF DeliveryInv
<1>. QED
  BY <1>1, <1>2, <1>3, <1>4, <1>5, <1>6, <1>7

\* The checks of CanStart make the job the only running one.
LEMMA StartJobStep ==
  ASSUME IInv, TypeOK', NEW j \in Jobs, StartJob(j)
  PROVE  IInv'
<1> USE JobsFacts DEF IInv, TypeOK, StartJob, registryVars
<1>1. SingleRunningJob'
  BY DEF SingleRunningJob, OtherRunning, CanStart
<1>2. NoLeakedWorker'
  BY DEF NoLeakedWorker, LockInv
<1>3. RunningJobAwaitsReport'
  BY DEF RunningJobAwaitsReport, LockInv
<1>4. EndedMeansClosed'
  BY DEF EndedMeansClosed, Outcome
<1>5. LockInv'
  BY DEF LockInv, CanStart, Team, AssignmentInv, Outcome, OtherRunning
<1>6. AssignmentInv'
  BY DEF AssignmentInv, Team, LockInv, CanStart
<1>7. DeliveryInv'
  BY DEF DeliveryInv, CanStart
<1>. QED
  BY <1>1, <1>2, <1>3, <1>4, <1>5, <1>6, <1>7

\* The assignment runs as soon as its worker has been looked at.
LEMMA StartMarkBusyStep ==
  ASSUME IInv, TypeOK', NEW w \in Workers, StartMarkBusy(w)
  PROVE  IInv'
<1> USE JobsFacts DEF IInv, TypeOK, StartMarkBusy
<1>1. NoLeakedWorker'
  BY DEF NoLeakedWorker, LockInv
<1>2. RunningJobAwaitsReport'
  BY DEF RunningJobAwaitsReport, LockInv
<1>3. EndedMeansClosed'
  BY DEF EndedMeansClosed, LockInv, Outcome
<1>4. LockInv'
  BY DEF LockInv, OtherRunning
<1>5. AssignmentInv'
  BY DEF AssignmentInv, LockInv, Team
<1>6. DeliveryInv'
  BY DEF DeliveryInv
<1>7. SingleRunningJob'
  BY DEF SingleRunningJob
<1>. QED
  BY <1>1, <1>2, <1>3, <1>4, <1>5, <1>6, <1>7

\* The worker is tied to the job that the lock's holder has just set running.
LEMMA StartMarkJobStep ==
  ASSUME IInv, TypeOK', NEW w \in Workers, StartMarkJob(w)
  PROVE  IInv'
<1> USE JobsFacts DEF IInv, TypeOK, StartMarkJob
<1>1. NoLeakedWorker'
  BY DEF NoLeakedWorker, LockInv
<1>2. LockInv'
  BY DEF LockInv
<1>3. DeliveryInv'
  BY DEF DeliveryInv
<1>4. SingleRunningJob' /\ RunningJobAwaitsReport' /\ EndedMeansClosed' /\ AssignmentInv'
  BY DEF SingleRunningJob, RunningJobAwaitsReport, EndedMeansClosed, AssignmentInv,
         Team
<1>. QED
  BY <1>1, <1>2, <1>3, <1>4

\* The job that may have reached the worker is running.
LEMMA SendJobToWorkerStep ==
  ASSUME IInv, TypeOK', NEW w \in Workers, SendJobToWorker(w)
  PROVE  IInv'
<1> USE JobsFacts DEF IInv, TypeOK, SendJobToWorker, registryVars
<1>1. NoLeakedWorker'
  BY DEF NoLeakedWorker
<1>2. LockInv'
  BY DEF LockInv
<1>3. DeliveryInv'
  BY DEF DeliveryInv, LockInv, AssignmentInv
<1>4. SingleRunningJob' /\ RunningJobAwaitsReport' /\ EndedMeansClosed' /\ AssignmentInv'
  BY DEF SingleRunningJob, RunningJobAwaitsReport, EndedMeansClosed, AssignmentInv,
         Team
<1>. QED
  BY <1>1, <1>2, <1>3, <1>4

\* When the loop has been over all assignments, every one of them runs.
LEMMA StartJobReturnStep ==
  ASSUME IInv, TypeOK', StartJobReturn
  PROVE  IInv'
<1> USE JobsFacts DEF IInv, TypeOK, StartJobReturn, registryVars
<1>1. NoLeakedWorker'
  BY DEF NoLeakedWorker, Sent, LockInv
<1>2. RunningJobAwaitsReport'
  BY DEF RunningJobAwaitsReport, LockInv, AssignmentInv, Sent, Team
<1>3. LockInv'
  BY DEF LockInv, NoTasks, OtherRunning
<1>4. AssignmentInv'
  BY DEF AssignmentInv, LockInv, Sent, Team
<1>5. SingleRunningJob' /\ EndedMeansClosed' /\ DeliveryInv'
  BY DEF SingleRunningJob, EndedMeansClosed, DeliveryInv
<1>. QED
  BY <1>1, <1>2, <1>3, <1>4, <1>5

\* Every assignment is closed; the workers stay tied to the job for the moment.
LEMMA StopJobStep ==
  ASSUME IInv, TypeOK', NEW j \in Jobs, StopJob(j)
  PROVE  IInv'
<1> USE JobsFacts DEF IInv, TypeOK, StopJob, registryVars
<1>1. SingleRunningJob'
  BY DEF SingleRunningJob
<1>2. NoLeakedWorker'
  BY DEF NoLeakedWorker, SingleRunningJob, LockInv, Team
<1>3. RunningJobAwaitsReport'
  BY DEF RunningJobAwaitsReport, SingleRunningJob, LockInv
<1>4. EndedMeansClosed'
  BY DEF EndedMeansClosed, Outcome, Team
<1>5. LockInv'
  BY DEF LockInv, Team, OtherRunning, SingleRunningJob
<1>6. AssignmentInv'
  BY DEF AssignmentInv, Team, LockInv
<1>7. DeliveryInv'
  BY DEF DeliveryInv
<1>. QED
  BY <1>1, <1>2, <1>3, <1>4, <1>5, <1>6, <1>7

\* A stop request changes nothing but its own progress.
LEMMA StopJobOnWorkerStep ==
  ASSUME IInv, TypeOK', NEW w \in Workers, StopJobOnWorker(w)
  PROVE  IInv'
<1> USE JobsFacts DEF IInv, TypeOK, StopJobOnWorker, registryVars
<1>1. NoLeakedWorker'
  BY DEF NoLeakedWorker, LockInv
<1>2. LockInv'
  BY DEF LockInv, OtherRunning
<1>3. SingleRunningJob' /\ RunningJobAwaitsReport' /\ EndedMeansClosed' /\ AssignmentInv' /\ DeliveryInv'
  BY DEF SingleRunningJob, RunningJobAwaitsReport, EndedMeansClosed, AssignmentInv,
         DeliveryInv, Team
<1>. QED
  BY <1>1, <1>2, <1>3

\* The workers still tied to the stopped job are in its team and are freed.
LEMMA StopJobReturnStep ==
  ASSUME IInv, TypeOK', StopJobReturn
  PROVE  IInv'
<1> USE JobsFacts DEF IInv, TypeOK, StopJobReturn
<1>1. NoLeakedWorker'
  BY DEF NoLeakedWorker, DeliveryInv, LockInv, Team
<1>2. RunningJobAwaitsReport'
  BY DEF RunningJobAwaitsReport, LockInv
<1>3. LockInv'
  BY DEF LockInv, NoTasks, OtherRunning
<1>4. AssignmentInv'
  BY DEF AssignmentInv, LockInv, Team, Outcome
<1>5. DeliveryInv'
  BY DEF DeliveryInv
<1>6. SingleRunningJob' /\ EndedMeansClosed'
  BY DEF SingleRunningJob, EndedMeansClosed
<1>. QED
  BY <1>1, <1>2, <1>3, <1>4, <1>5, <1>6

\* Only an ended job, whose assignments are closed, is relabelled.
LEMMA MarkJobStoppedStep ==
  ASSUME IInv, TypeOK', NEW j \in Jobs, MarkJobStopped(j)
  PROVE  IInv'
<1> USE JobsFacts DEF IInv, TypeOK, MarkJobStopped, registryVars, lockVars
<1>1. SingleRunningJob'
  BY DEF SingleRunningJob
<1>2. NoLeakedWorker'
  BY DEF NoLeakedWorker, Outcome
<1>3. RunningJobAwaitsReport'
  BY DEF RunningJobAwaitsReport
<1>4. EndedMeansClosed'
  BY DEF EndedMeansClosed, Outcome
<1>5. LockInv'
  BY DEF LockInv, OtherRunning
<1>6. AssignmentInv'
  BY DEF AssignmentInv, Team, Outcome
<1>7. DeliveryInv'
  BY DEF DeliveryInv
<1>. QED
  BY <1>1, <1>2, <1>3, <1>4, <1>5, <1>6, <1>7

\* A report closes one assignment and frees its worker; if other workers are
\* tied to the job, their assignments run and the job stays running.
LEMMA HandleWorkerCompletionStep ==
  ASSUME IInv, TypeOK', NEW w \in Workers, NEW j \in Jobs, NEW o \in Outcome, HandleWorkerCompletion(w, j, o)
  PROVE  IInv'
<1> USE JobsFacts DEF IInv, TypeOK, HandleWorkerCompletion, ApplyReport, lockVars
<1>1. SingleRunningJob'
  BY DEF SingleRunningJob, Aggregate, Outcome
<1>2. NoLeakedWorker'
  BY DEF NoLeakedWorker, Aggregate, LockInv, Outcome
<1>3. RunningJobAwaitsReport'
  BY DEF RunningJobAwaitsReport, Aggregate, AssignmentInv, LockInv, Outcome
<1>4. EndedMeansClosed'
  BY DEF EndedMeansClosed, Aggregate, AssignmentInv, LockInv, DeliveryInv, Outcome
<1>5. LockInv'
  BY DEF LockInv, OtherRunning
<1>6. AssignmentInv'
  BY DEF AssignmentInv, Aggregate, LockInv, DeliveryInv, Team, Outcome
<1>7. DeliveryInv'
  BY DEF DeliveryInv, Aggregate, Outcome
<1>. QED
  BY <1>1, <1>2, <1>3, <1>4, <1>5, <1>6, <1>7

\* A restart establishes what Init establishes, but for the identifiers drawn
\* and the jobs the workers were handed.
LEMMA RestartStep ==
  ASSUME IInv, TypeOK', Restart
  PROVE  IInv'
<1> USE JobsFacts DEF IInv, TypeOK, Restart
<1>1. SingleRunningJob' /\ NoLeakedWorker' /\ RunningJobAwaitsReport' /\ EndedMeansClosed'
  BY DEF SingleRunningJob, NoLeakedWorker, RunningJobAwaitsReport, EndedMeansClosed, Outcome
<1>2. LockInv' /\ AssignmentInv' /\ DeliveryInv'
  BY DEF LockInv, AssignmentInv, DeliveryInv, NoTasks, OtherRunning
<1>. QED
  BY <1>1, <1>2

\* A step that only moves a handler along, or burns an identifier, or does
\* nothing at all, touches nothing the invariant speaks of.
LEMMA HandlerStep ==
  ASSUME IInv, TypeOK',
         UNCHANGED <<wStatus, wJob, jobStatus, asg, lock, lockJob, task, delivered>>,
         jobCounter' \in {jobCounter, jobCounter + 1}
  PROVE  IInv'
<1> USE DEF IInv, TypeOK
<1>1. SingleRunningJob' /\ NoLeakedWorker' /\ RunningJobAwaitsReport' /\ EndedMeansClosed' /\ LockInv'
  BY DEF SingleRunningJob, NoLeakedWorker, RunningJobAwaitsReport, EndedMeansClosed, LockInv, OtherRunning
<1>2. AssignmentInv' /\ DeliveryInv'
  BY JobsFacts, MaxJobsAssumption DEF AssignmentInv, DeliveryInv, Team
<1>. QED
  BY <1>1, <1>2

\* The registry and the jobs map start empty.
LEMMA InitIInv == Init => IInv
<1> SUFFICES ASSUME Init PROVE IInv
  OBVIOUS
<1>1. TypeOK
  BY MaxJobsAssumption DEF Init, TypeOK, NoTeam, NoTasks, WorkerStatus, JobStatus,
     AssignmentStatus, TaskStatus
<1>2. SingleRunningJob /\ NoLeakedWorker /\ RunningJobAwaitsReport /\ EndedMeansClosed
  BY DEF Init, SingleRunningJob, NoLeakedWorker, RunningJobAwaitsReport, EndedMeansClosed, Outcome
<1>3. LockInv /\ AssignmentInv /\ DeliveryInv
  BY DEF Init, LockInv, AssignmentInv, DeliveryInv, NoTasks
<1>. QED
  BY <1>1, <1>2, <1>3 DEF IInv

\* The invariant is inductive: one step per action of Next.
LEMMA NextIInv == IInv /\ [Next]_vars => IInv'
<1> SUFFICES ASSUME IInv, [Next]_vars PROVE IInv'
  OBVIOUS
<1>1. TypeOK'
  BY TypeStep DEF IInv, LockInv
<1>2. ASSUME NEW w \in Workers,
             \/ RegisterWorker(w) \/ UnregisterWorker(w)
             \/ StartMarkBusy(w) \/ StartMarkJob(w) \/ SendJobToWorker(w)
             \/ StopJobOnWorker(w)
      PROVE  IInv'
  BY <1>1, <1>2, RegisterWorkerStep, UnregisterWorkerStep, StartMarkBusyStep,
     StartMarkJobStep, SendJobToWorkerStep, StopJobOnWorkerStep
<1>3. ASSUME NEW team \in SUBSET Workers, CreateJob(team) PROVE IInv'
  BY <1>1, <1>3, CreateJobStep
<1>4. CASE CreateJobInvalidTarget
  BY <1>1, <1>4, HandlerStep DEF CreateJobInvalidTarget, registryVars, lockVars
<1>5. ASSUME NEW j \in Jobs, StartJob(j) \/ StopJob(j) \/ MarkJobStopped(j) PROVE IInv'
  BY <1>1, <1>5, StartJobStep, StopJobStep, MarkJobStoppedStep
<1>6. ASSUME NEW j \in Jobs,
             StartJobRefused(j) \/ StopJobPick(j) \/ StopJobRefused(j) \/ StopMarkPick(j)
      PROVE  IInv'
  BY <1>1, <1>6, HandlerStep
     DEF StartJobRefused, StopJobPick, StopJobRefused, StopMarkPick, registryVars, lockVars
<1>7. CASE StartJobReturn \/ StopJobReturn
  BY <1>1, <1>7, StartJobReturnStep, StopJobReturnStep
<1>8. ASSUME NEW w \in Workers, NEW j \in Jobs, NEW o \in Outcome, HandleWorkerCompletion(w, j, o)
      PROVE  IInv'
  BY <1>1, <1>8, HandleWorkerCompletionStep
<1>9. CASE Restart
  BY <1>1, <1>9, RestartStep
<1>10. CASE UNCHANGED vars
  BY <1>1, <1>10, HandlerStep DEF vars
<1>. QED
  BY <1>2, <1>3, <1>4, <1>5, <1>6, <1>7, <1>8, <1>9, <1>10 DEF Next

\* The inductive invariant holds in every state of every behaviour.
THEOREM Invariant == Spec => []IInv
  BY InitIInv, NextIInv, PTL DEF Spec

\* Every variable keeps its type (TypeOK alone is not inductive: that a job is
\* recorded as delivered needs the lock's holder to work on a job).
THEOREM TypeCorrect == Spec => []TypeOK
<1>1. IInv => TypeOK
  BY DEF IInv
<1>. QED
  BY <1>1, Invariant, PTL

\* Never two running jobs, whatever the workers report and whenever the
\* controller restarts.
THEOREM AtMostOneRunningJob == Spec => []SingleRunningJob
<1>1. IInv => SingleRunningJob
  BY DEF IInv
<1>. QED
  BY <1>1, Invariant, PTL

\* No worker stays tied to a job that is over.
THEOREM WorkersAreNotLeaked == Spec => []NoLeakedWorker
<1>1. IInv => NoLeakedWorker
  BY DEF IInv
<1>. QED
  BY <1>1, Invariant, PTL

\* Outside StartJob, a running job awaits the report of some worker.
THEOREM RunningJobsAwaitAReport == Spec => []RunningJobAwaitsReport
<1>1. IInv => RunningJobAwaitsReport
  BY DEF IInv
<1>. QED
  BY <1>1, Invariant, PTL

\* A job that has ended awaits no report.
THEOREM EndedJobsAreClosed == Spec => []EndedMeansClosed
<1>1. IInv => EndedMeansClosed
  BY DEF IInv
<1>. QED
  BY <1>1, Invariant, PTL

-----------------------------------------------------------------------------
(* JobManager implements JobLifecycle: every step that changes a job is a  *)
(* step of the abstract specification, every other step stutters.          *)

\* Initial states correspond.
LEMMA LifecycleInit == Init => Lifecycle!Init
  BY DEF Init, Lifecycle!Init, resultOf, NoTeam, Lifecycle!NoTeam

\* CreateJob is Create of a job that did not exist.
LEMMA LifecycleCreate ==
  ASSUME IInv, NEW team \in SUBSET Workers, CreateJob(team)
  PROVE  Lifecycle!Create(jobCounter + 1, team) /\ jobCounter + 1 \in Jobs
<1> DEFINE new == jobCounter + 1
<1>1. new \in Jobs /\ jobStatus[new] = "none"
  BY MaxJobsAssumption DEF IInv, TypeOK, CreateJob, AssignmentInv, Jobs
<1>2. \A k \in Jobs : jobStatus[k] # "running"
  BY JobsFacts DEF CreateJob, OtherRunning
<1>3. resultOf' = [resultOf EXCEPT
                     ![new] = [w \in Workers |-> IF w \in team THEN "open" ELSE "none"]]
  BY <1>1 DEF resultOf, CreateJob, IInv, TypeOK
<1>. QED
  BY <1>1, <1>2, <1>3 DEF Lifecycle!Create, CreateJob

\* Only the step that takes the lock is seen of StartJob.
LEMMA LifecycleStart ==
  ASSUME IInv, NEW j \in Jobs, StartJob(j)
  PROVE  Lifecycle!Start(j)
<1>1. \A k \in Jobs : jobStatus[k] # "running"
  BY DEF StartJob, CanStart, OtherRunning
<1>. QED
  BY <1>1 DEF StartJob, CanStart, Lifecycle!Start, resultOf

\* That an assignment starts to run is not seen: it was open before.
LEMMA LifecycleMarkBusy ==
  ASSUME IInv, NEW w \in Workers, StartMarkBusy(w)
  PROVE  UNCHANGED <<jobStatus, resultOf>>
<1>1. lockJob \in Jobs /\ asg[lockJob][w] = "assigned"
  BY DEF IInv, TypeOK, LockInv, StartMarkBusy
<1>. QED
  BY <1>1 DEF StartMarkBusy, resultOf, IInv, TypeOK

\* Only the step that takes the lock is seen of StopJob.
LEMMA LifecycleStop ==
  ASSUME IInv, NEW j \in Jobs, StopJob(j)
  PROVE  Lifecycle!Stop(j)
<1>1. resultOf' = [resultOf EXCEPT
        ![j] = [w \in Workers |-> IF resultOf[j][w] = "none" THEN "none" ELSE "stopped"]]
  BY DEF StopJob, resultOf, Team, IInv, TypeOK
<1>. QED
  BY <1>1 DEF StopJob, Lifecycle!Stop

\* MarkJobStopped relabels a job, or finds it relabelled already.
LEMMA LifecycleRelabel ==
  ASSUME IInv, NEW j \in Jobs, MarkJobStopped(j)
  PROVE  Lifecycle!Relabel(j) \/ UNCHANGED <<jobStatus, resultOf>>
<1>1. UNCHANGED resultOf
  BY DEF MarkJobStopped, resultOf
<1>2. CASE jobStatus[j] \in Outcome
  BY <1>1, <1>2 DEF MarkJobStopped, Lifecycle!Relabel, Outcome, Lifecycle!Outcome
<1>3. CASE jobStatus[j] \notin Outcome
  BY <1>1, <1>3 DEF MarkJobStopped, IInv, TypeOK
<1>. QED
  BY <1>2, <1>3

\* The loops at the end of HandleWorkerCompletion compute the verdict that the
\* abstract specification states about the results.
LEMMA AggregateIsVerdict ==
  ASSUME NEW a \in [Workers -> AssignmentStatus], NEW r,
         r = [w \in Workers |-> IF a[w] \in {"assigned", "running"} THEN "open" ELSE a[w]],
         NEW old
  PROVE  Lifecycle!Verdict(r, old, Aggregate(a, old))
<1> DEFINE team == {w \in Workers : a[w] # "none"}
<1>1. Lifecycle!Team(r) = team
  BY DEF Lifecycle!Team
<1>2. \A w \in Workers : /\ r[w] = "completed" <=> a[w] = "completed"
                         /\ r[w] = "failed" <=> a[w] = "failed"
                         /\ r[w] = "open" <=> a[w] \in {"running", "assigned"}
  BY DEF AssignmentStatus, Outcome
<1>3. CASE \A w \in team : a[w] = "completed"
  BY <1>1, <1>2, <1>3 DEF Aggregate, Lifecycle!Verdict
<1>4. CASE /\ ~ \A w \in team : a[w] = "completed"
           /\ \E w \in team : a[w] = "failed"
           /\ \A w \in team : a[w] \notin {"running", "assigned"}
  BY <1>1, <1>2, <1>4 DEF Aggregate, Lifecycle!Verdict
<1>5. CASE /\ ~ \A w \in team : a[w] = "completed"
           /\ ~ (/\ \E w \in team : a[w] = "failed"
                 /\ \A w \in team : a[w] \notin {"running", "assigned"})
  BY <1>1, <1>2, <1>5 DEF Aggregate, Lifecycle!Verdict
<1>. QED
  BY <1>3, <1>4, <1>5

\* A report about a job is one that had started, from a member of its team.
LEMMA LifecycleReport ==
  ASSUME IInv, TypeOK', NEW w \in Workers, NEW j \in Jobs, NEW o \in Outcome,
         HandleWorkerCompletion(w, j, o)
  PROVE  Lifecycle!Report(j, w, o)
<1> DEFINE new == Aggregate(asg'[j], jobStatus[j])
<1>1. jobStatus[j] \notin {"none", "pending"} /\ resultOf[j][w] # "none"
  BY DEF HandleWorkerCompletion, ApplyReport, IInv, DeliveryInv, resultOf
<1>2. resultOf' = [resultOf EXCEPT ![j][w] = o]
  <2>1. /\ asg' = [asg EXCEPT ![j][w] = o] /\ asg \in [Jobs -> [Workers -> AssignmentStatus]]
        /\ o \notin {"assigned", "running"}
    BY DEF HandleWorkerCompletion, ApplyReport, Outcome, IInv, TypeOK
  <2>. QED
    BY <2>1 DEF resultOf
<1>3. /\ asg'[j] \in [Workers -> AssignmentStatus]
      /\ resultOf'[j] = [v \in Workers |->
           IF asg'[j][v] \in {"assigned", "running"} THEN "open" ELSE asg'[j][v]]
  BY DEF TypeOK, resultOf
<1>4. Lifecycle!Verdict(resultOf'[j], jobStatus[j], new)
  BY <1>3, AggregateIsVerdict
<1>5. jobStatus' = [jobStatus EXCEPT ![j] = new] /\ new \in Lifecycle!JobStatus
  BY DEF HandleWorkerCompletion, ApplyReport, TypeOK, IInv, JobStatus, Outcome, Lifecycle!JobStatus,
         Lifecycle!Outcome, Aggregate
<1>. QED
  BY <1>1, <1>2, <1>4, <1>5 DEF Lifecycle!Report

\* Every step is a step of JobLifecycle or changes nothing it sees.
LEMMA LifecycleStep ==
  IInv /\ IInv' /\ [Next]_vars => [Lifecycle!Next]_(Lifecycle!lifecycleVars)
<1> SUFFICES ASSUME IInv, IInv', [Next]_vars,
                    ~ UNCHANGED <<jobStatus, resultOf>>
             PROVE  Lifecycle!Next
  BY DEF Lifecycle!lifecycleVars
<1>1. UNCHANGED <<jobStatus, asg>> => UNCHANGED <<jobStatus, resultOf>>
  BY DEF resultOf
<1>2. ASSUME NEW w \in Workers,
             \/ RegisterWorker(w) \/ UnregisterWorker(w)
             \/ StartMarkBusy(w) \/ StartMarkJob(w) \/ SendJobToWorker(w)
             \/ StopJobOnWorker(w)
      PROVE  FALSE
  BY <1>1, <1>2, LifecycleMarkBusy
     DEF RegisterWorker, UnregisterWorker, StartMarkJob, SendJobToWorker, StopJobOnWorker
<1>3. ASSUME NEW team \in SUBSET Workers, CreateJob(team) PROVE Lifecycle!Next
  BY <1>3, LifecycleCreate DEF Lifecycle!Next
<1>4. ASSUME NEW j \in Jobs, StartJob(j) \/ StopJob(j) \/ MarkJobStopped(j)
      PROVE  Lifecycle!Next
  BY <1>4, LifecycleStart, LifecycleStop, LifecycleRelabel DEF Lifecycle!Next
<1>5. ASSUME NEW j \in Jobs,
             StartJobRefused(j) \/ StopJobPick(j) \/ StopJobRefused(j) \/ StopMarkPick(j)
      PROVE  FALSE
  BY <1>1, <1>5 DEF StartJobRefused, StopJobPick, StopJobRefused, StopMarkPick
<1>6. ASSUME CreateJobInvalidTarget \/ StartJobReturn \/ StopJobReturn \/ UNCHANGED vars
      PROVE  FALSE
  BY <1>1, <1>6 DEF CreateJobInvalidTarget, StartJobReturn, StopJobReturn, vars
<1>7. ASSUME NEW w \in Workers, NEW j \in Jobs, NEW o \in Outcome, HandleWorkerCompletion(w, j, o)
      PROVE  Lifecycle!Next
  BY <1>7, LifecycleReport DEF IInv, Lifecycle!Next, Outcome, Lifecycle!Outcome
<1>8. CASE Restart
  <2>1. Lifecycle!Forget
    BY <1>8 DEF Restart, Lifecycle!Forget, resultOf, NoTeam, Lifecycle!NoTeam
  <2>. QED
    BY <2>1 DEF Lifecycle!Next
<1>. QED
  BY <1>2, <1>3, <1>4, <1>5, <1>6, <1>7, <1>8 DEF Next

\* The job manager implements the abstract life cycle of a job.
THEOREM JobsFollowTheLifecycle == Spec => ImplementsLifecycle
<1>1. Init => Lifecycle!Init
  BY LifecycleInit
<1>2. IInv /\ IInv' /\ [Next]_vars => [Lifecycle!Next]_(Lifecycle!lifecycleVars)
  BY LifecycleStep
<1>. QED
  BY <1>1, <1>2, Invariant, PTL DEF Spec, ImplementsLifecycle, Lifecycle!LifecycleSpec

-----------------------------------------------------------------------------
(* What only a late report can do.                                         *)

\* An ended job keeps its status or is relabelled, but for a late report on it.
THEOREM EndedJobsStayEnded == Spec => TerminalIsFinal
<1>1. ASSUME IInv, [Next]_vars, NEW j \in Jobs, jobStatus[j] \in {"stopped"} \cup Outcome
      PROVE  \/ jobStatus'[j] \in {jobStatus[j], "stopped", "none"}
             \/ \E w \in Workers : LateReport(w, j)
  <2> USE DEF IInv, TypeOK, Outcome
  <2>1. ASSUME NEW w \in Workers, NEW k \in Jobs, NEW o \in Outcome,
               HandleWorkerCompletion(w, k, o)
        PROVE  jobStatus'[j] = jobStatus[j] \/ LateReport(w, j)
    <3>1. CASE asg[k][w] = "running"
      BY <1>1, <2>1, <3>1 DEF HandleWorkerCompletion, ApplyReport, EndedMeansClosed
    <3>2. CASE asg[k][w] # "running" /\ k = j
      BY <2>1, <3>2 DEF LateReport
    <3>3. CASE k # j
      BY <2>1, <3>3 DEF HandleWorkerCompletion, ApplyReport
    <3>. QED
      BY <3>1, <3>2, <3>3
  <2>2. ASSUME NEW k \in Jobs, StartJob(k) PROVE jobStatus'[j] = jobStatus[j]
    BY <1>1, <2>2 DEF StartJob, CanStart
  <2>3. ASSUME NEW k \in Jobs, StopJob(k) \/ MarkJobStopped(k)
        PROVE  jobStatus'[j] \in {jobStatus[j], "stopped"}
    BY <1>1, <2>3 DEF StopJob, MarkJobStopped
  <2>4. ASSUME NEW team \in SUBSET Workers, CreateJob(team) PROVE jobStatus'[j] = jobStatus[j]
    BY <1>1, <2>4, LifecycleCreate DEF CreateJob, Lifecycle!Create
  <2>5. CASE Restart
    BY <2>5 DEF Restart
  <2>6. CASE UNCHANGED jobStatus
    BY <2>6
  <2>. QED
    BY <1>1, <2>1, <2>2, <2>3, <2>4, <2>5, <2>6
       DEF Next, vars, RegisterWorker, UnregisterWorker, StartMarkBusy, StartMarkJob,
           SendJobToWorker, StopJobOnWorker, CreateJobInvalidTarget, StartJobRefused,
           StopJobPick, StopJobRefused, StopMarkPick, StartJobReturn, StopJobReturn
<1>2. IInv /\ [Next]_vars =>
        [\A j \in Jobs : jobStatus[j] \in {"stopped"} \cup Outcome =>
           \/ jobStatus'[j] \in {jobStatus[j], "stopped", "none"}
           \/ \E w \in Workers : LateReport(w, j)]_vars
  BY <1>1
<1>. QED
  BY <1>2, Invariant, PTL DEF Spec, TerminalIsFinal

\* A busy worker is freed only by the report it owed, by the stop of the job it
\* works on or by its own late report on another job.
THEOREM WorkersAreFreedWhenDone == Spec => FreedOnlyWhenDone
<1>1. ASSUME IInv, [Next]_vars, NEW w \in Workers,
             wStatus[w] = "busy", wJob[w] # NoJob, wStatus'[w] = "idle"
      PROVE  asg'[wJob[w]][w] # "running" \/ \E j \in Jobs : LateReport(w, j)
  <2> USE DEF IInv, TypeOK
  <2>1. wJob[w] \in Jobs
    BY <1>1
  <2>2. ASSUME NEW v \in Workers, NEW k \in Jobs, NEW o \in Outcome,
               HandleWorkerCompletion(v, k, o)
        PROVE  asg'[wJob[w]][w] # "running" \/ LateReport(w, k)
    <3>1. v = w
      BY <1>1, <2>2 DEF HandleWorkerCompletion, ApplyReport
    <3> SUFFICES ASSUME asg[k][v] = "running" PROVE asg'[wJob[w]][w] # "running"
      BY <2>2, <3>1 DEF LateReport
    <3>2. asg[k][v] = "running" /\ jobStatus[k] # "none"
      BY <2>2 DEF HandleWorkerCompletion, ApplyReport
    <3>3. jobStatus[k] = "running"
      BY <1>1, <3>2 DEF EndedMeansClosed, AssignmentInv, JobStatus, Outcome
    <3>4. wJob[w] = k
      BY <1>1, <2>1, <2>2, <3>3 DEF HandleWorkerCompletion, ApplyReport, NoLeakedWorker, SingleRunningJob
    <3>5. asg' = [asg EXCEPT ![k][v] = o] /\ o # "running"
      BY <2>2 DEF HandleWorkerCompletion, ApplyReport, Outcome
    <3>. QED
      BY <1>1, <2>1, <3>1, <3>4, <3>5
  <2>3. CASE StopJobReturn
    <3>1. asg[wJob[w]][w] = "stopped"
      BY <1>1, <2>1, <2>3 DEF StopJobReturn, NoLeakedWorker, LockInv, OtherRunning
    <3>. QED
      BY <2>3, <3>1 DEF StopJobReturn
  <2>4. CASE wStatus' = wStatus
    BY <1>1, <2>4
  <2>5. ASSUME NEW v \in Workers, RegisterWorker(v) \/ UnregisterWorker(v) \/ StartMarkBusy(v)
        PROVE  FALSE
    BY <1>1, <2>5 DEF RegisterWorker, UnregisterWorker, StartMarkBusy
  <2>6. CASE Restart
    BY <1>1, <2>6 DEF Restart
  <2>. QED
    BY <1>1, <2>2, <2>3, <2>4, <2>5, <2>6
       DEF Next, vars, registryVars, CreateJob, StartJob, StopJob, MarkJobStopped,
           StartMarkJob, SendJobToWorker, StopJobOnWorker, CreateJobInvalidTarget,
           StartJobRefused, StopJobPick, StopJobRefused, StopMarkPick, StartJobReturn
<1>2. IInv /\ [Next]_vars =>
        [\A w \in Workers : wStatus[w] = "busy" /\ wJob[w] # NoJob /\ wStatus'[w] = "idle"
           => \/ asg'[wJob[w]][w] # "running"
              \/ \E j \in Jobs : LateReport(w, j)]_vars
  BY <1>1
<1>. QED
  BY <1>2, Invariant, PTL DEF Spec, FreedOnlyWhenDone
=============================================================================
