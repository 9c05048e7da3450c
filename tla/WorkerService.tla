---------------------------- MODULE WorkerService ----------------------------
(***************************************************************************)
(* One worker process: the HTTP handlers that start and stop benchmarks,   *)
(* the goroutine that runs each of them, and the state they share          *)
(* (internal/service).                                                     *)
(*                                                                         *)
(* The shared state has a lock and the cancel function has another; both   *)
(* are held for one access at a time, so every access is a step of its     *)
(* own.  A benchmark run belongs to a /start request: the two carry the    *)
(* same identifier, which the code does not have.                          *)
(*                                                                         *)
(* Requests come at any time, and a run may outlive the stop that ended    *)
(* it: the next /start is accepted as soon as the status is not "running". *)
(* The state has one place and the service one cancel function, so two     *)
(* runs that are at work at the same time write over each other.  Two      *)
(* history variables, of the model only, let the properties speak of it:   *)
(* "client" tells whether the clients have waited so far, that is, have    *)
(* sent a /start or /stop only when the previous one was answered (the     *)
(* controller does, as long as no request times out); "meddled" names the  *)
(* runs that another run or request interfered with while they worked.     *)
(***************************************************************************)
EXTENDS Naturals, FiniteSets

CONSTANTS
  Runs,              \* bound: the /start requests of the behaviour
  Stops,             \* bound: the /stop and /exit requests of the behaviour
  Jobs,              \* job identifiers a /start request may carry
  NoJob,             \* stands for an empty jobId
  NoRun              \* stands for a nil cancelFunc

ASSUME NoJobAssumption == NoJob \notin Jobs
ASSUME NoRunAssumption == NoRun \notin Runs
ASSUME RequestsAssumption == IsFiniteSet(Runs) /\ IsFiniteSet(Stops)

VARIABLES
  status,      \* BenchmarkState.Status
  jobId,       \* BenchmarkState.JobID
  owner,       \* the run whose StartBenchmark wrote the current state
  cancelFn,    \* Service.cancelFunc, as the run whose context it cancels
  pc,          \* run -> how far its handler and its goroutine are
  runJob,      \* run -> the jobId of its request
  cancelled,   \* the runs whose context is cancelled
  stopPc,      \* stop request -> how far its handler is
  reports,     \* completions sent to the controller
  client,      \* have the clients waited for answers so far?
  meddled      \* the runs whose place in the state, or whose cancel function,
               \* another run or request wrote over while they were at work

vars == <<status, jobId, owner, cancelFn, pc, runJob, cancelled, stopPc, reports,
          client, meddled>>

Status == {"idle", "running", "completed", "stopped", "failed"}

\* accepted, named: the handler, before it launches the goroutine; connecting,
\* running: the goroutine, in NewRedisClient and in Runner.Run; cleared: Run
\* returned nil; finished, failed: the outcome is written and to be reported;
\* done; refused: 409; dead: the process exited.
Handling == {"accepted", "named"}
Working == Handling \cup {"connecting", "running", "cleared"}
Launched == {"connecting", "running"}
Live == Working \cup {"finished", "failed"}
RunPc == {"idle", "refused", "done", "dead"} \cup Live

Init ==
  /\ status = "idle" /\ jobId = NoJob
  /\ owner = NoRun /\ cancelFn = NoRun
  /\ pc = [r \in Runs |-> "idle"]
  /\ runJob = [r \in Runs |-> NoJob]
  /\ cancelled = {}
  /\ stopPc = [t \in Stops |-> "idle"]
  /\ reports = {}
  /\ client = "waits"
  /\ meddled = {}

\* Has every request been answered?
Answered ==
  /\ \A r \in Runs : pc[r] \notin Handling
  /\ \A t \in Stops : stopPc[t] # "stopping"

\* What is known of the clients after a request that comes now.
AfterRequest == IF Answered THEN client ELSE "any"

\* The runs at work beside run q, which writes to the state or the function.
Others(q) == {r \in Runs \ {q} : pc[r] \in Working}

-----------------------------------------------------------------------------
(* POST /start                                                             *)

\* Bug: the old JobID survives a start.
StartBeginKeepsJob(r, j) ==
  /\ pc[r] = "idle"
  /\ client' = AfterRequest
  /\ status # "running"
  /\ status' = "running" /\ owner' = r
  /\ runJob' = [runJob EXCEPT ![r] = j]
  /\ pc' = [pc EXCEPT ![r] = "accepted"]
  /\ meddled' = meddled \cup ({owner} \cap Others(r))
  /\ UNCHANGED <<jobId, cancelFn, cancelled, stopPc, reports>>

\* Bug: the state is replaced whatever the status says.
StartBeginUnchecked(r, j) ==
  /\ pc[r] = "idle"
  /\ client' = AfterRequest
  /\ status' = "running" /\ jobId' = NoJob /\ owner' = r
  /\ runJob' = [runJob EXCEPT ![r] = j]
  /\ pc' = [pc EXCEPT ![r] = "accepted"]
  /\ meddled' = meddled \cup ({owner} \cap Others(r))
  /\ UNCHANGED <<cancelFn, cancelled, stopPc, reports>>

\* StartBenchmark replaces the whole state, so the JobID is empty for a while.
StartBegin(r, j) ==
  /\ pc[r] = "idle"
  /\ client' = AfterRequest
  /\ status # "running"
  /\ status' = "running" /\ jobId' = NoJob /\ owner' = r
  /\ runJob' = [runJob EXCEPT ![r] = j]
  /\ pc' = [pc EXCEPT ![r] = "accepted"]
  /\ meddled' = meddled \cup ({owner} \cap Others(r))
  /\ UNCHANGED <<cancelFn, cancelled, stopPc, reports>>

\* Bug: the JobID of a request is stored before the request is refused.
StartRefusedNamed(r) ==
  /\ pc[r] = "idle"
  /\ client' = AfterRequest
  /\ status = "running"
  /\ jobId' \in Jobs
  /\ pc' = [pc EXCEPT ![r] = "refused"]
  /\ UNCHANGED <<status, owner, cancelFn, runJob, cancelled, stopPc, reports, meddled>>

StartRefused(r) ==
  /\ pc[r] = "idle"
  /\ client' = AfterRequest
  /\ status = "running"
  /\ pc' = [pc EXCEPT ![r] = "refused"]
  /\ UNCHANGED <<status, jobId, owner, cancelFn, runJob, cancelled, stopPc,
                reports, meddled>>

StartName(r) ==
  /\ pc[r] = "accepted"
  /\ jobId' = IF runJob[r] # NoJob THEN runJob[r] ELSE jobId
  /\ pc' = [pc EXCEPT ![r] = "named"]
  /\ UNCHANGED <<status, owner, cancelFn, runJob, cancelled, stopPc, reports,
                client, meddled>>

\* Bug: a cancel function that is still there is not replaced.
StartLaunchKeeps(r) ==
  /\ pc[r] = "named"
  /\ cancelFn' = IF cancelFn = NoRun THEN r ELSE cancelFn
  /\ pc' = [pc EXCEPT ![r] = "connecting"]
  /\ meddled' = meddled \cup ({cancelFn} \cap Others(r))
  /\ UNCHANGED <<status, jobId, owner, runJob, cancelled, stopPc, reports, client>>

StartLaunch(r) ==
  /\ pc[r] = "named"
  /\ cancelFn' = r
  /\ pc' = [pc EXCEPT ![r] = "connecting"]
  /\ meddled' = meddled \cup ({cancelFn} \cap Others(r))
  /\ UNCHANGED <<status, jobId, owner, runJob, cancelled, stopPc, reports, client>>

-----------------------------------------------------------------------------
(* runBenchmark.  It writes the shared state without asking whether the    *)
(* state is still its own.                                                 *)

\* NewRedisClient does not know the context: it may succeed after a stop.
ConnectOk(r) ==
  /\ pc[r] = "connecting"
  /\ pc' = [pc EXCEPT ![r] = "running"]
  /\ UNCHANGED <<status, jobId, owner, cancelFn, runJob, cancelled, stopPc,
                reports, client, meddled>>

\* Bug: a failure to connect is not written to the state.
ConnectFailSilently(r) ==
  /\ pc[r] = "connecting"
  /\ pc' = [pc EXCEPT ![r] = "failed"]
  /\ UNCHANGED <<status, jobId, owner, cancelFn, runJob, cancelled, stopPc,
                reports, client, meddled>>

\* The cancel function is left behind.
ConnectFail(r) ==
  /\ pc[r] = "connecting"
  /\ status' = "failed"
  /\ pc' = [pc EXCEPT ![r] = "failed"]
  /\ meddled' = meddled \cup ({owner} \cap Others(r))
  /\ UNCHANGED <<jobId, owner, cancelFn, runJob, cancelled, stopPc, reports, client>>

RunCancelled(r) ==
  /\ pc[r] = "running"
  /\ r \in cancelled
  /\ pc' = [pc EXCEPT ![r] = "done"]
  /\ UNCHANGED <<status, jobId, owner, cancelFn, runJob, cancelled, stopPc,
                reports, client, meddled>>

\* Run returns nil, perhaps although its context was cancelled at the last
\* moment; the cancel function is cleared, whosever it is.
RunReturns(r) ==
  /\ pc[r] = "running"
  /\ cancelFn' = NoRun
  /\ pc' = [pc EXCEPT ![r] = "cleared"]
  /\ meddled' = meddled \cup ({cancelFn} \cap Others(r))
  /\ UNCHANGED <<status, jobId, owner, runJob, cancelled, stopPc, reports, client>>

\* Bug: the end of a benchmark is not written to the state.
CompleteSilently(r) ==
  /\ pc[r] = "cleared"
  /\ pc' = [pc EXCEPT ![r] = "finished"]
  /\ UNCHANGED <<status, jobId, owner, cancelFn, runJob, cancelled, stopPc,
                reports, client, meddled>>

Complete(r) ==
  /\ pc[r] = "cleared"
  /\ status' = "completed"
  /\ pc' = [pc EXCEPT ![r] = "finished"]
  /\ meddled' = meddled \cup ({owner} \cap Others(r))
  /\ UNCHANGED <<jobId, owner, cancelFn, runJob, cancelled, stopPc, reports, client>>

\* What the state says now about run r, which has ended.
Report(r) == [run |-> r, job |-> jobId,
              outcome |-> IF pc[r] = "failed" THEN "failed" ELSE "completed"]

\* Bug: only a benchmark that completed is reported.
NotifyOfSuccess(r) ==
  /\ pc[r] \in {"finished", "failed"}
  /\ reports' = IF jobId = NoJob \/ pc[r] = "failed" THEN reports ELSE reports \cup {Report(r)}
  /\ pc' = [pc EXCEPT ![r] = "done"]
  /\ UNCHANGED <<status, jobId, owner, cancelFn, runJob, cancelled, stopPc, client,
                meddled>>

\* The report carries the JobID the state has now.
Notify(r) ==
  /\ pc[r] \in {"finished", "failed"}
  /\ reports' = IF jobId = NoJob THEN reports ELSE reports \cup {Report(r)}
  /\ pc' = [pc EXCEPT ![r] = "done"]
  /\ UNCHANGED <<status, jobId, owner, cancelFn, runJob, cancelled, stopPc, client,
                meddled>>

-----------------------------------------------------------------------------
(* DELETE /stop, and the first part of POST /exit.                         *)

\* Bug: the run is cancelled, but the state is left to say "running".
StopBeginUnmarked(t) ==
  /\ stopPc[t] = "idle"
  /\ client' = AfterRequest
  /\ status = "running"
  /\ stopPc' = [stopPc EXCEPT ![t] = "stopping"]
  /\ UNCHANGED <<status, jobId, owner, cancelFn, pc, runJob, cancelled, reports,
                meddled>>

StopBegin(t) ==
  /\ stopPc[t] = "idle"
  /\ client' = AfterRequest
  /\ status = "running"
  /\ status' = "stopped"
  /\ stopPc' = [stopPc EXCEPT ![t] = "stopping"]
  /\ UNCHANGED <<jobId, owner, cancelFn, pc, runJob, cancelled, reports, meddled>>

StopRefused(t) ==
  /\ stopPc[t] = "idle"
  /\ client' = AfterRequest
  /\ status # "running"
  /\ stopPc' = [stopPc EXCEPT ![t] = "done"]
  /\ UNCHANGED <<status, jobId, owner, cancelFn, pc, runJob, cancelled, reports,
                meddled>>

\* Bug: the function is taken and not called.
StopCancelUncalled(t) ==
  /\ stopPc[t] = "stopping"
  /\ cancelFn' = NoRun
  /\ stopPc' = [stopPc EXCEPT ![t] = "done"]
  /\ meddled' = meddled \cup {r \in Runs : r = owner /\ pc[r] \in Handling}
  /\ UNCHANGED <<status, jobId, owner, pc, runJob, cancelled, reports, client>>

\* getCancelFunc takes the function away; it may be nil, or another run's.
StopCancel(t) ==
  /\ stopPc[t] = "stopping"
  /\ cancelled' = IF cancelFn = NoRun THEN cancelled ELSE cancelled \cup {cancelFn}
  /\ cancelFn' = NoRun
  /\ stopPc' = [stopPc EXCEPT ![t] = "done"]
  /\ meddled' = meddled \cup {r \in Runs : r = owner /\ pc[r] \in Handling}
  /\ UNCHANGED <<status, jobId, owner, pc, runJob, reports, client>>

\* The end of POST /exit, or a crash; the process is then started again.  The
\* completions that were sent stay sent.
ProcessExit ==
  /\ status' = "idle" /\ jobId' = NoJob
  /\ owner' = NoRun /\ cancelFn' = NoRun
  /\ pc' = [r \in Runs |-> IF pc[r] \in Live THEN "dead" ELSE pc[r]]
  /\ stopPc' = [t \in Stops |-> IF stopPc[t] = "stopping" THEN "done" ELSE stopPc[t]]
  /\ UNCHANGED <<runJob, cancelled, reports, client, meddled>>

Next ==
  \/ \E r \in Runs, j \in Jobs \cup {NoJob} : StartBegin(r, j)
  \/ \E r \in Runs :
       \/ StartRefused(r) \/ StartName(r) \/ StartLaunch(r)
       \/ ConnectOk(r) \/ ConnectFail(r)
       \/ RunCancelled(r) \/ RunReturns(r) \/ Complete(r) \/ Notify(r)
  \/ \E t \in Stops : StopBegin(t) \/ StopRefused(t) \/ StopCancel(t)
  \/ ProcessExit

Spec == Init /\ [][Next]_vars

-----------------------------------------------------------------------------
(* Safety.                                                                 *)

\* Every variable keeps its type.
TypeOK ==
  /\ status \in Status
  /\ jobId \in Jobs \cup {NoJob}
  /\ owner \in Runs \cup {NoRun} /\ cancelFn \in Runs \cup {NoRun}
  /\ pc \in [Runs -> RunPc]
  /\ runJob \in [Runs -> Jobs \cup {NoJob}]
  /\ cancelled \subseteq Runs
  /\ stopPc \in [Stops -> {"idle", "stopping", "done"}]
  /\ reports \subseteq [run : Runs, job : Jobs, outcome : {"completed", "failed"}]
  /\ client \in {"waits", "any"}
  /\ meddled \subseteq Runs

\* Whatever its clients do, the worker reports only on jobs that it accepted a
\* /start request for.  The controller's model relies on it.
ReportedJobWasAccepted ==
  \A rep \in reports : \E r \in Runs :
    pc[r] \notin {"idle", "refused"} /\ runJob[r] = rep.job

\* Whatever its clients do, a worker that says "running" has a run that has not
\* ended by itself: an end on its own always shows in the status.
RunningIsBacked ==
  status = "running" =>
    owner \in Runs /\ (pc[owner] \in Working \/ owner \in cancelled)

\* Whatever its clients do, a second run can be at work only because a stop made
\* room for it, and each stop makes room for one: StartBenchmark tests and sets the
\* status under one lock (state.go:64), and only the last thing a run does to the
\* state lets another one in.
OneRunPerStop ==
  Cardinality({r \in Runs : pc[r] \in Working})
    <= Cardinality({t \in Stops : stopPc[t] # "idle"})
       + (IF status = "running" THEN 1 ELSE 0)

\* A worker that says "running" works: the run that set the status is under way
\* and is not being cancelled (state.go:123, of IsRunning: "returns true if a
\* benchmark is currently running").  True as long as clients wait.
RunningMeansRunning ==
  client # "any" /\ status = "running" =>
    owner \in Runs /\ pc[owner] \in Working /\ owner \notin cancelled

\* Whatever its clients do, a stop that was answered has reached the run it
\* stopped: the run is cancelled, or about to end by itself (handlers.go:217:
\* "Cancel the running benchmark").  A stop misses its run only if the run was
\* meddled with: it was not launched yet, or another run took or cleared the
\* cancel function.
StopReachesRun ==
  (/\ status = "stopped"
   /\ \A t \in Stops : stopPc[t] # "stopping"
   /\ pc[owner] \in Launched /\ owner \notin meddled) => owner \in cancelled

\* handlers.go:284, where a run finds that it was cancelled: "State is already
\* set to "stopped" by StopHandler".  True as long as clients wait, but for a
\* run that was meddled with: another one may own the state by then.
CancelledMeansStopped ==
  [][client # "any" =>
       \A r \in Runs : pc[r] = "running" /\ pc'[r] = "done" /\ r \notin meddled =>
         status = "stopped"]_vars

\* A run that completed or failed while the state is its own is reported under
\* the job of its own request, and not at all without a job (handlers.go:260:
\* "notify controller of failure if jobId set").  A run that lost the state is
\* reported under the job of the run that has it, never under a third one.
\* True as long as clients wait.
ReportsTheJobOf(r) ==
  reports' = reports \cup
    {rep \in [run : {r}, job : Jobs, outcome : {Report(r).outcome}] : rep.job = runJob[r]}
ReportsAsOwner(r) ==
  \A rep \in reports' \ reports : rep.run = r /\ rep.job = runJob[owner]
EachRunReportsItsJob ==
  [][client # "any" =>
       \A r \in Runs : pc[r] \in {"finished", "failed"} /\ pc'[r] = "done" =>
         IF r = owner THEN ReportsTheJobOf(r) ELSE ReportsAsOwner(r)]_vars

\* What holds for any client.  A run at work that nothing meddled with owns the
\* state, and until it is cancelled it can be: the status says "running" or a
\* stop is at work, and the cancel function is its own once it is launched.
FreeInv ==
  /\ TypeOK /\ ReportedJobWasAccepted /\ RunningIsBacked /\ OneRunPerStop
  /\ jobId # NoJob =>
       \E r \in Runs : pc[r] \notin {"idle", "refused"} /\ runJob[r] = jobId
  /\ owner = NoRun => status = "idle" /\ \A r \in Runs : pc[r] \notin Live
  /\ \A r \in Runs : pc[r] \in Working /\ r \notin meddled => r = owner
  /\ \A r \in Runs : pc[r] \in Handling \cup Launched /\ r \notin cancelled \cup meddled =>
       /\ status = "running" \/ \E t \in Stops : stopPc[t] = "stopping"
       /\ pc[r] \in Launched => cancelFn = r

\* As long as clients wait for answers, no stop is at work while the status says
\* "running" or a run is not launched yet, no run is cancelled before it is
\* launched, and the run that is being started has the state to itself.
SerialInv ==
  client # "any" =>
    /\ RunningMeansRunning
    /\ \A t \in Stops : stopPc[t] = "stopping" => status # "running"
    /\ \A r \in Runs : r \in cancelled \/ cancelFn = r =>
         pc[r] \notin {"idle", "refused"} \cup Handling
    /\ \A r \in Runs : pc[r] \in Handling =>
         r = owner /\ \A t \in Stops : stopPc[t] # "stopping"
    /\ owner # NoRun =>
         jobId = IF pc[owner] = "accepted" THEN NoJob ELSE runJob[owner]
    /\ \A r \in Runs \ meddled :
         /\ r = owner /\ pc[r] \in Launched
         /\ r \in cancelled \/ \E t \in Stops : stopPc[t] = "stopping"
         => status = "stopped"
=============================================================================
