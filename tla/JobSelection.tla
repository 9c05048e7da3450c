----------------------------- MODULE JobSelection -----------------------------
(***************************************************************************)
(* What the controller shows of its jobs: GET /job/status and              *)
(* GET /api/v1/runtime-config (internal/controller/runtime.go), on top of  *)
(* JobManager.                                                             *)
(*                                                                         *)
(* The second of them lists the jobs twice, once for the configuration and *)
(* once for the targets, with the lock released in between, and it chooses *)
(* by two different rules.  Of the times of the jobs only their order is   *)
(* kept.                                                                   *)
(***************************************************************************)
EXTENDS JobManager, Sequences

VARIABLES
  times,         \* the jobs that have a time, the latest last
  reader,        \* is a request between its two lists?
  shownConfig,   \* the job whose configuration it answers; NoJob: the default
  steady         \* the job that ran at its first list (of the model only)

readerVars == <<reader, shownConfig, steady>>
selectionVars == <<vars, times, readerVars>>

SelectionInit ==
  /\ Init
  /\ times = << >>
  /\ reader = "idle"
  /\ shownConfig = NoJob /\ steady = NoJob

\* StartTime or EndTime of job j becomes now.
Timed(j) == times' = Append(SelectSeq(times, LAMBDA k : k # j), j)

\* The last report: HandleWorkerCompletion sets the status, and with it EndTime.
Concluded(j) == Aggregate(asg'[j], "none") # "none"

\* A step of the job manager, with the times it writes.
JobStep ==
  \/ \E j \in Jobs : (StartJob(j) \/ StopJob(j)) /\ Timed(j)
  \/ \E j \in Jobs :
       /\ MarkJobStopped(j)
       /\ IF jobStatus[j] \in Outcome THEN Timed(j) ELSE UNCHANGED times
  \/ \E w \in Workers, j \in Jobs, o \in Outcome :
       /\ HandleWorkerCompletion(w, j, o)
       /\ IF Concluded(j) THEN Timed(j) ELSE UNCHANGED times
  \/ /\ \/ \E w \in Workers :
             \/ RegisterWorker(w) \/ UnregisterWorker(w)
             \/ StartMarkBusy(w) \/ StartMarkJob(w) \/ SendJobToWorker(w)
             \/ StopJobOnWorker(w)
        \/ \E team \in SUBSET Workers : CreateJob(team)
        \/ CreateJobInvalidTarget
        \/ \E j \in Jobs :
             StartJobRefused(j) \/ StopJobPick(j) \/ StopJobRefused(j) \/ StopMarkPick(j)
        \/ StartJobReturn \/ StopJobReturn
     /\ UNCHANGED times

-----------------------------------------------------------------------------
(* The requests.                                                           *)

Running == {j \in Jobs : jobStatus[j] = "running"}
Listed == {j \in Jobs : jobStatus[j] # "none"}

\* The job with the latest time; any one, if none has started.
Latest == IF times = << >> THEN Listed ELSE {times[Len(times)]}

\* The one, or any one, of a set of jobs; no job if there is none.
OneOf(jobs) == IF jobs = {} THEN {NoJob} ELSE jobs

FindSelectedJob == OneOf(IF Running # {} THEN Running ELSE Latest)

\* Bug: the last job of the list is taken at once.
LastOfList == OneOf(Listed)

\* The last job of a list that has the order of a Go map, if none is running.
DeriveTargetsFromJobs == OneOf(IF Running # {} THEN Running ELSE Listed)

\* The first list, for the configuration.  JobStatusHandler makes no other.
ReadConfig ==
  /\ lock = "free" /\ reader = "idle"
  /\ shownConfig' \in FindSelectedJob
  /\ steady' \in OneOf(Running)
  /\ reader' = "reading"
  /\ UNCHANGED <<vars, times>>

\* The second list, for the targets, and the answer.
ReadTargets ==
  /\ lock = "free" /\ reader = "reading"
  /\ reader' = "idle"
  /\ shownConfig' = NoJob /\ steady' = NoJob
  /\ UNCHANGED <<vars, times>>

\* The controller restarts; its requests die with it.
RestartAll ==
  /\ Restart
  /\ times' = << >>
  /\ reader' = "idle"
  /\ shownConfig' = NoJob /\ steady' = NoJob

SelectionNext ==
  \/ JobStep /\ UNCHANGED readerVars
  \/ ReadConfig \/ ReadTargets
  \/ RestartAll

SelectionSpec == SelectionInit /\ [][SelectionNext]_selectionVars

\* A reader waits for the lock like any other request.
SelectionFairSpec == SelectionSpec /\ Fairness /\ SF_selectionVars(ReadTargets)

-----------------------------------------------------------------------------
\* An answer is about one job, the configuration and the targets alike, if that
\* job was running all the while: none but it can have run at either list.
SteadyJobIsShown ==
  reader = "reading" /\ steady # NoJob /\ jobStatus[steady] = "running" =>
    shownConfig = steady /\ DeriveTargetsFromJobs = {steady}

\* A request that reads the jobs is answered, although StartJob and StopJob hold
\* the lock while they wait for the workers.
ReadsAreAnswered == reader = "reading" ~> reader = "idle"

\* runtime.go:150-151: "reconstruct targets ... from the current running job, or
\* the most recent job if none are running".  The job that comes last in the
\* order of a Go map is not the most recent one.
TargetsOfMostRecentJob ==
  reader = "reading" /\ Running = {} => DeriveTargetsFromJobs = OneOf(Latest)
=============================================================================
