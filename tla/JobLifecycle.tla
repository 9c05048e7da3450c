---------------------------- MODULE JobLifecycle ----------------------------
(***************************************************************************)
(* What the controller promises about coordinated jobs, without saying how *)
(* it keeps the promise: no registry, no lock, no requests in flight.      *)
(*                                                                         *)
(* A job has a team of workers and, for each of them, a result.  A result  *)
(* is "open" until the worker's report (or a stop) closes it.  The job's   *)
(* own status follows from the results alone, and at most one job is ever  *)
(* running.  JobManager is shown to implement this specification.          *)
(***************************************************************************)
EXTENDS Naturals

CONSTANTS Workers,  \* the worker processes that may ever register
          Jobs      \* the job identifiers

VARIABLES status,   \* job -> its status; "none": no such job
          result    \* job -> worker -> its result; "none": not in the team

lifecycleVars == <<status, result>>

Outcome == {"completed", "failed"}
JobStatus == {"none", "pending", "running", "stopped"} \cup Outcome
Result == {"none", "open", "stopped"} \cup Outcome

Team(r) == {w \in Workers : r[w] # "none"}

NoTeam == [w \in Workers |-> "none"]

Init ==
  /\ status = [j \in Jobs |-> "none"]
  /\ result = [j \in Jobs |-> NoTeam]

\* A job is created with a non-empty team, all of whose results are open.
Create(j, team) ==
  /\ status[j] = "none"
  /\ \A k \in Jobs : status[k] # "running"
  /\ team # {}
  /\ status' = [status EXCEPT ![j] = "pending"]
  /\ result' = [result EXCEPT
       ![j] = [w \in Workers |-> IF w \in team THEN "open" ELSE "none"]]

Start(j) ==
  /\ status[j] = "pending"
  /\ \A k \in Jobs : status[k] # "running"
  /\ status' = [status EXCEPT ![j] = "running"]
  /\ UNCHANGED result

\* What a set of results r says about a job whose status was "old".
Verdict(r, old, new) ==
  \/ /\ \A w \in Team(r) : r[w] = "completed"
     /\ new = "completed"
  \/ /\ \A w \in Team(r) : r[w] # "open"
     /\ \E w \in Team(r) : r[w] = "failed"
     /\ new = "failed"
  \/ /\ \E w \in Team(r) : r[w] # "completed"
     /\ \/ \E w \in Team(r) : r[w] = "open"
        \/ \A w \in Team(r) : r[w] # "failed"
     /\ new = old

\* A member of the team reports, whatever became of the job since it started.
Report(j, w, outcome) ==
  /\ status[j] \notin {"none", "pending"}
  /\ result[j][w] # "none"
  /\ result' = [result EXCEPT ![j][w] = outcome]
  /\ \E new \in JobStatus :
       /\ Verdict(result'[j], status[j], new)
       /\ status' = [status EXCEPT ![j] = new]

\* Stopping a running job overwrites every result, reported or not.
Stop(j) ==
  /\ status[j] = "running"
  /\ status' = [status EXCEPT ![j] = "stopped"]
  /\ result' = [result EXCEPT
       ![j] = [w \in Workers |->
                 IF result[j][w] = "none" THEN "none" ELSE "stopped"]]

\* A stop request relabels a job that had already ended.
Relabel(j) ==
  /\ status[j] \in Outcome
  /\ status' = [status EXCEPT ![j] = "stopped"]
  /\ UNCHANGED result

\* A controller that restarts has forgotten every job.
Forget ==
  /\ status' = [j \in Jobs |-> "none"]
  /\ result' = [j \in Jobs |-> NoTeam]

Next ==
  \/ \E j \in Jobs, team \in SUBSET Workers : Create(j, team)
  \/ \E j \in Jobs : Start(j) \/ Stop(j) \/ Relabel(j)
  \/ \E j \in Jobs, w \in Workers, o \in Outcome : Report(j, w, o)
  \/ Forget

LifecycleSpec == Init /\ [][Next]_lifecycleVars
=============================================================================
