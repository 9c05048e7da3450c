------------------------- MODULE WorkerServiceProofs -------------------------
(***************************************************************************)
(* Proofs about WorkerService for every set of requests and jobs: what     *)
(* holds for any client, and for a client that waits for answers.          *)
(***************************************************************************)
EXTENDS WorkerService, FiniteSetTheorems, TLAPS

\* The types are an inductive invariant by themselves, but for the reports: a
\* report is sent only when the state has a job.
LEMMA TypeStep == TypeOK /\ [Next]_vars => TypeOK'
<1> SUFFICES ASSUME TypeOK, [Next]_vars PROVE TypeOK'
  OBVIOUS
<1> USE DEF TypeOK, Status, RunPc, Live, Working, Handling, Others
<1>1. ASSUME NEW r \in Runs, NEW j \in Jobs \cup {NoJob}, StartBegin(r, j) PROVE TypeOK'
  BY <1>1 DEF StartBegin, AfterRequest
<1>2. ASSUME NEW r \in Runs, StartRefused(r) \/ StartName(r) \/ StartLaunch(r) PROVE TypeOK'
  BY <1>2 DEF StartRefused, StartName, StartLaunch, AfterRequest, Answered
<1>3. ASSUME NEW r \in Runs, ConnectOk(r) \/ ConnectFail(r) \/ RunCancelled(r) PROVE TypeOK'
  BY <1>3 DEF ConnectOk, ConnectFail, RunCancelled
<1>4. ASSUME NEW r \in Runs, RunReturns(r) \/ Complete(r) \/ Notify(r) PROVE TypeOK'
  BY <1>4 DEF RunReturns, Complete, Notify, Report
<1>5. ASSUME NEW t \in Stops, StopBegin(t) \/ StopRefused(t) \/ StopCancel(t) PROVE TypeOK'
  BY <1>5 DEF StopBegin, StopRefused, StopCancel, AfterRequest, Answered
<1>6. CASE ProcessExit
  BY <1>6 DEF ProcessExit
<1>7. CASE UNCHANGED vars
  BY <1>7 DEF vars
<1>. QED
  BY <1>1, <1>2, <1>3, <1>4, <1>5, <1>6, <1>7 DEF Next

\* Initially the process is idle and no request has come.
LEMMA InitInvs == Init => FreeInv /\ SerialInv
<1> SUFFICES ASSUME Init PROVE FreeInv /\ SerialInv
  OBVIOUS
<1>1. TypeOK /\ ReportedJobWasAccepted /\ RunningIsBacked /\ RunningMeansRunning
  BY DEF Init, TypeOK, ReportedJobWasAccepted, RunningIsBacked, RunningMeansRunning, Status, RunPc,
         Live, Working, Handling
<1>2. OneRunPerStop
  <2>1. {r \in Runs : pc[r] \in Working} = {} /\ {t \in Stops : stopPc[t] # "idle"} = {}
    BY DEF Init, Working, Handling
  <2>. QED
    BY <2>1, FS_EmptySet DEF OneRunPerStop, Init
<1>. QED
  BY <1>1, <1>2, NoRunAssumption
     DEF Init, FreeInv, SerialInv, Live, Working, Handling, Launched

-----------------------------------------------------------------------------
(* Any client.                                                             *)

\* A request that was accepted stays accepted and keeps its job.
LEMMA AcceptedStays ==
  ASSUME TypeOK, [Next]_vars, NEW r \in Runs, pc[r] \notin {"idle", "refused"}
  PROVE  pc'[r] \notin {"idle", "refused"} /\ runJob'[r] = runJob[r]
<1> USE DEF TypeOK, Live, Working, Handling
<1>1. ASSUME NEW s \in Runs, NEW j \in Jobs \cup {NoJob}, StartBegin(s, j)
      PROVE  pc'[r] \notin {"idle", "refused"} /\ runJob'[r] = runJob[r]
  BY <1>1 DEF StartBegin
<1>2. ASSUME NEW s \in Runs,
             \/ StartRefused(s) \/ StartName(s) \/ StartLaunch(s)
             \/ ConnectOk(s) \/ ConnectFail(s)
             \/ RunCancelled(s) \/ RunReturns(s) \/ Complete(s) \/ Notify(s)
      PROVE  pc'[r] \notin {"idle", "refused"} /\ runJob'[r] = runJob[r]
  BY <1>2 DEF StartRefused, StartName, StartLaunch, ConnectOk, ConnectFail, RunCancelled,
              RunReturns, Complete, Notify
<1>3. CASE ProcessExit
  BY <1>3 DEF ProcessExit
<1>4. CASE UNCHANGED <<pc, runJob>>
  BY <1>4
<1>. QED
  BY <1>1, <1>2, <1>3, <1>4 DEF Next, vars, StopBegin, StopRefused, StopCancel

\* The state's job, and hence every report's, is one that was accepted.
LEMMA AcceptedStep ==
  ASSUME FreeInv, [Next]_vars
  PROVE  /\ ReportedJobWasAccepted'
         /\ jobId' # NoJob =>
              \E r \in Runs : pc'[r] \notin {"idle", "refused"} /\ runJob'[r] = jobId'
<1> DEFINE Accepted(j) == \E r \in Runs : pc[r] \notin {"idle", "refused"} /\ runJob[r] = j
           AcceptedNext(j) == \E r \in Runs : pc'[r] \notin {"idle", "refused"} /\ runJob'[r] = j
<1>1. ASSUME NEW j, Accepted(j) PROVE AcceptedNext(j)
  BY <1>1, AcceptedStays DEF FreeInv
<1>2. \A rep \in reports' : rep \in reports \/ (jobId # NoJob /\ rep.job = jobId)
  BY DEF Next, vars, StartBegin, StartRefused, StartName, StartLaunch, ConnectOk, ConnectFail,
         RunCancelled, RunReturns, Complete, Notify, Report, StopBegin, StopRefused, StopCancel,
         ProcessExit
<1>3. ASSUME NEW r \in Runs, StartName(r) PROVE jobId' = jobId \/ AcceptedNext(jobId')
  BY <1>3 DEF FreeInv, TypeOK, StartName
<1>4. jobId' \in {jobId, NoJob} \/ AcceptedNext(jobId')
  BY <1>3 DEF Next, vars, StartBegin, StartRefused, StartLaunch, ConnectOk, ConnectFail,
         RunCancelled, RunReturns, Complete, Notify, StopBegin, StopRefused, StopCancel, ProcessExit
<1>5. jobId # NoJob => Accepted(jobId)
  BY DEF FreeInv
<1>6. \A rep \in reports : Accepted(rep.job)
  BY DEF FreeInv, ReportedJobWasAccepted
<1>7. \A rep \in reports' : AcceptedNext(rep.job)
  <2> SUFFICES ASSUME NEW rep \in reports' PROVE AcceptedNext(rep.job)
    OBVIOUS
  <2>1. Accepted(rep.job)
    BY <1>2, <1>5, <1>6
  <2>. QED
    BY <1>1, <2>1
<1>8. jobId' # NoJob => AcceptedNext(jobId')
  BY <1>1, <1>4, <1>5
<1>. QED
  BY <1>7, <1>8 DEF ReportedJobWasAccepted

\* The owner of a "running" state works on, or was cancelled.
LEMMA BackedStep ==
  ASSUME FreeInv, [Next]_vars
  PROVE  RunningIsBacked'
<1> USE DEF FreeInv, TypeOK, RunningIsBacked, Working, Handling
<1>1. ASSUME NEW r \in Runs, NEW j \in Jobs \cup {NoJob}, StartBegin(r, j)
      PROVE  RunningIsBacked'
  BY <1>1 DEF StartBegin
<1>2. ASSUME NEW r \in Runs,
             \/ StartRefused(r) \/ StartName(r) \/ StartLaunch(r)
             \/ ConnectOk(r) \/ ConnectFail(r)
             \/ RunCancelled(r) \/ RunReturns(r) \/ Complete(r) \/ Notify(r)
      PROVE  RunningIsBacked'
  BY <1>2 DEF StartRefused, StartName, StartLaunch, ConnectOk, ConnectFail, RunCancelled,
              RunReturns, Complete, Notify
<1>3. ASSUME NEW t \in Stops, StopBegin(t) \/ StopRefused(t) \/ StopCancel(t)
      PROVE  RunningIsBacked'
  BY <1>3 DEF StopBegin, StopRefused, StopCancel
<1>4. CASE ProcessExit
  BY <1>4 DEF ProcessExit
<1>5. CASE UNCHANGED vars
  BY <1>5 DEF vars
<1>. QED
  BY <1>1, <1>2, <1>3, <1>4, <1>5 DEF Next

\* As long as a run is under way, some run owns the state.
LEMMA OwnedStep ==
  ASSUME FreeInv, [Next]_vars
  PROVE  owner' = NoRun => status' = "idle" /\ \A r \in Runs : pc'[r] \notin Live
<1> USE NoRunAssumption DEF FreeInv, TypeOK, Live, Working, Handling
<1>1. ASSUME owner' # owner \/ UNCHANGED <<status, pc>>
      PROVE  owner' = NoRun => status' = "idle" /\ \A r \in Runs : pc'[r] \notin Live
  BY <1>1 DEF Next, vars, StartBegin, StartRefused, StartName, StartLaunch, ConnectOk, ConnectFail,
         RunCancelled, RunReturns, Complete, Notify, StopBegin, StopRefused, StopCancel, ProcessExit
<1>2. ASSUME owner' = NoRun, owner = NoRun
      PROVE  status' = "idle" /\ \A r \in Runs : pc'[r] \notin Live
  BY <1>2 DEF Next, vars, StartBegin, StartRefused, StartName, StartLaunch, ConnectOk, ConnectFail,
         RunCancelled, RunReturns, Complete, Notify, StopBegin, StopRefused, StopCancel, ProcessExit
<1>. QED
  BY <1>1, <1>2

\* A run loses its place in the state only to a run that starts meanwhile.
LEMMA PlaceStep ==
  ASSUME FreeInv, [Next]_vars
  PROVE  \A r \in Runs : pc'[r] \in Working /\ r \notin meddled' => r = owner'
<1> USE DEF FreeInv, TypeOK, Working, Handling
<1>1. ASSUME NEW q \in Runs, NEW j \in Jobs \cup {NoJob}, StartBegin(q, j)
      PROVE  \A r \in Runs : pc'[r] \in Working /\ r \notin meddled' => r = owner'
  BY <1>1 DEF StartBegin, Others
<1>2. ASSUME NEW q \in Runs,
             \/ StartRefused(q) \/ StartName(q) \/ StartLaunch(q)
             \/ ConnectOk(q) \/ ConnectFail(q)
             \/ RunCancelled(q) \/ RunReturns(q) \/ Complete(q) \/ Notify(q)
      PROVE  \A r \in Runs : pc'[r] \in Working /\ r \notin meddled' => r = owner'
  <2>1. owner' = owner /\ meddled \subseteq meddled'
    BY <1>2 DEF StartRefused, StartName, StartLaunch, ConnectOk, ConnectFail, RunCancelled,
                RunReturns, Complete, Notify
  <2>2. \A r \in Runs : pc'[r] \in Working => pc[r] \in Working
    BY <1>2 DEF StartRefused, StartName, StartLaunch, ConnectOk, ConnectFail, RunCancelled,
                RunReturns, Complete, Notify
  <2>. QED
    BY <2>1, <2>2
<1>3. ASSUME NEW t \in Stops, StopBegin(t) \/ StopRefused(t) \/ StopCancel(t)
      PROVE  \A r \in Runs : pc'[r] \in Working /\ r \notin meddled' => r = owner'
  BY <1>3 DEF StopBegin, StopRefused, StopCancel
<1>4. CASE ProcessExit
  BY <1>4 DEF ProcessExit, Live
<1>5. CASE UNCHANGED vars
  BY <1>5 DEF vars
<1>. QED
  BY <1>1, <1>2, <1>3, <1>4, <1>5 DEF Next

\* A run that is neither cancelled nor meddled with can be stopped.
Held(r) ==
  /\ status = "running" \/ \E t \in Stops : stopPc[t] = "stopping"
  /\ pc[r] \in Launched => cancelFn = r

LEMMA HeldStep ==
  ASSUME FreeInv, [Next]_vars, NEW r \in Runs, pc'[r] \in Handling \cup Launched,
         r \notin cancelled' \cup meddled'
  PROVE  Held(r)'
<1> USE NoRunAssumption DEF TypeOK, Held, Working, Handling, Launched
<1>1. TypeOK /\ cancelled \subseteq cancelled' /\ meddled \subseteq meddled'
  BY DEF FreeInv, Next, vars, StartBegin, StartRefused, StartName, StartLaunch, ConnectOk,
         ConnectFail, RunCancelled, RunReturns, Complete, Notify, StopBegin, StopRefused,
         StopCancel, ProcessExit
<1>2. pc[r] \in Handling \cup Launched => r = owner /\ Held(r)
  BY <1>1 DEF FreeInv
<1>3. ASSUME NEW q \in Runs, NEW j \in Jobs \cup {NoJob}, StartBegin(q, j)
      PROVE  Held(r)'
  BY <1>1, <1>2, <1>3 DEF StartBegin, Others
<1>4. ASSUME NEW q \in Runs, StartRefused(q) \/ StartName(q) \/ ConnectOk(q) \/ RunCancelled(q) \/ Notify(q)
      PROVE  Held(r)'
  BY <1>1, <1>2, <1>4 DEF StartRefused, StartName, ConnectOk, RunCancelled, Notify
<1>5. ASSUME NEW q \in Runs, StartLaunch(q) \/ RunReturns(q)
      PROVE  Held(r)'
  BY <1>1, <1>2, <1>5 DEF StartLaunch, RunReturns, Others
<1>6. ASSUME NEW q \in Runs, ConnectFail(q) \/ Complete(q)
      PROVE  Held(r)'
  BY <1>1, <1>2, <1>6 DEF ConnectFail, Complete, Others
<1>7. ASSUME NEW t \in Stops, StopBegin(t) \/ StopRefused(t)
      PROVE  Held(r)'
  BY <1>1, <1>2, <1>7 DEF StopBegin, StopRefused
<1>8. ASSUME NEW t \in Stops, StopCancel(t)
      PROVE  Held(r)'
  BY <1>1, <1>2, <1>8 DEF StopCancel
<1>9. CASE ProcessExit
  BY <1>1, <1>9 DEF ProcessExit, Live
<1>10. CASE UNCHANGED vars
  BY <1>1, <1>2, <1>10 DEF vars
<1>. QED
  BY <1>3, <1>4, <1>5, <1>6, <1>7, <1>8, <1>9, <1>10 DEF Next

\* The runs at work and the stops that came, after a step.
LEMMA RoomStep ==
  ASSUME FreeInv, [Next]_vars
  PROVE  OneRunPerStop'
<1> DEFINE R == {r \in Runs : pc[r] \in Working}
           T == {t \in Stops : stopPc[t] # "idle"}
<1> USE DEF TypeOK, Working, Handling
<1>1. /\ IsFiniteSet(R) /\ Cardinality(R) \in Nat
      /\ IsFiniteSet(T) /\ Cardinality(T) \in Nat
  BY RequestsAssumption, FS_Subset, FS_CardinalityType
<1>2. TypeOK /\ Cardinality(R) <= Cardinality(T) + (IF status = "running" THEN 1 ELSE 0)
  BY DEF FreeInv, OneRunPerStop
<1> SUFFICES Cardinality(R') <= Cardinality(T') + (IF status' = "running" THEN 1 ELSE 0)
  BY DEF OneRunPerStop
<1>3. ASSUME NEW q \in Runs, NEW j \in Jobs \cup {NoJob}, StartBegin(q, j)
      PROVE  Cardinality(R') <= Cardinality(T') + (IF status' = "running" THEN 1 ELSE 0)
  <2>1. R' = R \cup {q} /\ q \notin R /\ T' = T /\ status # "running" /\ status' = "running"
    BY <1>2, <1>3 DEF StartBegin
  <2> HIDE DEF R, T, TypeOK
  <2>2. Cardinality(R') = Cardinality(R) + 1
    BY <1>1, <2>1, FS_AddElement
  <2>. QED
    BY <1>1, <1>2, <2>1, <2>2
<1>4. ASSUME NEW q \in Runs, ConnectFail(q) \/ Complete(q) \/ RunCancelled(q)
      PROVE  Cardinality(R') <= Cardinality(T') + (IF status' = "running" THEN 1 ELSE 0)
  <2>1. R' = R \ {q} /\ q \in R /\ T' = T
    BY <1>2, <1>4 DEF ConnectFail, Complete, RunCancelled
  <2> HIDE DEF R, T
  <2>2. Cardinality(R') = Cardinality(R) - 1
    BY <1>1, <2>1, FS_RemoveElement
  <2>. QED
    BY <1>1, <1>2, <2>1, <2>2
<1>5. ASSUME NEW t \in Stops, StopBegin(t) \/ StopRefused(t)
      PROVE  Cardinality(R') <= Cardinality(T') + (IF status' = "running" THEN 1 ELSE 0)
  <2>1. R' = R /\ T' = T \cup {t} /\ t \notin T
    BY <1>2, <1>5 DEF StopBegin, StopRefused
  <2> HIDE DEF R, T
  <2>2. Cardinality(T') = Cardinality(T) + 1
    BY <1>1, <2>1, FS_AddElement
  <2>. QED
    BY <1>1, <1>2, <2>1, <2>2
<1>6. ASSUME R' = R, T' = T, status' = status
      PROVE  Cardinality(R') <= Cardinality(T') + (IF status' = "running" THEN 1 ELSE 0)
  BY <1>2, <1>6
<1>7. ASSUME NEW q \in Runs,
             \/ StartRefused(q) \/ StartName(q) \/ StartLaunch(q)
             \/ ConnectOk(q) \/ RunReturns(q) \/ Notify(q)
      PROVE  R' = R /\ T' = T /\ status' = status
  BY <1>2, <1>7 DEF StartRefused, StartName, StartLaunch, ConnectOk, RunReturns, Notify
<1>8. ASSUME NEW t \in Stops, StopCancel(t)
      PROVE  R' = R /\ T' = T /\ status' = status
  BY <1>2, <1>8 DEF StopCancel
<1>9. CASE ProcessExit
  <2>1. R' = {} /\ T' = T
    BY <1>2, <1>9 DEF ProcessExit, Live
  <2>2. Cardinality(R') = 0
    BY <2>1, FS_EmptySet
  <2> HIDE DEF R, T
  <2>. QED
    BY <1>1, <2>1, <2>2
<1>10. CASE UNCHANGED vars
  BY <1>6, <1>10 DEF vars
<1> HIDE DEF R, T
<1>. QED
  BY <1>3, <1>4, <1>5, <1>6, <1>7, <1>8, <1>9, <1>10 DEF Next

\* Every step keeps what holds for any client.
LEMMA FreeStep ==
  ASSUME FreeInv, [Next]_vars
  PROVE  FreeInv'
<1>1. TypeOK'
  BY TypeStep DEF FreeInv
<1>2. \A r \in Runs : pc'[r] \in Handling \cup Launched /\ r \notin cancelled' \cup meddled' =>
        /\ status' = "running" \/ \E t \in Stops : stopPc'[t] = "stopping"
        /\ pc'[r] \in Launched => cancelFn' = r
  BY HeldStep DEF Held
<1>. QED
  BY <1>1, <1>2, AcceptedStep, BackedStep, RoomStep, OwnedStep, PlaceStep DEF FreeInv

\* The invariant that holds for any client.
THEOREM FreeInvariant == Spec => []FreeInv
<1>1. FreeInv /\ [Next]_vars => FreeInv'
  BY FreeStep
<1>. QED
  BY <1>1, InitInvs, PTL DEF Spec

\* Every variable keeps its type.
THEOREM TypeCorrect == Spec => []TypeOK
<1>1. FreeInv => TypeOK
  BY DEF FreeInv
<1>. QED
  BY <1>1, FreeInvariant, PTL

\* Whatever its clients do, the worker reports only on jobs it accepted.
THEOREM ReportsAreOfAcceptedJobs == Spec => []ReportedJobWasAccepted
<1>1. FreeInv => ReportedJobWasAccepted
  BY DEF FreeInv
<1>. QED
  BY <1>1, FreeInvariant, PTL

\* Whatever its clients do, a run that ends by itself does not leave the status
\* at "running".
THEOREM RunningStatusIsBacked == Spec => []RunningIsBacked
<1>1. FreeInv => RunningIsBacked
  BY DEF FreeInv
<1>. QED
  BY <1>1, FreeInvariant, PTL

\* Whatever its clients do, there is room for a second run only after a stop.
THEOREM RunsWaitForStops == Spec => []OneRunPerStop
<1>1. FreeInv => OneRunPerStop
  BY DEF FreeInv
<1>. QED
  BY <1>1, FreeInvariant, PTL

\* Whatever its clients do, a stop that was answered has reached its run, unless
\* another run or request meddled with that run.
THEOREM StopsReachTheirRun == Spec => []StopReachesRun
<1>1. FreeInv => StopReachesRun
  BY NoRunAssumption DEF FreeInv, TypeOK, StopReachesRun, Launched, Live, Working
<1>. QED
  BY <1>1, FreeInvariant, PTL

-----------------------------------------------------------------------------
(* A client that waits for answers.                                        *)

\* No step cancels the owner of a "running" state, and each finds the state that
\* the /start before it has made.
LEMMA SerialStep ==
  ASSUME FreeInv, SerialInv, [Next]_vars
  PROVE  SerialInv'
<1> USE NoRunAssumption
    DEF FreeInv, TypeOK, SerialInv, RunningMeansRunning, Working, Handling, Launched
<1>1. ASSUME NEW r \in Runs, NEW j \in Jobs \cup {NoJob}, StartBegin(r, j) PROVE SerialInv'
  BY <1>1 DEF StartBegin, AfterRequest, Answered, Others
<1>2. ASSUME NEW r \in Runs, StartRefused(r) PROVE SerialInv'
  BY <1>2 DEF StartRefused, AfterRequest, Answered
<1>3. ASSUME NEW r \in Runs, StartName(r) PROVE SerialInv'
  BY <1>3 DEF StartName
<1>4. ASSUME NEW r \in Runs, StartLaunch(r) PROVE SerialInv'
  BY <1>4 DEF StartLaunch, Others
<1>5. ASSUME NEW r \in Runs, ConnectOk(r) \/ ConnectFail(r) \/ RunCancelled(r)
      PROVE  SerialInv'
  BY <1>5 DEF ConnectOk, ConnectFail, RunCancelled, Others
<1>6. ASSUME NEW r \in Runs, RunReturns(r) \/ Complete(r) \/ Notify(r) PROVE SerialInv'
  BY <1>6 DEF RunReturns, Complete, Notify, Others
<1>7. ASSUME NEW t \in Stops, StopBegin(t) \/ StopRefused(t) PROVE SerialInv'
  BY <1>7 DEF StopBegin, StopRefused, AfterRequest, Answered
<1>8. ASSUME NEW t \in Stops, StopCancel(t) PROVE SerialInv'
  BY <1>8 DEF StopCancel
<1>9. CASE ProcessExit
  BY <1>9 DEF ProcessExit, Live
<1>10. CASE UNCHANGED vars
  BY <1>10 DEF vars
<1>. QED
  BY <1>1, <1>2, <1>3, <1>4, <1>5, <1>6, <1>7, <1>8, <1>9, <1>10 DEF Next

\* The invariant that holds for a client that waits.
THEOREM SerialInvariant == Spec => []SerialInv
<1>1. FreeInv /\ SerialInv /\ [Next]_vars => SerialInv'
  BY SerialStep
<1>. QED
  BY <1>1, InitInvs, FreeInvariant, PTL DEF Spec

\* As long as clients wait for answers, "running" means running.
THEOREM RunningMeansRunningForSerialClients ==
  Spec => []RunningMeansRunning
<1>1. SerialInv => RunningMeansRunning
  BY DEF SerialInv, RunningMeansRunning
<1>. QED
  BY <1>1, SerialInvariant, PTL

\* A run ends as cancelled only once the state says so, if it is still its own.
LEMMA CancelledStep ==
  ASSUME FreeInv, SerialInv, [Next]_vars, client # "any",
         NEW r \in Runs, pc[r] = "running", pc'[r] = "done", r \notin meddled
  PROVE  status = "stopped"
<1> USE DEF FreeInv, TypeOK
<1>1. RunCancelled(r)
  BY DEF Next, vars, StartBegin, StartRefused, StartName, StartLaunch, ConnectOk,
         ConnectFail, RunCancelled, RunReturns, Complete, Notify, StopBegin, StopRefused,
         StopCancel, ProcessExit, Live, Working
<1>. QED
  BY <1>1 DEF RunCancelled, SerialInv, Launched, Working

\* As long as clients wait, a run that was cancelled finds the state stopped,
\* unless another run or request meddled with it.
THEOREM CancelledRunsAreStopped ==
  Spec => CancelledMeansStopped
<1>1. FreeInv /\ SerialInv /\ [Next]_vars =>
        [client # "any" =>
           \A r \in Runs : pc[r] = "running" /\ pc'[r] = "done" /\ r \notin meddled =>
             status = "stopped"]_vars
  BY CancelledStep
<1>. QED
  BY <1>1, FreeInvariant, SerialInvariant, PTL DEF Spec, CancelledMeansStopped

\* A run that ends by itself finds in the state the job of the run that owns it.
LEMMA ReportStep ==
  ASSUME FreeInv, SerialInv, [Next]_vars, client # "any", NEW r \in Runs,
         pc[r] \in {"finished", "failed"}, pc'[r] = "done"
  PROVE  IF r = owner THEN ReportsTheJobOf(r) ELSE ReportsAsOwner(r)
<1> USE DEF FreeInv, TypeOK
<1>1. Notify(r)
  BY DEF Next, vars, StartBegin, StartRefused, StartName, StartLaunch, ConnectOk,
         ConnectFail, RunCancelled, RunReturns, Complete, Notify, StopBegin, StopRefused,
         StopCancel, ProcessExit, Live, Working
<1>2. owner # NoRun
  BY DEF Live
<1>3. CASE r # owner
  BY <1>1, <1>2, <1>3 DEF Notify, Report, ReportsAsOwner, SerialInv
<1>4. CASE r = owner
  <2>1. jobId = runJob[r]
    BY <1>2, <1>4 DEF SerialInv
  <2>2. CASE runJob[r] = NoJob
    BY <1>1, <1>4, <2>1, <2>2, NoJobAssumption DEF Notify, Report, ReportsTheJobOf
  <2>3. CASE runJob[r] \in Jobs
    <3>1. Report(r) \in [run : {r}, job : Jobs, outcome : {Report(r).outcome}]
      BY <2>1, <2>3 DEF Report
    <3>2. \A rep \in [run : {r}, job : Jobs, outcome : {Report(r).outcome}] :
            rep.job = runJob[r] <=> rep = Report(r)
      BY <2>1, <2>3 DEF Report
    <3>3. reports' = reports \cup {Report(r)}
      BY <1>1, <2>1, <2>3, NoJobAssumption DEF Notify
    <3>4. ReportsTheJobOf(r)
      BY <3>1, <3>2, <3>3 DEF ReportsTheJobOf
    <3>. QED
      BY <1>4, <3>4
  <2>. QED
    BY <2>2, <2>3
<1>. QED
  BY <1>3, <1>4

\* As long as clients wait, a run is reported under its own job, or, if it has
\* lost the state, under the job of the run that has it.
THEOREM RunsReportTheirJob ==
  Spec => EachRunReportsItsJob
<1>1. FreeInv /\ SerialInv /\ [Next]_vars =>
        [client # "any" =>
           \A r \in Runs : pc[r] \in {"finished", "failed"} /\ pc'[r] = "done" =>
             IF r = owner THEN ReportsTheJobOf(r) ELSE ReportsAsOwner(r)]_vars
  BY ReportStep
<1>. QED
  BY <1>1, FreeInvariant, SerialInvariant, PTL DEF Spec, EachRunReportsItsJob
=============================================================================
