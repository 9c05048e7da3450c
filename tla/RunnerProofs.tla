---------------------------- MODULE RunnerProofs ----------------------------
(***************************************************************************)
(* Proofs about Runner, for every range of stages and number of            *)
(* operations.                                                             *)
(***************************************************************************)
EXTENDS Runner, FiniteSetTheorems, TLAPS

\* Stages are natural numbers, the first of them included.
LEMMA StagesFacts == Stages \subseteq Nat /\ MinClients \in Stages
BY ClientsAssumption DEF Stages

\* The operations in flight of a stage can be counted.
LEMMA InFlightIsFinite ==
  ASSUME NEW s
  PROVE  IsFiniteSet(InFlightOf(s)) /\ Cardinality(InFlightOf(s)) \in Nat
<1>1. InFlightOf(s) \subseteq Ops
      BY DEF InFlightOf
<1> QED
    BY <1>1, OpsAssumption, FS_Subset, FS_CardinalityType

\* A step that starts or ends no operation leaves the slots as they are.
LEMMA SlotsUnchanged ==
  ASSUME SlotsMatchOperations, UNCHANGED <<clients, stageOf>>,
         \A o \in Ops : op'[o] = "none" <=> op[o] = "none"
  PROVE  SlotsMatchOperations'
<1>1. \A s \in Stages : InFlightOf(s)' = InFlightOf(s)
      BY DEF InFlightOf
<1> QED
    BY <1>1 DEF SlotsMatchOperations

\* An operation that ends gives back the slot it took, of its own stage.
LEMMA EndKeepsSlots ==
  ASSUME TypeOK, SlotsMatchOperations, NEW o \in Ops, op[o] # "none", End(o)
  PROVE  SlotsMatchOperations' /\ clients' \in [Stages -> Nat]
<1>1. clients' = [clients EXCEPT ![stageOf[o]] = @ - 1] /\ clients \in [Stages -> Nat]
      BY DEF End, TypeOK
<1>2. ASSUME NEW s \in Stages
      PROVE  /\ clients'[s] = Cardinality(InFlightOf(s)') /\ clients'[s] <= s
             /\ clients'[s] \in Nat
  <2>1. clients[s] = Cardinality(InFlightOf(s)) /\ clients[s] <= s /\ s \in Nat
        BY StagesFacts DEF SlotsMatchOperations
  <2>2. CASE s = stageOf[o]
    <3>1. InFlightOf(s)' = InFlightOf(s) \ {o} /\ o \in InFlightOf(s)
          BY <2>2 DEF End, TypeOK, InFlightOf
    <3>2. /\ Cardinality(InFlightOf(s)') = Cardinality(InFlightOf(s)) - 1
          /\ Cardinality(InFlightOf(s)') \in Nat
          BY <3>1, InFlightIsFinite, FS_RemoveElement, FS_CardinalityType
    <3> QED
        BY <1>1, <2>1, <2>2, <3>2
  <2>3. CASE s # stageOf[o]
    <3>1. InFlightOf(s)' = InFlightOf(s)
          BY <2>3 DEF End, TypeOK, InFlightOf
    <3> QED
        BY <1>1, <2>1, <2>3, <3>1
  <2> QED
      BY <2>2, <2>3
<1>3. SlotsMatchOperations'
      BY <1>2, Zenon DEF SlotsMatchOperations
<1>4. clients' \in [Stages -> Nat]
      BY <1>1, <1>2
<1> QED
    BY <1>3, <1>4

\* The send to the channel takes a free slot for the operation it starts.
LEMMA SpawnKeepsSlots ==
  ASSUME TypeOK, SlotsMatchOperations, NEW o \in Ops, Spawn(o)
  PROVE  SlotsMatchOperations' /\ clients' \in [Stages -> Nat]
<1>1. clients' = [clients EXCEPT ![currentClients] = @ + 1] /\ clients \in [Stages -> Nat]
      BY DEF Spawn, TypeOK
<1>2. ASSUME NEW s \in Stages
      PROVE  /\ clients'[s] = Cardinality(InFlightOf(s)') /\ clients'[s] <= s
             /\ clients'[s] \in Nat
  <2>1. clients[s] = Cardinality(InFlightOf(s)) /\ clients[s] <= s /\ s \in Nat
        BY StagesFacts DEF SlotsMatchOperations
  <2>2. CASE s = currentClients
    <3>1. /\ InFlightOf(s)' = InFlightOf(s) \cup {o} /\ o \notin InFlightOf(s)
          /\ clients[s] < s
          BY <2>2 DEF Spawn, TypeOK, InFlightOf
    <3>2. Cardinality(InFlightOf(s)') = Cardinality(InFlightOf(s)) + 1
          BY <3>1, InFlightIsFinite, FS_AddElement
    <3> QED
        BY <1>1, <2>1, <2>2, <3>1, <3>2
  <2>3. CASE s # currentClients
    <3>1. InFlightOf(s)' = InFlightOf(s)
          BY <2>3 DEF Spawn, TypeOK, InFlightOf
    <3> QED
        BY <1>1, <2>1, <2>3, <3>1
  <2> QED
      BY <2>2, <2>3
<1>3. SlotsMatchOperations'
      BY <1>2, Zenon DEF SlotsMatchOperations
<1>4. clients' \in [Stages -> Nat]
      BY <1>1, <1>2
<1> QED
    BY <1>3, <1>4

LEMMA InitRunnerInv == Init => RunnerInv
<1> SUFFICES ASSUME Init
             PROVE  RunnerInv
    OBVIOUS
<1>1. TypeOK
      BY StagesFacts DEF Init, TypeOK, RunPc, OpPc
<1>2. \A s \in Stages : InFlightOf(s) = {}
      BY DEF Init, InFlightOf
<1>3. SlotsMatchOperations
      BY <1>2, StagesFacts, FS_EmptySet DEF Init, SlotsMatchOperations
<1>4. Progress
      BY ClientsAssumption DEF Init, Progress
<1> QED
    BY <1>1, <1>3, <1>4 DEF RunnerInv

\* The steps of Run's loop that start no operation.
LEMMA LoopStep ==
  ASSUME RunnerInv,
         \/ BeginStage \/ CheckContext \/ NextRound \/ NextStage \/ LastStageEnds
         \/ StopsCancelled \/ Return \/ StageElapses \/ Cancel \/ PollerStops
  PROVE  RunnerInv'
<1> USE DEF RunnerInv
<1>1. UNCHANGED opVars
      BY DEF BeginStage, CheckContext, NextRound, NextStage, LastStageEnds,
             StopsCancelled, Return, StageElapses, Cancel, PollerStops
<1>2. SlotsMatchOperations'
      BY <1>1, SlotsUnchanged DEF opVars
<1>3. TypeOK'
  <2>1. CASE NextStage
        BY <1>1, <2>1, ClientsAssumption DEF NextStage, TypeOK, Stages, RunPc, opVars
  <2>2. CASE ~NextStage
        BY <1>1, <2>2 DEF TypeOK, RunPc, opVars, BeginStage, CheckContext, NextRound,
           LastStageEnds, StopsCancelled, Return, StageElapses, Cancel, PollerStops
  <2> QED
      BY <2>1, <2>2
<1>4. Progress'
  <2>1. CASE NextStage
    <3>1. /\ currentClients' = currentClients + 1 /\ currentClients \in loaded
          /\ runPc' = "stage" /\ result' = result /\ loaded' = loaded
          /\ result # "completed"
          BY <1>1, <2>1 DEF NextStage, Progress, opVars
    <3>2. currentClients \in Nat
          BY StagesFacts DEF TypeOK
    <3>3. \A s \in MinClients..MaxClients :
            s < currentClients' => s < currentClients \/ s = currentClients
          BY <3>1, <3>2, ClientsAssumption
    <3> QED
        BY <3>1, <3>3 DEF Progress
  <2>2. CASE ~NextStage
        BY <1>1, <2>2 DEF Progress, opVars, BeginStage, CheckContext, NextRound,
           LastStageEnds, StopsCancelled, Return, StageElapses, Cancel, PollerStops
  <2> QED
      BY <2>1, <2>2
<1> QED
    BY <1>2, <1>3, <1>4

LEMMA SpawnStep ==
  ASSUME RunnerInv, NEW o \in Ops, Spawn(o)
  PROVE  RunnerInv'
<1> USE DEF RunnerInv
<1>1. SlotsMatchOperations' /\ clients' \in [Stages -> Nat]
      BY SpawnKeepsSlots
<1>2. TypeOK'
      BY <1>1 DEF Spawn, TypeOK, RunPc, OpPc
<1>3. Progress'
      BY DEF Spawn, Progress
<1> QED
    BY <1>1, <1>2, <1>3

LEMMA OperationStep ==
  ASSUME RunnerInv, NEW o \in Ops,
         OpAbandons(o) \/ OpProceeds(o) \/ OpTrims(o) \/ OpFinishes(o)
  PROVE  RunnerInv'
<1> USE DEF RunnerInv
<1>1. CASE OpAbandons(o) \/ OpFinishes(o)
  <2>1. End(o) /\ op[o] # "none"
        BY <1>1 DEF OpAbandons, OpFinishes
  <2>2. SlotsMatchOperations' /\ clients' \in [Stages -> Nat]
        BY <2>1, EndKeepsSlots
  <2>3. TypeOK'
        BY <1>1, <2>1, <2>2 DEF OpAbandons, OpFinishes, End, TypeOK, OpPc
  <2>4. Progress'
        BY <1>1, <2>1 DEF OpAbandons, OpFinishes, End, Progress
  <2> QED
      BY <2>2, <2>3, <2>4
<1>2. CASE OpProceeds(o) \/ OpTrims(o)
  <2>1. /\ UNCHANGED <<clients, stageOf>>
        /\ \A p \in Ops : op'[p] = "none" <=> op[p] = "none"
        BY <1>2 DEF OpProceeds, OpTrims, TypeOK
  <2>2. SlotsMatchOperations'
        BY <2>1, SlotsUnchanged
  <2>3. TypeOK'
        BY <1>2 DEF OpProceeds, OpTrims, TypeOK, OpPc
  <2>4. Progress'
        BY <1>2 DEF OpProceeds, OpTrims, Progress
  <2> QED
      BY <2>2, <2>3, <2>4
<1> QED
    BY <1>1, <1>2

LEMMA NextRunnerInv == RunnerInv /\ [Next]_vars => RunnerInv'
<1> SUFFICES ASSUME RunnerInv, [Next]_vars
             PROVE  RunnerInv'
    OBVIOUS
<1>1. CASE UNCHANGED vars
  <2>1. SlotsMatchOperations'
        BY <1>1, SlotsUnchanged DEF vars, RunnerInv
  <2>2. TypeOK' /\ Progress'
        BY <1>1 DEF vars, RunnerInv, TypeOK, Progress
  <2> QED
      BY <2>1, <2>2 DEF RunnerInv
<1> QED
    BY <1>1, LoopStep, SpawnStep, OperationStep DEF Next, RunStep

\* The invariant of a run, for any stages and any operations.
THEOREM Invariant == Spec => []RunnerInv
BY InitRunnerInv, NextRunnerInv, PTL DEF Spec

\* No way out of an operation leaks a slot or takes another stage's, and a stage
\* never has more operations than clients: the channels of Runner.Run.
THEOREM SlotsAreNotLeaked == Spec => []SlotsMatchOperations
<1>1. RunnerInv => SlotsMatchOperations
      BY DEF RunnerInv
<1> QED
    BY <1>1, Invariant, PTL

\* Run returns nil only after every stage has put load on Redis, however short
\* the stages are.
THEOREM NoStageIsSkipped == Spec => []CompletedMeansEveryStageRan
<1>1. RunnerInv => CompletedMeansEveryStageRan
      BY StagesFacts, ClientsAssumption
         DEF RunnerInv, TypeOK, Progress, CompletedMeansEveryStageRan
<1> QED
    BY <1>1, Invariant, PTL

\* Once Run has returned, its operations only wind down.
THEOREM OperationsWindDown == Spec => OnlyWindDownAfterReturn
<1>1. ASSUME RunnerInv, [Next]_vars, runPc = "returned", NEW o \in Ops, op'[o] # op[o]
      PROVE  op'[o] \in {"none", "trimming"}
  <2>1. ctxDone /\ op \in [Ops -> OpPc]
        BY <1>1 DEF RunnerInv, Progress, TypeOK
  <2>2. \E p \in Ops : OpAbandons(p) \/ OpTrims(p) \/ OpFinishes(p)
        BY <1>1, <2>1 DEF Next, RunStep, vars, opVars, BeginStage, CheckContext, Spawn,
           NextRound, NextStage, LastStageEnds, StopsCancelled, Return, StageElapses,
           Cancel, PollerStops, OpProceeds
  <2> QED
      BY <1>1, <2>1, <2>2 DEF OpAbandons, OpTrims, OpFinishes, End
<1>2. RunnerInv /\ [Next]_vars =>
        [runPc = "returned" =>
           \A o \in Ops : op'[o] # op[o] => op'[o] \in {"none", "trimming"}]_vars
      BY <1>1
<1> QED
    BY <1>2, Invariant, PTL DEF Spec, OnlyWindDownAfterReturn
=============================================================================
