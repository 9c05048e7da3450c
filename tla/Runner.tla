------------------------------- MODULE Runner -------------------------------
(***************************************************************************)
(* One benchmark run: Runner.Run and the goroutines it starts              *)
(* (internal/benchmark).                                                   *)
(*                                                                         *)
(* Run goes through stages of MinClients, MinClients + 1, ... MaxClients   *)
(* clients.  A stage has a buffered channel of its own as a semaphore: the *)
(* loop sends to it and starts an operation, the operation receives from   *)
(* it when it ends.  Run does not wait for the operations at the end of a  *)
(* stage or at its own end; it cancels their context when it returns.      *)
(***************************************************************************)
EXTENDS Naturals, FiniteSets

CONSTANTS
  MinClients, MaxClients,  \* config.Test; nothing validates them
  Leaderboard,             \* is Workload zset?  The others write, then read
  Ops,                     \* bound: the operations in flight at a time
  StageLimit               \* bound: the last stage looked at

ASSUME ClientsAssumption ==
  /\ MinClients \in Nat /\ MaxClients \in Nat
  /\ StageLimit \in Nat /\ MinClients <= StageLimit
ASSUME LeaderboardAssumption == Leaderboard \in BOOLEAN
ASSUME OpsAssumption == IsFiniteSet(Ops)

Stages == MinClients..StageLimit

VARIABLES
  runPc,           \* where Run is
  currentClients,  \* the stage
  elapsed,         \* time.Since(now) >= stageInterval
  gauge,           \* the stage metric
  ctxDone,         \* the context of the run is done
  result,          \* what Run returns
  clients,         \* stage -> length of its channel
  op,              \* operation -> how far its goroutine is
  stageOf,         \* operation -> the stage whose channel it was started with
  poller,          \* the goroutine that updates the pool statistics
  loaded           \* history: the stages that have started an operation

vars == <<runPc, currentClients, elapsed, gauge, ctxDone, result, clients, op,
          stageOf, poller, loaded>>
opVars == <<clients, op, stageOf, loaded>>

\* stage, check: before the first and the second look at the context; send:
\* at the channel; spawned: after an operation was started; leaving: between the
\* two deferred calls.
RunPc == {"stage", "check", "send", "spawned", "leaving", "returned"}
OpPc == {"none", "born", "asleep", "writing", "reading", "trimming"}

InFlight == {o \in Ops : op[o] # "none"}
InFlightOf(s) == {o \in Ops : op[o] # "none" /\ stageOf[o] = s}

Init ==
  /\ runPc = "stage" /\ currentClients = MinClients
  /\ elapsed = FALSE /\ gauge = 0 /\ ctxDone = FALSE /\ result = "none"
  /\ clients = [s \in Stages |-> 0]
  /\ op = [o \in Ops |-> "none"]
  /\ stageOf = [o \in Ops |-> MinClients]
  /\ poller = "on"
  /\ loaded = {}

-----------------------------------------------------------------------------
(* Run                                                                     *)

BeginStage ==
  /\ runPc = "stage"
  /\ ~ctxDone
  /\ gauge' = currentClients
  /\ elapsed' = FALSE
  /\ runPc' = "check"
  /\ UNCHANGED <<currentClients, ctxDone, result, opVars, poller>>

CheckContext ==
  /\ runPc = "check"
  /\ ~ctxDone
  /\ runPc' = "send"
  /\ UNCHANGED <<currentClients, elapsed, gauge, ctxDone, result, opVars, poller>>

\* Bug: the operation is started without waiting for a free slot.
SpawnAtOnce(o) ==
  /\ runPc = "send"
  /\ op[o] = "none"
  /\ clients' = [clients EXCEPT ![currentClients] = @ + 1]
  /\ op' = [op EXCEPT ![o] = "born"]
  /\ stageOf' = [stageOf EXCEPT ![o] = currentClients]
  /\ loaded' = loaded \cup {currentClients}
  /\ runPc' = "spawned"
  /\ UNCHANGED <<currentClients, elapsed, gauge, ctxDone, result, poller>>

\* The send waits for a free slot, whatever becomes of the context.
Spawn(o) ==
  /\ runPc = "send"
  /\ clients[currentClients] < currentClients
  /\ op[o] = "none"
  /\ clients' = [clients EXCEPT ![currentClients] = @ + 1]
  /\ op' = [op EXCEPT ![o] = "born"]
  /\ stageOf' = [stageOf EXCEPT ![o] = currentClients]
  /\ loaded' = loaded \cup {currentClients}
  /\ runPc' = "spawned"
  /\ UNCHANGED <<currentClients, elapsed, gauge, ctxDone, result, poller>>

StageElapses ==
  /\ runPc \in {"check", "send", "spawned"}
  /\ ~elapsed
  /\ elapsed' = TRUE
  /\ UNCHANGED <<runPc, currentClients, gauge, ctxDone, result, opVars, poller>>

NextRound ==
  /\ runPc = "spawned"
  /\ ~elapsed
  /\ runPc' = "check"
  /\ UNCHANGED <<currentClients, elapsed, gauge, ctxDone, result, opVars, poller>>

\* Bug: the time is looked at before the first operation of the stage.
NextStageEarly ==
  /\ runPc \in {"check", "spawned"} /\ elapsed
  /\ currentClients # MaxClients
  /\ currentClients < StageLimit
  /\ currentClients' = currentClients + 1
  /\ runPc' = "stage"
  /\ UNCHANGED <<elapsed, gauge, ctxDone, result, opVars, poller>>

\* With MinClients > MaxClients the stages climb for ever.
NextStage ==
  /\ runPc = "spawned" /\ elapsed
  /\ currentClients # MaxClients
  /\ currentClients < StageLimit
  /\ currentClients' = currentClients + 1
  /\ runPc' = "stage"
  /\ UNCHANGED <<elapsed, gauge, ctxDone, result, opVars, poller>>

LastStageEnds ==
  /\ runPc = "spawned" /\ elapsed
  /\ currentClients = MaxClients
  /\ result' = "completed" /\ gauge' = 0
  /\ runPc' = "leaving"
  /\ UNCHANGED <<currentClients, elapsed, ctxDone, opVars, poller>>

StopsCancelled ==
  /\ runPc \in {"stage", "check"}
  /\ ctxDone
  /\ result' = "cancelled" /\ gauge' = 0
  /\ runPc' = "leaving"
  /\ UNCHANGED <<currentClients, elapsed, ctxDone, opVars, poller>>

\* Bug: Run returns without cancelling its context.
ReturnUncancelled ==
  /\ runPc = "leaving"
  /\ runPc' = "returned"
  /\ UNCHANGED <<currentClients, elapsed, gauge, ctxDone, result, opVars, poller>>

\* The deferred calls run last to first: the metric was reset before this one.
Return ==
  /\ runPc = "leaving"
  /\ ctxDone' = TRUE
  /\ runPc' = "returned"
  /\ UNCHANGED <<currentClients, elapsed, gauge, result, opVars, poller>>

\* The context Run was given is cancelled: see WorkerService.
Cancel ==
  /\ ~ctxDone
  /\ ctxDone' = TRUE
  /\ UNCHANGED <<runPc, currentClients, elapsed, gauge, result, opVars, poller>>

PollerStops ==
  /\ poller = "on"
  /\ ctxDone
  /\ poller' = "off"
  /\ UNCHANGED <<runPc, currentClients, elapsed, gauge, ctxDone, result, opVars>>

-----------------------------------------------------------------------------
(* The goroutine of an operation.                                          *)

\* The operation ends and receives from the channel it was started with.
End(o) ==
  /\ op' = [op EXCEPT ![o] = "none"]
  /\ clients' = [clients EXCEPT ![stageOf[o]] = @ - 1]
  /\ UNCHANGED <<stageOf, loaded>>

\* Bug: an early return that forgets the slot.
OpAbandonsKeepingSlot(o) ==
  /\ op[o] \in {"born", "asleep", "writing"}
  /\ ctxDone
  /\ op' = [op EXCEPT ![o] = "none"]
  /\ UNCHANGED <<clients, stageOf, loaded,
                 runPc, currentClients, elapsed, gauge, ctxDone, result, poller>>

\* Before the sleep, after it and after the write, a done context ends it.
OpAbandons(o) ==
  /\ op[o] \in {"born", "asleep", "writing"}
  /\ ctxDone
  /\ End(o)
  /\ UNCHANGED <<runPc, currentClients, elapsed, gauge, ctxDone, result, poller>>

\* An error of a command is logged at most: the operation goes on.
OpProceeds(o) ==
  /\ op[o] \in {"born", "asleep", "writing"}
  /\ ~ctxDone
  /\ op' = [op EXCEPT ![o] = CASE @ = "born" -> "asleep"
                               [] @ = "asleep" -> "writing"
                               [] @ = "writing" -> "reading"]
  /\ UNCHANGED <<clients, stageOf, loaded,
                 runPc, currentClients, elapsed, gauge, ctxDone, result, poller>>

\* zset: trim and union follow without another look at the context.
OpTrims(o) ==
  /\ op[o] = "reading"
  /\ Leaderboard
  /\ op' = [op EXCEPT ![o] = "trimming"]
  /\ UNCHANGED <<clients, stageOf, loaded,
                 runPc, currentClients, elapsed, gauge, ctxDone, result, poller>>

OpFinishes(o) ==
  /\ op[o] = IF Leaderboard THEN "trimming" ELSE "reading"
  /\ End(o)
  /\ UNCHANGED <<runPc, currentClients, elapsed, gauge, ctxDone, result, poller>>

RunStep == \/ BeginStage \/ CheckContext \/ NextRound \/ NextStage
           \/ LastStageEnds \/ StopsCancelled \/ Return
           \/ \E o \in Ops : Spawn(o)

Next ==
  \/ RunStep \/ StageElapses \/ Cancel \/ PollerStops
  \/ \E o \in Ops : OpAbandons(o) \/ OpProceeds(o) \/ OpTrims(o) \/ OpFinishes(o)

Spec == Init /\ [][Next]_vars

\* Time passes, goroutines run, and a command ends at the latest with its
\* timeout.  Nothing makes the context given to Run done.
Fairness ==
  /\ WF_vars(RunStep) /\ WF_vars(StageElapses) /\ WF_vars(PollerStops)
  /\ \A o \in Ops :
       WF_vars(OpAbandons(o) \/ OpProceeds(o) \/ OpTrims(o) \/ OpFinishes(o))

FairSpec == Spec /\ Fairness

-----------------------------------------------------------------------------
(* Safety.                                                                 *)

\* Every variable keeps its type.
TypeOK ==
  /\ runPc \in RunPc /\ currentClients \in Stages
  /\ elapsed \in BOOLEAN /\ ctxDone \in BOOLEAN
  /\ gauge \in Stages \cup {0}
  /\ result \in {"none", "completed", "cancelled"}
  /\ clients \in [Stages -> Nat]
  /\ op \in [Ops -> OpPc] /\ stageOf \in [Ops -> Stages]
  /\ poller \in {"on", "off"}
  /\ loaded \subseteq Stages

\* The channel of a stage holds one element for each of its operations in
\* flight, also after the stage has passed and after Run has returned: no way
\* out of an operation leaks a slot or takes another stage's, and a stage of n
\* clients never has more than n.
SlotsMatchOperations ==
  \A s \in Stages : clients[s] = Cardinality(InFlightOf(s)) /\ clients[s] <= s

\* Run returns nil only after every stage from the first to the last has put
\* load on Redis, however short a stage is; that no stage was skipped is what a
\* "completed" job means to the controller.
CompletedMeansEveryStageRan ==
  result = "completed" => MinClients..MaxClients \subseteq loaded

\* How far Run is: every stage before this one, and this one once it has passed
\* the channel, has started an operation; a context outlives no return.
Progress ==
  /\ \A s \in MinClients..MaxClients : s < currentClients => s \in loaded
  /\ runPc = "spawned" \/ result = "completed" => currentClients \in loaded
  /\ result = "completed" => currentClients = MaxClients /\ runPc \in {"leaving", "returned"}
  /\ runPc = "returned" => ctxDone

\* The inductive invariant of the specification.
RunnerInv == TypeOK /\ SlotsMatchOperations /\ Progress

\* Once Run has returned (the client is closed right then), the operations only
\* wind down: none is started, goes to sleep, writes or goes from the write to
\* the read.
OnlyWindDownAfterReturn ==
  [][runPc = "returned" =>
       \A o \in Ops : op'[o] # op[o] => op'[o] \in {"none", "trimming"}]_vars

-----------------------------------------------------------------------------
(* Liveness, for 1 <= MinClients <= MaxClients.                            *)

\* Run ends, by itself or cancelled, although its loop sends to the channel
\* without looking at the context: the operations make room.
RunEnds == <>(runPc = "returned")

\* benchmark.go:49: "Ensure any internal goroutines stop when Run exits".
GoroutinesStop == runPc = "returned" ~> (InFlight = {} /\ poller = "off")
=============================================================================
