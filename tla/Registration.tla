---------------------------- MODULE Registration ----------------------------
(***************************************************************************)
(* How a worker process enters the controller's registry, stays in it and  *)
(* leaves it (internal/worker).                                            *)
(*                                                                         *)
(* Three goroutines: Start, which registers first and then serves until    *)
(* the context is done; the watcher, which waits for a signal,             *)
(* unregisters and cancels the context; and the refresher, which registers *)
(* again every ten seconds.  The first registration ends before the        *)
(* refresher starts, so one retry loop is in use at a time.                *)
(*                                                                         *)
(* A request that times out at the worker may have reached the controller, *)
(* or may still reach it later.  A process that has ended may be started   *)
(* again; its name, made of host and port, is the one it had, so that what *)
(* the registry says of it, and what is still on its way, are of both.     *)
(***************************************************************************)
EXTENDS Naturals

CONSTANTS
  MaxAttempts,  \* registrationMaxAttempts
  MaxBackoff    \* registrationMaxBackoff, in units of the initial back-off

ASSUME MaxAttemptsAssumption == MaxAttempts \in Nat \ {0}
ASSUME MaxBackoffAssumption == MaxBackoff \in Nat \ {0}

VARIABLES
  main,          \* Worker.Start
  watcher,       \* the goroutine that handles signals
  refresher,     \* the goroutine that registers again
  regPc,         \* registerWithRetry: in no call, in Register, or waiting
  attempt,       \* its attempt
  backoff,       \* its next wait
  ctxDone,       \* the context of the worker is done
  registered,    \* the registry has an entry for the worker
  late,          \* requests the worker gave up that may still arrive
  known          \* history: since the process began, a registration has
                 \* reached the controller

vars == <<main, watcher, refresher, regPc, attempt, backoff, ctxDone, registered,
          late, known>>
retryVars == <<regPc, attempt, backoff>>

Request == {"register", "unregister"}
Ended == {"exited", "failed", "killed"}

Init ==
  /\ main = "registering" /\ watcher = "off" /\ refresher = "off"
  /\ regPc = "sending" /\ attempt = 1 /\ backoff = 1
  /\ ctxDone = FALSE
  /\ registered = FALSE /\ late = {}
  /\ known = FALSE

-----------------------------------------------------------------------------
(* registerWithRetry, for Start and for the refresher.                     *)

\* What a request comes to that the worker sees fail: it got lost, its answer
\* got lost, or it is under way still.
Unanswered(request) ==
  \/ UNCHANGED <<registered, known, late>>
  \/ /\ registered' = (request = "register")
     /\ known' = (known \/ request = "register")
     /\ UNCHANGED late
  \/ /\ late' = late \cup {request}
     /\ UNCHANGED <<registered, known>>

RegisterOk ==
  /\ main \notin Ended
  /\ regPc = "sending"
  /\ registered' = TRUE /\ known' = TRUE
  /\ regPc' = "none"
  /\ IF main = "registering"
       THEN main' = "serving" /\ watcher' = "waiting" /\ refresher' = "on"
       ELSE UNCHANGED <<main, watcher, refresher>>
  /\ UNCHANGED <<attempt, backoff, ctxDone, late>>

\* A failed attempt, not the last, with the context alive.
RegisterFails ==
  /\ main \notin Ended
  /\ regPc = "sending"
  /\ attempt # MaxAttempts /\ ~ctxDone
  /\ Unanswered("register")
  /\ regPc' = "waiting"
  /\ UNCHANGED <<main, watcher, refresher, attempt, backoff, ctxDone>>

\* Bug: the loop falls through to success after its last attempt.
GiveUpQuietly ==
  /\ main \notin Ended
  /\ regPc = "sending"
  /\ attempt = MaxAttempts \/ ctxDone
  /\ Unanswered("register")
  /\ regPc' = "none"
  /\ IF main = "registering"
       THEN main' = "serving" /\ watcher' = "waiting" /\ refresher' = "on"
       ELSE UNCHANGED <<main, watcher, refresher>>
  /\ UNCHANGED <<attempt, backoff, ctxDone>>

\* Bug: the refresher ends when a registration fails.
GiveUpForGood ==
  /\ main \notin Ended
  /\ regPc = "sending"
  /\ attempt = MaxAttempts \/ ctxDone
  /\ Unanswered("register")
  /\ regPc' = "none"
  /\ main' = IF main = "registering" THEN "failed" ELSE main
  /\ refresher' = "done"
  /\ UNCHANGED <<watcher, attempt, backoff, ctxDone>>

\* The last attempt failed, or any attempt with the context done.  It ends the
\* process if it was the first registration; the refresher goes on.
GiveUp ==
  /\ main \notin Ended
  /\ regPc = "sending"
  /\ attempt = MaxAttempts \/ ctxDone
  /\ Unanswered("register")
  /\ regPc' = "none"
  /\ main' = IF main = "registering" THEN "failed" ELSE main
  /\ UNCHANGED <<watcher, refresher, attempt, backoff, ctxDone>>

\* registrationBackoffMultiplier is 2.
Longer(b) == IF 2 * b > MaxBackoff THEN MaxBackoff ELSE 2 * b

TryAgain ==
  /\ main \notin Ended
  /\ regPc = "waiting"
  /\ regPc' = "sending"
  /\ attempt' = attempt + 1
  /\ backoff' = Longer(backoff)
  /\ UNCHANGED <<main, watcher, refresher, ctxDone, registered, late, known>>

WaitCancelled ==
  /\ main \notin Ended
  /\ regPc = "waiting"
  /\ ctxDone
  /\ regPc' = "none"
  /\ UNCHANGED <<main, watcher, refresher, attempt, backoff, ctxDone, registered,
                 late, known>>

-----------------------------------------------------------------------------
(* The refresher.                                                          *)

\* The select may take a tick although the context is done.
RefreshTick ==
  /\ main \notin Ended
  /\ refresher = "on" /\ regPc = "none"
  /\ regPc' = "sending" /\ attempt' = 1 /\ backoff' = 1
  /\ UNCHANGED <<main, watcher, refresher, ctxDone, registered, late, known>>

RefresherStops ==
  /\ main \notin Ended
  /\ refresher = "on" /\ regPc = "none"
  /\ ctxDone
  /\ refresher' = "done"
  /\ UNCHANGED <<main, watcher, retryVars, ctxDone, registered, late, known>>

-----------------------------------------------------------------------------
(* Shutdown.                                                               *)

Signal ==
  /\ main \notin Ended
  /\ watcher = "waiting"
  /\ watcher' = "unregistering"
  /\ UNCHANGED <<main, refresher, retryVars, ctxDone, registered, late, known>>

UnregisterOk ==
  /\ main \notin Ended
  /\ watcher = "unregistering"
  /\ registered' = FALSE
  /\ watcher' = "done" /\ ctxDone' = TRUE
  /\ UNCHANGED <<main, refresher, retryVars, late, known>>

\* Bug: the context is cancelled only when the unregistration succeeded.
UnregisterFailsStays ==
  /\ main \notin Ended
  /\ watcher = "unregistering"
  /\ Unanswered("unregister")
  /\ watcher' = "done"
  /\ UNCHANGED <<main, refresher, retryVars, ctxDone>>

\* The failure is logged and the shutdown goes on.
UnregisterFails ==
  /\ main \notin Ended
  /\ watcher = "unregistering"
  /\ Unanswered("unregister")
  /\ watcher' = "done" /\ ctxDone' = TRUE
  /\ UNCHANGED <<main, refresher, retryVars>>

\* What a process is asking for when it ends may have left it.
UnderWay ==
  {request \in Request :
     \/ request = "register" /\ regPc = "sending"
     \/ request = "unregister" /\ watcher = "unregistering"}
SomeLeftUnderWay == \E left \in SUBSET UnderWay : late' = late \cup left

\* The HTTP server shuts down, within 30 seconds, and the process ends.
Exit ==
  /\ main = "serving"
  /\ ctxDone
  /\ main' = "exited"
  /\ SomeLeftUnderWay
  /\ UNCHANGED <<watcher, refresher, retryVars, ctxDone, registered, known>>

\* A crash, POST /exit, or a signal before there is a watcher.
Killed ==
  /\ main \notin Ended
  /\ main' = "killed"
  /\ SomeLeftUnderWay
  /\ UNCHANGED <<watcher, refresher, retryVars, ctxDone, registered, known>>

\* The process is started again, with the name it had.
Restart ==
  /\ main \in Ended
  /\ main' = "registering" /\ watcher' = "off" /\ refresher' = "off"
  /\ regPc' = "sending" /\ attempt' = 1 /\ backoff' = 1
  /\ ctxDone' = FALSE
  /\ known' = FALSE
  /\ UNCHANGED <<registered, late>>

-----------------------------------------------------------------------------
(* The controller and the network.                                         *)

\* A restart of the controller, DELETE /workers/{id} by hand, or the removal
\* that ends POST /workers/{id}/exit.
Removed ==
  /\ registered
  /\ registered' = FALSE
  /\ UNCHANGED <<main, watcher, refresher, retryVars, ctxDone, late, known>>

Arrives(request) ==
  /\ request \in late
  /\ late' = late \ {request}
  /\ registered' = (request = "register")
  /\ known' = (known \/ request = "register")
  /\ UNCHANGED <<main, watcher, refresher, retryVars, ctxDone>>

Retry == RegisterOk \/ RegisterFails \/ GiveUp \/ TryAgain \/ WaitCancelled
Refresh == RefreshTick \/ RefresherStops
Unregister == UnregisterOk \/ UnregisterFails

Next ==
  \/ Retry \/ Refresh
  \/ Signal \/ Unregister \/ Exit \/ Killed \/ Restart
  \/ Removed \/ \E request \in Request : Arrives(request)

Spec == Init /\ [][Next]_vars

\* Nothing makes anyone start a process again.  Timers fire, HTTP clients time out, and the server's shutdown is bounded.  A
\* controller that is asked again and again answers in the end.
Fairness ==
  /\ WF_vars(Retry) /\ WF_vars(Refresh) /\ WF_vars(Unregister) /\ WF_vars(Exit)
  /\ SF_vars(RegisterOk)

FairSpec == Spec /\ Fairness

-----------------------------------------------------------------------------
(* Safety.                                                                 *)

\* Every variable keeps its type; the attempts and the back-off, their limits.
TypeOK ==
  /\ main \in {"registering", "serving"} \cup Ended
  /\ watcher \in {"off", "waiting", "unregistering", "done"}
  /\ refresher \in {"off", "on", "done"}
  /\ regPc \in {"none", "sending", "waiting"}
  /\ attempt \in 1..MaxAttempts /\ backoff \in 1..MaxBackoff
  /\ ctxDone \in BOOLEAN /\ registered \in BOOLEAN
  /\ late \subseteq Request
  /\ known \in BOOLEAN

\* A worker serves only after the controller has heard of it, whatever was lost
\* of the first registration and however often it was tried.
ServesOnlyIfKnown == main = "serving" => known

\* What these rest on: which goroutines there are, and that a wait is never the
\* last attempt's.
RegistrationInv ==
  /\ TypeOK /\ ServesOnlyIfKnown
  /\ main = "registering" => watcher = "off" /\ refresher = "off" /\ ~ctxDone /\ regPc # "none"
  /\ main = "serving" => watcher # "off" /\ (ctxDone <=> watcher = "done")
  /\ regPc = "waiting" => attempt < MaxAttempts

-----------------------------------------------------------------------------
(* Liveness.                                                               *)

\* worker.go:131, of the refresher: "to survive controller restarts".  A worker
\* that serves is registered again, or is being shut down.
ComesBack == main = "serving" ~> registered \/ ctxDone \/ main \in Ended

\* A signal ends the process, whether or not the controller answers.
ShutdownEnds == watcher = "unregistering" ~> main \in Ended
=============================================================================
