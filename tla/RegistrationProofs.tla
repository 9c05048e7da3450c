------------------------- MODULE RegistrationProofs -------------------------
(***************************************************************************)
(* Proofs about Registration, for every limit of attempts and back-off.    *)
(***************************************************************************)
EXTENDS Registration, TLAPS

\* The back-off stays within its limit.
LEMMA LongerIsBounded ==
  ASSUME NEW b \in 1..MaxBackoff
  PROVE  Longer(b) \in 1..MaxBackoff
BY MaxBackoffAssumption DEF Longer

\* A request that fails keeps the types, and the worker known if it was.
LEMMA UnansweredKeeps ==
  ASSUME registered \in BOOLEAN, known \in BOOLEAN, late \subseteq Request,
         NEW request \in Request, Unanswered(request)
  PROVE  /\ registered' \in BOOLEAN /\ known' \in BOOLEAN /\ late' \subseteq Request
         /\ known => known'
BY DEF Unanswered, Request

LEMMA InitRegistrationInv == Init => RegistrationInv
<1> SUFFICES ASSUME Init
             PROVE  RegistrationInv
    OBVIOUS
<1>1. attempt \in 1..MaxAttempts /\ backoff \in 1..MaxBackoff
      BY MaxAttemptsAssumption, MaxBackoffAssumption DEF Init
<1>2. TypeOK
      BY <1>1, Zenon DEF Init, TypeOK
<1> QED
    BY <1>2 DEF Init, RegistrationInv, ServesOnlyIfKnown

LEMMA NextRegistrationInv == RegistrationInv /\ [Next]_vars => RegistrationInv'
<1> SUFFICES ASSUME RegistrationInv, [Next]_vars
             PROVE  RegistrationInv'
    OBVIOUS
<1> USE DEF RegistrationInv, TypeOK, ServesOnlyIfKnown
<1>1. CASE RegisterOk
      BY <1>1 DEF RegisterOk, Ended
<1>2. CASE RegisterFails
  <2>1. /\ registered' \in BOOLEAN /\ known' \in BOOLEAN /\ late' \subseteq Request
        /\ known => known'
        BY <1>2, UnansweredKeeps DEF RegisterFails, Request
  <2>2. attempt < MaxAttempts
        BY <1>2, MaxAttemptsAssumption DEF RegisterFails
  <2> QED
      BY <1>2, <2>1, <2>2 DEF RegisterFails, Ended
<1>3. CASE GiveUp
      BY <1>3, UnansweredKeeps DEF GiveUp, Ended, Request
<1>4. CASE TryAgain
      BY <1>4, LongerIsBounded, MaxAttemptsAssumption DEF TryAgain, Ended
<1>5. CASE WaitCancelled
      BY <1>5 DEF WaitCancelled, Ended
<1>6. CASE RefreshTick
      BY <1>6, MaxAttemptsAssumption, MaxBackoffAssumption DEF RefreshTick, Ended
<1>7. CASE RefresherStops
      BY <1>7 DEF RefresherStops, Ended, retryVars
<1>8. CASE Signal
      BY <1>8 DEF Signal, Ended, retryVars
<1>9. CASE UnregisterOk
      BY <1>9 DEF UnregisterOk, Ended, retryVars
<1>10. CASE UnregisterFails
      BY <1>10, UnansweredKeeps DEF UnregisterFails, Ended, retryVars, Request
<1>11. CASE Exit
      BY <1>11 DEF Exit, Ended, retryVars, SomeLeftUnderWay, UnderWay
<1>12. CASE Killed
      BY <1>12 DEF Killed, Ended, retryVars, SomeLeftUnderWay, UnderWay
<1>13. CASE Removed
      BY <1>13 DEF Removed, Ended, retryVars
<1>14. CASE \E request \in Request : Arrives(request)
      BY <1>14 DEF Arrives, Ended, retryVars, Request
<1>15. CASE Restart
  <2>1. attempt' \in 1..MaxAttempts /\ backoff' \in 1..MaxBackoff
        BY <1>15, MaxAttemptsAssumption, MaxBackoffAssumption DEF Restart
  <2>2. TypeOK'
        BY <1>15, <2>1, Zenon DEF Restart
  <2> QED
      BY <1>15, <2>2 DEF Restart
<1>16. CASE UNCHANGED vars
      BY <1>16 DEF vars
<1> QED
    BY <1>1, <1>2, <1>3, <1>4, <1>5, <1>6, <1>7, <1>8, <1>9, <1>10, <1>11, <1>12,
       <1>13, <1>14, <1>15, <1>16 DEF Next, Retry, Refresh, Unregister

\* The goroutines of a worker are where RegistrationInv says, always.
THEOREM Invariant == Spec => []RegistrationInv
BY InitRegistrationInv, NextRegistrationInv, PTL DEF Spec

\* However many registrations are lost or delayed, attempts and back-off stay
\* within their limits (registerWithRetry).
THEOREM TypeCorrect == Spec => []TypeOK
<1>1. RegistrationInv => TypeOK
      BY DEF RegistrationInv
<1> QED
    BY <1>1, Invariant, PTL

\* A worker never serves before the controller has heard of it (Worker.Start).
THEOREM WorkersThatServeAreKnown == Spec => []ServesOnlyIfKnown
<1>1. RegistrationInv => ServesOnlyIfKnown
      BY DEF RegistrationInv
<1> QED
    BY <1>1, Invariant, PTL
=============================================================================
