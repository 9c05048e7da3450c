-------------------------- MODULE JobSelectionProofs --------------------------
(***************************************************************************)
(* Proofs about JobSelection: requests that only read leave the job        *)
(* manager's own behaviour as it is, so that its invariant may be used     *)
(* here, and an answer is about one job.                                   *)
(***************************************************************************)
EXTENDS JobSelection, JobManagerProofs

\* A step of the whole is a step of the job manager, or none.
LEMMA SelectionStepIsJobStep ==
  ASSUME [SelectionNext]_selectionVars
  PROVE  [Next]_vars
<1>1. CASE JobStep
  BY <1>1 DEF JobStep, Next
<1>2. CASE ReadConfig \/ ReadTargets
  BY <1>2 DEF ReadConfig, ReadTargets
<1>3. CASE RestartAll
  BY <1>3 DEF RestartAll, Next
<1>4. CASE UNCHANGED selectionVars
  BY <1>4 DEF selectionVars
<1>. QED
  BY <1>1, <1>2, <1>3, <1>4 DEF SelectionNext

\* JobSelection adds readers to JobManager and takes nothing away: all that is
\* proved of the job manager holds of it.
THEOREM ReadersDoNotDisturb == SelectionSpec => Spec
<1>1. SelectionInit => Init
  BY DEF SelectionInit
<1>. QED
  BY <1>1, SelectionStepIsJobStep, PTL DEF SelectionSpec, Spec

\* The job that ran at the first list is the one whose configuration is shown.
ReaderInv == steady # NoJob => steady \in Jobs /\ shownConfig = steady

LEMMA ReaderStep ==
  ASSUME IInv, ReaderInv, [SelectionNext]_selectionVars
  PROVE  ReaderInv'
<1>1. CASE ReadConfig
  <2>1. SUFFICES ASSUME steady' # NoJob
                 PROVE  steady' \in Jobs /\ shownConfig' = steady'
    BY DEF ReaderInv
  <2>2. steady' \in Running
    BY <1>1, <2>1 DEF ReadConfig, OneOf
  <2>3. shownConfig' \in Running
    BY <1>1, <2>2 DEF ReadConfig, OneOf, FindSelectedJob
  <2>. QED
    BY <2>2, <2>3 DEF Running, IInv, SingleRunningJob
<1>2. CASE ReadTargets \/ RestartAll
  BY <1>2 DEF ReadTargets, RestartAll, ReaderInv
<1>3. CASE UNCHANGED readerVars
  BY <1>3 DEF readerVars, ReaderInv
<1>. QED
  BY <1>1, <1>2, <1>3 DEF SelectionNext, selectionVars, readerVars

\* The configuration and the targets of an answer are those of one job, if that
\* job was running while it was made.
THEOREM AnswersAreOfOneJob == SelectionSpec => []SteadyJobIsShown
<1>1. SelectionInit => ReaderInv
  BY DEF SelectionInit, ReaderInv
<1>2. IInv /\ ReaderInv => SteadyJobIsShown
  <2> SUFFICES ASSUME IInv, ReaderInv, steady # NoJob, jobStatus[steady] = "running"
               PROVE  shownConfig = steady /\ DeriveTargetsFromJobs = {steady}
    BY DEF SteadyJobIsShown
  <2>1. Running = {steady}
    BY DEF ReaderInv, Running, IInv, SingleRunningJob
  <2>. QED
    BY <2>1 DEF ReaderInv, DeriveTargetsFromJobs, OneOf
<1>3. IInv /\ ReaderInv /\ [SelectionNext]_selectionVars => ReaderInv'
  BY ReaderStep
<1>. QED
  BY <1>1, <1>2, <1>3, ReadersDoNotDisturb, Invariant, PTL DEF SelectionSpec
=============================================================================
