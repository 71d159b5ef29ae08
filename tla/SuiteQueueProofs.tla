-------------------------- MODULE SuiteQueueProofs --------------------------
(***************************************************************************)
(* Proofs about SuiteQueue for any number of runs, workers, retries and    *)
(* crashes.                                                                *)
(***************************************************************************)
EXTENDS SuiteQueue, FiniteSetTheorems, TLAPS

USE DEF Status, Final

\* What is left of a plan of N runs is a number from 0 to N.
LEMMA LeftBound == Cardinality(Remaining) \in 0..N
<1>1. IsFiniteSet(1..N) /\ Cardinality(1..N) = N
  BY FS_Interval, PlanAssumption
<1>2. Remaining \subseteq 1..N
  BY DEF Remaining, Left, With, Runs
<1>3. IsFiniteSet(Remaining) /\ Cardinality(Remaining) <= N
  BY <1>1, <1>2, FS_Subset
<1>4. Cardinality(Remaining) \in Nat
  BY <1>3, FS_CardinalityType
<1> QED
  BY <1>3, <1>4, PlanAssumption

\* A worker has a run in hand exactly while it is between the claim and the
\* requeue or the finish of that run.
Handling == {"mark", "stream", "requeue", "finish"}
InHand == \A w \in Workers : job[w] # NoRun <=> pc[w] \in Handling

\* A run goes back to the queue only while its worker has waits left.
WaitsLeft == \A w \in Workers : pc[w] = "requeue" => busy[w] < BusyRetries

TypeInv == TypeOK /\ InHand /\ WaitsLeft

LEMMA InitTypeInv == Init => TypeInv
<1> SUFFICES ASSUME Init PROVE TypeInv
  OBVIOUS
<1>1. Uncounted \in Counts
  BY PlanAssumption DEF Uncounted, Counts
<1>2. TypeOK
  <2>1. completed \in 0..N /\ crashes \in 0..MaxCrashes
    BY PlanAssumption, BoundAssumption DEF Init
  <2>2. busy \in [Workers -> 0..BusyRetries] /\ recorders \in [Runs -> 0..2]
    BY BoundAssumption DEF Init
  <2>3. pc \in [Workers -> Steps] /\ heard \in [Workers -> Hearing]
    BY DEF Init, Steps, Hearing
  <2>4. /\ run \in [Runs -> Status] /\ job \in [Workers -> Runs \cup {NoRun}]
        /\ back \in [Workers -> {"loop", "off"}] /\ current \in [Workers -> Status]
    BY DEF Init
  <2>5. counted \in [Workers -> Counts]
    BY <1>1 DEF Init
  <2>6. stale \in SUBSET Runs /\ suite \in Status /\ cancelled \in BOOLEAN
    BY DEF Init
  <2> QED
    BY <2>1, <2>2, <2>3, <2>4, <2>5, <2>6 DEF TypeOK
<1>3. InHand
  BY DEF Init, InHand, Handling
<1>4. WaitsLeft
  BY DEF Init, WaitsLeft
<1> QED
  BY <1>2, <1>3, <1>4 DEF TypeInv

LEMMA NextTypeInv == TypeInv /\ [Next]_vars => TypeInv'
<1> SUFFICES ASSUME TypeInv, [Next]_vars PROVE TypeInv'
  OBVIOUS
<1> USE PlanAssumption, NoRunAssumption, BoundAssumption, FlagAssumption
    DEF TypeInv, TypeOK, InHand, Handling, WaitsLeft, Steps, Hearing, At, Goto, board, local, history
<1>1. ASSUME NEW w \in Workers, Work(w) PROVE TypeInv'
  <2>1. CASE SweepStale(w)
    BY <2>1 DEF SweepStale, Sweepable, With
  <2>2. CASE ClaimNext(w)
    BY <2>2 DEF ClaimNext, Claimable, With
  <2>3. CASE NothingToClaim(w)
    BY <2>3 DEF NothingToClaim, Leave
  <2>4. CASE MarkSuiteRunning(w)
    BY <2>4 DEF MarkSuiteRunning
  <2>5. CASE HearEvent(w)
    BY <2>5 DEF HearEvent, Record
  <2>6. ASSUME NEW o \in {"converged", "failed"}, HearOutcome(w, o) PROVE TypeInv'
    BY <2>6 DEF HearOutcome, Record
  <2>7. CASE StreamEnds(w)
    BY <2>7 DEF StreamEnds
  <2>8. ASSUME NEW b \in BOOLEAN, StreamThrows(w, b) PROVE TypeInv'
    <3>1. CASE b /\ MayRetry(w)
      BY <2>8, <3>1 DEF StreamThrows, MayRetry
    <3>2. CASE ~(b /\ MayRetry(w))
      <4>1. job[w] \in Runs
        BY <2>8 DEF StreamThrows
      <4>2. Goto(w, "finish") /\ Record(w, "failed")
        BY <2>8, <3>2 DEF StreamThrows
      <4>3. recorders' \in [Runs -> 0..2] /\ heard' \in [Workers -> Hearing]
        BY <4>1, <4>2 DEF Record
      <4> QED
        BY <2>8, <4>2, <4>3 DEF StreamThrows
    <3> QED
      BY <3>1, <3>2
  <2>9. CASE Requeue(w)
    <3>1. job[w] \in Runs
      BY <2>9 DEF Requeue
    <3>2. run' \in [Runs -> Status]
      BY <2>9, <3>1 DEF Requeue, Requeued
    <3>3. busy' \in [Workers -> 0..BusyRetries]
      BY <2>9 DEF Requeue, NextStreak
    <3> QED
      BY <2>9, <3>2, <3>3 DEF Requeue
  <2>10. CASE Finish(w)
    BY <2>10 DEF Finish, Outcome
  <2>11. CASE CountRuns(w)
    BY <2>11, LeftBound DEF CountRuns, Counts
  <2>12. CASE ReadStatus(w)
    BY <2>12 DEF ReadStatus
  <2>13. CASE WriteProgress(w)
    BY <2>13 DEF WriteProgress, Closing, Uncounted, Counts
  <2> QED
    BY <1>1, <2>1, <2>2, <2>3, <2>4, <2>5, <2>6, <2>7, <2>8, <2>9, <2>10, <2>11, <2>12, <2>13
    DEF Work
<1>2. ASSUME NEW w \in Workers, OutOfTime(w) PROVE TypeInv'
  BY <1>2 DEF OutOfTime, Leave
<1>3. ASSUME NEW w \in Workers, StartDriver(w) PROVE TypeInv'
  BY <1>3 DEF StartDriver
<1>4. ASSUME NEW w \in Workers, Die(w) PROVE TypeInv'
  BY <1>4 DEF Die, Uncounted, Counts
<1>5. ASSUME NEW r \in Runs, GrowStale(r) PROVE TypeInv'
  BY <1>5 DEF GrowStale
<1>6. CASE Cancel
  BY <1>6 DEF Cancel, Dropped, With
<1>7. CASE UNCHANGED vars
  BY <1>7 DEF vars
<1> QED
  BY <1>1, <1>2, <1>3, <1>4, <1>5, <1>6, <1>7 DEF Next

\* Every reachable state of the queue is well typed, and a worker's hand is
\* full exactly between claim and requeue or finish.
THEOREM QueueTyped == Spec => []TypeOK
<1>1. Spec => []TypeInv
  BY InitTypeInv, NextTypeInv, PTL DEF Spec
<1>2. TypeInv => TypeOK
  BY DEF TypeInv
<1> QED
  BY <1>1, <1>2, PTL
-----------------------------------------------------------------------------
LEMMA InitExclusive == Init => Exclusive
  BY DEF Init, Exclusive

\* Exclusivity is inductive relative to TypeInv: a claim takes a QUEUED run,
\* which nobody holds; a requeue makes one QUEUED as its only holder lets go.
LEMMA NextExclusive == TypeInv /\ Exclusive /\ [Next]_vars => Exclusive'
<1> SUFFICES ASSUME TypeInv, Exclusive, [Next]_vars PROVE Exclusive'
  OBVIOUS
<1>0. /\ run \in [Runs -> Status]
      /\ pc \in [Workers -> Steps]
      /\ job \in [Workers -> Runs \cup {NoRun}]
      /\ NoRun \notin Runs
      /\ \A w \in Workers : job[w] # NoRun <=> pc[w] \in Handling
  BY NoRunAssumption DEF TypeInv, TypeOK, InHand
<1> USE DEF Exclusive, At
<1>1. ASSUME NEW w \in Workers, Work(w) PROVE Exclusive'
  <2>1. CASE SweepStale(w)
    BY <1>0, <2>1 DEF SweepStale
  <2>2. CASE ClaimNext(w)
    <3>1. PICK r \in Claimable : /\ run' = [run EXCEPT ![r] = "RUNNING"]
                                 /\ job' = [job EXCEPT ![w] = r]
      BY <2>2 DEF ClaimNext
    <3>2. r \in Runs /\ run[r] = "QUEUED"
      BY <3>1 DEF Claimable, With
    <3>3. \A v \in Workers : job[v] # r
      BY <1>0, <3>2
    <3> QED
      BY <1>0, <3>1, <3>2, <3>3
  <2>3. CASE NothingToClaim(w) \/ MarkSuiteRunning(w) \/ HearEvent(w)
             \/ StreamEnds(w) \/ CountRuns(w) \/ ReadStatus(w) \/ WriteProgress(w)
    BY <2>3 DEF NothingToClaim, Leave, MarkSuiteRunning, HearEvent, StreamEnds,
                CountRuns, ReadStatus, WriteProgress, board
  <2>4. ASSUME NEW o \in {"converged", "failed"}, HearOutcome(w, o) PROVE Exclusive'
    BY <2>4 DEF HearOutcome, board
  <2>5. ASSUME NEW b \in BOOLEAN, StreamThrows(w, b) PROVE Exclusive'
    BY <2>5 DEF StreamThrows, board
  <2>6. CASE Requeue(w)
    <3>1. job[w] \in Runs
      BY <1>0, <2>6 DEF Requeue, Handling
    <3>2. \A v \in Workers \ {w} : job[v] # job[w]
      BY <1>0, <3>1
    <3>3. /\ run' = [run EXCEPT ![job[w]] = Requeued(job[w])]
          /\ job' = [job EXCEPT ![w] = NoRun]
      BY <2>6 DEF Requeue
    <3> QED
      BY <1>0, <3>1, <3>2, <3>3
  <2>7. CASE Finish(w)
    <3>1. job[w] \in Runs
      BY <1>0, <2>7 DEF Finish, Handling
    <3>2. Outcome(heard[w]) # "QUEUED"
      BY DEF Outcome
    <3> QED
      BY <1>0, <2>7, <3>1, <3>2 DEF Finish
  <2> QED
    BY <1>1, <2>1, <2>2, <2>3, <2>4, <2>5, <2>6, <2>7 DEF Work
<1>2. ASSUME NEW w \in Workers, OutOfTime(w) \/ StartDriver(w) PROVE Exclusive'
  BY <1>2 DEF OutOfTime, Leave, StartDriver, board
<1>3. ASSUME NEW w \in Workers, Die(w) PROVE Exclusive'
  BY <1>0, <1>3 DEF Die, board
<1>4. ASSUME NEW r \in Runs, GrowStale(r) PROVE Exclusive'
  BY <1>4 DEF GrowStale, local
<1>5. CASE Cancel
  BY <1>0, <1>5 DEF Cancel, local
<1>6. CASE UNCHANGED vars
  BY <1>6 DEF vars, board, local
<1> QED
  BY <1>1, <1>2, <1>3, <1>4, <1>5, <1>6 DEF Next

\* "Two workers never take the same run" (executor.ts:4-6), for any plan, any
\* number of workers and crashes, and even if runs outlast the stale window.
THEOREM QueueExclusive == Spec => []Exclusive
<1>1. Spec => []TypeInv
  BY InitTypeInv, NextTypeInv, PTL DEF Spec
<1> QED
  BY <1>1, InitExclusive, NextExclusive, PTL DEF Spec
-----------------------------------------------------------------------------
\* A run waiting in the queue has no recorded event, and neither has a run
\* whose worker has heard nothing; only such a worker requeues.
Unrecorded ==
  /\ \A r \in Runs : run[r] = "QUEUED" => recorders[r] = 0
  /\ \A w \in Workers : job[w] # NoRun /\ heard[w] = "nothing" => recorders[job[w]] = 0
  /\ \A w \in Workers : pc[w] = "requeue" => heard[w] = "nothing"

RecorderInv == Unrecorded /\ OneRecorder

LEMMA InitRecorderInv == Init => RecorderInv
  BY DEF Init, RecorderInv, Unrecorded, OneRecorder

LEMMA RecordOnce ==
  ASSUME TypeInv, Exclusive, RecorderInv, NEW w \in Workers, NEW what \in Hearing,
         pc[w] = "stream", Record(w, what), what # "nothing",
         UNCHANGED <<run, job>>
  PROVE  /\ \A r \in Runs : recorders'[r] <= 1
         /\ \A r \in Runs : run'[r] = "QUEUED" => recorders'[r] = 0
         /\ \A v \in Workers : job'[v] # NoRun /\ heard'[v] = "nothing" => recorders'[job'[v]] = 0
<1>1. /\ job \in [Workers -> Runs \cup {NoRun}] /\ heard \in [Workers -> Hearing]
      /\ recorders \in [Runs -> 0..2] /\ NoRun \notin Runs
  BY NoRunAssumption DEF TypeInv, TypeOK
<1>2. job[w] \in Runs
  BY <1>1 DEF TypeInv, InHand, Handling
<1>3. /\ run[job[w]] # "QUEUED"
      /\ \A v \in Workers : v # w => job[v] # job[w]
  BY <1>1, <1>2 DEF Exclusive
<1>4. /\ \A r \in Runs : r # job[w] => recorders'[r] = recorders[r]
      /\ recorders'[job[w]] <= 1
  BY <1>1, <1>2 DEF Record, RecorderInv, Unrecorded, OneRecorder
<1>5. heard' = [heard EXCEPT ![w] = what]
  BY DEF Record
<1> QED
  BY <1>1, <1>2, <1>3, <1>4, <1>5 DEF RecorderInv, Unrecorded, OneRecorder

LEMMA NextRecorderInv == TypeInv /\ Exclusive /\ RecorderInv /\ [Next]_vars => RecorderInv'
<1> SUFFICES ASSUME TypeInv, Exclusive, RecorderInv, [Next]_vars PROVE RecorderInv'
  OBVIOUS
<1>0. /\ run \in [Runs -> Status] /\ pc \in [Workers -> Steps]
      /\ job \in [Workers -> Runs \cup {NoRun}] /\ heard \in [Workers -> Hearing]
      /\ NoRun \notin Runs
      /\ \A w \in Workers : job[w] # NoRun <=> pc[w] \in Handling
  BY NoRunAssumption DEF TypeInv, TypeOK, InHand
<1> USE DEF RecorderInv, Unrecorded, OneRecorder, At, Goto, history
<1>1. ASSUME NEW w \in Workers, Work(w) PROVE RecorderInv'
  <2>1. CASE SweepStale(w)
    BY <1>0, <2>1 DEF SweepStale
  <2>2. CASE ClaimNext(w)
    BY <1>0, <2>2 DEF ClaimNext, Claimable, With
  <2>3. CASE NothingToClaim(w) \/ MarkSuiteRunning(w) \/ StreamEnds(w)
             \/ CountRuns(w) \/ ReadStatus(w) \/ WriteProgress(w)
    <3>1. UNCHANGED <<run, job, heard, recorders>> /\ \E s \in Steps \ {"requeue"} : pc' = [pc EXCEPT ![w] = s]
      <4>1. back[w] \in Steps \ {"requeue"}
        BY DEF TypeInv, TypeOK, Steps
      <4> QED
        BY <2>3, <4>1 DEF NothingToClaim, Leave, MarkSuiteRunning, StreamEnds,
                CountRuns, ReadStatus, WriteProgress, board, Steps
    <3> QED
      BY <1>0, <3>1
  <2>4. CASE HearEvent(w)
    BY <1>0, <2>4, RecordOnce DEF HearEvent, board, Hearing, Record
  <2>5. ASSUME NEW o \in {"converged", "failed"}, HearOutcome(w, o) PROVE RecorderInv'
    BY <1>0, <2>5, RecordOnce DEF HearOutcome, board, Hearing, Record
  <2>6. ASSUME NEW b \in BOOLEAN, StreamThrows(w, b) PROVE RecorderInv'
    <3>1. CASE b /\ MayRetry(w)
      BY <1>0, <2>6, <3>1 DEF StreamThrows, MayRetry, board
    <3>2. CASE ~(b /\ MayRetry(w))
      BY <1>0, <2>6, <3>2, RecordOnce DEF StreamThrows, board, Hearing, Record
    <3> QED
      BY <3>1, <3>2
  <2>7. CASE Requeue(w)
    <3>1. job[w] \in Runs /\ recorders[job[w]] = 0
      BY <1>0, <2>7 DEF Requeue, Handling
    <3> QED
      BY <1>0, <2>7, <3>1 DEF Requeue
  <2>8. CASE Finish(w)
    <3>1. job[w] \in Runs /\ Outcome(heard[w]) # "QUEUED"
      BY <1>0, <2>8 DEF Finish, Handling, Outcome
    <3> QED
      BY <1>0, <2>8, <3>1 DEF Finish
  <2> QED
    BY <1>1, <2>1, <2>2, <2>3, <2>4, <2>5, <2>6, <2>7, <2>8 DEF Work
<1>2. ASSUME NEW w \in Workers, OutOfTime(w) \/ StartDriver(w) PROVE RecorderInv'
  BY <1>0, <1>2 DEF OutOfTime, Leave, StartDriver, board
<1>3. ASSUME NEW w \in Workers, Die(w) PROVE RecorderInv'
  BY <1>0, <1>3 DEF Die, board
<1>4. ASSUME NEW r \in Runs, GrowStale(r) PROVE RecorderInv'
  BY <1>4 DEF GrowStale, local
<1>5. CASE Cancel
  BY <1>0, <1>5 DEF Cancel, local
<1>6. CASE UNCHANGED vars
  BY <1>6 DEF vars, board, local
<1> QED
  BY <1>1, <1>2, <1>3, <1>4, <1>5, <1>6 DEF Next

\* A run's log is written by at most one recorder, whatever is refused, requeued,
\* swept or cancelled: the recorded === 0 test of executor.ts:110 suffices.
THEOREM QueueOneRecorder == Spec => []OneRecorder
<1>1. Init => TypeInv /\ Exclusive /\ RecorderInv
  BY InitTypeInv, InitExclusive, InitRecorderInv
<1>2. TypeInv /\ Exclusive /\ RecorderInv /\ [Next]_vars
      => (TypeInv /\ Exclusive /\ RecorderInv)'
  BY NextTypeInv, NextExclusive, NextRecorderInv
<1>3. RecorderInv => OneRecorder
  BY DEF RecorderInv
<1> QED
  BY <1>1, <1>2, <1>3, PTL DEF Spec
-----------------------------------------------------------------------------
\* The run in a worker's hand has not succeeded or failed: only its holder says
\* so, and lets go.  It may be swept.
Unjudged == \A w \in Workers : job[w] # NoRun => run[job[w]] \notin {"SUCCEEDED", "FAILED"}

\* What is left to run is only ever less, and a run that succeeded stays so.
Shrinks == Left' \subseteq Left /\ With("SUCCEEDED") \subseteq With("SUCCEEDED")'

LEMMA RunsShrink ==
  ASSUME TypeInv, Exclusive, Unjudged, [Next]_vars
  PROVE  Unjudged' /\ Shrinks
<1>0. /\ run \in [Runs -> Status] /\ pc \in [Workers -> Steps]
      /\ job \in [Workers -> Runs \cup {NoRun}] /\ NoRun \notin Runs
      /\ \A w \in Workers : job[w] # NoRun <=> pc[w] \in Handling
      /\ \A v, w \in Workers : v # w /\ job[v] = job[w] => job[v] = NoRun
      /\ \A w \in Workers : job[w] # NoRun => run[job[w]] # "QUEUED"
      /\ \A w \in Workers : job[w] # NoRun => run[job[w]] \notin {"SUCCEEDED", "FAILED"}
  BY NoRunAssumption DEF TypeInv, TypeOK, InHand, Exclusive, Unjudged
<1>1. CASE run' = run /\ job' = job
  BY <1>1 DEF Unjudged, Shrinks, Left, With
<1>2. ASSUME NEW w \in Workers, SweepStale(w) PROVE Unjudged' /\ Shrinks
  BY <1>0, <1>2 DEF SweepStale, Sweepable, Unjudged, Shrinks, Left, With
<1>3. ASSUME NEW w \in Workers, ClaimNext(w) PROVE Unjudged' /\ Shrinks
  <2>1. PICK r \in Claimable : /\ run' = [run EXCEPT ![r] = "RUNNING"]
                               /\ job' = [job EXCEPT ![w] = r]
    BY <1>3 DEF ClaimNext
  <2>2. r \in Runs /\ run[r] = "QUEUED"
    BY <2>1 DEF Claimable, With
  <2> QED
    BY <1>0, <2>1, <2>2 DEF Unjudged, Shrinks, Left, With
<1>4. ASSUME NEW w \in Workers, Requeue(w) PROVE Unjudged' /\ Shrinks
  <2>1. job[w] \in Runs
    BY <1>0, <1>4 DEF Requeue, At, Handling
  <2> QED
    BY <1>0, <1>4, <2>1 DEF Requeue, Requeued, Unjudged, Shrinks, Left, With
<1>5. ASSUME NEW w \in Workers, Finish(w) PROVE Unjudged' /\ Shrinks
  <2>1. job[w] \in Runs /\ Outcome(heard[w]) \in Final
    BY <1>0, <1>5 DEF Finish, At, Handling, Outcome
  <2>2. run' = [run EXCEPT ![job[w]] = Outcome(heard[w])] /\ job' = [job EXCEPT ![w] = NoRun]
    BY <1>5 DEF Finish
  <2> QED
    BY <1>0, <2>1, <2>2 DEF Unjudged, Shrinks, Left, With
<1>6. ASSUME NEW w \in Workers, Die(w) PROVE Unjudged' /\ Shrinks
  BY <1>0, <1>6 DEF Die, board, Unjudged, Shrinks, Left, With
<1>7. CASE Cancel
  BY <1>0, <1>7 DEF Cancel, Dropped, local, Unjudged, Shrinks, Left, With
<1>8. ASSUME NEW w \in Workers,
             \/ NothingToClaim(w) \/ MarkSuiteRunning(w) \/ HearEvent(w)
             \/ \E o \in {"converged", "failed"} : HearOutcome(w, o)
             \/ StreamEnds(w) \/ \E b \in BOOLEAN : StreamThrows(w, b)
             \/ CountRuns(w) \/ ReadStatus(w) \/ WriteProgress(w)
             \/ OutOfTime(w) \/ StartDriver(w)
      PROVE  run' = run /\ job' = job
  BY <1>8 DEF NothingToClaim, Leave, MarkSuiteRunning, HearEvent, HearOutcome, StreamEnds,
              StreamThrows, CountRuns, ReadStatus, WriteProgress, OutOfTime, StartDriver, board
<1>9. ASSUME NEW r \in Runs, GrowStale(r) PROVE run' = run /\ job' = job
  BY <1>9 DEF GrowStale, local
<1>10. CASE UNCHANGED vars
  BY <1>1, <1>10 DEF vars, board, local
<1> QED
  BY <1>1, <1>2, <1>3, <1>4, <1>5, <1>6, <1>7, <1>8, <1>9, <1>10 DEF Next, Work

\* What a worker counted and read, however long ago, is not ahead of the runs.
BehindRuns(w) ==
  /\ Cardinality(Left) <= counted[w].left
  /\ counted[w].verdict = "SUCCEEDED" => With("SUCCEEDED") # {}
  /\ current[w] \in {"SUCCEEDED", "FAILED"} => Left = {}
  /\ current[w] = "SUCCEEDED" => With("SUCCEEDED") # {}

AheadInv ==
  /\ TypeInv /\ Exclusive /\ Unjudged
  /\ NeverAheadOfRuns /\ \A w \in Workers : BehindRuns(w)

LEMMA LeftIsFinite == IsFiniteSet(Left) /\ Cardinality(Left) \in 0..N /\ (Cardinality(Left) = 0 => Left = {})
<1>1. IsFiniteSet(1..N)
  BY FS_Interval, PlanAssumption
<1>2. IsFiniteSet(Left)
  BY <1>1, FS_Subset DEF Left, With, Runs
<1> QED
  BY <1>2, FS_EmptySet, LeftBound DEF Remaining

LEMMA InitAheadInv == Init => AheadInv
<1> SUFFICES ASSUME Init PROVE AheadInv
  OBVIOUS
<1>1. TypeInv /\ Exclusive /\ Unjudged
  BY InitTypeInv, InitExclusive DEF Init, Unjudged
<1>2. Cardinality(Left) <= N /\ N \in Nat /\ Cardinality(Left) \in Nat
  BY LeftIsFinite, PlanAssumption
<1>3. completed = 0 /\ suite = "QUEUED" /\ \A w \in Workers : counted[w] = Uncounted /\ current[w] = "QUEUED"
  BY DEF Init
<1> QED
  BY <1>1, <1>2, <1>3 DEF AheadInv, NeverAheadOfRuns, BehindRuns, Uncounted

LEMMA NextAheadInv == AheadInv /\ [Next]_vars => AheadInv'
<1> SUFFICES ASSUME AheadInv, [Next]_vars PROVE AheadInv'
  OBVIOUS
<1>1. TypeInv /\ Exclusive /\ Unjudged /\ TypeInv' /\ Exclusive' /\ Unjudged' /\ Shrinks
  BY NextTypeInv, NextExclusive, RunsShrink DEF AheadInv
<1>2. /\ IsFiniteSet(Left) /\ Cardinality(Left) \in 0..N
      /\ Cardinality(Left') \in 0..N /\ (Cardinality(Left') = 0 => Left' = {})
  <2>1. IsFiniteSet(Left') /\ Cardinality(Left') <= Cardinality(Left)
    BY <1>1, LeftIsFinite, FS_Subset DEF Shrinks
  <2>2. Cardinality(Left') \in Nat /\ (Cardinality(Left') = 0 => Left' = {})
    BY <2>1, FS_CardinalityType, FS_EmptySet
  <2> QED
    BY <2>1, <2>2, LeftIsFinite, PlanAssumption
<1>3. Cardinality(Left') <= Cardinality(Left) /\ (Left = {} => Left' = {})
  BY <1>1, <1>2, FS_Subset DEF Shrinks
<1>4. With("SUCCEEDED") # {} => With("SUCCEEDED")' # {}
  BY <1>1 DEF Shrinks
<1>5. /\ suite \in Status /\ completed \in 0..N /\ N \in Nat
      /\ counted \in [Workers -> Counts] /\ current \in [Workers -> Status]
      /\ counted' \in [Workers -> Counts] /\ current' \in [Workers -> Status]
  BY <1>1, PlanAssumption DEF TypeInv, TypeOK
<1>6. ASSUME NEW w \in Workers PROVE counted[w].left \in 0..N /\ counted'[w].left \in 0..N /\ BehindRuns(w)
  BY <1>5 DEF Counts, AheadInv
<1>7. ASSUME NEW w \in Workers, counted'[w] = counted[w], current'[w] = current[w] PROVE BehindRuns(w)'
  BY <1>2, <1>3, <1>4, <1>5, <1>6, <1>7 DEF BehindRuns
<1>8. ASSUME suite' = suite, completed' = completed PROVE NeverAheadOfRuns'
  BY <1>2, <1>3, <1>4, <1>5, <1>8 DEF AheadInv, NeverAheadOfRuns
<1>9. ASSUME NEW w \in Workers, counted'[w] = Uncounted, current'[w] = "QUEUED" PROVE BehindRuns(w)'
  BY <1>2, <1>5, <1>9 DEF BehindRuns, Uncounted
<1>10. ASSUME NEW w \in Workers, CountRuns(w) PROVE AheadInv'
  <2>1. /\ counted'[w].left = Cardinality(Left) /\ current'[w] = current[w]
        /\ counted'[w].verdict = "SUCCEEDED" => With("SUCCEEDED") # {}
    BY <1>5, <1>10 DEF CountRuns, Remaining
  <2>2. BehindRuns(w)'
    BY <1>2, <1>3, <1>4, <1>5, <1>6, <2>1 DEF BehindRuns
  <2>3. \A v \in Workers : v # w => counted'[v] = counted[v] /\ current'[v] = current[v]
    BY <1>5, <1>10 DEF CountRuns
  <2> QED
    BY <1>1, <1>7, <1>8, <1>10, <2>2, <2>3 DEF CountRuns, board, AheadInv
<1>11. ASSUME NEW w \in Workers, ReadStatus(w) PROVE AheadInv'
  <2>1. counted' = counted /\ current'[w] = suite
    BY <1>5, <1>11 DEF ReadStatus
  <2>2. BehindRuns(w)'
    BY <1>2, <1>3, <1>4, <1>5, <1>6, <2>1 DEF BehindRuns, AheadInv, NeverAheadOfRuns
  <2>3. \A v \in Workers : v # w => counted'[v] = counted[v] /\ current'[v] = current[v]
    BY <1>5, <1>11 DEF ReadStatus
  <2> QED
    BY <1>1, <1>7, <1>8, <1>11, <2>2, <2>3 DEF ReadStatus, board, AheadInv
<1>12. ASSUME NEW w \in Workers, WriteProgress(w) PROVE AheadInv'
  <2>1. suite' = Closing(w) /\ completed' = N - counted[w].left /\ run' = run
    BY <1>12 DEF WriteProgress
  <2>2. /\ counted[w].left = 0 => Left = {}
        /\ BehindRuns(w) /\ counted[w].left \in 0..N
    BY <1>2, <1>6, LeftIsFinite DEF BehindRuns
  <2>3. /\ suite' \in {"SUCCEEDED", "FAILED"} => Left = {}
        /\ suite' = "SUCCEEDED" => With("SUCCEEDED") # {}
    BY <2>1, <2>2 DEF BehindRuns, Closing
  <2>4. completed' + Cardinality(Left') <= N
    BY <1>2, <1>3, <1>5, <2>1, <2>2 DEF BehindRuns
  <2>5. NeverAheadOfRuns'
    BY <1>3, <1>4, <2>3, <2>4 DEF NeverAheadOfRuns
  <2>6. /\ counted'[w] = Uncounted /\ current'[w] = "QUEUED"
        /\ \A v \in Workers : v # w => counted'[v] = counted[v] /\ current'[v] = current[v]
    BY <1>5, <1>12 DEF WriteProgress
  <2> QED
    BY <1>1, <1>7, <1>9, <2>5, <2>6 DEF AheadInv
<1>13. ASSUME NEW w \in Workers, Die(w) PROVE AheadInv'
  <2>1. /\ counted'[w] = Uncounted /\ current'[w] = "QUEUED"
        /\ \A v \in Workers : v # w => counted'[v] = counted[v] /\ current'[v] = current[v]
    BY <1>5, <1>13 DEF Die
  <2> QED
    BY <1>1, <1>7, <1>8, <1>9, <1>13, <2>1 DEF Die, board, AheadInv
<1>14. ASSUME NEW w \in Workers, MarkSuiteRunning(w) PROVE AheadInv'
  <2>1. NeverAheadOfRuns'
    BY <1>2, <1>3, <1>4, <1>5, <1>14 DEF MarkSuiteRunning, AheadInv, NeverAheadOfRuns
  <2> QED
    BY <1>1, <1>7, <1>14, <2>1 DEF MarkSuiteRunning, AheadInv
<1>15. CASE Cancel
  <2>1. NeverAheadOfRuns'
    BY <1>2, <1>3, <1>5, <1>15 DEF Cancel, AheadInv, NeverAheadOfRuns
  <2> QED
    BY <1>1, <1>7, <1>15, <2>1 DEF Cancel, local, AheadInv
<1>16. ASSUME UNCHANGED <<suite, completed, counted, current>> PROVE AheadInv'
  BY <1>1, <1>7, <1>8, <1>16 DEF AheadInv
<1>17. ASSUME NEW w \in Workers,
              \/ SweepStale(w) \/ ClaimNext(w) \/ NothingToClaim(w) \/ HearEvent(w)
              \/ \E o \in {"converged", "failed"} : HearOutcome(w, o)
              \/ StreamEnds(w) \/ \E b \in BOOLEAN : StreamThrows(w, b)
              \/ Requeue(w) \/ Finish(w) \/ OutOfTime(w) \/ StartDriver(w)
       PROVE  UNCHANGED <<suite, completed, counted, current>>
  BY <1>17 DEF SweepStale, ClaimNext, NothingToClaim, Leave, HearEvent, HearOutcome, StreamEnds,
               StreamThrows, Requeue, Finish, OutOfTime, StartDriver, board
<1>18. ASSUME NEW r \in Runs, GrowStale(r) PROVE UNCHANGED <<suite, completed, counted, current>>
  BY <1>18 DEF GrowStale, local
<1>19. CASE UNCHANGED vars
  BY <1>16, <1>19 DEF vars, board, local
<1> QED
  BY <1>10, <1>11, <1>12, <1>13, <1>14, <1>15, <1>16, <1>17, <1>18, <1>19 DEF Next, Work

\* However stale the counts a refresh decides on, and in whatever order the
\* refreshes of concurrent workers write, the row of the suite is never ahead
\* of the rows of its runs (store.ts:80-111), even if runs outlast the window.
THEOREM QueueNeverAhead == Spec => []NeverAheadOfRuns
<1>1. AheadInv => NeverAheadOfRuns
  BY DEF AheadInv
<1> QED
  BY <1>1, InitAheadInv, NextAheadInv, PTL DEF Spec
-----------------------------------------------------------------------------
(* From here on: no run outlasts the stale window with its worker alive. *)

\* The run in a worker's hand is RUNNING and too young to be swept.
Held == \A w \in Workers : job[w] # NoRun => run[job[w]] = "RUNNING" /\ job[w] \notin stale

HeldInv == TypeInv /\ Exclusive /\ Held

LEMMA InitHeldInv == Init => HeldInv
  BY InitTypeInv, InitExclusive DEF Init, HeldInv, Held

LEMMA NextHeldInv ==
  ASSUME ~SlowRuns
  PROVE  HeldInv /\ [Next]_vars => HeldInv'
<1> SUFFICES ASSUME HeldInv, [Next]_vars PROVE Held'
  BY NextTypeInv, NextExclusive DEF HeldInv
<1>0. /\ run \in [Runs -> Status] /\ pc \in [Workers -> Steps]
      /\ job \in [Workers -> Runs \cup {NoRun}] /\ NoRun \notin Runs
      /\ \A w \in Workers : job[w] # NoRun <=> pc[w] \in Handling
      /\ \A v, w \in Workers : v # w /\ job[v] = job[w] => job[v] = NoRun
      /\ \A w \in Workers : job[w] # NoRun => run[job[w]] # "QUEUED"
      /\ \A w \in Workers : job[w] # NoRun => run[job[w]] = "RUNNING" /\ job[w] \notin stale
  BY NoRunAssumption DEF HeldInv, TypeInv, TypeOK, InHand, Exclusive, Held
<1> USE DEF Held, At
<1>1. ASSUME NEW w \in Workers, Work(w) PROVE Held'
  <2>1. CASE SweepStale(w)
    BY <1>0, <2>1 DEF SweepStale, Sweepable, With
  <2>2. CASE ClaimNext(w)
    BY <1>0, <2>2 DEF ClaimNext, Claimable, With
  <2>3. CASE NothingToClaim(w) \/ MarkSuiteRunning(w) \/ HearEvent(w)
             \/ StreamEnds(w) \/ CountRuns(w) \/ ReadStatus(w) \/ WriteProgress(w)
    BY <1>0, <2>3 DEF NothingToClaim, Leave, MarkSuiteRunning, HearEvent, StreamEnds,
                CountRuns, ReadStatus, WriteProgress, board
  <2>4. ASSUME NEW o \in {"converged", "failed"}, HearOutcome(w, o) PROVE Held'
    BY <1>0, <2>4 DEF HearOutcome, board
  <2>5. ASSUME NEW b \in BOOLEAN, StreamThrows(w, b) PROVE Held'
    BY <1>0, <2>5 DEF StreamThrows, board
  <2>6. CASE Requeue(w)
    <3>1. job[w] \in Runs
      BY <1>0, <2>6 DEF Requeue, Handling
    <3> QED
      BY <1>0, <2>6, <3>1 DEF Requeue
  <2>7. CASE Finish(w)
    <3>1. job[w] \in Runs
      BY <1>0, <2>7 DEF Finish, Handling
    <3> QED
      BY <1>0, <2>7, <3>1 DEF Finish
  <2> QED
    BY <1>1, <2>1, <2>2, <2>3, <2>4, <2>5, <2>6, <2>7 DEF Work
<1>2. ASSUME NEW w \in Workers, OutOfTime(w) \/ StartDriver(w) PROVE Held'
  BY <1>0, <1>2 DEF OutOfTime, Leave, StartDriver, board
<1>3. ASSUME NEW w \in Workers, Die(w) PROVE Held'
  BY <1>0, <1>3 DEF Die, board
<1>4. ASSUME NEW r \in Runs, GrowStale(r) PROVE Held'
  BY <1>0, <1>4 DEF GrowStale, local
<1>5. CASE Cancel
  BY <1>0, <1>5 DEF Cancel, Dropped, With, local
<1>6. CASE UNCHANGED vars
  BY <1>0, <1>6 DEF vars, board, local
<1> QED
  BY <1>1, <1>2, <1>3, <1>4, <1>5, <1>6 DEF Next

LEMMA QueueHeld ==
  ASSUME ~SlowRuns
  PROVE  Spec => []HeldInv
  BY InitHeldInv, NextHeldInv, PTL DEF Spec

\* Whatever the plan, the viewers and the crashes, each run is worked on by one
\* worker and recorded by one recorder.
THEOREM QueueWorkedOnce == Spec => []WorkedOnce
<1>1. Exclusive /\ OneRecorder => WorkedOnce
  BY DEF WorkedOnce
<1> QED
  BY <1>1, QueueExclusive, QueueOneRecorder, PTL

\* A run that ended keeps its final status although finalizeRun overwrites
\* whatever it finds: only a holder finishes, and what is held is RUNNING.
THEOREM QueueFinalIsFinal ==
  ASSUME ~SlowRuns
  PROVE  Spec => FinalIsFinal
<1>1. ASSUME HeldInv, [Next]_vars, NEW r \in Runs, run[r] \in Final PROVE run'[r] = run[r]
  <2>0. /\ run \in [Runs -> Status] /\ job \in [Workers -> Runs \cup {NoRun}]
        /\ \A w \in Workers : pc[w] \in Handling => job[w] \in Runs /\ run[job[w]] = "RUNNING"
    BY <1>1, NoRunAssumption DEF HeldInv, TypeInv, TypeOK, InHand, Held
  <2>1. ASSUME NEW w \in Workers, SweepStale(w) PROVE run'[r] = run[r]
    BY <1>1, <2>1 DEF SweepStale, Sweepable, With
  <2>2. ASSUME NEW w \in Workers, ClaimNext(w) PROVE run'[r] = run[r]
    BY <1>1, <2>0, <2>2 DEF ClaimNext, Claimable, With
  <2>3. ASSUME NEW w \in Workers, Requeue(w) \/ Finish(w) PROVE run'[r] = run[r]
    BY <1>1, <2>0, <2>3 DEF Requeue, Finish, At, Handling
  <2>4. CASE Cancel
    BY <1>1, <2>4 DEF Cancel, Dropped, With
  <2>5. ASSUME NEW w \in Workers,
               \/ NothingToClaim(w) \/ MarkSuiteRunning(w) \/ HearEvent(w)
               \/ \E o \in {"converged", "failed"} : HearOutcome(w, o)
               \/ StreamEnds(w) \/ \E b \in BOOLEAN : StreamThrows(w, b)
               \/ CountRuns(w) \/ ReadStatus(w) \/ WriteProgress(w)
               \/ OutOfTime(w) \/ StartDriver(w) \/ Die(w)
        PROVE  run' = run
    BY <2>5 DEF NothingToClaim, Leave, MarkSuiteRunning, HearEvent, HearOutcome, StreamEnds,
                StreamThrows, CountRuns, ReadStatus, WriteProgress, OutOfTime, StartDriver,
                Die, board
  <2>6. ASSUME NEW q \in Runs, GrowStale(q) PROVE run' = run
    BY <2>6 DEF GrowStale
  <2>7. CASE UNCHANGED vars
    BY <2>7 DEF vars, board
  <2> QED
    BY <1>1, <2>1, <2>2, <2>3, <2>4, <2>5, <2>6, <2>7 DEF Next, Work
<1>2. HeldInv /\ [Next]_vars => [\A r \in Runs : run[r] \in Final => run'[r] = run[r]]_vars
  BY <1>1
<1> QED
  BY <1>2, QueueHeld, PTL DEF Spec, FinalIsFinal
-----------------------------------------------------------------------------
(* The queue implements the job board. *)

boardPhase == [r \in Runs |-> PhaseOf(run[r])]
boardHolder == [r \in Runs |-> {w \in Workers : job[w] = r}]

\* A worker with a run in hand is the only one holding it; a waiting run is held
\* by nobody, and so is a stale one.
LEMMA Holders ==
  ASSUME HeldInv
  PROVE  /\ \A w \in Workers : job[w] # NoRun => job[w] \in Runs /\ boardHolder[job[w]] = {w}
         /\ \A r \in Runs : run[r] # "RUNNING" \/ r \in stale => boardHolder[r] = {}
  BY NoRunAssumption DEF HeldInv, TypeInv, TypeOK, Held, Exclusive, boardHolder

LEMMA BoardStep ==
  ASSUME HeldInv, [Next]_vars
  PROVE  [Board!Next]_(Board!vars)
<1>0. /\ run \in [Runs -> Status] /\ job \in [Workers -> Runs \cup {NoRun}] /\ NoRun \notin Runs
      /\ \A w \in Workers : pc[w] \in Handling => job[w] # NoRun
  BY NoRunAssumption DEF HeldInv, TypeInv, TypeOK, InHand
<1>1. ASSUME NEW w \in Workers, SweepStale(w) PROVE Board!WriteOff(Sweepable)
  <2>1. \A r \in Sweepable : boardHolder[r] = {} /\ boardPhase[r] # "done"
    BY Holders DEF Sweepable, With, boardPhase, PhaseOf
  <2>2. boardPhase' = [r \in Runs |-> IF r \in Sweepable THEN "done" ELSE boardPhase[r]]
    BY <1>1 DEF SweepStale, boardPhase, PhaseOf
  <2>3. boardHolder' = boardHolder
    BY <1>1 DEF SweepStale, boardHolder
  <2> QED
    BY <2>1, <2>2, <2>3 DEF Board!WriteOff, boardPhase, boardHolder
<1>2. ASSUME NEW w \in Workers, ClaimNext(w) PROVE \E r \in Runs : Board!Take(w, r)
  <2>1. PICK r \in Claimable : /\ run' = [run EXCEPT ![r] = "RUNNING"]
                               /\ job' = [job EXCEPT ![w] = r]
    BY <1>2 DEF ClaimNext
  <2>2. r \in Runs /\ run[r] = "QUEUED" /\ boardHolder[r] = {} /\ job[w] = NoRun
    BY <1>2, <2>1, Holders DEF Claimable, With, ClaimNext, At, HeldInv, TypeInv, InHand, Handling
  <2>3. boardPhase[r] = "waiting" /\ boardPhase' = [boardPhase EXCEPT ![r] = "taken"]
    BY <1>0, <2>1, <2>2 DEF boardPhase, PhaseOf
  <2>4. boardHolder' = [boardHolder EXCEPT ![r] = {w}]
    <3>1. \A v \in Workers : job'[v] = IF v = w THEN r ELSE job[v]
      BY <1>0, <2>1
    <3>2. \A v \in Workers : job[v] # r
      BY <2>2 DEF boardHolder
    <3>3. ASSUME NEW q \in Runs
          PROVE  {v \in Workers : job'[v] = q} = IF q = r THEN {w} ELSE {v \in Workers : job[v] = q}
      BY <1>0, <2>2, <3>1, <3>2
    <3> QED
      BY <3>3 DEF boardHolder
  <2> QED
    BY <2>2, <2>3, <2>4 DEF Board!Take, boardPhase, boardHolder
<1>3. ASSUME NEW w \in Workers, job[w] # NoRun, job' = [job EXCEPT ![w] = NoRun],
             \/ run' = run
             \/ run' = [run EXCEPT ![job[w]] = "QUEUED"] /\ run[job[w]] = "RUNNING"
             \/ \E s \in Final : run' = [run EXCEPT ![job[w]] = s]
      PROVE  \E r \in Runs : Board!LetGo(w, r)
  <2>1. job[w] \in Runs /\ boardHolder[job[w]] = {w}
    BY <1>3, Holders
  <2>2. boardHolder' = [boardHolder EXCEPT ![job[w]] = {}]
    <3>1. \A v \in Workers : job[v] = job[w] => v = w
      BY <2>1 DEF boardHolder
    <3>2. \A v \in Workers : job'[v] = IF v = w THEN NoRun ELSE job[v]
      BY <1>0, <1>3
    <3>3. ASSUME NEW r \in Runs
          PROVE  {v \in Workers : job'[v] = r}
                   = IF r = job[w] THEN {} ELSE {v \in Workers : job[v] = r}
      BY <1>0, <3>1, <3>2, <3>3
    <3> QED
      BY <3>3 DEF boardHolder
  <2>3. \/ boardPhase' = boardPhase
        \/ boardPhase[job[w]] = "taken" /\ boardPhase' = [boardPhase EXCEPT ![job[w]] = "waiting"]
        \/ boardPhase' = [boardPhase EXCEPT ![job[w]] = "done"]
    <3>1. CASE run' = run
      BY <3>1 DEF boardPhase
    <3>2. CASE run' = [run EXCEPT ![job[w]] = "QUEUED"] /\ run[job[w]] = "RUNNING"
      BY <1>0, <2>1, <3>2 DEF boardPhase, PhaseOf
    <3>3. CASE \E s \in Final : run' = [run EXCEPT ![job[w]] = s]
      <4>1. PICK s \in Final : run' = [run EXCEPT ![job[w]] = s]
        BY <3>3
      <4>2. PhaseOf(s) = "done"
        BY DEF PhaseOf, Final
      <4> QED
        BY <1>0, <2>1, <4>1, <4>2 DEF boardPhase
    <3> QED
      BY <1>3, <3>1, <3>2, <3>3
  <2> QED
    BY <2>1, <2>2, <2>3 DEF Board!LetGo, boardPhase, boardHolder
<1>4. ASSUME NEW w \in Workers, Requeue(w) PROVE \E r \in Runs : Board!LetGo(w, r)
  <2>1. job[w] # NoRun
    BY <1>0, <1>4 DEF Requeue, At, Handling
  <2>2. run[job[w]] = "RUNNING"
    BY <2>1 DEF HeldInv, Held
  <2>3. job' = [job EXCEPT ![w] = NoRun] /\ run' = [run EXCEPT ![job[w]] = "QUEUED"]
    BY <1>4, <2>2 DEF Requeue, Requeued
  <2> QED
    BY <1>3, <2>1, <2>2, <2>3
<1>5. ASSUME NEW w \in Workers, Finish(w) PROVE \E r \in Runs : Board!LetGo(w, r)
  <2>1. job[w] # NoRun /\ Outcome(heard[w]) \in Final
    BY <1>0, <1>5 DEF Finish, At, Handling, Outcome
  <2>2. job' = [job EXCEPT ![w] = NoRun] /\ run' = [run EXCEPT ![job[w]] = Outcome(heard[w])]
    BY <1>5 DEF Finish
  <2> QED
    BY <1>3, <2>1, <2>2
<1>6. ASSUME NEW w \in Workers, Die(w), job[w] # NoRun PROVE \E r \in Runs : Board!LetGo(w, r)
  <2>1. job' = [job EXCEPT ![w] = NoRun] /\ run' = run
    BY <1>6 DEF Die, board
  <2> QED
    BY <1>3, <1>6, <2>1
<1>7. ASSUME NEW w \in Workers, Die(w), job[w] = NoRun PROVE UNCHANGED <<run, job>>
  BY <1>0, <1>7 DEF Die, board
<1>8. CASE Cancel
  <2>1. \A r \in Dropped : boardHolder[r] = {} /\ boardPhase[r] # "done"
    BY Holders DEF Dropped, With, boardPhase, PhaseOf
  <2>2. boardPhase' = [r \in Runs |-> IF r \in Dropped THEN "done" ELSE boardPhase[r]]
    BY <1>8 DEF Cancel, boardPhase, PhaseOf
  <2>3. boardHolder' = boardHolder
    BY <1>8 DEF Cancel, local, boardHolder
  <2>4. Board!WriteOff(Dropped) /\ Dropped \subseteq Runs
    BY <2>1, <2>2, <2>3 DEF Board!WriteOff, boardPhase, boardHolder, Dropped, With
  <2> QED
    BY <2>4 DEF Board!Next
<1>9. ASSUME NEW w \in Workers,
             \/ NothingToClaim(w) \/ MarkSuiteRunning(w) \/ HearEvent(w)
             \/ \E o \in {"converged", "failed"} : HearOutcome(w, o)
             \/ StreamEnds(w) \/ \E b \in BOOLEAN : StreamThrows(w, b)
             \/ CountRuns(w) \/ ReadStatus(w) \/ WriteProgress(w)
             \/ OutOfTime(w) \/ StartDriver(w)
      PROVE  UNCHANGED <<run, job>>
  BY <1>9 DEF NothingToClaim, Leave, MarkSuiteRunning, HearEvent, HearOutcome, StreamEnds,
              StreamThrows, CountRuns, ReadStatus, WriteProgress, OutOfTime, StartDriver, board
<1>10. ASSUME NEW q \in Runs, GrowStale(q) PROVE UNCHANGED <<run, job>>
  BY <1>10 DEF GrowStale, local
<1>11. ASSUME UNCHANGED vars PROVE UNCHANGED <<run, job>>
  BY <1>11 DEF vars, board, local
<1>12. ASSUME UNCHANGED <<run, job>> PROVE UNCHANGED Board!vars
  BY <1>12 DEF Board!vars
<1>13. Sweepable \subseteq Runs
  BY DEF Sweepable, With
<1> QED
  BY <1>1, <1>2, <1>4, <1>5, <1>6, <1>7, <1>8, <1>9, <1>10, <1>11, <1>12, <1>13
  DEF Next, Work, Board!Next

\* However workers, viewers, crashes and cancellations interleave, the queue
\* hands each run to at most one worker at a time, takes back only what was
\* taken, and never reopens a run that is over.
THEOREM QueueImplementsBoard ==
  ASSUME ~SlowRuns
  PROVE  Spec => BoardSpec
<1>1. Init => Board!Init
  BY NoRunAssumption DEF Init, Board!Init, PhaseOf
<1>2. HeldInv /\ [Next]_vars => [Board!Next]_(Board!vars)
  BY BoardStep
<1> QED
  BY <1>1, <1>2, QueueHeld, PTL DEF Spec, BoardSpec, Board!Spec
=============================================================================
