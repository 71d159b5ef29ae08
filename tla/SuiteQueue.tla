----------------------------- MODULE SuiteQueue -----------------------------
(***************************************************************************)
(* The queue of one suite run: web/lib/suites (store, executor, worker),   *)
(* cancelSuiteRun of web/lib/actions/suites.ts and the part of             *)
(* web/app/api/suite-runs/[id]/stream/route.ts that starts workers.        *)
(*                                                                         *)
(* Every await is a boundary between two actions, so the database round    *)
(* trips of concurrent workers interleave.  A single SQL statement, or one *)
(* $transaction, is one action.                                            *)
(***************************************************************************)
EXTENDS Naturals, FiniteSets

CONSTANTS
  N,            \* runs planned for the suite; a run is its position in the plan
  Background,   \* the worker startSuiteRun hands to after()
  Drivers,      \* workers a progress stream may start for its viewer
  NoRun,        \* "no run in hand"
  BusyRetries,  \* BUSY_BACKOFF_MS.length
  MaxCrashes,   \* bound on workers that die (process killed, or a store call threw)
  MayCancel,    \* whether somebody may press Stop
  SlowRuns      \* whether a run may outlast STALE_AFTER_MS with its worker alive

Runs == 1..N
Workers == {Background} \cup Drivers

ASSUME PlanAssumption == N \in Nat \ {0}
ASSUME WorkerAssumption == Background \notin Drivers
ASSUME NoRunAssumption == NoRun \notin Runs
ASSUME BoundAssumption == BusyRetries \in Nat /\ MaxCrashes \in Nat
ASSUME FlagAssumption == MayCancel \in BOOLEAN /\ SlowRuns \in BOOLEAN

VARIABLES
  run,        \* run[r]: the status column of Run r
  stale,      \* RUNNING runs whose startedAt is older than STALE_AFTER_MS
  suite,      \* SuiteRun.status
  completed,  \* SuiteRun.completed
  pc,         \* pc[w]: where worker w is in advanceSuiteRun
  job,        \* job[w]: the run w claimed, or NoRun
  busy,       \* busy[w]: busyStreak
  heard,      \* heard[w]: what w's recorder has been told of its run
  back,       \* back[w]: where w goes after refresh: "loop" or "off"
  counted,    \* counted[w]: what refresh's groupBy returned to w
  current,    \* current[w]: the suite status refresh read after counting
  crashes,    \* workers that died so far
  cancelled,  \* history: cancelSuiteRun has committed
  recorders   \* history: recorders[r], how many recorders wrote events of r (capped at 2)

board == <<run, stale, suite, completed>>
local == <<pc, job, busy, heard, back, counted, current>>
history == <<crashes, cancelled, recorders>>
vars == <<board, local, history>>

Final == {"SUCCEEDED", "FAILED", "ABANDONED"}
Status == {"QUEUED", "RUNNING"} \cup Final
Steps == {"off", "sweep", "loop", "mark", "stream", "requeue", "finish",
          "count", "status", "write"}
Hearing == {"nothing", "events", "converged", "failed"}
Counts == [left : 0..N, verdict : Final]

With(s) == {r \in Runs : run[r] = s}
Left == With("QUEUED") \cup With("RUNNING")

TypeOK ==
  /\ run \in [Runs -> Status]
  /\ stale \in SUBSET Runs
  /\ suite \in Status
  /\ completed \in 0..N
  /\ pc \in [Workers -> Steps]
  /\ job \in [Workers -> Runs \cup {NoRun}]
  /\ busy \in [Workers -> 0..BusyRetries]
  /\ heard \in [Workers -> Hearing]
  /\ back \in [Workers -> {"loop", "off"}]
  /\ counted \in [Workers -> Counts]
  /\ current \in [Workers -> Status]
  /\ crashes \in 0..MaxCrashes
  /\ cancelled \in BOOLEAN
  /\ recorders \in [Runs -> 0..2]
-----------------------------------------------------------------------------
\* A local out of scope is kept at its initial value.
Uncounted == [left |-> N, verdict |-> "ABANDONED"]

\* startSuiteRun: every planned run is a QUEUED row, and after() starts a worker.
Init ==
  /\ run = [r \in Runs |-> "QUEUED"]
  /\ stale = {}
  /\ suite = "QUEUED"
  /\ completed = 0
  /\ pc = [w \in Workers |-> IF w = Background THEN "sweep" ELSE "off"]
  /\ job = [w \in Workers |-> NoRun]
  /\ busy = [w \in Workers |-> 0]
  /\ heard = [w \in Workers |-> "nothing"]
  /\ back = [w \in Workers |-> "loop"]
  /\ counted = [w \in Workers |-> Uncounted]
  /\ current = [w \in Workers |-> "QUEUED"]
  /\ crashes = 0
  /\ cancelled = FALSE
  /\ recorders = [r \in Runs |-> 0]

At(w, step) == pc[w] = step
Goto(w, step) == pc' = [pc EXCEPT ![w] = step]

\* The stream's test before it starts a worker of its own.  Its snapshot
\* counts the rows in one statement; a stream that finds the suite final with
\* nothing running sends "done" and closes instead.
Stalled_FreshOnly == With("QUEUED") # {} /\ With("RUNNING") = {} /\ suite = "QUEUED"
Stalled ==
  /\ With("QUEUED") # {}
  /\ With("RUNNING") = {}
  /\ suite \notin Final

\* A viewer with suite:run watches a queue that has stopped moving.
StartDriver(w) ==
  /\ w \in Drivers
  /\ At(w, "off")
  /\ Stalled
  /\ Goto(w, "sweep")
  /\ UNCHANGED <<board, job, busy, heard, back, counted, current, history>>

\* What sweepStale may close: RUNNING rows past the stale window.
Sweepable_AnyAge == With("RUNNING")
Sweepable == With("RUNNING") \cap stale

SweepStale(w) ==
  /\ At(w, "sweep")
  /\ run' = [r \in Runs |-> IF r \in Sweepable THEN "ABANDONED" ELSE run[r]]
  /\ stale' = stale \ Sweepable
  /\ Goto(w, "loop")
  /\ UNCHANGED <<suite, completed, job, busy, heard, back, counted, current, history>>

\* claimNext's UPDATE: the first queued run of the plan, in one statement.
Claimable_NotFinal == Left
Claimable == With("QUEUED")
First(r) == \A q \in Claimable : r <= q

ClaimNext(w) ==
  /\ At(w, "loop")
  /\ \E r \in Claimable :
       /\ First(r)
       /\ run' = [run EXCEPT ![r] = "RUNNING"]
       /\ stale' = stale \ {r}
       /\ job' = [job EXCEPT ![w] = r]
  /\ Goto(w, "mark")
  /\ UNCHANGED <<suite, completed, busy, heard, back, counted, current, history>>

\* claimNext's last statement moves the suite run itself out of QUEUED.
MarkSuiteRunning(w) ==
  /\ At(w, "mark")
  /\ suite' = IF suite = "QUEUED" THEN "RUNNING" ELSE suite
  /\ Goto(w, "stream")
  /\ UNCHANGED <<run, stale, completed, job, busy, heard, back, counted, current, history>>

\* The queue is empty, or the budget is spent: one last refresh, then return.
Leave(w) ==
  /\ Goto(w, "count")
  /\ back' = [back EXCEPT ![w] = "off"]
  /\ busy' = [busy EXCEPT ![w] = 0]
  /\ UNCHANGED <<board, job, heard, counted, current, history>>

NothingToClaim(w) == At(w, "loop") /\ Claimable = {} /\ Leave(w)
OutOfTime(w) == At(w, "loop") /\ Leave(w)

\* recorder.record: the event is appended under the run the worker claimed.
Record(w, what) ==
  /\ heard' = [heard EXCEPT ![w] = what]
  /\ recorders' = IF heard[w] = "nothing" /\ recorders[job[w]] < 2
                  THEN [recorders EXCEPT ![job[w]] = @ + 1]
                  ELSE recorders

\* An event that ends nothing; the ones after the first change no state here.
HearEvent(w) ==
  /\ At(w, "stream")
  /\ heard[w] = "nothing"
  /\ Record(w, "events")
  /\ UNCHANGED <<board, pc, job, busy, back, counted, current, crashes, cancelled>>

\* The engine's own run_converged or run_failed.
HearOutcome(w, outcome) ==
  /\ At(w, "stream")
  /\ heard[w] = "events"
  /\ Record(w, outcome)
  /\ UNCHANGED <<board, pc, job, busy, back, counted, current, crashes, cancelled>>

\* The stream closed, with or without a terminal event.
StreamEnds(w) ==
  /\ At(w, "stream")
  /\ Goto(w, "finish")
  /\ UNCHANGED <<board, job, busy, heard, back, counted, current, history>>

\* The catch block's test: refused before anything was recorded, by a busy
\* engine, with waits left.
MayRetry(w) == heard[w] = "nothing" /\ busy[w] < BusyRetries

\* The call threw.  A busy engine says so instead of opening the stream.  Nobody
\* passes workOnSuiteRun a signal, so the branch for an aborted one is never
\* taken: what is not requeued is recorded as a failure.
StreamThrows(w, busyEngine) ==
  /\ At(w, "stream")
  /\ busyEngine => heard[w] = "nothing"
  /\ IF busyEngine /\ MayRetry(w)
     THEN Goto(w, "requeue") /\ UNCHANGED <<heard, recorders>>
     ELSE Goto(w, "finish") /\ Record(w, "failed")
  /\ UNCHANGED <<board, job, busy, back, counted, current, crashes, cancelled>>

\* requeue's WHERE: only a run that is still RUNNING goes back.
Requeued(r) == IF run[r] = "RUNNING" THEN "QUEUED" ELSE run[r]

NextStreak_Stuck(b) == b
NextStreak(b) == b + 1

\* Back in the queue, then a sleep (time only), then the top of the loop.
Requeue(w) ==
  /\ At(w, "requeue")
  /\ run' = [run EXCEPT ![job[w]] = Requeued(job[w])]
  /\ job' = [job EXCEPT ![w] = NoRun]
  /\ busy' = [busy EXCEPT ![w] = NextStreak(@)]
  /\ heard' = [heard EXCEPT ![w] = "nothing"]
  /\ stale' = stale \ {job[w]}
  /\ Goto(w, "loop")
  /\ UNCHANGED <<suite, completed, back, counted, current, history>>

\* RunRecorder.finish: the status the trace folds to, written unconditionally.
Outcome(h) == CASE h = "converged" -> "SUCCEEDED"
                [] h = "failed"    -> "FAILED"
                [] OTHER           -> "ABANDONED"

Finish(w) ==
  /\ At(w, "finish")
  /\ run' = [run EXCEPT ![job[w]] = Outcome(heard[w])]
  /\ job' = [job EXCEPT ![w] = NoRun]
  /\ busy' = [busy EXCEPT ![w] = 0]
  /\ heard' = [heard EXCEPT ![w] = "nothing"]
  /\ back' = [back EXCEPT ![w] = "loop"]
  /\ stale' = stale \ {job[w]}
  /\ Goto(w, "count")
  /\ UNCHANGED <<suite, completed, counted, current, history>>
-----------------------------------------------------------------------------
(* refresh: three round trips, counts first, suite status second, write last. *)

Remaining_QueuedOnly == With("QUEUED")
Remaining == Left

CountRuns(w) ==
  /\ At(w, "count")
  /\ counted' = [counted EXCEPT ![w] =
       [left |-> Cardinality(Remaining),
        verdict |-> IF With("SUCCEEDED") # {} THEN "SUCCEEDED"
                    ELSE IF With("FAILED") # {} THEN "FAILED" ELSE "ABANDONED"]]
  /\ Goto(w, "status")
  /\ UNCHANGED <<board, job, busy, heard, back, current, history>>

ReadStatus(w) ==
  /\ At(w, "status")
  /\ current' = [current EXCEPT ![w] = suite]
  /\ Goto(w, "write")
  /\ UNCHANGED <<board, job, busy, heard, back, counted, history>>

\* The status to write: the one read, unless nothing is left to run.
Closing_Early(w) ==
  IF current[w] \notin Final /\ counted[w].left <= 1
  THEN counted[w].verdict ELSE current[w]
Closing(w) ==
  IF current[w] \notin Final /\ counted[w].left = 0
  THEN counted[w].verdict ELSE current[w]

WriteProgress(w) ==
  /\ At(w, "write")
  /\ suite' = Closing(w)
  /\ completed' = N - counted[w].left
  /\ Goto(w, back[w])
  /\ back' = [back EXCEPT ![w] = "loop"]
  /\ counted' = [counted EXCEPT ![w] = Uncounted]
  /\ current' = [current EXCEPT ![w] = "QUEUED"]
  /\ UNCHANGED <<run, stale, job, busy, heard, history>>
-----------------------------------------------------------------------------
\* The process goes away, or a store call throws and workOnSuiteRun gives up:
\* the worker stops where it is and its run, if any, keeps its row.
Die(w) ==
  /\ ~At(w, "off")
  /\ crashes < MaxCrashes
  /\ crashes' = crashes + 1
  /\ Goto(w, "off")
  /\ job' = [job EXCEPT ![w] = NoRun]
  /\ busy' = [busy EXCEPT ![w] = 0]
  /\ heard' = [heard EXCEPT ![w] = "nothing"]
  /\ back' = [back EXCEPT ![w] = "loop"]
  /\ counted' = [counted EXCEPT ![w] = Uncounted]
  /\ current' = [current EXCEPT ![w] = "QUEUED"]
  /\ UNCHANGED <<board, cancelled, recorders>>

\* STALE_AFTER_MS (ten minutes) pass over a RUNNING row.  The engine ends every
\* stream within AUTOOPT_REQUEST_TIMEOUT_SECONDS (two minutes), so a row this
\* old has lost its worker unless SlowRuns says otherwise.
GrowStale(r) ==
  /\ run[r] = "RUNNING"
  /\ r \notin stale
  /\ SlowRuns \/ \A w \in Workers : job[w] # r
  /\ stale' = stale \cup {r}
  /\ UNCHANGED <<run, suite, completed, local, history>>

\* cancelSuiteRun: one transaction over the queued rows and the suite row.
Dropped_Running == Left
Dropped == With("QUEUED")

Cancel ==
  /\ MayCancel
  /\ run' = [r \in Runs |-> IF r \in Dropped THEN "ABANDONED" ELSE run[r]]
  /\ suite' = "ABANDONED"
  /\ cancelled' = TRUE
  /\ UNCHANGED <<stale, completed, local, crashes, recorders>>
-----------------------------------------------------------------------------
\* What a live worker does next, its deadline aside.
Work(w) ==
  \/ SweepStale(w) \/ ClaimNext(w) \/ NothingToClaim(w) \/ MarkSuiteRunning(w)
  \/ HearEvent(w) \/ (\E o \in {"converged", "failed"} : HearOutcome(w, o))
  \/ StreamEnds(w) \/ (\E b \in BOOLEAN : StreamThrows(w, b))
  \/ Requeue(w) \/ Finish(w)
  \/ CountRuns(w) \/ ReadStatus(w) \/ WriteProgress(w)

Next ==
  \/ \E w \in Workers : Work(w) \/ OutOfTime(w) \/ StartDriver(w) \/ Die(w)
  \/ \E r \in Runs : GrowStale(r)
  \/ Cancel

Spec == Init /\ [][Next]_vars

\* A live worker keeps working, being one async function; a watched queue that
\* stalls is noticed (the stream looks every second), and a stale row becomes
\* stale (time passes).  Strong fairness of ClaimNext: the budget of a worker
\* covers at least a claim, now and then.
Fairness ==
  /\ \A w \in Workers : WF_vars(Work(w)) /\ SF_vars(ClaimNext(w))
  /\ \A w \in Drivers : WF_vars(StartDriver(w))
  /\ \A r \in Runs : WF_vars(GrowStale(r))

FairSpec == Spec /\ Fairness
-----------------------------------------------------------------------------
(* Safety *)

\* Two workers never hold the same run, and the run a worker holds is not in the
\* queue: "two workers never take the same run" (executor.ts:4-6) against
\* claims, requeues, sweeps and cancels in any order.
Exclusive ==
  /\ \A v, w \in Workers : v # w /\ job[v] = job[w] => job[v] = NoRun
  /\ \A w \in Workers : job[w] # NoRun => run[job[w]] # "QUEUED"

\* The log of a run comes from one recorder, however often the run went back to
\* the queue: each recorder numbers from 0 and appendRunEvents drops duplicate
\* numbers, so a second one would lose its events (runs.ts:181, executor.ts:110).
OneRecorder == \A r \in Runs : recorders[r] <= 1

\* Each run is worked on by one worker and recorded by one recorder.
WorkedOnce == Exclusive /\ OneRecorder

\* A run that ended keeps the status it ended with: nothing sweeps, requeues,
\* cancels or finishes it again (finalizeRun has no WHERE on the status).
FinalIsFinal == [][\A r \in Runs : run[r] \in Final => run'[r] = run[r]]_vars

\* The row of the suite never runs ahead of the rows of its runs: closed with a
\* verdict, it has nothing left to run and, when it reads SUCCEEDED, a run that
\* succeeded; and the progress shown is not more than there is.  All this although
\* refresh decides on counts that are two round trips old when it writes, and
\* concurrent refreshes write in any order (store.ts:80-111).
NeverAheadOfRuns ==
  /\ suite \in {"SUCCEEDED", "FAILED"} => Left = {}
  /\ suite = "SUCCEEDED" => With("SUCCEEDED") # {}
  /\ completed + Cardinality(Left) <= N

\* The queue is a job board: every step of workers, viewers, crashes and cancels
\* is a step of JobBoard or changes nothing it can see.
PhaseOf(s) == CASE s = "QUEUED" -> "waiting" [] s = "RUNNING" -> "taken" [] OTHER -> "done"
Board == INSTANCE JobBoard WITH
  Jobs <- Runs, Hands <- Workers,
  phase <- [r \in Runs |-> PhaseOf(run[r])],
  holder <- [r \in Runs |-> {w \in Workers : job[w] = r}]
BoardSpec == Board!Spec

(* Liveness, under FairSpec *)

\* Every worker comes to an end, however long the engine stays busy: the waits
\* of BUSY_BACKOFF_MS are counted, and a run refused once more is failed.
WorkersStop == \A w \in Workers : ~At(w, "off") ~> At(w, "off")

\* A watched queue drains, whenever the budget of a worker ends, unless a worker
\* dies, somebody presses Stop, or the engine refuses runs for ever.
QueueDrainsInPeace ==
  \/ <>(crashes > 0 \/ cancelled)
  \/ []<>(\E w \in Workers : At(w, "requeue"))
  \/ <>[](With("QUEUED") = {})

\* In a peaceful world the queue drains and its workers come to an end.
LivesInPeace == WorkersStop /\ QueueDrainsInPeace

(* A claim of the code's comments that the code does not keep *)

\* "The rest of the queue is still there to be picked up by whoever comes next:
\* the background task started with the suite run, or the progress stream of
\* anyone watching it" (executor.ts:9-13).
QueueDrains == <>[](With("QUEUED") = {})
=============================================================================
