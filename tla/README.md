# AutoOpt, specified and verified

AutoOpt is an optimizer for a small imperative language. An engine lowers a
program to three-address code, finds opportunities, searches for a sequence of
rewrites that a verifier does not refute and that a cost model likes, and
reports every decision as an event. A compute service streams those events over
HTTP. A web application records them, runs whole suites of programs, lets a
workspace of people share the results, and offers a public API and a playground.

This directory holds TLA+ models of AutoOpt, TLC configurations that check them
on small instances, and TLAPS proofs of the properties that matter most.

To check one instance: `tlc -config MCSearches.cfg MCSearches`; to check a proof:
`tlapm SearchProofs.tla`. `SuiteQueue` and `Streaming` are checked
as they are: `tlc -config MCStreaming.cfg Streaming`. `PROJECT.json` lists the
runs, the mutants, the lines of the source each definition stands for, the
hazards and the findings.

## 1. The system

### Components

| Component | Where | State it keeps | Operations | Module |
|---|---|---|---|---|
| Front end | `engine/autoopt/lang` | none | scan, parse, resolve | `MiniLang` |
| Three-address code, interpreter | `ir/tac.py`, `interp` | memory, output, step count | run a listing | `Tac` |
| Lowering, flow graph | `ir/lower.py`, `ir/cfg.py` | code, counters | lower, cut into blocks, find loops | `Lower`, `Dataflow` |
| Dataflow | `analysis` | worklist, sets of facts | five analyses | `Dataflow` |
| Rules, transforms | `rules`, `transforms` | none | facts, opportunities, rewriting | `Rules` |
| Cost model | `cost/model.py` | a baseline | measure, weigh | `Engine` |
| Verification | `verify` | vectors, path states, budgets | run both, prove, combine; plant faults | `Verify` |
| Orchestrator | `orchestrator/agent.py` | listing, budget, events | search, replay, prove, report | `Engine` |
| Language model | `llm` | retries, answer cache, what is ruled out | ask, check an answer, tell it why not | `LlmPass`, `Engine`, `Search` |
| Search methods | `search` | current program, path, best, cache and budget | seven methods over one environment | `SearchEnv`, `Search`, `AStar` |
| Experiment batch | `experiment.py` | lock file, result rows | run, resume | `Experiment` |
| Batch supervisor | `scripts/llm_pass.py` | workers, keys, shards, combined file | share out, wait, fold, start over | `LlmPass` |
| Compute service | `service/autoopt_service` | slots; per stream an outbox, a stop flag, causes | optimize, analyze, ready | `ComputeService` |
| Run recorder, decision log | `web/lib/actions/runs.ts`, `web/lib/trace.ts`, `web/app/api/runs` | rows `RunEvent`, `Transformation`, `Run`; events seen | record, fold, finish, abandon | `RunRecorder` |
| Suite queue, executor | `web/lib/suites` | rows `Run`, `SuiteRun`; per worker: run in hand, busy streak | claim, requeue, finish, refresh, sweep, cancel, watch | `SuiteQueue` |
| Suite run page | `suite/progress.tsx`, its stream route | what is shown, an open stream, renders on their way | look, send, receive, render | `Follow` |
| Members | `web/lib/actions/members.ts` | rows `Membership`, `AuditLog` | add, change role, remove | `Members` |
| Authorization | `web/lib/authorize.ts` | none | a table | `Access` |
| Projects, programs, suites, runs as rows | `web/lib/actions`, `web/lib/repositories` | those rows | create, start | `Records` |
| Pages of a workspace | `web/app/w`, `web/components` | none | who may open, what is listed, linked and offered | `Screens` |
| API keys, rate limit, quota | `web/lib/api`, `web/app/api/v1` | rows `ApiKey` (with its window), `Quota` | look up, count, charge, run, list, revoke | `ApiKeys` |
| Share links | `web/lib/shares.ts` and its actions | rows `ShareLink` | make, revoke, view | `Shares` |
| Sign-up, slugs | `web/lib/actions/auth.ts`, `slug.ts`, `password.ts` | rows `User`, `Workspace`, `Membership` | sign up, sign in, provision | `Accounts` |
| Results, analytics, comparison, figures | `web/lib`, `web/components/app` | none: folds over rows | aggregate, draw | `Pages`, `Charts` |
| Service client, live stream | `web/lib/service.ts`, `event-stream.ts` | a tail of bytes | cut into lines, hand on | `Pages`, `RunRecorder` |
| Playground | `web/app/try`, `web/lib/playground` | text, analysis, run, address | type, analyse, run, choose | `Playground` |
| Browser machines | palette, toasts, dialogs, recorded run | a few fields each | keys, clicks, ticks, answers | `Console` |

### How they interact

- A browser starts a run. The route opens an HTTP stream to the compute
  service, sends each line on to the browser, stores it as a `RunEvent`, and
  folds the log into `Transformation` rows and a final status.
- A suite run is a set of `Run` rows in one table, which is the queue. Workers
  claim rows by a locking statement; a worker is started in the background by
  the request that creates the suite, and by any progress stream that finds the
  queue stalled. Workers share nothing but the tables. The page of a suite run
  follows such a stream and is rendered again by the server meanwhile.
- In the compute service each request has a coroutine and a thread. They share
  a bounded outbox, a stop flag, a list of causes and a semaphore of slots.
- The engine is a single thread. A search asks its environment for verified
  successors; the orchestrator replays the walk it returns and emits events.
- The batch supervisor starts one experiment process per key; they share files
  and, with the playground, a cache of answers.
- Server actions and API routes are requests of several queries with no
  transaction around them.

### What is hard here

Round trips of concurrent workers interleave between any two awaits; a status
is read before an await and written after it; a process dies with a row in
hand; the engine refuses because it is busy, again and again; a reader leaves
between a send and an insert; a deadline passes between the last event and the
end of the stream; a render of a page races the stream the page follows; an
answer about a text arrives when the text has changed; a key is revoked between
look-up and count; two owners leave a workspace at once; a budget runs out
between two lookups while half of what the search needs is cached; a rewrite is
right on one path and wrong on another; division rounds differently in three
places that must agree. `PROJECT.json` lists these hazards one by one, at the
line where each bites.

### What makes each part correct

- Engine: the parser reads what was written; the code does what the text means;
  what an analysis deduces is true of every run; what the rules offer keeps the
  meaning; a verdict is true; the report adds up.
- Search: the answer was reached by verified steps only, is strictly cheaper
  than the program given or is that program, and every method returns.
- Batch: one owner per file, no cell twice, a finished batch complete, nothing
  lost over kills, one model per data set, and it ends.
- Service: slots add up and come back; events arrive in order; a stream that is
  ended by the service carries a verdict, and the verdict has a true cause.
- Recorder: the rows follow from the stored log; the final status is what the
  log says; what a reader is shown is that; every run leaves RUNNING.
- Queue: no run is given to two workers; a run that has recorded anything is
  never handed out again; a run that ended stays as it ended; a suite that is
  closed has nothing left to do; workers end, and a watched queue drains.
- Workspaces: there is always an owner; only owners make owners; the audit log
  says what happened; rows of two workspaces never mix; nobody is shown, linked
  to or offered what they may not have.
- API, links, accounts: a request is counted and charged once and only while its
  key is good; a closed link stays closed; whoever signs in has a workspace.
- Pages: every table and figure adds up to the same rows; a screen that several
  things change shows one moment.

## 2. The modules

| Module | What it is |
|---|---|
| `MiniLang`, `Lower`, `Tac` | from tokens to a listing, and what a listing does |
| `Dataflow`, `Rules` | the flow graph of a listing and what is known of it; what could be rewritten |
| `Verify` | the two channels and their verdict; the fault study that measures them |
| `Engine` | the cost model; one optimization of one text by greedy or a language model, and the study |
| `EngineProperties` | its properties, against definitions that share nothing with the code |
| `SearchEnv` | the environment every search shares: graph, cache, node budget |
| `Search`, `AStar` | the six methods that walk; the one that keeps a frontier |
| `VerifiedSearch` | what any method promises |
| `Experiment` | the processes that run the batch on one file of rows |
| `LlmPass` | asking a model; the supervisor, its workers, their files and the cache |
| `ComputeService` | the coroutines, threads, outboxes and slots of the service |
| `RunRecorder` | the engine's log on its way into the tables; the page that is read from it |
| `Streaming` | both ends of a streamed run, one followed at a time |
| `SuiteQueue`, `JobBoard` | the queue of one suite run; the board it implements |
| `Members` | the requests that manage people, one step per query |
| `Access`, `Times` | the authorization table; the clock dates are read against |
| `ApiKeys`, `Shares`, `Accounts` | the public API; links; signing up and in, and what is made of what was typed |
| `Records`, `Screens` | rows of several workspaces and the forms that make them; the pages over them |
| `Pages`, `Charts` | what is computed and drawn from rows and from the wire |
| `Playground` | the page where anyone tries the engine; its graph, listing, table and marks |
| `Follow`, `Console` | the page a suite run is followed on; the small machines of the browser |
| `AppTier` | the web parts that meet only through rows none of the others writes, one followed at a time |
| `MCSafety`, `MCSearches` | side by side: the optimizer and the requests about members; the searches and the batch that runs them |
| other `MC*` | instances for TLC |
| `*Proofs` | theorems and their proofs |

`SearchEnv` is extended by `Search` and `AStar`; both are shown to implement
`VerifiedSearch`. `SuiteQueue` is shown to implement `JobBoard`. `Engine` runs on
`Lower`, `Rules` and `Verify` as they are: nothing the search is told
in it is made up. `Streaming`, `AppTier`, `MCSafety` and `MCSearches` put parts side
by side that share no variable a step changes; their behaviours follow one part,
chosen at the start (`end`, `part`), because interleaving parts that cannot meet
would only multiply states.

Definitions whose names carry a suffix (`Finish_Recorded`, `Better_First`) are
mutants: the form a plausible mistake would give the definition named before the
underscore. Nothing uses them; `PROJECT.json` names, for every property of every
passing run, a mutant under which TLC finds the property violated.

### The engine modules and the code

They are operators, translated function by function. A text is given as
characters to `Tokenize`; a token, a tree and an instruction are records. `Lowering` is
the lowerer's state, passed from call to call. `Execute` is the machine: it ends
as completed, by a trap, by an undefined name or at the step limit. The worklist
solver moves sets of facts until they settle. An `Opportunity` is a site, a kind
and what it needs; carrying it out gives a program or `Stale`. The SMT solver is
a library: a path condition is the set of input vectors over `Universe` that
satisfy it, so what it decides over all integers is decided here over a few. The
state machine is in `Engine`: `phase` goes from a source to its code, to a
search by greedy or by a model whose answers are any of those the code
distinguishes, and to the report; or to the fault study.

### SuiteQueue and the code

`run` and `stale` are columns of `Run`; `suite` and `completed` are columns of
`SuiteRun`; the rest are local variables of one call of `advanceSuiteRun`.
Every `await` is a boundary between actions; one SQL statement, or one
`$transaction`, is one action.

| Action | Code |
|---|---|
| `StartDriver` | the stream route, when it finds runs queued and none running |
| `SweepStale` | `abandonStaleRuns` |
| `ClaimNext`, `NothingToClaim` | `claimNextRun`: the first QUEUED row, FOR UPDATE SKIP LOCKED |
| `OutOfTime` | the worker's budget |
| `MarkSuiteRunning` | `markSuiteRunning` |
| `HearEvent`, `HearOutcome`, `StreamEnds`, `StreamThrows` | consuming the engine's stream and its ways to end |
| `Requeue`, `Finish` | `requeueRun`, `finish` |
| `CountRuns`, `ReadStatus`, `WriteProgress` | the three round trips of `refreshSuiteRun` |
| `Cancel` | `cancelSuiteRun` |
| `Die`, `GrowStale` | a killed process or a throwing statement; the clock |

### RunRecorder and the code

The fold is a left fold over events, so its value is kept instead of the log:
`trace` folds what the recorder has seen, `stored` folds the rows. `Start`,
`Propose`, `Expanded`, `Take`, `Settle` and `ServiceFails` are the
orchestrator's emissions in the order of `agent.py`; the acceptances come after
the search, in `Settle`. `Read`, `Appended`, `RowsWritten`, `Catch`,
`StreamEnds` and `Finish` are the steps of the route, one per await. The last
section of the module adds no state: its operators are what the run page draws
of `trace` and of `stored`.

### ComputeService and the code

A step of a coroutine is what it does between two awaits; a step of a thread is
one use of what it shares. `OpenStream`, `FirstIteration`, `Turn`, `CloseStream`
and `Disconnect` are the handler and the generator; `StartThread`, `Put`,
`PutAgain`, `EngineRaises`, `EngineReturns`, `OnDone` and `SignOff` are the
thread; `Expire` is the deadline. Analyses and probes take slots of the same
semaphore, by `Refuse`, `StartThread`, `Returned` and `GiveUp`.

### Members and the code

`Resolve` reads the caller's role, `FindMember` the row of the person concerned,
`CountOwners` the number of owners, `Write` changes a row and `Record` adds the
audit entry. Each is one query. The history variables `changes`, `overlapped`
and `faulted` are not in the code; properties are stated with them.

### The search modules and the code

A program stands for a listing up to its canonical hash. What analysis, rules,
transforms, verification and cost model say is a graph: the cost of each
program, the candidates it offers, and the pairs that are not refuted.
`Successors` and `Lookup` are what `Environment.successors` returns and leaves
behind: with the cache, and with the budget that gives an empty list for
programs not in the cache once it is used up. One action of `Search` is one turn
of the loop of a method; choices by a random generator, and by the order of
listing lines, are left open. `Foremost` is A*'s order, up to ties.

### Experiment, LlmPass and the code

A process of `Experiment` is one call of `run_experiment`. `Open`, `Read`,
`TakeOver`, `Refuse`, `Unlink`, `Create` and `Name` are `_exclusive` up to its
yield, one system call each, because another process can come between any two;
`Leave` is its finally block. `Load` reads back the finished cells, `WriteRow`
appends a row and flushes it, `Stop` is the end of the loop or an exhausted
provider. `Begin` starts a process, by hand or from the supervisor, and `Kill`
ends one anywhere. `raced` is a history variable: a process began while another
was between its first look at the lock and signing it.

`LlmPass` is the level above: `Start`, `StartBatch`, `BatchOver`, `WakeUp`,
`CorpusComplete`, `FoldOpen` and `FoldWrite` are the supervisor, with the
combined file opened in one step and written in another; `Ask`, `WriteRow` and
`Finish` are a worker, `Playground` somebody else on the same cache, `Refill` a
key's allowance. Each worker has a file of its own, so the lock of `Experiment`
is not repeated here.

### The web modules and the code

In `ApiKeys`, `Shares`, `Accounts` and `Records` a request is a sequence of
queries and each query is an action (in `ApiKeys`: `Arrive`, `Lookup`,
`Consume`, `Prepare`, `Upsert`, `Reset`, `Charge`, `MakeRun`, `Audit`), which
carries in the request's record what the code holds in local variables. In
`Screens` each page is an operator over the rows and the caller's standing: the
page it draws, or `Missing`. `Playground` has the timers, requests and the
stream of `try/client.tsx` as actions; an aborted request stays on its way but
its answer is dropped. `Follow` has the route's loop (`Look` in two queries,
`Send`, `Expire`), the component (`Receive`, `Refresh`) and the server's render
(`Render` in two queries, `Rendered`). `Pages`, `Charts`, `Console`, the second
half of `Playground` and the second half of `Accounts` are operators, checked
over every input of a small set.

## 3. The runs

| Run | Configuration | Question | States |
|---|---|---|---|
| `suite_queue` | `MCSuiteQueue.cfg` | is the queue safe and does it drain, with a crash, a refusal and a cancellation anywhere, and does it implement `JobBoard`? | 138 thousand |
| `suite_crash_stalls` | `MCSuiteQueue_crash.cfg` | does the queue drain after a worker died, as `executor.ts:9-13` says? **No.** | |
| `streaming` | `MCStreaming.cfg` | do rows, log, status and report agree, do slots come back, do streams end with a true verdict, and do runs end? | 1.3 million |
| `failed_checked` | `MCStreaming_failed.cfg` | is a failed run unchecked, as `trace.ts:101`, `final-verdict.tsx:5-7` and `verification.tsx:24` say, or is at least each step marked up against what it started from, as `step-list.tsx:8-11` says? **Neither.** | |
| `searches` | `MCSearches.cfg` | is the answer of each method verified and cheaper, and does each return? Has the file of the batch one owner, is a finished batch complete, and does it end in spite of kills? | 415 thousand |
| `engine_members` | `MCSafety.cfg` | from text to report: is each stage true to the one before? And what holds of owners and of the log when requests are served in turn, and what when they overlap? | 277 thousand |
| `engine_captured` | `MCEngine_captured.cfg` | are temporaries fresh, as `ir/lower.py:3` says? **No.** | |
| `engine_undefined` | `MCEngine_undefined.cfg` | has every variable a value everywhere, as `ir/lower.py:12` says? **No.** | |
| `batch` | `MCLlmPass.cfg` | does the pass over the corpus lose, repeat or mix anything, and does it complete? | 243 thousand |
| `web` | `MCAppTier.cfg` | are keys metered, links closed, workspaces apart, pages in agreement, screens of one moment, and does everything settle? | 436 thousand |
| `suite_unfollowed` | `MCAppTier_follow.cfg` | is the progress of a suite run live, as `progress.tsx:4` says? **No.** | |
| `offers_refused` | `MCAppTier_offers.cfg` | is nothing offered that would be refused, as `settings/page.tsx:5-7` says? **No.** | |

A state of `Engine` is a whole compilation or search step, so few states are
much work: for every program of the search space, every offered rewrite is
carried out, run on every vector, proved and priced. In `web`, twenty-six
thousand states are inputs of pages: rows, listings, chunks, keys, forms.

### The properties

| Property | Says |
|---|---|
| `WorkedOnce` | each run has one worker and one recorder |
| `NeverAheadOfRuns` | the suite's row never says more than the rows of its runs bear out |
| `FinalIsFinal` | a run that ended keeps its status |
| `BoardSpec` | the queue is a `JobBoard` |
| `LivesInPeace` | workers end; a watched queue drains unless somebody crashes, cancels or is refused for ever |
| `RecordIsTrue` | type, rows, counts, final status and what is drawn of them follow from the stored log |
| `SettledAtTail` | steps settle in order, so counting rows finds the new ones |
| `SlotsKept`, `StreamIsTrue` | slots add up; the log arrives in order and each verdict has a true cause |
| `StreamsEnd` | no run stays RUNNING and no slot out |
| `OwnedInTurn`, `OwnershipByOwners`, `OwnershipDescends`, `LogHolds` | who owns a workspace and who made them so; the log can be believed |
| `WalksNeverDearer`, `StopsInTime`, `VerifiedAndOnce`, `BestOfPopped`, `PromiseKept`, `AStarPromiseKept` | what a search reports, where it stops, what it promises |
| `OwnedAndOnce`, `LeavesTruthfully` | the file of the batch, what a process leaves |
| `Returns` | every search returns, and the batch ends |
| `ParserReadsEveryToken` | a text is the text of its tree; with a token less it is rejected or another tree's |
| `LoweringKeepsMeaning` | the listing prints what the text means and traps where it does: also where it reads a variable that has no value, which `EveryVariableHasAValue` says cannot be |
| `AnalysisIsRight` | blocks, dominators and loops against paths; every fact against every run |
| `MovesAreSafe` | what the rules offer can be carried out, keeps the meaning and is not refuted |
| `VerdictsAreTrue` | proven is equal on every vector; refuted differs on the vector named |
| `SessionIsTrue` | the report adds up, and what the model was told is ruled out still is |
| `CorpusIsTrue`, `NothingLost`, `Completes` | one good row per program, of one model; no answer lost; the pass ends while one key works |
| `KeysAreMetered` | requests are authenticated, counted and charged as they should be between any two queries |
| `SharesStayClosed` | a link that was revoked or ran out shows nothing to a request that began later; views are counted |
| `PagesAgree` | pages, figures, diffs, streams, forms, slugs, shortcuts, toasts and dialogs agree with their inputs |
| `WorkspacesStayApart` | rows never mix; pages show, link and offer only what the reader may have |
| `ScreensTell` | the playground and the suite page show one moment and never go back |
| `EverythingSettles` | passwords stay, no workspace is to spare; in the end whoever signs in has one, the playground rests, and nobody waits for a suite that is over |

`StreamsEnd` and the last part of `EverythingSettles` have the form `<>[]`: each
request of the models is served once, and edits, moves and troubles are bounded,
so what must eventually hold holds for good from some moment on.

### What the violated claims show

- **`QueueDrains`.** A worker claims a run and its process is killed. The row
  stays RUNNING. The progress stream starts a worker only when no row is
  RUNNING, and only a worker sweeps stale rows, so nothing ever sweeps this one
  and the rest of the queue waits for ever. The comment promises the opposite.
- **`LoweringKeepsMeaning`** on texts with a variable called `t1`. Temporaries
  are named without looking at the program's names: `input t1; print(t1 + 1 * 2);`
  becomes `t1 = 1 * 2; t2 = t1 + t1`, and the input is overwritten.
- **`SomeClaimHolds`**, of a run with two moves. Two claims are taken together, so
  that one run breaks both. `FailedIsUnchecked`: a deadline passes after
  `run_converged` was sent, and `run_failed` follows it. The fold keeps the final
  listing and the output check it had, so the page of a failed run shows its
  "after" listing (`run-report.tsx:58`) and PASS beside "failed"; the row is stored
  as FAILED with an output check, and the bar of a suite draws it as matched and as
  broken, and another run, succeeded and unchecked, not at all.
  `MarkedAgainstItsStart`: acceptances are reported after the search, when the
  steps their moves were proposed in are closed, so none has a listing and the
  baseline never moves on. The second move, tried on what the first had left, is
  marked up against the first listing of all. What holds in spite of it is in
  `RecordIsTrue` (`EndsTruthfully`, `ReportTells`), and of the bars in
  `DrawnOnce` of `PagesAgree`: each run is in the piece of its class and no other,
  but for exactly those.
- **`EveryVariableHasAValue`**, of a declaration in a branch. Blocks open no scope,
  and a declaration initialises its variable where it stands, so
  `input n; if (n) { int x = 1; } int y = x;` reads `x` without a value when `n`
  is 0: the lowered code, which no rewrite has touched, traps as
  `undefined_variable`, which `interp/machine.py:202-203` puts down to a
  transformation. `LoweringKeepsMeaning` holds of this text because both the text
  and its code are given that trap.
- **`NothingOfferedIsRefused`.** The list of roles beside a person is the same for
  an admin and an owner. An admin who picks Owner is refused by
  `members.ts:159-164`. The form that adds a person leaves the option out, and
  every other offer is accepted (`ScreensLead`).
- **`LiveIsFollowed`.** The last run of a suite ends while the page is being
  rendered. The render arrives before the stream's last event; the effect's
  dependencies changed, so its cleanup closes the stream, and at line 41 it
  returns because the suite is over. What is shown is the component's own state,
  which nothing updates any more: the page says "running" until it is loaded
  again.

Three more disagreements were found and have no run of their own:

- A cancellation committed between `refresh`'s read of the status and its write
  is overwritten with RUNNING, against `store.ts:95`.
- An accepted change has no row of its own, against `actions/runs.ts:191`: every
  acceptance is reported after the search, when the step in which it was verified
  and priced is closed. What the tables count as transformations are the
  rejections.
- Two owners step down at once. Each request counts two owners, each removes its
  own (`members.ts:165`), and the workspace has none, against
  `repositories/members.ts:8-10`.

### Bounds, and why they are enough

- **Queue.** Two runs and two workers, the fewest that race for a run, with one
  run in hand while the other waits; the worker of a watched page can be started
  again and again; one crash; one busy refusal in a row (`BusyRetries`, 4 in the
  code), so that the streak is exhausted; a cancellation at any moment, any number
  of times. `SlowRuns` is off: the service stops a run after two minutes and a row
  is stale after ten, so no live worker's row grows stale. The theorems that need
  this say so, the others do not.
- **Streaming, the route.** One kind of optimization at two sites, so that an
  acceptance can match the wrong step; two moves and two opportunities per
  program; one failed statement; a reader who may leave and a process that may be
  killed at any point.
- **Streaming, the service.** Two slots and four requests (one stream, two
  analyses, one probe), so that some are refused; an outbox of one entry and a log
  of three, so that the thread waits for the coroutine; every client may stall for
  ever or leave. `EarlyDrop`, a response dropped before its body is iterated,
  depends on the web server's library and is off.
- **Members.** Three people and three requests: two that conflict and one whose
  decision depends on the outcome. Requests, and people but for the founder, are
  told apart by their names only (`SYMMETRY Alike`); the run has no liveness
  property.
- **The failed run.** Two moves at one site, so that there is a step after the first
  move; nobody leaves and nothing else fails.
- **Search.** For the walking methods, all graphs of three programs with at most one candidate from one
  to another, of two kinds, refuted or not, with costs on both sides of that of
  the start; a candidate back to the start is of the first kind. Limits are
  small enough to bind: a budget of two programs, two iterations, two attempts,
  one level move, three questions of which two may fail. Hill climbing has more
  iterations than it can use, because `NeverWanders` says that it does not need
  a limit on them.
- **A\*.** Graphs of four programs in which nothing leads back to the start,
  with refuted candidates at the start, three expansions and a budget of two.
- **Experiment.** Two processes at a time, one of which is killed somewhere; each
  place is taken by as many processes as it likes, one after another. Two process
  ids, so that an id comes back while a lock still names it, and one of them may
  belong to another program. Two cells, so that a batch can be half done. Good
  rows are counted up to two, which is one more than there should be.
- **Engine.** Eleven texts, chosen so that every statement, every one of the
  eight rules, both channels of the verification, a trap, an undefined name, a
  nested loop and three kinds of rejected text have something to do. Integers are
  not bounded; vectors come from edge values and a few draws (`FastProfile`,
  `ThoroughProfile`, and `OracleProfile` for the study), and what the solver
  decides is decided over -1 to 2. A machine runs 60 steps and a path exploration
  has 12 states, so that some of each are not enough. A search has twelve
  iterations and ten programs; a model is asked four times and may fail twice.
- **Batch.** Two programs, two keys of which one never gets allowance again, two
  attempts of a request, two barren passes in a row, one kill of the supervisor,
  one fault of a worker. A pass may be started with one key or with both. The
  playground leads with a model the batch does not ask, as its default does
  (`provider.py:556`), and falls back to the one it asks.
- **Web.** A minute and a month are two ticks, with two requests a minute and one
  run a month, so that both windows turn over while requests are under way; one key
  and two callers. Keys are revoked where requests only look, which is where the
  windows and the expiry are exercised (`LookSite`). Two people whose workspaces would get the same slug, two tabs,
  three numbered candidates. One link, two requests for it, a link's life of two
  ticks. Two workspaces with the same two people in different roles, two forms
  posted, one row moved meanwhile. Five documents in the playground (two of which
  the service clips to one, one that does not compile), two edits. One run of a
  followed suite, one request for a stream that fails, one unread render. The pages:
  every outcome, of eight, of each of the four runs of two suites; every pair of
  listings of up to three lines; every way to cut short streams into three; every
  flow graph of four blocks with at most three edges; every short sequence of keys,
  ticks, answers and clicks.

Each module with state has a type invariant, which also bounds its counters. Where
TLAPS proves it by itself (section 4) the runs do not repeat it; the others are the
first part of a property that is checked: of `RecordIsTrue`, `SlotsKept`,
`SharesStayClosed`, `KeysAreMetered`, `ScreensTell`, `CorpusIsTrue` and
`WorkspacesStayApart`, which are proved too, of `EverythingSettles`, whose part about steps is, and of
`SessionIsTrue`. Deadlock is checked in `engine_members`, `engine_captured` and
`engine_undefined`, where a session that ended, and requests that were all answered,
stutter explicitly, and nowhere else, because each of the other systems ends: a queue
is drained, a run is over, requests are answered, a search has returned.

### Fairness

- **Queue.** A live worker keeps taking steps (`WF Work`): it is one async
  function whose database calls return or throw, and a throw is `Die`. A watched
  queue that stalls is noticed (`WF StartDriver`): the stream looks every
  second, for as long as somebody watches. Time passes (`WF GrowStale`). The
  budget of a worker is long enough for a claim now and then (`SF ClaimNext`);
  without this, a worker could run out of time between any two of its steps for
  ever. Nothing is assumed of the engine: it may refuse for ever, and
  `LivesInPeace` has this as one of its cases. Nothing forces a crash, a
  cancellation or a deadline.
- **Streaming.** The engine goes on, and so does the route. A reader need not
  leave, a statement need not fail, and a process need not die. Threads and
  coroutines go on, and deadlines pass. Clients owe nothing: a client that neither
  reads nor leaves is allowed, and then the thread, which looks at the deadline
  itself, gives the slot back.
- **Search.** A search is one thread that nothing holds up.
- **Experiment.** A process goes on, and the batch is started again and again
  ("this job is restarted unattended for days at a time", `experiment.py:373`).
  A stranger does not have the lock's id every time somebody looks
  (`SF TakeOver`), and a provider answers long enough now and then to come to any
  cell (`SF WriteRow`). `Returns` has one more case: for ever and again, a live
  process that does not own the file has the id in the lock.
- **Batch.** The supervisor and its workers go on while the machine runs, and is
  started again after a kill (`Start` is one of its steps). A key that is not dead
  is given allowance again: allowances are per day.
- **Accounts.** A request being served goes on. Somebody signed in with nowhere to
  work opens `/w` again, sooner or later (`SF Visit`: another request may be in the
  way in between).
- **Playground.** Timers fire, requests are answered or fail, and a stream ends,
  because every event of a run costs the engine part of a bounded budget. People
  need not do anything.
- **Suite page.** Workers go on and a run in hand ends (`SF Ends`: it may be sent
  back to the queue in between, but not for ever), the last of them settles the
  suite, the route looks again each second, events arrive and renders come back.

## 4. What is proved

TLAPS proves these for every value of the constants, from the assumptions named
in the modules (`PlanAssumption`, `WorkerAssumption` and so on): that bounds are
natural numbers, that "no run", "no program" and "none" are not runs, programs
or methods, that graphs are graphs. A few assumptions say a little more, because
the code does: a run has at least one move (`BoundAssumption`; `schemas.py:37` asks
for `ge=1`), clipping a text that was clipped changes nothing and leaves the
samples alone (`ClippedAssumption`), the first method is in the menu, there is a
key an API can have and there are finitely many requests at once
(`ApiAssumption`). No program is twice in a corpus, and the playground leads with
another model than the batch or has nothing to fall back to
(`LlmPassAssumption`); section 5 has what happens otherwise. The rows a workspace
starts from are rows its forms could have made, and a suite has finitely many
methods (`RecordsAssumption`). `SitesAssumption` and `QuotasAssumption` only say that
what the models are given is of the right kind.

### The queue and the members

| Theorem | Says | Argument |
|---|---|---|
| `QueueTyped` | `TypeOK` | with `InHand` (a worker between claim and finish has a run, any other has none) and `WaitsLeft` |
| `QueueExclusive`, `QueueOneRecorder`, `QueueWorkedOnce` | `Exclusive`, `OneRecorder`, `WorkedOnce` | inductive, given `TypeInv`; with `Unrecorded`: a run that is queued, or in hand and not yet heard of, has no recorder |
| `QueueFinalIsFinal` | `FinalIsFinal` | with `Held`: a run in hand is RUNNING; needs `~SlowRuns` |
| `QueueNeverAhead` | `NeverAheadOfRuns` | with `BehindRuns`: what a worker counted, or has read of the suite, is not ahead of the runs either |
| `QueueImplementsBoard` | `BoardSpec` | every step maps to a step of the board or to none; needs `~SlowRuns` |
| `MembersTyped` | `TypeOK` | inductive |
| `MembersOwned`, `MembersByOwners` | `OwnedInTurn`, `OwnershipByOwners` | with `Serial`: while requests have been served in turn, what a request has read is still so |
| `MembersDescend` | `OwnershipDescends` | with `Grounded`: the role a request goes by is one its caller has held |
| `MembersLogged` | `LogHolds` | with `LogFollows`: a change not yet recorded belongs to one request that is about to record it |

### The engine's methods and the batch

| Theorem | Says | Argument |
|---|---|---|
| `SearchTyped` | `TypeOK` | one step shape at a time |
| `SearchWalks`, `SearchNeverDearer`, `SearchWalksNeverDearer` | `WalksAreVerified`, `NeverDearer`, `WalksNeverDearer` | `StepShape`, with `Settled` |
| `SearchKeepsPromise` | `PromiseKept` | the refinement, from those above |
| `SearchStopsAtLocalOptimum` | `StopsAtLocalOptimum` | with `StopInv`; the cheapest of a nonempty set of successors exists (`CheapestExists`) |
| `ClimbEndsItself` | a bound on the iterations of hill climbing | `Climbed`: each fall in cost pays for the level moves that may follow it |
| `SearchStopsInTime` | `StopsInTime` | from those two, where the limit is `Generous` |
| `AStarTyped`, `AStarWalks`, `AStarOnce`, `AStarVerifiedAndOnce` | `TypeOK`, `WalksAreVerified`, `ExpandedOnce`, `VerifiedAndOnce` | with `AllSeen`: what is on the frontier, was expanded or is the best was seen |
| `AStarBestOfPopped` | `BestOfPopped` | with `BestInv`: what was expanded is never cheaper than the best |
| `AStarKeepsPromise` | `AStarPromiseKept` | with `BestIsBetter` |
| `ExperimentTyped` | `TypeOK` | inductive |
| `ExperimentOwned`, `ExperimentOnce`, `ExperimentOwnedAndOnce` | `SoleOwner`, `NothingTwice`, `OwnedAndOnce` | with `OwnPid`, `InTurn` and `DoneOnce`: what the owner has to do has no good row |
| `ExperimentDone`, `ExperimentUnlocked`, `ExperimentLeavesTruthfully` | `DoneMeansDone`, `NoLockLeft`, `LeavesTruthfully` | with `Covered`: a cell that is not to do has a row; and `Kept`: until a kill, a lock's maker owns the file |
| `PassHolds` | `PassInv` | types and seven more parts, one lemma each (`BackedHolds`, `ApartHolds` and so on) |
| `CorpusTrue` | `CorpusIsTrue` | from `PassInv`: `Apart` gives one row per program, `Whole` that the end is an end, `OneVoice` one model |
| `NoAnswerLost` | `NothingLost` | with `Backed`: what is emptied out of the combined file is in the shards |

### A streamed run

| Theorem | Says | Argument |
|---|---|---|
| `SlotsAreCounted` | a slot is free, held by one request, or lost by a response that was dropped before it began | with `Paired`: what the thread of a request may be doing beside its coroutine |
| `SlotsAreKept` | `SlotsKept`; needs `~EarlyDrop` | then nothing is lost; with `Boxes`, the bounds of the queues |
| `StreamsAreTrue` | `StreamIsTrue` | with `Flow`: what was sent, then what waits, is the log as far as it goes; and `Judged`: a flag is raised for a cause, and the last line names a true one |
| `RecordsAreTrue` | `RecordIsTrue` | `RecordInv`, below |
| `SettledStaysAtTail` | `SettledAtTail` | from the same invariant: each event opens a step, marks the open one, decides the last or says how the run stands (`Folded`) |

### The web

| Theorem | Says | Argument |
|---|---|---|
| `SharesClosed` | `SharesStayClosed` | with `DesksTrue`: what a request has read of a link was so when it began or later; `CountsTrue`: views counted, owed and missed |
| `ScreensAreTrue` | `ScreensTell` | of the playground, that a run still read says on the screen what it has said so far (`WireTrue`); of the suite page, that what was read, what is in the pipe and what is shown only rises (`Rising`, `ReadTrue`) |
| `KeysMetered` | `KeysAreMetered` | `ApiInv`, below: `Metered` windows, requests that fit what they read (`FitsCall`), a month that is charged as its row says (`MonthTrue`) |
| `AccountsAreKept` | the part of `EverythingSettles` that is about steps (`AccountsHold`) | with `OneUnexcused`, below |
| `WorkspacesApart` | `WorkspacesStayApart` | `RecordsInv`: `PeopleTyped`, `RowsTrue`, `AnswerTrue`, `FormTrue`; then every page by itself (`ScreensMean`) |

Twelve arguments are worth knowing.

**Why `Held` is needed.** `FinalIsFinal` is about the status column, but the step
that could break it is `Finish`, which writes the column without looking at it.
It is safe only because nobody else ends a run that a worker holds: claims take
QUEUED rows, cancellation drops QUEUED rows, and the sweep takes RUNNING rows
that are stale. The last is excluded by the assumption that no run outlasts the
stale window with its worker alive. `Exclusive` and `OneRecorder` do not depend
on the clock and are proved without it.

**Why counts may be old.** `refreshSuiteRun` counts, reads and writes in three round
trips, and others write between them. Yet `NeverAheadOfRuns` needs neither the clock
nor an order of the refreshes: a count of zero of what is left stays true because
what is left only shrinks (`RunsShrink`; a run sent back to the queue never left
it), and a success that was counted stays one. A count that is old is only ever behind.

**Why `Serial` is needed.** A request decides on what it read one or two queries
ago. `Serial` says that while no two requests have overlapped, at most one is
open (`Alone`) and what it has read is still in the table (`Fresh`). The
invariant is an implication from `~overlapped`, and the step that begins a
second request is the one that makes the antecedent false.

**The shape of a search step.** Six methods have thirteen actions between them,
but as far as the answer is concerned a step does one of three things: it moves
along a verified candidate, it goes back to the start, or it stays.
`StepShape` proves this once; the invariants and the refinement are proved of
the three shapes.

**What "does not need a limit" means.** Hill climbing may move to a program of equal
cost, so it could wander; it does not because level moves in a row are capped and
a fall resets the cap. An attempt therefore makes at most cost × (cap + 1) + cap
moves, and `ClimbEndsItself` has that bound for any limit. `StopsInTime` can only
hold where the limit is above it, which is the hypothesis `Generous` of
`SearchStopsInTime`; a smaller limit stops a climb early and the code means it to.

**Why `InTurn` is needed.** The lock is a file with a name, and three of its five
operations do not look whose it is: `unlink` before a take-over, `unlink` at the
end, and the write of the id. `InTurn` says what makes them harmless. Whoever is
about to unlink has no live owner to hurt, because what it read of a live owner
is that owner's id (`held[r] = pid[s]`), and such an id keeps it out; and the
owner's id is in the lock by the time anybody can begin without racing it. All of
it is conditional on `~raced`, as `SoleOwner` is, and not by caution: with two
takers it is false (section 5). `DoneMeansDone` and `NoLockLeft` need none of
this and are proved of races too.

**Four parts of the recorder's invariant.** The rows are right because the log is,
and the log is right because of what the engine can put on the wire. `EngineTrue`
ties moves, nodes and phase together; `WireTrue` says what may be on the wire and
in which order, that nothing is accepted while the search goes on, and that at
the end the acceptances still to be read are as many as the moves still to be
reported (`Closing`); `StoreTrue` says how the stored log stands to the one in
memory at each await of the route, and that the latter is a true one (`LogTrue`);
`RowsTrue`, that rows and those about to be written are the rows of what has
settled. None of the four is inductive without those before it: a cost is only of a
proposal because of the wire's order, and the counts only agree at the end
because no acceptance comes before it. The final listing is there from the moment
`run_converged` was read (`final`); `LogTrue` only has that a trace which reads converged
has one, because one that reads failed may have it too (section 3).

**Why a minute sees two windows and no more.** A window restarts when a request
finds it over, so windows do not tile the clock, and a minute may begin at any
tick. `Metered` says two things of a key: what was admitted since its window began
is its count, and whatever was admitted in less than a window's length before that
is at most one window's worth. The second is what makes the first inductive: when
a window restarts, the old one is over, so what lies less than its length before
the new one is part of what the old one counted. A minute that reaches back before
the current window lies in those two parts. Admission needs no memory of the first query:
the update looks at the revocation, the expiry and the count again, in one
statement. The month needs only that a request which has come to reset or charge
left a row behind (`FitsCall`), and that no month after the row's has been charged
(`MonthTrue`): a request that still holds an older month then resets nothing and
pays into the row's.

**Why the combined file may be emptied.** The supervisor opens the combined file, which
empties it, and writes it in another step; a kill in between leaves it empty.
`Backed` says that with several keys whatever is in it, or is about to be
written to it, is in a shard as well, so nothing that was answered stops being
answered. That a program is not worked on twice needs who is at work: a
supervisor only starts a batch when it has stopped the batches of others or there
are none (`Quiet`), so what the workers have before them was missing when it was
shared out, is with one of them, and once in its list (`Apart`). This holds where
stray batches can be stopped (`reaps`), as `CorpusIsTrue` says. Sharing out and folding
are defined by rank, not by a fold: the place of an element is the number of
those before it in a strict order. `EveryRank` and `EachOnce` say that each rank is
taken once, which is what a fold over a set would have needed induction for.

**Why a form may go by what it read.** A request looks at a role, a project and
programs in one query each and makes its row later, when the role may be another.
Rows only grow and none changes its home, so what was found stays found;
`FormTrue` has, for each kind of form, what its query found. And "made by someone inside"
means someone who has been in (`everIn`), because the code does not promise more.
Names are unique because rows are inserted under the constraint of the table,
whatever was read. A page is an operator over rows: once these are in
order, each of its links and controls is followed to the row it is about and that
row's home; the cells of a suite run lead home because its runs are exactly its
plan (`PlanKept`), and the dashboard's sums need that what is summed is counted
part by part.

**Why a second workspace has its excuse.** A request looks for a membership, then tries
slugs, then inserts. Two requests of one person that both saw none each make a
workspace, so there is no bound of one. `OneUnexcused` says that of the requests under way
at most one began when no other was making a workspace and none had been made,
and that until it is done everything made so far is excused; so its own is the
one that needs no excuse. An account keeps its password because the unique address
decides between two who register it, and nobody is signed in without a row,
because no password that can be typed is what stands for "no row"
(`AccountsAssumption`).

**Sequences without induction.** What is settled is a filter of the steps, which is
computed by recursion along a sequence (`Only`). The library's induction theorems
are out of reach, but the least number that has not a property is enough: `<` is
well founded on the naturals (`NatLessThanWellFounded`, `WFMin`). `OneByOne` says
that once; with it the filter exists, is unique and grows as it should
(`SieveExists`, `SievesAgree`, `OnlyGrows`, `OnlyTurns`). The same with the least
subset instead of the least number (`LeastSet`) gives the sums `KeysAreMetered` is
about: the sum over a finite set exists (`UnfoldingExists`), does not depend on the order
in which its elements are taken (`SumTakes`), and grows by what is added (`SumOneMore`).

What TLAPS cannot prove here stays with TLC: liveness under fairness, `ENABLED`,
and what a definition computes by recursion over data in general.

### Only model-checked

- Every liveness property: `LivesInPeace`, `StreamsEnd`, `Returns`, `Completes`,
  and the last part of `EverythingSettles`.
- The six properties of `EngineProperties`. `MiniLang`, `Tac`, `Lower`, `Dataflow`,
  `Rules`, `Verify` and `Engine` are made of recursive operators, which the prover
  does not take.
- `PagesAgree`: its operators fold over rows, pixels, keys and text, and it is about
  inputs, not steps.

## 5. Observations no run checks

The code makes no promise about most of these, so no property is claimed; each can
be seen in the models.

### Queue, recorder, service

- Two refreshes that overlap can leave a finished suite RUNNING: the slower one
  counted before the last run ended and writes after it was closed.
- A run in hand when the suite is stopped, and refused by a busy engine, goes
  back to QUEUED and is claimed again by the same worker.
- A stop that arrives after the suite finished writes ABANDONED over its verdict.
- A process killed while it records a run outside a suite leaves the row RUNNING
  for good; `runs.ts:218-220` is about every other exit.
- An event is sent to the browser before it is stored. After a failed insert the
  browser's trace has an event that the stored one has not.
- The running cost of an accepted step is not the one `trace.ts` documents, for the
  reason in section 3, that acceptances are reported at the end.
- The progress stream asks two queries at once, so a snapshot can be torn: a
  suite over with a run less counted. "Finished" may be announced twice.

### Search, engine, batch

- The fixed pipeline goes through its passes once. A later pass can open what an
  earlier one was for, and then the answer is not a fixed point of the passes.
- A* marks a dearer successor as seen although it does not follow it, and what
  is seen is not followed later, from a program against which it is level. It may
  stop with a cheaper verified program on its frontier: the answer is the best it
  expanded.
- When its budget is used up, hill climbing finds no successors, ends its attempt,
  starts over from the start, whose successors are cached, and walks on. What it
  reports is still verified and the best it saw, but it does not "stop where it
  is", as the comment at `base.py:133` has it. A language model is then told that
  a rewrite "does not lower cost" that was never priced.
- When every vector runs into the step limit nothing was compared, and the verdict
  says that the tests passed (`differential.py:148-151`).
- The vectors of the oracle that measures the fault study are not a superset of
  those it measures (`mutation.py:47-52`). The header of a `for` assigns without
  looking at its variable's token, and the character "²" is a digit to the scanner
  that `int` refuses.
- With fallback on, what a later provider answered is stored under the first one's
  name (`provider.py:474-491`), against `provider.py:82-85`. The batch, whose chain has
  one provider, cannot be served such an answer of the same chain; `OneModel`
  says that it is not served one by way of the playground either. It needs that the
  playground's chain does not begin with the batch's model: the worker leads with
  Groq (`llm_pass.py:510`), the service with Gemini unless told otherwise
  (`provider.py:556`, `.env.example:13`). A service with both keys that leads with
  Groq would store Gemini's answers where the batch looks.
- `combine_shards` does nothing with fewer than two keys and empties the combined
  file before it writes it, so an edit of the key file while the pass runs may lose
  rows; `reap_orphans` does nothing outside Windows (`reaps`).
- Two processes that take the batch's lock at once can both own the file. One
  opens the lock and has not signed it yet; the other reads an empty file, which
  counts as left behind, and unlinks it. Or both find the lock of a dead one, and
  the slower one unlinks the lock the faster one has just made.
- The row of a failed cell leaves `node_budget` blank, and the cell is looked up
  with budget 0, so every resumed batch does it again and adds a row for it.
- A process that gets the id of the dead owner refuses itself: an id that is its
  own counts as alive (`experiment.py:324`).

### Workspaces and API

- An owner who was removed while a request of theirs was under way can still
  make another owner: the role was read before.
- Two people who sign up at once under one slug: the second insert throws after the
  session was made. The next visit to `/w` makes up for it, which is what
  `EverythingSettles` needs its fairness for. A slug that ends in a number may be
  somebody's numbered one, which costs one try.
- A key revoked between look-up and count answers 429, not 401. The month is charged
  before the run is created, and a failure in between is not given back. The
  API writes its audit entry directly, so that a failed entry answers 500 and
  leaves the run RUNNING, unlike `record()` in `audit.ts`.
- A second revocation of a link overwrites the date of the first. A link just
  revoked stays shown in the dialog that made it.
- The settings page links everybody to the page of API keys, which is not found
  below ADMIN, although `header.tsx:42-44` avoids such links for the audit log
  (`Excepted`).

### Pages

- A new key is shown with "Copied" when the one before it was copied; a refused
  second creation hides the first key. A new project leaves `?new=project` in the
  address, so a refresh opens the dialog again. A form's error is there again when
  its dialog is opened again.
- An interrupted stream does not refresh a program's history. The lists to compare
  with hold recent runs of the first run's program only. `readRange` accepts the
  names every object inherits. A service error whose text mentions
  `AUTOOPT_SERVICE_URL` counts as offline.
- In the playground a block selected in a graph stays selected when the next
  analysis has fewer blocks; then none is marked (`ViewsAgree`). Text past the limit
  may stay in the editor and is not analysed. A method that came with the address
  and is not in the menu is run while the menu shows another.
- A suite dialog lets more than fifty programs be ticked, and the server refuses.
  In the palette an old answer may replace a newer one, and half a shortcut
  survives the palette. Edges that enter a block from one side share their last
  stub.

## 6. What the models leave out

- **Queue.** The content of events; the wait after a refusal, which only delays;
  the abort signal of `advanceSuiteRun`, which no caller passes. A budget is a
  deadline that may pass before any claim.
- **Recorder.** Costs and listings are "priced" and "verified"; the engine waits
  for its last burst to be read before it emits the next, which orders nothing
  that the wire does not order. Methods that go back (A*, hill climbing,
  annealing) emit the same events in an order the model has as well, but for
  repeated attempts.
- **Service.** The token and the size of the body, checked before a slot is
  taken; the content of events. What the engine does between two events is one
  step.
- **Members.** Forms and addresses; a request names a user with an account.
- **Experiment.** `resume=False`, which deletes the file; the sharing out of
  programs, which is fixed before a run; the arms; a row cut short by a kill. The
  file of rows belongs to one call's methods and budgets.
- **Batch supervisor.** The watcher and the tables it draws; edits of the key file.
- **Search.** Costs are natural numbers; annealing accepts a dearer move or does
  not, whatever the temperature; random choices are any choice.
- **Engine.** Source positions, explanations and times; the hash of a listing,
  which is its identity; what the solver answers "unknown" to, and what it decides
  beyond the small universe; the model's wording, but not its answers. Costs are
  compared over a common denominator, where the code has floats.
- **Web.** Colours, coordinates beyond what must not overlap, wording, caches of
  rendered pages. The clocks of server and database agree (`Times`). Hashes
  and tokens cannot be guessed or collide. A service client's schemas and the wording
  of its errors.

### Parts not modelled

| Part | Why |
|---|---|
| Corpus generator | seeded generation; only the fixed order of its programs matters to the rest |
| Statistics, figures and report | floating point and plots over finished data |
| Recording scripts | run once, write data files |
| Landing scenes | WebGL and prose over recorded data; the recorded run's player is in `Console` |
| Documentation pages and recorded data | prose and constants |
| UI primitives | styled elements without state of their own |

## 7. The plan

What is about steps of a module without recursive operators is proved. What is left
is the engine: the prover would need its recursive operators, from the scanner to
the search, as functions. And there is more to model: the statistics over
finished data, and the corpus generator.

The number of runs is kept small: parts that belong together share a run, and a
claim that has been seen to fail makes room for one that is still open.
