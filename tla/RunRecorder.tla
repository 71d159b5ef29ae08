---------------------------- MODULE RunRecorder ----------------------------
(***************************************************************************)
(* One run started from the browser: the engine's decision log             *)
(* (engine/autoopt/orchestrator/agent.py) on its way through               *)
(* web/app/api/runs/route.ts into RunRecorder (web/lib/actions/runs.ts)    *)
(* and the tables, folded by web/lib/trace.ts.                             *)
(*                                                                         *)
(* The engine never waits for an answer from the web tier and the wire is  *)
(* first in, first out, so it is modelled as emitting its next burst once  *)
(* the last one has been consumed; every other order records the same.     *)
(* The engine's methods are abstracted to the ones that work step by step  *)
(* (greedy, random, pipeline, llm): expand a program, take one improving   *)
(* candidate, expand the next.                                             *)
(***************************************************************************)
EXTENDS Naturals, Sequences, SequencesExt

CONSTANTS
  Kinds,        \* optimization types
  Sites,        \* lines of the listing
  NoSite,       \* the null site of a rejection
  MaxMoves,     \* max_iterations, at least 1 (schemas.py)
  MaxFound,     \* bound on the opportunities of one program
  MaxDbErrors,  \* bound on statements the database fails
  MayLeave,     \* whether the reader may close the page
  MayDie        \* whether the process serving the run may be killed

ASSUME SiteAssumption == Kinds # {} /\ NoSite \notin Sites
ASSUME BoundAssumption ==
  MaxMoves \in Nat \ {0} /\ MaxFound \in Nat /\ MaxDbErrors \in Nat
ASSUME FlagAssumption == MayLeave \in BOOLEAN /\ MayDie \in BOOLEAN

VARIABLES
  engine,    \* "start", "expand", "choose" or "ended"
  nodes,     \* stats.nodes_expanded
  found,     \* opportunities emitted for the program being expanded
  better,    \* the improving candidates among them
  moves,     \* the moves taken so far
  wire,      \* events emitted and not yet read by the web tier
  web,       \* where the route is: see WebSteps
  last,      \* the event last pushed to RunRecorder.seen, sent to the browser just before
  trace,     \* foldTrace(seen); a left fold, so kept up to date event by event
  stored,    \* foldTrace of the RunEvent rows of the run, in the order of seq
  lost,      \* events sent whose row was not written
  fresh,     \* Transformation rows about to be written
  written,   \* RunRecorder.settledWritten
  rows,      \* Transformation rows of the run
  status,    \* Run.status
  left,      \* request.signal.aborted
  dbErrors   \* statements that failed so far

engineVars == <<engine, nodes, found, better, moves>>
webVars == <<web, last, trace, stored, lost, fresh, written, rows, status>>
vars == <<engineVars, wire, webVars, left, dbErrors>>

WebSteps == {"read", "append", "rows", "appendFailure", "finish", "over", "dead"}
Candidates == [kind : Kinds, site : Sites]
EventKinds == {"run_started", "opportunity_found", "candidate_proposed", "verification_result",
               "cost_evaluated", "decision", "run_converged", "run_failed"}

\* One shape for every event; the fields an event does not have are fixed.
Event(is, c, at, yes) == [is |-> is, kind |-> c.kind, site |-> c.site, at |-> at, yes |-> yes]
Plain == [kind |-> CHOOSE k \in Kinds : TRUE, site |-> NoSite]
Mark(is) == Event(is, Plain, 0, FALSE)
Events == [is : EventKinds, kind : Kinds, site : Sites \cup {NoSite}, at : 0..MaxMoves, yes : BOOLEAN]
-----------------------------------------------------------------------------
(* foldTrace: a decision log, folded into steps and a status.  The only step *)
(* that can still be open is the last one. *)

Steps == [kind : Kinds, site : Sites \cup {NoSite}, at : 0..MaxMoves, proposed : BOOLEAN,
          verified : BOOLEAN, cost : BOOLEAN, outcome : {"none", "accepted", "rejected"}]
Traces == [steps : Seq(Steps), open : BOOLEAN,
           status : {"streaming", "converged", "failed"}, accepted : 0..MaxMoves,
           final : BOOLEAN]   \* finalTac and outputMatch are there

EmptyTrace ==
  [steps |-> <<>>, open |-> FALSE, status |-> "streaming", accepted |-> 0, final |-> FALSE]

Begin(t, e) ==
  [t EXCEPT !.open = TRUE,
            !.steps = Append(@, [kind |-> e.kind, site |-> e.site, at |-> e.at, proposed |-> FALSE,
                                 verified |-> FALSE, cost |-> FALSE, outcome |-> "none"])]

OnLast(t, field, value) == [t EXCEPT !.steps[Len(t.steps)][field] = value]

\* Whether a decision is about the step in progress.
Belongs_AnyStep(t, e) == t.steps # <<>> /\ Last(t.steps).kind = e.kind
Belongs(t, e) ==
  /\ t.open
  /\ Last(t.steps).kind = e.kind
  /\ e.site # NoSite => Last(t.steps).site = e.site
  /\ Last(t.steps).at = e.at

Decide(t, e) ==
  LET u == IF Belongs(t, e) THEN t ELSE Begin(t, e)
  IN [OnLast(u, "outcome", IF e.yes THEN "accepted" ELSE "rejected")
        EXCEPT !.open = FALSE, !.accepted = IF e.yes THEN @ + 1 ELSE @]

FoldEvent(t, e) ==
  CASE e.is = "opportunity_found" -> Begin(t, e)
    [] e.is = "candidate_proposed" ->
         OnLast(IF t.open /\ ~Last(t.steps).proposed THEN t ELSE Begin(t, e), "proposed", TRUE)
    [] e.is = "verification_result" -> IF t.open THEN OnLast(t, "verified", TRUE) ELSE t
    [] e.is = "cost_evaluated" -> IF t.open THEN OnLast(t, "cost", TRUE) ELSE t
    [] e.is = "decision" -> Decide(t, e)
    [] e.is = "run_converged" -> [t EXCEPT !.status = "converged", !.final = TRUE]
    [] e.is = "run_failed" -> [t EXCEPT !.status = "failed"]
    [] OTHER -> t

\* What is kept of a sequence: SelectSeq, as a function that a proof can unfold.
Only(s, K) ==
  LET kept[i \in 0..Len(s)] ==
        IF i = 0 THEN <<>> ELSE IF s[i] \in K THEN Append(kept[i - 1], s[i]) ELSE kept[i - 1]
  IN  kept[Len(s)]

Decided == {s \in Steps : s.outcome # "none"}
Settled(t) == Only(t.steps, Decided)

\* What a Transformation row needs; the rest stays in the decision log only.
Measured == {s \in Decided : s.site # NoSite /\ s.cost /\ s.verified}

RowOf(s) == [kind |-> s.kind, site |-> s.site, accepted |-> s.outcome = "accepted"]
RowsOf(steps) == LET m == Only(steps, Measured) IN [i \in DOMAIN m |-> RowOf(m[i])]

FinalStatus(s) == CASE s = "converged" -> "SUCCEEDED"
                    [] s = "failed"    -> "FAILED"
                    [] OTHER           -> "ABANDONED"

TypeOK ==
  /\ engine \in {"start", "expand", "choose", "ended"}
  /\ nodes \in 0..(MaxMoves + 1)
  /\ found \in 0..MaxFound
  /\ better \subseteq Candidates
  /\ moves \in Seq(Candidates) /\ Len(moves) <= MaxMoves
  /\ wire \in Seq(Events) /\ last \in Events
  /\ trace \in Traces /\ stored \in Traces
  /\ web \in WebSteps
  /\ lost \in 0..MaxDbErrors
  /\ fresh \in Seq([kind : Kinds, site : Sites, accepted : BOOLEAN])
  /\ rows \in Seq([kind : Kinds, site : Sites, accepted : BOOLEAN])
  /\ written \in 0..Len(trace.steps)
  /\ status \in {"RUNNING", "SUCCEEDED", "FAILED", "ABANDONED"}
  /\ left \in BOOLEAN
  /\ dbErrors \in 0..MaxDbErrors

Blank ==
  /\ nodes = 0 /\ found = 0 /\ better = {} /\ moves = <<>>
  /\ wire = <<>>
  /\ last = Mark("run_started") /\ trace = EmptyTrace /\ stored = EmptyTrace
  /\ lost = 0 /\ fresh = <<>> /\ written = 0 /\ rows = <<>>
  /\ status = "RUNNING"
  /\ left = FALSE
  /\ dbErrors = 0

\* startRun: the row is RUNNING before the first event.
Init == engine = "start" /\ web = "read" /\ Blank

\* Nobody runs anything.
NoRun == engine = "ended" /\ web = "dead" /\ Blank
-----------------------------------------------------------------------------
(* The engine *)

Emit(log) == wire = <<>> /\ wire' = log
Untouched == UNCHANGED <<webVars, left, dbErrors>>

Start ==
  /\ engine = "start"
  /\ Emit(<<Mark("run_started")>>)
  /\ engine' = "expand"
  /\ UNCHANGED <<nodes, found, better, moves>> /\ Untouched

\* record(): one candidate of the program being expanded.  A refuted or a
\* dearer one is rejected at once; an improving one is left undecided.
Burst(c, result) ==
  LET ev(is, yes) == Event(is, c, nodes, yes)
      no == Event("decision", [c EXCEPT !.site = NoSite], nodes, FALSE)
      tried == <<ev("opportunity_found", FALSE), ev("candidate_proposed", FALSE),
                 ev("verification_result", result # "refuted")>>
  IN CASE result = "refuted" -> tried \o <<no>>
       [] result = "dearer"  -> tried \o <<ev("cost_evaluated", FALSE), no>>
       [] result = "cheaper" -> tried \o <<ev("cost_evaluated", TRUE)>>

Propose(c, result) ==
  /\ engine = "expand"
  /\ found < MaxFound
  /\ Emit(Burst(c, result))
  /\ found' = found + 1
  /\ better' = IF result = "cheaper" THEN better \cup {c} ELSE better
  /\ UNCHANGED <<engine, nodes, moves>> /\ Untouched

\* Every opportunity of the program was tried.
Expanded ==
  /\ engine = "expand" /\ wire = <<>>
  /\ engine' = "choose"
  /\ nodes' = nodes + 1
  /\ UNCHANGED <<found, better, moves, wire>> /\ Untouched

MovesLeft_OneMore(taken) == taken <= MaxMoves
MovesLeft(taken) == taken < MaxMoves

\* The strategy keeps an improving candidate; the next program is expanded
\* unless the iterations are used up.
Take(c) ==
  /\ engine = "choose" /\ c \in better
  /\ moves' = Append(moves, c)
  /\ engine' = IF MovesLeft(Len(moves) + 1) THEN "expand" ELSE "choose"
  /\ found' = 0
  /\ better' = {}
  /\ UNCHANGED <<nodes, wire>> /\ Untouched

\* The search is over: the kept moves are reported, then the end.
Accepted(c) == Event("decision", c, Len(moves), TRUE)
Reported_SkipFirst == SubSeq(moves, 2, Len(moves))
Reported == moves

Settle ==
  /\ engine = "choose"
  /\ Emit([i \in DOMAIN Reported |-> Accepted(Reported[i])] \o <<Mark("run_converged")>>)
  /\ engine' = "ended"
  /\ UNCHANGED <<nodes, found, better, moves>> /\ Untouched

\* The compute service adds run_failed: the engine raised, the deadline passed,
\* or the deadline passed between the last event and the end of the stream.
ServiceFails ==
  /\ engine # "ended" \/ trace.status = "converged"
  /\ web \in {"read", "append", "rows"}
  /\ Emit(<<Mark("run_failed")>>)
  /\ engine' = "ended"
  /\ UNCHANGED <<nodes, found, better, moves>> /\ Untouched
-----------------------------------------------------------------------------
(* The route and its recorder *)

Engine == UNCHANGED engineVars

\* record() keeps the event before it awaits anything.
Push(e) == last' = e /\ trace' = FoldEvent(trace, e)

\* One event off the stream: sent to the browser, kept in seen, then the append
\* is awaited.  After the reader left, both the fetch and send throw instead.
Read ==
  /\ web = "read" /\ wire # <<>> /\ ~left
  /\ wire' = Tail(wire)
  /\ Push(Head(wire))
  /\ web' = "append"
  /\ Engine /\ UNCHANGED <<stored, lost, fresh, written, rows, status, left, dbErrors>>

\* The rows of the steps that settled since the last decision.
Unwritten_All(steps) == steps
Unwritten(steps) == SubSeq(steps, written + 1, Len(steps))

\* appendRunEvents resolved; a decision goes on to writeTransformations, which
\* counts its steps as written before it awaits the write.
Appended ==
  /\ web \in {"append", "appendFailure"}
  /\ stored' = FoldEvent(stored, last)
  /\ IF last.is = "decision"
     THEN LET steps == Settled(trace)
          IN /\ written' = Len(steps)
             /\ fresh' = RowsOf(Unwritten(steps))
     ELSE UNCHANGED <<written, fresh>>
  /\ web' = IF web = "appendFailure" THEN "finish" ELSE IF fresh' # <<>> THEN "rows" ELSE "read"
  /\ Engine /\ UNCHANGED <<wire, last, trace, lost, rows, status, left, dbErrors>>

RowsWritten ==
  /\ web = "rows"
  /\ rows' = rows \o fresh
  /\ fresh' = <<>>
  /\ web' = "read"
  /\ Engine /\ UNCHANGED <<wire, last, trace, stored, lost, written, status, left, dbErrors>>

AfterLeaving_Return == "over"
AfterLeaving == "finish"

\* The catch block: nothing is added for a reader who left; otherwise the
\* failure is one more event, sent and recorded like the others.
Catch ==
  /\ fresh' = <<>>
  /\ IF left THEN web' = AfterLeaving /\ UNCHANGED <<last, trace>>
     ELSE web' = "appendFailure" /\ Push(Mark("run_failed"))

\* The upstream connection broke, a line did not parse, or the reader left.
ReadThrows ==
  /\ web = "read"
  /\ Catch
  /\ wire' = <<>>
  /\ Engine /\ UNCHANGED <<stored, lost, written, rows, status, left, dbErrors>>

StreamEnds ==
  /\ web = "read" /\ wire = <<>> /\ engine = "ended" /\ ~left
  /\ web' = "finish"
  /\ Engine /\ UNCHANGED <<wire, last, trace, stored, lost, fresh, written, rows, status, left, dbErrors>>

\* A statement of the recorder fails.  While the failure itself is recorded,
\* only the finally block is left; after finish, only the log.
DbFails ==
  /\ dbErrors < MaxDbErrors
  /\ dbErrors' = dbErrors + 1
  /\ lost' = IF web \in {"append", "appendFailure"} THEN lost + 1 ELSE lost
  /\ \/ web \in {"append", "rows"} /\ Catch
     \/ web = "appendFailure" /\ web' = "finish" /\ UNCHANGED <<last, trace, fresh>>
     \/ web = "finish" /\ web' = "over" /\ UNCHANGED <<last, trace, fresh>>
  /\ wire' = <<>>
  /\ Engine /\ UNCHANGED <<stored, written, rows, status, left>>

\* finish(): the status is what the log folds to.
Outcome_Optimist == IF left THEN "SUCCEEDED" ELSE FinalStatus(trace.status)
Outcome == FinalStatus(trace.status)

Finish ==
  /\ web = "finish"
  /\ status' = Outcome
  /\ web' = "over"
  /\ Engine /\ UNCHANGED <<wire, last, trace, stored, lost, fresh, written, rows, left, dbErrors>>

\* The output check of the row: null until finish() writes what the log folds to by
\* then, which is the last that is heard of it.
OutputMatch == IF status # "RUNNING" /\ trace.final THEN "checked" ELSE "none"

\* The browser goes away; noticed at the next read or send.
Leave ==
  /\ MayLeave /\ ~left /\ web \notin {"over", "dead"}
  /\ left' = TRUE
  /\ Engine /\ UNCHANGED <<wire, webVars, dbErrors>>

\* The process serving the request is killed.
Die ==
  /\ MayDie /\ web \notin {"over", "dead"}
  /\ web' = "dead"
  /\ Engine /\ UNCHANGED <<wire, last, trace, stored, lost, fresh, written, rows, status, left, dbErrors>>
-----------------------------------------------------------------------------
Results == {"refuted", "dearer", "cheaper"}

EngineStep ==
  \/ Start \/ Expanded \/ Settle
  \/ \E c \in Candidates : Take(c) \/ \E r \in Results : Propose(c, r)

RouteStep == Read \/ Appended \/ RowsWritten \/ StreamEnds \/ Finish \/ (left /\ ReadThrows)

Next == EngineStep \/ ServiceFails \/ RouteStep \/ ReadThrows \/ DbFails \/ Leave \/ Die

\* The engine's loops are bounded and the route is one async function.
RouteFairness == WF_vars(EngineStep) /\ WF_vars(RouteStep)
-----------------------------------------------------------------------------
(* Properties *)

\* The rows written are those the stored log calls for, each once and in order;
\* between two reads none is missing (runs.ts:240-261 works out the new ones
\* from a count instead of comparing).
RowsMatchLog ==
  /\ IsPrefix(rows, RowsOf(Settled(stored)))
  /\ web = "read" => rows = RowsOf(Settled(stored))

\* "Steps settle in the order they were opened, so the ones not yet written are
\* always the tail of that list" (runs.ts:242), and a settled step never changes,
\* whatever the order of the engine's events: a row once written stays true.
SettledAtTail == [][IsPrefix(Settled(trace), Settled(trace'))]_trace

\* With a database that answers, the status a run ends with is what its stored
\* log folds to, and so is its output check; only a reader who left makes it
\* ABANDONED.
EndsTruthfully ==
  web = "over" /\ dbErrors = 0 =>
    /\ status = FinalStatus(stored.status)
    /\ status = "ABANDONED" => left
    /\ OutputMatch = "checked" <=> stored.final

\* Acceptances counted off the wire are the moves the engine kept: "a live trace
\* and a finished one ... cannot disagree" (trace.ts:331), although an acceptance
\* is told apart from the step left open only by type, line and iteration.
CountsAgree ==
  \A t \in {trace, stored} :
    /\ t.status = "converged" => t.final
    /\ t.final => t.accepted = Len(moves)

\* What is stored of a run is true of it: the rows are those of the log, the counts
\* those of the engine, the status the one the log ends in.
RecordHolds == TypeOK /\ RowsMatchLog /\ EndsTruthfully /\ CountsAgree

\* Every exit from a run goes through finish, so the row does not stay RUNNING
\* (runs.ts:215-221), whoever leaves and however the stream breaks, unless the
\* process is killed or the database fails: this comes true and stays so.
RunEnds == status # "RUNNING" \/ web = "dead" \/ dbErrors > 0

-----------------------------------------------------------------------------
(***************************************************************************)
(* A run as it is read: the trace in the browser that watches it and the   *)
(* one read back from the rows (web/components/trace,                      *)
(* web/components/app/run-report.tsx).  Both are drawn by the same         *)
(* components from the same fold, so they differ only in what arrived.     *)
(* A listing is the number of the step that proposed it, 0 the first one.  *)
(***************************************************************************)
\* FinalVerdict: the word beside the dot, whether the cost is the last one, and
\* whether PASS or FAIL is told.
Verdict(t) ==
  [says |-> CASE t.status = "streaming" -> "running" [] OTHER -> t.status,
   costIs |-> IF t.status = "converged" THEN "after" ELSE "so far",
   check |-> IF t.final THEN "told" ELSE "not checked",
   accepted |-> t.accepted]

\* What is said aloud above the steps.
Progress(t) ==
  CASE t.status = "failed" -> <<"failed after", Len(t.steps)>>
    [] t.status = "converged" -> <<"finished", Len(t.steps)>>
    [] OTHER -> IF t.steps = <<>> THEN <<"waiting", 0>> ELSE <<"running", Len(t.steps)>>

\* Bug: the badge of a step without a decision does not ask how the run stands.
Unsettled_Always(t) == "in progress"

\* The badge of a step no decision was reported for.
Unsettled(t) ==
  CASE t.status = "streaming" -> "in progress"
    [] t.status = "failed" -> "interrupted"
    [] OTHER -> "evaluated candidate"

Applied(s) == s.outcome = "accepted"

\* listingsBefore: what a step is marked up against moves on with every accepted proposal.
ListingsBefore(t) ==
  LET At(i) == {k \in 1 .. i - 1 : Applied(t.steps[k]) /\ t.steps[k].proposed}
  IN [i \in DOMAIN t.steps |-> IF At(i) = {} THEN 0 ELSE CHOOSE k \in At(i) : \A j \in At(i) : j <= k]

\* OutcomeBadge and PendingBadge: what was decided, or where the run stands.
Badge(t, s) == IF s.outcome = "none" THEN Unsettled(t) ELSE s.outcome

\* CostDelta: grey for a step that was not applied.
CostDelta(s) == IF ~s.cost THEN "none" ELSE IF Applied(s) THEN "counted" ELSE "grey"

\* TraceStepRow: the two badges, the costs and the listing.
StepRow(t, i) ==
  LET s == t.steps[i] IN
  [check |-> IF s.verified THEN "told" ELSE "not recorded",
   badge |-> Badge(t, s), cost |-> CostDelta(s),
   settled |-> s.outcome # "none" \/ t.status # "streaming",
   listing |-> IF ~s.proposed THEN "none" ELSE IF Applied(s) THEN "applied" ELSE "proposed",
   against |-> ListingsBefore(t)[i]]

\* RunReport: a note on how the run ended, then the trace of its rows; watching has no row to ask.
Note(of) == CASE of = "ABANDONED" -> "abandoned" [] of = "FAILED" -> "failed" [] OTHER -> "none"
Report(of, t) ==
  [note |-> Note(of), verdict |-> Verdict(t), progress |-> Progress(t),
   rows |-> [i \in DOMAIN t.steps |-> StepRow(t, i)],
   after |-> t.final]

-----------------------------------------------------------------------------
(* Whoever watches and whoever reads it back: the acceptances of the panel    *)
(* are the badges below it, whatever order the events came in, and where the  *)
(* final listing is shown they are all the moves the engine kept; a step is   *)
(* in progress exactly as long as the run is.  Once the run is over the note  *)
(* above a stored trace and the trace itself say the same, if every row of it *)
(* was written, and a run without a note has its final listing.               *)
ReportTells ==
  /\ \A t \in {trace, stored} : LET page == Report("RUNNING", t) drawn == page.rows IN
       /\ Cardinality({i \in DOMAIN drawn : drawn[i].badge = "accepted"}) = page.verdict.accepted
       /\ page.after => page.verdict.accepted = Len(moves)
       /\ page.verdict.says = "running" <=> page.progress[1] \in {"waiting", "running"}
       /\ page.verdict.costIs = "after" => page.after
       /\ \A i \in DOMAIN drawn :
            /\ drawn[i].badge = "in progress" => ~drawn[i].settled /\ page.verdict.says = "running"
            /\ ~drawn[i].settled => drawn[i].badge = "in progress"
            /\ drawn[i].cost = "counted" => drawn[i].listing = "applied"
  /\ web = "over" /\ dbErrors = 0 =>
       LET page == Report(status, stored) IN
       /\ page.note = "abandoned" <=> page.verdict.says = "running"
       /\ page.note = "failed" <=> page.verdict.says = "failed"
       /\ page.note = "none" => page.after

\* What is stored of a run is true of it, and what is read of it is what was stored.
RecordIsTrue == RecordHolds /\ ReportTells
(* Two claims of the code's comments that the code does not keep *)

\* A finalTac is "Null until the run converges. A failed run never gets one"
\* (trace.ts:101-102), and a run "that died" has "not been checked"
\* (final-verdict.tsx:5-7): a run that reads failed shows no final listing and no
\* verdict on its output, and its row has none.
FailedIsUnchecked ==
  /\ \A t \in {trace, stored} : LET page == Report("RUNNING", t) IN
       page.verdict.says = "failed" => ~page.after /\ page.verdict.check = "not checked"
  /\ status = "FAILED" => OutputMatch = "none"

\* "Each step is told the listing it started from so the proposal can be marked up
\* against it" (step-list.tsx:8-11): once the moves are reported, a proposal made
\* after one of them is not marked up against the first listing.
MarkedAgainstItsStart ==
  LET t == stored drawn == Report(status, t).rows IN
  t.final => \A i \in DOMAIN drawn :
    drawn[i].listing # "none" => (drawn[i].against = 0 <=> t.steps[i].at = 0)

\* One of the two claims holds of every run that is over.  A run of which it does
\* not is against both.
SomeClaimHolds == web = "over" => FailedIsUnchecked \/ MarkedAgainstItsStart
=============================================================================
