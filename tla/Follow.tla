------------------------------- MODULE Follow -------------------------------
(***************************************************************************)
(* A suite run watched from its page: the route that reads the table once  *)
(* a second and streams what changed, the component that shows it and has  *)
(* the page under it rendered again.  Who works on the runs, and how, is   *)
(* in SuiteQueue; here the table only moves.                               *)
(***************************************************************************)
EXTENDS Naturals, Sequences, SequencesExt, FiniteSets

CONSTANTS
  SuiteTotal,        \* runs of the suite run
  MaxUnread,    \* bound: events on their way when the route looks again
  MaxTroubles   \* bound: runs sent back by a busy engine, and streams closed for their age

ASSUME FollowAssumption == {SuiteTotal, MaxUnread, MaxTroubles} \subseteq Nat

VARIABLES
  rest,      \* how many runs are queued and how many are running
  suite,     \* SuiteRun.status: "live" stands for QUEUED and RUNNING
  stream,    \* the route's loop: which of its two queries is answered, and with what
  pipe,      \* events on their way to the page
  progress,  \* the progress the component shows
  initial,   \* what the page was last rendered with
  open,      \* the component has an EventSource
  timer,     \* it has asked for a render, less than two seconds after the last
  renders,   \* a render is asked for and not begun: one or more
  render,    \* the one under way
  troubles,  \* history of the bound
  late       \* history: a run was sent back when the suite was over

followVars == <<rest, suite, stream, pipe, progress, initial, open, timer, renders, render, troubles, late>>

(* What the route and the page compute from the status and the rows; a        *)
(* snapshot is torn when the table moved between its two queries.             *)
Snap(s, l, torn) == [status |-> s, completed |-> SuiteTotal - l.queued - l.running, running |-> l.running, torn |-> torn]
Key(snap) == [snap EXCEPT !.torn = FALSE]
Live(snap) == snap.status = "live" \/ snap.running > 0

AtFirst == [queued |-> SuiteTotal, running |-> 0]
NoStream == [at |-> "off", suite |-> "live", rest |-> AtFirst, last |-> <<>>]
Fresh == [NoStream EXCEPT !.at = "look"]
NoRender == [at |-> "none", suite |-> "live", running |-> 0]

(* A suite run whose page is open, or one that nobody works on or watches. *)
FollowInit(watched) ==
  /\ rest = (IF watched THEN AtFirst ELSE [AtFirst EXCEPT !.queued = 0]) /\ suite = (IF watched THEN "live" ELSE "over") /\ late = FALSE
  /\ stream = (IF watched THEN Fresh ELSE NoStream) /\ pipe = <<>> /\ open = watched
  /\ progress = Snap(suite, rest, FALSE) /\ initial = [live |-> watched, running |-> 0]
  /\ timer = FALSE /\ renders = FALSE /\ render = NoRender /\ troubles = 0

table == <<rest, suite, late>>
page_ == <<progress, initial, open, timer, renders, render>>

-----------------------------------------------------------------------------
(* A run is claimed, ends, or is sent back to the queue by a busy engine. *)
Step_(queued, running) == rest' = [queued |-> rest.queued + queued, running |-> rest.running + running]
Claim_ == rest.queued > 0 /\ Step_(-1, 1) /\ UNCHANGED <<late, troubles>>
End_ == rest.running > 0 /\ Step_(0, -1) /\ UNCHANGED <<late, troubles>>
Requeue_ ==
  /\ rest.running > 0 /\ Step_(1, -1)
  /\ troubles < MaxTroubles /\ troubles' = troubles + 1 /\ late' = (late \/ suite # "live")
Work == (Claim_ \/ End_ \/ Requeue_) /\ UNCHANGED <<suite, stream, pipe, page_>>
Ends == End_ /\ UNCHANGED <<suite, stream, pipe, page_>>

Settle ==
  /\ suite = "live" /\ rest.queued + rest.running = 0 /\ suite' = "over"
  /\ UNCHANGED <<rest, late, stream, pipe, page_, troubles>>

(* Stop, here or on another page that shows the suite live: it does not ask   *)
(* whether the suite is over, and revalidates the page of the suite only.     *)
Stop_ ==
  /\ suite = "live" \/ rest.queued > 0
  /\ suite' = "over" /\ rest' = [rest EXCEPT !.queued = 0]
  /\ UNCHANGED <<late, stream, pipe, page_, troubles>>

(* The route's two queries, sent together, answered in either order.          *)
Look(half) ==
  /\ stream.at = "look" /\ Len(pipe) < MaxUnread
  /\ stream' = [stream EXCEPT !.at = half, !.suite = suite, !.rest = rest]
  /\ UNCHANGED <<table, pipe, page_, troubles>>

\* Bug: a run that outlives its suite is not waited for.
Finished_Status(snap) == snap.status # "live"
Finished(snap) == ~Live(snap)

Send ==
  /\ stream.at \in {"status", "rows"}
  /\ LET torn == <<stream.suite, stream.rest>> # <<suite, rest>>
         snap == IF stream.at = "status" THEN Snap(stream.suite, rest, torn) ELSE Snap(suite, stream.rest, torn)
     IN /\ pipe' = pipe \o (IF <<Key(snap)>> = stream.last THEN <<>> ELSE <<[event |-> "progress", snap |-> snap]>>)
                        \o (IF Finished(snap) THEN <<[event |-> "done", snap |-> snap]>> ELSE <<>>)
        /\ stream' = [NoStream EXCEPT !.at = IF Finished(snap) THEN "ended" ELSE "look", !.last = <<Key(snap)>>]
  /\ UNCHANGED <<table, page_, troubles>>

(* After 280 seconds the route ends the stream and the browser opens another. *)
Expire ==
  /\ stream.at = "look" /\ pipe = <<>> /\ troubles < MaxTroubles
  /\ troubles' = troubles + 1 /\ stream' = Fresh
  /\ UNCHANGED <<table, pipe, page_>>

-----------------------------------------------------------------------------
(* The "progress" and "done" listeners. *)
Receive ==
  /\ pipe # <<>> /\ progress' = Head(pipe).snap
  /\ IF Head(pipe).event = "progress"
     THEN pipe' = Tail(pipe) /\ timer' = TRUE /\ UNCHANGED <<open, stream, renders>>
     ELSE /\ pipe' = <<>> /\ open' = FALSE /\ stream' = NoStream /\ renders' = TRUE /\ UNCHANGED timer
  /\ UNCHANGED <<table, initial, render, troubles, late>>

Refresh ==
  /\ timer /\ timer' = FALSE /\ renders' = TRUE
  /\ UNCHANGED <<table, stream, pipe, progress, initial, open, render, troubles, late>>

(* A render reads the suite run, then its rows, and arrives later: one at a   *)
(* time.                                                                      *)
Render ==
  /\ \/ render.at = "none" /\ renders /\ renders' = FALSE /\ render' = [NoRender EXCEPT !.at = "suite", !.suite = suite]
     \/ render.at = "suite" /\ render' = [render EXCEPT !.at = "rows", !.running = rest.running] /\ UNCHANGED renders
  /\ UNCHANGED <<table, stream, pipe, progress, initial, open, timer, troubles>>

(* It changes what the effect depends on, or it does not.  If it does, the    *)
(* stream is closed and opened again, unless the suite is over by now.  What  *)
(* the component shows is its own and does not change.                        *)
Rendered ==
  /\ render.at = "rows" /\ render' = NoRender
  /\ initial' = [live |-> render.suite = "live", running |-> render.running]
  /\ IF initial' = initial THEN UNCHANGED <<open, stream, pipe, timer>>
     ELSE /\ open' = (initial'.live \/ initial'.running > 0)
          /\ stream' = (IF open' THEN Fresh ELSE NoStream) /\ pipe' = <<>> /\ timer' = FALSE
  /\ UNCHANGED <<table, progress, renders, troubles>>

Serve_ == (\E half \in {"status", "rows"} : Look(half)) \/ Send
Show == Receive \/ Refresh \/ Render \/ Rendered

FollowNext ==
  \/ Work \/ Settle \/ Stop_ \/ Serve_ \/ Expire \/ Show

(* Workers go on and the last of them settles the suite, the route looks      *)
(* again, events arrive, timers fire and renders come back.                   *)
FollowFairness ==
  /\ WF_followVars(Work) /\ SF_followVars(Ends)
  /\ WF_followVars(Settle) /\ WF_followVars(Serve_) /\ WF_followVars(Show)

-----------------------------------------------------------------------------
Behind(snap) == snap.completed <= SuiteTotal - rest.queued - rest.running

(* The types: no more runs than the suite has, at most a progress event and   *)
(* a done unread beyond the bound, and a timer only while somebody listens.   *)
FollowTypeOK ==
  LET snaps == [status : {"live", "over"}, completed : 0 .. SuiteTotal, running : 0 .. SuiteTotal, torn : BOOLEAN]
      rests == {r \in [queued : 0 .. SuiteTotal, running : 0 .. SuiteTotal] : r.queued + r.running <= SuiteTotal}
  IN /\ rest \in rests /\ suite \in {"live", "over"} /\ late \in BOOLEAN
     /\ stream.at \in {"off", "look", "status", "rows", "ended"} /\ stream.suite \in {"live", "over"}
     /\ stream.rest \in rests /\ Len(stream.last) <= 1
     /\ pipe \in Seq([event : {"progress", "done"}, snap : snaps]) /\ Len(pipe) <= MaxUnread + 1
     /\ progress \in snaps /\ initial \in [live : BOOLEAN, running : 0 .. SuiteTotal]
     /\ {open, renders} \subseteq BOOLEAN /\ timer \in BOOLEAN
     /\ render \in [at : {"none", "suite", "rows"}, suite : {"live", "over"}, running : 0 .. SuiteTotal]
     /\ troubles \in 0 .. MaxTroubles

(* The page never gets ahead of the table nor goes back: progress on its way  *)
(* is no less than what is shown and no more than what is done; an end is     *)
(* shown only of a suite that is over, and with every run counted, unless its *)
(* two queries saw different tables or a cancelled run went back to the       *)
(* queue.                                                                     *)
FollowsTheTable ==
  /\ FollowTypeOK
  /\ LET snaps == <<progress>> \o [i \in DOMAIN pipe |-> pipe[i].snap] IN
     \A i \in DOMAIN snaps : Behind(snaps[i]) /\ (i > 1 => snaps[i - 1].completed <= snaps[i].completed)
  /\ ~Live(progress) => suite # "live" /\ (progress.completed = SuiteTotal \/ progress.torn \/ late)
  /\ Live(progress) /\ ~open => ~initial.live /\ initial.running = 0

(* Whoever is shown a live suite is also listening: progress.tsx:4 calls it   *)
(* "a suite run's progress, live".                                            *)
LiveIsFollowed == Live(progress) => open

(* Whoever watches sees the end, unless the page was rendered with it first.  *)
EndIsSeen == Live(progress) => ~open
=============================================================================
