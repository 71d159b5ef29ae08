------------------------------ MODULE Console -------------------------------
(***************************************************************************)
(* The small machines of the browser beside the pages: the keys that open  *)
(* the palette and lead somewhere, the data it loads, the toasts, the      *)
(* recorded run of the landing page and the form of a new suite.  Each is  *)
(* a function from a state and an input to a state; a session is a         *)
(* sequence of inputs.                                                     *)
(***************************************************************************)
EXTENDS Integers, Sequences, SequencesExt, FiniteSets

CONSTANTS
  SequenceMs,   \* how long a first key waits for its second
  FreshMs,      \* how long the palette's data is not loaded again
  MaxToasts,
  Frames,       \* events of the recorded run
  MaxSeeds, SuiteProgramLimit, SuiteRunLimit_, Preselected   \* of the form of a suite

First_ == "g"
Seconds == {"d", "p", "r", "s", "a", "m", "t"}

(***************************************************************************)
(* A key press: key, mod (with Ctrl, Cmd or Alt), typing (into a field),   *)
(* at (when), served (whether the palette's route answers).                *)
(***************************************************************************)
NoHand == [open |-> FALSE, help |-> FALSE, first |-> FALSE, at |-> 0, went |-> FALSE, data |-> FALSE, loadedAt |-> -1, asked |-> FALSE]

\* Bug: a first key never gets old.
Waits_For_Ever(s, e) == s.first
Waits_For(s, e) == s.first /\ e.at - s.at <= SequenceMs

PressKey(s, e) ==
  IF e.mod THEN [s EXCEPT !.first = FALSE]
  ELSE IF Waits_For(s, e) /\ e.key \in Seconds THEN [s EXCEPT !.first = FALSE, !.went = TRUE]
  ELSE [s EXCEPT !.first = (e.key = First_), !.at = e.at]

(* Opening loads what can be jumped to, unless it was loaded a moment ago; a  *)
(* load that fails is forgotten, so the next opening tries again.             *)
LoadPalette(s, e) ==
  IF s.loadedAt >= 0 /\ e.at - s.loadedAt < FreshMs THEN s
  ELSE [s EXCEPT !.asked = TRUE, !.data = e.served \/ @, !.loadedAt = IF e.served THEN e.at ELSE -1]

Show_(s, e, next) == IF next THEN LoadPalette([s EXCEPT !.open = TRUE], e) ELSE [s EXCEPT !.open = FALSE]

OnKey(before, e) ==
  LET s == [before EXCEPT !.went = FALSE, !.asked = FALSE] IN
  CASE e.mod /\ e.key = "k" -> Show_(s, e, ~s.open)
    [] e.key = "escape" -> [s EXCEPT !.open = FALSE, !.help = FALSE]
    [] e.key = "help" /\ s.open -> [s EXCEPT !.open = FALSE, !.help = TRUE]
    [] (s.open \/ s.help \/ e.typing) /\ e.key \notin {"help", "escape"} /\ ~(e.mod /\ e.key = "k") -> s
    [] e.key = "?" /\ ~(s.open \/ s.help \/ e.typing) -> [s EXCEPT !.help = TRUE]
    [] e.key \notin {"?", "help", "escape"} /\ ~(e.mod /\ e.key = "k") /\ ~(s.open \/ s.help \/ e.typing) -> PressKey(s, e)
    [] OTHER -> s

After_(op(_, _), start, inputs, n) == FoldLeft(op, start, SubSeq(inputs, 1, n))

(***************************************************************************)
(* Toasts: an input raises a message, or closes or removes the oldest.     *)
(***************************************************************************)
\* Bug: a message that is on screen already is put there again.
Push_Stacked(queue, text) ==
  LET all == Append(queue, [text |-> text, open |-> TRUE])
  IN SubSeq(all, (IF Len(all) > MaxToasts THEN Len(all) - MaxToasts ELSE 0) + 1, Len(all))
Push(queue, text) ==
  LET all == SelectSeq(queue, LAMBDA t : t.text # text) \o <<[text |-> text, open |-> TRUE]>>
  IN SubSeq(all, (IF Len(all) > MaxToasts THEN Len(all) - MaxToasts ELSE 0) + 1, Len(all))

Toast(queue, input) ==
  CASE input = "close" /\ queue # <<>> -> [queue EXCEPT ![1].open = FALSE]
    [] input = "played" /\ queue # <<>> /\ ~queue[1].open -> Tail(queue)
    [] input \notin {"close", "played"} -> Push(queue, input)
    [] OTHER -> queue

(***************************************************************************)
(* The recorded run: complete until the first tick rewinds it, then an     *)
(* event a tick; the button pauses, plays or, at the end, plays again.     *)
(***************************************************************************)
Complete == [started |-> FALSE, shown |-> Frames, paused |-> FALSE]
Finished_(s) == s.started /\ s.shown >= Frames
Play(s, input) ==
  CASE input = "tick" /\ ~s.paused ->
         IF s.started THEN [s EXCEPT !.shown = IF @ < Frames THEN @ + 1 ELSE @] ELSE [s EXCEPT !.started = TRUE, !.shown = 0]
    [] input = "toggle" -> IF Finished_(s) THEN [s EXCEPT !.shown = 0, !.paused = FALSE] ELSE [s EXCEPT !.paused = ~@]
    [] OTHER -> s

(* A stored run is replayed from its rows; those that no longer parse are     *)
(* counted.                                                                   *)
Replay(rows) == [events |-> SelectSeq(rows, LAMBDA r : r # "strange"), unreadable |-> Len(SelectSeq(rows, LAMBDA r : r = "strange"))]

(***************************************************************************)
(* A dialog with a form that is answered by an action of the server: a     *)
(* project, a program, or a key, which is shown in the place of a closing  *)
(* dialog.  An input opens or closes the dialog, sends the form or is its  *)
(* answer; a form may be closed before its answer comes.                   *)
(***************************************************************************)
NoDialog(linked) == [open |-> linked, linked |-> linked, sent |-> FALSE, error |-> FALSE, told |-> 0, made |-> 0]

\* Bug: the button can be pressed again before the answer.
Sends_Again(s) == s.open
Sends(s) == s.open /\ ~s.sent

(* A refusal is kept until the next answer, also in a dialog that was closed.  *)
FormAnswer(s, input) ==
  CASE input = "send" /\ Sends(s) -> [s EXCEPT !.sent = TRUE, !.made = @ + 1]
    [] input = "taken" /\ s.sent -> [s EXCEPT !.open = FALSE, !.sent = FALSE, !.error = FALSE, !.told = @ + 1]
    [] input = "refused" /\ s.sent -> [s EXCEPT !.sent = FALSE, !.error = TRUE, !.made = @ - 1]
    [] OTHER -> s

ProgramDialog(s, input) == IF input \in {"open", "close"} THEN [s EXCEPT !.open = (input = "open")] ELSE FormAnswer(s, input)

(* An address that opened the dialog of a project is cleaned by closing it by *)
(* hand, and not when the form was taken.                                     *)
ProjectDialog(s, input) ==
  LET next == ProgramDialog(s, input) IN IF input = "close" /\ s.open THEN [next EXCEPT !.linked = FALSE] ELSE next

(***************************************************************************)
(* The form of an API key: a key is shown when it is made, until the next  *)
(* answer, and its button copies it; what it says it copied may have been  *)
(* another key, since nothing takes it back when a new one is shown.       *)
(***************************************************************************)
NoKey_ == [made |-> 0, key |-> 0, error |-> FALSE, clip |-> 0, copied |-> FALSE]

KeyForm(s, input) ==
  CASE input = "made" -> [s EXCEPT !.made = @ + 1, !.key = s.made + 1, !.error = FALSE]
    [] input = "refused" -> [s EXCEPT !.key = 0, !.error = TRUE]
    [] input = "copy" /\ s.key > 0 -> [s EXCEPT !.clip = s.key, !.copied = TRUE]
    [] input = "blocked" /\ s.key > 0 -> [s EXCEPT !.copied = FALSE]
    [] OTHER -> s

(***************************************************************************)
(* A run started from the page of a program: refused, or a stream of       *)
(* events that ends with one of two or is cut.                             *)
(***************************************************************************)
NoRun_ == [running |-> FALSE, trace |-> "none", problem |-> FALSE, told |-> "nothing", fresh |-> TRUE, starts |-> 0]

\* Bug: what the run before left on screen stays there.
Cleared_Not(s) == s
Cleared(s) == [s EXCEPT !.trace = "none", !.problem = FALSE]

RunProgram(s, input) ==
  LET over(told) == [s EXCEPT !.running = FALSE, !.told = told] IN
  CASE input = "start" /\ ~s.running -> [Cleared(s) EXCEPT !.running = TRUE, !.told = "nothing", !.fresh = FALSE, !.starts = @ + 1]
    [] input = "refused" /\ s.running /\ s.trace = "none" -> [over("not started") EXCEPT !.problem = TRUE]
    [] input \in {"going", "converged", "failed"} /\ s.running /\ (s.trace \in {"none", "going"} \/ (s.trace = "converged" /\ input = "failed")) ->
         [s EXCEPT !.trace = input]
    [] input = "end" /\ s.running /\ s.trace \in {"converged", "failed"} ->
         [over(IF s.trace = "failed" THEN "failed" ELSE "saved") EXCEPT !.fresh = TRUE]
    [] input = "cut" /\ s.running -> [over("interrupted") EXCEPT !.problem = TRUE]
    [] OTHER -> s

(***************************************************************************)
(* The form of a suite: what is ticked when it opens, whether its button   *)
(* works, and what the server makes of it.                                 *)
(***************************************************************************)
Ticked(programs, methods) ==
  [programs |-> IF programs > Preselected THEN Preselected ELSE programs,
   methods |-> Cardinality({"random_baseline", "fixed_pipeline", "greedy", "astar"} \cap methods), seeds |-> 1]
PlannedBy(f) == f.programs * f.methods * f.seeds
Enabled(f) == PlannedBy(f) > 0 /\ PlannedBy(f) <= SuiteRunLimit_
Taken_By(f) ==
  /\ f.programs \in 1 .. SuiteProgramLimit /\ f.methods > 0 /\ f.seeds \in 1 .. MaxSeeds
  /\ PlannedBy(f) <= SuiteRunLimit_

-----------------------------------------------------------------------------
(* A shortcut leads somewhere exactly on the second of two keys in a row, in  *)
(* time and unmodified, of those pressed outside fields and dialogs; and the  *)
(* palette asks again only when it has no answer or an old one.               *)
KeysTell(presses) ==
  LET states == [n \in 0 .. Len(presses) |-> After_(OnKey, NoHand, presses, n)]
      heard == {n \in DOMAIN presses :
                  /\ ~(states[n - 1].open \/ states[n - 1].help \/ presses[n].typing)
                  /\ presses[n].key \notin {"?", "help", "escape"} /\ ~(presses[n].mod /\ presses[n].key = "k")}
      pair(m, n) ==
        /\ m < n /\ {m, n} \subseteq heard /\ \A k \in heard : k <= m \/ k >= n
        /\ presses[m].key = First_ /\ presses[n].key \in Seconds /\ ~presses[m].mod /\ ~presses[n].mod
        /\ presses[n].at - presses[m].at <= SequenceMs
  IN \A n \in DOMAIN presses :
       /\ states[n].went <=> \E m \in 1 .. n - 1 : pair(m, n)
       /\ states[n].asked => \A m \in 1 .. n - 1 : states[m].asked /\ presses[m].served => presses[n].at - presses[m].at >= FreshMs
       /\ states[n].open /\ ~states[n].data => \E m \in 1 .. n : states[m].asked /\ ~presses[m].served

(* Every message raised is on screen, last, once, and never more than fit.    *)
ToastsTell(inputs) ==
  LET queue == [n \in DOMAIN inputs |-> After_(Toast, <<>>, inputs, n)] IN
  \A n \in DOMAIN inputs :
    /\ Len(queue[n]) <= MaxToasts
    /\ \A i, j \in DOMAIN queue[n] : i # j => queue[n][i].text # queue[n][j].text
    /\ inputs[n] \notin {"close", "played"} => Last(queue[n]) = [text |-> inputs[n], open |-> TRUE]

(* The recorded run is never paused at its end, so the button that replays it *)
(* always plays it; and left to itself it reaches the end.                    *)
PlaybackTells(inputs) ==
  LET s == After_(Play, Complete, inputs, Len(inputs))
      later == FoldLeft(Play, s, [k \in 1 .. Frames + 1 |-> "tick"])
  IN /\ s.shown \in 0 .. Frames /\ ~(s.paused /\ Finished_(s))
     /\ Finished_(later) \/ later.paused

(* A form sent once is taken once and told once; the dialog is closed by what *)
(* was taken, and by nothing that was refused; what it shows as refused was.  *)
DialogTells(linked, inputs) ==
  LET s == [n \in 0 .. Len(inputs) |-> IF linked THEN After_(ProjectDialog, NoDialog(TRUE), inputs, n)
                                                 ELSE After_(ProgramDialog, NoDialog(FALSE), inputs, n)]
      answers == {n \in DOMAIN inputs : inputs[n] \in {"taken", "refused"} /\ s[n - 1].sent}
  IN \A n \in DOMAIN inputs :
       /\ s[n].told + (IF s[n].sent THEN 1 ELSE 0) = s[n].made
       /\ inputs[n] = "refused" => s[n].open = s[n - 1].open
       /\ s[n].error <=> \E m \in answers : /\ m <= n /\ inputs[m] = "refused"
                                            /\ \A k \in answers : k <= m \/ k > n
       /\ s[n].linked => s[n].open \/ s[n].told > 0

(* Every key is shown once it is made, and no key again after another answer; *)
(* what was copied is a key that was shown, and the one shown now unless it   *)
(* was made since.                                                            *)
KeyFormTells(inputs) ==
  LET s == [n \in 0 .. Len(inputs) |-> After_(KeyForm, NoKey_, inputs, n)] IN
  \A n \in DOMAIN inputs :
    /\ s[n].made > s[n - 1].made => s[n].key = s[n].made /\ ~s[n].error
    /\ s[n].key > 0 => s[n].key = s[n].made
    /\ s[n].copied => s[n].clip > 0 /\ (s[n].key > s[n].clip => \E m \in 1 .. n : inputs[m] = "made" /\ s[m - 1].copied)
    /\ s[n].clip <= s[n].made

(* One run at a time, and each is told of when it is over: a trace that stops *)
(* short is explained, and a run that ended is in the history.                *)
RunTells(inputs) ==
  LET s == [n \in 0 .. Len(inputs) |-> After_(RunProgram, NoRun_, inputs, n)] IN
  \A n \in DOMAIN inputs :
    /\ s[n].starts > 0 => (s[n].running <=> s[n].told = "nothing")
    /\ s[n].trace = "going" => s[n].running \/ s[n].problem
    /\ s[n].problem <=> s[n].told \in {"not started", "interrupted"}
    /\ s[n].told \in {"saved", "failed"} => s[n].fresh /\ (s[n].trace = "failed" <=> s[n].told = "failed")
    /\ s[n].trace \in {"converged", "failed"} => s[n].running \/ s[n].told # "nothing"

(* What the form of a suite sends is taken, and what it does not offer would  *)
(* be refused; only the number of programs is left to the server.             *)
FormTells(f) == f.programs <= SuiteProgramLimit => (Enabled(f) <=> Taken_By(f))
=============================================================================
