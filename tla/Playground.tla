----------------------------- MODULE Playground -----------------------------
(***************************************************************************)
(* The page where anyone tries the engine: an editor analysed as it is     *)
(* typed in, a run whose decision trace streams in beside it, and an       *)
(* address that is a link to both.  Typing, two timers, the analyses that  *)
(* were asked for and one stream all change the same screen.               *)
(***************************************************************************)
EXTENDS Integers, Sequences, SequencesExt, FiniteSetsExt

CONSTANTS
  Docs,       \* texts an editor may hold
  Clipped,    \* Clipped[d]: what is kept of d, its first MAX_SHARED_SOURCE characters
  Blank,      \* texts of white space only; the empty one is NoText
  NoText,
  Broken,     \* texts the parser rejects
  Samples,    \* the samples' texts, FirstSample the one the page opens with
  FirstSample,
  Searches,   \* methods of the menu, FirstSearch the one chosen at first
  FirstSearch,
  MaxChanges  \* bound: edits, choices and runs

ASSUME ClippedAssumption ==
  /\ Samples \subseteq Docs /\ FirstSample \in Samples /\ NoText \in Blank \cap Docs
  /\ Clipped \in [Docs -> Docs]
  /\ \A d \in Docs : Clipped[Clipped[d]] = Clipped[d] /\ (d \in Samples => Clipped[d] = d)
ASSUME MenuAssumption == FirstSearch \in Searches /\ MaxChanges \in Nat

VARIABLES
  doc,       \* the editor's document
  source,    \* the program: the document, clipped
  method,
  analysis,  \* its status, the program it is of and the last one analysed
  asked,     \* analyses asked for: of which program, and not aborted
  due,       \* the timers that run: "analysis" after 250 ms, "address" after 600
  trace,     \* the run on screen: of which program and how it stands
  wire,      \* the stream being read, and the last event it brought
  running,
  problem,   \* a message of a run that was not started or was cut
  tab,
  address,   \* the link in the address bar
  changes    \* history of the bound

playVars == <<doc, source, method, analysis, asked, due, trace, wire, running, problem, tab, address, changes>>

NoTrace == [of |-> NoText, end |-> "none"]
NoWire == [of |-> NoText, live |-> FALSE, said |-> "nothing"]
Link == [source : Docs, method : Searches]

(* decodeState: a link without a program opens the first sample. *)
Opened(link) ==
  IF link.source = NoText THEN [source |-> FirstSample, method |-> FirstSearch]
  ELSE [link EXCEPT !.source = Clipped[@]]

Idle_(of) == [status |-> "idle", of |-> of, last |-> NoText]

(* The page is opened from a link, or nobody opens it. *)
PlayInit(from, timers) ==
  /\ changes = 0
  /\ address \in from
  /\ source = Opened(address).source /\ doc = source /\ method = Opened(address).method
  /\ analysis = Idle_(NoText) /\ asked = {} /\ due = timers
  /\ trace = NoTrace /\ wire = NoWire /\ running = FALSE /\ problem = FALSE /\ tab = "graph"

Change == changes < MaxChanges /\ changes' = changes + 1

\* Bug: the request goes on.
Aborted_Not(w) == w
Aborted(w) == [w EXCEPT !.live = FALSE]

(* A program set by typing or by a sample: the run on screen is dropped, and  *)
(* if the program differs both timers start over and what was asked about     *)
(* the old one is aborted.                                                    *)
Set(text, shown) ==
  /\ Change
  /\ source' = text /\ doc' = shown
  /\ wire' = Aborted(wire) /\ trace' = NoTrace /\ problem' = FALSE /\ tab' = "graph"
  /\ IF text = source THEN UNCHANGED <<due, asked>>
     ELSE due' = {"analysis", "address"} /\ asked' = {Aborted(r) : r \in asked}
  /\ UNCHANGED <<method, analysis, running, address>>

(* A text past the limit is clipped in the editor only when the program       *)
(* changed with it: the effect that writes it back is keyed on the program.   *)
Type(next) == Set(Clipped[next], IF Clipped[next] = source THEN next ELSE Clipped[next])
Sample(text) == Set(text, IF text = source THEN doc ELSE text)

Choose_(m) ==
  /\ Change /\ m # method
  /\ method' = m /\ due' = due \cup {"address"}
  /\ UNCHANGED <<doc, source, analysis, asked, trace, wire, running, problem, tab, address>>

Analyze ==
  /\ "analysis" \in due /\ due' = due \ {"analysis"}
  /\ IF source \in Blank THEN analysis' = Idle_(source) /\ UNCHANGED asked
     ELSE /\ asked' = asked \cup {[of |-> source, live |-> TRUE]}
          /\ analysis' = IF analysis.status = "idle" THEN [analysis EXCEPT !.status = "loading"] ELSE analysis
  /\ UNCHANGED <<doc, source, method, trace, wire, running, problem, tab, address, changes>>

\* Bug: the answer to an analysis that was aborted is not told apart.
Counts_Late(request) == TRUE
Counts(request) == request.live

(* The engine's answer, its refusal or none at all: an aborted one is dropped *)
(* and a diagnostic keeps the analysis that stood before it on screen.        *)
AnswerOf(request) ==
  /\ request \in asked /\ asked' = asked \ {request}
  /\ analysis' \in
       IF ~Counts(request) THEN {analysis}
       ELSE {[status |-> "unavailable", of |-> request.of, last |-> NoText],
             IF request.of \notin Broken THEN [status |-> "ok", of |-> request.of, last |-> request.of]
             ELSE [status |-> "invalid", of |-> request.of, last |-> analysis.last]}
  /\ UNCHANGED <<doc, source, method, due, trace, wire, running, problem, tab, address, changes>>

MayRun == ~running /\ source \notin Blank /\ analysis.status # "invalid"

Run ==
  /\ Change /\ MayRun
  /\ wire' = [of |-> source, live |-> TRUE, said |-> "nothing"]
  /\ running' = TRUE /\ trace' = NoTrace /\ problem' = FALSE /\ tab' = "trace"
  /\ UNCHANGED <<doc, source, method, analysis, asked, due, address>>

(* The next events: the engine ends with one of two, and a service that       *)
(* fails is reported by the route as a failed run, whatever came before.      *)
Next_(said) ==
  (IF said \in {"nothing", "going"} THEN {"going", "converged", "failed"} ELSE {"failed"}) \ {said}

Brings(event) ==
  /\ wire.live /\ event \in Next_(wire.said)
  /\ wire' = [wire EXCEPT !.said = event]
  /\ trace' = [of |-> wire.of, end |-> event]
  /\ UNCHANGED <<doc, source, method, analysis, asked, due, running, problem, tab, address, changes>>

(* The stream ends.  After a last event the run is over; before one, or when  *)
(* it is cut or refused, there is a problem to show; aborted, there is not.   *)
RunOver(cut) ==
  /\ running /\ running' = FALSE /\ wire' = NoWire
  /\ IF ~wire.live THEN UNCHANGED <<problem, tab>>
     ELSE IF cut \/ wire.said \in {"nothing", "going"} THEN problem' = TRUE /\ UNCHANGED tab
     ELSE tab' = (IF wire.said = "converged" THEN "diff" ELSE tab) /\ UNCHANGED problem
  /\ UNCHANGED <<doc, source, method, analysis, asked, due, trace, address, changes>>

Pick(t) ==
  /\ t # tab /\ t = "diff" => trace.end = "converged"
  /\ tab' = t
  /\ UNCHANGED <<doc, source, method, analysis, asked, due, trace, wire, running, problem, address, changes>>

(* encodeState, by the timer or for the clipboard. *)
Encoded == [source |-> Clipped[source], method |-> method]
Address ==
  /\ "address" \in due /\ due' = due \ {"address"}
  /\ address' = Encoded
  /\ UNCHANGED <<doc, source, method, analysis, asked, trace, wire, running, problem, tab, changes>>
CopyLink ==
  /\ address' = Encoded /\ address' # address
  /\ UNCHANGED <<doc, source, method, analysis, asked, due, trace, wire, running, problem, tab, changes>>

(* The page is loaded again from its address: nothing else of it is left. *)
Reload ==
  /\ Change /\ UNCHANGED address
  /\ source' = Opened(address).source /\ doc' = source' /\ method' = Opened(address).method
  /\ analysis' = Idle_(NoText) /\ asked' = {} /\ due' = {"analysis", "address"}
  /\ trace' = NoTrace /\ wire' = NoWire /\ running' = FALSE /\ problem' = FALSE /\ tab' = "graph"

Answered == \E r \in asked : AnswerOf(r)
Streamed == (\E e \in {"converged", "failed"} : Brings(e)) \/ \E cut \in BOOLEAN : RunOver(cut)

PlayNext ==
  \/ \E d \in Docs : Type(d)
  \/ \E d \in Samples : Sample(d)
  \/ \E m \in Searches : Choose_(m)
  \/ Analyze \/ Answered \/ Run \/ Streamed \/ Brings("going")
  \/ \E t \in {"graph", "trace", "diff"} : Pick(t)
  \/ Address \/ CopyLink \/ Reload

(* Timers fire, requests are answered or fail, and a stream ends: every event *)
(* of a run costs the engine part of a bounded budget.                        *)
PlayFairness == WF_playVars(Analyze) /\ WF_playVars(Answered) /\ WF_playVars(Streamed) /\ WF_playVars(Address)

-----------------------------------------------------------------------------
(* The types: what was asked of the engine is a program, and not an empty one. *)
PlayTypeOK ==
  /\ doc \in Docs /\ source \in Range(Clipped) /\ method \in Searches /\ Clipped[doc] = source
  /\ analysis \in [status : {"idle", "loading", "ok", "invalid", "unavailable"}, of : Docs, last : Docs]
  /\ asked \subseteq [of : Docs \ Blank, live : BOOLEAN] /\ due \subseteq {"analysis", "address"}
  /\ trace \in [of : Docs, end : {"none", "going", "converged", "failed"}]
  /\ wire \in [of : Docs, live : BOOLEAN, said : {"nothing", "going", "converged", "failed"}]
  /\ running \in BOOLEAN /\ problem \in BOOLEAN /\ tab \in {"graph", "trace", "diff"}
  /\ address \in Link /\ changes \in 0 .. MaxChanges

(* What is on screen belongs together: a trace is of the program beside it;   *)
(* an analysis too, unless a newer one is on its way; the button is held by   *)
(* exactly the stream that is read, a trace that stopped short is explained,  *)
(* and the address, once its timer has run, opens this program again.         *)
ScreenAgrees ==
  /\ PlayTypeOK
  /\ trace.end # "none" => trace.of = source
  /\ \/ "analysis" \in due
     \/ [of |-> source, live |-> TRUE] \in asked
     \/ analysis.of = source /\ analysis.status # "loading" /\ (analysis.status = "idle" <=> source \in Blank)
  /\ \A r \in asked : r.live => r.of = source
  /\ running <=> wire # NoWire
  /\ trace.end = "going" => running \/ problem
  /\ tab = "diff" => trace.end \in {"converged", "failed"}
  /\ "address" \notin due /\ source # NoText => Opened(address) = [source |-> source, method |-> method]

(* Once the typing stops, the program is analysed and no run hangs. *)
ScreenRests == due = {} /\ asked = {} /\ ~running

-----------------------------------------------------------------------------
(***************************************************************************)
(* Where the flow graph of a program is drawn: blocks stacked in order,    *)
(* the edge to the next one straight down, other forward edges in lanes on *)
(* the right and backward ones in lanes on the left.  A block is its       *)
(* number of lines, an edge the rows it leaves and enters and its kind.    *)
(* And where the editor marks a mistake.                                   *)
(***************************************************************************)
LOCAL Least(a, b) == IF a < b THEN a ELSE b
LOCAL Most(a, b) == IF a < b THEN b ELSE a

BlockWidth == 240
ShownLines == 5
Gap == 34
LaneWidth == 14

BlockHeight(lines) == 26 + 16 * (Least(lines, ShownLines) + (IF lines > ShownLines THEN 1 ELSE 0)) + 10

SideOf(edge) == IF edge.to = edge.from + 1 THEN "down" ELSE IF edge.to > edge.from THEN "right" ELSE "left"

Low(edge) == Least(edge.from, edge.to)
High(edge) == Most(edge.from, edge.to)
\* Bug: edges that end where another begins share its lane.
Touch_Strictly(e, f) == Low(e) < High(f) /\ Low(f) < High(e)
Touch(e, f) == Low(e) <= High(f) /\ Low(f) <= High(e)

(* Lanes of the edges of one side: the shortest spans take the innermost, and *)
(* each the first lane in which it touches none of those already there.       *)
AssignLanes(edges, side) ==
  LET on == {i \in DOMAIN edges : SideOf(edges[i]) = side}
      Length(i) == High(edges[i]) - Low(edges[i])
      order == SetToSortSeq(on, LAMBDA i, j :
                 \/ Length(i) < Length(j)
                 \/ Length(i) = Length(j) /\ Low(edges[i]) < Low(edges[j])
                 \/ Length(i) = Length(j) /\ Low(edges[i]) = Low(edges[j]) /\ i < j)
      Free(lanes, i) == Min({l \in 0 .. Len(edges) : \A j \in DOMAIN lanes : lanes[j] = l => ~Touch(edges[i], edges[j])})
  IN FoldLeft(LAMBDA lanes, i : [j \in DOMAIN lanes \cup {i} |-> IF j = i THEN Free(lanes, i) ELSE lanes[j]], <<>>, order)

Room(lanes) == (IF lanes = <<>> THEN 0 ELSE (Max({lanes[i] : i \in DOMAIN lanes}) + 1) * LaneWidth) + 18

TopOf(blocks, row) == 8 + FoldLeft(LAMBDA y, lines : y + BlockHeight(lines) + Gap, 0, SubSeq(blocks, 1, row - 1))
BottomOf(blocks, row) == TopOf(blocks, row) + BlockHeight(blocks[row])

(* An edge as the vertical line it is drawn with. *)
Drawn(blocks, edges, i) ==
  LET e == edges[i]
      left == AssignLanes(edges, "left")
      right == AssignLanes(edges, "right")
      x == Room(left)
  IN CASE SideOf(e) = "down" ->
            [x |-> x + BlockWidth \div 2 + (CASE e.kind = "true" -> -18 [] e.kind = "false" -> 18 [] OTHER -> 0),
             from |-> BottomOf(blocks, e.from), to |-> TopOf(blocks, e.to)]
       [] SideOf(e) = "right" ->
            [x |-> x + BlockWidth + 14 + right[i] * LaneWidth,
             from |-> BottomOf(blocks, e.from) - 12, to |-> TopOf(blocks, e.to) + 14]
       [] OTHER ->
            [x |-> x - 14 - left[i] * LaneWidth,
             from |-> BottomOf(blocks, e.from) - 12, to |-> TopOf(blocks, e.to) + 14]

Width(edges) == Room(AssignLanes(edges, "left")) + BlockWidth + Room(AssignLanes(edges, "right"))

(* What a block shows of its instructions: the places of the lines in it, and *)
(* how many more there are.                                                   *)
Lines_(lines) == [at |-> [i \in 1 .. Least(lines, ShownLines) |-> 22 + 16 * i], more |-> Most(lines - ShownLines, 0)]

(* The graph with a block selected, by its row: which blocks and edges stand  *)
(* out.  The listing and the table of facts show the same blocks.             *)
CfgGraph(blocks, edges, selected) ==
  [bold |-> DOMAIN blocks \cap selected,
   clear |-> {i \in DOMAIN edges : selected = {} \/ selected \cap {edges[i].from, edges[i].to} # {}},
   text |-> [b \in DOMAIN blocks |-> Lines_(blocks[b])]]
TacView(blocks, selected) == [bold |-> DOMAIN blocks \cap selected, text |-> blocks]
DataflowTable(blocks, selected) == [bold |-> DOMAIN blocks \cap selected, rows |-> Len(blocks)]

(* The characters a mistake is marked at, in a document given by the lengths  *)
(* of its lines: none when the line is gone, the end of the line when the     *)
(* column is past it.                                                         *)
Marked(lengths, line, column) ==
  IF line > Len(lengths) THEN <<>>
  ELSE LET start == FoldLeft(LAMBDA at, n : at + n + 1, 0, SubSeq(lengths, 1, line - 1))
           end == start + lengths[line]
           from == Least(start + Most(column - 1, 0), end)
       IN <<from, IF Least(from + 1, end) = 0 THEN from ELSE Least(from + 1, end)>>

-----------------------------------------------------------------------------
\* lines: how the edges are drawn.
Apart(edges, lines, room, width) ==
  /\ \A i, j \in DOMAIN edges :
       i # j /\ lines[i].x = lines[j].x =>
         \/ Most(lines[i].from, lines[i].to) < Least(lines[j].from, lines[j].to)
         \/ Most(lines[j].from, lines[j].to) < Least(lines[i].from, lines[i].to)
  /\ \A i \in DOMAIN edges :
       /\ lines[i].x >= 0 /\ lines[i].x <= width
       /\ SideOf(edges[i]) # "down" => lines[i].x < room \/ lines[i].x > room + BlockWidth

(* No line is drawn over another: two edges whose lines share an x do not     *)
(* share a y, every line is on the canvas, the blocks keep a gap, and those   *)
(* at the sides pass no block.                                                *)
LinesApart(blocks, edges) ==
  /\ Apart(edges, [i \in DOMAIN edges |-> Drawn(blocks, edges, i)], Room(AssignLanes(edges, "left")), Width(edges))
  /\ \A r \in 1 .. Len(blocks) - 1 : BottomOf(blocks, r) < TopOf(blocks, r + 1)

(* A block holds the lines it shows and says how many it leaves out; the three*)
(* views mark the same block, also when a new analysis has fewer blocks than  *)
(* the one it was selected in, and then they mark none.                       *)
ViewsAgree(blocks, edges, selected) ==
  LET graph == CfgGraph(blocks, edges, selected)
      tac == TacView(blocks, selected)
      table_ == DataflowTable(blocks, selected)
  IN /\ graph.bold = tac.bold /\ graph.bold = table_.bold /\ table_.rows = Len(tac.text)
     /\ \A b \in DOMAIN blocks : LET text == graph.text[b] IN
          /\ Len(text.at) + text.more = tac.text[b]
          /\ \A i \in DOMAIN text.at : text.at[i] + (IF text.more > 0 THEN 16 ELSE 0) < BlockHeight(blocks[b])
     /\ \A i \in DOMAIN edges :
          i \in graph.clear \/ (selected # {} /\ {edges[i].from, edges[i].to} \cap graph.bold = {})

(* A mark stays inside its line, also when the document has changed since. *)
MarkInLine(lengths, line, column) ==
  LET mark == Marked(lengths, line, column)
      start == FoldLeft(LAMBDA at, n : at + n + 1, 0, SubSeq(lengths, 1, line - 1))
  IN mark # <<>> => start <= mark[1] /\ mark[1] <= mark[2] /\ mark[2] <= start + lengths[line]
=============================================================================
