-------------------------------- MODULE Pages --------------------------------
(***************************************************************************)
(* What the pages compute from stored runs and from the wire: the plan and *)
(* the results of a suite (web/lib/suites), the analytics of a workspace   *)
(* (analytics.ts), the comparison of two runs and of two listings          *)
(* (compare.ts, diff.ts) and the lines of a live stream (event-stream.ts). *)
(* All of it is folded from rows, with no query in between.                *)
(*                                                                         *)
(* A null cost is NoCost, a null mean or quantile is Nothing; a mean is    *)
(* the pair of a sum and a count, compared by cross multiplication.        *)
(* Quantiles are four times their value, so that they are whole.           *)
(***************************************************************************)
EXTENDS Integers, Sequences, FiniteSets, SequencesExt, FiniteSetsExt

CONSTANTS
  Controls,   \* methods with METHOD_META.baseline
  Alphabet    \* names of methods and of kinds of rewrites, as localeCompare orders them

NoCost == -1
Nothing == <<0, 0>>
Pending == {"QUEUED", "RUNNING"}

Count(s, P(_)) == Len(SelectSeq(s, P))
Total(s) == FoldLeft(+, 0, s)
Each(s, F(_)) == [i \in DOMAIN s |-> F(s[i])]
\* [...new Set(s)]: in the order of first appearance.
Unique(s) == FoldLeft(LAMBDA seen, x : IF Contains(seen, x) THEN seen ELSE Append(seen, x), <<>>, s)
\* A stable sort.
Sorted(s, First(_, _)) ==
  LET places == SetToSortSeq(DOMAIN s, LAMBDA i, j :
        First(s[i], s[j]) \/ (~First(s[j], s[i]) /\ i < j))
  IN [i \in DOMAIN s |-> s[places[i]]]

\* a.localeCompare(b) < 0
Before(a, b) == LET At(x) == CHOOSE i \in DOMAIN Alphabet : Alphabet[i] = x IN At(a) < At(b)

Mean(values) == <<Total(values), Len(values)>>
\* a < b, for means; a null one is below every other.
Below(a, b) ==
  IF a = Nothing \/ b = Nothing THEN a = Nothing /\ b # Nothing ELSE a[1] * b[2] < b[1] * a[2]

-----------------------------------------------------------------------------
(* The grid *)

\* planRuns: seed outermost, then program, then method.
PlanRuns(programIds, grid) ==
  LET methods == Unique(grid.methods) seeds == Unique(grid.seeds)
      m == Len(methods) p == Len(programIds)
  IN [i \in 1 .. Len(seeds) * p * m |->
        [program |-> programIds[(((i - 1) \div m) % p) + 1],
         method |-> methods[((i - 1) % m) + 1],
         seed |-> seeds[((i - 1) \div (m * p)) + 1]]]

PlannedCount(programs, grid) ==
  programs * Cardinality(ToSet(grid.methods)) * Cardinality(ToSet(grid.seeds))
-----------------------------------------------------------------------------
(* The results of a suite *)

\* Bug: a run that stopped halfway counts for as far as it came.
Reduces_Partly(row) == row.before > 0 /\ row.after # NoCost

\* reductionOf is a number: it finished with both costs, and the first is not zero.
Reduces(row) == row.status = "SUCCEEDED" /\ row.before > 0 /\ row.after # NoCost

Reduction(row) == ((row.before - row.after) * 100) \div row.before
Reductions(rows) == Each(SelectSeq(rows, Reduces), Reduction)

\* Four times the quantile k/4 of sorted values.
Quantile(sorted, k) ==
  LET position == (Len(sorted) - 1) * k
      low == position \div 4
      high == (position + 3) \div 4
  IN 4 * sorted[low + 1] + (sorted[high + 1] - sorted[low + 1]) * (position % 4)

Spread(values) ==
  LET sorted == Sorted(values, <)
  IN IF values = <<>> THEN [n |-> 0]
     ELSE [n |-> Len(values), mean |-> Mean(values), median |-> Quantile(sorted, 2),
           q1 |-> Quantile(sorted, 1), q3 |-> Quantile(sorted, 3),
           min |-> sorted[1], max |-> sorted[Len(sorted)]]

\* Bug: a run that is under way is no longer waiting.
Waits_Queued(row) == row.status = "QUEUED"
Waits(row) == row.status \in Pending

MethodResult(rows, name) ==
  LET mine == SelectSeq(rows, LAMBDA r : r.method = name) IN
  [method |-> name, baseline |-> name \in Controls, planned |-> Len(mine),
   succeeded |-> Count(mine, LAMBDA r : r.status = "SUCCEEDED"),
   failed |-> Count(mine, LAMBDA r : r.status = "FAILED"),
   abandoned |-> Count(mine, LAMBDA r : r.status = "ABANDONED"),
   pending |-> Count(mine, Waits),
   reductions |-> Reductions(mine), spread |-> Spread(Reductions(mine)),
   pass |-> Count(mine, LAMBDA r : r.match = "yes"),
   fail |-> Count(mine, LAMBDA r : r.match = "no"),
   unchecked |-> Count(mine, LAMBDA r : r.match = "unasked" /\ ~Waits(r)),
   proofs |-> [v \in {mine[i].proof : i \in DOMAIN mine} \ {"none"} |-> Count(mine, LAMBDA r : r.proof = v)]]

\* By median, lowest first, one without any before all others; names break ties.
Ramp(a, b) ==
  LET Low(x, y) == IF x.spread.n = 0 \/ y.spread.n = 0 THEN x.spread.n = 0 /\ y.spread.n > 0
                   ELSE x.spread.median < y.spread.median
  IN Low(a, b) \/ (~Low(b, a) /\ Before(a.method, b.method))

\* cells[method], for the methods the program was run with; best is the first with the largest mean.
ProgramResult(rows, names, program) ==
  LET mine == SelectSeq(rows, LAMBDA r : r.program = program)
      Of(m) == SelectSeq(mine, LAMBDA r : r.method = m)
      run == SelectSeq(names, LAMBDA m : Of(m) # <<>>)
      cells == [m \in ToSet(run) |->
                  [reduction |-> Mean(Reductions(Of(m))), runs |-> Len(Of(m)),
                   finished |-> Len(Reductions(Of(m))),
                   outputFailed |-> Count(Of(m), LAMBDA r : r.match = "no") > 0,
                   runId |-> Head(Of(m)).id]]
  IN [program |-> program, cells |-> cells,
      best |-> FoldLeft(LAMBDA best, m :
                 IF cells[m].finished = 0 THEN best
                 ELSE IF best = "none" THEN m
                 ELSE IF Below(cells[best].reduction, cells[m].reduction) THEN m ELSE best,
                 "none", run)]

IsSearch(row) == row.method \notin Controls

SummarizeSuite(rows, methodOrder) ==
  LET names == Unique(methodOrder \o Each(rows, LAMBDA r : r.method)) IN
  [methods |-> Sorted(Each(names, LAMBDA m : MethodResult(rows, m)), Ramp),
   programs |-> Each(Unique(Each(rows, LAMBDA r : r.program)), LAMBDA p : ProgramResult(rows, names, p)),
   total |-> Len(rows),
   finished |-> Len(rows) - Count(rows, Waits),
   overallMean |-> Mean(Reductions(rows)),
   searchMean |-> Mean(Reductions(SelectSeq(rows, IsSearch)))]

\* suiteCsv: one line per run, its reduction worked out in the same way.
SuiteCsv(rows) == Each(rows, LAMBDA r : [id |-> r.id, reduction |-> Reductions(<<r>>)])
-----------------------------------------------------------------------------
(* The analytics of a workspace *)

Headline(rows) ==
  LET finished == SelectSeq(rows, LAMBDA r : ~Waits(r)) IN
  [runs |-> Len(rows), finished |-> Len(finished),
   succeededShare |-> <<Count(finished, LAMBDA r : r.status = "SUCCEEDED"), Len(finished)>>,
   overallMean |-> Mean(Reductions(rows)),
   searchMean |-> Mean(Reductions(SelectSeq(rows, IsSearch))),
   matched |-> Count(rows, LAMBDA r : r.match = "yes"),
   checked |-> Count(rows, LAMBDA r : r.match # "unasked")]

\* One bucket per day to today: the last days of them, or from the first run's when days is 0.
RunsPerDay(rows, days, today) ==
  LET first == IF days > 0 THEN today - (days - 1)
               ELSE Min({rows[i].day : i \in DOMAIN rows} \cup {today})
      On(d) == SelectSeq(rows, LAMBDA r : r.day = d)
  IN [d \in first .. today |->
        [succeeded |-> Count(On(d), LAMBDA r : r.status = "SUCCEEDED"),
         failed |-> Count(On(d), LAMBDA r : r.status \in {"FAILED", "ABANDONED"}),
         other |-> Count(On(d), Waits)]]

\* Mean reduction per category and method, largest overall first.
ByCategory(rows, methods) ==
  LET In(c) == SelectSeq(rows, LAMBDA r : r.category = c)
      Row(c) == [category |-> c, overall |-> Mean(Reductions(In(c))),
                 byMethod |-> [m \in ToSet(methods) |->
                                 Mean(Reductions(SelectSeq(In(c), LAMBDA r : r.method = m)))]]
  IN Sorted(Each(Unique(Each(rows, LAMBDA r : r.category)), Row), LAMBDA a, b : Below(b.overall, a.overall))

\* Programs by the mean time of the runs that ended, slowest first.
SlowestPrograms(rows, limit) ==
  LET timed == SelectSeq(rows, LAMBDA r : r.seconds # NoCost /\ r.status # "QUEUED")
      Of(p) == SelectSeq(timed, LAMBDA r : r.program = p)
      Timing(p) == [program |-> p, runs |-> Len(Of(p)), seconds |-> Spread(Each(Of(p), LAMBDA r : r.seconds))]
      all == Sorted(Each(Unique(Each(timed, LAMBDA r : r.program)), Timing),
                    LAMBDA a, b : Below(b.seconds.mean, a.seconds.mean))
  IN SubSeq(all, 1, Min({limit, Len(all)}))
-----------------------------------------------------------------------------
(* Two walks side by side, and the diff of two listings *)

\* The length of a longest common subsequence of a[i..] and b[j..].
Common(a, b) ==
  LET lcs[i \in 1 .. Len(a) + 1, j \in 1 .. Len(b) + 1] ==
        IF i > Len(a) \/ j > Len(b) THEN 0
        ELSE IF a[i] = b[j] THEN lcs[i + 1, j + 1] + 1
        ELSE Max({lcs[i + 1, j], lcs[i, j + 1]})
  IN lcs

\* Bug: the walk takes what is longer behind the wrong side.
Drops_Shorter(lcs, i, j) == lcs[i + 1, j] <= lcs[i, j + 1]
Drops(lcs, i, j) == lcs[i + 1, j] >= lcs[i, j + 1]

\* diffLines and alignSteps: both walk the table from the start.
Aligned(a, b) ==
  LET lcs == Common(a, b)
      walk[i \in 1 .. Len(a) + 1, j \in 1 .. Len(b) + 1] ==
        CASE i > Len(a) -> [k \in 1 .. Len(b) - j + 1 |-> [kind |-> "b", at |-> b[j + k - 1]]]
          [] j > Len(b) /\ i <= Len(a) -> [k \in 1 .. Len(a) - i + 1 |-> [kind |-> "a", at |-> a[i + k - 1]]]
          [] OTHER ->
               IF a[i] = b[j] THEN <<[kind |-> "both", at |-> a[i]]>> \o walk[i + 1, j + 1]
               ELSE IF Drops(lcs, i, j) THEN <<[kind |-> "a", at |-> a[i]]>> \o walk[i + 1, j]
               ELSE <<[kind |-> "b", at |-> b[j]]>> \o walk[i, j + 1]
  IN walk[1, 1]

DiffStats(lines) == [added |-> Count(lines, LAMBDA l : l.kind = "b"), removed |-> Count(lines, LAMBDA l : l.kind = "a")]

\* lineChange: where two listings differ, matched from both ends; {} when they do not.
LineChange(before, after) ==
  LET shortest == Min({Len(before), Len(after)})
      Same(k) == SubSeq(before, 1, k) = SubSeq(after, 1, k)
      prefix == Max({k \in 0 .. shortest : Same(k)})
      Tail_(s, k) == SubSeq(s, Len(s) - k + 1, Len(s))
      suffix == Max({k \in 0 .. shortest - prefix : Tail_(before, k) = Tail_(after, k)})
  IN IF before = after THEN {}
     ELSE {[start |-> prefix, length |-> Len(after) - suffix - prefix, removed |-> Len(before) - suffix - prefix]}

\* kindCounts, over the kinds of the rewrites two walks kept.
KindCounts(a, b) ==
  LET Of(t) == [type |-> t, a |-> Count(a, LAMBDA x : x = t), b |-> Count(b, LAMBDA x : x = t)]
      Gap(k) == IF k.a > k.b THEN k.a - k.b ELSE k.b - k.a
      First(x, y) ==
        \/ Gap(x) > Gap(y)
        \/ Gap(x) = Gap(y) /\ x.a + x.b > y.a + y.b
        \/ Gap(x) = Gap(y) /\ x.a + x.b = y.a + y.b /\ Before(x.type, y.type)
  IN Sorted(Each(Unique(a \o b), Of), First)
-----------------------------------------------------------------------------
(* A stream of lines that arrives in pieces: a piece is a sequence of         *)
(* characters, "/" ends a line, and a line is an event when it is one of      *)
(* events; trimming a line of its spaces is left out.                         *)

\* The lines of the text that are ended, and what is left after the last end.
Lines(text) ==
  FoldLeft(LAMBDA acc, c : IF c = "/" THEN [ended |-> Append(acc.ended, acc.rest), rest |-> <<>>]
                           ELSE [acc EXCEPT !.rest = Append(@, c)],
           [ended |-> <<>>, rest |-> <<>>], text)

Taken(lines, events) == SelectSeq(lines, LAMBDA l : l \in events)

\* Bug: a piece is taken for a whole number of lines.
Carried_Dropped(buffer, piece) == piece
Carried(buffer, piece) == buffer \o piece

\* readEventStream: the batches handed over, then the tail; finals are the events a whole run ends with.
ReadStream(pieces, events, finals) ==
  LET Read(acc, piece) ==
        LET cut == Lines(Carried(acc.buffer, piece))
        IN [buffer |-> cut.rest, seen |-> acc.seen \o Taken(cut.ended, events)]
      read == FoldLeft(Read, [buffer |-> <<>>, seen |-> <<>>], pieces)
      seen == read.seen \o Taken(<<read.buffer>>, events)
  IN [seen |-> seen, ended |-> seen # <<>> /\ Last(seen) \in finals]

\* Bug: what comes after the last newline is no line.
LinesOf_Ended(read) == read.lines
LinesOf(read) == IF read.buffer = <<>> THEN read.lines ELSE Append(read.lines, read.buffer)

\* readLines: the lines of the compute service that are not blank, whatever pieces they come in.
ReadLines(pieces) ==
  LET Read(acc, piece) ==
        LET cut == Lines(acc.buffer \o piece)
        IN [buffer |-> cut.rest, lines |-> acc.lines \o SelectSeq(cut.ended, LAMBDA l : l # <<>>)]
  IN LinesOf(FoldLeft(Read, [buffer |-> <<>>, lines |-> <<>>], pieces))

\* optimize: the events up to the first line that is none; that line throws.
Optimize_(pieces, events) ==
  LET lines == ReadLines(pieces)
      strange == {i \in DOMAIN lines : lines[i] \notin events}
  IN [given |-> IF strange = {} THEN lines ELSE SubSeq(lines, 1, Min(strange) - 1), threw |-> strange # {}]
-----------------------------------------------------------------------------
\* The rows of a suite in every form they are shown in: r the suite's page, h the headline.
ViewsOfSuite(rows, r, h, categories, days, timed) ==
  LET All(seq, F(_)) == Total(Each(seq, F))
      Sum(mean) == mean[1]
      CellsOf(p, F(_)) == FoldSet(LAMBDA m, n : n + F(p.cells[m]), 0, DOMAIN p.cells)
      Methods(F(_)) == All(r.methods, F)
      Programs(F(_)) == All(r.programs, LAMBDA p : CellsOf(p, F))
  IN /\ {Len(rows), Methods(LAMBDA m : m.planned), Programs(LAMBDA c : c.runs), h.runs} = {r.total}
     /\ {h.finished, Methods(LAMBDA m : m.planned - m.pending)} = {r.finished}
     /\ {Methods(LAMBDA m : Total(m.reductions)), Programs(LAMBDA c : Sum(c.reduction)),
         All(categories, LAMBDA c : Sum(c.overall)),
         All(SuiteCsv(rows), LAMBDA l : Total(l.reduction))} = {Sum(r.overallMean)}
     /\ h.overallMean = r.overallMean /\ h.searchMean = r.searchMean
     /\ Sum(r.searchMean) = Methods(LAMBDA m : IF m.baseline THEN 0 ELSE Total(m.reductions))
     /\ h.matched = Methods(LAMBDA m : m.pass) /\ h.checked = Methods(LAMBDA m : m.pass + m.fail)
     /\ FoldSet(LAMBDA d, n : n + days[d].succeeded + days[d].failed + days[d].other, 0, DOMAIN days) = Len(rows)
     /\ All(timed, LAMBDA t : t.runs) = Count(rows, LAMBDA x : x.seconds # NoCost)
     /\ \A i \in DOMAIN r.methods : LET m == r.methods[i] s == m.spread IN
          /\ m.planned = m.succeeded + m.failed + m.abandoned + m.pending
          /\ m.planned = m.pass + m.fail + m.unchecked + m.pending
          /\ m.succeeded >= Len(m.reductions)
          /\ s.n > 0 => /\ 4 * s.min <= s.q1 /\ s.q1 <= s.median /\ s.median <= s.q3 /\ s.q3 <= 4 * s.max
                        /\ s.min * s.n <= Sum(s.mean) /\ Sum(s.mean) <= s.max * s.n
          /\ i > 1 => Ramp(r.methods[i - 1], m)
     /\ \A i \in DOMAIN r.programs : LET p == r.programs[i] done == {m \in DOMAIN p.cells : p.cells[m].finished > 0} IN
          /\ (p.best = "none") = (done = {})
          /\ \A m \in done : ~Below(p.cells[p.best].reduction, p.cells[m].reduction)

(* Every page counts each run once: methods, cells, days, categories and the  *)
(* csv add up to the same runs and the same reductions, and the two means of  *)
(* the headline are the two of the suite.  A spread is in order and its mean  *)
(* within it; best is the first method with the largest mean.                 *)
SuiteAgrees(rows, names, today) ==
  ViewsOfSuite(rows, SummarizeSuite(rows, names), Headline(Reverse(rows)), ByCategory(Reverse(rows), names),
               RunsPerDay(rows, 0, today), SlowestPrograms(rows, Len(rows)))

(* A diff gives back both sides and keeps as much as the two have in common;  *)
(* the counts per kind are those of the two sides; putting the changed lines  *)
(* of after in the place of those of before makes after, and a diff has no    *)
(* more to change than they cover.                                            *)
DiffAgrees(a, b) ==
  LET rows == Aligned(a, b)
      Side(kind) == Each(SelectSeq(rows, LAMBDA x : x.kind \in {kind, "both"}), LAMBDA x : x.at)
      Pick(s, places) == LET at == SetToSortSeq(places, <) IN [i \in DOMAIN at |-> s[at[i]]]
      picks == {Pick(b, places) : places \in SUBSET DOMAIN b}
      kinds == KindCounts(a, b)
      kept == Count(rows, LAMBDA x : x.kind = "both")
  IN /\ Side("a") = a /\ Side("b") = b
     /\ kept = Max({Cardinality(places) : places \in {q \in SUBSET DOMAIN a : Pick(a, q) \in picks}})
     /\ DiffStats(rows) = [added |-> Len(b) - kept, removed |-> Len(a) - kept]
     /\ Total(Each(kinds, LAMBDA k : k.a)) = Len(a) /\ Total(Each(kinds, LAMBDA k : k.b)) = Len(b)
     /\ kept <= Total(Each(kinds, LAMBDA k : Min({k.a, k.b})))
     /\ (LineChange(a, b) = {}) = (a = b)
     /\ \A c \in LineChange(a, b) :
          /\ SubSeq(a, 1, c.start) \o SubSeq(b, c.start + 1, c.start + c.length)
               \o SubSeq(a, c.start + c.removed + 1, Len(a)) = b
          /\ c.removed >= Len(a) - kept /\ c.length >= Len(b) - kept

(* A page shows the same events however the network cuts the stream.          *)
StreamAgrees(pieces, events, finals) ==
  LET whole == <<FlattenSeq(pieces)>>
      Seen(given) == ReadStream(<<FlattenSeq(Each(given, LAMBDA e : Append(e, "/")))>>, events, finals).seen
      Same(read, passed, now) ==
        /\ now = read /\ Seen(passed.given) = passed.given
        /\ IF passed.threw THEN IsPrefix(passed.given, read.seen) ELSE passed.given = read.seen
      Passes(passed) == /\ passed = Optimize_(whole, events)
                        /\ Same(ReadStream(pieces, events, finals), passed, ReadStream(whole, events, finals))
  IN Passes(Optimize_(pieces, events))
=============================================================================
