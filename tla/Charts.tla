-------------------------------- MODULE Charts --------------------------------
(***************************************************************************)
(* What is drawn from the tables of Pages: the figures of a suite and of   *)
(* the analytics of a workspace (web/components/app/suite, analytics), the *)
(* listings of a trace and of a comparison, and the card a shared suite is *)
(* previewed with.  A place along an axis is kept as its value beside the  *)
(* two ends of the axis; type, colour and layout are left out, the rank a  *)
(* colour stands for is not.                                               *)
(***************************************************************************)
EXTENDS Pages

CONSTANTS
  FullAt,      \* a reduction that fills its bar
  BestShown,   \* methods on a card
  DayLabels    \* days that are named under the bars, at most

\* A place on an axis, as a fraction of it.
Fraction(part, whole) == <<part, whole>>
OnAxis(f) == f[2] > 0 /\ 0 <= f[1] /\ f[1] <= f[2]

-----------------------------------------------------------------------------
(* The figures of a suite run *)

RoundUp(n, step) == ((n + step - 1) \div step) * step

StepFor(span) == IF span <= 20 THEN 5 ELSE IF span <= 60 THEN 10 ELSE 20

\* Bug: rounded to the multiple below.
NiceMax_Floor(value) == LET step == StepFor(value) IN Max({step, (value \div step) * step})
NiceMax(value) == LET step == StepFor(value) IN Max({step, RoundUp(value, step)})

\* The values an axis names: multiples of its step, the first not below its low end.
Ticks(low, high) == {v \in low .. high : v % StepFor(high - low) = 0}

\* The two ends of the axis every method of the figure is drawn on: it holds zero.
AxisOf(methods) ==
  LET values == UNION {ToSet(methods[i].reductions) : i \in DOMAIN methods}
      low == Min({0} \cup values)
  IN [low |-> IF low < 0 THEN -NiceMax(-low) ELSE 0, high |-> NiceMax(Max({10} \cup values))]

\* Four times a value, as the quantiles are.
At_(axis, quarters) == Fraction(quarters - 4 * axis.low, 4 * (axis.high - axis.low))

\* Whiskers, box, median and a dot per run; the least width of whisker and box is left out.
Marks(axis, method) ==
  LET s == method.spread IN
  IF s.n = 0 THEN <<>>
  ELSE [i \in 1 .. 5 |-> At_(axis, <<4 * s.min, s.q1, s.median, s.q3, 4 * s.max>>[i])]
         \o Each(method.reductions, LAMBDA v : At_(axis, 4 * v))

\* rampAt: the rank among the methods that have a median, worse to better; a single one is the best.
Colour(methods, name) ==
  LET ranked == SelectSeq(methods, LAMBDA m : m.spread.n > 0)
      at == CHOOSE i \in DOMAIN ranked : ranked[i].method = name
  IN IF \A i \in DOMAIN ranked : ranked[i].method # name THEN Nothing
     ELSE IF Len(ranked) = 1 THEN Fraction(1, 1) ELSE Fraction(at - 1, Len(ranked) - 1)

\* Bug: a run that failed is not checked, and counts as that too.
Segments_Twice(m) ==
  [pass |-> m.pass, fail |-> m.fail, unchecked |-> m.unchecked, broken |-> m.failed + m.abandoned, pending |-> m.pending]

\* What became of a method's runs: the pieces of one bar.
Segments(m) ==
  [pass |-> m.pass, fail |-> m.fail, unchecked |-> Max({m.unchecked - m.failed - m.abandoned, 0}),
   broken |-> m.failed + m.abandoned, pending |-> m.pending]

\* SuiteReport: the best search method that has a median, and the outputs that were checked.
BestOf(methods) == SelectLastInSeq(methods, LAMBDA m : m.spread.n > 0 /\ ~m.baseline)
Checked(methods) ==
  [counted |-> Total(Each(methods, LAMBDA m : m.pass + m.fail)), matched |-> Total(Each(methods, LAMBDA m : m.pass))]

\* The bar beside a reduction, and the tint of a cell.
Bar(percent) == Fraction(Min({Max({percent, 0}), FullAt}), FullAt)

\* A row per category: its mean, and a cell per method, best first, tinted by its mean.
CategoryMatrix(categories, methods) ==
  LET Tint(mean) == IF mean[1] <= 0 THEN Fraction(0, 1) ELSE Fraction(Min({mean[1], FullAt * mean[2]}), FullAt * mean[2]) IN
  Each(categories, LAMBDA row :
    [all |-> row.overall,
     cells |-> Each(Reverse(methods), LAMBDA m : [mean |-> row.byMethod[m.method], tint |-> Tint(row.byMethod[m.method])])])

\* The card of a shared suite: the best methods by median, and their means against the largest.
Card(methods) ==
  LET ranked == Reverse(SelectSeq(methods, LAMBDA m : m.spread.n > 0))
      best == SubSeq(ranked, 1, Min({BestShown, Len(ranked)}))
      \* m.mean >= 1 for some m: the longest bar is that of the largest mean.
      Longest(x, y) == x[1] * y[2] >= y[1] * x[2]
      means == {<<1, 1>>} \cup {ranked[i].spread.mean : i \in DOMAIN ranked}
      top == CHOOSE x \in means : \A y \in means : Longest(x, y)
  IN Each(best, LAMBDA m : [method |-> m.method,
                            length |-> Fraction(Max({m.spread.mean[1] * top[2], 0}), m.spread.mean[2] * top[1])])

-----------------------------------------------------------------------------
(* The figures of the analytics *)

DayTotal(day) == day.succeeded + day.failed + day.other

\* One bar a day, as high as the day is busy; a few of the days are named.
RunsOverTime(days) ==
  LET n == Cardinality(DOMAIN days)
      top == Max({1} \cup {DayTotal(days[d]) : d \in DOMAIN days})
      every == Max({1, (n + DayLabels - 1) \div DayLabels})
      first == Min(DOMAIN days)
  IN [heights |-> [d \in DOMAIN days |-> Fraction(DayTotal(days[d]), top)],
      labels |-> {d \in DOMAIN days : (d - first) % every = 0}]

\* The rewrites of a workspace, grouped by kind and by whether they were kept: kept and dropped
\* are the kinds of the two, and a kept rewrite changes the cost by its place.
TransformationGroups(kept, dropped) ==
  LET Places(s, kind) == {i \in DOMAIN s : s[i] = kind}
      Group(s, kind, accepted) ==
        [kind |-> kind, accepted |-> accepted, count |-> Cardinality(Places(s, kind)),
         sumDelta |-> FoldSet(+, 0, Places(s, kind))]
  IN Each(Unique(kept), LAMBDA k : Group(kept, k, TRUE)) \o Each(Unique(dropped), LAMBDA k : Group(dropped, k, FALSE))

\* Bug: a kind is proposed as often as it was turned down.
Proposes_Dropped(group) == IF group.accepted THEN 0 ELSE group.count
Proposes(group) == group.count

\* transformationStats: one row per kind, most kept first.
TransformationStats(groups) ==
  LET Of(kind) == SelectSeq(groups, LAMBDA g : g.kind = kind)
      Kept(kind) == SelectSeq(Of(kind), LAMBDA g : g.accepted)
      Row(kind) == [kind |-> kind, proposed |-> Total(Each(Of(kind), Proposes)),
                    accepted |-> Total(Each(Kept(kind), LAMBDA g : g.count)),
                    meanDelta |-> <<Total(Each(Kept(kind), LAMBDA g : g.sumDelta)), Total(Each(Kept(kind), LAMBDA g : g.count))>>]
  IN Sorted(Each(Unique(Each(groups, LAMBDA g : g.kind)), Row),
            LAMBDA a, b : a.accepted > b.accepted \/ (a.accepted = b.accepted /\ a.proposed > b.proposed))

\* rejectReasons and verifierVerdicts: labels counted, most common first.
Tally_Of(labels) ==
  Sorted(Each(Unique(labels), LAMBDA x : [label |-> x, count |-> Count(labels, LAMBDA y : y = x)]),
         LAMBDA a, b : a.count > b.count)

\* TransformationBars: how much of what was proposed of a kind was kept.
TransformationBars(stats) == Each(stats, LAMBDA s : Fraction(s.accepted, s.proposed))

\* CountedList: the share of each label; nothing for none.
CountedList(items) ==
  LET total == Total(Each(items, LAMBDA i : i.count))
  IN IF total = 0 THEN <<>> ELSE Each(items, LAMBDA i : Fraction(i.count, total))

-----------------------------------------------------------------------------
(* Listings *)

\* Bug: lines removed at the end of a listing leave no gap.
Seam_Inside(change, lines) ==
  {c.start : c \in {d \in change : d.length = 0 /\ d.removed > 0 /\ d.start < Len(lines)}}

\* Where lines are gone and none came for them.
Seam(change, lines) == {c.start : c \in {d \in change : d.length = 0 /\ d.removed > 0}}

\* TacListing: which lines are marked against a previous listing, and where a gap is drawn.
TacListing(previous, lines) ==
  LET change == LineChange(previous, lines) IN
  [marked |-> {i \in DOMAIN lines : \E c \in change : i > c.start /\ i <= c.start + c.length},
   gap |-> [at \in Seam(change, lines) |-> CHOOSE n \in {c.removed : c \in change} : TRUE]]

\* DiffView: the two numbers of a row, counted down either side.
Numbers(rows) ==
  [i \in DOMAIN rows |->
     [before |-> Count(SubSeq(rows, 1, i), LAMBDA r : r.kind # "b"),
      after |-> Count(SubSeq(rows, 1, i), LAMBDA r : r.kind # "a")]]

\* The comparison: rewrites that line up, and a bar for either side of each kind.
Compared(a, b) ==
  LET rows == Aligned(a, b)
      shared == Count(rows, LAMBDA r : r.kind = "both")
      counts == KindCounts(a, b)
      top == Max({1} \cup UNION {{counts[i].a, counts[i].b} : i \in DOMAIN counts})
  IN [shared |-> shared, onlyA |-> Len(a) - shared, onlyB |-> Len(b) - shared,
      bars |-> Each(counts, LAMBDA c : <<Fraction(c.a, top), Fraction(c.b, top)>>)]

-----------------------------------------------------------------------------
\* What the pieces of a bar stand for, in terms of the runs: each run is in one class.
Classes(runs) ==
  LET Done(match) == Count(runs, LAMBDA x : x.status = "SUCCEEDED" /\ x.match = match) IN
  [pass |-> Done("yes"), fail |-> Done("no"), unchecked |-> Done("unasked"),
   broken |-> Count(runs, LAMBDA x : x.status \in {"FAILED", "ABANDONED"}), pending |-> Count(runs, Waits)]

\* Each piece is its class, so each run is drawn once, as long as no run that failed has an output
\* check ("A run that failed has no output check either", verification.tsx:24).  One that has is
\* drawn as broken and with its output, and one that was not checked goes undrawn for it.
DrawnOnce(runs, pieces) ==
  LET class == Classes(runs)
      Late(match) == Count(runs, LAMBDA x : x.status \in {"FAILED", "ABANDONED"} /\ x.match = match)
  IN pieces = [class EXCEPT !.pass = @ + Late("yes"), !.fail = @ + Late("no"),
                            !.unchecked = Max({@ - Late("yes") - Late("no"), 0})]

\* The figures of a suite and of its shared card, over the methods of its report.
FiguresHold(rows, methods, axis, card, matrix, h) ==
  LET Better(x, y) == x[1] * y[2] >= y[1] * x[2]
      ranked == {i \in DOMAIN methods : methods[i].spread.n > 0}
      BestIs(best) == \A i \in ranked : ~methods[i].baseline =>
                        best > 0 /\ methods[i].spread.median <= methods[best].spread.median
      Marked_(m, marks) ==
        /\ \A k \in DOMAIN marks : OnAxis(marks[k])
        /\ m.spread.n > 0 => \A k \in 1 .. 4 : marks[k][1] <= marks[k + 1][1]
        /\ Len(marks) = IF m.spread.n = 0 THEN 0 ELSE 5 + Len(m.reductions)
        /\ DrawnOnce(SelectSeq(rows, LAMBDA x : x.method = m.method), Segments(m))
        /\ \A k \in DOMAIN m.reductions : OnAxis(Bar(m.reductions[k]))
  IN /\ 0 \in Ticks(axis.low, axis.high) /\ Cardinality(Ticks(axis.low, axis.high)) >= 2
     /\ \A i \in DOMAIN methods : Marked_(methods[i], Marks(axis, methods[i]))
     /\ \A i, j \in ranked :
          methods[i].spread.median > methods[j].spread.median =>
            Better(Colour(methods, methods[i].method), Colour(methods, methods[j].method))
     /\ BestIs(BestOf(methods))
     /\ Checked(methods) = [counted |-> h.checked, matched |-> h.matched]
     /\ \A k \in DOMAIN card : OnAxis(card[k].length)
     /\ \A k \in DOMAIN card, i, j \in ranked :
          methods[i].method = card[k].method /\ methods[j].spread.median > methods[i].spread.median =>
            \E l \in 1 .. k : card[l].method = methods[j].method
     /\ \A i \in DOMAIN matrix : LET row == matrix[i] IN
          /\ Total(Each(row.cells, LAMBDA c : c.mean[2])) = row.all[2]
          /\ \A k \in DOMAIN row.cells : OnAxis(row.cells[k].tint)

(* Whatever became of the runs, every mark of a figure is on its axis, and    *)
(* zero is named on it; the marks of a method are in order and every run has  *)
(* one.  Each piece of a bar is its class of the method's runs, each run      *)
(* drawn once, unless one failed after its output was checked: see DrawnOnce. *)
(* The colour rises with the median, and the best method named has the        *)
(* highest of the searches; no bar is longer than its track, the cells of a   *)
(* category add up to it, a card leaves out no better method than it shows,   *)
(* and some days are named, but no more than there is room for.               *)
ChartsAgree(rows, names, today) ==
  LET Of(methods, categories) ==
        FiguresHold(rows, methods, AxisOf(methods), Card(methods), CategoryMatrix(categories, methods), Headline(rows))
      DaysHold(figure) == /\ \A d \in DOMAIN figure.heights : OnAxis(figure.heights[d])
                          /\ Cardinality(figure.labels) \in 1 .. DayLabels
  IN /\ Of(SummarizeSuite(rows, names).methods, ByCategory(rows, names))
     /\ \A days \in {0, 7, 30} : DaysHold(RunsOverTime(RunsPerDay(rows, days, today)))

\* What is kept and dropped, in numbers and bars.
CountsHold(a, b, stats, reasons) ==
  LET BarsHold(bars) == \A i \in DOMAIN bars : OnAxis(bars[i]) IN
  /\ Total(Each(stats, LAMBDA s : s.proposed)) = Len(a) + Len(b)
  /\ Total(Each(stats, LAMBDA s : s.accepted)) = Len(a)
  /\ Total(Each(stats, LAMBDA s : s.proposed - s.accepted)) = Total(Each(reasons, LAMBDA i : i.count))
  /\ Total(Each(stats, LAMBDA s : s.meanDelta[1])) = FoldSet(+, 0, DOMAIN a)
  /\ \A i \in DOMAIN stats : stats[i].meanDelta[2] = stats[i].accepted
  /\ BarsHold(TransformationBars(stats)) /\ BarsHold(CountedList(reasons))

\* One listing drawn against the other, and the two beside each other.
ListingsHold(a, b, listing, rows, numbers, compared) ==
  LET gone == {listing.gap[at] : at \in DOMAIN listing.gap} IN
  /\ (listing.marked = {} /\ gone = {}) = (a = b)
  /\ \A n \in gone : Len(a) = Len(b) + n
  /\ \A at \in DOMAIN listing.gap : at \in 0 .. Len(b)
  /\ Len(b) - Cardinality(listing.marked) <= Len(a)
  /\ {numbers[i].before : i \in {k \in DOMAIN rows : rows[k].kind # "b"}} = DOMAIN a
  /\ {numbers[i].after : i \in {k \in DOMAIN rows : rows[k].kind # "a"}} = DOMAIN b
  /\ \A i \in DOMAIN rows : /\ rows[i].kind # "b" => a[numbers[i].before] = rows[i].at
                            /\ rows[i].kind # "a" => b[numbers[i].after] = rows[i].at
  /\ compared.onlyA >= 0 /\ compared.onlyB >= 0
  /\ \A i \in DOMAIN compared.bars : OnAxis(compared.bars[i][1]) /\ OnAxis(compared.bars[i][2])

(* For any rewrites kept and dropped: the rows of the kinds add up to all of  *)
(* them, a kind is kept no oftener than it was proposed, and the mean change  *)
(* is that of the kept.  A listing drawn against another shows what became of *)
(* it: the lines that are not marked are the other's, with as many gone as    *)
(* the gap says, and a listing without mark or gap is the other.  The numbers *)
(* beside a diff number both listings, and a comparison accounts for both.    *)
TalliesAgree(a, b) ==
  LET Beside(rows) == ListingsHold(a, b, TacListing(a, b), rows, Numbers(rows), Compared(a, b)) IN
  /\ CountsHold(a, b, TransformationStats(TransformationGroups(a, b)), Tally_Of(b))
  /\ Beside(Aligned(a, b))
=============================================================================
