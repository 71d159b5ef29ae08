------------------------------- MODULE Engine -------------------------------
(* One optimization of one source text: the orchestrator                      *)
(* (orchestrator/agent.py) and the environment of the search                  *)
(* (search/base.py) over the real front end, rules, transformations, cost     *)
(* model and verification, driven by the greedy method                        *)
(* (search/strategies.py) or by a language model (llm/strategy.py,            *)
(* llm/specialist.py); and the fault study (verify/mutation.py) on the same   *)
(* program.  What the other methods do with the environment is Search and     *)
(* AStar.                                                                     *)
EXTENDS Lower, Rules, Verify, FiniteSetsExt

CONSTANTS
  Texts,            \* source texts
  AskedTexts,       \* those a language model is tried on (bounds the answers)
  StudyTexts,       \* those faults are planted in (bounds the mutants)
  Fast, Thorough,   \* the two profiles of the verification
  UseSmt,           \* RunConfig.use_smt
  Weights,          \* CostWeights, in tenths
  MaxIterations, NodeBudget, MaxCalls, MaxFailures

ASSUME EngineAssumption ==
  /\ AskedTexts \cup StudyTexts \subseteq Texts
  /\ {MaxIterations, NodeBudget, MaxCalls, MaxFailures} \subseteq Nat

----------------------------------------------------------------------------
(* compile_source and source_to_tac.                                          *)
Tree(source) == LET tokens == Tokenize(source) IN IF tokens = LexError THEN NoStmt ELSE Parse(tokens)
Accepted(tree) == tree # NoStmt /\ Resolved(tree, Scope).ok

----------------------------------------------------------------------------
(* The cost model (cost/model.py): four measurements of a program, weighed    *)
(* against those of the program the run started from.                         *)
TripCount == 10

ArithmeticTerm(ins) == ins.i = "un" \/ (ins.i = "bin" /\ ins.op \in Arithmetic)
Latency(ins) == CASE ins.i = "bin" /\ ins.op = "*" -> 3
                  [] ins.i = "bin" /\ ins.op \in {"/", "%"} -> 5
                  [] OTHER -> 1

\* What the pattern ^t\d+$ matches, for as many temporaries as a bounded program has.
Temporaries == {"t" \o ToString(n) : n \in 0 .. 40}

\* Instructions, arithmetic operations, temporaries, and the time they take when every
\* loop runs TripCount times.
Measure(p) ==
  LET Runs(k, g, loops) == Latency(p.code[k]) * TripCount ^ LoopDepth(loops, BlockOf(g, k))
      Time(g, loops) == MapThenSumSet(LAMBDA k : Runs(k, g, loops), DOMAIN p.code)
      TimeOf(g) == Time(g, NaturalLoops(g))
  IN << Len(p.code),
        Cardinality({k \in DOMAIN p.code : ArithmeticTerm(p.code[k])}),
        Cardinality(UNION {Defs(p.code[k]) : k \in DOMAIN p.code} \cap Temporaries),
        TimeOf(Build(p)) >>

\* The weighted total over the terms the reference has at all, each relative to the
\* reference.  Brought to the common denominator the reference fixes, so that totals of
\* one run compare as integers where the code compares floats.
Score(raw, reference, weights) ==
  LET active == {k \in 1 .. 4 : reference[k] > 0}
      Share(k) == weights[k] * raw[k] * MapThenFoldSet(LAMBDA a, b : a * b, 1, LAMBDA j : reference[j],
                                                        LAMBDA S : CHOOSE j \in S : TRUE, active \ {k})
  IN MapThenSumSet(Share, active)

----------------------------------------------------------------------------
(* successors(): every opportunity is applied, verified and costed.  What it  *)
(* finds depends on the program alone, so it is worked out here once for each *)
(* program a session can come to.                                             *)

\* The moves successors() sorts: by cost, then site, then kind.
Before(m, n) ==
  \/ m.cost < n.cost
  \/ m.cost = n.cost /\ m.o.site < n.o.site
  \/ m.cost = n.cost /\ m.o.site = n.o.site /\ KindOrder[m.o.kind] < KindOrder[n.o.kind]

Trials(p, reference) ==
  LET Trial(o, to) ==
        IF to = None THEN [o |-> o, to |-> to, outcome |-> [verdict |-> "stale"], cost |-> 0]
        ELSE [o |-> o, to |-> to, outcome |-> Verdict(p, to, Fast, UseSmt), cost |-> Score(Measure(to), reference, Weights)]
  IN {Trial(o, Apply(p, o)) : o \in Opportunities(Memory(p))}
Stale(t) == t.to = None
Moves(trials) == {t \in trials : ~Stale(t) /\ ~Refuted(t.outcome)}
Cheaper(moves, than) == {m \in moves : m.cost < than}

\* The cost and the trials of programs, and of whatever improving moves lead to.
RECURSIVE Explored(_, _, _)
Explored(pages, found, reference) ==
  LET Page(p) == [cost |-> Score(Measure(p), reference, Weights), trials |-> Trials(p, reference)]
      LeadsTo(page) == {m.to : m \in Cheaper(Moves(page.trials), page.cost)}
      Turned(more) == Explored(more @@ pages, UNION {LeadsTo(more[p]) : p \in found} \ (found \cup DOMAIN pages), reference)
  IN IF found = {} THEN pages ELSE Turned([p \in found |-> Page(p)])

----------------------------------------------------------------------------
VARIABLES
  text,        \* the source
  original,    \* the program it was compiled to
  book,        \* the cost and the trials of every program improving moves lead to
  phase,       \* "source", "rejected", "ready", "search", "settled", "done", "planted" or "studied"
  method,      \* "greedy" or "llm"
  current,     \* the program the search is at
  kept,        \* the moves it took
  cache,       \* the programs successors() was worked out for
  exhausted,   \* stats.budget_exhausted
  stats,       \* proposals, verified, refuted, stale and cost_improving
  by_kind,     \* per optimization type: proposed, refuted, improving, accepted
  asked,       \* of the language model: calls, consecutive failures, what was ruled out
  report       \* what the run or the study says in the end

vars == <<text, original, book, phase, method, current, kept, cache, exhausted, stats, by_kind, asked, report>>

NoStats == [proposals |-> 0, verified |-> 0, refuted |-> 0, stale |-> 0, improving |-> 0]
NoCounts == [proposed |-> 0, refuted |-> 0, improving |-> 0, accepted |-> 0]
NothingAsked == [calls |-> 0, failures |-> 0, ruled_out |-> {}]
NoReport == [of |-> "nothing"]

Init ==
  /\ text \in Texts /\ original = None /\ book = <<>>
  /\ phase = "source" /\ method = "" /\ current = None /\ kept = <<>>
  /\ cache = {} /\ exhausted = FALSE
  /\ stats = NoStats /\ by_kind = [k \in Catalogue |-> NoCounts]
  /\ asked = NothingAsked /\ report = NoReport

Session == <<kept, cache, exhausted, stats, by_kind, asked>>

Given == <<text, original, book>>

Compile ==
  /\ phase = "source"
  /\ LET Opened(p) == /\ phase' = "ready" /\ original' = p /\ current' = p
                      /\ book' = Explored(<<>>, {p}, Measure(p))
         Of(tree) == IF Accepted(tree) THEN Opened(LowerProgram(tree))
                     ELSE phase' = "rejected" /\ UNCHANGED <<original, current, book>>
     IN Of(Tree(text))
  /\ UNCHANGED <<text, method, report, Session>>

Begin(m) ==
  /\ phase = "ready"
  /\ m = "llm" => text \in AskedTexts
  /\ method' = m /\ phase' = "search"
  /\ UNCHANGED <<Given, current, report, Session>>

Space == DOMAIN book     \* what a session may look up
TrialsOf(p) == book[p].trials
CostOf(p) == book[p].cost

\* A lookup: cached, refused for want of budget, or worked out, in which case every
\* trial is counted and recorded.
Room == Cardinality(cache) < NodeBudget
Offered(p) == IF p \in cache \/ Room THEN Moves(TrialsOf(p)) ELSE {}

Counted(trials, base) ==
  LET HowMany(Holds(_)) == Cardinality({t \in trials : Holds(t)})
  IN [proposals |-> HowMany(LAMBDA t : ~Stale(t)),
      verified |-> Cardinality(Moves(trials)),
      refuted |-> HowMany(LAMBDA t : ~Stale(t) /\ Refuted(t.outcome)),
      stale |-> HowMany(Stale),
      improving |-> Cardinality(Cheaper(Moves(trials), base))]

\* Mutant: a lookup that is cached is counted again.
Look_Recounts(p) ==
  LET now == Counted(TrialsOf(p), CostOf(p))
      Of(k) == Counted({t \in TrialsOf(p) : t.o.kind = k}, CostOf(p))
  IN /\ cache' = IF Room THEN cache \cup {p} ELSE cache
     /\ exhausted' = (exhausted \/ (p \notin cache /\ ~Room))
     /\ stats' = [f \in DOMAIN stats |-> stats[f] + now[f]]
     /\ by_kind' = [k \in Catalogue |->
                      [by_kind[k] EXCEPT !.proposed = @ + Of(k).proposals, !.refuted = @ + Of(k).refuted,
                                         !.improving = @ + Of(k).improving]]

Look(p) ==
  LET trials == TrialsOf(p)
      now == Counted(trials, CostOf(p))
      Of(k) == Counted({t \in trials : t.o.kind = k}, CostOf(p))
      new == p \notin cache /\ Room
  IN /\ cache' = IF Room THEN cache \cup {p} ELSE cache
     /\ exhausted' = (exhausted \/ (p \notin cache /\ ~Room))
     /\ stats' = IF new THEN [f \in DOMAIN stats |-> stats[f] + now[f]] ELSE stats
     /\ by_kind' = IF ~new THEN by_kind
                   ELSE [k \in Catalogue |->
                           [by_kind[k] EXCEPT !.proposed = @ + Of(k).proposals, !.refuted = @ + Of(k).refuted,
                                              !.improving = @ + Of(k).improving]]

Take(m) == current' = m.to /\ kept' = Append(kept, [kind |-> m.o.kind, site |-> m.o.site])

\* The first improving move, repeatedly.
Greedy ==
  /\ phase = "search" /\ method = "greedy" /\ Len(kept) < MaxIterations
  /\ LET better == Cheaper(Offered(current), CostOf(current))
         Best(m) == \A n \in better : ~Before(n, m)
     IN IF better = {} THEN phase' = "settled" /\ UNCHANGED <<current, kept>>
        ELSE UNCHANGED phase /\ \E m \in better : Best(m) /\ Take(m)
  /\ Look(current)
  /\ UNCHANGED <<Given, method, asked, report>>

\* The answers of a language model: no usable one, nothing to do, or an optimization at a
\* line.  It is valid only if the rules offer it there; the ones that are not are bounded to
\* those offered somewhere along the way.
Unusable == {"overlong", "unparseable", "unknown_type", "bad_site"}
Sites(p) == {<<t.o.kind, t.o.site>> : t \in TrialsOf(p)}
Elsewhere(p) == UNION {Sites(q) : q \in Space} \ Sites(p)
MayAsk == /\ phase = "search" /\ method = "llm" /\ Len(kept) < MaxIterations
          /\ asked.calls < MaxCalls /\ asked.failures < MaxFailures

Failed(item) == [calls |-> asked.calls + 1, failures |-> asked.failures + 1,
                 ruled_out |-> asked.ruled_out \cup {item}]

AskInVain ==
  /\ MayAsk
  /\ \/ \E why \in Unusable : asked' = Failed([why |-> why, kind |-> "", site |-> 0])
     \/ \E named \in Elsewhere(current) :
          asked' = Failed([why |-> "not_available", kind |-> named[1], site |-> named[2]])
  /\ UNCHANGED <<Given, phase, method, current, kept, cache, exhausted, stats, by_kind, report>>

Declined ==
  /\ MayAsk
  /\ asked' = [asked EXCEPT !.calls = @ + 1] /\ phase' = "settled"
  /\ UNCHANGED <<Given, method, current, kept, cache, exhausted, stats, by_kind, report>>

\* Mutant: what was ruled out is carried over to the next program.
AskUsefully_Carries ==
  /\ MayAsk
  /\ \E named \in Sites(current) :
       LET there == {m \in Offered(current) : <<m.o.kind, m.o.site>> = named}
           Last(m) == \A n \in there : n.cost <= m.cost
       IN IF Cheaper({m \in there : Last(m)}, CostOf(current)) = {}
          THEN /\ asked' = Failed([why |-> "does not lower cost", kind |-> named[1], site |-> named[2]])
               /\ UNCHANGED <<current, kept>>
          ELSE /\ \E m \in there : Last(m) /\ Take(m)
               /\ asked' = [asked EXCEPT !.calls = @ + 1, !.failures = 0]
  /\ Look(current)
  /\ UNCHANGED <<Given, phase, method, report>>

\* Of several moves of one kind at one line the last one counts.
AskUsefully ==
  /\ MayAsk
  /\ \E named \in Sites(current) :
       LET there == {m \in Offered(current) : <<m.o.kind, m.o.site>> = named}
           Last(m) == \A n \in there : n.cost <= m.cost
       IN IF Cheaper({m \in there : Last(m)}, CostOf(current)) = {}
          THEN /\ asked' = Failed([why |-> "does not lower cost", kind |-> named[1], site |-> named[2]])
               /\ UNCHANGED <<current, kept>>
          ELSE /\ \E m \in there : Last(m) /\ Take(m)
               /\ asked' = [calls |-> asked.calls + 1, failures |-> 0, ruled_out |-> {}]
  /\ Look(current)
  /\ UNCHANGED <<Given, phase, method, report>>

OutOfTurns ==
  /\ phase = "search"
  /\ \/ Len(kept) = MaxIterations
     \/ method = "llm" /\ ~MayAsk
  /\ phase' = "settled"
  /\ UNCHANGED <<Given, method, current, report, Session>>

\* The comparison that is reported is made afresh, original against final, with the
\* thorough profile; then, for prove_final, with both channels.
Converge ==
  /\ phase = "settled" /\ phase' = "done"
  /\ by_kind' = [k \in Catalogue |->
                   [by_kind[k] EXCEPT !.accepted = Cardinality({i \in DOMAIN kept : kept[i].kind = k})]]
  /\ report' = [of |-> "run", accepted |-> Len(kept), cost_after |-> CostOf(current),
                output_match |-> ~Refuted(Verdict(original, current, Thorough, FALSE)),
                final_proof |-> Verdict(original, current, Thorough, TRUE).verdict]
  /\ UNCHANGED <<Given, method, current, kept, cache, exhausted, stats, asked>>

\* run_study: a fault is planted and, next, asked about.
Plant ==
  /\ phase = "ready" /\ text \in StudyTexts
  /\ \E mutant \in Mutants(current) : current' = mutant.program /\ report' = [of |-> mutant.operator]
  /\ phase' = "planted"
  /\ UNCHANGED <<Given, method, Session>>

Study ==
  /\ phase = "planted" /\ phase' = "studied"
  /\ report' = Classified(original, [operator |-> report.of, program |-> current], Fast)
  /\ UNCHANGED <<Given, method, current, Session>>

Next == \/ Compile \/ Begin("greedy") \/ Begin("llm")
        \/ Greedy \/ AskInVain \/ Declined \/ AskUsefully \/ OutOfTurns
        \/ Converge \/ Plant \/ Study

\* A session that ended stays as it is; any other has a next step, or the run of TLC that
\* looks for deadlocks finds it.
Ended == {"rejected", "done", "studied"}
Finished == phase \in Ended /\ UNCHANGED vars

Spec == Init /\ [][Next \/ Finished]_vars
=============================================================================
