------------------------------ MODULE Dataflow ------------------------------
(* The control flow graph of a program (ir/cfg.py): blocks, edges, dominance  *)
(* and natural loops, rebuilt whenever it is asked for and never kept with    *)
(* the program.  Over it, the worklist solver (analysis/framework.py) and the *)
(* five analyses that use it (analysis/liveness.py, available.py,             *)
(* constants.py, copies.py, reaching.py).  An analysis is given by what one   *)
(* instruction does to a set of facts; solving moves the sets along the edges *)
(* until they settle.                                                         *)
EXTENDS Tac

\* A set of numbers from the smallest to the largest.
Ascending(S) == [k \in 1 .. Cardinality(S) |-> CHOOSE x \in S : Cardinality({y \in S : y < x}) = k - 1]

\* A jump to a label that is not there is a ValueError of the construction.
JumpsResolve(p) == \A k \in DOMAIN p.code : Jumps(p.code[k]) => p.code[k].to \in DOMAIN Labels(p)

\* The first instruction, every label, every target and whatever follows a jump.
Leaders(p) ==
  LET jumps == {k \in DOMAIN p.code : Jumps(p.code[k])}
  IN ({1} \cup {k \in DOMAIN p.code : p.code[k].i = "label"}
          \cup {Labels(p)[p.code[k].to] : k \in jumps} \cup {k + 1 : k \in jumps}) \cap DOMAIN p.code

\* [first, last] of every block, and the edges.
Blocks(p, leaders) ==
  LET n == Len(leaders)
      last == [b \in 1 .. n |-> IF b = n THEN Len(p.code) ELSE leaders[b + 1] - 1]
      BlockAt(k) == CHOOSE b \in 1 .. n : leaders[b] = k
      Follow(b, end) == (IF Jumps(end) THEN {BlockAt(Labels(p)[end.to])} ELSE {})
                          \cup (IF end.i # "goto" /\ b < n THEN {b + 1} ELSE {})
  IN [n |-> n, first |-> leaders, last |-> last, succ |-> [b \in 1 .. n |-> Follow(b, p.code[last[b]])]]
Build(p) ==
  LET Joined(g) == [pred |-> [b \in 1 .. g.n |-> {a \in 1 .. g.n : b \in g.succ[a]}]] @@ g
  IN Joined(Blocks(p, Ascending(Leaders(p))))

Nodes(g) == 1 .. g.n
BlockOf(g, k) == CHOOSE b \in Nodes(g) : k \in g.first[b] .. g.last[b]

\* Everything edges lead to from a set of blocks that is not left.
Closure(edges, from, except) ==
  LET RECURSIVE Grow(_, _)
      Grow(seen, stack) ==
        IF stack = {} THEN seen
        ELSE LET more == UNION {edges[b] : b \in stack} \ seen
             IN Grow(seen \cup more, more)
  IN Grow(from \cup except, from)
Reachable(g) == IF g.n = 0 THEN {} ELSE Closure(g.succ, {1}, {})

----------------------------------------------------------------------------
(* Dominance: sweep over the blocks, in order and in place, until nothing     *)
(* changes.  Unreachable blocks keep the full set.                            *)
Inherited(g, dom, b) == {d \in Nodes(g) : \A a \in g.pred[b] : d \in dom[a]}

Dominators(g) ==
  LET RECURSIVE Sweep(_, _), Until(_)
      Sweep(b, dom) ==
        IF b > g.n THEN dom
        ELSE Sweep(b + 1, IF b = 1 \/ g.pred[b] = {} THEN dom
                          ELSE [dom EXCEPT ![b] = Inherited(g, dom, b) \cup {b}])
      Until(dom) == LET next == Sweep(1, dom) IN IF next = dom THEN dom ELSE Until(next)
  IN Until([b \in Nodes(g) |-> IF b = 1 THEN {1} ELSE Nodes(g)])

\* Edges to a block that dominates where they start, by tail and then by head.
BackEdges(g) ==
  LET Back(dom) == {<<t, h>> \in Reachable(g) \X Nodes(g) : h \in g.succ[t] /\ h \in dom[t]}
      Before(f, e) == f[1] < e[1] \/ (f[1] = e[1] /\ f[2] < e[2])
      Listed(edges) == [k \in 1 .. Cardinality(edges) |->
                          CHOOSE e \in edges : Cardinality({f \in edges : Before(f, e)}) = k - 1]
  IN Listed(Back(Dominators(g)))

\* The natural loop of each back edge: what reaches the tail without passing the head.
NaturalLoops(g) ==
  LET LoopOf(edge) == [head |-> edge[2], body |-> Closure(g.pred, {edge[1]} \ {edge[2]}, {edge[2]})]
      Each(edges) == [k \in DOMAIN edges |-> LoopOf(edges[k])]
  IN Each(BackEdges(g))

\* Mutant: a loop within a loop is no deeper.
LoopDepth_Flat(loops, b) == IF \E k \in DOMAIN loops : b \in loops[k].body THEN 1 ELSE 0

LoopDepth(loops, b) == Cardinality({k \in DOMAIN loops : b \in loops[k].body})

\* The first of the smallest loops around a block, the innermost one.
Innermost(loops, b) ==
  LET around == {k \in DOMAIN loops : b \in loops[k].body}
      Size(k) == Cardinality(loops[k].body)
  IN loops[CHOOSE k \in around : \A j \in around : Size(k) < Size(j) \/ (Size(k) = Size(j) /\ k <= j)]

----------------------------------------------------------------------------
\* ---- the analyses, one instruction at a time -------------------------------
\* Facts: a name (live), <<expression, holder>> (available), <<name, value>>
\* (constant), <<name, source>> (copy), the index of a definition (reaching).

\* The computation an instruction performs, or <<>>.  Divisions are left out: reusing
\* a quotient would let a trap move.
ExpressionOf(ins) ==
  IF ins.i \in {"bin", "un"} /\ IsPure(ins) THEN <<ins.op>> \o ins.args ELSE <<>>
Mentions(key, x) == \E k \in 2 .. Len(key) : key[k] = Var(x)

\* The smallest value a name is known to have; above the truth, in code nothing
\* reaches, there may be several, and the code takes one of them in no fixed order.
Known(facts, x) == {f[2] : f \in {g \in facts : g[1] = x}}
Least(S) == CHOOSE v \in S : \A w \in S : v <= w
Resolve(facts, o) == IF IsVar(o) THEN Known(facts, o.var) ELSE {o.const}

\* The value an instruction computes from known operands, as a set of at most one;
\* empty where the interpreter would trap, so folding never removes a trap.
Folded(facts, ins) ==
  LET known == [k \in DOMAIN ins.args |-> Resolve(facts, ins.args[k])]
      v == [k \in DOMAIN ins.args |-> Least(known[k])]
  IN IF ins.dst = "" \/ \E k \in DOMAIN known : known[k] = {} THEN {}
     ELSE CASE ins.i = "copy" -> {v[1]}
            [] ins.i = "un" -> {Unary(ins.op, v[1])}
            [] ins.op \in Trapping /\ v[2] = 0 -> {}
            [] OTHER -> {Binary(ins.op, v[1], v[2])}

Transfer(analysis, p, k, facts) ==
  LET ins == p.code[k]
      x == ins.dst
  IN CASE analysis = "live" -> (facts \ Defs(ins)) \cup Uses(ins)
       [] x = "" -> facts
       [] analysis = "available" ->
            LET key == ExpressionOf(ins)
                others == {f \in facts : ~Mentions(f[1], x) /\ f[2] # x}
            IN IF key # <<>> /\ ~Mentions(key, x) THEN others \cup {<<key, x>>} ELSE others
       [] analysis = "constants" ->
            LET others == {f \in facts : f[1] # x} IN others \cup {<<x, v>> : v \in Folded(others, ins)}
       [] analysis = "copies" ->
            {f \in facts : x \notin {f[1], f[2]}}
              \cup (IF ins.i = "copy" THEN {<<x, y>> : y \in Uses(ins) \ {x}} ELSE {})
       [] analysis = "reaching" -> {d \in facts : p.code[d].dst # x} \cup {k}

\* A whole block, in the direction of the analysis.
ThroughBlock(analysis, p, g, b, facts) ==
  LET size == g.last[b] - g.first[b] + 1
      RECURSIVE Walk(_, _)
      Walk(n, fs) ==
        IF n > size THEN fs
        ELSE Walk(n + 1, Transfer(analysis, p, IF analysis = "live" THEN g.last[b] - n + 1
                                               ELSE g.first[b] + n - 1, fs))
  IN Walk(1, facts)

\* ---- the solver ---------------------------------------------------------------
\* May-analyses join by union and start from nothing; must-analyses join by
\* intersection and start from everything there could be.
\* Mutant: copies join by union.
Must_NotCopies(analysis) == analysis \in {"available", "constants"}

Must(analysis) == analysis \in {"available", "constants", "copies"}
Meet(analysis, sets) ==
  IF Must(analysis) THEN {f \in UNION sets : \A S \in sets : f \in S} ELSE UNION sets

\* The result has in and out per block and how often a block was taken off the list.
Solve(analysis, p, g, initial) ==
  LET forward == analysis # "live"
      incoming == IF forward THEN g.pred ELSE g.succ
      outgoing == IF forward THEN g.succ ELSE g.pred
      sources == IF forward THEN {1} ELSE {b \in Nodes(g) : g.succ[b] = {}}
      Arriving(w, b) ==
        LET sets == {w.out[a] : a \in incoming[b]}
        IN CASE incoming[b] = {} -> w.in[b]
             [] b \in sources -> Meet(analysis, sets \cup {{}})
             [] OTHER -> Meet(analysis, sets)
      RECURSIVE Run(_)
      Run(w) ==
        IF w.list = <<>> THEN w
        ELSE LET b == Head(w.list)
                 arriving == Arriving(w, b)
                 result == ThroughBlock(analysis, p, g, b, arriving)
                 rest == Tail(w.list)
                 next == outgoing[b] \ {rest[k] : k \in DOMAIN rest}
                 w1 == [w EXCEPT !.in[b] = arriving, !.taken = @ + 1, !.list = rest]
             IN IF result = w.out[b] THEN Run(w1)
                ELSE Run([w1 EXCEPT !.out[b] = result, !.list = rest \o Ascending(next)])
  IN Run([in |-> [b \in Nodes(g) |-> IF b \in sources THEN {} ELSE initial],
          out |-> [b \in Nodes(g) |-> initial], taken |-> 0,
          list |-> [k \in 1 .. g.n |-> IF forward THEN k ELSE g.n + 1 - k]])

\* Everything the program could ever generate, the top a must-analysis descends from.
TopOf(analysis, p) ==
  CASE analysis = "available" ->
         {<<ExpressionOf(p.code[k]), p.code[k].dst>> :
            k \in {j \in DOMAIN p.code : ExpressionOf(p.code[j]) # <<>>}}
    [] analysis = "copies" -> UNION {Transfer("copies", p, k, {}) : k \in DOMAIN p.code}
    [] OTHER -> {}

\* Which constants there are depends on what folding derives, so their universe is
\* grown until it stops changing, in at most MaxUniverseRounds rounds.
MaxUniverseRounds == 6
SolveConstants(p, g) ==
  LET RECURSIVE Round(_, _), After(_, _, _)
      Round(n, universe) == After(n, universe, Solve("constants", p, g, universe))
      After(n, universe, w) ==
        LET found == universe \cup UNION {w.out[b] : b \in Nodes(g)}
        IN IF found = universe \/ n = MaxUniverseRounds THEN w ELSE Round(n + 1, found)
  IN Round(1, {})

\* Facts in front of every instruction; for liveness the names live after it.
AtInstructions(analysis, p, g, w) ==
  LET AtBottom(b) == UNION {w.out[s] : s \in g.succ[b]}
      RECURSIVE Before(_, _), After(_, _)
      Before(b, k) == IF k = g.first[b] THEN w.in[b] ELSE Transfer(analysis, p, k - 1, Before(b, k - 1))
      After(b, k) == IF k = g.last[b] THEN AtBottom(b) ELSE Transfer(analysis, p, k + 1, After(b, k + 1))
  IN [k \in DOMAIN p.code |->
        IF analysis = "live" THEN After(BlockOf(g, k), k) ELSE Before(BlockOf(g, k), k)]

Analyse(analysis, p, g) ==
  AtInstructions(analysis, p, g, IF analysis = "constants" THEN SolveConstants(p, g)
                                 ELSE Solve(analysis, p, g, TopOf(analysis, p)))
Analyses == {"live", "available", "constants", "copies", "reaching"}
=============================================================================
