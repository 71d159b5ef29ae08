------------------------------- MODULE Verify -------------------------------
(* Is a rewritten program the program it replaces?  Two channels answer: both *)
(* are run on the same inputs (verify/differential.py) and every path of both *)
(* is followed at once (verify/smt.py); verify/__init__.py combines them.     *)
(*                                                                            *)
(* The solver is a library.  What it decides over all integers it decides     *)
(* here over the finite set Universe of values: a path condition is the set of *)
(* the input vectors that satisfy it.                                         *)
EXTENDS Tac
CONSTANTS Universe,        \* the values an input may have
          StepBudget,      \* DEFAULT_STEP_BUDGET of smt.py
          StateBudget      \* DEFAULT_STATE_BUDGET of smt.py

ASSUME VerifyAssumption == /\ Universe \subseteq Int
                           /\ StepBudget \in Nat \ {0} /\ StateBudget \in Nat \ {0}

InputNames(p) == {p.inputs[k] : k \in DOMAIN p.inputs}

----------------------------------------------------------------------------
(* Differential testing.  A profile has its edge values, the values its       *)
(* generator draws, the number of random cases and the step limit.            *)
InputVectors(p, profile) ==
  LET n == Len(p.inputs)
      e == Len(profile.edges)
      Position(x) == CHOOSE k \in 1 .. n : p.inputs[k] = x
      Vector(At(_)) == [x \in InputNames(p) |-> At(Position(x) - 1)]
      Drawn(c, k) == profile.draws[((c * n + k) % Len(profile.draws)) + 1]
      offsets == IF e < 6 THEN e ELSE 6
  IN IF n = 0 THEN <<Vector(LAMBDA k : 0)>>
     ELSE [c \in 1 .. e |-> Vector(LAMBDA k : profile.edges[c])]
            \o [c \in 1 .. offsets |-> Vector(LAMBDA k : profile.edges[((c - 1 + k) % e) + 1])]
            \o [c \in 1 .. profile.cases |-> Vector(LAMBDA k : Drawn(c - 1, k))]

\* The first vector on which both runs end and differ refutes; a vector on which either
\* hits the step limit is skipped.
Compared(vectors, before, after) ==
  LET skipped == {k \in DOMAIN vectors : ~(Conclusive(before[k]) /\ Conclusive(after[k]))}
      differing == {k \in DOMAIN vectors \ skipped : ~ObservablyEquals(before[k], after[k])}
      first == IF differing = {} THEN Len(vectors) ELSE CHOOSE k \in differing : \A j \in differing : k <= j
  IN [refuted |-> differing # {}, cases_run |-> first,
      inconclusive |-> Cardinality(skipped \cap 1 .. first),
      witness |-> IF differing = {} THEN {} ELSE {vectors[first]}]
Compare(original, candidate, profile) ==
  LET Ran(p, vectors) == [k \in DOMAIN vectors |-> Execute(p, vectors[k], profile.limit)]
      On(vectors) == Compared(vectors, Ran(original, vectors), Ran(candidate, vectors))
  IN On(InputVectors(original, profile))

----------------------------------------------------------------------------
(* Symbolic execution.  A state stands for every vector of its path: the value *)
(* of a variable and what was printed are functions of the vector.            *)
SymbolicStart(p) ==
  [pc |-> 1, path |-> [InputNames(p) -> Universe], defined |-> InputNames(p),
   env |-> [v \in [InputNames(p) -> Universe] |-> v], out |-> <<>>, trapped |-> FALSE, steps |-> 0]

\* Mutant: the solver's division as it is, toward the smaller number.
SolverDiv_Floors(a, b) == IF b > 0 THEN a \div b ELSE (-a) \div (-b)

\* The solver's operations: its own division, made to truncate, and comparisons as 0 or 1.
SolverDiv(a, b) ==
  LET magnitude == (IF a >= 0 THEN a ELSE -a) \div (IF b >= 0 THEN b ELSE -b)
  IN IF (a < 0) # (b < 0) THEN -magnitude ELSE magnitude
SolverMod(a, b) == a - SolverDiv(a, b) * b
SolverResult(ins, env) ==
  LET v == [k \in DOMAIN ins.args |-> Value(ins.args[k], env)]
  IN CASE ins.i = "copy" -> v[1]
       [] ins.i = "un" -> IF ins.op = "-" THEN -v[1] ELSE IF v[1] = 0 THEN 1 ELSE 0
       [] ins.op = "/" -> SolverDiv(v[1], v[2])
       [] ins.op = "%" -> SolverMod(v[1], v[2])
       [] OTHER -> Binary(ins.op, v[1], v[2])

\* The value of an operand under every vector of a state.
Valued(o, s) == [v \in s.path |-> Value(o, s.env[v])]
On(s, path) == [s EXCEPT !.path = path, !.env = [v \in path |-> @[v]],
                         !.out = [k \in DOMAIN @ |-> [v \in path |-> @[k][v]]]]
Defined(s, x, value) ==
  [s EXCEPT !.env = [v \in s.path |-> (x :> value[v]) @@ @[v]], !.defined = @ \cup {x}]

\* One state is followed until it ends; the last branch left for later is next.  A
\* variable read before it is defined ends the whole exploration.
Explore(p) ==
  LET RECURSIVE Follow(_, _), Next(_)
      labels == Labels(p)
      Later(r, s) == [r EXCEPT !.list = Append(@, s)]
      Exhausted(r) == [r EXCEPT !.exhausted = TRUE]
      Next(r) == IF r.list = <<>> THEN r
                 ELSE Follow([r EXCEPT !.list = SubSeq(@, 1, Len(@) - 1)], r.list[Len(r.list)])
      Divide(r, s, ins) ==     \* one path traps, the other goes on with a divisor that is not 0
        LET zero == {v \in s.path : Value(ins.args[2], s.env[v]) = 0}
            rest == On(s, s.path \ zero)
        IN Follow([r EXCEPT !.terminals = Append(@, [On(s, zero) EXCEPT !.trapped = TRUE])],
                  Defined([rest EXCEPT !.pc = @ + 1], ins.dst, [v \in rest.path |-> SolverResult(ins, rest.env[v])]))
      Fork(r, s, ins) ==       \* the branch taken is kept for later, the other is followed
        LET taken == {v \in s.path : Taken(ins, s.env[v])}
            branch == [On(s, taken) EXCEPT !.pc = labels[ins.to]]
            r1 == [r EXCEPT !.created = @ + 1]
            r2 == IF taken = {} THEN r1 ELSE Later(r1, branch)
        IN IF r.created >= StateBudget THEN Next(Exhausted(r))
           ELSE IF taken = s.path THEN Next(r2)
           ELSE Follow(r2, [On(s, s.path \ taken) EXCEPT !.pc = @ + 1])
      Follow(r, s0) ==
        IF s0.pc > Len(p.code) THEN Next([r EXCEPT !.terminals = Append(@, s0)])
        ELSE IF s0.steps >= StepBudget THEN Next(Exhausted(r))
        ELSE LET ins == p.code[s0.pc]
                 s == [s0 EXCEPT !.steps = @ + 1]
                 on == [s EXCEPT !.pc = @ + 1]
             IN IF ~(Uses(ins) \subseteq s.defined) THEN Exhausted(r)
                ELSE CASE ins.i = "label" -> Follow(r, on)
                       [] ins.i = "goto" -> Follow(r, [s EXCEPT !.pc = labels[ins.to]])
                       [] ins.i = "print" -> Follow(r, [on EXCEPT !.out = Append(@, Valued(ins.args[1], s))])
                       [] ins.i \in {"iffalse", "iftrue"} -> Fork(r, s, ins)
                       [] ins.i = "bin" /\ ins.op \in Trapping -> Divide(r, s, ins)
                       [] OTHER -> Follow(r, Defined(on, ins.dst, [v \in s.path |-> SolverResult(ins, s.env[v])]))
  IN Next([terminals |-> <<>>, exhausted |-> FALSE, created |-> 1, list |-> <<SymbolicStart(p)>>])

\* The vectors on which two ended paths, one of each program, are seen to differ.
Differs(a, b) ==
  {v \in a.path \cap b.path :
     \/ a.trapped # b.trapped \/ Len(a.out) # Len(b.out)
     \/ \E k \in DOMAIN a.out : a.out[k][v] # b.out[k][v]}

Matched(left, right) ==
  LET witnesses == UNION {Differs(left.terminals[k], right.terminals[j]) :
                            k \in DOMAIN left.terminals, j \in DOMAIN right.terminals}
  IN CASE witnesses # {} -> [verdict |-> "different", witness |-> {CHOOSE v \in witnesses : TRUE}]
       [] left.exhausted \/ right.exhausted -> [verdict |-> "bounded", witness |-> {}]
       [] OTHER -> [verdict |-> "equivalent", witness |-> {}]
CheckEquivalence(original, candidate) ==
  IF original.inputs # candidate.inputs THEN [verdict |-> "unsupported", witness |-> {}]
  ELSE Matched(Explore(original), Explore(candidate))

----------------------------------------------------------------------------
(* Both channels, the cheap one first.                                        *)
Combined(tests, proof, use_smt) ==
  LET Outcome(verdict, witness) ==
        [verdict |-> verdict, witness |-> witness, inputs_tested |-> tests.cases_run]
  IN CASE tests.refuted -> Outcome("counterexample_found", tests.witness)
       [] ~use_smt -> Outcome("tests_passed", {})
       [] proof.verdict = "different" -> Outcome("counterexample_found", proof.witness)
       [] proof.verdict = "equivalent" -> Outcome("proven_equivalent", {})
       [] OTHER -> Outcome("unknown_bounded", {})
Verdict(original, candidate, profile, use_smt) ==
  Combined(Compare(original, candidate, profile), CheckEquivalence(original, candidate), use_smt)
Refuted(outcome) == outcome.verdict = "counterexample_found"

-----------------------------------------------------------------------------
(* Planting faults to measure the two verification channels                   *)
(* (verify/mutation.py).  The study edits one instruction at a time; which    *)
(* edit of which instruction is drawn there and is any of them here.          *)
CONSTANT Oracle     \* the profile that decides what is a fault at all

OrderSensitive == {"-", "/", "%", "<", "<=", ">", ">="}
Family(op) == IF op \in Arithmetic THEN Arithmetic ELSE Comparisons
Shifted(o, by) == Const(o.const + by)

\* The one-step edits of an instruction, each with the name the study counts it under.
Edits(ins) ==
  LET Edit(operator, new) == [operator |-> operator, ins |-> new]
      \* of two constants the left one is shifted
      target == IF ~IsVar(ins.args[1]) THEN 1 ELSE 2
  IN CASE ins.i = "bin" ->
            {Edit("operator substitution", [ins EXCEPT !.op = op]) : op \in Family(ins.op) \ {ins.op}}
              \cup {Edit("operand order", [ins EXCEPT !.args = <<@[2], @[1]>>]) :
                      x \in {ins.op} \cap OrderSensitive}
              \cup {Edit("constant shift", [ins EXCEPT !.args[target] = Shifted(@, by)]) :
                      by \in IF IsVar(ins.args[target]) THEN {} ELSE {1, -1, 2}}
       [] ins.i = "copy" ->
            {Edit("constant shift", [ins EXCEPT !.args[1] = Shifted(@, by)]) :
               by \in IF IsVar(ins.args[1]) THEN {} ELSE {1, -1}}
       [] ins.i = "iffalse" -> {Edit("inverted branch", IfTrue(ins.args[1], ins.to))}
       [] ins.i = "iftrue" -> {Edit("inverted branch", IfFalse(ins.args[1], ins.to))}
       [] ins.i = "un" -> {Edit("dropped operator", Copy(ins.dst, ins.args[1]))}
       [] OTHER -> {}

\* Everything that may be planted: an edit, or a print dropped where there are several.
Mutants(p) ==
  LET prints == {k \in DOMAIN p.code : p.code[k].i = "print"}
      Dropped(k) == [p EXCEPT !.code = SubSeq(@, 1, k - 1) \o SubSeq(@, k + 1, Len(@))]
  IN UNION {{[operator |-> e.operator, program |-> [p EXCEPT !.code[k] = e.ins]] : e \in Edits(p.code[k])} :
              k \in DOMAIN p.code}
       \cup IF Cardinality(prints) < 2 THEN {}
            ELSE {[operator |-> "dropped print", program |-> Dropped(k)] : k \in prints}

\* What the study counts for one mutant: whether the oracle tells it from the original,
\* and, only then, which channel does.
Scored(original, mutant, profile) ==
  LET tests == Compare(original, mutant.program, profile)
      proof == CheckEquivalence(original, mutant.program)
  IN [operator |-> mutant.operator,
      equivalent |-> FALSE, differential |-> tests.refuted, smt |-> proof.verdict = "different"]
Classified(original, mutant, profile) ==
  IF Compare(original, mutant.program, Oracle).refuted THEN Scored(original, mutant, profile)
  ELSE [operator |-> mutant.operator, equivalent |-> TRUE, differential |-> FALSE, smt |-> FALSE]
=============================================================================
