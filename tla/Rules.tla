------------------------------- MODULE Rules -------------------------------
(* What the analyses establish about each instruction (rules/facts.py), the   *)
(* productions that turn it into opportunities (rules/catalog.py) and the     *)
(* rewriting an opportunity stands for (transforms/catalog.py, base.py).      *)
EXTENDS Dataflow

\* The optimization types, in alphabetical order, which breaks ties.
CatalogueInOrder == << "algebraic_simplification", "common_subexpression_elimination", "constant_folding",
                       "constant_propagation", "copy_propagation", "dead_code_elimination",
                       "loop_invariant_code_motion", "strength_reduction" >>
Catalogue == {CatalogueInOrder[k] : k \in DOMAIN CatalogueInOrder}
KindOrder == [kind \in Catalogue |-> CHOOSE k \in DOMAIN CatalogueInOrder : CatalogueInOrder[k] = kind]

CONSTANT NameOrder      \* every name in alphabetical order, to break ties as sorted() does

\* The alphabetically first of a set of names, as a set of at most one.
FirstName(S) ==
  LET At(x) == CHOOSE k \in DOMAIN NameOrder : NameOrder[k] = x
  IN {x \in S : \A y \in S : At(x) <= At(y)}

IsConst(o, n) == o = Const(n)

\* An identity that holds whatever the operands hold, or "".
Algebraic(ins) ==
  IF ins.i # "bin" THEN ""
  ELSE LET l == ins.args[1]  r == ins.args[2]
       IN CASE ins.op = "+" /\ (IsConst(r, 0) \/ IsConst(l, 0)) -> "add_zero"
            [] ins.op = "-" /\ IsConst(r, 0) -> "sub_zero"
            [] ins.op = "-" /\ l = r /\ IsVar(l) -> "self_subtract"
            [] ins.op = "*" /\ (IsConst(r, 1) \/ IsConst(l, 1)) -> "mul_one"
            [] ins.op = "*" /\ (IsConst(r, 0) \/ IsConst(l, 0)) -> "mul_zero"
            [] ins.op = "/" /\ IsConst(r, 1) -> "div_one"
            [] OTHER -> ""

IsDoubling(ins) ==
  /\ ins.i = "bin" /\ ins.op = "*"
  /\ \E k \in 1 .. 2 : IsConst(ins.args[k], 2) /\ IsVar(ins.args[3 - k])

\* Every definition reaching an operand is outside the innermost loop around k; a
\* name without one is invariant only if it is an input.
IsInvariant(p, g, loops, reaching, k) ==
  LET body == Innermost(loops, BlockOf(g, k)).body
      Inside(d) == BlockOf(g, d) \in body
      DefsOf(x) == {d \in reaching[k] : p.code[d].dst = x}
  IN \A x \in Uses(p.code[k]) :
       /\ DefsOf(x) = {} => x \in {p.inputs[j] : j \in DOMAIN p.inputs}
       /\ \A d \in DefsOf(x) : ~Inside(d)

\* Working memory: for each instruction the facts asserted about it.  Sets hold at
\* most one element where the fact may be missing.
Asserted(p, g, loops, at) ==
  LET About(k, ins, key, depth) ==
        LET known == at["constants"][k]
        IN [pure |-> IsPure(ins),
            depth |-> depth,
            dead |-> Defs(ins) \ at["live"][k],
            computes |-> key,
            holder |-> IF key = <<>> THEN {}
                       ELSE FirstName({f[2] : f \in {h \in at["available"][k] : h[1] = key}}) \ Defs(ins),
            foldable |-> IF ins.i = "copy" /\ ~IsVar(ins.args[1]) THEN {} ELSE Folded(known, ins),
            is_const |-> {<<x, Least(Known(known, x))>> : x \in {y \in Uses(ins) : Known(known, y) # {}}},
            copy_of |-> UNION {{<<x, y>> : y \in FirstName(Known(at["copies"][k], x))} : x \in Uses(ins)},
            algebraic |-> Algebraic(ins),
            doubling |-> IsDoubling(ins),
            invariant |-> depth > 0 /\ key # <<>> /\ IsInvariant(p, g, loops, at["reaching"], k)]
  IN [k \in DOMAIN p.code |->
        About(k, p.code[k], ExpressionOf(p.code[k]), LoopDepth(loops, BlockOf(g, k)))]

Analysed(p, g) == [analysis \in Analyses |-> Analyse(analysis, p, g)]
Memory(p) ==
  LET On(g) == Asserted(p, g, NaturalLoops(g), Analysed(p, g)) IN On(Build(p))

----------------------------------------------------------------------------
(* The rules.  name and with carry what the rule already worked out: the name *)
(* that is read and what to read instead.                                     *)
Opportunity(kind, k, name, with) == [kind |-> kind, site |-> k, name |-> name, with |-> with]
NoDetail == Const(0)

DeadCode(m, k) == {Opportunity("dead_code_elimination", k, x, NoDetail) : x \in IF m[k].pure THEN m[k].dead ELSE {}}
ConstantFold(m, k) ==       \* only what computes: a copy of a constant is folded already
  {Opportunity("constant_folding", k, "", Const(v)) : v \in IF m[k].computes # <<>> THEN m[k].foldable ELSE {}}
AlgebraicRule(m, k) ==
  IF m[k].algebraic = "" THEN {} ELSE {Opportunity("algebraic_simplification", k, m[k].algebraic, NoDetail)}
StrengthReduction(m, k) == IF m[k].doubling THEN {Opportunity("strength_reduction", k, "mul_by_two", NoDetail)} ELSE {}
ConstantPropagation(m, k) == {Opportunity("constant_propagation", k, f[1], Const(f[2])) : f \in m[k].is_const}
CopyPropagation(m, k) == {Opportunity("copy_propagation", k, f[1], Var(f[2])) : f \in m[k].copy_of}
CommonSubexpression(m, k) == {Opportunity("common_subexpression_elimination", k, "", Var(h)) : h \in m[k].holder}
LoopInvariant(m, k) ==
  IF m[k].invariant /\ m[k].pure THEN {Opportunity("loop_invariant_code_motion", k, "", NoDetail)} ELSE {}

Opportunities(m) ==
  UNION {DeadCode(m, k) \cup ConstantFold(m, k) \cup AlgebraicRule(m, k) \cup StrengthReduction(m, k)
           \cup ConstantPropagation(m, k) \cup CopyPropagation(m, k) \cup CommonSubexpression(m, k)
           \cup LoopInvariant(m, k) : k \in DOMAIN m}

----------------------------------------------------------------------------
(* The transformations.  Each yields the rewritten program, or None when the  *)
(* opportunity is stale: it was found on another program, or named by a       *)
(* language model.                                                            *)
None == [inputs |-> <<>>, code |-> <<"none">>]

With(p, k, ins) == [p EXCEPT !.code[k] = ins]
Without(p, k) == [p EXCEPT !.code = SubSeq(@, 1, k - 1) \o SubSeq(@, k + 1, Len(@))]
Moved(p, from, to) ==       \* to is in front of from
  LET rest == Without(p, from).code
  IN [p EXCEPT !.code = SubSeq(rest, 1, to - 1) \o <<p.code[from]>> \o SubSeq(rest, to, Len(rest))]
Substitute(ins, x, o) == [ins EXCEPT !.args = [k \in DOMAIN @ |-> IF @[k] = Var(x) THEN o ELSE @[k]]]

Replaced(p, k, cond, ins) == IF cond THEN With(p, k, ins) ELSE None

\* Mutant: the neutral operand is kept instead of the other one.
ApplyAlgebraic_KeepsNeutral(p, o) ==
  LET ins == p.code[o.site]
      put == CASE o.name \in {"add_zero", "mul_one"} -> Const(IF o.name = "add_zero" THEN 0 ELSE 1)
               [] o.name \in {"sub_zero", "div_one"} -> ins.args[1]
               [] o.name \in {"self_subtract", "mul_zero"} -> Const(0)
  IN IF ins.i # "bin" THEN None ELSE With(p, o.site, Copy(ins.dst, put))

ApplyAlgebraic(p, o) ==
  LET ins == p.code[o.site]
      l == ins.args[1]
      Other(n) == IF IsConst(l, n) THEN ins.args[2] ELSE l
      put == CASE o.name = "add_zero" -> Other(0)
               [] o.name = "mul_one" -> Other(1)
               [] o.name \in {"sub_zero", "div_one"} -> l
               [] o.name \in {"self_subtract", "mul_zero"} -> Const(0)
  IN IF ins.i # "bin" THEN None ELSE With(p, o.site, Copy(ins.dst, put))

ApplyStrength(p, o) ==
  LET ins == p.code[o.site]
      x == IF IsVar(ins.args[1]) THEN ins.args[1] ELSE ins.args[2]
  IN IF ins.i = "bin" /\ ins.op = "*" /\ IsVar(x) THEN With(p, o.site, BinAssign(ins.dst, "+", x, x)) ELSE None

\* A read of the name replaced; nothing to do when it is not read.
ApplyPropagation(p, o) ==
  LET new == Substitute(p.code[o.site], o.name, o.with)
  IN Replaced(p, o.site, new # p.code[o.site], new)

\* To the start of the header of the innermost loop around it, which is in front of
\* the label the loop jumps back to.
ApplyCodeMotion(p, o) ==
  LET Into(g, loops) ==
        LET b == BlockOf(g, o.site)
            to == g.first[Innermost(loops, b).head]
        IN IF /\ IsPure(p.code[o.site]) /\ Defs(p.code[o.site]) # {}
              /\ LoopDepth(loops, b) > 0 /\ to < o.site
           THEN Moved(p, o.site, to) ELSE None
      On(g) == Into(g, NaturalLoops(g))
  IN On(Build(p))

Apply(p, o) ==
  IF o.site \notin DOMAIN p.code THEN None
  ELSE LET ins == p.code[o.site]
           computes == ins.i \in {"bin", "un"}
       IN CASE o.kind = "dead_code_elimination" ->
                 IF Defs(ins) # {} /\ IsPure(ins) THEN Without(p, o.site) ELSE None
            [] o.kind = "constant_folding" -> Replaced(p, o.site, computes, Copy(ins.dst, o.with))
            [] o.kind = "algebraic_simplification" -> ApplyAlgebraic(p, o)
            [] o.kind = "strength_reduction" -> ApplyStrength(p, o)
            [] o.kind \in {"constant_propagation", "copy_propagation"} -> ApplyPropagation(p, o)
            [] o.kind = "common_subexpression_elimination" ->
                 Replaced(p, o.site, computes /\ o.with # Var(ins.dst), Copy(ins.dst, o.with))
            [] o.kind = "loop_invariant_code_motion" -> ApplyCodeMotion(p, o)
=============================================================================
