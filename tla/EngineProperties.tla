-------------------------- MODULE EngineProperties --------------------------
(* What the engine promises, against definitions that share nothing with the  *)
(* code: the text a tree is written as, the meaning of a tree, paths of a     *)
(* graph, and what really happens along an execution.                         *)
EXTENDS Engine

CONSTANT Limit      \* the steps after which a run counts as endless

Vectors(p) == [InputNames(p) -> Universe]
Behaves(p, q) ==                             \* the same on every vector on which p ends
  \A v \in Vectors(p) : LET r == Execute(p, v, Limit)
                        IN Conclusive(r) => ObservablyEquals(r, Execute(q, v, 2 * Limit))
\* No run reads a name that was never given a value.
ReadsDefined(p) == \A v \in Vectors(p) : Execute(p, v, Limit).status # "undefined_variable"

----------------------------------------------------------------------------
(* The front end.                                                             *)
Precedence(e) ==
  CASE e.e = "binary" -> CHOOSE k \in 1 .. 6 :
                           e.op \in << {"||"}, {"&&"}, {"==", "!="}, {"<", ">", "<=", ">="},
                                       {"+", "-"}, {"*", "/", "%"} >>[k]
    [] e.e = "unary" -> 7
    [] OTHER -> 8

\* A tree as tokens, with parentheses only where they are needed.
RECURSIVE Written(_), WrittenStmt(_)
Parens(tokens) == <<Tok("(")>> \o tokens \o <<Tok(")")>>
WrittenFrom(e, level) == IF Precedence(e) < level THEN Parens(Written(e)) ELSE Written(e)
Written(e) ==
  CASE e.e = "none" -> <<>>
    [] e.e = "number" -> <<NUMBER(e.value)>>
    [] e.e = "ident" -> <<IDENT(e.name)>>
    [] e.e = "unary" -> <<Tok(e.op)>> \o WrittenFrom(e.operand, 7)
    [] e.e = "binary" -> WrittenFrom(e.left, Precedence(e)) \o <<Tok(e.op)>>
                           \o WrittenFrom(e.right, Precedence(e) + 1)
Semi == <<Tok(";")>>
Clause(st) == IF st.s = "none" THEN <<>>
              ELSE LET tokens == WrittenStmt(st) IN SubSeq(tokens, 1, Len(tokens) - 1)
WrittenStmt(st) ==
  CASE st.s = "none" -> <<>>
    [] st.s = "input" -> <<Tok("input"), IDENT(st.name)>> \o Semi
    [] st.s = "var" -> <<Tok("int"), IDENT(st.name)>>
                         \o (IF st.init = NoExpr THEN <<>> ELSE <<Tok("=")>> \o Written(st.init)) \o Semi
    [] st.s = "assign" -> <<IDENT(st.name), Tok("=")>> \o Written(st.value) \o Semi
    [] st.s = "print" -> <<Tok("print")>> \o Parens(Written(st.value)) \o Semi
    [] st.s = "block" ->
         LET all[k \in 0 .. Len(st.body)] == IF k = 0 THEN <<>> ELSE all[k - 1] \o WrittenStmt(st.body[k])
         IN <<Tok("{")>> \o all[Len(st.body)] \o <<Tok("}")>>
    [] st.s = "if" -> <<Tok("if")>> \o Parens(Written(st.cond)) \o WrittenStmt(st.then)
                        \o (IF st.else = NoStmt THEN <<>> ELSE <<Tok("else")>> \o WrittenStmt(st.else))
    [] st.s = "while" -> <<Tok("while")>> \o Parens(Written(st.cond)) \o WrittenStmt(st.body)
    [] st.s = "for" -> <<Tok("for")>>
                         \o Parens(Clause(st.init) \o Semi \o Written(st.cond) \o Semi \o Clause(st.update))
                         \o WrittenStmt(st.body)
WrittenText(tree) == LET tokens == WrittenStmt(tree) IN Append(SubSeq(tokens, 2, Len(tokens) - 1), EOF)
Bare(tokens) == SelectSeq(tokens, LAMBDA tk : tk.t \notin {"(", ")"})
Dropping(tokens, k) == SubSeq(tokens, 1, k - 1) \o SubSeq(tokens, k + 1, Len(tokens))

\* The parser reads every token it accepts and groups operators as their precedence says:
\* a text is the text of its tree, and a text with a token taken out is rejected or is, up
\* to parentheses, the text of another tree (parser.py, lexer.py).
ParserReadsEveryToken ==
  LET IsText(tree, tokens) == tree # NoStmt => WrittenText(tree) = tokens
      IsTextOf(tree, tokens) == tree # NoStmt => Bare(WrittenText(tree)) = Bare(tokens)
      ReadsEvery(tokens) ==
        /\ tokens # LexError => IsText(Parse(tokens), tokens)
        /\ \A k \in 1 .. Len(tokens) - 1 : IsTextOf(Parse(Dropping(tokens, k)), Dropping(tokens, k))
  IN phase = "source" => ReadsEvery(Tokenize(text))

----------------------------------------------------------------------------
(* The meaning of a tree: a store is [env, out, trap, fuel].                  *)
RECURSIVE Evaluate(_, _), RunStmt(_, _)

\* The value of an expression, or the trap it runs into.
Good(n) == [trap |-> "", n |-> n]
Bad(trap) == [trap |-> trap, n |-> 0]
Evaluate(e, env) ==
  CASE e.e = "number" -> Good(e.value)
    [] e.e = "ident" -> IF e.name \in DOMAIN env THEN Good(env[e.name]) ELSE Bad("undefined_variable")
    [] e.e = "unary" -> LET a == Evaluate(e.operand, env) IN IF a.trap # "" THEN a ELSE Good(Unary(e.op, a.n))
    [] OTHER ->
         LET a == Evaluate(e.left, env)
             b == Evaluate(e.right, env)
         IN CASE a.trap # "" -> a
              [] e.op = "&&" /\ a.n = 0 -> Good(0)
              [] e.op = "||" /\ a.n # 0 -> Good(1)
              [] b.trap # "" -> b
              [] e.op \in {"&&", "||"} -> Good(Bit(b.n # 0))
              [] e.op \in Trapping /\ b.n = 0 -> Bad("division_by_zero")
              [] OTHER -> Good(Binary(e.op, a.n, b.n))

Bound(s, x, e) == LET v == Evaluate(e, s.env)
                  IN IF v.trap # "" THEN [s EXCEPT !.trap = v.trap] ELSE [s EXCEPT !.env = (x :> v.n) @@ @]
Loop(cond, body, update, s) ==
  LET RECURSIVE Round(_)
      Round(r) == LET c == Evaluate(cond, r.env)
                  IN CASE r.trap # "" -> r
                       [] c.trap # "" -> [r EXCEPT !.trap = c.trap]
                       [] c.n = 0 -> r
                       [] r.fuel = 0 -> [r EXCEPT !.trap = "step_limit"]
                       [] OTHER -> Round(RunStmt(update, RunStmt(body, [r EXCEPT !.fuel = @ - 1])))
  IN Round(s)
RunStmt(st, s) ==
  IF s.trap # "" THEN s
  ELSE CASE st.s = "none" \/ st.s = "input" -> s
         [] st.s = "var" -> Bound(s, st.name, IF st.init = NoExpr THEN Number(0) ELSE st.init)
         [] st.s = "assign" -> Bound(s, st.name, st.value)
         [] st.s = "print" -> LET v == Evaluate(st.value, s.env)
                              IN IF v.trap # "" THEN [s EXCEPT !.trap = v.trap] ELSE [s EXCEPT !.out = Append(@, v.n)]
         [] st.s = "block" ->
              LET all[k \in 0 .. Len(st.body)] == IF k = 0 THEN s ELSE RunStmt(st.body[k], all[k - 1])
              IN all[Len(st.body)]
         [] st.s = "if" -> LET c == Evaluate(st.cond, s.env)
                           IN IF c.trap # "" THEN [s EXCEPT !.trap = c.trap]
                              ELSE RunStmt(IF c.n # 0 THEN st.then ELSE st.else, s)
         [] st.s = "while" -> Loop(st.cond, st.body, NoStmt, s)
         [] st.s = "for" -> Loop(st.cond, st.body, st.update, RunStmt(st.init, s))

Meaning(tree, v) == RunStmt(tree, [env |-> v, out |-> <<>>, trap |-> "", fuel |-> Limit])

\* The three address code of a text prints what the text means and traps where it does, for
\* the operators that short circuit and for loops as well (ir/lower.py, interp/machine.py).  A
\* text that reads a name nothing gave a value means the trap of interp/machine.py:204; that
\* such texts are accepted at all is against lower.py's head, see EveryVariableHasAValue.
LoweringKeepsMeaning ==
  phase = "ready" =>
    \A v \in Vectors(current) :
      LET Means(meant, ran) ==
            Conclusive(ran) => /\ ran.out = meant.out
                               /\ ran.status = IF meant.trap = "" THEN "completed" ELSE meant.trap
      IN Means(Meaning(Tree(text), v), Execute(current, v, Limit))

\* "A declaration with no initializer defaults to 0, so every variable has a value everywhere
\* and equivalence stays well defined" (ir/lower.py:11-13): no run of the lowered code of an
\* accepted text reads a name without one.
EveryVariableHasAValue == phase = "ready" => ReadsDefined(current)

----------------------------------------------------------------------------
(* The graph and the analyses.                                                *)

\* Where control may go from an instruction, and everything it reaches that way without
\* entering one instruction.
Targets(p, k) ==
  (IF Jumps(p.code[k]) THEN {Labels(p)[p.code[k].to]} ELSE {})
    \cup (IF p.code[k].i = "goto" THEN {} ELSE {k + 1} \cap DOMAIN p.code)
ReachedWithout(p, from, avoid) ==
  LET grown[n \in 0 .. Len(p.code)] ==
        IF n = 0 THEN from \ {avoid}
        ELSE LET so_far == grown[n - 1]
             IN so_far \cup UNION {Targets(p, k) \ {avoid} : k \in so_far}
  IN grown[Len(p.code)]

\* Blocks, edges, dominance and loop depth are those of the paths through the code: a
\* block dominates what cannot be reached without it, and the depth of a block is the
\* number of back edges whose tail it reaches without leaving through the head (ir/cfg.py).
GraphIsRight ==
  phase = "ready" =>
    \A p \in Space :
      LET g == Build(p)
          reached == {b \in Nodes(g) : g.first[b] \in ReachedWithout(p, {1}, 0)}
          Over(d, b) == d = b \/ g.first[b] \notin ReachedWithout(p, {1}, g.first[d])
          back == {<<tl, h>> \in reached \X reached :
                     g.first[h] \in Targets(p, g.last[tl]) /\ Over(h, tl)}
          Within(e, b) ==
            \/ b = e[2]
            \/ Over(e[2], b) /\ g.first[e[1]] \in ReachedWithout(p, {g.first[b]}, g.first[e[2]])
          dom == Dominators(g)
          loops == NaturalLoops(g)
      IN /\ Reachable(g) = reached
         /\ \A k \in DOMAIN p.code : \A j \in Targets(p, k) :
              \/ BlockOf(g, k) = BlockOf(g, j) /\ j = k + 1
              \/ BlockOf(g, j) \in g.succ[BlockOf(g, k)] /\ j = g.first[BlockOf(g, j)]
         /\ \A b \in reached : /\ \A d \in reached : d \in dom[b] <=> Over(d, b)
                               /\ LoopDepth(loops, b) = Cardinality({e \in back : Within(e, b)})

\* What an analysis says of an instruction is so whenever a run comes to it: a known constant
\* has that value, a copy is its source, a holder holds the expression, the definition a value
\* came from reaches, and a name that is not live is not read before it is given a new value
\* (analysis/*.py).
HoldsAlong(p, at, run) ==
  LET Pc(n) == run[n].pc
      Steps == {n \in 1 .. Len(run) - 1 : Pc(n) <= Len(p.code)}
      Code(n) == p.code[Pc(n)]
      Computed(key, env) == IF Len(key) = 2 THEN Unary(key[1], Value(key[2], env))
                            ELSE Binary(key[1], Value(key[2], env), Value(key[3], env))
      ReadNext(x, n) ==            \* read after step n before it is set again
        \E m \in Steps : /\ m > n /\ x \in Uses(Code(m))
                         /\ \A i \in Steps : n < i /\ i < m => x # Code(i).dst
      ReachesUnset(m, n) ==        \* sets a name no step up to n sets again
        /\ m < n /\ Code(m).dst # ""
        /\ \A i \in Steps : m < i /\ i < n => Code(i).dst # Code(m).dst
  IN \A n \in Steps :
       LET k == Pc(n)
           env == run[n].env
       IN /\ \A f \in at["constants"][k] : f[1] \in DOMAIN env /\ env[f[1]] = f[2]
          /\ \A f \in at["copies"][k] : {f[1], f[2]} \subseteq DOMAIN env /\ env[f[1]] = env[f[2]]
          /\ \A f \in at["available"][k] : env[f[2]] = Computed(f[1], env)
          /\ \A x \in DOMAIN env : ReadNext(x, n) => x \in at["live"][k]
          /\ \A m \in Steps : ReachesUnset(m, n) => Pc(m) \in at["reaching"][k]
AnalysesHold ==
  LET Hold(p, at) == \A v \in Vectors(p) : HoldsAlong(p, at, Trace(p, v, Limit))
  IN phase = "ready" => \A p \in Space : Hold(p, Analysed(p, Build(p)))

\* The graph of a program and what is deduced on it are true of its runs.
AnalysisIsRight == GraphIsRight /\ AnalysesHold

----------------------------------------------------------------------------
(* Rewriting and verifying.                                                   *)

\* Whatever the rules offer can be carried out, and keeps what a program does wherever the
\* program reads only what it has set; no such offer is refuted (rules/catalog.py,
\* rules/facts.py, transforms/catalog.py).
MovesAreSafe ==
  phase = "ready" =>
    \A p \in Space : \A t \in TrialsOf(p) :
      /\ ~Stale(t)
      /\ ReadsDefined(p) => ~Refuted(t.outcome) /\ Behaves(p, t.to)

\* A verdict is true: what is proven equivalent is, on every vector, and what is refuted
\* differs on the vector the report names; of real rewrites and of planted faults
\* (verify/__init__.py, differential.py, smt.py, mutation.py).
Deserved(p, q, outcome) ==
  /\ outcome.verdict = "proven_equivalent" => Behaves(p, q) /\ Behaves(q, p)
  /\ \A v \in outcome.witness : LET r == Execute(p, v, Limit)  s == Execute(q, v, Limit)
                                IN Conclusive(r) /\ Conclusive(s) /\ ~ObservablyEquals(r, s)
  /\ Refuted(outcome) <=> outcome.witness # {}
VerdictsAreTrue ==
  /\ phase = "ready" => \A p \in Space : \A t \in TrialsOf(p) : ~Stale(t) => Deserved(p, t.to, t.outcome)
  /\ phase = "studied" =>
       LET outcome == Verdict(original, current, Fast, TRUE)
       IN /\ Deserved(original, current, outcome)
          /\ report.differential \/ report.smt => Refuted(outcome)

----------------------------------------------------------------------------
(* The session.                                                               *)

\* The programs the decisions lead to, taken one after the other from the original.
Replayed ==
  LET at[n \in 0 .. Len(kept)] ==
        IF n = 0 THEN {original}
        ELSE {t.to : t \in {u \in UNION {TrialsOf(p) : p \in at[n - 1]} :
                             u.o.kind = kept[n].kind /\ u.o.site = kept[n].site}} \cap Space
  IN at[Len(kept)]
Total(field) == MapThenSumSet(LAMBDA k : by_kind[k][field], Catalogue)

\* What a finished run reports adds up: the decisions it accepted lead, replayed line by
\* line, to the program it returns, which does what the original does and costs less for
\* every decision; and the counts by type are the totals (orchestrator/agent.py).
ReportIsTrue ==
  phase = "done" =>
    /\ current \in Replayed
    /\ ReadsDefined(original) => report.output_match /\ Behaves(original, current)
    /\ report.cost_after <= CostOf(original) - report.accepted
    /\ report.final_proof = "proven_equivalent" => report.output_match
    /\ stats.proposals = stats.verified + stats.refuted
    /\ Total("proposed") = stats.proposals /\ Total("refuted") = stats.refuted
    /\ Total("improving") = stats.improving /\ Total("accepted") = Len(kept)
    /\ stats.verified = MapThenSumSet(LAMBDA p : Cardinality(Moves(TrialsOf(p))), cache)

\* What the model is told not to try again is about the program it is asked about: a line
\* that was ruled out offers nothing of that kind that would lower the cost, as long as the
\* budget lets the search look (llm/strategy.py).
RejectionsStillHold ==
  \A item \in asked.ruled_out :
    item.kind # "" /\ ~exhausted =>
      \A m \in Moves(TrialsOf(current)) :
        m.o.kind = item.kind /\ m.o.site = item.site => m.cost >= CostOf(current)

\* The types, and the two budgets: a session that searches is at a program it may look up,
\* and no more programs are worked out than NodeBudget.
SessionTypeOK ==
  /\ text \in Texts /\ phase \in {"source", "rejected", "ready", "search", "settled", "done", "planted", "studied"}
  /\ method \in {"", "greedy", "llm"} /\ (method = "") = (phase \in {"source", "rejected", "ready", "planted", "studied"})
  /\ phase \in {"search", "settled", "done"} => current \in Space
  /\ \A i \in DOMAIN kept : kept[i].kind \in Catalogue /\ kept[i].site \in Nat
  /\ Len(kept) <= MaxIterations /\ cache \subseteq Space /\ Cardinality(cache) <= NodeBudget /\ exhausted \in BOOLEAN
  /\ \A f \in DOMAIN NoStats : stats[f] \in Nat
  /\ \A k \in Catalogue : \A f \in DOMAIN NoCounts : by_kind[k][f] \in Nat
  /\ asked.calls \in 0 .. MaxCalls /\ asked.failures \in 0 .. MaxFailures
  /\ \A item \in asked.ruled_out : item.kind \in Catalogue \cup {""}

\* A session tells the truth: to its reader at the end, and to the model on the way.
SessionIsTrue == SessionTypeOK /\ ReportIsTrue /\ RejectionsStillHold
=============================================================================
