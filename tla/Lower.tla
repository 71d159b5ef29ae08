------------------------------- MODULE Lower -------------------------------
(* Syntax tree to three address code (ir/lower.py).  Nothing is folded on the *)
(* way: every intermediate value gets a temporary.                            *)
EXTENDS MiniLang, Tac

\* What the lowerer holds: the code so far and its two counters; value is the
\* operand the last expression left its result in.
Lowering == [code |-> <<>>, temps |-> 0, labels |-> 0, value |-> Const(0)]

Emit(w, ins) == [w EXCEPT !.code = Append(@, ins)]
TempName(n) == "t" \o ToString(n)
LabelName(n) == "L" \o ToString(n)
Leaves(w, operand) == [w EXCEPT !.value = operand]

RECURSIVE LowerExpr(_, _)

\* a && b:  r = 0; ifFalse a goto end; ifFalse b goto end; r = 1; end:   (|| dually)
ShortCircuit(e, w) ==
  LET isAnd == e.op = "&&"
      r == TempName(w.temps + 1)
      end == LabelName(w.labels + 1)
      Branch(v) == IF isAnd THEN IfFalse(v.value, end) ELSE IfTrue(v.value, end)
      w0 == Emit([w EXCEPT !.temps = @ + 1, !.labels = @ + 1], Copy(r, Const(Bit(~isAnd))))
      left == LowerExpr(e.left, w0)
      right == LowerExpr(e.right, Emit(left, Branch(left)))
      last == Emit(Emit(right, Branch(right)), Copy(r, Const(Bit(isAnd))))
  IN Leaves(Emit(last, Label(end)), Var(r))

LowerExpr(e, w) ==
  CASE e.e = "number" -> Leaves(w, Const(e.value))
    [] e.e = "ident" -> Leaves(w, Var(e.name))
    [] e.e = "unary" ->
         LET a == LowerExpr(e.operand, w)
             t == TempName(a.temps + 1)
         IN Leaves(Emit([a EXCEPT !.temps = @ + 1], UnAssign(t, e.op, a.value)), Var(t))
    [] e.e = "binary" /\ e.op \in {"&&", "||"} -> ShortCircuit(e, w)
    [] OTHER ->                             \* left before right: a trap shows the order
         LET left == LowerExpr(e.left, w)
             right == LowerExpr(e.right, left)
             t == TempName(right.temps + 1)
         IN Leaves(Emit([right EXCEPT !.temps = @ + 1], BinAssign(t, e.op, left.value, right.value)),
                   Var(t))

RECURSIVE LowerStmt(_, _)

\* Mutant: the first branch runs on into the second.
LowerIf_RunsOn(st, w) ==
  LET c == LowerExpr(st.cond, w)
      l1 == LabelName(c.labels + 1)
      Then == LowerStmt(st.then, Emit([c EXCEPT !.labels = @ + 1], IfFalse(c.value, l1)))
  IN Emit(IF st.else = NoStmt THEN Then ELSE LowerStmt(st.else, Emit(Then, Label(l1))), Label(l1))

LowerIf(st, w) ==
  LET c == LowerExpr(st.cond, w)
      l1 == LabelName(c.labels + 1)
      l2 == LabelName(c.labels + 2)
      Then(n) == LowerStmt(st.then, Emit([c EXCEPT !.labels = @ + n], IfFalse(c.value, l1)))
  IN IF st.else = NoStmt THEN Emit(Then(1), Label(l1))
     ELSE Emit(LowerStmt(st.else, Emit(Emit(Then(2), Goto(l2)), Label(l1))), Label(l2))

\* The condition is lowered inside the loop: it is evaluated again each time round.
LowerWhile(cond, body, update, w) ==
  LET top == LabelName(w.labels + 1)
      end == LabelName(w.labels + 2)
      c == LowerExpr(cond, Emit([w EXCEPT !.labels = @ + 2], Label(top)))
      round == LowerStmt(update, LowerStmt(body, Emit(c, IfFalse(c.value, end))))
  IN Emit(Emit(round, Goto(top)), Label(end))

LowerStmt(st, w) ==
  CASE st.s \in {"none", "input"} -> w
    [] st.s = "var" /\ st.init = NoExpr -> Emit(w, Copy(st.name, Const(0)))
    [] st.s = "var" -> LET v == LowerExpr(st.init, w) IN Emit(v, Copy(st.name, v.value))
    [] st.s = "assign" -> LET v == LowerExpr(st.value, w) IN Emit(v, Copy(st.name, v.value))
    [] st.s = "print" -> LET v == LowerExpr(st.value, w) IN Emit(v, Prints(v.value))
    [] st.s = "block" ->
         LET RECURSIVE Each(_, _)
             Each(k, x) == IF k > Len(st.body) THEN x ELSE Each(k + 1, LowerStmt(st.body[k], x))
         IN Each(1, w)
    [] st.s = "if" -> LowerIf(st, w)
    [] st.s = "while" -> LowerWhile(st.cond, st.body, NoStmt, w)
    [] st.s = "for" -> LowerWhile(st.cond, st.body, st.update, LowerStmt(st.init, w))

\* The program of a resolved tree.
LowerProgram(tree) == [inputs |-> Resolved(tree, Scope).inputs, code |-> LowerStmt(tree, Lowering).code]
=============================================================================
