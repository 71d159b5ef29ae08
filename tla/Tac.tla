-------------------------------- MODULE Tac --------------------------------
(* Three address code (ir/tac.py) and the interpreter that gives it meaning   *)
(* (interp/machine.py).                                                       *)
(*                                                                            *)
(* An instruction is a record of one shape: the name it defines ("" if none), *)
(* its operator ("" if none), the operands it reads and the label it jumps to *)
(* or is.  Indices start at 1 where the code's start at 0.                    *)
EXTENDS Integers, Sequences, FiniteSets, TLC

Arithmetic == {"+", "-", "*", "/", "%"}
Comparisons == {"<", ">", "<=", ">=", "==", "!="}
Trapping == {"/", "%"}

Const(n) == [const |-> n]
Var(x) == [var |-> x]
IsVar(o) == "var" \in DOMAIN o

Instr(i, dst, op, args, to) == [i |-> i, dst |-> dst, op |-> op, args |-> args, to |-> to]
BinAssign(dst, op, l, r) == Instr("bin", dst, op, <<l, r>>, "")
UnAssign(dst, op, a) == Instr("un", dst, op, <<a>>, "")
Copy(dst, src) == Instr("copy", dst, "", <<src>>, "")
Label(l) == Instr("label", "", "", <<>>, l)
Goto(l) == Instr("goto", "", "", <<>>, l)
IfFalse(c, l) == Instr("iffalse", "", "", <<c>>, l)
IfTrue(c, l) == Instr("iftrue", "", "", <<c>>, l)
Prints(v) == Instr("print", "", "", <<v>>, "")

\* What the analyses look at: a division may trap and a print is seen, so neither
\* is pure; everything else is.
Defs(ins) == {ins.dst} \ {""}
Uses(ins) == {ins.args[k].var : k \in {j \in DOMAIN ins.args : IsVar(ins.args[j])}}
IsPure(ins) == ins.i # "print" /\ ~(ins.i = "bin" /\ ins.op \in Trapping)
Jumps(ins) == ins.i \in {"goto", "iffalse", "iftrue"}

\* A program is [inputs: sequence of names, code: sequence of instructions].  The
\* last label of a name wins, as in the dictionary of the code.
Labels(p) ==
  LET at == {k \in DOMAIN p.code : p.code[k].i = "label"}
  IN [l \in {p.code[k].to : k \in at} |->
        CHOOSE k \in at : p.code[k].to = l /\ \A j \in at : p.code[j].to = l => j <= k]

----------------------------------------------------------------------------
(* Arithmetic.  Integers are unbounded; division truncates toward zero and    *)
(* the remainder takes the sign of the dividend.                              *)
Magnitude(a) == IF a < 0 THEN -a ELSE a
Div(a, b) == LET q == Magnitude(a) \div Magnitude(b) IN IF (a < 0) # (b < 0) THEN -q ELSE q
Mod(a, b) == a - Div(a, b) * b
Bit(holds) == IF holds THEN 1 ELSE 0

Binary(op, a, b) ==
  CASE op = "+" -> a + b
    [] op = "-" -> a - b
    [] op = "*" -> a * b
    [] op = "/" -> Div(a, b)
    [] op = "%" -> Mod(a, b)
    [] op = "<" -> Bit(a < b)
    [] op = ">" -> Bit(a > b)
    [] op = "<=" -> Bit(a <= b)
    [] op = ">=" -> Bit(a >= b)
    [] op = "==" -> Bit(a = b)
    [] op = "!=" -> Bit(a # b)
Unary(op, a) == IF op = "-" THEN -a ELSE Bit(a = 0)

----------------------------------------------------------------------------
(* The interpreter.  A configuration is the program counter, the variables,   *)
(* what was printed, the steps taken and how it ended ("" while it runs).     *)
Value(o, env) == IF IsVar(o) THEN env[o.var] ELSE o.const

\* An input nobody supplied is 0.
StartOf(p, in) ==
  [pc |-> 1, env |-> [x \in {p.inputs[k] : k \in DOMAIN p.inputs} |-> IF x \in DOMAIN in THEN in[x] ELSE 0],
   out |-> <<>>, steps |-> 0, status |-> ""]

Taken(ins, env) ==
  \/ ins.i = "goto"
  \/ ins.i = "iffalse" /\ Value(ins.args[1], env) = 0
  \/ ins.i = "iftrue" /\ Value(ins.args[1], env) # 0

\* The trap an instruction runs into, in the order its operands are read.
Trap(ins, env, labels) ==
  CASE \E x \in Uses(ins) : x \notin DOMAIN env -> "undefined_variable"
    [] ins.op \in Trapping /\ ins.i = "bin" /\ Value(ins.args[2], env) = 0 -> "division_by_zero"
    [] Jumps(ins) /\ ins.to \notin DOMAIN labels /\ Taken(ins, env) -> "undefined_label"
    [] OTHER -> ""

Result(ins, env) ==
  CASE ins.i = "copy" -> Value(ins.args[1], env)
    [] ins.i = "un" -> Unary(ins.op, Value(ins.args[1], env))
    [] ins.i = "bin" -> Binary(ins.op, Value(ins.args[1], env), Value(ins.args[2], env))

Step(p, labels, limit, c) ==
  IF c.pc > Len(p.code) THEN [c EXCEPT !.status = "completed"]
  ELSE IF c.steps >= limit THEN [c EXCEPT !.status = "step_limit"]
  ELSE LET ins == p.code[c.pc]
           trap == Trap(ins, c.env, labels)
       IN IF trap # "" THEN [c EXCEPT !.steps = @ + 1, !.status = trap]
          ELSE [c EXCEPT !.steps = @ + 1,
                         !.env = IF ins.dst = "" THEN @ ELSE (ins.dst :> Result(ins, @)) @@ @,
                         !.out = IF ins.i = "print" THEN Append(@, Value(ins.args[1], c.env)) ELSE @,
                         !.pc = IF Jumps(ins) /\ Taken(ins, c.env) THEN labels[ins.to] ELSE @ + 1]

\* Every configuration of a run, the last one ended.
Trace(p, in, limit) ==
  LET labels == Labels(p)
      RECURSIVE More(_)
      More(cs) == IF cs[Len(cs)].status # "" THEN cs
                  ELSE More(Append(cs, Step(p, labels, limit, cs[Len(cs)])))
  IN More(<<StartOf(p, in)>>)

Execute(p, in, limit) ==
  LET labels == Labels(p)
      RECURSIVE Run(_)
      Run(c) == IF c.status # "" THEN c ELSE Run(Step(p, labels, limit, c))
  IN Run(StartOf(p, in))

\* A run that hit the step limit proves nothing; two that did not are the same when
\* they ended alike, by the same trap if by one, after the same prints.
Conclusive(r) == r.status # "step_limit"
ObservablyEquals(r, s) == /\ Conclusive(r) /\ Conclusive(s)
                          /\ r.status = s.status
                          /\ r.out = s.out
=============================================================================
