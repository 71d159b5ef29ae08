------------------------------ MODULE MiniLang ------------------------------
(* The front end: the scanner (lang/lexer.py, lang/tokens.py), syntax trees   *)
(* (lang/ast.py), the recursive descent parser (lang/parser.py) and the       *)
(* declaration check (lang/resolve.py).  Source positions, which only error   *)
(* messages carry, are left out.                                              *)
EXTENDS Integers, Sequences, FiniteSets, TLC

\* Tokens: a fixed one is its lexeme, a name and a number carry a value.
Tok(t) == [t |-> t]
IDENT(x) == [t |-> "IDENT", lexeme |-> x]
NUMBER(n) == [t |-> "NUMBER", value |-> n]
EOF == Tok("EOF")

----------------------------------------------------------------------------
(* The scanner.  Characters are strings of length one.                        *)
Chr(src, k) == IF k \in 1 .. Len(src) THEN SubSeq(src, k, k) ELSE ""
In(k, chars) == \E j \in 1 .. Len(chars) : SubSeq(chars, j, j) = k
IsDigit(c) == In(c, "0123456789")
IsAlpha(c) == In(c, "abcdefghijklmnopqrstuvwxyzABCDEFGHIJKLMNOPQRSTUVWXYZ_")
IsSpace(c) == c \in {" ", "\t", "\r", "\n"}

TwoChar == {"<=", ">=", "==", "!=", "&&", "||"}
OneChar == {"+", "-", "*", "/", "%", "<", ">", "!", "=", ";", "(", ")", "{", "}"}
Keywords == {"int", "input", "if", "else", "while", "for", "print"}

\* The first position from k on where a condition holds, or one past the text.
FirstAt(src, k, Holds(_)) ==
  CHOOSE j \in k .. Len(src) + 1 : (j > Len(src) \/ Holds(j)) /\ \A i \in k .. j - 1 : ~Holds(i)
Ends(src, j) == Chr(src, j) = "*" /\ Chr(src, j + 1) = "/"

\* Where the blanks and comments at k end; 0 in a comment nothing closes.
RECURSIVE SkipTrivia(_, _)
SkipTrivia(src, k) ==
  CASE IsSpace(Chr(src, k)) -> SkipTrivia(src, k + 1)
    [] Chr(src, k) = "/" /\ Chr(src, k + 1) = "/" ->
         SkipTrivia(src, FirstAt(src, k, LAMBDA j : Chr(src, j) = "\n"))
    [] Chr(src, k) = "/" /\ Chr(src, k + 1) = "*" ->
         LET close == FirstAt(src, k + 2, LAMBDA j : Ends(src, j))
         IN IF Ends(src, close) THEN SkipTrivia(src, close + 2) ELSE 0
    [] OTHER -> k

Digit(c) == CHOOSE d \in 0 .. 9 : SubSeq("0123456789", d + 1, d + 1) = c
ValueOf(digits) ==
  LET v[k \in 0 .. Len(digits)] == IF k = 0 THEN 0 ELSE 10 * v[k - 1] + Digit(Chr(digits, k))
  IN v[Len(digits)]

\* The tokens of a source text; LexError when it is not one.
LexError == <<>>
Tokenize(src) ==
  LET RECURSIVE Scan(_, _)
      Scan(at, tokens) ==
        LET k == SkipTrivia(src, at)
            c == Chr(src, k)
            pair == c \o Chr(src, k + 1)
            digits == FirstAt(src, k, LAMBDA j : ~IsDigit(Chr(src, j)))
            word == FirstAt(src, k, LAMBDA j : ~IsAlpha(Chr(src, j)) /\ ~IsDigit(Chr(src, j)))
            name == SubSeq(src, k, word - 1)
        IN CASE k = 0 -> LexError
             [] k > Len(src) -> Append(tokens, EOF)
             [] IsDigit(c) ->              \* 12abc is no number followed by a name
                  IF IsAlpha(Chr(src, digits)) THEN LexError
                  ELSE Scan(digits, Append(tokens, NUMBER(ValueOf(SubSeq(src, k, digits - 1)))))
             [] IsAlpha(c) -> Scan(word, Append(tokens, IF name \in Keywords THEN Tok(name) ELSE IDENT(name)))
             [] pair \in TwoChar -> Scan(k + 2, Append(tokens, Tok(pair)))
             [] c \in OneChar -> Scan(k + 1, Append(tokens, Tok(c)))
             [] OTHER -> LexError
  IN Scan(1, <<>>)

----------------------------------------------------------------------------
\* Expressions and statements.
Number(n) == [e |-> "number", value |-> n]
Identifier(x) == [e |-> "ident", name |-> x]
BinaryE(op, l, r) == [e |-> "binary", op |-> op, left |-> l, right |-> r]
UnaryE(op, a) == [e |-> "unary", op |-> op, operand |-> a]
NoExpr == [e |-> "none"]

InputDecl(x) == [s |-> "input", name |-> x]
VarDecl(x, init) == [s |-> "var", name |-> x, init |-> init]
Assign(x, value) == [s |-> "assign", name |-> x, value |-> value]
PrintS(value) == [s |-> "print", value |-> value]
Block(body) == [s |-> "block", body |-> body]
If(c, then, else) == [s |-> "if", cond |-> c, then |-> then, else |-> else]
While(c, body) == [s |-> "while", cond |-> c, body |-> body]
For(init, c, update, body) ==
  [s |-> "for", init |-> init, cond |-> c, update |-> update, body |-> body]
NoStmt == [s |-> "none"]

----------------------------------------------------------------------------
(* The parser.  A rule takes the tokens and a position and returns the tree   *)
(* and the position after it; position 0 is a ParseError.  The token sequence *)
(* ends with EOF, which is never stepped over.                                *)
Fail == [node |-> NoStmt, at |-> 0]
Done(node, at) == [node |-> node, at |-> at]
At(ts, i, types) == i \in 1 .. Len(ts) /\ ts[i].t \in types

\* The position after an expected token, and what was read with a token expected after it.
Expect(ts, i, type) == IF At(ts, i, {type}) THEN i + 1 ELSE 0
Closed(ts, read, type) == Done(read.node, Expect(ts, read.at, type))

\* Mutant: sums bind tighter than products.
Levels_Swapped == << {"||"}, {"&&"}, {"==", "!="}, {"<", ">", "<=", ">="}, {"*", "/", "%"}, {"+", "-"} >>

\* Binary operators from the loosest level to the tightest.
Levels == << {"||"}, {"&&"}, {"==", "!="}, {"<", ">", "<=", ">="}, {"+", "-"}, {"*", "/", "%"} >>

RECURSIVE Expression(_, _, _)
Expression(ts, i, level) ==
  LET RECURSIVE More(_), Folded(_, _)       \* left-associative: fold to the left
      More(left) ==
        IF ~At(ts, left.at, Levels[level]) THEN left
        ELSE Folded(left, Expression(ts, left.at + 1, level + 1))
      Folded(left, right) ==
        IF right.at = 0 THEN Fail
        ELSE More(Done(BinaryE(ts[left.at].t, left.node, right.node), right.at))
      Under(arg) == IF arg.at = 0 THEN Fail ELSE Done(UnaryE(ts[i].t, arg.node), arg.at)
  IN CASE level <= Len(Levels) -> More(Expression(ts, i, level + 1))
       [] At(ts, i, {"-", "!"}) -> Under(Expression(ts, i + 1, level))
       [] At(ts, i, {"NUMBER"}) -> Done(Number(ts[i].value), i + 1)
       [] At(ts, i, {"IDENT"}) -> Done(Identifier(ts[i].lexeme), i + 1)
       [] At(ts, i, {"("}) -> Closed(ts, Expression(ts, i + 1, 1), ")")
       [] OTHER -> Fail
Expr(ts, i) == IF i = 0 THEN Fail ELSE Expression(ts, i, 1)

\* '(' expr ')' in front of what if, while and print need.
Condition(ts, i) == Closed(ts, Expr(ts, Expect(ts, i, "(")), ")")

Declaration(ts, i) ==                       \* int x [= expr] ;
  LET Declared(init) == Done(VarDecl(ts[i + 1].lexeme, init.node), Expect(ts, init.at, ";"))
  IN IF ~At(ts, i + 1, {"IDENT"}) THEN Fail
     ELSE Declared(IF At(ts, i + 2, {"="}) THEN Expr(ts, i + 3) ELSE Done(NoExpr, i + 2))

Assignment(ts, i) ==                        \* x = expr, whatever the first token is
  LET name == IF At(ts, i, {"IDENT"}) THEN ts[i].lexeme ELSE ts[i].t
      Assigned(value) == IF value.at = 0 THEN Fail ELSE Done(Assign(name, value.node), value.at)
  IN Assigned(Expr(ts, Expect(ts, i + 1, "=")))

RECURSIVE Statement(_, _), Statements(_, _, _, _)
Statements(ts, i, stop, done) ==            \* stmt* up to one of the stop tokens
  LET After(one) == Statements(ts, one.at, stop, Append(done, one.node))
  IN IF i = 0 THEN Fail ELSE IF At(ts, i, stop) THEN Done(done, i) ELSE After(Statement(ts, i))
NestedIn(ts, i) == IF i = 0 THEN Fail ELSE Statement(ts, i)

\* An else belongs to the nearest if.
IfElse(c, then, else) == Done(If(c.node, then.node, else.node), else.at)
IfThen(ts, c, then) ==
  IfElse(c, then, IF At(ts, then.at, {"else"}) THEN Statement(ts, then.at + 1) ELSE Done(NoStmt, then.at))
IfStatement(ts, c) == IfThen(ts, c, NestedIn(ts, c.at))

WhileBody(c, body) == Done(While(c.node, body.node), body.at)
WhileStatement(ts, c) == WhileBody(c, NestedIn(ts, c.at))

ForHead(ts, i) ==                           \* the first clause and the ';' after it
  CASE i = 0 -> Fail
    [] At(ts, i, {"int"}) -> Declaration(ts, i)
    [] At(ts, i, {";"}) -> Done(NoStmt, i + 1)
    [] OTHER -> Closed(ts, Assignment(ts, i), ";")

ForUpdate(ts, i) ==                         \* the last clause, which may be missing
  CASE i = 0 -> Fail
    [] At(ts, i, {")"}) -> Done(NoStmt, i)
    [] OTHER -> Assignment(ts, i)

ForBody(init, cond, update, body) == Done(For(init.node, cond.node, update.node, body.node), body.at)
ForAll(ts, init, cond, update) == ForBody(init, cond, update, NestedIn(ts, Expect(ts, update.at, ")")))
ForCondition(ts, init, cond) == ForAll(ts, init, cond, ForUpdate(ts, Expect(ts, cond.at, ";")))
ForInit(ts, init) == ForCondition(ts, init, Expr(ts, init.at))
ForStatement(ts, i) == ForInit(ts, ForHead(ts, Expect(ts, i + 1, "(")))

Statement(ts, i) ==
  CASE At(ts, i, {"input"}) ->
         IF At(ts, i + 1, {"IDENT"}) THEN Done(InputDecl(ts[i + 1].lexeme), Expect(ts, i + 2, ";"))
         ELSE Fail
    [] At(ts, i, {"int"}) -> Declaration(ts, i)
    [] At(ts, i, {"if"}) -> IfStatement(ts, Condition(ts, i + 1))
    [] At(ts, i, {"while"}) -> WhileStatement(ts, Condition(ts, i + 1))
    [] At(ts, i, {"for"}) -> ForStatement(ts, i)
    [] At(ts, i, {"print"}) -> LET Printed(v) == Done(PrintS(v.node), v.at) IN Closed(ts, Printed(Condition(ts, i + 1)), ";")
    [] At(ts, i, {"{"}) ->
         LET Braced(body) == Done(Block(body.node), body.at)
         IN Closed(ts, Braced(Statements(ts, i + 1, {"}", "EOF"}, <<>>)), "}")
    [] At(ts, i, {"IDENT"}) -> Closed(ts, Assignment(ts, i), ";")
    [] OTHER -> Fail

\* The program, or NoStmt for a ParseError.
Parse(ts) ==
  LET Program(all) == IF all.at = 0 THEN NoStmt ELSE Block(all.node)
  IN Program(Statements(ts, 1, {"EOF"}, <<>>))

----------------------------------------------------------------------------
(* Declarations.  One flat scope: a name is visible from its declaration to   *)
(* the end of the text, whatever block it is in, and declared once.           *)
Scope == [inputs |-> <<>>, declared |-> {}, ok |-> TRUE]

RECURSIVE Names(_)
Names(e) == CASE e.e = "ident" -> {e.name}
              [] e.e = "binary" -> Names(e.left) \cup Names(e.right)
              [] e.e = "unary" -> Names(e.operand)
              [] OTHER -> {}

Reads(scope, e) == [scope EXCEPT !.ok = @ /\ Names(e) \subseteq scope.declared]
Declares(scope, x) == [scope EXCEPT !.ok = @ /\ x \notin scope.declared, !.declared = @ \cup {x}]

RECURSIVE Resolved(_, _)
Resolved(st, scope) ==
  CASE st.s = "none" -> scope
    [] st.s = "input" -> [Declares(scope, st.name) EXCEPT !.inputs = Append(@, st.name)]
    [] st.s = "var" -> Declares(Reads(scope, st.init), st.name)   \* int x = x; is rejected
    [] st.s = "assign" -> Reads(Reads(scope, Identifier(st.name)), st.value)
    [] st.s = "print" -> Reads(scope, st.value)
    [] st.s = "block" ->
         LET RECURSIVE Each(_, _)
             Each(k, sc) == IF k > Len(st.body) THEN sc ELSE Each(k + 1, Resolved(st.body[k], sc))
         IN Each(1, scope)
    [] st.s = "if" -> Resolved(st.else, Resolved(st.then, Reads(scope, st.cond)))
    [] st.s = "while" -> Resolved(st.body, Reads(scope, st.cond))
    [] st.s = "for" ->
         Resolved(st.body, Resolved(st.update, Reads(Resolved(st.init, scope), st.cond)))
=============================================================================
