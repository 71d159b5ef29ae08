------------------------------ MODULE MCEngine ------------------------------
(* Small programs, chosen so that every statement, every rule and both        *)
(* channels of the verification have something to do.                         *)
EXTENDS EngineProperties

Straight == "input n; int a = n * 2; int b = n * 2; print(a + b + 0);"
Folds == "input n; int a = -3; int b = a / 2 - 2; if (b < 0) print(b - n / 1); else print(n);"
Hoists == "input n; int i = 0; int s = 0; while (i < 2) { s = s + n * n; i = i + 1; } print(s);"
Counts == "input n; int s = 0; for (int i = 0; i < n; i = i + 1) { int c = i; s = s + c % 2; } print(s);"
Traps == "input n; input m; print(n); print(m != 0 && n / m > 0 || !n); print(m / n);"
Branches == "input n; int x = 1; if (n) x = -n; else { if (n - 0 == 0) x = 1; } print(x * 0 + x);"
Nested == "int i = 0; while (i < 2) { int j = 0; while (j < i) { print(j); j = j + 1; } i = i + 1; }"
Undefined == "input n; if (n) { int x = 1; } int y = x; print(n + n * 2);"
Captures == "input t1; print(t1 + 1 * 2);"
Twice == "input n; int n = 1; print(n);"
Unclosed == "input n; print((n + 1);"
Garbled == "input n; print(n & 1);"

AllTexts == {Straight, Folds, Hoists, Counts, Traps, Branches, Nested, Undefined, Twice, Unclosed, Garbled}
CapturedTexts == {Straight, Captures}
UndefinedTexts == {Straight, Undefined}
AskedOnes == {Straight, Branches}
StudiedOnes == {Folds, Traps}

Alphabet == <<"a", "b", "c", "i", "j", "m", "n", "s", "t1", "t2", "t3", "t4", "t5", "t6", "t7", "t8", "t9", "x", "y">>
FastProfile == [edges |-> <<0, 1, -1, 2>>, draws |-> <<3, -3, 1>>, cases |-> 2, limit |-> 60]
ThoroughProfile == [edges |-> <<0, 1, -1, 2, -2>>, draws |-> <<2, -3, 5>>, cases |-> 4, limit |-> 120]
OracleProfile == [edges |-> <<0, 1, -1, 2, -2, 3>>, draws |-> <<4, -3, 5, -2>>, cases |-> 6, limit |-> 200]
SmallValues == -1 .. 2
DefaultWeights == <<4, 1, 2, 3>>
=============================================================================
