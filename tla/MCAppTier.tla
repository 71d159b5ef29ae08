------------------------------ MODULE MCAppTier ------------------------------
(* One key and two callers; two people whose slugs collide; one link; every   *)
(* outcome of the four runs of a suite; short listings and streams; two       *)
(* workspaces of the same two people; small graphs, texts and sessions.       *)
EXTENDS AppTier

EveryScope == {Scopes}
RunSite == [routes |-> {"optimize"}, programs |-> {{1}}, expiries |-> {Never}, revokers |-> {}, last |-> 2]
LookSite == [routes |-> {"look"}, programs |-> {{}}, expiries |-> {1, 3, Never}, revokers |-> Managers, last |-> 4]
ListSite == [routes |-> {"list", "create"}, programs |-> {{1, 3}}, expiries |-> {Never}, revokers |-> {}, last |-> 2]
AllSites == {RunSite, LookSite, ListSite}

LocalPart(p) == IF p = "acme@b" THEN <<"acme">> ELSE <<"acme", "2">>
PasswordForms(p) == IF p = "acme@b" THEN {"x", "y"} ELSE {}

Row(before, after, status, match, proof, seconds) ==
  [before |-> before, after |-> after, status |-> status, match |-> match, proof |-> proof, seconds |-> seconds]
Outcomes == {
  Row(NoCost, NoCost, "QUEUED", "unasked", "none", NoCost),
  Row(4, 3, "RUNNING", "unasked", "none", NoCost),
  Row(4, 1, "SUCCEEDED", "yes", "equivalent", 2),
  Row(4, 5, "SUCCEEDED", "no", "none", 5),
  Row(0, 0, "SUCCEEDED", "unasked", "unknown", 1),
  Row(4, 1, "FAILED", "yes", "equivalent", 4),
  Row(NoCost, NoCost, "ABANDONED", "unasked", "none", 0)}

Grids == {<<<<"p", "q">>, [methods |-> <<"greedy", "random_baseline", "greedy">>, seeds |-> <<0, 0>>]>>,
          <<<<"p">>, [methods |-> <<"random_baseline", "greedy">>, seeds |-> <<0, 1>>]>>}
SheetOf(grid, outcome) ==
  LET plan == PlanRuns(grid[1], grid[2]) IN
  [names |-> Unique(grid[2].methods),
   rows |-> [i \in 1 .. PlannedCount(Len(grid[1]), grid[2]) |->
               [id |-> i, day |-> i % 3, category |-> IF plan[i].program = "p" THEN "loops" ELSE "mixed"]
                 @@ plan[i] @@ outcome[i]]]
AllSheets == {SheetOf(grid, outcome) : grid \in Grids, outcome \in [1 .. 4 -> Outcomes]}

Short == SeqOf({"copy", "fold"}, 3)
Pairs == Short \X Short
Words_ == <<"e", "1", "/", "e", "2">>
Texts == {Words_, <<"x", "/">> \o Words_ \o <<"/">>, <<"/", "e", "1">>}
Cuts(text) == {[i \in 1 .. 3 |-> SubSeq(text, (<<0>> \o cut \o <<Len(text)>>)[i] + 1, (<<0>> \o cut \o <<Len(text)>>)[i + 1])] :
                 cut \in {<<a, b>> : a \in 0 .. Len(text), b \in 0 .. Len(text)}}
Cut == UNION {{pieces \in Cuts(text) : FlattenSeq(pieces) = text} : text \in Texts}
TwoEvents == {<<"e", "1">>, <<"e", "2">>}
LastEvents == {<<"e", "2">>}
Names == <<"copy", "fold", "greedy", "random_baseline">>

AllKinds == {"api", "accounts", "shares", "records", "play", "follow", "pages"}
OnlyFollow == {"follow"}
OnlyRecords == {"records"}

Roles(a1, a2, b1, b2) == [A |-> [u |-> a1, v |-> a2], B |-> [u |-> b1, v |-> b2]]
SomeStandings == {Roles("OWNER", "MEMBER", Stranger, "ADMIN"), Roles("VIEWER", "OWNER", "MEMBER", "ADMIN")}
OneSuite ==
  [projects |-> <<[in |-> "A", title |-> "x", by |-> "u"], [in |-> "B", title |-> "x", by |-> "v"]>>,
   programs |-> <<[project |-> 1, by |-> "u"], [project |-> 2, by |-> "v"], [project |-> 1, by |-> "v"]>>,
   suites |-> <<[in |-> "A", title |-> "x", by |-> "u", programs |-> <<1>>, methods |-> {"greedy", "llm"}]>>,
   suiteRuns |-> <<>>, runs |-> <<>>]
SomeStores == {OneSuite}
SomeEngines == {Offline, {"greedy"}, {"greedy", "llm"}}
SomeMethods == {{"greedy"}, {"greedy", "llm"}}
SomeQuotas == {NoForm_, [kind |-> "quota", monthly |-> 0, used |-> 1], [kind |-> "quota", monthly |-> 2, used |-> 1]}

Kept == [d \in {"", "a", "a+", "b", "x"} |-> IF d = "a+" THEN "a" ELSE d]

Places == {<<i, j>> : i \in 1 .. 4, j \in 1 .. 4}
InOrder(s) == SetToSortSeq(s, LAMBDA a, b : 4 * a[1] + a[2] < 4 * b[1] + b[2])
SmallGraphs ==
  {[blocks |-> <<1, 7, 3, 2>>, edges |-> [i \in DOMAIN s |-> [from |-> s[i][1], to |-> s[i][2], kind |-> "true"]]] :
     s \in {InOrder(places) : places \in UNION {kSubset(k, Places) : k \in 0 .. 3}}}
SmallTexts ==
  {[lengths |-> lengths, line |-> line, column |-> column] :
     lengths \in UNION {[1 .. n -> 0 .. 2] : n \in 1 .. 3}, line \in 1 .. 4, column \in 1 .. 4}

Press(k, m, t) == [key |-> k, mod |-> m, typing |-> t, served |-> TRUE]
Presses ==
  {Press("g", FALSE, FALSE), Press("d", FALSE, FALSE), Press("d", TRUE, FALSE), Press("d", FALSE, TRUE),
   Press("k", TRUE, FALSE), [Press("k", TRUE, FALSE) EXCEPT !.served = FALSE],
   Press("?", FALSE, FALSE), Press("escape", FALSE, FALSE), Press("help", FALSE, FALSE)}
Timed(pressed, gaps) == [i \in DOMAIN pressed |-> pressed[i] @@ [at |-> FoldLeft(+, 1, SubSeq(gaps, 1, i))]]
ShortSessions == UNION {{Timed(pressed, gaps) : pressed \in [1 .. n -> Presses], gaps \in [1 .. n -> {1, 2}]} : n \in 1 .. 3}
ShortNotices == SeqOf({"a", "b", "c", "close", "played"}, 5)
Passwords == SeqOf({"a", "e'", " "}, 3)
Typing(email, password) == [name |-> <<" ", "a">>, email |-> email, password |-> password]
Mails == {<<>>, <<"a">>, <<" ", "a">>, <<"a", " ">>, <<"b">>, <<"a", " ", "a">>, <<"a", "a", "a">>}
Tried ==
  {<<Typing(<<"a">>, p), Typing(<<"a", " ">>, q)>> : p \in Passwords, q \in Passwords}
    \cup {<<Typing(m, p), Typing(n, q)>> : m \in Mails, n \in Mails, p \in {<<"a", "a">>, <<"a">>}, q \in {<<"a", "a">>, <<>>}}
Called == SeqOf({"a", "A", "e'", "'", " ", "2"}, 3) \cup SeqOf({"a", " ", "2"}, 6)
EndingsOf == {<<"2">>, <<"2", "2">>, <<"b", "a">>}
FallbackSlug == <<"b">>
ShortAnswers == SeqOf({"made", "refused", "copy", "blocked"}, 5)
ShortDialogs == SeqOf({"open", "close", "send", "taken", "refused"}, 4)
ShortStarts == SeqOf({"start", "refused", "going", "converged", "failed", "end", "cut"}, 4)
ShortPlaybacks == SeqOf({"tick", "toggle"}, 8)
SmallForms == [programs : 0 .. 12, methods : 0 .. 3, seeds : 1 .. 2]
=============================================================================
