------------------------------- MODULE Screens -------------------------------
(***************************************************************************)
(* The pages of a workspace (web/app/w) over the rows of Records: who may  *)
(* open each of them, what it lists, where its links lead and which        *)
(* controls it offers.  A page resolves the caller's standing for itself;  *)
(* a page that is not found is Missing, for a stranger and for an id of    *)
(* another workspace alike.  The wording, the layout and the charts are    *)
(* left out: what the charts are drawn from is in Pages.                   *)
(***************************************************************************)
EXTENDS Records, FiniteSetsExt

CONSTANTS RecentLimit, DashboardLimit, PaletteLimit, SuiteRunLimit  \* how many rows a page takes

At(page, w) == [page |-> page, in |-> w]
AtId(page, w, id) == [page |-> page, in |-> w, id |-> id]
SuiteRunAt(w, suite, id) == [page |-> "suiteRun", in |-> w, suite |-> suite, id |-> id]

Missing == [found |-> FALSE, links |-> {}, offers |-> {}, rows |-> {}]
Screen(links, offers, rows) == [found |-> TRUE, links |-> links, offers |-> offers, rows |-> rows]
Rows(table, ids) == {<<table, id>> : id \in ids}
When(condition, set) == IF condition THEN set ELSE {}

May(p, w, action) == Authorize(standing[w][p], action, FALSE)

\* requireWorkspace: the same no for a stranger and for a workspace that is not there.
Inside(p, w) == Present(standing[w][p])

-----------------------------------------------------------------------------
(* What a workspace lists *)

ProjectsOf(w) == {i \in DOMAIN stored.projects : stored.projects[i].in = w}
ProgramsOf(w) == {i \in DOMAIN stored.programs : HomeOfProgram(i) = w}
SuitesOf(w) == {i \in DOMAIN stored.suites : stored.suites[i].in = w}
HomeOfRun(id) == HomeOfProgram(stored.runs[id].program)
RunsOf_(w) == {i \in DOMAIN stored.runs : HomeOfRun(i) = w}
RunsOfProgram(id) == {i \in DOMAIN stored.runs : stored.runs[i].program = id}
RunsOfSuiteRun(id) == {i \in DOMAIN stored.runs : stored.runs[i].suiteRun = id}
RunsOfSuite(id) == {i \in DOMAIN stored.suiteRuns : stored.suiteRuns[i].suite = id}

\* orderBy startedAt desc, take: an id is as new as it is large.
Newest(ids, take) == {i \in ids : Cardinality({j \in ids : j > i}) < take}

\* RunTable: the columns that link lead to the run.
RunTable(w, ids) == {AtId("run", w, id) : id \in ids}

-----------------------------------------------------------------------------
(* The frame around every page *)

\* Bug: everyone is shown the way to the audit log.
HeaderLinks_Open(p, w) ==
  {At(page, w) : page \in {"dashboard", "projects", "runs", "suites", "analytics", "settings", "audit"}}

HeaderLinks(p, w) ==
  {At(page, w) : page \in {"dashboard", "projects", "runs", "suites", "analytics", "settings"}}
    \cup When(May(p, w, "auditLog:view"), {At("audit", w)})

\* The workspaces of the layout's switcher are those of the caller.
Switcher(p) == {At("dashboard", w) : w \in {v \in Tenants : Inside(p, v)}}

LayoutLinks(p, w) == IF Inside(p, w) THEN HeaderLinks(p, w) \cup Switcher(p) ELSE {}

\* Where signing in lands: the one workspace, or a choice; making the first one is in Accounts.
Landing(p) ==
  IF Cardinality(Switcher(p)) = 1 THEN [redirect |-> Switcher(p), links |-> {}]
  ELSE [redirect |-> {}, links |-> Switcher(p)]

-----------------------------------------------------------------------------
(* The pages *)

\* The four numbers; quota is null, or [monthly, used].
DashboardStats(w, quota) ==
  LET total == Cardinality(RunsOf_(w))
      perProject(j) == Cardinality({i \in DOMAIN stored.programs : stored.programs[i].project = j})
  IN [projects |-> Cardinality(ProjectsOf(w)),
      programs |-> SumFunctionOnSet([j \in ProjectsOf(w) |-> perProject(j)], ProjectsOf(w)),
      runs |-> total,
      period |-> IF quota = NoForm_ THEN total ELSE quota.used]

\* A quota of zero is full; more may be used than is allowed.
QuotaPanel(quota) ==
  LET used == Min({quota.used, quota.monthly}) IN
  [used |-> used, left |-> Max({quota.monthly - quota.used, 0}),
   share |-> IF quota.monthly = 0 THEN <<1, 1>> ELSE <<used, quota.monthly>>]

Dashboard(p, w) ==
  IF ~Inside(p, w) THEN Missing
  ELSE LET runs == Newest(RunsOf_(w), DashboardLimit) IN
       Screen({At("projects", w), At("analytics", w), At("runs", w)} \cup RunTable(w, runs), {}, Rows("runs", runs))

ProgramTable(w, ids) == {AtId("program", w, id) : id \in ids}

\* The programs come in one query, and are shown under the projects they belong to.
ProjectsPage(p, w) ==
  IF ~Inside(p, w) THEN Missing
  ELSE LET inside == {i \in ProgramsOf(w) : stored.programs[i].project \in ProjectsOf(w)} IN
       Screen(ProgramTable(w, inside),
              When(May(p, w, "project:create"), {[kind |-> "project"]})
                \cup When(May(p, w, "program:create"), {[kind |-> "program", project |-> j] : j \in ProjectsOf(w)}),
              Rows("projects", ProjectsOf(w)) \cup Rows("programs", inside))

ProgramPage(p, w, id) ==
  IF ~Inside(p, w) \/ ~Exists("programs", id) \/ HomeOfProgram(id) # w THEN Missing
  ELSE LET runs == Newest(RunsOfProgram(id), RecentLimit) IN
       Screen({At("projects", w)} \cup RunTable(w, runs),
              When(May(p, w, "run:start"), {[kind |-> "run", program |-> id]}),
              Rows("programs", {id}) \cup Rows("runs", runs))

\* The dialog is offered with programs to pick; the latest run of a suite is the one linked.
SuitesPage(p, w) ==
  IF ~Inside(p, w) THEN Missing
  ELSE Screen({AtId("suite", w, id) : id \in SuitesOf(w)}
                \cup UNION {{SuiteRunAt(w, id, k) : k \in Newest(RunsOfSuite(id), 1)} : id \in SuitesOf(w)},
              When(May(p, w, "suite:create"), {[kind |-> "suite", programs |-> {id}] : id \in ProgramsOf(w)}),
              Rows("suites", SuitesOf(w)))

\* Bug: the button asks only whether the engine answers.
Startable_Online(suite) == engine # Offline

\* ~disabled: the engine answers, can run each of the methods, and there is something to run.
Startable(suite) == engine # Offline /\ suite.methods \subseteq engine /\ Len(suite.programs) * Cardinality(suite.methods) > 0

SuitePage(p, w, id) ==
  IF ~Inside(p, w) \/ ~Exists("suites", id) \/ stored.suites[id].in # w THEN Missing
  ELSE LET suite == stored.suites[id] runs == Newest(RunsOfSuite(id), SuiteRunLimit) IN
       Screen({At("suites", w)} \cup {SuiteRunAt(w, id, k) : k \in runs} \cup ProgramTable(w, ToSet(suite.programs)),
              When(May(p, w, "suite:run") /\ Startable(suite), {[kind |-> "suiteRun", suite |-> id]}),
              Rows("suites", {id}) \cup Rows("suiteRuns", runs) \cup Rows("programs", ToSet(suite.programs)))

\* The form of the share dialog, for a role that may make links.
ShareDialog(p, w, table, id) == When(May(p, w, "share:create"), {[kind |-> "share", table |-> table, id |-> id]})

\* The Stop button, while the suite run or one of its runs is live.
StopButton(p, w, id) ==
  When(May(p, w, "suite:run") /\ (stored.suiteRuns[id].status \in {"QUEUED", "RUNNING"}
         \/ \E k \in RunsOfSuiteRun(id) : stored.runs[k].status = "RUNNING"),
       {[kind |-> "cancel", suiteRun |-> id]})

\* ProgramMatrix: a cell per program and method, to the first of its runs.
Matrix(w, id) ==
  LET First(i) == \A j \in RunsOfSuiteRun(id) : j < i =>
        stored.runs[j].program # stored.runs[i].program \/ stored.runs[j].method # stored.runs[i].method
  IN {AtId("run", w, i) : i \in {k \in RunsOfSuiteRun(id) : First(k)}}

SuiteRunPage(p, w, suite, id) ==
  IF ~May(p, w, "run:view") \/ ~Exists("suiteRuns", id) \/ HomeOfSuiteRun(id) # w \/ stored.suiteRuns[id].suite # suite
    THEN Missing
  ELSE Screen({At("suites", w), AtId("suite", w, suite), AtId("csv", w, id), AtId("stream", w, id)} \cup Matrix(w, id),
              ShareDialog(p, w, "suiteRuns", id) \cup StopButton(p, w, id),
              Rows("suiteRuns", {id}) \cup Rows("runs", RunsOfSuiteRun(id)))

\* suiteRunForCaller: no workspace in the address, the suite run's own is asked; also for the stream.
ExportCsv(p, id) ==
  IF ~Exists("suiteRuns", id) \/ ~May(p, HomeOfSuiteRun(id), "run:view") THEN Missing
  ELSE Screen({}, {}, Rows("runs", RunsOfSuiteRun(id)))

\* A range without runs leads to the suites; otherwise to the slowest programs, among all that ran.
AnalyticsPage(p, w) ==
  IF ~May(p, w, "analytics:view") THEN Missing
  ELSE LET runs == RunsOf_(w) IN
       Screen({At("analytics", w)} \cup (IF runs = {} THEN {At("suites", w)}
                                         ELSE ProgramTable(w, {stored.runs[i].program : i \in runs})),
              {}, Rows("runs", runs))

RunsPage(p, w) ==
  IF ~May(p, w, "run:view") THEN Missing
  ELSE LET runs == Newest(RunsOf_(w), RecentLimit) IN
       Screen(When(runs = {}, {At("projects", w)}) \cup RunTable(w, runs), {}, Rows("runs", runs))

RunDetailPage(p, w, id) ==
  IF ~May(p, w, "trace:view") \/ ~Exists("runs", id) \/ HomeOfRun(id) # w THEN Missing
  ELSE Screen({At("runs", w), [page |-> "compare", in |-> w, id |-> id, other |-> 0]},
              ShareDialog(p, w, "runs", id), Rows("runs", {id}))

\* Bug: the second run may be anyone's.
Second_Any(w, id) == IF Exists("runs", id) THEN {id} ELSE {}
Second(w, id) == IF Exists("runs", id) /\ HomeOfRun(id) = w THEN {id} ELSE {}

\* Run A must be here; a run B from elsewhere is none; the pickers list the runs of A's program.
ComparePage(p, w, a, b) ==
  IF ~May(p, w, "trace:view") \/ ~Exists("runs", a) \/ HomeOfRun(a) # w THEN Missing
  ELSE LET choices == Newest(RunsOfProgram(stored.runs[a].program), RecentLimit) shown == Second(w, b) IN
       Screen({At("runs", w)}
                \cup {[page |-> "compare", in |-> w, id |-> c, other |-> d] : c \in choices, d \in choices \ {a}}
                \cup When(shown # {}, RunTable(w, {a} \cup shown)),
              {}, Rows("runs", choices \cup {a} \cup shown))

\* The row of one person: every role may be picked, and the way out; both are frozen for the last owner.
MemberRow(p, w, q) ==
  LET role == standing[w][q]
      owners == {x \in Folk : standing[w][x] = "OWNER"}
      touchable == (role # "OWNER" \/ standing[w][p] = "OWNER") /\ ~(role = "OWNER" /\ Cardinality(owners) <= 1)
  IN When(May(p, w, "member:changeRole") /\ touchable, {[kind |-> "role", of |-> q, to |-> r] : r \in Ranked})
       \cup When(May(p, w, "member:remove") /\ touchable, {[kind |-> "remove", of |-> q]})

\* Only an owner is offered to add one.
AddMember(p, w) ==
  When(May(p, w, "member:invite"),
       {[kind |-> "invite", to |-> r] : r \in IF standing[w][p] = "OWNER" THEN Ranked ELSE Ranked \ {"OWNER"}})

SettingsPage(p, w) ==
  IF ~Inside(p, w) THEN Missing
  ELSE LET members == {q \in Folk : Present(standing[w][q])} IN
       Screen({At("shares", w), At("apiKeys", w)} \cup When(May(p, w, "auditLog:view"), {At("audit", w)}),
              AddMember(p, w) \cup UNION {MemberRow(p, w, q) : q \in members}, {})

\* Whatever may be shared is linked from the list of links; the button to revoke is in Shares.
SharesPage(p, w) ==
  IF ~Inside(p, w) THEN Missing
  ELSE Screen(RunTable(w, RunsOf_(w)) \cup UNION {{SuiteRunAt(w, id, k) : k \in RunsOfSuite(id)} : id \in SuitesOf(w)}, {}, {})

AuditPage(p, w) == IF May(p, w, "auditLog:view") THEN Screen({}, {}, {}) ELSE Missing
ApiKeysPage(p, w) == IF May(p, w, "apiKey:manage") THEN Screen({At("settings", w)}, {}, {}) ELSE Missing

\* What the palette may jump to: programs, suites and the most recent runs.
PaletteRoute(p, w) ==
  IF ~May(p, w, "run:view") THEN Missing
  ELSE LET runs == Newest(RunsOf_(w), PaletteLimit) IN
       Screen(ProgramTable(w, ProgramsOf(w)) \cup {AtId("suite", w, id) : id \in SuitesOf(w)} \cup RunTable(w, runs),
              {}, Rows("programs", ProgramsOf(w)) \cup Rows("suites", SuitesOf(w)) \cup Rows("runs", runs))

\* CommandPalette: the pages of the shortcuts, the two dialogs, what was loaded and the other workspaces.
Palette(p, w) ==
  {At(page, w) : page \in {"dashboard", "projects", "runs", "suites", "analytics", "settings", "shares"}}
    \cup PaletteRoute(p, w).links \cup (Switcher(p) \ {At("dashboard", w)})

Visit_(p, at) ==
  LET w == at.in IN
  CASE at.page = "dashboard" -> Dashboard(p, w)
    [] at.page = "projects" -> ProjectsPage(p, w)
    [] at.page = "program" -> ProgramPage(p, w, at.id)
    [] at.page = "suites" -> SuitesPage(p, w)
    [] at.page = "suite" -> SuitePage(p, w, at.id)
    [] at.page = "suiteRun" -> SuiteRunPage(p, w, at.suite, at.id)
    [] at.page \in {"csv", "stream"} -> ExportCsv(p, at.id)
    [] at.page = "analytics" -> AnalyticsPage(p, w)
    [] at.page = "runs" -> RunsPage(p, w)
    [] at.page = "run" -> RunDetailPage(p, w, at.id)
    [] at.page = "compare" -> ComparePage(p, w, at.id, at.other)
    [] at.page = "settings" -> SettingsPage(p, w)
    [] at.page = "shares" -> SharesPage(p, w)
    [] at.page = "audit" -> AuditPage(p, w)
    [] at.page = "apiKeys" -> ApiKeysPage(p, w)
    [] at.page = "palette" -> PaletteRoute(p, w)

-----------------------------------------------------------------------------
(* Properties of the pages, in one state *)

Addresses(w) ==
       {At(page, w) : page \in {"dashboard", "projects", "suites", "analytics", "runs", "settings", "shares", "audit", "apiKeys", "palette"}}
  \cup {AtId("program", w, id) : id \in Ids("programs")} \cup {AtId("suite", w, id) : id \in Ids("suites")}
  \cup {SuiteRunAt(w, s, id) : s \in Ids("suites"), id \in Ids("suiteRuns")}
  \cup {AtId("run", w, id) : id \in Ids("runs")}
  \cup {[page |-> "compare", in |-> w, id |-> a, other |-> b] : a \in Ids("runs"), b \in {0} \cup Ids("runs")}

HomeOfRow(row) ==
  CASE row[1] \in {"projects", "suites"} -> stored[row[1]][row[2]].in
    [] row[1] = "programs" -> HomeOfProgram(row[2])
    [] row[1] = "suiteRuns" -> HomeOfSuiteRun(row[2])
    [] row[1] = "runs" -> HomeOfRun(row[2])

\* What the action behind a control would answer, asked now: changeWorkspaceMemberRole and its
\* neighbours are in Members.
Accepted(p, w, offer) ==
  LET role == standing[w][p] IN
  CASE offer.kind = "role" -> offer.to = "OWNER" \/ standing[w][offer.of] = "OWNER" => role = "OWNER"
    [] offer.kind = "invite" -> offer.to = "OWNER" => role = "OWNER"
    [] offer.kind = "remove" -> standing[w][offer.of] = "OWNER" => role = "OWNER"
    [] offer.kind = "share" -> Authorize(role, "share:create", FALSE) /\ HomeOfRow(<<offer.table, offer.id>>) = w
    [] OTHER -> /\ Authorize(role, Needed[offer.kind], FALSE)
                /\ Ours_(w, offer)
                /\ offer.kind = "suiteRun" => stored.suites[offer.suite].methods \subseteq engine

\* Two places where the pages promise more than they keep: everyone is shown the way to the API keys, and an
\* admin's list of roles has owner in it, against what the page says of itself: see NothingOfferedIsRefused.
Excepted(p, w, at) == at.page = "apiKeys"
RefusedOffer(p, w, offer) == offer.kind = "role" /\ offer.to = "OWNER" /\ standing[w][p] = "ADMIN"

\* A page as somebody is shown it; found: addresses known to be found by them.
ShownRight(p, w, shown, found) ==
  /\ shown.found => Inside(p, w)
  /\ \A row \in shown.rows : HomeOfRow(row) = w
  /\ \A to \in shown.links : Excepted(p, w, to) \/ to \in found \/ Visit_(p, to).found
  /\ \A offer \in shown.offers : RefusedOffer(p, w, offer) \/ Accepted(p, w, offer)

(* For everyone, in every workspace and whatever the address: a page shows    *)
(* rows of its own workspace only, and nothing to a stranger; every link on   *)
(* it leads to a page that is found, every control it offers would be         *)
(* accepted if used now, but for an admin who picks owner and for whoever may *)
(* not manage the API keys and follows the link to them; every row of the     *)
(* workspace is linked from the list it belongs to; the numbers of the        *)
(* dashboard are those of the lists.                                          *)
ScreensLead(quotas) ==
  \A p \in Folk, w \in Tenants :
    LET Numbers_(q, stats, listed, panel) ==
          /\ stats.projects + stats.programs = listed
          /\ stats.runs = Cardinality(AnalyticsPage(p, w).rows)
          /\ q # NoForm_ => panel.used + panel.left = q.monthly /\ panel.share[1] <= panel.share[2] /\ panel.share[2] > 0
        Listed(rows) ==
          /\ Rows("programs", ProgramsOf(w)) \subseteq rows
          /\ \A id \in ProgramsOf(w) : Newest(RunsOfProgram(id), RecentLimit) = {a.id : a \in {x \in ProgramPage(p, w, id).links : x.page = "run"}}
          /\ \A q \in quotas : Numbers_(q, DashboardStats(w, q), Cardinality(rows), QuotaPanel(q))
        Leads(found) ==
          /\ \A at \in Addresses(w) : ShownRight(p, w, Visit_(p, at), found)
          /\ \A to \in LayoutLinks(p, w) \cup When(Inside(p, w), Palette(p, w)) \cup Landing(p).redirect \cup Landing(p).links :
               to \in found \/ Visit_(p, to).found
    IN Leads({at \in Addresses(w) : Visit_(p, at).found}) /\ (Inside(p, w) => Listed(ProjectsPage(p, w).rows))

\* The controls beside the members "are gated on exactly the permissions the server actions
\* check, so nothing is offered that would be refused" (settings/page.tsx:5-7).
NothingOfferedIsRefused ==
  form = NoForm_ => \A p \in Folk, w \in Tenants : \A offer \in SettingsPage(p, w).offers : Accepted(p, w, offer)
=============================================================================
