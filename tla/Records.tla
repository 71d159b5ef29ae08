------------------------------- MODULE Records -------------------------------
(***************************************************************************)
(* Projects, programs, suites and runs as rows of several workspaces, and  *)
(* the forms that make them: web/lib/actions/projects.ts, programs.ts,     *)
(* suites.ts and runs.ts, query by query, while people are moved between   *)
(* roles and the engine comes and goes.  What becomes of a run afterwards  *)
(* is in RunRecorder and SuiteQueue.  No row is ever deleted but a         *)
(* membership, so an id is a place in its table.                           *)
(***************************************************************************)
EXTENDS Access, Sequences, FiniteSets, SequencesExt

CONSTANTS
  Folk, Tenants,
  Titles,             \* names a form may carry
  Standings,          \* roles to start from: [Tenants -> [Folk -> Ranked \cup {Stranger}]]
  Stores,             \* rows to start from
  Engines,            \* what the engine may run; Offline when it does not answer
  MethodChoices,      \* methods a suite form may carry
  MaxSuitePrograms, MaxSuiteRuns,
  Posters,            \* bound: who of the Folk acts and is moved
  MaxPosts, MaxMoved  \* bounds: forms posted, and moves of a role or of the engine

VARIABLES
  standing,  \* the memberships
  everIn,    \* history: who has ever been in a workspace
  stored,    \* the tables
  engine,
  form,      \* the one request being served
  told,      \* the last answer, by whom and about whose row
  allowed       \* bounds: the forms and the moves that are allowed

recordVars == <<standing, everIn, stored, engine, form, told, allowed>>

Offline == {}
NoForm_ == [kind |-> "none"]

Present(role) == role # Stranger
InsideOf(roles) == [w \in Tenants |-> {p \in Folk : Present(roles[w][p])}]

RecordsInit(stores, standings, engines) ==
  /\ standing \in standings /\ everIn = InsideOf(standing)
  /\ stored \in stores /\ engine \in engines
  /\ form = NoForm_ /\ told = NoForm_ /\ allowed = [posts |-> MaxPosts, moves |-> MaxMoved]

Exists(table, id) == id \in DOMAIN stored[table]
\* The one path a row has to a workspace.
HomeIn(rows, id) == rows.projects[rows.programs[id].project].in
HomeOfProgram(id) == HomeIn(stored, id)
HomeOfSuiteRun(id) == stored.suites[stored.suiteRuns[id].suite].in

-----------------------------------------------------------------------------
(* A form is posted *)

Ids(table) == 1 .. Len(stored[table]) + 1
Needed == [project |-> "project:create", program |-> "program:create", suite |-> "suite:create",
           suiteRun |-> "suite:run", cancel |-> "suite:run", run |-> "run:start"]

AnyTenant == CHOOSE w \in Tenants : TRUE

FormsOf(p, w) ==
       [kind : {"project"}, by : {p}, in : {w}, step : {"role"}, title : Titles]
  \cup [kind : {"program"}, by : {p}, in : {w}, step : {"role"}, project : Ids("projects")]
  \cup {f \in [kind : {"suite"}, by : {p}, in : {w}, step : {"role"}, title : Titles,
               programs : SUBSET Ids("programs"), methods : MethodChoices] :
          Cardinality(f.programs) <= MaxSuitePrograms + 1}
  \cup [kind : {"suiteRun"}, by : {p}, in : {w}, step : {"role"}, suite : Ids("suites")]
  \cup [kind : {"cancel"}, by : {p}, in : {w}, step : {"role"}, suiteRun : Ids("suiteRuns")]
  \* A run names no workspace: it is the program's, and the program is read first.
  \cup [kind : {"run"}, by : {p}, in : {AnyTenant}, step : {"find"}, program : Ids("programs")]

Respond(answer, home) ==
  /\ told' = [by |-> form.by, answer |-> answer, home |-> home]
  /\ form' = NoForm_
Proceed(step) == form' = [form EXCEPT !.step = step] /\ UNCHANGED told

\* A project or a program without its fields is refused before anything is read.
Post(f) ==
  /\ form = NoForm_
  /\ allowed.posts > 0 /\ allowed' = [allowed EXCEPT !.posts = @ - 1]
  /\ form' = f /\ told' = NoForm_
  /\ UNCHANGED <<standing, everIn, stored, engine>>

\* findWorkspaceBySlug, principalFor and authorize; a stranger is told there is no such workspace.
Admit ==
  /\ form # NoForm_ /\ form.step = "role"
  /\ LET role == standing[form.in][form.by] IN
     CASE ~Present(role) -> Respond("missing", form.in)
       [] Present(role) /\ ~Authorize(role, Needed[form.kind], FALSE) -> Respond("forbidden", form.in)
       [] OTHER -> Proceed(IF form.kind = "project" THEN "insert" ELSE IF form.kind = "run" THEN "insert" ELSE "find")
  /\ UNCHANGED <<standing, everIn, stored, engine, allowed>>

\* readSuiteForm
Fits(f) ==
  /\ f.programs # {} /\ Cardinality(f.programs) <= MaxSuitePrograms
  /\ f.methods # {}
  /\ Cardinality(f.programs) * Cardinality(f.methods) <= MaxSuiteRuns

\* Bug: the project is looked up, and not compared with the workspace.
OwnProject_Found(id, w) == Exists("projects", id)
OwnProject(id, w) == Exists("projects", id) /\ stored.projects[id].in = w

\* Bug: it is enough that some of the programs are found here.
OwnPrograms_Some(ids, w) == \E id \in ids : Exists("programs", id) /\ HomeOfProgram(id) = w
OwnPrograms(ids, w) == \A id \in ids : Exists("programs", id) /\ HomeOfProgram(id) = w

\* The rows a form names are there, and in the workspace it was admitted to.
Ours_(w, f) ==
  CASE f.kind = "program" -> OwnProject(f.project, w)
    [] f.kind = "suite" -> OwnPrograms(f.programs, w)
    [] f.kind = "suiteRun" -> Exists("suites", f.suite) /\ stored.suites[f.suite].in = w
    [] f.kind = "cancel" -> Exists("suiteRuns", f.suiteRun) /\ HomeOfSuiteRun(f.suiteRun) = w
    [] OTHER -> TRUE

\* findProject, program.findMany, benchmarkSuite.findUnique, suiteRun.findUnique.
Find_ ==
  /\ form # NoForm_ /\ form.step = "find" /\ form.kind # "run"
  /\ CASE form.kind = "suite" /\ ~Fits(form) -> Respond("invalid", form.in)
       [] (form.kind = "suite" => Fits(form)) /\ ~Ours_(form.in, form) -> Respond("missing", form.in)
       [] OTHER -> Proceed(IF form.kind = "suiteRun" THEN "engine" ELSE "insert")
  /\ UNCHANGED <<standing, everIn, stored, engine, allowed>>

\* startRun reads the program, and takes the workspace from it.
FindProgram ==
  /\ form # NoForm_ /\ form.step = "find" /\ form.kind = "run"
  /\ IF Exists("programs", form.program)
       THEN form' = [form EXCEPT !.step = "role", !.in = HomeOfProgram(form.program)] /\ UNCHANGED told
       ELSE Respond("missing", form.in)
  /\ UNCHANGED <<standing, everIn, stored, engine, allowed>>

\* engineStatus, and the methods of the suite it cannot run.
AskEngine ==
  /\ form # NoForm_ /\ form.step = "engine"
  /\ IF engine # Offline /\ stored.suites[form.suite].methods \subseteq engine
       THEN Proceed("insert") ELSE Respond("offline", form.in)
  /\ UNCHANGED <<standing, everIn, stored, engine, allowed>>

\* [workspaceId, name] is unique, for projects and for suites.
Taken_(table) == \E i \in DOMAIN stored[table] : stored[table][i].in = form.in /\ stored[table][i].title = form.title

Put(table, row) == stored' = [stored EXCEPT ![table] = Append(@, row)]

\* project.create, program.create, benchmarkSuite.create: the unique decides between two of a name.
InsertNamed ==
  /\ form # NoForm_ /\ form.step = "insert" /\ form.kind \in {"project", "suite"}
  /\ LET table == IF form.kind = "project" THEN "projects" ELSE "suites" IN
     IF Taken_(table) THEN Respond("taken", form.in) /\ UNCHANGED stored
     ELSE /\ Put(table, IF form.kind = "project" THEN [in |-> form.in, title |-> form.title, by |-> form.by]
                        ELSE [in |-> form.in, title |-> form.title, by |-> form.by,
                              programs |-> SetToSeq(form.programs), methods |-> form.methods])
          /\ Respond("made", form.in)
  /\ UNCHANGED <<standing, everIn, engine, allowed>>

\* runs: one per planned program and method, QUEUED; a run of its own is RUNNING at once.
InsertOther ==
  /\ form # NoForm_ /\ form.step = "insert" /\ form.kind \in {"program", "suiteRun", "run"}
  /\ CASE form.kind = "program" -> Put("programs", [project |-> form.project, by |-> form.by])
       [] form.kind = "run" ->
            Put("runs", [program |-> form.program, by |-> form.by, suiteRun |-> 0, status |-> "RUNNING", method |-> "greedy"])
       [] OTHER ->
            LET suite == stored.suites[form.suite]
                plan == SetToSeq(ToSet(suite.programs) \X suite.methods)
            IN stored' = [stored EXCEPT
                 !.suiteRuns = Append(@, [suite |-> form.suite, by |-> form.by, total |-> Len(plan), status |-> "QUEUED"]),
                 !.runs = @ \o [i \in DOMAIN plan |->
                            [program |-> plan[i][1], by |-> form.by, suiteRun |-> Len(stored.suiteRuns) + 1,
                             status |-> "QUEUED", method |-> plan[i][2]]]]
  /\ Respond("made", form.in)
  /\ UNCHANGED <<standing, everIn, engine, allowed>>

\* cancelSuiteRun: what is queued is dropped, and the suite run is closed, in one transaction.
Cancel_ ==
  /\ form # NoForm_ /\ form.step = "insert" /\ form.kind = "cancel"
  /\ stored' = [stored EXCEPT
       !.suiteRuns[form.suiteRun].status = "ABANDONED",
       !.runs = [i \in DOMAIN @ |-> IF @[i].suiteRun = form.suiteRun /\ @[i].status = "QUEUED"
                                    THEN [@[i] EXCEPT !.status = "ABANDONED"] ELSE @[i]]]
  /\ Respond("made", form.in)
  /\ UNCHANGED <<standing, everIn, engine, allowed>>

-----------------------------------------------------------------------------
(* Meanwhile *)

\* Members: someone joins, leaves, or is given another role.
Reassign(p, w, role) ==
  /\ allowed.moves > 0 /\ allowed' = [allowed EXCEPT !.moves = @ - 1]
  /\ standing[w][p] # role
  /\ standing' = [standing EXCEPT ![w][p] = role]
  /\ everIn' = [everIn EXCEPT ![w] = IF Present(role) THEN @ \cup {p} ELSE @]
  /\ UNCHANGED <<stored, engine, form, told>>

EngineTurns(e) ==
  /\ allowed.moves > 0 /\ allowed' = [allowed EXCEPT !.moves = @ - 1]
  /\ engine # e /\ engine' = e
  /\ UNCHANGED <<standing, everIn, stored, form, told>>

RecordsNext ==
  \/ \E p \in Posters, w \in Tenants : \E f \in FormsOf(p, w) : Post(f)
  \/ Admit \/ Find_ \/ FindProgram \/ AskEngine \/ InsertNamed \/ InsertOther \/ Cancel_
  \/ \E p \in Posters, w \in Tenants, role \in Ranked \cup {Stranger} : Reassign(p, w, role)
  \/ \E e \in Engines : EngineTurns(e)

-----------------------------------------------------------------------------
(* The types: every row refers to a row that is there. *)
RowsTyped(rows) ==
  /\ rows = [projects |-> rows.projects, programs |-> rows.programs, suites |-> rows.suites,
             suiteRuns |-> rows.suiteRuns, runs |-> rows.runs]
  /\ rows.projects \in Seq([in : Tenants, title : Titles, by : Folk])
  /\ rows.programs \in Seq([project : DOMAIN rows.projects, by : Folk])
  /\ rows.suites \in Seq([in : Tenants, title : Titles, by : Folk, programs : Seq(DOMAIN rows.programs),
                          methods : MethodChoices])
  /\ rows.suiteRuns \in Seq([suite : DOMAIN rows.suites, by : Folk, total : 1 .. MaxSuiteRuns,
                             status : {"QUEUED", "ABANDONED"}])
  /\ rows.runs \in Seq([program : DOMAIN rows.programs, by : Folk, suiteRun : {0} \cup DOMAIN rows.suiteRuns,
                        status : {"QUEUED", "RUNNING", "ABANDONED"}, method : {"greedy"} \cup UNION MethodChoices])

RecordsTypeOK ==
  /\ standing \in [Tenants -> [Folk -> Ranked \cup {Stranger}]] /\ everIn \in [Tenants -> SUBSET Folk]
  /\ RowsTyped(stored)
  /\ engine \in Engines /\ allowed \in [posts : 0 .. MaxPosts, moves : 0 .. MaxMoved]

\* Every row was made by someone who has been in its workspace;
MadeInside(rows, ever) ==
  /\ \A i \in DOMAIN rows.projects : rows.projects[i].by \in ever[rows.projects[i].in]
  /\ \A i \in DOMAIN rows.programs : rows.programs[i].by \in ever[HomeIn(rows, i)]
  /\ \A i \in DOMAIN rows.suites : rows.suites[i].by \in ever[rows.suites[i].in]
  /\ \A i \in DOMAIN rows.suiteRuns : rows.suiteRuns[i].by \in ever[rows.suites[rows.suiteRuns[i].suite].in]
  /\ \A i \in DOMAIN rows.runs : rows.runs[i].by \in ever[HomeIn(rows, rows.runs[i].program)]

\* no two projects or suites of a workspace share a name;
NamesOnce(rows) ==
  \A table \in {"projects", "suites"} : \A i, j \in DOMAIN rows[table] :
    rows[table][i].in = rows[table][j].in /\ rows[table][i].title = rows[table][j].title => i = j

\* a suite holds programs of its own workspace, each once, within what a suite may hold;
SuiteFits(rows, i) ==
  LET s == rows.suites[i] IN
  /\ \A k \in DOMAIN s.programs : HomeIn(rows, s.programs[k]) = s.in
  /\ IsInjective(s.programs)
  /\ Fits([programs |-> ToSet(s.programs), methods |-> s.methods])

\* and the runs of a suite's run are exactly its plan, none of them left queued when it is stopped.
RunsIn(rows, i) == {k \in DOMAIN rows.runs : rows.runs[k].suiteRun = i}
PlanKept(rows, i) ==
  LET sr == rows.suiteRuns[i] suite == rows.suites[sr.suite] IN
  /\ sr.total = Cardinality(RunsIn(rows, i))
  /\ {<<rows.runs[k].program, rows.runs[k].method>> : k \in RunsIn(rows, i)} = ToSet(suite.programs) \X suite.methods
  /\ sr.status = "ABANDONED" => \A k \in RunsIn(rows, i) : rows.runs[k].status # "QUEUED"

RowsApart(rows, ever) ==
  /\ MadeInside(rows, ever) /\ NamesOnce(rows)
  /\ \A i \in DOMAIN rows.suites : SuiteFits(rows, i)
  /\ \A i \in DOMAIN rows.suiteRuns : PlanKept(rows, i)

\* Limits are numbers, a suite's methods are finitely many, and the rows to start from are such rows.
ASSUME RecordsAssumption ==
  /\ {MaxSuitePrograms, MaxSuiteRuns, MaxPosts, MaxMoved} \subseteq Nat
  /\ Posters \subseteq Folk
  /\ \A methods \in MethodChoices : IsFiniteSet(methods)
  /\ Standings \subseteq [Tenants -> [Folk -> Ranked \cup {Stranger}]]
  /\ \A rows \in Stores, roles \in Standings : RowsTyped(rows) /\ RowsApart(rows, InsideOf(roles))

(* Whatever is asked at once, and whoever is moved meanwhile: a row is made   *)
(* only by someone who has been in its workspace; a suite holds programs of   *)
(* its own workspace, within what a suite may hold, and its runs are exactly  *)
(* its plan; no two projects or suites of a workspace share a name; and no    *)
(* answer tells someone about a workspace they have never been in.            *)
RowsStayApart ==
  /\ RecordsTypeOK
  /\ RowsApart(stored, everIn)
  /\ told # NoForm_ /\ told.answer # "missing" => told.by \in everIn[told.home]
=============================================================================
