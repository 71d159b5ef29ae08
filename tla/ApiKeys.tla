------------------------------- MODULE ApiKeys -------------------------------
(***************************************************************************)
(* The public API of one workspace: its keys (web/lib/api/keys.ts), the    *)
(* minute window each is counted in (rate-limit.ts), the workspace's       *)
(* month (quota.ts) and the routes under web/app/api/v1.  A request is a   *)
(* sequence of queries, and anything may happen between two of them; a     *)
(* query may also fail, which answers 500 and leaves what was written.     *)
(*                                                                         *)
(* Left out: the text of a key and its hash (a key is a name), request     *)
(* bodies that do not parse, and what a run streams (RunRecorder).         *)
(***************************************************************************)
EXTENDS Access, Times, Sequences, FiniteSets, SequencesExt, FiniteSetsExt

CONSTANTS
  Keys,          \* API keys
  Managers,      \* roles of the people who manage keys
  ScopeChoices,  \* the sets of scopes keys are made with
  Callers,       \* requests that may be under way at once
  ProgramIds,    \* ids a program may have, as numbers in the order of the ids
  PerMinute,     \* ApiKey.requestsPerMinute
  Monthly,       \* Quota.monthlyRuns
  Minute, Month, \* lengths, in ticks
  PageSize       \* ?limit=

Scopes == {"programs:read", "programs:write", "runs:read", "runs:write"}

ASSUME ApiAssumption ==
  /\ {PerMinute, Monthly, Minute, Month, PageSize} \subseteq Nat \ {0}
  /\ ProgramIds \subseteq Nat /\ ScopeChoices \subseteq SUBSET Scopes
  /\ Keys # {} /\ IsFiniteSet(Callers)

VARIABLES
  keys,      \* keys[k]: its row
  quota,     \* the Quota row of the workspace
  programs,  \* ids of the workspace's programs
  calls,     \* calls[c]: the request c is serving, and what it has read
  runs,      \* numbers of runs: made, ended, stranded (RUNNING and nobody streams), lost (paid for, not made)
  hits,      \* history: hits[k][t], requests admitted at t
  charged    \* history: charged[m], runs charged to the month that begins at m

apiVars == <<keys, quota, programs, calls, runs, hits, charged>>

Needs == [optimize |-> "runs:write", create |-> "programs:write", list |-> "programs:read", look |-> "runs:read"]
Routes == DOMAIN Needs

NoKey == [made |-> FALSE, scopes |-> {}, expires |-> Never, revoked |-> Never, start |-> 0, count |-> 0]
NoCall == [pc |-> "idle", key |-> CHOOSE k \in Keys : TRUE, route |-> "look", now |-> 0,
           month |-> 0, from |-> {}, listed |-> <<>>]

MonthStart(t) == t - (t % Month)
Months == {MonthStart(t) : t \in Instants}

ApiInit(site) ==
  /\ keys = [k \in Keys |-> NoKey]
  /\ quota = [row |-> FALSE, period |-> 0, used |-> 0]
  /\ programs \in site.programs
  /\ calls = [c \in Callers |-> NoCall]
  /\ runs = [made |-> 0, ended |-> 0, stranded |-> 0, lost |-> 0]
  /\ hits = [k \in Keys |-> [t \in Instants |-> 0]]
  /\ charged = [m \in Months |-> 0]
-----------------------------------------------------------------------------
(* Managing keys: web/app/w/[workspace]/settings/api-keys/actions.ts *)

\* createApiKey: a name, at least one scope and an expiry, for an admin.
CreateKey(k, role, scopes, expires) ==
  /\ Authorize(role, "apiKey:manage", FALSE)
  /\ ~keys[k].made /\ scopes # {} /\ expires > clock
  /\ keys' = [keys EXCEPT ![k] = [NoKey EXCEPT !.made = TRUE, !.scopes = scopes,
                                               !.expires = expires, !.start = clock]]
  /\ UNCHANGED <<quota, programs, calls, runs, hits, charged, clock>>

\* revokeKey: only a key that is not revoked, so its date is written once.
RevokeKey(k, role) ==
  /\ Authorize(role, "apiKey:manage", FALSE)
  /\ keys[k].made /\ keys[k].revoked = Never
  /\ keys' = [keys EXCEPT ![k].revoked = clock]
  /\ UNCHANGED <<quota, programs, calls, runs, hits, charged, clock>>
-----------------------------------------------------------------------------
(* One request *)

Goto(c, pc) == calls' = [calls EXCEPT ![c].pc = pc]
Answer(c) == calls' = [calls EXCEPT ![c] = NoCall]

\* A request arrives; authenticateKey takes the time once, here.
Arrive(c, k, route) ==
  /\ calls[c].pc \in {"idle", "all"}
  /\ calls' = [calls EXCEPT ![c] = [NoCall EXCEPT !.pc = "lookup", !.key = k, !.route = route, !.now = clock,
                                                  !.from = IF route = "list" THEN programs ELSE {}]]
  /\ UNCHANGED <<keys, quota, programs, runs, hits, charged, clock>>

\* The first query: 401 for a key that is unknown, revoked or expired, 403 for a missing scope.
Lookup(c) ==
  LET k == keys[calls[c].key] IN
  /\ calls[c].pc = "lookup"
  /\ IF k.made /\ k.revoked = Never /\ ~Expired(k.expires, calls[c].now) /\ Needs[calls[c].route] \in k.scopes
       THEN Goto(c, "consume") ELSE Answer(c)
  /\ UNCHANGED <<keys, quota, programs, runs, hits, charged, clock>>

WindowOver(k) == k.start + Minute <= clock

\* Bug: the update counts without looking again at what the first query saw.
Admits_Counted(k) == WindowOver(k) \/ k.count < PerMinute
\* Bug: the limit is compared after the count.
Admits_OneMore(k) ==
  k.revoked = Never /\ ~Expired(k.expires, clock) /\ (WindowOver(k) \/ k.count <= PerMinute)

\* The condition of consumeKeyRequest's update.
Admits(k) ==
  /\ k.revoked = Never /\ ~Expired(k.expires, clock)
  /\ WindowOver(k) \/ k.count < PerMinute

\* Where a request that was let in goes on.
FirstOf(route) == CASE route = "optimize" -> "prepare" [] route = "create" -> "insert"
                    [] route = "list" -> "page" [] OTHER -> "idle"

\* The second query, one update: it restarts the window or counts in it, or answers 429.
Consume(c) ==
  LET id == calls[c].key k == keys[id] IN
  /\ calls[c].pc = "consume"
  /\ IF Admits(k)
       THEN /\ keys' = [keys EXCEPT ![id].start = IF WindowOver(k) THEN clock ELSE k.start,
                                    ![id].count = IF WindowOver(k) THEN 1 ELSE k.count + 1]
            /\ hits' = [hits EXCEPT ![id][clock] = @ + 1]
            /\ IF calls[c].route = "look" THEN Answer(c) ELSE Goto(c, FirstOf(calls[c].route))
       ELSE Answer(c) /\ UNCHANGED <<keys, hits>>
  /\ UNCHANGED <<quota, programs, runs, charged, clock>>

\* POST /v1/programs: one insert, then its audit entry; an entry that fails answers 500, the program stays.
Insert(c, p) ==
  /\ calls[c].pc = "insert" /\ p \notin programs
  /\ programs' = programs \cup {p}
  /\ Answer(c)
  /\ UNCHANGED <<keys, quota, runs, hits, charged, clock>>

Listed(c) == ToSet(calls[c].listed)

\* Bug: the page starts at the cursor, not after it.
After_Cursor(c) ==
  {p \in programs : \A q \in Listed(c) : p >= q}

\* Rows after the cursor, which is the last row of the page before.
After(c) == {p \in programs : \A q \in Listed(c) : p > q}

\* The first rows, in the order of their ids.
IsPageOf(page, rows) ==
  /\ \A i, j \in DOMAIN page : i < j => page[i] < page[j]
  /\ \A p \in rows \ ToSet(page) : Len(page) = PageSize /\ \A q \in ToSet(page) : q < p

\* GET /v1/programs: limit + 1 rows are read to know whether there are more.
Page(c) ==
  /\ calls[c].pc = "page"
  /\ \E page \in SeqOf(After(c), PageSize) :
       /\ IsPageOf(page, After(c))
       /\ calls' = [calls EXCEPT ![c].listed = @ \o page,
                                 ![c].pc = IF ToSet(page) = After(c) THEN "all" ELSE "more"]
  /\ UNCHANGED <<keys, quota, programs, runs, hits, charged, clock>>

\* The client follows next_cursor: another request with the same key.
More(c) ==
  /\ calls[c].pc = "more"
  /\ calls' = [calls EXCEPT ![c].pc = "lookup", ![c].now = clock]
  /\ UNCHANGED <<keys, quota, programs, runs, hits, charged, clock>>
-----------------------------------------------------------------------------
(* POST /v1/optimize, after the key *)

\* The program is the workspace's and the method is available, or 404, 422, 503.
Prepare(c, p, available) ==
  /\ calls[c].pc = "prepare"
  /\ IF p \in programs /\ available
       THEN calls' = [calls EXCEPT ![c].pc = "upsert", ![c].month = MonthStart(clock)]
       ELSE Answer(c)
  /\ UNCHANGED <<keys, quota, programs, runs, hits, charged, clock>>

\* consumeWorkspaceRun, three queries: a row for a workspace without one,
Upsert(c) ==
  /\ calls[c].pc = "upsert"
  /\ quota' = IF quota.row THEN quota ELSE [row |-> TRUE, period |-> calls[c].month, used |-> 0]
  /\ Goto(c, "reset")
  /\ UNCHANGED <<keys, programs, runs, hits, charged, clock>>

\* Bug: any other month resets, the one a slow request still holds too.
Outdated_Other(c) == quota.period # calls[c].month

Outdated(c) == quota.period < calls[c].month

\* a new month for a row of an older one,
Reset(c) ==
  /\ calls[c].pc = "reset"
  /\ quota' = IF Outdated(c) THEN [quota EXCEPT !.period = calls[c].month, !.used = 0] ELSE quota
  /\ Goto(c, "charge")
  /\ UNCHANGED <<keys, programs, runs, hits, charged, clock>>

\* and the charge, or 429.
Charge(c) ==
  /\ calls[c].pc = "charge"
  /\ IF quota.used < Monthly
       THEN /\ quota' = [quota EXCEPT !.used = @ + 1]
            /\ charged' = [charged EXCEPT ![MonthStart(quota.period)] = @ + 1]
            /\ Goto(c, "row")
       ELSE Answer(c) /\ UNCHANGED <<quota, charged>>
  /\ UNCHANGED <<keys, programs, runs, hits, clock>>

Counted(what) == runs' = [runs EXCEPT ![what] = @ + 1]

\* run.create; when it fails the charge is not given back.
MakeRun(c, works) ==
  /\ calls[c].pc = "row"
  /\ IF works THEN Counted("made") /\ Goto(c, "audit") ELSE Counted("lost") /\ Answer(c)
  /\ UNCHANGED <<keys, quota, programs, hits, charged, clock>>

\* auditLog.create, not record(): when it fails the run is left RUNNING with no stream behind it.
Audit(c, works) ==
  /\ calls[c].pc = "audit"
  /\ IF works THEN Goto(c, "stream") /\ UNCHANGED runs ELSE Counted("stranded") /\ Answer(c)
  /\ UNCHANGED <<keys, quota, programs, hits, charged, clock>>

\* The stream ends, whatever it was; the recorder settles the row.
Stream(c) ==
  /\ calls[c].pc = "stream"
  /\ Counted("ended") /\ Answer(c)
  /\ UNCHANGED <<keys, quota, programs, hits, charged, clock>>

\* A query before the charge fails, or the caller gives up: nothing has been paid.
Fail(c) ==
  /\ calls[c].pc \in {"lookup", "consume", "more", "page", "insert", "prepare", "upsert", "reset", "charge"}
  /\ Answer(c)
  /\ UNCHANGED <<keys, quota, programs, runs, hits, charged, clock>>

ApiStep(c, routes) ==
  \/ \E k \in Keys, route \in routes : Arrive(c, k, route)
  \/ Lookup(c) \/ Consume(c) \/ Page(c) \/ More(c) \/ Upsert(c) \/ Reset(c) \/ Charge(c) \/ Stream(c) \/ Fail(c)
  \/ \E p \in ProgramIds : Insert(c, p) \/ \E available \in BOOLEAN : Prepare(c, p, available)
  \/ \E works \in BOOLEAN : MakeRun(c, works) \/ Audit(c, works)

\* site: the routes that are called, the expiries keys are given, who revokes them and the last
\* tick, bounds all four.
ApiNext(site) ==
  \/ \E k \in Keys, role \in Managers, scopes \in ScopeChoices, expires \in site.expiries :
       CreateKey(k, role, scopes, expires)
  \/ \E k \in Keys, role \in site.revokers : RevokeKey(k, role)
  \/ \E c \in Callers : ApiStep(c, site.routes)
  \/ clock < site.last /\ Tick /\ UNCHANGED apiVars
-----------------------------------------------------------------------------
(* A key is counted in windows of a minute, at most PerMinute in each: the    *)
(* count is what was admitted since the window began, and no minute has more  *)
(* than two windows' worth.  Nothing is admitted at a time when the key was   *)
(* revoked or expired, even when the first query found it in order.           *)
KeyIsMetered(k) ==
  LET Admitted(a, b) == SumFunctionOnSet(hits[k], {t \in Instants : a <= t /\ t <= b})
  IN /\ Admitted(keys[k].start, LastTick) = keys[k].count /\ keys[k].count <= PerMinute
     /\ \A t \in Instants : Admitted(t, t + Minute - 1) <= 2 * PerMinute
     /\ \A t \in Instants : hits[k][t] > 0 =>
          t <= keys[k].revoked /\ ~Expired(keys[k].expires, t)

(* No month is charged more than Monthly, whatever month a slow request still *)
(* has in hand.  Every charge is a run or a failed insert, and a run nobody   *)
(* streams or settles is one whose audit entry failed.                        *)
MonthIsPaid ==
  LET In(pc) == Cardinality({c \in Callers : calls[c].pc = pc})
  IN /\ \A m \in Months : charged[m] <= Monthly
     /\ SumFunction(charged) = runs.made + runs.lost + In("row")
     /\ runs.made = runs.ended + runs.stranded + In("audit") + In("stream")

(* A listing that was followed to its end has each program that was there     *)
(* when it began, and none twice.                                             *)
PagesMeet ==
  \A c \in Callers :
    /\ IsInjective(calls[c].listed)
    /\ calls[c].pc = "all" => calls[c].from \subseteq Listed(c)

(* The types: a request that has read a month has one of the quota's, and a   *)
(* count is never of the future.                                              *)
ApiTypeOK ==
  /\ keys \in [Keys -> [made : BOOLEAN, scopes : SUBSET Scopes, expires : Dates, revoked : Dates,
                        start : 0 .. clock, count : 0 .. PerMinute]]
  /\ quota \in [row : BOOLEAN, period : Months, used : 0 .. Monthly]
  /\ programs \subseteq ProgramIds
  /\ calls \in [Callers ->
       [pc : {"idle", "lookup", "consume", "insert", "page", "more", "all", "prepare", "upsert", "reset", "charge",
              "row", "audit", "stream"},
        key : Keys, route : Routes, now : 0 .. clock, month : Months, from : SUBSET ProgramIds, listed : Seq(ProgramIds)]]
  /\ runs \in [{"made", "ended", "stranded", "lost"} -> Nat]
  /\ hits \in [Keys -> [Instants -> Nat]] /\ charged \in [Months -> Nat]

(* What an API key may use up: see the four parts above.                      *)
KeysAreMetered == ApiTypeOK /\ (\A k \in Keys : KeyIsMetered(k)) /\ MonthIsPaid /\ PagesMeet
=============================================================================
