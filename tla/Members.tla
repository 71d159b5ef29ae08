-------------------------------- MODULE Members --------------------------------
(***************************************************************************)
(* The people of one workspace: web/lib/actions/members.ts over            *)
(* web/lib/repositories/members.ts, with the permission table of           *)
(* web/lib/authorize.ts.  A request is a server action; each of its steps  *)
(* is one query, so what a request decided on may have changed by the time *)
(* it writes.  No transaction spans two steps.                             *)
(*                                                                         *)
(* Emails and forms are left out: a request names a user who has an        *)
(* account and a role from the list.                                       *)
(***************************************************************************)
EXTENDS Naturals, FiniteSets, Sequences

CONSTANTS
  Users,      \* people with an account
  Founder,    \* the user the workspace was provisioned for
  Requests    \* requests to manage people

ASSUME PeopleAssumption == IsFiniteSet(Users) /\ Founder \in Users

VARIABLES
  role,        \* role[u]: what u may do here, "none" without a membership row
  req,         \* req[r]: where request r is, and what it has read
  log,         \* the audit log, oldest first
  changes,     \* history: what was really done to the memberships, in order
  overlapped,  \* history: a request began while another was under way
  faulted      \* history: a request died, or an entry of the log was lost

past == <<overlapped, faulted>>
memberVars == <<role, req, log, changes, past>>

ROLES == {"VIEWER", "MEMBER", "ADMIN", "OWNER"}
RANK == [VIEWER |-> 0, MEMBER |-> 1, ADMIN |-> 2, OWNER |-> 3]
Standing == ROLES \cup {"none"}
Kinds == {"add", "change", "remove"}
Outcomes == {"done", "refused", "failed"}

\* atLeast(role, minimum); a stranger has no rank.
AtLeast(a, minimum) == a # "none" /\ RANK[a] >= RANK[minimum]

\* authorize() for member:invite, member:changeRole and member:remove.
MayManage(a) == AtLeast(a, "ADMIN")

Request == [pc : {"idle", "find", "count", "write", "record"} \cup Outcomes,
            kind : Kinds, by : Users, target : Users,
            to : Standing,       \* the role asked for, "none" to remove
            mine : Standing,     \* principal.role, as resolve() read it
            theirs : Standing]   \* target.role, as findMember() read it

Change == [of : Requests, by : Users, target : Users, from : Standing, to : Standing]

RequestAt(pc) == [pc |-> pc, kind |-> "add", by |-> Founder, target |-> Founder,
                  to |-> "none", mine |-> "none", theirs |-> "none"]

Open == {r \in Requests : req[r].pc \notin Outcomes \cup {"idle"}}
Owners == {u \in Users : role[u] = "OWNER"}

TypeOK ==
  /\ role \in [Users -> Standing]
  /\ req \in [Requests -> Request]
  /\ log \in Seq(Change)
  /\ changes \in Seq(Change)
  /\ overlapped \in BOOLEAN /\ faulted \in BOOLEAN

MembersInit ==
  /\ role = [u \in Users |-> IF u = Founder THEN "OWNER" ELSE "none"]
  /\ req = [r \in Requests |-> RequestAt("idle")]
  /\ log = <<>>
  /\ changes = <<>>
  /\ overlapped = FALSE /\ faulted = FALSE
-----------------------------------------------------------------------------
(* Steps of a request *)

GoOn(r, pc) == req' = [req EXCEPT ![r].pc = pc]
\* Bug: a row that is not there is updated by nobody, and recorded all the same.
Finish_Recorded(r, how) ==
  req' = [req EXCEPT ![r] = IF how = "failed" THEN [req[r] EXCEPT !.pc = "record"] ELSE RequestAt(how)]

Finish(r, how) == req' = [req EXCEPT ![r] = RequestAt(how)]

\* Bug: the owner rule looks at the role asked for and not at the one there is.
OwnerRule_Grant(mine, theirs, to) == to = "OWNER" => mine = "OWNER"

\* Bug: the owner rule looks at the role there is and not at the one asked for.
OwnerRule_Theirs(mine, theirs, to) == theirs = "OWNER" => mine = "OWNER"

\* The owner rule of the three actions: only an OWNER touches that level.
OwnerRule(mine, theirs, to) == "OWNER" \in {theirs, to} => mine = "OWNER"

\* resolve(): the caller's role is read and authorize() asked.  An addition is
\* held to the owner rule here, having no membership to look up.
Admitted(q) == MayManage(q.mine) /\ (q.kind = "add" => OwnerRule(q.mine, "none", q.to))

Asked(kind, by, target, to) ==
  [pc |-> IF kind = "add" THEN "write" ELSE "find", kind |-> kind, by |-> by,
   target |-> target, to |-> to, mine |-> role[by], theirs |-> "none"]

ResolveCaller(r) ==
  /\ req[r].pc = "idle"
  /\ \E kind \in Kinds, by, target \in Users :
       \E to \in IF kind = "remove" THEN {"none"} ELSE ROLES :
         LET q == Asked(kind, by, target, to) IN
         req' = [req EXCEPT ![r] = IF Admitted(q) THEN q ELSE RequestAt("refused")]
  /\ overlapped' = (overlapped \/ Open # {})
  /\ UNCHANGED <<role, log, changes, faulted>>

\* wouldOrphanWorkspace() reads nothing unless an owner stops being one.
StopsOwning(theirs, to) == theirs = "OWNER" /\ to # "OWNER"

\* findMember(), and the early returns on what it read.
FindMember(r) ==
  LET q == req[r]
      theirs == role[q.target]
  IN
  /\ q.pc = "find"
  /\ \/ theirs = "none" /\ Finish(r, "refused")
     \/ theirs # "none" /\ theirs = q.to /\ Finish(r, "done")
     \/ theirs \notin {"none", q.to} /\ ~OwnerRule(q.mine, theirs, q.to) /\ Finish(r, "refused")
     \/ /\ theirs \notin {"none", q.to} /\ OwnerRule(q.mine, theirs, q.to)
        /\ req' = [req EXCEPT ![r].theirs = theirs,
                              ![r].pc = IF StopsOwning(theirs, q.to) THEN "count" ELSE "write"]
  /\ UNCHANGED <<role, log, changes, past>>

\* Bug: countOwners() < 1.
LastOwner_Zero == Cardinality(Owners) < 1

\* countOwners() <= 1.
LastOwner == Cardinality(Owners) <= 1

CountOwners(r) ==
  /\ req[r].pc = "count"
  /\ \/ LastOwner /\ Finish(r, "refused")
     \/ ~LastOwner /\ GoOn(r, "write")
  /\ UNCHANGED <<role, log, changes, past>>

\* The row is there when it is to be updated or deleted, and not there when it
\* is to be created.
RowFits(q) == (q.kind = "add") <=> (role[q.target] = "none")

\* addMember(), setMemberRole() or removeMember().  A row that does not fit is a
\* unique violation, which an addition reports, or an error nobody catches.
Write(r) ==
  LET q == req[r] IN
  /\ q.pc = "write"
  /\ \/ /\ ~RowFits(q)
        /\ Finish(r, IF q.kind = "add" THEN "refused" ELSE "failed")
        /\ UNCHANGED <<role, changes>>
     \/ /\ RowFits(q)
        /\ role' = [role EXCEPT ![q.target] = q.to]
        /\ changes' = Append(changes, [of |-> r, by |-> q.by, target |-> q.target,
                                       from |-> role[q.target], to |-> q.to])
        /\ GoOn(r, "record")
  /\ UNCHANGED <<log, past>>

\* Bug: the entry is made of the form, without the role that findMember read.
Entry_Form(r) == [of |-> r, by |-> req[r].by, target |-> req[r].target,
                  from |-> "none", to |-> req[r].to]

\* The entry record() writes says what the request read, not what it replaced.
Entry(r) == [of |-> r, by |-> req[r].by, target |-> req[r].target,
             from |-> req[r].theirs, to |-> req[r].to]

\* record() never fails its caller.
Record(r) ==
  /\ req[r].pc = "record"
  /\ \/ log' = Append(log, Entry(r)) /\ UNCHANGED faulted
     \/ faulted' = TRUE /\ UNCHANGED log
  /\ Finish(r, "done")
  /\ UNCHANGED <<role, changes, overlapped>>

\* The process dies between two queries, or a query raises.
Die(r) ==
  /\ r \in Open
  /\ Finish(r, "failed")
  /\ faulted' = TRUE
  /\ UNCHANGED <<role, log, changes, overlapped>>

RequestStep(r) == ResolveCaller(r) \/ FindMember(r) \/ CountOwners(r) \/ Write(r) \/ Record(r) \/ Die(r)

MembersNext == \E r \in Requests : RequestStep(r)

MembersSpec == MembersInit /\ [][MembersNext]_memberVars
-----------------------------------------------------------------------------
(* Properties *)

\* As long as requests were served one after the other, the workspace has an
\* owner: nobody can remove or demote the last one (wouldOrphanWorkspace).
OwnedInTurn == ~overlapped => Owners # {}

\* As long as requests were served one after the other, whoever makes an owner, or
\* unmakes one, is an owner at that moment (the owner rule of the three actions).
OwnershipByOwners ==
  [][\A r \in Requests : \A u \in Users :
       (~overlapped' /\ req[r].pc = "write" /\ req'[r].pc = "record" /\ req[r].target = u
          /\ "OWNER" \in {role[u], role'[u]})
         => role[req[r].by] = "OWNER"]_memberVars

\* The log of a quiet workspace is its history, if requests never overlapped and
\* nothing failed: each change once, in order, from the role it really replaced
\* (record() after each write, with what findMember read).
LogIsHistory == ~overlapped /\ ~faulted /\ Open = {} => log = changes

\* Roles u held before the i-th change.
HeldBefore(u, i) ==
  (IF u = Founder THEN {"OWNER"} ELSE {})
    \cup {changes[j].to : j \in {k \in 1..(i - 1) : changes[k].target = u}}

\* Ownership descends from the founder: however requests interleave, whoever made
\* an owner had been one before, and whoever changed anything had been an ADMIN
\* or more (resolve's authorize and the owner rule, on a role that may be stale).
OwnershipDescends ==
  \A i \in DOMAIN changes :
    LET held == HeldBefore(changes[i].by, i) IN
    /\ \E a \in held : MayManage(a)
    /\ changes[i].to = "OWNER" => "OWNER" \in held

\* However requests interleave, die or lose their entry, the log claims nothing
\* that was not done, by somebody else or to somebody else, and nothing twice.
LogIsTrue ==
  /\ \A i \in DOMAIN log : \E j \in DOMAIN changes :
       /\ changes[j].of = log[i].of /\ changes[j].by = log[i].by
       /\ changes[j].target = log[i].target /\ changes[j].to = log[i].to
  /\ \A i, j \in DOMAIN log : log[i].of = log[j].of => i = j

\* The audit log can be believed: nothing false ever, and in quiet times nothing missing.
LogHolds == LogIsHistory /\ LogIsTrue
=============================================================================
