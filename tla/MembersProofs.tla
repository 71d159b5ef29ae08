----------------------------- MODULE MembersProofs -----------------------------
(***************************************************************************)
(* Theorems about Members.  Requests served one at a time decide on what   *)
(* is there when they write, which is what Fresh says of each of them; the *)
(* rules they apply then mean what they say.                               *)
(***************************************************************************)
EXTENDS Members, FiniteSetTheorems, SequenceTheorems, TLAPS

\* What request r has read is still so, and its rules were applied to it.
Fresh(r) ==
  LET q == req[r] IN
  /\ q.pc \in {"find", "count", "write"} => q.mine = role[q.by]
  /\ q.pc \in {"find", "count"} => q.kind # "add"
  /\ q.pc \in {"count", "write"} =>
       /\ q.theirs = IF q.kind = "add" THEN "none" ELSE role[q.target]
       /\ OwnerRule(q.mine, q.theirs, q.to)
  /\ q.pc = "write" /\ StopsOwning(q.theirs, q.to) => ~LastOwner

Alone == \A r, s \in Open : r = s

Serial == Alone /\ Owners # {} /\ \A r \in Requests : Fresh(r)

Inv == TypeOK /\ (~overlapped => Serial)

\* The request at the end of its work, or at its start, has the type of one.
LEMMA AtType == ASSUME NEW pc \in {"idle"} \cup Outcomes PROVE RequestAt(pc) \in Request /\ RequestAt(pc).pc = pc
  BY PeopleAssumption DEF RequestAt, Request, Kinds, Outcomes, Standing

\* Every step of every request keeps the types.
LEMMA StepTyped == TypeOK /\ [MembersNext]_memberVars => TypeOK'
<1> SUFFICES ASSUME TypeOK, [MembersNext]_memberVars PROVE TypeOK'
  OBVIOUS
<1> USE AtType, PeopleAssumption DEF TypeOK, past
<1>1. CASE UNCHANGED memberVars
  BY <1>1 DEF memberVars
<1>2. CASE MembersNext
  <2>1. PICK r \in Requests : RequestStep(r)
    BY <1>2 DEF MembersNext
  <2>f. ASSUME NEW how \in Outcomes, Finish(r, how) PROVE req' \in [Requests -> Request]
    BY <2>f DEF Finish
  <2>2. CASE ResolveCaller(r)
    <3>1. PICK kind \in Kinds, by \in Users, target \in Users :
            \E to \in IF kind = "remove" THEN {"none"} ELSE ROLES :
              LET q == Asked(kind, by, target, to) IN
              req' = [req EXCEPT ![r] = IF Admitted(q) THEN q ELSE RequestAt("refused")]
      BY <2>2 DEF ResolveCaller
    <3>2. PICK to \in Standing :
              LET q == Asked(kind, by, target, to) IN
              req' = [req EXCEPT ![r] = IF Admitted(q) THEN q ELSE RequestAt("refused")]
      BY <3>1 DEF Standing
    <3>3. Asked(kind, by, target, to) \in Request
      BY DEF Asked, Request, Kinds, Standing
    <3>4. RequestAt("refused") \in Request
      BY DEF Outcomes
    <3> QED
      BY <2>2, <3>2, <3>3, <3>4 DEF ResolveCaller
  <2>3. CASE FindMember(r)
    <3>1. role[req[r].target] \in Standing
      BY DEF Request
    <3>2. CASE Finish(r, "refused") \/ Finish(r, "done")
      BY <2>3, <3>2, <2>f DEF FindMember, Outcomes
    <3>3. CASE \E pc \in {"count", "write"} :
                 req' = [req EXCEPT ![r].theirs = role[req[r].target], ![r].pc = pc]
      BY <2>3, <3>1, <3>3 DEF FindMember, Request
    <3> QED
      BY <2>3, <3>2, <3>3 DEF FindMember
  <2>4. CASE CountOwners(r)
    <3>1. CASE Finish(r, "refused")
      BY <2>4, <3>1, <2>f DEF CountOwners, Outcomes
    <3>2. CASE GoOn(r, "write")
      BY <2>4, <3>2 DEF CountOwners, GoOn, Request
    <3> QED
      BY <2>4, <3>1, <3>2 DEF CountOwners
  <2>5. CASE Write(r)
    <3>1. CASE ~RowFits(req[r])
      BY <2>5, <3>1, <2>f DEF Write, Outcomes
    <3>2. CASE RowFits(req[r])
      <4>1. req' \in [Requests -> Request]
        <5>1. req' = [req EXCEPT ![r].pc = "record"]
          BY <2>5, <3>2 DEF Write, GoOn
        <5>2. [req[r] EXCEPT !.pc = "record"] \in Request
          <6>1. req[r] \in Request
            OBVIOUS
          <6> QED
            BY <6>1, SMTT(30) DEF Request
        <5> QED
          BY <5>1, <5>2
      <4>2. role' \in [Users -> Standing]
        BY <2>5, <3>2 DEF Write, Request
      <4>3. [of |-> r, by |-> req[r].by, target |-> req[r].target,
             from |-> role[req[r].target], to |-> req[r].to] \in Change
        BY DEF Request, Change
      <4>4. changes' \in Seq(Change)
        BY <2>5, <3>2, <4>3 DEF Write
      <4> QED
        BY <2>5, <4>1, <4>2, <4>4 DEF Write
    <3> QED
      BY <3>1, <3>2
  <2>6. CASE Record(r)
    <3>1. Entry(r) \in Change
      BY DEF Entry, Request, Change
    <3>2. log' \in Seq(Change)
      BY <2>6, <3>1 DEF Record
    <3> QED
      BY <2>6, <3>2, <2>f DEF Record, Outcomes
  <2>7. CASE Die(r)
    BY <2>7, <2>f DEF Die, Outcomes
  <2> QED
    BY <2>1, <2>2, <2>3, <2>4, <2>5, <2>6, <2>7 DEF RequestStep
<1> QED
  BY <1>1, <1>2

LEMMA InitTyped == MembersInit => TypeOK
<1> SUFFICES ASSUME MembersInit PROVE TypeOK
  OBVIOUS
<1>1. role \in [Users -> Standing] /\ req \in [Requests -> Request]
  BY AtType, PeopleAssumption DEF MembersInit, Standing, ROLES
<1>2. log \in Seq(Change) /\ changes \in Seq(Change)
  BY DEF MembersInit
<1> QED
  BY <1>1, <1>2 DEF MembersInit, TypeOK

\* Roles, requests and the log have their types, however requests interleave.
THEOREM MembersTyped == MembersSpec => []TypeOK
  BY InitTyped, StepTyped, PTL DEF MembersSpec

-----------------------------------------------------------------------------
(* One request at a time *)

\* A request that is not under way is fresh, there being nothing it relies on.
LEMMA IdleIsFresh == ASSUME NEW r, req[r].pc \in {"idle", "record"} \cup Outcomes PROVE Fresh(r)
  BY DEF Fresh, Outcomes

\* While nothing overlaps, a step is that of the only request under way, if any.
LEMMA OnlyOne ==
  ASSUME TypeOK, Alone, NEW r \in Requests, RequestStep(r), ~overlapped'
  PROVE  /\ \A s \in Requests \ {r} : s \notin Open /\ req'[s] = req[s]
         /\ Alone'
<1>1. r \in Open \/ Open = {}
  BY DEF RequestStep, ResolveCaller, FindMember, CountOwners, Write, Record, Die, Open, Outcomes
<1>2. \A s \in Requests \ {r} : s \notin Open
  BY <1>1 DEF Alone
<1>3. \A s \in Requests \ {r} : req'[s] = req[s]
  BY DEF RequestStep, ResolveCaller, FindMember, CountOwners, Write, Record, Die, GoOn, Finish, TypeOK
<1>4. \A s \in Requests \ {r} : s \notin Open'
  BY <1>2, <1>3 DEF Open
<1>5. Alone'
  BY <1>4 DEF Alone, Open
<1> QED
  BY <1>2, <1>3, <1>5

\* Requests other than the one that steps stay fresh.
LEMMA OthersFresh ==
  ASSUME TypeOK, Alone, NEW r \in Requests, RequestStep(r), ~overlapped'
  PROVE  \A s \in Requests \ {r} : Fresh(s)'
<1> TAKE s \in Requests \ {r}
<1>1. s \notin Open /\ req'[s] = req[s]
  BY OnlyOne
<1>2. req'[s].pc \in {"idle"} \cup Outcomes
  BY <1>1 DEF Open
<1> QED
  BY <1>2 DEF Fresh, Outcomes

\* Of two owners or more, one may go.
LEMMA OneLeft == ASSUME ~LastOwner, NEW u PROVE Owners \ {u} # {}
<1>1. IsFiniteSet(Owners)
  BY PeopleAssumption, FS_Subset DEF Owners
<1>2. Cardinality(Owners) \in Nat /\ Cardinality(Owners) > 1
  BY <1>1, FS_CardinalityType DEF LastOwner
<1>3. IsFiniteSet({u}) /\ Cardinality({u}) = 1
  BY FS_Singleton
<1>4. SUFFICES ASSUME Owners \subseteq {u} PROVE FALSE
  OBVIOUS
<1>5. Cardinality(Owners) <= 1
  BY <1>3, <1>4, FS_Subset
<1> QED
  BY <1>2, <1>5

\* What a write does when the request is fresh: it is as if the request had read
\* what is there.
LEMMA FreshWrite ==
  ASSUME TypeOK, Owners # {}, NEW r \in Requests, Fresh(r), Write(r), RowFits(req[r])
  PROVE  /\ Owners' # {}
         /\ req[r].theirs = role[req[r].target]
         /\ req[r].mine = role[req[r].by]
         /\ OwnerRule(req[r].mine, role[req[r].target], req[r].to)
<1> DEFINE q == req[r]
<1>1. q \in Request /\ q.pc = "write" /\ role' = [role EXCEPT ![q.target] = q.to]
  BY DEF TypeOK, Write
<1>2. /\ q.theirs = role[q.target] /\ q.mine = role[q.by]
      /\ OwnerRule(q.mine, role[q.target], q.to)
  BY <1>1 DEF Fresh, RowFits
<1>3. Owners' # {}
  <2>1. CASE StopsOwning(q.theirs, q.to)
    <3>1. Owners \ {q.target} # {}
      BY <1>1, <2>1, OneLeft DEF Fresh
    <3>2. PICK u \in Users : role[u] = "OWNER" /\ u # q.target
      BY <3>1 DEF Owners
    <3>3. role'[u] = "OWNER"
      BY <1>1, <3>2 DEF TypeOK
    <3> QED
      BY <3>3 DEF Owners
  <2>2. CASE ~StopsOwning(q.theirs, q.to)
    <3>1. PICK u \in Users : role[u] = "OWNER"
      BY DEF Owners
    <3>2. role'[u] = "OWNER"
      BY <1>1, <1>2, <2>2, <3>1 DEF TypeOK, StopsOwning
    <3> QED
      BY <3>2 DEF Owners
  <2> QED
    BY <2>1, <2>2
<1> QED
  BY <1>2, <1>3

\* Requests served one at a time stay fresh, and leave the workspace an owner.
LEMMA StepSerial == TypeOK /\ Serial /\ [MembersNext]_memberVars /\ ~overlapped' => Serial'
<1> SUFFICES ASSUME TypeOK, Serial, [MembersNext]_memberVars, ~overlapped' PROVE Serial'
  OBVIOUS
<1>1. CASE UNCHANGED memberVars
  BY <1>1 DEF memberVars, Serial, Alone, Fresh, Open, Owners, LastOwner
<1>2. CASE MembersNext
  <2>1. PICK r \in Requests : RequestStep(r)
    BY <1>2 DEF MembersNext
  <2>2. Alone' /\ \A s \in Requests \ {r} : Fresh(s)'
    BY <2>1, OnlyOne, OthersFresh DEF Serial
  <2>3. SUFFICES Owners' # {} /\ Fresh(r)'
    BY <2>2 DEF Serial
  <2>4. role' = role => Owners' # {}
    BY DEF Serial, Owners
  <2>5. \A pc \in {"idle"} \cup Outcomes : Finish(r, pc) => Fresh(r)'
    BY AtType DEF Finish, TypeOK, Fresh, Outcomes
  <2>6. req[r] \in Request /\ Fresh(r)
    BY DEF Serial, TypeOK
  <2>7. CASE ResolveCaller(r)
    <3>0. PICK kind \in Kinds, by \in Users, target \in Users :
            \E to \in IF kind = "remove" THEN {"none"} ELSE ROLES :
              LET q == Asked(kind, by, target, to) IN
              req' = [req EXCEPT ![r] = IF Admitted(q) THEN q ELSE RequestAt("refused")]
      BY <2>7 DEF ResolveCaller
    <3>a. PICK to :
            LET q == Asked(kind, by, target, to) IN
            req' = [req EXCEPT ![r] = IF Admitted(q) THEN q ELSE RequestAt("refused")]
      BY <3>0
    <3> DEFINE q == Asked(kind, by, target, to)
    <3>1. req' = [req EXCEPT ![r] = IF Admitted(q) THEN q ELSE RequestAt("refused")]
      BY <3>a
    <3>2. q.mine = role[q.by] /\ q.theirs = "none" /\ q.pc \in {"find", "write"}
            /\ (q.pc = "write" <=> q.kind = "add")
      BY DEF Asked
    <3> HIDE DEF q
    <3>3. CASE Admitted(q)
      <4>1. req'[r] = q /\ role' = role
        BY <2>7, <3>1, <3>3 DEF ResolveCaller, TypeOK
      <4> QED
        BY <2>4, <3>2, <3>3, <4>1 DEF Fresh, Admitted, StopsOwning
    <3>4. CASE ~Admitted(q)
      BY <2>4, <2>5, <2>7, <3>1, <3>4 DEF Finish, Outcomes, ResolveCaller
    <3> QED
      BY <3>3, <3>4
  <2>8. CASE FindMember(r)
    <3>1. CASE Finish(r, "refused") \/ Finish(r, "done")
      BY <2>4, <2>5, <2>8, <3>1 DEF Outcomes, FindMember
    <3>2. CASE /\ OwnerRule(req[r].mine, role[req[r].target], req[r].to)
               /\ req' = [req EXCEPT ![r].theirs = role[req[r].target],
                            ![r].pc = IF StopsOwning(role[req[r].target], req[r].to)
                                      THEN "count" ELSE "write"]
      <4>1. req[r].pc = "find" /\ role' = role
        BY <2>8 DEF FindMember
      <4>2. /\ req'[r].mine = req[r].mine /\ req'[r].by = req[r].by /\ req'[r].kind = req[r].kind
            /\ req'[r].target = req[r].target /\ req'[r].to = req[r].to
            /\ req'[r].theirs = role[req[r].target]
            /\ req'[r].pc = IF StopsOwning(role[req[r].target], req[r].to) THEN "count" ELSE "write"
        BY <2>6, <3>2 DEF TypeOK, Request
      <4> QED
        BY <2>4, <2>6, <3>2, <4>1, <4>2 DEF Fresh
    <3> QED
      BY <2>8, <3>1, <3>2 DEF FindMember
  <2>9. CASE CountOwners(r)
    <3>1. CASE Finish(r, "refused")
      BY <2>4, <2>5, <2>9, <3>1 DEF Outcomes, CountOwners
    <3>2. CASE ~LastOwner /\ GoOn(r, "write")
      <4>1. req[r].pc = "count" /\ role' = role
        BY <2>9 DEF CountOwners
      <4>2. /\ req'[r].mine = req[r].mine /\ req'[r].by = req[r].by /\ req'[r].kind = req[r].kind
            /\ req'[r].target = req[r].target /\ req'[r].to = req[r].to
            /\ req'[r].theirs = req[r].theirs /\ req'[r].pc = "write"
        BY <2>6, <3>2 DEF TypeOK, Request, GoOn
      <4>3. ~LastOwner'
        BY <3>2, <4>1 DEF LastOwner, Owners
      <4> QED
        BY <2>4, <2>6, <4>1, <4>2, <4>3 DEF Fresh
    <3> QED
      BY <2>9, <3>1, <3>2 DEF CountOwners
  <2>10. CASE Write(r)
    <3>1. CASE RowFits(req[r])
      <4>1. Owners' # {}
        BY <2>6, <2>10, <3>1, FreshWrite DEF Serial
      <4>2. req'[r].pc = "record"
        BY <2>6, <2>10, <3>1 DEF Write, GoOn, TypeOK, Request
      <4> QED
        BY <4>1, <4>2 DEF Fresh
    <3>2. CASE ~RowFits(req[r])
      BY <2>4, <2>5, <2>10, <3>2 DEF Write, Outcomes
    <3> QED
      BY <3>1, <3>2
  <2>11. CASE Record(r) \/ Die(r)
    BY <2>4, <2>5, <2>11 DEF Record, Die, Outcomes
  <2> QED
    BY <2>1, <2>7, <2>8, <2>9, <2>10, <2>11 DEF RequestStep
<1> QED
  BY <1>1, <1>2

\* The specification starts with the founder as the only owner and nobody asking.
LEMMA InitSerial == MembersInit => Serial
<1> SUFFICES ASSUME MembersInit PROVE Serial
  OBVIOUS
<1>1. \A r \in Requests : req[r].pc = "idle"
  BY AtType DEF MembersInit
<1>2. role[Founder] = "OWNER"
  BY PeopleAssumption DEF MembersInit
<1> QED
  BY <1>1, <1>2, IdleIsFresh, PeopleAssumption DEF Serial, Alone, Open, Owners

LEMMA InitInv == MembersInit => Inv
  BY InitSerial, InitTyped DEF Inv

\* Once requests have overlapped, they have.
LEMMA OverlapStays == TypeOK /\ [MembersNext]_memberVars /\ overlapped => overlapped'
  BY DEF MembersNext, RequestStep, ResolveCaller, FindMember, CountOwners, Write, Record, Die, memberVars, past

LEMMA StepInv == Inv /\ [MembersNext]_memberVars => Inv'
  BY StepTyped, StepSerial, OverlapStays DEF Inv

\* As long as requests are served one after the other, there is an owner.
THEOREM MembersOwned == MembersSpec => []OwnedInTurn
<1>1. Inv => OwnedInTurn
  BY DEF Inv, Serial, OwnedInTurn
<1> QED
  BY <1>1, InitInv, StepInv, PTL DEF MembersSpec

\* As long as requests are served one after the other, only owners make and
\* unmake owners.
THEOREM MembersByOwners == MembersSpec => OwnershipByOwners
<1> DEFINE Rule == \A r \in Requests : \A u \in Users :
       (~overlapped' /\ req[r].pc = "write" /\ req'[r].pc = "record" /\ req[r].target = u
          /\ "OWNER" \in {role[u], role'[u]})
         => role[req[r].by] = "OWNER"
<1>1. Inv /\ [MembersNext]_memberVars => [Rule]_memberVars
  <2> SUFFICES ASSUME Inv, MembersNext, ~overlapped',
                      NEW r \in Requests, req[r].pc = "write", req'[r].pc = "record",
                      "OWNER" \in {role[req[r].target], role'[req[r].target]}
               PROVE  role[req[r].by] = "OWNER"
    OBVIOUS
  <2>1. TypeOK /\ Serial
    BY OverlapStays DEF Inv
  <2>2. PICK s \in Requests : RequestStep(s)
    BY DEF MembersNext
  <2>3. s = r
    BY <2>1, <2>2, OnlyOne DEF Serial
  <2>4. Write(r) /\ RowFits(req[r])
    <3>1. Write(r) \/ Die(r)
      BY <2>2, <2>3 DEF RequestStep, ResolveCaller, FindMember, CountOwners, Record
    <3>2. \A how \in Outcomes : Finish(r, how) => req'[r].pc # "record"
      BY <2>1, AtType DEF Finish, TypeOK, Outcomes
    <3> QED
      BY <3>1, <3>2 DEF Write, Die, Outcomes
  <2>5. role' = [role EXCEPT ![req[r].target] = req[r].to] /\ req[r] \in Request
    BY <2>1, <2>4 DEF Write, TypeOK
  <2>6. OwnerRule(role[req[r].by], role[req[r].target], req[r].to)
    BY <2>1, <2>4, FreshWrite DEF Serial
  <2>7. "OWNER" \in {role[req[r].target], req[r].to}
    BY <2>1, <2>5 DEF TypeOK, Request
  <2> QED
    BY <2>6, <2>7 DEF OwnerRule
<1> QED
  BY <1>1, InitInv, StepInv, PTL DEF MembersSpec, OwnershipByOwners

-----------------------------------------------------------------------------
(* However requests interleave *)

\* Roles u was given so far, the one it has among them.
EverHeld(u) == HeldBefore(u, Len(changes) + 1)

\* What a request goes by: a role its caller had, that may do this; the owner rule
\* held for what it asks; it has written when it comes to record.
Grounded(r) ==
  LET q == req[r] IN
  /\ q.pc \in {"find", "count", "write"} => q.mine \in EverHeld(q.by) /\ MayManage(q.mine)
  /\ q.pc = "find" => q.kind # "add"
  /\ q.pc \in {"count", "write"} => (q.to = "OWNER" => q.mine = "OWNER")
  /\ q.pc = "record" => \E j \in DOMAIN changes :
       changes[j].of = r /\ changes[j].by = q.by /\ changes[j].target = q.target /\ changes[j].to = q.to

\* Nothing is recorded but by a request that is through with it.
RecordedOnce ==
  /\ LogIsTrue
  /\ \A i \in DOMAIN log : req[log[i].of].pc \in Outcomes

Lineage ==
  /\ \A u \in Users : role[u] # "none" => role[u] \in EverHeld(u)
  /\ \A r \in Requests : Grounded(r)
  /\ OwnershipDescends
  /\ RecordedOnce

\* An addition to the history leaves what was held before it, and adds a role.
LEMMA HistoryGrows ==
  ASSUME changes \in Seq(Change), NEW c \in Change, changes' = Append(changes, c)
  PROVE  /\ DOMAIN changes = 1..Len(changes) /\ DOMAIN changes' = 1..(Len(changes) + 1)
         /\ changes'[Len(changes) + 1] = c /\ \A i \in DOMAIN changes : changes'[i] = changes[i]
         /\ \A u : \A i \in 1..(Len(changes) + 1) : HeldBefore(u, i)' = HeldBefore(u, i)
         /\ \A u : EverHeld(u) \subseteq EverHeld(u)'
         /\ c.to \in EverHeld(c.target)'
<1>0. PICK n \in Nat : n = Len(changes)
  BY LenProperties
<1>1. /\ n \in Nat /\ DOMAIN changes = 1..n /\ Len(changes') = n + 1 /\ DOMAIN changes' = 1..(n + 1)
      /\ changes'[n + 1] = c /\ \A i \in 1..n : changes'[i] = changes[i]
  BY <1>0, AppendProperties, LenProperties
<1>2. ASSUME NEW u, NEW i \in 1..(n + 1) PROVE HeldBefore(u, i)' = HeldBefore(u, i)
  <2>1. \A k \in 1..(i - 1) : k \in 1..n
    BY <1>1
  <2>2. \A k \in 1..(i - 1) : changes'[k] = changes[k]
    BY <1>1, <2>1
  <2>3. {k \in 1..(i - 1) : changes'[k].target = u} = {k \in 1..(i - 1) : changes[k].target = u}
    BY <2>2
  <2> QED
    BY <2>2, <2>3 DEF HeldBefore
<1>3. ASSUME NEW u PROVE HeldBefore(u, n + 1)' \subseteq HeldBefore(u, n + 1 + 1)'
  <2>1. \A k \in 1..(n + 1 - 1) : k \in 1..(n + 1 + 1 - 1)
    BY <1>1
  <2>2. {k \in 1..(n + 1 - 1) : changes'[k].target = u} \subseteq {k \in 1..(n + 1 + 1 - 1) : changes'[k].target = u}
    BY <2>1
  <2>3. {changes'[j].to : j \in {k \in 1..(n + 1 - 1) : changes'[k].target = u}}
          \subseteq {changes'[j].to : j \in {k \in 1..(n + 1 + 1 - 1) : changes'[k].target = u}}
    BY <2>2
  <2>4. \A m : HeldBefore(u, m)' = (IF u = Founder THEN {"OWNER"} ELSE {})
                 \cup {changes'[j].to : j \in {k \in 1..(m - 1) : changes'[k].target = u}}
    BY DEF HeldBefore
  <2> QED
    BY <2>3, <2>4
<1>4. c.to \in HeldBefore(c.target, n + 1 + 1)'
  <2>1. n + 1 \in 1..(n + 1 + 1 - 1)
    BY <1>1
  <2> QED
    BY <1>1, <2>1 DEF HeldBefore
<1>5. \A u : EverHeld(u) = HeldBefore(u, n + 1) /\ EverHeld(u)' = HeldBefore(u, n + 1 + 1)'
  BY <1>0, <1>1 DEF EverHeld
<1>6. n + 1 \in 1..(n + 1)
  BY <1>1
<1> QED
  BY <1>0, <1>1, <1>2, <1>3, <1>4, <1>5, <1>6

\* An entry of the log is of a request.
LEMMA LogTyped == ASSUME TypeOK PROVE \A i \in DOMAIN log : log[i].of \in Requests
<1>1. \A i \in DOMAIN log : log[i] \in Change
  BY LenProperties, ElementOfSeq DEF TypeOK
<1> QED
  BY <1>1 DEF Change

LEMMA InitLineage == MembersInit => Lineage
<1> SUFFICES ASSUME MembersInit PROVE Lineage
  OBVIOUS
<1>1. \A r \in Requests : req[r].pc = "idle"
  BY AtType DEF MembersInit
<1>2. DOMAIN changes = {} /\ DOMAIN log = {}
  BY DEF MembersInit
<1>3. \A u \in Users : role[u] # "none" => role[u] \in EverHeld(u)
  BY DEF MembersInit, EverHeld, HeldBefore
<1> QED
  BY <1>1, <1>2, <1>3 DEF Lineage, Grounded, OwnershipDescends, RecordedOnce, LogIsTrue

LEMMA StepLineage == TypeOK /\ Lineage /\ [MembersNext]_memberVars => Lineage'
<1> SUFFICES ASSUME TypeOK, Lineage, [MembersNext]_memberVars PROVE Lineage'
  OBVIOUS
<1>1. CASE UNCHANGED memberVars
  BY <1>1 DEF memberVars, past, Lineage, Grounded, EverHeld, HeldBefore, OwnershipDescends, RecordedOnce, LogIsTrue
<1>2. CASE MembersNext
  <2>1. PICK r \in Requests : RequestStep(r)
    BY <1>2 DEF MembersNext
  <2>2. \A s \in Requests \ {r} : req'[s] = req[s]
    BY <2>1 DEF RequestStep, ResolveCaller, FindMember, CountOwners, Write, Record, Die, GoOn, Finish, TypeOK
  <2>3. req[r] \in Request /\ req' \in [Requests -> Request] /\ \A s \in Requests : Grounded(s)
    BY <1>2, StepTyped DEF TypeOK, Lineage
  \* A step that does not write keeps the history and what was held.
  <2>4. ASSUME changes' = changes
        PROVE  /\ \A u : EverHeld(u)' = EverHeld(u)
               /\ OwnershipDescends'
               /\ \A s \in Requests \ {r} : Grounded(s)'
    <3>1. \A u, i : HeldBefore(u, i)' = HeldBefore(u, i)
      BY <2>4 DEF HeldBefore
    <3>2. \A u : EverHeld(u)' = EverHeld(u)
      BY <2>4, <3>1 DEF EverHeld
    <3>3. OwnershipDescends'
      BY <2>4, <3>1 DEF OwnershipDescends, Lineage
    <3>4. \A s \in Requests \ {r} : Grounded(s)'
      BY <2>2, <2>3, <2>4, <3>2 DEF Grounded
    <3> QED
      BY <3>2, <3>3, <3>4
  <2>5. ASSUME log' = log, changes' = changes, req[r].pc \notin Outcomes PROVE RecordedOnce'
    <3>1. \A i \in DOMAIN log : log[i].of \in Requests
      BY LogTyped
    <3> QED
      BY <2>2, <2>5, <3>1 DEF Lineage, RecordedOnce, LogIsTrue
  <2>6. ASSUME NEW pc \in Outcomes, Finish(r, pc), role' = role, changes' = changes, log' = log, req[r].pc \notin Outcomes
        PROVE  Lineage'
    <3>1. Grounded(r)'
      BY <2>6, AtType DEF Finish, TypeOK, Grounded, Outcomes
    <3> QED
      BY <2>4, <2>5, <2>6, <3>1 DEF Lineage
  <2>7. CASE ResolveCaller(r)
    <3>1. PICK q \in Request : /\ req' = [req EXCEPT ![r] = IF Admitted(q) THEN q ELSE RequestAt("refused")]
                               /\ q.mine = role[q.by] /\ q.pc = (IF q.kind = "add" THEN "write" ELSE "find")
      <4>1. PICK kind \in Kinds, by \in Users, target \in Users :
              \E to \in IF kind = "remove" THEN {"none"} ELSE ROLES :
                LET q == Asked(kind, by, target, to) IN
                req' = [req EXCEPT ![r] = IF Admitted(q) THEN q ELSE RequestAt("refused")]
        BY <2>7 DEF ResolveCaller
      <4>2. PICK to \in Standing :
                LET q == Asked(kind, by, target, to) IN
                req' = [req EXCEPT ![r] = IF Admitted(q) THEN q ELSE RequestAt("refused")]
        BY <4>1 DEF Standing
      <4>3. Asked(kind, by, target, to) \in Request
        BY DEF Asked, Request, Kinds, Standing, TypeOK
      <4> QED
        BY <4>2, <4>3 DEF Asked
    <3>2. role' = role /\ log' = log /\ changes' = changes /\ req[r].pc = "idle"
      BY <2>7 DEF ResolveCaller
    <3>3. CASE ~Admitted(q)
      <4>1. Finish(r, "refused")
        BY <3>1, <3>3 DEF Finish
      <4> QED
        BY <2>6, <3>2, <4>1 DEF Outcomes
    <3>4. CASE Admitted(q)
      <4>1. req'[r] = q
        BY <3>1, <3>4 DEF TypeOK
      <4>2. q.mine \in EverHeld(q.by) /\ MayManage(q.mine) /\ q.by \in Users
        BY <3>1, <3>4 DEF Lineage, Admitted, MayManage, AtLeast, Request
      <4>3. q.kind = "add" => (q.to = "OWNER" => q.mine = "OWNER")
        BY <3>4 DEF Admitted, OwnerRule
      <4>4. Grounded(r)'
        BY <2>4, <3>1, <3>2, <4>1, <4>2, <4>3 DEF Grounded
      <4> QED
        BY <2>4, <2>5, <3>2, <4>4 DEF Lineage, Outcomes
    <3> QED
      BY <3>3, <3>4
  <2>8. CASE FindMember(r)
    <3>1. role' = role /\ log' = log /\ changes' = changes /\ req[r].pc = "find"
      BY <2>8 DEF FindMember
    <3>2. CASE Finish(r, "refused") \/ Finish(r, "done")
      BY <2>6, <3>1, <3>2 DEF Outcomes
    <3>3. CASE /\ OwnerRule(req[r].mine, role[req[r].target], req[r].to)
               /\ req' = [req EXCEPT ![r].theirs = role[req[r].target],
                            ![r].pc = IF StopsOwning(role[req[r].target], req[r].to)
                                      THEN "count" ELSE "write"]
      <4>1. /\ req'[r].mine = req[r].mine /\ req'[r].by = req[r].by /\ req'[r].to = req[r].to
            /\ req'[r].pc \in {"count", "write"}
        BY <2>3, <3>3 DEF TypeOK, Request
      <4>2. req[r].to = "OWNER" => req[r].mine = "OWNER"
        BY <3>3 DEF OwnerRule
      <4>3. Grounded(r)'
        BY <2>3, <2>4, <3>1, <4>1, <4>2 DEF Grounded
      <4> QED
        BY <2>4, <2>5, <3>1, <4>3 DEF Lineage, Outcomes
    <3> QED
      BY <2>8, <3>2, <3>3 DEF FindMember
  <2>9. CASE CountOwners(r)
    <3>1. role' = role /\ log' = log /\ changes' = changes /\ req[r].pc = "count"
      BY <2>9 DEF CountOwners
    <3>2. CASE Finish(r, "refused")
      BY <2>6, <3>1, <3>2 DEF Outcomes
    <3>3. CASE GoOn(r, "write")
      <4>1. /\ req'[r].mine = req[r].mine /\ req'[r].by = req[r].by /\ req'[r].to = req[r].to
            /\ req'[r].pc = "write"
        BY <2>3, <3>3 DEF TypeOK, Request, GoOn
      <4>2. Grounded(r)'
        BY <2>3, <2>4, <3>1, <4>1 DEF Grounded
      <4> QED
        BY <2>4, <2>5, <3>1, <4>2 DEF Lineage, Outcomes
    <3> QED
      BY <2>9, <3>2, <3>3 DEF CountOwners
  <2>10. CASE Write(r) /\ ~RowFits(req[r])
    BY <2>6, <2>10 DEF Write, Outcomes
  <2>11. CASE Write(r) /\ RowFits(req[r])
    <3> DEFINE q == req[r]
               n == Len(changes)
    <3>0. PICK c \in Change :
            c = [of |-> r, by |-> q.by, target |-> q.target, from |-> role[q.target], to |-> q.to]
      BY <2>3 DEF TypeOK, Change, Request
    <3>1. /\ c \in Change /\ changes' = Append(changes, c) /\ changes \in Seq(Change) /\ n \in Nat
          /\ role' = [role EXCEPT ![q.target] = q.to] /\ log' = log /\ q.pc = "write"
      BY <2>11, <3>0, LenProperties DEF Write, TypeOK
    <3>2. /\ DOMAIN changes = 1..n /\ DOMAIN changes' = 1..(n + 1)
          /\ changes'[n + 1] = c /\ \A i \in DOMAIN changes : changes'[i] = changes[i]
          /\ \A u : \A i \in 1..(n + 1) : HeldBefore(u, i)' = HeldBefore(u, i)
          /\ \A u : EverHeld(u) \subseteq EverHeld(u)'
          /\ c.to \in EverHeld(c.target)'
      BY <3>1, HistoryGrows
    <3>3. /\ req'[r].by = q.by /\ req'[r].target = q.target /\ req'[r].to = q.to /\ req'[r].pc = "record"
      BY <2>3, <2>11 DEF Write, GoOn, TypeOK, Request
    <3>4. n + 1 \in 1..(n + 1) /\ 1..n \subseteq 1..(n + 1)
      BY <3>1
    <3>5. \A u \in Users : role'[u] # "none" => role'[u] \in EverHeld(u)'
      <4> SUFFICES ASSUME NEW u \in Users, role'[u] # "none" PROVE role'[u] \in EverHeld(u)'
        OBVIOUS
      <4>1. CASE u = q.target
        BY <3>0, <3>1, <3>2, <4>1 DEF TypeOK
      <4>2. CASE u # q.target
        BY <3>1, <3>2, <4>2 DEF TypeOK, Lineage
      <4> QED
        BY <4>1, <4>2
    <3>6. Grounded(r)'
      <4>1. n + 1 \in DOMAIN changes'
        BY <3>2, <3>4
      <4> QED
        BY <3>0, <3>2, <3>3, <4>1 DEF Grounded
    <3>7. \A s \in Requests \ {r} : Grounded(s)'
      BY <2>2, <2>3, <3>2, <3>4 DEF Grounded
    <3>8. OwnershipDescends'
      <4> SUFFICES ASSUME NEW i \in 1..(n + 1), NEW u, u = changes'[i].by
                   PROVE  /\ \E a \in HeldBefore(u, i)' : MayManage(a)
                          /\ changes'[i].to = "OWNER" => "OWNER" \in HeldBefore(u, i)'
        BY <3>2 DEF OwnershipDescends, HeldBefore
      <4>1. HeldBefore(u, i)' = HeldBefore(u, i)
        BY <3>2
      <4>2. CASE i = n + 1
        <5>1. u = q.by /\ changes'[i].to = q.to
          BY <3>0, <3>2, <4>2
        <5>2. q.mine \in HeldBefore(q.by, i) /\ MayManage(q.mine) /\ (q.to = "OWNER" => q.mine = "OWNER")
          BY <2>3, <3>1, <4>2 DEF Grounded, EverHeld
        <5> QED
          BY <4>1, <5>1, <5>2
      <4>3. CASE i \in 1..n
        <5>1. u = changes[i].by /\ changes'[i].to = changes[i].to
          BY <3>2, <4>3
        <5>2. /\ \E a \in HeldBefore(u, i) : MayManage(a)
              /\ changes[i].to = "OWNER" => "OWNER" \in HeldBefore(u, i)
          BY <3>2, <4>3, <5>1 DEF Lineage, OwnershipDescends
        <5> QED
          BY <4>1, <5>1, <5>2
      <4> QED
        BY <3>1, <4>2, <4>3
    <3>9. RecordedOnce'
      <4>1. \A i \in DOMAIN log : log[i].of \in Requests /\ req[log[i].of].pc \in Outcomes
        BY LogTyped DEF Lineage, RecordedOnce
      <4>2. \A i \in DOMAIN log : log[i].of # r
        BY <3>1, <4>1 DEF Outcomes
      <4>3. \A i \in DOMAIN log : req'[log[i].of].pc \in Outcomes
        BY <2>2, <4>1, <4>2
      <4>4. LogIsTrue'
        <5>1. \A j \in DOMAIN changes : j \in DOMAIN changes' /\ changes'[j] = changes[j]
          BY <3>2, <3>4
        <5> QED
          BY <3>1, <5>1 DEF Lineage, RecordedOnce, LogIsTrue
      <4> QED
        BY <3>1, <4>3, <4>4 DEF RecordedOnce
    <3> QED
      BY <3>5, <3>6, <3>7, <3>8, <3>9 DEF Lineage
  <2>12. CASE Record(r)
    <3>1. role' = role /\ changes' = changes /\ Finish(r, "done") /\ req[r].pc = "record"
      BY <2>12 DEF Record
    <3>2. CASE log' = log
      BY <2>6, <3>1, <3>2 DEF Outcomes
    <3>3. CASE log' = Append(log, Entry(r))
      <4> DEFINE n == Len(log)
      <4>1. /\ n \in Nat /\ DOMAIN log = 1..n /\ DOMAIN log' = 1..(n + 1) /\ log'[n + 1] = Entry(r)
            /\ \A i \in 1..n : log'[i] = log[i]
        <5>1. log \in Seq(Change) /\ Entry(r) \in Change
          BY <2>3 DEF TypeOK, Entry, Request, Change
        <5> QED
          BY <3>3, <5>1
      <4>2. \A i \in 1..n : log[i].of \in Requests /\ req[log[i].of].pc \in Outcomes /\ log[i].of # r
        BY <3>1, <4>1, LogTyped DEF Lineage, RecordedOnce, Outcomes
      <4>3. req'[r].pc \in Outcomes
        BY <3>1, AtType DEF Finish, TypeOK, Outcomes
      <4>4. Grounded(r)'
        BY <4>3 DEF Grounded, Outcomes
      <4>5. \A i \in 1..(n + 1) : i \in 1..n \/ i = n + 1
        BY <4>1
      <4>6. \A i \in DOMAIN log' : req'[log'[i].of].pc \in Outcomes
        BY <2>2, <4>1, <4>2, <4>3, <4>5 DEF Entry
      <4>7. LogIsTrue'
        <5>1. \A i \in DOMAIN log' : \E j \in DOMAIN changes' :
                /\ changes'[j].of = log'[i].of /\ changes'[j].by = log'[i].by
                /\ changes'[j].target = log'[i].target /\ changes'[j].to = log'[i].to
          BY <2>3, <3>1, <4>1, <4>5 DEF Lineage, RecordedOnce, LogIsTrue, Grounded, Entry
        <5>2. \A i, j \in DOMAIN log' : log'[i].of = log'[j].of => i = j
          BY <4>1, <4>2, <4>5 DEF Lineage, RecordedOnce, LogIsTrue, Entry
        <5> QED
          BY <5>1, <5>2 DEF LogIsTrue
      <4> QED
        BY <2>4, <3>1, <4>4, <4>6, <4>7 DEF Lineage, RecordedOnce
    <3> QED
      BY <2>12, <3>2, <3>3 DEF Record
  <2>13. CASE Die(r)
    BY <2>6, <2>13 DEF Die, Outcomes, Open
  <2> QED
    BY <2>1, <2>7, <2>8, <2>9, <2>10, <2>11, <2>12, <2>13 DEF RequestStep
<1> QED
  BY <1>1, <1>2

LEMMA LineageHolds == MembersSpec => [](TypeOK /\ Lineage)
<1>1. MembersInit => TypeOK /\ Lineage
  BY InitTyped, InitLineage
<1>2. TypeOK /\ Lineage /\ [MembersNext]_memberVars => (TypeOK /\ Lineage)'
  BY StepTyped, StepLineage
<1> QED
  BY <1>1, <1>2, PTL DEF MembersSpec

\* Ownership descends from the founder, although a request goes by a role that
\* was read before others changed it.
THEOREM MembersDescend == MembersSpec => []OwnershipDescends
<1>1. Lineage => OwnershipDescends
  BY DEF Lineage
<1> QED
  BY <1>1, LineageHolds, PTL
-----------------------------------------------------------------------------
(* The audit log *)

\* While requests neither overlap nor fail, the log is the history, but for the
\* entry of a request that has written and is about to record.
LogFollows ==
  /\ \A r \in Requests : req[r].pc = "record" => changes = Append(log, Entry(r))
  /\ (\A r \in Requests : req[r].pc # "record") => changes = log

LogInv == Inv /\ (~overlapped /\ ~faulted => LogFollows)

LEMMA StepLog == LogInv /\ [MembersNext]_memberVars => LogInv'
<1> SUFFICES ASSUME LogInv, [MembersNext]_memberVars, ~overlapped', ~faulted' PROVE LogFollows'
  BY StepInv DEF LogInv
<1>0. TypeOK /\ ~overlapped /\ ~faulted /\ Serial /\ LogFollows
  <2>1. ~faulted
    BY DEF MembersNext, RequestStep, ResolveCaller, FindMember, CountOwners, Write, Record, Die, memberVars, past, LogInv, Inv, TypeOK
  <2> QED
    BY <2>1, OverlapStays DEF LogInv, Inv
<1>1. CASE UNCHANGED memberVars
  BY <1>0, <1>1 DEF memberVars, LogFollows, Entry
<1>2. CASE MembersNext
  <2>1. PICK r \in Requests : RequestStep(r)
    BY <1>2 DEF MembersNext
  <2>2. \A s \in Requests \ {r} : s \notin Open /\ req'[s] = req[s]
    BY <1>0, <2>1, OnlyOne DEF Serial
  <2>3. \A s \in Requests \ {r} : req[s].pc # "record" /\ req'[s].pc # "record"
    BY <2>2 DEF Open, Outcomes
  <2>4. ASSUME log' = log, changes' = changes, req[r].pc # "record", req'[r].pc # "record" PROVE LogFollows'
    BY <1>0, <2>3, <2>4 DEF LogFollows
  <2>5. \A pc \in Outcomes : Finish(r, pc) => req'[r].pc # "record"
    BY <1>0, AtType DEF Finish, TypeOK, Outcomes
  <2>6. CASE ResolveCaller(r)
    <3>1. PICK q : /\ req' = [req EXCEPT ![r] = IF Admitted(q) THEN q ELSE RequestAt("refused")]
                     /\ q.pc # "record"
      <4>1. PICK kind \in Kinds, by \in Users, target \in Users :
              \E to \in IF kind = "remove" THEN {"none"} ELSE ROLES :
                LET q == Asked(kind, by, target, to) IN
                req' = [req EXCEPT ![r] = IF Admitted(q) THEN q ELSE RequestAt("refused")]
        BY <2>6 DEF ResolveCaller
      <4>2. PICK to \in IF kind = "remove" THEN {"none"} ELSE ROLES :
                LET q == Asked(kind, by, target, to) IN
                req' = [req EXCEPT ![r] = IF Admitted(q) THEN q ELSE RequestAt("refused")]
        BY <4>1
      <4>3. Asked(kind, by, target, to).pc # "record"
        BY DEF Asked
      <4> QED
        BY <4>2, <4>3
    <3>2. req'[r].pc # "record"
      BY <1>0, <3>1, AtType DEF TypeOK, Outcomes
    <3> QED
      BY <2>4, <2>6, <3>2 DEF ResolveCaller
  <2>7. CASE FindMember(r)
    <3>1. req'[r].pc # "record"
      BY <1>0, <2>5, <2>7 DEF FindMember, TypeOK, Request, Outcomes
    <3> QED
      BY <2>4, <2>7, <3>1 DEF FindMember
  <2>8. CASE CountOwners(r)
    <3>1. req'[r].pc # "record"
      BY <1>0, <2>5, <2>8 DEF CountOwners, GoOn, TypeOK, Request, Outcomes
    <3> QED
      BY <2>4, <2>8, <3>1 DEF CountOwners
  <2>9. CASE Write(r) /\ ~RowFits(req[r])
    BY <2>4, <2>5, <2>9 DEF Write, Outcomes
  <2>10. CASE Write(r) /\ RowFits(req[r])
    <3> DEFINE q == req[r]
    <3>1. q.theirs = role[q.target] /\ q.pc = "write" /\ log' = log
      BY <1>0, <2>10, FreshWrite DEF Serial, Write
    <3>2. changes = log
      BY <1>0, <2>3, <3>1 DEF LogFollows
    <3>3. /\ req'[r].by = q.by /\ req'[r].target = q.target /\ req'[r].to = q.to /\ req'[r].pc = "record"
          /\ req'[r].theirs = q.theirs
      BY <1>0, <2>10 DEF Write, GoOn, TypeOK, Request
    <3>4. changes' = Append(changes, Entry(r)')
      BY <2>10, <3>1, <3>3 DEF Write, Entry
    <3> QED
      BY <2>3, <3>1, <3>2, <3>3, <3>4 DEF LogFollows
  <2>11. CASE Record(r)
    <3>1. log' = Append(log, Entry(r)) /\ changes' = changes /\ req[r].pc = "record" /\ req'[r].pc # "record"
      BY <2>5, <2>11 DEF Record, Outcomes
    <3> QED
      BY <1>0, <2>3, <3>1 DEF LogFollows
  <2>12. ~Die(r)
    BY DEF Die
  <2> QED
    BY <2>1, <2>6, <2>7, <2>8, <2>9, <2>10, <2>11, <2>12 DEF RequestStep
<1> QED
  BY <1>1, <1>2

\* The audit log can be believed: it claims nothing false, whatever interleaves,
\* dies or is lost, and in quiet times misses nothing.
THEOREM MembersLogged == MembersSpec => []LogHolds
<1>1. MembersInit => LogInv
  <2> SUFFICES ASSUME MembersInit PROVE LogFollows
    BY InitInv DEF LogInv
  <2>1. \A r \in Requests : req[r].pc = "idle"
    BY AtType DEF MembersInit
  <2> QED
    BY <2>1 DEF MembersInit, LogFollows
<1>2. MembersSpec => []LogInv
  BY <1>1, StepLog, PTL DEF MembersSpec
<1>3. LogInv /\ Lineage => LogHolds
  <2> SUFFICES ASSUME LogInv, Lineage, ~overlapped, ~faulted, Open = {} PROVE log = changes
    BY DEF LogHolds, LogIsHistory, Lineage, RecordedOnce
  <2>1. \A r \in Requests : req[r].pc # "record"
    BY DEF Open, Outcomes
  <2> QED
    BY <2>1 DEF LogInv, LogFollows
<1> QED
  BY <1>2, <1>3, LineageHolds, PTL
=============================================================================
