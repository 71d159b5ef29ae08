----------------------------- MODULE AppTierProofs -----------------------------
\* Proofs about the parts of the web application: share links stay closed however many desks serve
\* them, what the playground and the suite page show is what the server told them, API keys are
\* metered and the workspace's month is paid however the requests interleave, the rows and the pages
\* of two workspaces stay apart, and an account keeps its password and no workspace is to spare.
EXTENDS AppTier, FiniteSetTheorems, SequenceTheorems, WellFoundedInduction, TLAPS

\* A page a link was opened to: whose it is, when its desk began, and whether it is counted.
Page_ == [link : Links, target : Ours, began : Instants, counts : BOOLEAN]

\* The desks that still owe link l a count, and the pages it was owed for.
Owed(l) == {d \in Desks : desks[d].pc = "count" /\ desks[d].link = l}
Opened_(l) == {i \in DOMAIN shown : shown[i].link = l /\ shown[i].counts}

\* Types without the bounds that follow from the rest: dates are instants, counts are numbers.
SharesTyped ==
  /\ clock \in Instants
  /\ links \in [Links -> [made : BOOLEAN, target : Ours, expires : Dates, revoked : Dates, views : Nat]]
  /\ desks \in [Desks -> [pc : {"idle", "revoke", "load", "count"}, counts : BOOLEAN, link : Links, target : Ours,
                           began : Instants]]
  /\ shown \in Seq(Page_) /\ Len(shown) <= MaxViews
  /\ closed \in [Links -> Dates] /\ missed \in [Links -> Nat]

\* The link is made, and what was read of it at that time is still so.
Opening(l, target, began) ==
  /\ links[l].made /\ links[l].target = target
  /\ began <= closed[l] /\ ~Expired(links[l].expires, began) /\ began <= clock

DesksTrue ==
  \A d \in Desks :
    /\ desks[d].pc \in {"load", "count"} => Opening(desks[d].link, desks[d].target, desks[d].began)
    /\ desks[d].pc = "revoke" => links[desks[d].link].made
    /\ desks[d].began <= clock

ShownTrue == \A i \in DOMAIN shown : Opening(shown[i].link, shown[i].target, shown[i].began)

\* A date of closing is the first of the dates of revoking, and past.
ClosedTrue ==
  \A l \in Links :
    /\ (closed[l] = Never) = (links[l].revoked = Never)
    /\ closed[l] <= links[l].revoked
    /\ closed[l] # Never => links[l].revoked <= clock /\ links[l].made

\* Every page that counts is counted, missed, or still owed by the desk that opened it.
CountsTrue == \A l \in Links : links[l].views + missed[l] + Cardinality(Owed(l)) = Cardinality(Opened_(l))

\* What is preserved by every step. ClosedTrue alone is not: a desk between its look at a link and
\* the page it opens carries what it saw, and only DesksTrue says that it was so.
SharesInv == SharesTyped /\ DesksTrue /\ ShownTrue /\ ClosedTrue /\ CountsTrue

\* The row of a link nobody has made.
LEMMA NoLinkTyped ==
  /\ NoLink \in [made : BOOLEAN, target : Ours, expires : Dates, revoked : Dates, views : Nat]
  /\ ~NoLink.made /\ NoLink.revoked = Never /\ NoLink.views = 0
  BY SharesAssumption DEF NoLink, Dates

\* A desk with no request.
LEMMA NoDeskTyped ==
  /\ NoDesk \in [pc : {"idle", "revoke", "load", "count"}, counts : BOOLEAN, link : Links, target : Ours, began : Instants]
  /\ NoDesk.pc = "idle" /\ NoDesk.began = 0
  BY SharesAssumption, TimeAssumption DEF NoDesk, Instants

\* At first nothing is made, shown or owed.
LEMMA SharesStart == Init => SharesInv
<1> SUFFICES ASSUME Init PROVE SharesInv
  OBVIOUS
<1> USE SharesAssumption, TimeAssumption, NoLinkTyped, NoDeskTyped
<1> USE DEF Init, SharesInit
<1>1. SharesTyped
  BY DEF SharesTyped, Instants, Dates
<1>2. DesksTrue
  BY DEF DesksTrue
<1>3. ShownTrue
  BY DEF ShownTrue
<1>4. ClosedTrue
  BY DEF ClosedTrue, Never
<1>5. CountsTrue
  <2> SUFFICES ASSUME NEW l \in Links PROVE links[l].views + missed[l] + Cardinality(Owed(l)) = Cardinality(Opened_(l))
    BY DEF CountsTrue
  <2>1. Owed(l) = {} /\ Opened_(l) = {}
    BY DEF Owed, Opened_
  <2> QED
    BY <2>1, FS_EmptySet
<1> QED
  BY <1>1, <1>2, <1>3, <1>4, <1>5 DEF SharesInv

\* The desks and the pages that owe or were owed a count are finitely many.
LEMMA CountsFinite ==
  ASSUME SharesTyped, NEW l \in Links
  PROVE  /\ IsFiniteSet(Owed(l)) /\ IsFiniteSet(Opened_(l))
         /\ Cardinality(Owed(l)) \in Nat /\ Cardinality(Opened_(l)) \in 0 .. MaxViews
<1>1. IsFiniteSet(Owed(l))
  BY SharesAssumption, FS_Subset DEF Owed
<1>2. Len(shown) \in Nat /\ DOMAIN shown = 1 .. Len(shown)
  BY DEF SharesTyped
<1>3. IsFiniteSet(1 .. Len(shown)) /\ Cardinality(1 .. Len(shown)) = Len(shown)
  <2>1. PICK n \in Nat : n = Len(shown)
    BY <1>2
  <2>2. IsFiniteSet(1 .. n) /\ Cardinality(1 .. n) = n
    BY FS_Interval
  <2> QED
    BY <2>1, <2>2
<1>4. IsFiniteSet(Opened_(l)) /\ Cardinality(Opened_(l)) <= Len(shown)
  BY <1>2, <1>3, FS_Subset DEF Opened_
<1>5. Cardinality(Owed(l)) \in Nat /\ Cardinality(Opened_(l)) \in Nat
  BY <1>1, <1>4, FS_CardinalityType
<1> QED
  BY <1>1, <1>2, <1>4, <1>5, SharesAssumption DEF SharesTyped

\* The invariant is as strong as the property the run checks: its bounds follow from the counts.
LEMMA SharesMean == SharesInv => SharesStayClosed
<1> SUFFICES ASSUME SharesInv PROVE SharesStayClosed
  OBVIOUS
<1> USE DEF SharesInv
<1>1. ASSUME NEW l \in Links PROVE links[l].views \in 0 .. MaxViews /\ missed[l] \in 0 .. MaxViews
  <2>1. links[l].views \in Nat /\ missed[l] \in Nat
    BY DEF SharesTyped
  <2>2. links[l].views + missed[l] + Cardinality(Owed(l)) = Cardinality(Opened_(l))
    BY DEF CountsTrue
  <2> QED
    BY <2>1, <2>2, CountsFinite, SharesAssumption
<1>2. clock \in Nat
  BY TimeAssumption DEF SharesTyped, Instants
<1>3. ASSUME NEW d \in Desks PROVE desks[d].began \in 0 .. clock
  BY <1>2, TimeAssumption DEF DesksTrue, SharesTyped, Instants
<1>4. ASSUME NEW i \in DOMAIN shown PROVE shown[i] \in [link : Links, target : Ours, began : 0 .. clock, counts : BOOLEAN]
  <2>1. shown[i] \in Page_ /\ shown[i].began <= clock
    BY ElementOfSeq DEF SharesTyped, ShownTrue, Opening
  <2> QED
    BY <1>2, <2>1, TimeAssumption DEF Page_, Instants
<1>5. shown \in Seq([link : Links, target : Ours, began : 0 .. clock, counts : BOOLEAN])
  <2> DEFINE S == [link : Links, target : Ours, began : 0 .. clock, counts : BOOLEAN]
  <2>1. shown \in [1 .. Len(shown) -> Page_] /\ Len(shown) \in Nat
    BY LenProperties DEF SharesTyped
  <2>2. \A i \in DOMAIN shown : shown[i] \in S
    BY <1>4
  <2> HIDE DEF S
  <2>3. shown \in [1 .. Len(shown) -> S]
    BY <2>1, <2>2
  <2>4. shown \in Seq(S)
    BY <2>1, <2>3, SeqDef
  <2> QED
    BY <2>4 DEF S
<1>6. SharesTypeOK
  BY <1>1, <1>3, <1>5 DEF SharesTypeOK, SharesTyped
<1>7. ASSUME NEW i \in DOMAIN shown
      PROVE LET sheet == shown[i] l == links[sheet.link] IN
            /\ sheet.target = l.target /\ sheet.target \in Ours
            /\ sheet.began <= closed[sheet.link] /\ ~Expired(l.expires, sheet.began)
  BY <1>4 DEF ShownTrue, Opening
<1> QED
  BY <1>6, <1>7 DEF SharesStayClosed, ClosedTrue, CountsTrue, Owed, Opened_

\* Each step of the desks keeps the invariant, and so does the passing of time. A count of a link
\* changes only with the desk that owes it: making and revoking leave all counts as they were, opening
\* adds a page and a desk that owes it, counting pays it into the row or into the missed ones.
LEMMA SharesStep ==
  SharesInv /\ (SharesNext(ShareDays) \/ (UNCHANGED shareVars /\ clock' \in Instants /\ clock <= clock')) => SharesInv'
<1> SUFFICES ASSUME SharesInv, SharesNext(ShareDays) \/ (UNCHANGED shareVars /\ clock' \in Instants /\ clock <= clock')
             PROVE  SharesInv'
  OBVIOUS
<1> USE SharesAssumption, TimeAssumption, NoLinkTyped, NoDeskTyped DEF SharesInv
<1>n. clock \in Nat /\ clock < Never /\ Never \in Nat /\ Never \in Dates /\ clock \in Dates /\ Instants \subseteq Nat /\ Dates \subseteq Nat
  BY DEF SharesTyped, Never, Dates, Instants
<1>t. ASSUME NEW l \in Links
      PROVE  /\ links[l] \in [made : BOOLEAN, target : Ours, expires : Dates, revoked : Dates, views : Nat]
             /\ closed[l] \in Dates /\ missed[l] \in Nat
  BY DEF SharesTyped
<1>d. ASSUME NEW d \in Desks
      PROVE  /\ desks[d] \in [pc : {"idle", "revoke", "load", "count"}, counts : BOOLEAN, link : Links, target : Ours, began : Instants]
  BY DEF SharesTyped
<1>i. ASSUME NEW i \in DOMAIN shown PROVE shown[i] \in Page_
  BY ElementOfSeq, LenProperties DEF SharesTyped
<1>0. ASSUME UNCHANGED shareVars, clock' \in Instants, clock <= clock' PROVE SharesInv'
  <2> USE <1>0 DEF shareVars
  <2>n. clock' \in Nat
    BY <1>n
  <2>1. SharesTyped'
    BY DEF SharesTyped
  <2>2. DesksTrue'
    BY <1>n, <2>n, <1>d DEF DesksTrue, Opening
  <2>5. ShownTrue'
    <3> SUFFICES ASSUME NEW i \in DOMAIN shown PROVE Opening(shown[i].link, shown[i].target, shown[i].began)'
      BY DEF ShownTrue
    <3>1. shown[i].began \in Nat /\ shown[i].began <= clock
      BY <1>n, <1>i DEF ShownTrue, Opening, Page_
    <3>2. shown[i].began <= clock'
      BY <3>1, <2>n, <1>n
    <3> QED
      BY <3>2 DEF ShownTrue, Opening
  <2>3. ClosedTrue'
    <3>1. \A l \in Links : links[l].revoked \in Nat
      BY <1>n, <1>t
    <3> QED
      BY <1>n, <2>n, <3>1 DEF ClosedTrue
  <2>4. CountsTrue'
    BY DEF CountsTrue, Owed, Opened_
  <2> QED
    BY <2>1, <2>2, <2>3, <2>4, <2>5
<1>1. ASSUME NEW l \in Links, NEW role \in Sharers, NEW target, NEW expires \in Dates, Share(l, role, target, expires)
      PROVE SharesInv'
  <2> USE <1>1 DEF Share
  <2>0. /\ links' = [links EXCEPT ![l] = [NoLink EXCEPT !.made = TRUE, !.target = target, !.expires = expires]]
        /\ target \in Ours /\ ~links[l].made
        /\ UNCHANGED <<desks, shown, closed, missed, clock>>
    OBVIOUS
  <2>c. [NoLink EXCEPT !.made = TRUE, !.target = target, !.expires = expires]
          \in [made : BOOLEAN, target : Ours, expires : Dates, revoked : Dates, views : Nat]
    BY <2>0
  <2>1. SharesTyped'
    BY <2>0, <2>c DEF SharesTyped
  <2>2. DesksTrue'
    BY <2>0, <1>d DEF DesksTrue, Opening, SharesTyped
  <2>3. ShownTrue'
    BY <2>0, <1>i DEF ShownTrue, Opening, SharesTyped, Page_
  <2>4. ClosedTrue'
    <3>1. links'[l].revoked = Never /\ links'[l].made /\ closed[l] = Never
      BY <2>0 DEF ClosedTrue, SharesTyped
    <3>2. \A m \in Links \ {l} : links'[m] = links[m]
      BY <2>0 DEF SharesTyped
    <3> QED
      BY <2>0, <3>1, <3>2, <1>n DEF ClosedTrue
  <2>5. Owed(l) = {} /\ Opened_(l) = {}
    BY <2>0, <1>i DEF Owed, Opened_, DesksTrue, ShownTrue, Opening, Page_
  <2>6. missed[l] = 0
    <3>1. links[l].views + missed[l] + 0 = 0
      BY <2>5, FS_EmptySet DEF CountsTrue
    <3>2. links[l].views \in Nat /\ missed[l] \in Nat
      BY <1>t
    <3> QED
      BY <3>1, <3>2
  <2>7. \A m \in Links : Owed(m)' = Owed(m) /\ Opened_(m)' = Opened_(m)
    BY <2>0 DEF Owed, Opened_
  <2>8. CountsTrue'
    <3> SUFFICES ASSUME NEW m \in Links
                 PROVE  links'[m].views + missed'[m] + Cardinality(Owed(m)) = Cardinality(Opened_(m))
      BY <2>7 DEF CountsTrue
    <3>1. CASE m = l
      BY <3>1, <2>0, <2>5, <2>6, FS_EmptySet DEF SharesTyped
    <3>2. CASE m # l
      BY <3>2, <2>0 DEF SharesTyped, CountsTrue
    <3> QED
      BY <3>1, <3>2
  <2> QED
    BY <2>1, <2>2, <2>3, <2>4, <2>8
<1>2. ASSUME NEW l \in Links, NEW role \in Sharers, NEW d \in Desks, AskRevoke(d, l, role)
      PROVE SharesInv'
  <2>0. /\ desks' = [desks EXCEPT ![d] = [NoDesk EXCEPT !.pc = "revoke", !.link = l]]
        /\ desks[d].pc = "idle" /\ links[l].made
        /\ UNCHANGED <<links, shown, closed, missed, clock>>
    BY <1>2 DEF AskRevoke
  <2>1. SharesTyped'
    BY <2>0 DEF SharesTyped
  <2>2. DesksTrue'
    BY <2>0, <1>n, <1>d DEF DesksTrue, Opening, SharesTyped
  <2>3. ShownTrue' /\ ClosedTrue'
    BY <2>0 DEF ShownTrue, Opening, ClosedTrue
  <2>4. \A m \in Links : Owed(m)' = Owed(m) /\ Opened_(m)' = Opened_(m)
    BY <2>0 DEF Owed, Opened_, SharesTyped
  <2>5. CountsTrue'
    BY <2>0, <2>4 DEF CountsTrue
  <2> QED
    BY <2>1, <2>2, <2>3, <2>5
<1>3. ASSUME NEW d \in Desks, Revoke(d)
      PROVE SharesInv'
  <2> DEFINE l == desks[d].link
  <2>l. l \in Links
    BY <1>d
  <2> HIDE DEF l
  <2>0. /\ desks[d].pc = "revoke" /\ l = desks[d].link
        /\ links' = [links EXCEPT ![l].revoked = clock]
        /\ closed' = [closed EXCEPT ![l] = IF closed[l] = Never THEN clock ELSE closed[l]]
        /\ desks' = [desks EXCEPT ![d] = NoDesk]
        /\ UNCHANGED <<shown, missed, clock>>
    BY <1>3 DEF Revoke, Release, l
  <2>1. SharesTyped'
    BY <2>0, <2>l, <1>n DEF SharesTyped
  <2>2. /\ links'[l] = [links[l] EXCEPT !.revoked = clock]
        /\ closed'[l] = IF closed[l] = Never THEN clock ELSE closed[l]
        /\ \A m \in Links \ {l} : links'[m] = links[m] /\ closed'[m] = closed[m]
    BY <2>0, <2>l DEF SharesTyped
  <2>3. ASSUME NEW m \in Links, NEW target, NEW began, Opening(m, target, began) PROVE Opening(m, target, began)'
    <3>1. CASE m = l
      BY <2>0, <2>2, <2>3, <3>1, <1>t DEF Opening
    <3>2. CASE m # l
      BY <2>0, <2>2, <2>3, <3>2 DEF Opening
    <3> QED
      BY <3>1, <3>2
  <2>m. \A m \in Links : links[m].made => links'[m].made
    BY <2>2, <2>l, <1>t
  <2>4. DesksTrue'
    <3> SUFFICES ASSUME NEW e \in Desks
                 PROVE (/\ desks[e].pc \in {"load", "count"} => Opening(desks[e].link, desks[e].target, desks[e].began)
                        /\ desks[e].pc = "revoke" => links[desks[e].link].made
                        /\ desks[e].began <= clock)'
      BY <2>0 DEF DesksTrue
    <3>1. desks'[e] = desks[e] \/ desks'[e] = NoDesk
      BY <2>0 DEF SharesTyped
    <3>2. CASE desks'[e] = desks[e]
      <4>1. desks[e].pc \in {"load", "count"} => Opening(desks[e].link, desks[e].target, desks[e].began)'
        <5>1. \A m \in Links : \A target, began : Opening(m, target, began) => Opening(m, target, began)'
          BY <2>3
        <5>2. desks[e].link \in Links
          BY <1>d
        <5> QED
          BY <5>1, <5>2, <3>2 DEF DesksTrue, Opening
      <4> QED
        BY <4>1, <3>2, <2>0, <2>m, <1>d DEF DesksTrue, Opening
    <3>3. CASE desks'[e] = NoDesk
      BY <3>3, <2>0, <1>n
    <3> QED
      BY <3>1, <3>2, <3>3
  <2>5. ShownTrue'
    BY <2>0, <2>3, <1>i DEF ShownTrue, Page_
  <2>6. ClosedTrue'
    <3> SUFFICES ASSUME NEW m \in Links
                 PROVE  /\ (closed'[m] = Never) = (links'[m].revoked = Never)
                        /\ closed'[m] <= links'[m].revoked
                        /\ closed'[m] # Never => links'[m].revoked <= clock /\ links'[m].made
      BY <2>0 DEF ClosedTrue
    <3>1. CASE m = l
      <4>1. links'[l].revoked = clock /\ links'[l].made
        BY <2>0, <2>2, <2>l, <1>t DEF DesksTrue
      <4>2. CASE closed[l] = Never
        BY <3>1, <4>1, <4>2, <2>2, <1>n
      <4>3. CASE closed[l] # Never
        <5>1. closed[l] \in Nat /\ links[l].revoked \in Nat
          BY <2>l, <1>n, <1>t
        <5>2. closed[l] <= links[l].revoked /\ links[l].revoked <= clock
          BY <4>3, <2>l DEF ClosedTrue
        <5> QED
          BY <3>1, <4>1, <4>3, <2>2, <5>1, <5>2, <1>n
      <4> QED
        BY <4>2, <4>3
    <3>2. CASE m # l
      BY <2>2, <3>2 DEF ClosedTrue
    <3> QED
      BY <3>1, <3>2
  <2>7. \A m \in Links : Owed(m)' = Owed(m) /\ Opened_(m)' = Opened_(m)
    BY <2>0 DEF Owed, Opened_, SharesTyped
  <2>8. \A m \in Links : links'[m].views = links[m].views
    BY <2>2, <2>l, <1>t
  <2>9. CountsTrue'
    BY <2>0, <2>7, <2>8 DEF CountsTrue
  <2> QED
    BY <2>1, <2>4, <2>5, <2>6, <2>9
<1>4. ASSUME NEW d \in Desks, NEW l \in Links, NEW counts \in BOOLEAN, Follow_(d, l, counts)
      PROVE SharesInv'
  <2>0. /\ desks[d].pc = "idle" /\ links[l].made /\ links[l].revoked = Never /\ ~Expired(links[l].expires, clock)
        /\ desks' = [desks EXCEPT ![d] = [pc |-> "load", counts |-> counts, link |-> l, target |-> links[l].target, began |-> clock]]
        /\ UNCHANGED <<links, shown, closed, missed, clock>>
    BY <1>4 DEF Follow_, Opens, State
  <2>1. SharesTyped'
    BY <2>0, <1>t DEF SharesTyped
  <2>2. Opening(l, links[l].target, clock)
    BY <2>0, <1>n DEF Opening, ClosedTrue
  <2>3. DesksTrue'
    BY <2>0, <2>2, <1>n, <1>d DEF DesksTrue, Opening, SharesTyped
  <2>4. ShownTrue' /\ ClosedTrue'
    BY <2>0 DEF ShownTrue, Opening, ClosedTrue
  <2>5. \A m \in Links : Owed(m)' = Owed(m) /\ Opened_(m)' = Opened_(m)
    BY <2>0 DEF Owed, Opened_, SharesTyped
  <2>6. CountsTrue'
    BY <2>0, <2>5 DEF CountsTrue
  <2> QED
    BY <2>1, <2>3, <2>4, <2>6
<1>5. ASSUME NEW d \in Desks, Load(d)
      PROVE SharesInv'
  <2> DEFINE sheet == [k \in {"link", "target", "began", "counts"} |-> desks[d][k]]
             l == desks[d].link
  <2>p. /\ sheet \in Page_ /\ l \in Links /\ sheet.link = l /\ sheet.target = desks[d].target
        /\ sheet.began = desks[d].began /\ sheet.counts = desks[d].counts
    BY <1>d DEF Page_
  <2>0. /\ desks[d].pc = "load" /\ Len(shown) < MaxViews
        /\ shown' = Append(shown, sheet)
        /\ UNCHANGED <<links, closed, missed, clock>>
        /\ IF desks[d].counts THEN desks' = [desks EXCEPT ![d].pc = "count"] ELSE desks' = [desks EXCEPT ![d] = NoDesk]
    BY <1>5 DEF Load, Onward, Release
  <2>o. Opening(l, desks[d].target, desks[d].began)
    BY <2>0 DEF DesksTrue
  <2> PICK n \in Nat : n = Len(shown)
    BY LenProperties DEF SharesTyped
  <2> PICK p \in Page_ : p = sheet
    BY <2>p
  <2> PICK k \in Links : k = l
    BY <2>p
  <2>q. p.link = k /\ p.target = desks[d].target /\ p.began = desks[d].began /\ p.counts = desks[d].counts /\ k = desks[d].link
    BY <2>p
  <2> HIDE DEF sheet, l
  <2>a. /\ shown' \in Seq(Page_) /\ Len(shown') = n + 1 /\ DOMAIN shown = 1 .. n /\ DOMAIN shown' = 1 .. n + 1
        /\ shown'[n + 1] = p /\ \A i \in 1 .. n : shown'[i] = shown[i]
    BY <2>0, AppendProperties, LenProperties DEF SharesTyped
  <2>e. desks' = [desks EXCEPT ![d] = desks'[d]] /\ \A e \in Desks \ {d} : desks'[e] = desks[e]
    BY <2>0 DEF SharesTyped
  <2>f. IF desks[d].counts THEN desks'[d] = [desks[d] EXCEPT !.pc = "count"] ELSE desks'[d] = NoDesk
    BY <2>0 DEF SharesTyped
  <2>1. SharesTyped'
    <3>1. n + 1 <= MaxViews
      BY <2>0
    <3>2. desks' \in [Desks -> [pc : {"idle", "revoke", "load", "count"}, counts : BOOLEAN, link : Links, target : Ours,
                           began : Instants]]
      <4>1. desks'[d] \in [pc : {"idle", "revoke", "load", "count"}, counts : BOOLEAN, link : Links, target : Ours,
                            began : Instants]
        BY <2>f, <1>d
      <4>2. \A e \in Desks : desks'[e] \in [pc : {"idle", "revoke", "load", "count"}, counts : BOOLEAN, link : Links,
                                            target : Ours, began : Instants]
        BY <4>1, <2>e, <1>d
      <4>3. desks' = [e \in Desks |-> desks'[e]]
        BY <2>0 DEF SharesTyped
      <4> QED
        BY <4>2, <4>3
    <3> QED
      BY <2>0, <2>a, <3>1, <3>2 DEF SharesTyped
  <2>2. DesksTrue'
    <3> SUFFICES ASSUME NEW e \in Desks
                 PROVE  /\ desks'[e].pc \in {"load", "count"} => Opening(desks'[e].link, desks'[e].target, desks'[e].began)
                        /\ desks'[e].pc = "revoke" => links[desks'[e].link].made
                        /\ desks'[e].began <= clock
      BY <2>0 DEF DesksTrue, Opening
    <3>1. CASE e = d
      BY <3>1, <2>0, <2>e, <2>f, <2>o, <2>q, <1>n, <1>d DEF DesksTrue, l
    <3>2. CASE e # d
      BY <3>2, <2>e DEF DesksTrue
    <3> QED
      BY <3>1, <3>2
  <2>3. ShownTrue'
    <3> SUFFICES ASSUME NEW i \in 1 .. n + 1 PROVE Opening(shown'[i].link, shown'[i].target, shown'[i].began)
      BY <2>a, <2>0 DEF ShownTrue, Opening
    <3>1. CASE i = n + 1
      BY <3>1, <2>a, <2>q, <2>o
    <3>2. CASE i \in 1 .. n
      BY <3>2, <2>a DEF ShownTrue
    <3> QED
      BY <3>1, <3>2
  <2>4. ClosedTrue'
    BY <2>0 DEF ClosedTrue
  <2>5. CountsTrue'
    <3> SUFFICES ASSUME NEW m \in Links
                 PROVE  links[m].views + missed[m] + Cardinality(Owed(m)') = Cardinality(Opened_(m)')
      BY <2>0 DEF CountsTrue
    <3>1. CASE m = k /\ desks[d].counts
      <4>1. Owed(m)' = Owed(m) \cup {d} /\ d \notin Owed(m)
        BY <3>1, <2>0, <2>e, <2>f, <2>q, <1>d DEF Owed
      <4>2. Opened_(m)' = Opened_(m) \cup {n + 1} /\ n + 1 \notin Opened_(m)
        <5>1. Opened_(m) = {i \in 1 .. n : shown[i].link = m /\ shown[i].counts}
          BY <2>a DEF Opened_
        <5>2. Opened_(m)' = {i \in 1 .. n + 1 : shown'[i].link = m /\ shown'[i].counts}
          BY <2>a DEF Opened_
        <5>3. ASSUME NEW i \in 1 .. n + 1
              PROVE  shown'[i].link = m /\ shown'[i].counts <=> i = n + 1 \/ i \in Opened_(m)
          <6>1. CASE i = n + 1
            BY <6>1, <3>1, <2>a, <2>q
          <6>2. CASE i \in 1 .. n
            <7>1. shown'[i] = shown[i] /\ i # n + 1
              BY <6>2, <2>a
            <7>2. i \in Opened_(m) <=> shown[i].link = m /\ shown[i].counts
              BY <6>2, <5>1
            <7> QED
              BY <7>1, <7>2
          <6> QED
            BY <6>1, <6>2
        <5> QED
          BY <5>1, <5>2, <5>3
      <4>3. Cardinality(Owed(m)') = Cardinality(Owed(m)) + 1
        <5>1. IsFiniteSet(Owed(m))
          BY CountsFinite
        <5>2. Cardinality(Owed(m) \cup {d}) = Cardinality(Owed(m)) + 1
          BY <4>1, <5>1, FS_AddElement
        <5> QED
          BY <4>1, <5>2
      <4>4. Cardinality(Opened_(m)') = Cardinality(Opened_(m)) + 1
        <5>1. IsFiniteSet(Opened_(m))
          BY CountsFinite
        <5>2. Cardinality(Opened_(m) \cup {n + 1}) = Cardinality(Opened_(m)) + 1
          BY <4>2, <5>1, FS_AddElement
        <5> QED
          BY <4>2, <5>2
      <4>5. links[m].views \in Nat /\ missed[m] \in Nat /\ Cardinality(Owed(m)) \in Nat /\ Cardinality(Opened_(m)) \in Nat
        BY <1>t, CountsFinite
      <4>6. links[m].views + missed[m] + Cardinality(Owed(m)) = Cardinality(Opened_(m))
        BY DEF CountsTrue
      <4> QED
        BY <4>3, <4>4, <4>5, <4>6
    <3>2. CASE ~(m = k /\ desks[d].counts)
      <4>1. Owed(m)' = Owed(m)
        BY <3>2, <2>0, <2>e, <2>f, <2>q, <1>d DEF Owed
      <4>2. Opened_(m)' = Opened_(m)
        BY <3>2, <2>a, <2>q DEF Opened_
      <4> QED
        BY <4>1, <4>2 DEF CountsTrue
    <3> QED
      BY <3>1, <3>2
  <2> QED
    BY <2>1, <2>2, <2>3, <2>4, <2>5
<1>6. ASSUME NEW d \in Desks, NEW works \in BOOLEAN, CountView(d, works)
      PROVE SharesInv'
  <2> PICK l \in Links : l = desks[d].link
    BY <1>d
  <2>0. /\ desks[d].pc = "count"
        /\ IF works THEN links' = [links EXCEPT ![l].views = links[l].views + 1] /\ missed' = missed
                    ELSE missed' = [missed EXCEPT ![l] = missed[l] + 1] /\ links' = links
        /\ desks' = [desks EXCEPT ![d] = NoDesk]
        /\ UNCHANGED <<shown, closed, clock>>
    BY <1>6 DEF CountView, Release, Tally
  <2>1. SharesTyped'
    <3>1. [links[l] EXCEPT !.views = links[l].views + 1]
            \in [made : BOOLEAN, target : Ours, expires : Dates, revoked : Dates, views : Nat]
      BY <1>t
    <3>2. missed[l] + 1 \in Nat
      BY <1>t
    <3>3. links' \in [Links -> [made : BOOLEAN, target : Ours, expires : Dates, revoked : Dates, views : Nat]]
      <4>1. CASE works
        BY <2>0, <3>1, <4>1 DEF SharesTyped
      <4>2. CASE ~works
        BY <2>0, <4>2 DEF SharesTyped
      <4> QED
        BY <4>1, <4>2
    <3>4. missed' \in [Links -> Nat]
      BY <2>0, <3>2 DEF SharesTyped
    <3> QED
      BY <2>0, <3>3, <3>4 DEF SharesTyped
  <2>2. \A m \in Links : /\ links'[m].made = links[m].made /\ links'[m].target = links[m].target
                         /\ links'[m].expires = links[m].expires /\ links'[m].revoked = links[m].revoked
                         /\ links'[m].views + missed'[m] = links[m].views + missed[m] + (IF m = l THEN 1 ELSE 0)
    <3> SUFFICES ASSUME NEW m \in Links
                 PROVE  /\ links'[m].made = links[m].made /\ links'[m].target = links[m].target
                        /\ links'[m].expires = links[m].expires /\ links'[m].revoked = links[m].revoked
                        /\ links'[m].views + missed'[m] = links[m].views + missed[m] + (IF m = l THEN 1 ELSE 0)
      OBVIOUS
    <3>1. CASE works
      <4>1. m = l => links'[m] = [links[m] EXCEPT !.views = links[m].views + 1]
        BY <2>0, <3>1 DEF SharesTyped
      <4>2. m # l => links'[m] = links[m]
        BY <2>0, <3>1 DEF SharesTyped
      <4> QED
        BY <2>0, <3>1, <4>1, <4>2, <1>t
    <3>2. CASE ~works
      <4>1. missed'[m] = missed[m] + (IF m = l THEN 1 ELSE 0)
        BY <2>0, <3>2, <1>t DEF SharesTyped
      <4> QED
        BY <2>0, <3>2, <4>1, <1>t
    <3> QED
      BY <3>1, <3>2
  <2>3. DesksTrue'
    <3>1. \A e \in Desks : desks'[e] = desks[e] \/ desks'[e] = NoDesk
      BY <2>0 DEF SharesTyped
    <3> QED
      BY <2>0, <2>2, <3>1, <1>n, <1>d DEF DesksTrue, Opening
  <2>4. ShownTrue'
    BY <2>0, <2>2, <1>i DEF ShownTrue, Opening, Page_
  <2>5. ClosedTrue'
    BY <2>0, <2>2 DEF ClosedTrue
  <2>6. CountsTrue'
    <3> SUFFICES ASSUME NEW m \in Links
                 PROVE  links'[m].views + missed'[m] + Cardinality(Owed(m)') = Cardinality(Opened_(m)')
      BY DEF CountsTrue
    <3>1. Opened_(m)' = Opened_(m)
      BY <2>0 DEF Opened_
    <3>2. Owed(m)' = Owed(m) \ {d} /\ (d \in Owed(m) <=> m = l)
      BY <2>0 DEF Owed, SharesTyped
    <3>3. Cardinality(Owed(m)') = IF m = l THEN Cardinality(Owed(m)) - 1 ELSE Cardinality(Owed(m))
      <4>1. IsFiniteSet(Owed(m))
        BY CountsFinite
      <4>2. CASE m = l
        <5>1. Cardinality(Owed(m) \ {d}) = Cardinality(Owed(m)) - 1
          BY <3>2, <4>1, <4>2, FS_RemoveElement
        <5> QED
          BY <3>2, <4>2, <5>1
      <4>3. CASE m # l
        <5>1. Owed(m)' = Owed(m)
          BY <3>2, <4>3
        <5> QED
          BY <4>3, <5>1
      <4> QED
        BY <4>2, <4>3
    <3>5. links[m].views \in Nat /\ missed[m] \in Nat /\ Cardinality(Owed(m)) \in Nat /\ Cardinality(Opened_(m)) \in Nat
      BY <1>t, CountsFinite
    <3>6. links[m].views + missed[m] + Cardinality(Owed(m)) = Cardinality(Opened_(m))
      BY DEF CountsTrue
    <3>7. links'[m].views + missed'[m] = links[m].views + missed[m] + (IF m = l THEN 1 ELSE 0)
      BY <2>2
    <3> QED
      BY <3>1, <3>3, <3>5, <3>6, <3>7
  <2> QED
    BY <2>1, <2>3, <2>4, <2>5, <2>6
<1>7. CASE Tick /\ UNCHANGED shareVars
  <2>1. clock' \in Instants /\ clock <= clock'
    BY <1>7 DEF Tick, SharesTyped, Instants
  <2> QED
    BY <1>7, <2>1, <1>0
<1> QED
  BY <1>0, <1>1, <1>2, <1>3, <1>4, <1>5, <1>6, <1>7 DEF SharesNext, View, Unfurl

\* Only time moves the clock of the API, and forwards.
LEMMA ApiClock ==
  ASSUME clock \in Instants, NEW site, ApiNext(site)
  PROVE  clock' \in Instants /\ clock <= clock'
<1> USE TimeAssumption DEF Instants
<1>1. CASE Tick
  BY <1>1 DEF Tick
<1>2. ASSUME NEW c \in Callers, NEW routes, ApiStep(c, routes) PROVE clock' = clock
  BY <1>2 DEF ApiStep, Arrive, Lookup, Consume, Page, More, Upsert, Reset, Charge, Stream, Fail, Insert, Prepare,
              MakeRun, Audit
<1>3. CASE clock' = clock
  BY <1>3
<1> QED
  BY <1>1, <1>2, <1>3 DEF ApiNext, CreateKey, RevokeKey

\* However many desks interleave, no page begun after its link was first revoked, or at or after its
\* expiry, is ever shown, a page shows its link's own target, no revocation is undone, and every page
\* that counts is in the row of its link, missed or owed (src/web/lib/actions/shares.ts, lib/repositories/shares.ts).
THEOREM SharesClosed == Spec => []SharesStayClosed
<1>1. SharesInv /\ [Next]_appVars => SharesInv'
  <2> SUFFICES ASSUME SharesInv, [Next]_appVars PROVE SharesInv'
    OBVIOUS
  <2>1. CASE SharesNext(ShareDays)
    BY <2>1, SharesStep
  <2>2. CASE UNCHANGED <<shareVars, clock>>
    BY <2>2, SharesStep, TimeAssumption DEF SharesInv, SharesTyped, Instants
  <2>3. CASE ApiNext(part.site) /\ UNCHANGED shareVars
    BY <2>3, ApiClock, SharesStep DEF SharesInv, SharesTyped
  <2> QED
    BY <2>1, <2>2, <2>3 DEF Next, appVars
<1> QED
  BY <1>1, SharesStart, SharesMean, PTL DEF Spec

-----------------------------------------------------------------------------
\* What is read is a run of this program, shown as far as it has come; an aborted one shows nothing.
WireTrue ==
  /\ running => wire.of \notin Blank
  /\ wire.live => running /\ wire.of = source /\ trace.end = (IF wire.said = "nothing" THEN "none" ELSE wire.said)
  /\ running /\ ~wire.live => trace.end = "none"

\* What is preserved: the run that is read says on the screen what it has said so far.
PlayInv == ScreenAgrees /\ WireTrue

\* A link opens to a clipped program and a method of the menu, with or without a program in it.
LEMMA OpenedTyped ==
  ASSUME NEW link \in Link
  PROVE  LET o == Opened(link) IN
         o.source \in Docs /\ o.source \in Range(Clipped) /\ Clipped[o.source] = o.source /\ o.method \in Searches
<1> USE ClippedAssumption, MenuAssumption DEF Opened, Link, Range
<1>1. CASE link.source = NoText
  BY <1>1
<1>2. CASE link.source # NoText
  BY <1>2
<1> QED
  BY <1>1, <1>2

\* Aborting changes neither the program of a request nor its type.
LEMMA AbortedTyped ==
  ASSUME NEW D, NEW r \in [of : D, live : BOOLEAN]
  PROVE  Aborted(r) \in [of : D, live : BOOLEAN]
  BY DEF Aborted

\* What is aborted twice is aborted once.
LEMMA AbortedTwice ==
  ASSUME NEW D, NEW E, NEW w \in [of : D, live : BOOLEAN, said : E], w.live = FALSE
  PROVE  Aborted(w) = w
  BY DEF Aborted

\* The page is opened at an address, and waits for nothing yet.
LEMMA PlayStart == Init /\ part.kind = "play" => PlayInv
<1> SUFFICES ASSUME Init, part.kind = "play" PROVE PlayInv
  OBVIOUS
<1> USE ClippedAssumption, MenuAssumption
<1>1. PlayInit(Link, {"analysis", "address"})
  BY DEF Init
<1>2. address \in Link
  BY <1>1 DEF PlayInit
<1>3. PlayTypeOK
  <2>1. source \in Docs /\ source \in Range(Clipped) /\ Clipped[source] = source /\ doc = source /\ method \in Searches
    BY <1>1, <1>2, OpenedTyped DEF PlayInit
  <2>2. NoText \in Docs
    OBVIOUS
  <2>3. analysis \in [status : {"idle", "loading", "ok", "invalid", "unavailable"}, of : Docs, last : Docs]
    BY <1>1, <2>2 DEF PlayInit, Idle_
  <2>4. trace \in [of : Docs, end : {"none", "going", "converged", "failed"}]
    BY <1>1, <2>2 DEF PlayInit, NoTrace
  <2>5. wire \in [of : Docs, live : BOOLEAN, said : {"nothing", "going", "converged", "failed"}]
    BY <1>1, <2>2 DEF PlayInit, NoWire
  <2>6. asked = {} /\ due = {"analysis", "address"} /\ running = FALSE /\ problem = FALSE /\ tab = "graph" /\ changes = 0
    BY <1>1 DEF PlayInit
  <2> QED
    <3>1. asked \subseteq [of : Docs \ Blank, live : BOOLEAN] /\ due \subseteq {"analysis", "address"}
      BY <2>6
    <3>2. running \in BOOLEAN /\ problem \in BOOLEAN
      BY <2>6
    <3>3. tab \in {"graph", "trace", "diff"} /\ changes \in 0 .. MaxChanges
      BY <2>6
    <3> QED
      BY <1>2, <2>1, <2>3, <2>4, <2>5, <3>1, <3>2, <3>3 DEF PlayTypeOK
<1> QED
  BY <1>1, <1>3 DEF PlayInit, PlayInv, ScreenAgrees, WireTrue, NoTrace, NoWire

\* Every step of the page keeps its types.
LEMMA PlayTyped == PlayTypeOK /\ PlayNext => PlayTypeOK'
<1> SUFFICES ASSUME PlayTypeOK, PlayNext PROVE PlayTypeOK'
  OBVIOUS
<1> USE ClippedAssumption, MenuAssumption DEF PlayTypeOK, Range
<1>c. Change => changes' \in 0 .. MaxChanges
  BY DEF Change
<1>w. Aborted(wire) \in [of : Docs, live : BOOLEAN, said : {"nothing", "going", "converged", "failed"}]
  BY DEF Aborted
<1>n. NoText \in Docs /\ source \in Docs
  OBVIOUS
<1>s. ASSUME NEW text \in Docs, NEW kept \in Docs, Clipped[kept] = text, Set(text, kept) PROVE PlayTypeOK'
  <2>1. asked' \subseteq [of : Docs \ Blank, live : BOOLEAN] /\ due' \subseteq {"analysis", "address"}
    <3>1. \A r \in asked : Aborted(r) \in [of : Docs \ Blank, live : BOOLEAN]
      BY AbortedTyped
    <3>2. asked' = asked \/ asked' = {Aborted(r) : r \in asked}
      BY <1>s DEF Set
    <3> QED
      BY <1>s, <3>1, <3>2 DEF Set
  <2>2. source' \in Range(Clipped) /\ doc' \in Docs /\ Clipped[doc'] = source'
    BY <1>s DEF Set
  <2>3. trace' \in [of : Docs, end : {"none", "going", "converged", "failed"}]
    BY <1>s, <1>n DEF Set, NoTrace
  <2> QED
    BY <1>s, <1>c, <1>w, <2>1, <2>2, <2>3 DEF Set
<1>1. ASSUME NEW d \in Docs, Type(d) PROVE PlayTypeOK'
  BY <1>1, <1>s DEF Type
<1>2. ASSUME NEW d \in Samples, Sample(d) PROVE PlayTypeOK'
  BY <1>2, <1>s DEF Sample
<1>3. ASSUME NEW m \in Searches, Choose_(m) PROVE PlayTypeOK'
  BY <1>3, <1>c DEF Choose_
<1>4. CASE Analyze
  <2>1. asked' \subseteq [of : Docs \ Blank, live : BOOLEAN]
    <3>1. source \notin Blank => [of |-> source, live |-> TRUE] \in [of : Docs \ Blank, live : BOOLEAN]
      BY <1>n
    <3>2. asked' = asked \/ (source \notin Blank /\ asked' = asked \cup {[of |-> source, live |-> TRUE]})
      BY <1>4 DEF Analyze
    <3> QED
      <4> DEFINE T == [of : Docs \ Blank, live : BOOLEAN]
                 new == [of |-> source, live |-> TRUE]
      <4>1. asked \subseteq T /\ (source \notin Blank => new \in T) /\ (asked' = asked \/ (source \notin Blank /\ asked' = asked \cup {new}))
        BY <3>1, <3>2
      <4> HIDE DEF T, new
      <4>2. asked' \subseteq T
        BY <4>1
      <4> QED
        BY <4>2 DEF T
  <2>2. analysis' \in [status : {"idle", "loading", "ok", "invalid", "unavailable"}, of : Docs, last : Docs]
    BY <1>4, <1>n DEF Analyze, Idle_
  <2> QED
    BY <1>4, <2>1, <2>2 DEF Analyze
<1>5. ASSUME NEW r \in asked, AnswerOf(r) PROVE PlayTypeOK'
  BY <1>5 DEF AnswerOf
<1>6. CASE Run
  BY <1>6, <1>c DEF Run, NoTrace
<1>7. ASSUME NEW e \in {"going", "converged", "failed"}, Brings(e) PROVE PlayTypeOK'
  BY <1>7 DEF Brings
<1>8. ASSUME NEW cut \in BOOLEAN, RunOver(cut) PROVE PlayTypeOK'
  BY <1>8 DEF RunOver, NoWire
<1>9. ASSUME NEW t \in {"graph", "trace", "diff"}, Pick(t) PROVE PlayTypeOK'
  BY <1>9 DEF Pick
<1>10. CASE Address \/ CopyLink
  BY <1>10 DEF Address, CopyLink, Encoded, Link
<1>11. CASE Reload
  BY <1>11, <1>c, OpenedTyped DEF Reload, Idle_, NoTrace, NoWire
<1> QED
  BY <1>1, <1>2, <1>3, <1>4, <1>5, <1>6, <1>7, <1>8, <1>9, <1>10, <1>11 DEF PlayNext, Answered, Streamed

\* Every step of the page keeps what is on the screen true.
LEMMA PlayStep == PlayInv /\ PlayNext => PlayInv'
<1> SUFFICES ASSUME PlayInv, PlayNext PROVE PlayInv'
  OBVIOUS
<1> USE ClippedAssumption DEF PlayInv, ScreenAgrees, WireTrue
<1>t. PlayTypeOK'
  BY PlayTyped
<1>n. NoText \in Docs /\ source \in Docs /\ NoText \in Blank
  BY DEF PlayTypeOK, Range
<1>s. ASSUME NEW text \in Docs, NEW kept \in Docs, Clipped[kept] = text, Set(text, kept) PROVE PlayInv'
  <2> USE <1>s DEF Set
  <2>1. trace' = NoTrace /\ tab' = "graph" /\ ~wire'.live
    BY DEF Aborted, PlayTypeOK
  <2>2. running' => wire'.of \notin Blank
    BY DEF Aborted, PlayTypeOK
  <2>3. running' <=> wire' # NoWire
    <3>1. CASE running
      <4>1. wire'.of # NoText
        BY <3>1, <2>2, <1>n
      <4> QED
        BY <3>1, <4>1 DEF NoWire
    <3>2. CASE ~running
      <4>1. wire = NoWire /\ wire.live = FALSE
        BY <3>2 DEF NoWire
      <4>2. Aborted(wire) = wire
        BY <4>1, AbortedTwice DEF PlayTypeOK
      <4> QED
        BY <3>2, <4>1, <4>2
    <3> QED
      BY <3>1, <3>2 DEF PlayTypeOK
  <2>4. \A r \in asked' : r.live => r.of = source'
    BY DEF Aborted, PlayTypeOK
  <2>5. CASE text = source
    BY <1>t, <2>1, <2>2, <2>3, <2>4, <2>5 DEF NoTrace
  <2>6. CASE text # source
    BY <1>t, <2>1, <2>2, <2>3, <2>4, <2>6 DEF NoTrace
  <2> QED
    BY <2>5, <2>6
<1>1. ASSUME NEW d \in Docs, Type(d) PROVE PlayInv'
  BY <1>1, <1>s DEF Type
<1>2. ASSUME NEW d \in Samples, Sample(d) PROVE PlayInv'
  BY <1>2, <1>s DEF Sample, PlayTypeOK
<1>3. ASSUME NEW m \in Searches, Choose_(m) PROVE PlayInv'
  BY <1>3, <1>t DEF Choose_
<1>4. CASE Analyze
  BY <1>4, <1>t DEF Analyze, Idle_
<1>5. ASSUME NEW r \in asked, AnswerOf(r) PROVE PlayInv'
  <2> USE <1>5 DEF AnswerOf
  <2>1. CASE ~r.live
    BY <1>t, <2>1 DEF Counts, PlayTypeOK
  <2>2. CASE r.live
    <3>1. r.of = source /\ source \notin Blank
      BY <2>2 DEF PlayTypeOK
    <3>2. analysis'.of = source /\ analysis'.status \in {"unavailable", "ok", "invalid"}
      BY <2>2, <3>1 DEF Counts
    <3> QED
      BY <1>t, <3>1, <3>2
  <2> QED
    BY <2>1, <2>2 DEF PlayTypeOK
<1>6. CASE Run
  BY <1>6, <1>t, <1>n DEF Run, MayRun, NoTrace, NoWire
<1>7. ASSUME NEW e \in {"going", "converged", "failed"}, Brings(e) PROVE PlayInv'
  BY <1>7, <1>t, <1>n DEF Brings, Next_, NoWire, PlayTypeOK
<1>8. ASSUME NEW cut \in BOOLEAN, RunOver(cut) PROVE PlayInv'
  BY <1>8, <1>t DEF RunOver, NoWire, PlayTypeOK
<1>9. ASSUME NEW t \in {"graph", "trace", "diff"}, Pick(t) PROVE PlayInv'
  BY <1>9, <1>t DEF Pick
<1>10. CASE Address \/ CopyLink
  <2>1. source # NoText => Opened(Encoded) = [source |-> source, method |-> method]
    BY <1>n DEF Opened, Encoded, PlayTypeOK, Range
  <2> QED
    <3>1. address' = Encoded
      BY <1>10 DEF Address, CopyLink
    <3>2. UNCHANGED <<doc, source, method, analysis, asked, trace, wire, running, problem, tab, changes>>
      BY <1>10 DEF Address, CopyLink
    <3>3. "analysis" \in due' <=> "analysis" \in due
      BY <1>10 DEF Address, CopyLink
    <3> QED
      BY <1>t, <2>1, <3>1, <3>2, <3>3
<1>11. CASE Reload
  BY <1>11, <1>t DEF Reload, NoTrace, NoWire
<1> QED
  BY <1>1, <1>2, <1>3, <1>4, <1>5, <1>6, <1>7, <1>8, <1>9, <1>10, <1>11 DEF PlayNext, Answered, Streamed

-----------------------------------------------------------------------------
\* What is left of a suite, what a page of it may say, an event of the stream, and the last key the
\* route sent: what the sets of the type invariant come to, with the suite's size as their bound.
Rests == {r \in [queued : 0 .. SuiteTotal, running : 0 .. SuiteTotal] : r.queued + r.running <= SuiteTotal}
Snaps == [status : {"live", "over"}, completed : 0 .. SuiteTotal, running : 0 .. SuiteTotal, torn : BOOLEAN]
Event_ == [event : {"progress", "done"}, snap : Snaps]
Lasts == {<<>>} \cup {<<snap>> : snap \in Snaps}

\* The runs of the suite that are neither queued nor running.
Done(r) == SuiteTotal - r.queued - r.running

\* Types of the suite page, its route and the events between them.
FollowTyped ==
  /\ rest \in Rests /\ suite \in {"live", "over"} /\ late \in BOOLEAN
  /\ stream \in [at : {"off", "look", "status", "rows", "ended"}, suite : {"live", "over"}, rest : Rests, last : Lasts]
  /\ pipe \in Seq(Event_) /\ Len(pipe) <= MaxUnread + 1
  /\ progress \in Snaps /\ initial \in [live : BOOLEAN, running : 0 .. SuiteTotal]
  /\ open \in BOOLEAN /\ renders \in BOOLEAN /\ timer \in BOOLEAN
  /\ render \in [at : {"none", "suite", "rows"}, suite : {"live", "over"}, running : 0 .. SuiteTotal]
  /\ troubles \in 0 .. MaxTroubles

\* What a page is told is no more than is done, and an end is the suite's.
SnapTrue(snap) ==
  /\ snap.completed <= Done(rest)
  /\ ~Live(snap) => suite # "live" /\ (snap.completed = SuiteTotal \/ snap.torn \/ late)

ToldTrue ==
  /\ SnapTrue(progress)
  /\ \A i \in DOMAIN pipe : SnapTrue(pipe[i].snap) /\ (pipe[i].event = "done" => ~Live(pipe[i].snap))

\* What is on its way never says less than what came before it, and than the page shows.
Rising ==
  \A j \in DOMAIN pipe :
    /\ progress.completed <= pipe[j].snap.completed
    /\ \A i \in DOMAIN pipe : i <= j => pipe[i].snap.completed <= pipe[j].snap.completed

\* Between its two queries the route holds a table that has been, and is not behind what it has told.
ReadTrue ==
  stream.at \in {"status", "rows"} =>
    /\ Len(pipe) < MaxUnread
    /\ Done(stream.rest) <= Done(rest) /\ (stream.suite # "live" => suite # "live")
    /\ progress.completed <= Done(stream.rest)
    /\ \A i \in DOMAIN pipe : pipe[i].snap.completed <= Done(stream.rest)

\* A suite that is over has nothing queued, but what was sent back late.
OverTrue == suite # "live" => rest.queued = 0 \/ late

\* Whoever does not listen has nothing on its way.
OpenTrue ==
  ~open => /\ pipe = <<>> /\ stream.at = "off"
           /\ Live(progress) => ~initial.live /\ initial.running = 0

\* What is preserved. That the page never falls back needs ReadTrue: the route reads the suite and
\* its runs in two queries, and sends what it read of the first with what it finds at the second.
FollowInv == FollowTyped /\ ToldTrue /\ Rising /\ ReadTrue /\ OverTrue /\ OpenTrue

\* No more is done than the suite has.
LEMMA DoneType == \A r \in Rests : r.queued \in Nat /\ r.running \in Nat /\ Done(r) \in 0 .. SuiteTotal
  BY FollowAssumption DEF Rests, Done

\* A snapshot says what it is made of.
LEMMA SnapTyped ==
  ASSUME NEW s \in {"live", "over"}, NEW r \in Rests, NEW torn \in BOOLEAN
  PROVE  /\ Snap(s, r, torn) \in Snaps /\ Key(Snap(s, r, torn)) \in Snaps
         /\ Snap(s, r, torn).status = s /\ Snap(s, r, torn).completed = Done(r)
         /\ Snap(s, r, torn).running = r.running /\ Snap(s, r, torn).torn = torn
  BY DoneType, FollowAssumption DEF Snap, Key, Snaps, Done, Rests

\* A stream that is off, or has not sent anything, is typed.
LEMMA StreamTyped ==
  /\ AtFirst \in Rests
  /\ NoStream \in [at : {"off", "look", "status", "rows", "ended"}, suite : {"live", "over"}, rest : Rests, last : Lasts]
  /\ Fresh \in [at : {"off", "look", "status", "rows", "ended"}, suite : {"live", "over"}, rest : Rests, last : Lasts]
  /\ NoStream.at = "off" /\ Fresh.at = "look"
<1>1. AtFirst \in Rests
  BY FollowAssumption DEF AtFirst, Rests
<1>2. <<>> \in Lasts
  BY DEF Lasts
<1> QED
  BY <1>1, <1>2 DEF NoStream, Fresh

\* The page is rendered with the suite as it is, and opens a stream.
LEMMA FollowStart == Init /\ part.kind = "follow" => FollowInv
<1> SUFFICES ASSUME Init, part.kind = "follow" PROVE FollowInv
  OBVIOUS
<1> USE FollowAssumption
<1>1. FollowInit(TRUE)
  BY DEF Init
<1>2. rest = AtFirst /\ suite = "live" /\ late = FALSE /\ stream = Fresh /\ pipe = <<>> /\ open = TRUE
  BY <1>1 DEF FollowInit
<1>3. progress = Snap("live", AtFirst, FALSE) /\ initial = [live |-> TRUE, running |-> 0]
  BY <1>1 DEF FollowInit
<1>4. timer = FALSE /\ renders = FALSE /\ render = NoRender /\ troubles = 0
  BY <1>1 DEF FollowInit
<1>5. progress \in Snaps /\ progress.status = "live" /\ progress.completed = Done(AtFirst)
  BY <1>3, SnapTyped, StreamTyped
<1>6. pipe \in Seq(Event_) /\ Len(pipe) = 0 /\ DOMAIN pipe = {}
  BY <1>2
<1>7. render \in [at : {"none", "suite", "rows"}, suite : {"live", "over"}, running : 0 .. SuiteTotal]
  BY <1>4 DEF NoRender
<1>8. initial \in [live : BOOLEAN, running : 0 .. SuiteTotal]
  BY <1>3
<1>9. FollowTyped
  <2>1. late \in BOOLEAN /\ open \in BOOLEAN /\ renders \in BOOLEAN /\ timer \in BOOLEAN
    BY <1>2, <1>4
  <2>2. troubles \in 0 .. MaxTroubles
    BY <1>4
  <2>3. Len(pipe) <= MaxUnread + 1
    BY <1>6
  <2> QED
    BY <1>2, <1>5, <1>6, <1>7, <1>8, <2>1, <2>2, <2>3, StreamTyped DEF FollowTyped
<1>10. ToldTrue
  BY <1>2, <1>5, <1>6, DoneType, StreamTyped DEF ToldTrue, SnapTrue, Live
<1> QED
  BY <1>2, <1>6, <1>9, <1>10, StreamTyped DEF FollowInv, Rising, ReadTrue, OverTrue, OpenTrue

\* The invariant says what the run checks: behind what the page shows, the events on their way follow
\* in order and none is ahead of the table.
LEMMA FollowMeans == FollowInv => FollowsTheTable
<1> SUFFICES ASSUME FollowInv PROVE FollowsTheTable
  OBVIOUS
<1> USE FollowAssumption DEF FollowInv
<1>1. Len(stream.last) <= 1
  <2>1. stream.last \in Lasts
    BY DEF FollowTyped
  <2>2. CASE stream.last = <<>>
    BY <2>2
  <2>3. ASSUME NEW s \in Snaps, stream.last = <<s>> PROVE Len(stream.last) <= 1
    BY <2>3
  <2> QED
    BY <2>1, <2>2, <2>3 DEF Lasts
<1>2. FollowTypeOK
  BY <1>1 DEF FollowTypeOK, FollowTyped, Rests, Snaps, Event_
<1> DEFINE coming == [i \in DOMAIN pipe |-> pipe[i].snap]
           snaps == <<progress>> \o coming
<1>3. PICK n \in Nat : n = Len(pipe) /\ DOMAIN pipe = 1 .. n
  BY LenProperties DEF FollowTyped
<1>4. \A i \in 1 .. n : pipe[i] \in Event_ /\ pipe[i].snap \in Snaps
  <2> SUFFICES ASSUME NEW i \in 1 .. n PROVE pipe[i] \in Event_
    BY DEF Event_
  <2> QED
    BY <1>3, ElementOfSeq DEF FollowTyped
<1>5. coming \in [1 .. n -> Snaps]
  BY <1>3, <1>4
<1>6. coming \in Seq(Snaps) /\ Len(coming) = n
  BY <1>5, SeqDef
<1>7. <<progress>> \in Seq(Snaps) /\ Len(<<progress>>) = 1 /\ <<progress>>[1] = progress
  BY DEF FollowTyped
<1>8. /\ Len(snaps) = n + 1 /\ DOMAIN snaps = 1 .. n + 1
      /\ snaps[1] = progress /\ \A i \in 2 .. n + 1 : snaps[i] = pipe[i - 1].snap
  BY <1>3, <1>6, <1>7, ConcatProperties, LenProperties
<1> HIDE DEF coming, snaps
<1>9. ASSUME NEW i \in DOMAIN snaps
      PROVE  Behind(snaps[i]) /\ (i > 1 => snaps[i - 1].completed <= snaps[i].completed)
  <2>1. CASE i = 1
    BY <2>1, <1>8 DEF ToldTrue, SnapTrue, Behind, Done
  <2>2. CASE i = 2
    BY <2>2, <1>3, <1>8 DEF ToldTrue, SnapTrue, Behind, Done, Rising
  <2>3. CASE i \in 3 .. n + 1
    <3>1. i - 1 \in DOMAIN pipe /\ i - 2 \in DOMAIN pipe /\ i - 2 <= i - 1 /\ i - 1 - 1 = i - 2 /\ i - 1 \in 2 .. n + 1
      BY <2>3, <1>3
    <3>2. snaps[i] = pipe[i - 1].snap /\ snaps[i - 1] = pipe[i - 2].snap
      BY <2>3, <3>1, <1>8
    <3> QED
      BY <3>1, <3>2 DEF ToldTrue, SnapTrue, Behind, Done, Rising
  <2> QED
    BY <2>1, <2>2, <2>3, <1>8
<1> QED
  BY <1>2, <1>9 DEF FollowsTheTable, ToldTrue, SnapTrue, OpenTrue, snaps, coming

\* What is in the pipe is an event with a snapshot.
LEMMA PipeTyped ==
  ASSUME NEW p \in Seq(Event_), NEW i \in DOMAIN p
  PROVE  p[i] \in Event_ /\ p[i].snap \in Snaps
<1>1. DOMAIN p = 1 .. Len(p)
  BY LenProperties
<1>2. p[i] \in Event_
  BY <1>1, ElementOfSeq
<1> QED
  BY <1>2 DEF Event_

\* The table only moves on: what was true of a page told of it stays true.
LEMMA TableMoves ==
  ASSUME FollowInv, rest' \in Rests, suite' \in {"live", "over"}, late' \in BOOLEAN, troubles' \in 0 .. MaxTroubles,
         Done(rest) <= Done(rest'), suite # "live" => suite' # "live", late => late',
         suite' # "live" => rest'.queued = 0 \/ late',
         UNCHANGED <<stream, pipe, page_>>
  PROVE  FollowInv'
<1> USE DEF FollowInv, page_
<1>1. FollowTyped'
  BY DEF FollowTyped
<1>d. Done(rest) \in Nat /\ Done(rest') \in Nat
  BY DoneType DEF FollowTyped
<1>2. ASSUME NEW snap \in Snaps, SnapTrue(snap) PROVE SnapTrue(snap)'
  BY <1>2, <1>d, FollowAssumption DEF SnapTrue, Snaps
<1>3. \A i \in DOMAIN pipe : pipe[i].snap \in Snaps
  BY PipeTyped DEF FollowTyped
<1>4. ToldTrue'
  <2>1. SnapTrue(progress)'
    BY <1>2 DEF ToldTrue, FollowTyped, SnapTrue
  <2>2. ASSUME NEW i \in DOMAIN pipe PROVE SnapTrue(pipe[i].snap)'
    BY <1>2, <1>3 DEF ToldTrue, SnapTrue
  <2> QED
    BY <2>1, <2>2 DEF ToldTrue
<1>5. ReadTrue'
  <2>1. Done(stream.rest) \in Nat
    BY DoneType DEF FollowTyped
  <2>2. Done(stream'.rest) = Done(stream.rest)
    OBVIOUS
  <2> QED
    BY <2>1, <2>2, <1>d DEF ReadTrue
<1>6. Rising' /\ OverTrue' /\ OpenTrue'
  BY DEF Rising, OverTrue, OpenTrue
<1> QED
  BY <1>1, <1>4, <1>5, <1>6

\* Claims, ends, late requeues, the settling and the stopping of the suite move its table on.
LEMMA TableSteps ==
  ASSUME FollowInv, Work \/ Settle \/ Stop_
  PROVE  FollowInv'
<1> USE FollowAssumption DEF FollowInv
<1>1. rest.queued \in Nat /\ rest.running \in Nat /\ rest.queued + rest.running <= SuiteTotal
  BY DoneType DEF FollowTyped, Rests
<1>2. CASE Work
  <2>1. ASSUME NEW q \in {-1, 0, 1}, NEW r \in {-1, 0, 1}, q + r \in {-1, 0}, rest.queued + q \in Nat, rest.running + r \in Nat,
               Step_(q, r)
        PROVE  rest' \in Rests /\ Done(rest) <= Done(rest')
    BY <2>1, <1>1 DEF Step_, Rests, Done
  <2>2. CASE Claim_
    <3>1. rest' \in Rests /\ Done(rest) <= Done(rest')
      BY <2>1, <2>2, <1>1 DEF Claim_
    <3> QED
      BY <3>1, <2>2, <1>2, <1>1, TableMoves DEF Work, Claim_, Step_, OverTrue, FollowTyped
  <2>3. CASE End_
    <3>1. rest' \in Rests /\ Done(rest) <= Done(rest')
      BY <2>1, <2>3, <1>1 DEF End_
    <3> QED
      BY <3>1, <2>3, <1>2, <1>1, TableMoves DEF Work, End_, Step_, OverTrue, FollowTyped
  <2>4. CASE Requeue_
    <3>1. rest' \in Rests /\ Done(rest) <= Done(rest')
      BY <2>1, <2>4, <1>1 DEF Requeue_
    <3>2. late' \in BOOLEAN /\ (late => late') /\ (suite # "live" => late')
      BY <2>4 DEF Requeue_, FollowTyped
    <3>3. troubles' \in 0 .. MaxTroubles
      BY <2>4 DEF Requeue_, FollowTyped
    <3>4. suite' \in {"live", "over"} /\ suite' = suite /\ UNCHANGED <<stream, pipe, page_>>
      BY <1>2 DEF Work, FollowTyped
    <3>5. (suite # "live" => suite' # "live") /\ (suite' # "live" => rest'.queued = 0 \/ late')
      BY <3>2, <3>4
    <3> HIDE DEF FollowInv
    <3> QED
      BY <3>1, <3>2, <3>3, <3>4, <3>5, TableMoves, Zenon
  <2> QED
    BY <2>2, <2>3, <2>4, <1>2 DEF Work
<1>3. CASE Settle
  <2>1. rest \in Rests /\ Done(rest) \in Nat /\ suite = "live" /\ rest.queued = 0
    BY <1>3, <1>1, DoneType DEF Settle, FollowTyped
  <2>2. Done(rest) <= Done(rest)
    BY <2>1
  <2>3. rest' = rest /\ suite' = "over" /\ late' = late /\ troubles' = troubles /\ UNCHANGED <<stream, pipe, page_>>
    BY <1>3 DEF Settle
  <2>4. late' \in BOOLEAN /\ troubles' \in 0 .. MaxTroubles
    BY <2>3 DEF FollowTyped
  <2>5. rest' \in Rests /\ Done(rest) <= Done(rest') /\ rest'.queued = 0
    BY <2>1, <2>2, <2>3
  <2> HIDE DEF FollowInv
  <2> QED
    BY <2>1, <2>3, <2>4, <2>5, TableMoves
<1>4. CASE Stop_
  <2>1. rest' \in Rests /\ Done(rest) <= Done(rest') /\ rest'.queued = 0
    <3>1. rest' = [queued |-> 0, running |-> rest.running]
      BY <1>4 DEF Stop_, FollowTyped, Rests
    <3>2. 0 + rest.running <= SuiteTotal /\ rest.running \in 0 .. SuiteTotal
      BY <1>1
    <3>3. rest'.queued = 0 /\ rest'.running = rest.running
      BY <3>1
    <3>4. rest' \in Rests
      BY <3>1, <3>2 DEF Rests
    <3> QED
      BY <3>3, <3>4, <1>1 DEF Done
  <2> QED
    BY <1>4, <2>1, TableMoves DEF Stop_, FollowTyped
<1> QED
  BY <1>2, <1>3, <1>4

\* A stream that is opened again, or closed, has read nothing yet.
LEMMA Anew ==
  ASSUME FollowInv, stream' \in {Fresh, NoStream}, pipe' = <<>>,
         initial' \in [live : BOOLEAN, running : 0 .. SuiteTotal], open' \in BOOLEAN, renders' \in BOOLEAN, timer' \in BOOLEAN,
         render' \in [at : {"none", "suite", "rows"}, suite : {"live", "over"}, running : 0 .. SuiteTotal],
         troubles' \in 0 .. MaxTroubles, progress' \in Snaps, SnapTrue(progress'),
         ~open' => stream' = NoStream /\ (Live(progress') => ~initial'.live /\ initial'.running = 0),
         UNCHANGED table
  PROVE  FollowInv'
<1> USE FollowAssumption DEF FollowInv, table
<1>1. pipe' \in Seq(Event_) /\ Len(pipe') = 0 /\ DOMAIN pipe' = {}
  OBVIOUS
<1>2. FollowTyped'
  BY <1>1, StreamTyped DEF FollowTyped
<1>3. ToldTrue' /\ Rising' /\ ReadTrue'
  BY <1>1, StreamTyped DEF ToldTrue, SnapTrue, Rising, ReadTrue, Done
<1>4. OverTrue' /\ OpenTrue'
  BY StreamTyped DEF OverTrue, OpenTrue, Live
<1> QED
  BY <1>2, <1>3, <1>4

\* What the component asks for does not change what it is told.
LEMMA Quiet ==
  ASSUME FollowInv, UNCHANGED <<table, stream, pipe, progress, initial, open, troubles>>,
         renders' \in BOOLEAN, timer' \in BOOLEAN,
         render' \in [at : {"none", "suite", "rows"}, suite : {"live", "over"}, running : 0 .. SuiteTotal]
  PROVE  FollowInv'
<1> USE DEF FollowInv, table
<1>1. FollowTyped'
  BY DEF FollowTyped
<1>2. ToldTrue' /\ Rising' /\ ReadTrue'
  BY DEF ToldTrue, SnapTrue, Rising, ReadTrue, Done, Live
<1>3. OverTrue' /\ OpenTrue'
  BY DEF OverTrue, OpenTrue, Live
<1> QED
  BY <1>1, <1>2, <1>3

\* What the page does: take an event, ask for a new render, and show it.
LEMMA ShowSteps ==
  ASSUME FollowInv, Expire \/ Show
  PROVE  FollowInv'
<1> USE FollowAssumption DEF FollowInv
<1>1. CASE Expire
  <2>1. /\ stream.at = "look" /\ pipe = <<>> /\ pipe' = pipe /\ troubles' \in 0 .. MaxTroubles /\ stream' = Fresh
        /\ UNCHANGED <<table, page_>>
    BY <1>1 DEF Expire, FollowTyped
  <2>2. open
    BY <2>1 DEF OpenTrue
  <2> QED
    BY <2>1, <2>2, Anew DEF page_, FollowTyped, ToldTrue
<1>2. CASE Receive
  <2>1. PICK n \in Nat : n = Len(pipe) /\ DOMAIN pipe = 1 .. n
    BY LenProperties DEF FollowTyped
  <2>2. pipe # <<>> /\ n \in Nat \ {0} /\ 1 \in DOMAIN pipe
    BY <1>2, <2>1, EmptySeq DEF Receive, FollowTyped
  <2>3. PICK e \in Event_ : e = pipe[1] /\ e = Head(pipe)
    BY <2>1, <2>2, PipeTyped DEF FollowTyped
  <2>4. SnapTrue(e.snap) /\ e.snap \in Snaps /\ (e.event = "done" => ~Live(e.snap)) /\ progress' = e.snap
    BY <1>2, <2>2, <2>3 DEF ToldTrue, Event_, Receive
  <2>5. CASE e.event = "done"
    <3>1. /\ pipe' = <<>> /\ open' = FALSE /\ stream' = NoStream /\ renders' = TRUE
          /\ UNCHANGED <<timer, table, initial, render, troubles>>
      BY <1>2, <2>3, <2>5 DEF Receive, table
    <3> QED
      BY <2>4, <2>5, <3>1, Anew DEF FollowTyped
  <2>6. CASE e.event = "progress"
    <3>1. /\ pipe' = Tail(pipe) /\ timer' = TRUE /\ UNCHANGED <<open, stream, renders, table, initial, render, troubles, late>>
      BY <1>2, <2>3, <2>6 DEF Receive, table
    <3>2. /\ pipe' \in Seq(Event_) /\ Len(pipe') = n - 1 /\ DOMAIN pipe' = 1 .. n - 1
          /\ \A i \in 1 .. n - 1 : pipe'[i] = pipe[i + 1]
      BY <2>1, <2>2, <3>1, HeadTailProperties, LenProperties DEF FollowTyped
    <3>i. \A i \in 1 .. n - 1 : i + 1 \in 1 .. n
      BY <2>2
    <3>3. FollowTyped'
      <4>1. n - 1 <= MaxUnread + 1
        BY <2>1, <2>2 DEF FollowTyped
      <4> QED
        BY <2>4, <3>1, <3>2, <4>1 DEF FollowTyped, table
    <3>4. ToldTrue'
      <4>1. \A snap : SnapTrue(snap) => SnapTrue(snap)'
        BY <3>1 DEF SnapTrue, table
      <4>2. SnapTrue(progress)'
        BY <2>4, <3>1 DEF SnapTrue, table
      <4>3. ASSUME NEW i \in 1 .. n - 1
            PROVE  (SnapTrue(pipe[i].snap) /\ (pipe[i].event = "done" => ~Live(pipe[i].snap)))'
        <5>1. pipe'[i] = pipe[i + 1] /\ i + 1 \in DOMAIN pipe
          BY <2>1, <3>2, <3>i
        <5>2. SnapTrue(pipe[i + 1].snap) /\ (pipe[i + 1].event = "done" => ~Live(pipe[i + 1].snap))
          BY <5>1 DEF ToldTrue
        <5> QED
          BY <5>1, <5>2, <3>1 DEF SnapTrue, table
      <4> QED
        BY <3>2, <4>2, <4>3 DEF ToldTrue
    <3>5. Rising'
      <4>1. \A i \in 1 .. n - 1 : progress'.completed <= pipe'[i].snap.completed
        <5> SUFFICES ASSUME NEW i \in 1 .. n - 1 PROVE pipe[1].snap.completed <= pipe[i + 1].snap.completed
          BY <2>3, <2>4, <3>2
        <5>1. 1 <= i + 1 /\ i + 1 \in DOMAIN pipe
          BY <2>1, <3>i
        <5> QED
          BY <2>2, <5>1 DEF Rising
      <4>2. ASSUME NEW i \in 1 .. n - 1, NEW j \in 1 .. n - 1, i <= j
            PROVE  pipe'[i].snap.completed <= pipe'[j].snap.completed
        <5>1. i + 1 <= j + 1 /\ i + 1 \in DOMAIN pipe /\ j + 1 \in DOMAIN pipe
          BY <2>1, <3>i, <4>2
        <5> QED
          BY <3>2, <5>1 DEF Rising
      <4> QED
        BY <3>2, <4>1, <4>2 DEF Rising
    <3>6. ReadTrue'
      <4> SUFFICES ASSUME stream.at \in {"status", "rows"}
                   PROVE  /\ n - 1 < MaxUnread
                          /\ Done(stream.rest) <= Done(rest) /\ (stream.suite # "live" => suite # "live")
                          /\ progress'.completed <= Done(stream.rest)
                          /\ \A i \in 1 .. n - 1 : pipe'[i].snap.completed <= Done(stream.rest)
        BY <3>1, <3>2 DEF ReadTrue, Done, table
      <4>1. /\ n < MaxUnread
            /\ Done(stream.rest) <= Done(rest) /\ (stream.suite # "live" => suite # "live")
            /\ \A i \in 1 .. n : pipe[i].snap.completed <= Done(stream.rest)
        BY <2>1 DEF ReadTrue
      <4> QED
        BY <2>2, <2>3, <2>4, <3>2, <3>i, <4>1
    <3>7. open
      BY <2>2 DEF OpenTrue
    <3> QED
      BY <3>1, <3>3, <3>4, <3>5, <3>6, <3>7 DEF OverTrue, OpenTrue, table
  <2> QED
    BY <2>5, <2>6 DEF Event_
<1>3. CASE Refresh
  <2>1. timer' \in BOOLEAN /\ renders' \in BOOLEAN
    BY <1>3 DEF Refresh
  <2> QED
    BY <1>3, <2>1, Quiet DEF Refresh, table, FollowTyped
<1>4. CASE Render
  <2>1. render' \in [at : {"none", "suite", "rows"}, suite : {"live", "over"}, running : 0 .. SuiteTotal]
    <3>1. CASE render' = [NoRender EXCEPT !.at = "suite", !.suite = suite]
      <4>1. render' = [at |-> "suite", suite |-> suite, running |-> 0]
        BY <3>1 DEF NoRender
      <4>2. suite \in {"live", "over"} /\ 0 \in 0 .. SuiteTotal
        BY DEF FollowTyped
      <4> QED
        BY <4>1, <4>2
    <3>2. CASE render' = [render EXCEPT !.at = "rows", !.running = rest.running]
      BY <3>2 DEF FollowTyped, Rests
    <3> QED
      BY <1>4, <3>1, <3>2 DEF Render
  <2>2. renders' \in BOOLEAN /\ UNCHANGED <<table, stream, pipe, progress, initial, open, timer, troubles>>
    BY <1>4 DEF Render, FollowTyped
  <2> QED
    BY <2>1, <2>2, Quiet DEF table, FollowTyped
<1>5. CASE Rendered
  <2>1. /\ render' = NoRender /\ initial' = [live |-> render.suite = "live", running |-> render.running]
        /\ UNCHANGED <<table, progress, renders, troubles>>
    BY <1>5 DEF Rendered
  <2>2. render' \in [at : {"none", "suite", "rows"}, suite : {"live", "over"}, running : 0 .. SuiteTotal]
    BY <2>1 DEF NoRender
  <2>3. initial' \in [live : BOOLEAN, running : 0 .. SuiteTotal]
    BY <2>1 DEF FollowTyped
  <2>4. CASE initial' = initial
    <3>1. UNCHANGED <<open, stream, pipe, timer>>
      BY <1>5, <2>4 DEF Rendered
    <3> QED
      BY <2>1, <2>2, <2>4, <3>1, Quiet DEF table, FollowTyped
  <2>5. CASE initial' # initial
    <3>1. /\ open' = (initial'.live \/ initial'.running > 0)
          /\ stream' = (IF open' THEN Fresh ELSE NoStream) /\ pipe' = <<>> /\ timer' = FALSE
      BY <1>5, <2>5 DEF Rendered
    <3>2. open' \in BOOLEAN /\ timer' \in BOOLEAN
      BY <3>1
    <3>3. ~open' => ~initial'.live /\ initial'.running = 0
      <4>1. initial'.running \in Nat /\ initial'.live \in BOOLEAN
        BY <2>3
      <4>2. CASE initial'.live
        BY <3>1, <4>2
      <4>3. CASE initial'.running > 0
        BY <3>1, <4>3
      <4> QED
        BY <4>1, <4>2, <4>3
    <3>4. progress' \in Snaps /\ SnapTrue(progress') /\ renders' \in BOOLEAN /\ troubles' \in 0 .. MaxTroubles
      BY <2>1 DEF FollowTyped, ToldTrue
    <3>5. stream' \in {Fresh, NoStream} /\ (~open' => stream' = NoStream)
      BY <3>1
    <3> QED
      BY <2>1, <2>2, <2>3, <3>1, <3>2, <3>3, <3>4, <3>5, Anew
  <2> QED
    BY <2>4, <2>5
<1> QED
  BY <1>1, <1>2, <1>3, <1>4, <1>5 DEF Show

\* Where the places of a sequence are that is given at most one, and then at most one more.
LEMMA PlacesOf ==
  ASSUME NEW n \in Nat, NEW k \in 0 .. 1, NEW l \in 0 .. 1
  PROVE  /\ n + k + l \in n .. n + 2
         /\ \A i \in 1 .. n : i \in 1 .. n + k + l /\ i <= n + k /\ i \in 1 .. n + k
         /\ \A i \in n + 1 .. n + k + l : i \in 1 .. n + k + l /\ ~(i <= n)
         /\ \A i \in n + 1 .. n + k + l : i <= n + k => i \in 1 .. n + k /\ i - n = 1 /\ k = 1
         /\ \A i \in n + 1 .. n + k + l : ~(i <= n + k) => i - (n + k) = 1 /\ l = 1
  OBVIOUS

\* A pipe that is given at most two things more.
LEMMA Given ==
  ASSUME NEW E, NEW p \in Seq(E), NEW a \in Seq(E), NEW b \in Seq(E), Len(a) \in 0 .. 1, Len(b) \in 0 .. 1
  PROVE  LET q == (p \o a) \o b IN
         /\ q \in Seq(E) /\ Len(q) \in Len(p) .. Len(p) + 2 /\ DOMAIN q = 1 .. Len(q)
         /\ \A i \in 1 .. Len(p) : q[i] = p[i]
         /\ \A i \in Len(p) + 1 .. Len(q) : (Len(a) = 1 /\ q[i] = a[1]) \/ (Len(b) = 1 /\ q[i] = b[1])
<1>n. PICK n \in Nat, k \in 0 .. 1, l \in 0 .. 1 : n = Len(p) /\ k = Len(a) /\ l = Len(b)
  BY LenProperties
<1>3. /\ p \o a \in Seq(E) /\ Len(p \o a) = n + k
      /\ \A i \in 1 .. n + k : (p \o a)[i] = IF i <= n THEN p[i] ELSE a[i - n]
  BY <1>n, ConcatProperties
<1>r. PICK r \in Seq(E) : r = p \o a
  BY <1>3
<1>4. /\ r \o b \in Seq(E) /\ Len(r \o b) = n + k + l
      /\ \A i \in 1 .. n + k + l : (r \o b)[i] = IF i <= n + k THEN r[i] ELSE b[i - (n + k)]
  BY <1>n, <1>3, <1>r, ConcatProperties
<1>q. PICK q \in Seq(E) : q = r \o b
  BY <1>4
<1>5. Len(q) = n + k + l /\ DOMAIN q = 1 .. Len(q)
  BY <1>4, <1>q, LenProperties
<1>6. ASSUME NEW i \in 1 .. n PROVE q[i] = p[i]
  BY <1>3, <1>4, <1>r, <1>q, PlacesOf
<1>7. ASSUME NEW i \in n + 1 .. n + k + l PROVE (k = 1 /\ q[i] = a[1]) \/ (l = 1 /\ q[i] = b[1])
  <2>1. CASE i <= n + k
    <3>1. i \in 1 .. n + k + l /\ i \in 1 .. n + k /\ ~(i <= n) /\ i - n = 1 /\ k = 1
      BY <2>1, PlacesOf
    <3>2. q[i] = r[i]
      BY <1>4, <1>q, <2>1, <3>1
    <3>3. r[i] = a[1]
      BY <1>3, <1>r, <3>1
    <3> QED
      BY <3>1, <3>2, <3>3
  <2>2. CASE ~(i <= n + k)
    <3>1. i \in 1 .. n + k + l /\ i - (n + k) = 1 /\ l = 1
      BY <2>2, PlacesOf
    <3>2. q[i] = b[1]
      BY <1>4, <1>q, <2>2, <3>1
    <3> QED
      BY <3>1, <3>2
  <2> QED
    BY <2>1, <2>2
<1>8. n + k + l \in n .. n + 2
  BY PlacesOf
<1> QED
  BY <1>n, <1>r, <1>q, <1>5, <1>6, <1>7, <1>8

\* An event, or none.
LEMMA AtMostOne ==
  ASSUME NEW x \in Event_, NEW a, a = <<>> \/ a = <<x>>
  PROVE  a \in Seq(Event_) /\ Len(a) \in 0 .. 1 /\ (Len(a) = 1 => a = <<x>> /\ a[1] = x)
<1>1. CASE a = <<>>
  BY <1>1
<1>2. CASE a = <<x>>
  BY <1>2
<1> QED
  BY <1>1, <1>2

\* The first of the two queries of the route: what it reads is the table.
LEMMA LookSteps ==
  ASSUME FollowInv, NEW half \in {"status", "rows"}, Look(half)
  PROVE  FollowInv'
<1> USE FollowAssumption DEF FollowInv
<1>1. /\ stream.at = "look" /\ Len(pipe) < MaxUnread /\ UNCHANGED <<rest, suite, late, pipe, page_, troubles>>
      /\ stream' = [stream EXCEPT !.at = half, !.suite = suite, !.rest = rest]
  BY DEF Look, table
<1>2. stream'.at = half /\ stream'.suite = suite /\ stream'.rest = rest
  BY <1>1 DEF FollowTyped
<1>3. FollowTyped'
  BY <1>1 DEF FollowTyped, page_
<1>4. ToldTrue' /\ Rising' /\ OverTrue'
  BY <1>1 DEF ToldTrue, SnapTrue, Rising, OverTrue, Done, Live, page_
<1>5. ReadTrue'
  BY <1>1, <1>2, DoneType DEF ReadTrue, ToldTrue, SnapTrue, FollowTyped, page_, Done
<1>6. OpenTrue'
  BY <1>1 DEF OpenTrue, page_
<1> QED
  BY <1>3, <1>4, <1>5, <1>6

\* The second of its queries, and what it sends: half of the old table and half of the new one, which
\* is no less than it told before and no more than is done now.
LEMMA SendSteps ==
  ASSUME FollowInv, Send
  PROVE  FollowInv'
<1> USE FollowAssumption DEF FollowInv
<1>1. stream.at \in {"status", "rows"} /\ UNCHANGED <<rest, suite, late, page_, troubles>>
  BY DEF Send, table
<1>2. PICK torn \in BOOLEAN : torn = (<<stream.suite, stream.rest>> # <<suite, rest>>)
  OBVIOUS
<1>3. PICK snap \in Snaps :
        snap = IF stream.at = "status" THEN Snap(stream.suite, rest, torn) ELSE Snap(suite, stream.rest, torn)
  BY SnapTyped DEF FollowTyped
<1>4. /\ pipe' = pipe \o (IF <<Key(snap)>> = stream.last THEN <<>> ELSE <<[event |-> "progress", snap |-> snap]>>)
                   \o (IF Finished(snap) THEN <<[event |-> "done", snap |-> snap]>> ELSE <<>>)
      /\ stream' = [NoStream EXCEPT !.at = IF Finished(snap) THEN "ended" ELSE "look", !.last = <<Key(snap)>>]
  BY <1>2, <1>3 DEF Send
<1>5. Key(snap) \in Snaps
  BY DEF Key, Snaps
<1>6. /\ stream' \in [at : {"off", "look", "status", "rows", "ended"}, suite : {"live", "over"}, rest : Rests, last : Lasts]
      /\ stream'.at \notin {"status", "rows"}
  <2>1. <<Key(snap)>> \in Lasts
    BY <1>5 DEF Lasts
  <2> QED
    BY <1>4, <2>1, StreamTyped DEF NoStream
<1>7. PICK x \in Event_, y \in Event_ : x = [event |-> "progress", snap |-> snap] /\ y = [event |-> "done", snap |-> snap]
  BY DEF Event_
<1>8. PICK n \in Nat : n = Len(pipe) /\ DOMAIN pipe = 1 .. n /\ n < MaxUnread
  BY <1>1, LenProperties DEF FollowTyped, ReadTrue
<1>9. PICK m \in n .. n + 2 :
        /\ pipe' \in Seq(Event_) /\ m = Len(pipe') /\ DOMAIN pipe' = 1 .. m
        /\ \A i \in 1 .. n : pipe'[i] = pipe[i]
        /\ \A i \in n + 1 .. m : pipe'[i].snap = snap /\ (pipe'[i].event = "done" => Finished(snap))
  <2> DEFINE a == IF <<Key(snap)>> = stream.last THEN <<>> ELSE <<x>>
             b == IF Finished(snap) THEN <<y>> ELSE <<>>
  <2>1. (a = <<>> \/ a = <<x>>) /\ (b = <<>> \/ b = <<y>>) /\ pipe' = pipe \o a \o b
    BY <1>4, <1>7
  <2>2. b = <<y>> => Finished(snap)
    OBVIOUS
  <2> HIDE DEF a, b
  <2>f. /\ a \in Seq(Event_) /\ Len(a) \in 0 .. 1 /\ (Len(a) = 1 => a[1] = x)
        /\ b \in Seq(Event_) /\ Len(b) \in 0 .. 1 /\ (Len(b) = 1 => b = <<y>> /\ b[1] = y)
    BY <2>1, AtMostOne
  <2>p. pipe \in Seq(Event_) /\ pipe' = (pipe \o a) \o b
    BY <2>1 DEF FollowTyped
  <2>g. pipe \in Seq(Event_) /\ a \in Seq(Event_) /\ b \in Seq(Event_) /\ Len(a) \in 0 .. 1 /\ Len(b) \in 0 .. 1
    BY <2>f, <2>p
  <2>h. LET q == (pipe \o a) \o b IN
        /\ q \in Seq(Event_) /\ Len(q) \in Len(pipe) .. Len(pipe) + 2 /\ DOMAIN q = 1 .. Len(q)
        /\ \A i \in 1 .. Len(pipe) : q[i] = pipe[i]
        /\ \A i \in Len(pipe) + 1 .. Len(q) : (Len(a) = 1 /\ q[i] = a[1]) \/ (Len(b) = 1 /\ q[i] = b[1])
    BY <2>g, Given, SMTT(30)
  <2> PICK q : q = pipe'
    OBVIOUS
  <2>q. /\ q \in Seq(Event_) /\ Len(q) \in Len(pipe) .. Len(pipe) + 2 /\ DOMAIN q = 1 .. Len(q)
        /\ \A i \in 1 .. Len(pipe) : q[i] = pipe[i]
        /\ \A i \in Len(pipe) + 1 .. Len(q) : (Len(a) = 1 /\ q[i] = a[1]) \/ (Len(b) = 1 /\ q[i] = b[1])
    BY <2>p, <2>h
  <2>3. \A i \in Len(pipe) + 1 .. Len(q) : q[i] = x \/ (q[i] = y /\ b = <<y>>)
    BY <2>f, <2>q
  <2>4. x.snap = snap /\ x.event = "progress" /\ y.snap = snap
    BY <1>7
  <2>5. Len(q) \in n .. n + 2
    BY <1>8, <2>q
  <2>6. ASSUME NEW i \in n + 1 .. Len(q) PROVE q[i].snap = snap /\ (q[i].event = "done" => Finished(snap))
    BY <1>8, <2>2, <2>3, <2>4, <2>5
  <2> PICK m \in n .. n + 2 : m = Len(q)
    BY <2>5
  <2>7. pipe' \in Seq(Event_) /\ m = Len(pipe') /\ DOMAIN pipe' = 1 .. m /\ \A i \in 1 .. n : pipe'[i] = pipe[i]
    BY <1>8, <2>q, <2>5
  <2> QED
    BY <2>6, <2>7
<1>10. FollowTyped'
  BY <1>1, <1>6, <1>8, <1>9 DEF FollowTyped, page_
<1>d. Done(rest) \in Nat /\ Done(stream.rest) \in Nat /\ Done(stream.rest) <= Done(rest)
  BY <1>1, DoneType DEF FollowTyped, ReadTrue
<1>11. SnapTrue(snap) /\ Done(stream.rest) <= snap.completed
  <2>1. CASE stream.at = "status"
    <3>1. snap.status = stream.suite /\ snap.completed = Done(rest) /\ snap.running = rest.running
      BY <1>3, <2>1, SnapTyped DEF FollowTyped
    <3>2. ~Live(snap) => suite # "live" /\ (snap.completed = SuiteTotal \/ late)
      <4> SUFFICES ASSUME ~Live(snap) PROVE suite # "live" /\ (snap.completed = SuiteTotal \/ late)
        OBVIOUS
      <4>1. suite # "live" /\ rest.running = 0
        BY <1>1, <3>1, DoneType DEF Live, ReadTrue, FollowTyped
      <4> QED
        BY <3>1, <4>1 DEF OverTrue, Done
    <3> QED
      BY <1>d, <3>1, <3>2 DEF SnapTrue
  <2>2. CASE stream.at # "status"
    <3>1. snap.status = suite /\ snap.completed = Done(stream.rest) /\ snap.running = stream.rest.running /\ snap.torn = torn
      BY <1>3, <2>2, SnapTyped DEF FollowTyped
    <3>2. ~Live(snap) => suite # "live" /\ (snap.completed = SuiteTotal \/ torn \/ late)
      <4> SUFFICES ASSUME ~Live(snap), ~torn PROVE suite # "live" /\ (snap.completed = SuiteTotal \/ late)
        BY <3>1 DEF Live
      <4>1. suite # "live" /\ stream.rest.running = 0 /\ stream.rest = rest
        <5>1. stream.rest.running \in Nat /\ ~(stream.rest.running > 0) /\ suite # "live"
          BY <3>1, DoneType DEF Live, FollowTyped
        <5>2. <<stream.suite, stream.rest>> = <<suite, rest>>
          BY <1>2
        <5> QED
          BY <5>1, <5>2
      <4> QED
        BY <3>1, <4>1 DEF OverTrue, Done
    <3> QED
      BY <1>d, <3>1, <3>2 DEF SnapTrue
  <2> QED
    BY <2>1, <2>2
<1>12. ToldTrue'
  <2>1. \A i \in 1 .. m : SnapTrue(pipe'[i].snap) /\ (pipe'[i].event = "done" => ~Live(pipe'[i].snap))
    BY <1>8, <1>9, <1>11 DEF ToldTrue, Finished
  <2> QED
    BY <1>1, <1>9, <2>1 DEF ToldTrue, SnapTrue, page_, Done
<1>13. Rising'
  <2>1. /\ progress.completed <= snap.completed
        /\ \A i \in 1 .. n : pipe[i].snap.completed <= snap.completed
    <3>1. ASSUME NEW i \in 1 .. n PROVE pipe[i].snap.completed \in Nat
      <4>1. pipe \in Seq(Event_) /\ i \in DOMAIN pipe
        BY <1>8 DEF FollowTyped
      <4>2. pipe[i].snap \in Snaps
        BY <4>1, PipeTyped
      <4> QED
        BY <4>2, FollowAssumption DEF Snaps
    <3>2. progress.completed \in Nat /\ snap.completed \in Nat
      BY DEF FollowTyped, Snaps
    <3> QED
      <4>1. progress.completed <= Done(stream.rest) /\ \A i \in 1 .. n : pipe[i].snap.completed <= Done(stream.rest)
        BY <1>1, <1>8 DEF ReadTrue
      <4> QED
        BY <1>11, <1>d, <3>1, <3>2, <4>1
  <2>2. ASSUME NEW j \in 1 .. m PROVE progress.completed <= pipe'[j].snap.completed
    BY <1>8, <1>9, <2>1 DEF Rising
  <2>3. ASSUME NEW i \in 1 .. m, NEW j \in 1 .. m, i <= j PROVE pipe'[i].snap.completed <= pipe'[j].snap.completed
    <3>1. CASE j \in 1 .. n
      BY <1>8, <1>9, <2>3, <3>1 DEF Rising
    <3>2. CASE j \notin 1 .. n /\ i \in 1 .. n
      BY <1>9, <2>1, <3>2
    <3>3. CASE j \notin 1 .. n /\ i \notin 1 .. n
      <4>1. pipe'[i].snap = snap /\ pipe'[j].snap = snap /\ snap.completed \in Nat
        BY <1>9, <3>3 DEF Snaps
      <4> QED
        BY <4>1
    <3> QED
      BY <3>1, <3>2, <3>3
  <2> QED
    BY <1>1, <1>9, <2>2, <2>3 DEF Rising, page_
<1>14. ReadTrue' /\ OverTrue'
  BY <1>1, <1>6 DEF ReadTrue, OverTrue
<1>15. OpenTrue'
  BY <1>1 DEF OpenTrue, page_
<1> QED
  BY <1>10, <1>12, <1>13, <1>14, <1>15

\* Whatever the order of answers, changes and aborts, what the playground shows belongs together, the
\* analysis, the trace and the address to the program beside them (src/web/app/try/client.tsx); and the
\* suite page never shows more done than the table has, never falls back, and ends only with its suite
\* (src/web/components/app/suite/progress.tsx, src/web/app/api/suite-runs/[id]/stream/route.ts).
THEOREM ScreensAreTrue == Spec => []ScreensTell
<1> DEFINE Inv_ == (part.kind = "play" => PlayInv) /\ (part.kind = "follow" => FollowInv)
<1>1. Init => Inv_
  BY PlayStart, FollowStart
<1>2. Inv_ /\ [Next]_appVars => Inv_'
  <2> SUFFICES ASSUME Inv_, [Next]_appVars PROVE Inv_'
    OBVIOUS
  <2>1. part' = part
    BY DEF Next, appVars
  <2>2. ASSUME part.kind = "play" PROVE PlayInv'
    <3>1. CASE PlayNext
      BY <2>2, <3>1, PlayStep
    <3>2. CASE UNCHANGED playVars
      BY <2>2, <3>2 DEF playVars, PlayInv, ScreenAgrees, PlayTypeOK, WireTrue
    <3> QED
      BY <3>1, <3>2 DEF Next, appVars
  <2>3. ASSUME part.kind = "follow" PROVE FollowInv'
    <3>1. CASE FollowNext
      BY <2>3, <3>1, TableSteps, ShowSteps, LookSteps, SendSteps DEF FollowNext, Serve_
    <3>2. CASE UNCHANGED followVars
      BY <2>3, <3>2, Quiet DEF followVars, table, FollowInv, FollowTyped
    <3> QED
      BY <3>1, <3>2 DEF Next, appVars
  <2> QED
    BY <2>1, <2>2, <2>3
<1>3. Inv_ => ScreensTell
  BY FollowMeans DEF ScreensTell, PlayInv
<1> QED
  BY <1>1, <1>2, <1>3, PTL DEF Spec

-----------------------------------------------------------------------------
(* Sums: a function added up over a finite set, one element at a time *)

\* What holds of a set with less elements than any that it does not hold of: nothing.
LEMMA LeastSet ==
  ASSUME NEW S, IsFiniteSet(S), NEW P, \E s \in SUBSET S : s \notin P
  PROVE  \E s \in SUBSET S : s \notin P /\ \A t \in SUBSET s : t # s => t \in P
<1> DEFINE Q == {n \in Nat : \E s \in SUBSET S : s \notin P /\ Cardinality(s) = n}
           R == OpToRel(<, Nat)
<1>1. IsWellFoundedOn(R, Nat)
  BY NatLessThanWellFounded
<1>2. R = {e \in Nat \X Nat : e[1] < e[2]}
  BY DEF OpToRel
<1>3. \A s \in SUBSET S : IsFiniteSet(s) /\ Cardinality(s) \in Nat
  BY FS_Subset, FS_CardinalityType
<1> HIDE DEF R
<1>4. Q \subseteq Nat /\ Q # {}
  BY <1>3
<1>5. PICK n \in Q : \A m \in Q : <<m, n>> \notin R
  <2> HIDE DEF Q
  <2> QED
    BY <1>1, <1>4, WFMin
<1>6. PICK s \in SUBSET S : s \notin P /\ Cardinality(s) = n
  BY <1>5
<1>7. ASSUME NEW t \in SUBSET s, t # s PROVE t \in P
  <2>1. Cardinality(t) < n /\ Cardinality(t) \in Nat /\ n \in Nat
    BY <1>3, <1>6, <1>7, FS_Subset
  <2>2. Cardinality(t) \notin Q
    BY <1>2, <1>5, <2>1
  <2> QED
    BY <1>6, <2>1, <2>2
<1> QED
  BY <1>6, <1>7

\* The element of a set that is taken off first.
First(s) == CHOOSE x \in s : TRUE

\* What a sum over the subsets of S is unfolded to: the value at an element, and the sum of the others.
Unfolds(g, f, S) == g = [s \in SUBSET S |-> IF s = {} THEN 0 ELSE f[First(s)] + g[s \ {First(s)}]]

\* The element taken off is one of the set.
LEMMA FirstIn == ASSUME NEW s, s # {} PROVE First(s) \in s
  BY DEF First

\* What is unfolded, at one subset.
LEMMA UnfoldsAt ==
  ASSUME NEW g, NEW f, NEW S, Unfolds(g, f, S), NEW s \in SUBSET S
  PROVE  g[s] = IF s = {} THEN 0 ELSE f[First(s)] + g[s \ {First(s)}]
  BY DEF Unfolds

\* Unfoldings of functions that agree on a set agree on its subsets.
LEMMA UnfoldingsAgree ==
  ASSUME NEW S, IsFiniteSet(S), NEW T, NEW f, NEW h, NEW g, NEW k, S \subseteq T,
         Unfolds(g, f, S), Unfolds(k, h, T), \A x \in S : f[x] = h[x]
  PROVE  \A s \in SUBSET S : g[s] = k[s]
<1>1. ASSUME NEW s \in SUBSET S PROVE g[s] = IF s = {} THEN 0 ELSE f[First(s)] + g[s \ {First(s)}]
  BY UnfoldsAt
<1>2. ASSUME NEW s \in SUBSET T PROVE k[s] = IF s = {} THEN 0 ELSE h[First(s)] + k[s \ {First(s)}]
  BY UnfoldsAt
<1> DEFINE P == {s \in SUBSET S : g[s] = k[s]}
<1> SUFFICES ASSUME \E s \in SUBSET S : s \notin P PROVE FALSE
  OBVIOUS
<1>0. \E s \in SUBSET S : s \notin P
  OBVIOUS
<1>3. PICK s \in SUBSET S : s \notin P /\ \A t \in SUBSET s : t # s => t \in P
  <2> HIDE DEF P
  <2> QED
    BY <1>0, LeastSet
<1>4. s \in SUBSET T /\ (s # {} => First(s) \in s /\ First(s) \in S)
  BY FirstIn
<1>5. g[s] = (IF s = {} THEN 0 ELSE f[First(s)] + g[s \ {First(s)}])
  BY <1>1
<1>6. k[s] = (IF s = {} THEN 0 ELSE h[First(s)] + k[s \ {First(s)}])
  BY <1>2, <1>4
<1>7. s # {} /\ g[s \ {First(s)}] # k[s \ {First(s)}]
  BY <1>3, <1>4, <1>5, <1>6
<1>8. s \ {First(s)} \in P
  BY <1>3, <1>4, <1>7
<1> QED
  BY <1>7, <1>8

\* The sum of natural numbers over a finite set can be unfolded,
LEMMA UnfoldingExists ==
  ASSUME NEW S, IsFiniteSet(S), NEW f, \A x \in S : f[x] \in Nat
  PROVE  \E g : Unfolds(g, f, S) /\ g \in [SUBSET S -> Nat]
<1> DEFINE Good(g, s) == Unfolds(g, f, s) /\ g \in [SUBSET s -> Nat]
           P == {s \in SUBSET S : \E g : Good(g, s)}
           Of(s) == CHOOSE g : Good(g, s)
<1> SUFFICES ASSUME S \notin P PROVE FALSE
  OBVIOUS
<1>0. \E s \in SUBSET S : s \notin P
  OBVIOUS
<1>1. PICK s \in SUBSET S : s \notin P /\ \A t \in SUBSET s : t # s => t \in P
  <2> HIDE DEF P
  <2> QED
    BY <1>0, LeastSet
<1>2. \A t \in SUBSET s : t # s => Good(Of(t), t)
  BY <1>1
<1> HIDE DEF Of
<1> DEFINE x == First(s)
           g == [t \in SUBSET s |-> IF t = {} THEN 0 ELSE IF t = s THEN f[x] + Of(s \ {x})[s \ {x}] ELSE Of(t)[t]]
<1>3. \A t \in SUBSET s : t # s => Of(t)[t] \in Nat
  BY <1>2
<1>4. s # {} => x \in s /\ s \ {x} # s /\ s \ {x} \in SUBSET s
  BY FirstIn
<1>5. g \in [SUBSET s -> Nat]
  <2>1. s # {} => f[x] + Of(s \ {x})[s \ {x}] \in Nat
    BY <1>3, <1>4
  <2> QED
    BY <1>3, <2>1
<1>6. \A t \in SUBSET s : t # s => g[t] = Of(t)[t]
  <2> SUFFICES ASSUME NEW t \in SUBSET s, t # s PROVE g[t] = Of(t)[t]
    OBVIOUS
  <2>1. t = {} => Of(t)[t] = 0
    BY <1>2, UnfoldsAt
  <2> QED
    BY <2>1
<1>7. ASSUME NEW t \in SUBSET s, t # {} PROVE g[t] = f[First(t)] + g[t \ {First(t)}]
  <2>1. First(t) \in t /\ t \ {First(t)} \in SUBSET s /\ t \ {First(t)} # t /\ t \ {First(t)} # s
    BY <1>7, FirstIn
  <2>2. g[t \ {First(t)}] = Of(t \ {First(t)})[t \ {First(t)}]
    BY <1>6, <2>1
  <2>3. CASE t = s
    BY <1>7, <2>2, <2>3
  <2>4. CASE t # s
    <3>1. Unfolds(Of(t), f, t) /\ Unfolds(Of(t \ {First(t)}), f, t \ {First(t)})
      BY <1>2, <2>1, <2>4
    <3>2. Of(t)[t] = f[First(t)] + Of(t)[t \ {First(t)}]
      BY <1>7, <3>1, UnfoldsAt
    <3>3. IsFiniteSet(t \ {First(t)})
      BY <1>1, FS_Subset
    <3>4. Of(t \ {First(t)})[t \ {First(t)}] = Of(t)[t \ {First(t)}]
      <4> DEFINE u == t \ {First(t)}
      <4>1. u \subseteq t /\ u \in SUBSET u
        OBVIOUS
      <4> QED
        BY <3>1, <3>3, <4>1, UnfoldingsAgree
    <3> QED
      BY <1>6, <2>2, <2>4, <3>2, <3>4
  <2> QED
    BY <2>3, <2>4
<1>8. g[{}] = 0
  OBVIOUS
<1>9. Unfolds(g, f, s)
  <2>1. g = [t \in SUBSET s |-> g[t]]
    OBVIOUS
  <2>2. \A t \in SUBSET s : g[t] = IF t = {} THEN 0 ELSE f[First(t)] + g[t \ {First(t)}]
    BY <1>7, <1>8
  <2> HIDE DEF g
  <2>3. g = [t \in SUBSET s |-> IF t = {} THEN 0 ELSE f[First(t)] + g[t \ {First(t)}]]
    BY <2>1, <2>2
  <2> QED
    BY <2>3 DEF Unfolds
<1>10. Good(g, s)
  BY <1>5, <1>9
<1> HIDE DEF g, Good
<1> QED
  BY <1>1, <1>10

\* and that is the sum of the library.
LEMMA SumIs ==
  ASSUME NEW S, IsFiniteSet(S), NEW f, \A x \in S : f[x] \in Nat
  PROVE  \E g \in [SUBSET S -> Nat] : Unfolds(g, f, S) /\ SumFunctionOnSet(f, S) = g[S]
<1> DEFINE c == CHOOSE g : Unfolds(g, f, S)
<1>1. PICK g : Unfolds(g, f, S) /\ g \in [SUBSET S -> Nat]
  BY UnfoldingExists
<1>2. Unfolds(c, f, S)
  BY <1>1
<1>3. c = g
  <2>1. \A s \in SUBSET S : c[s] = g[s]
    <3> HIDE DEF c
    <3> QED
      BY <1>1, <1>2, UnfoldingsAgree
  <2>2. c = [s \in SUBSET S |-> c[s]]
    BY <1>2 DEF Unfolds
  <2> HIDE DEF c
  <2> QED
    BY <1>1, <2>1, <2>2
<1>4. SumFunctionOnSet(f, S) = c[S]
  BY DEF SumFunctionOnSet, FoldFunctionOnSet, MapThenFoldSet, Unfolds, First
<1> QED
  BY <1>1, <1>2, <1>3, <1>4

\* A sum of natural numbers over a finite set is one.
LEMMA SumTyped ==
  ASSUME NEW S, IsFiniteSet(S), NEW f, \A x \in S : f[x] \in Nat
  PROVE  SumFunctionOnSet(f, S) \in Nat
<1>1. PICK g \in [SUBSET S -> Nat] : SumFunctionOnSet(f, S) = g[S]
  BY SumIs
<1> QED
  BY <1>1

\* The sum over nothing.
LEMMA SumNone == ASSUME NEW f PROVE SumFunctionOnSet(f, {}) = 0
<1>1. PICK g : Unfolds(g, f, {}) /\ SumFunctionOnSet(f, {}) = g[{}]
  BY SumIs, FS_EmptySet
<1> QED
  BY <1>1, UnfoldsAt

\* The element that is taken off first is this one.
LEMMA SumFirst ==
  ASSUME NEW S, IsFiniteSet(S), NEW f, \A x \in S : f[x] \in Nat, S # {}
  PROVE  First(S) \in S /\ SumFunctionOnSet(f, S) = f[First(S)] + SumFunctionOnSet(f, S \ {First(S)})
<1> DEFINE s == S \ {First(S)}
<1>1. PICK g : Unfolds(g, f, S) /\ SumFunctionOnSet(f, S) = g[S]
  BY SumIs
<1>2. IsFiniteSet(s) /\ s \subseteq S
  BY FS_Subset
<1>3. PICK h : Unfolds(h, f, s) /\ SumFunctionOnSet(f, s) = h[s]
  <2> HIDE DEF s
  <2> QED
    BY <1>2, SumIs
<1>4. h[s] = g[s]
  <2> HIDE DEF s
  <2>1. \A t \in SUBSET s : h[t] = g[t]
    BY <1>1, <1>2, <1>3, UnfoldingsAgree
  <2> QED
    BY <2>1
<1> QED
  BY <1>1, <1>3, <1>4, UnfoldsAt, FirstIn

\* But it may be any.
LEMMA SumTakes ==
  ASSUME NEW S, IsFiniteSet(S), NEW f, \A x \in S : f[x] \in Nat
  PROVE  \A x \in S : SumFunctionOnSet(f, S) = f[x] + SumFunctionOnSet(f, S \ {x})
<1> DEFINE Ok(s) == \A x \in s : SumFunctionOnSet(f, s) = f[x] + SumFunctionOnSet(f, s \ {x})
           P == {s \in SUBSET S : Ok(s)}
<1> SUFFICES ASSUME S \notin P PROVE FALSE
  OBVIOUS
<1>0. \E s \in SUBSET S : s \notin P
  OBVIOUS
<1>1. PICK s \in SUBSET S : s \notin P /\ \A t \in SUBSET s : t # s => t \in P
  <2> HIDE DEF P
  <2> QED
    BY <1>0, LeastSet
<1>2. PICK x \in s : SumFunctionOnSet(f, s) # f[x] + SumFunctionOnSet(f, s \ {x})
  BY <1>1
<1> DEFINE y == First(s)
<1>3. \A t \in SUBSET s : IsFiniteSet(t) /\ SumFunctionOnSet(f, t) \in Nat
  BY FS_Subset, SumTyped
<1>4. y \in s /\ SumFunctionOnSet(f, s) = f[y] + SumFunctionOnSet(f, s \ {y})
  BY <1>2, <1>3, SumFirst
<1> HIDE DEF y
<1>5. x # y
  BY <1>2, <1>4
<1>6. Ok(s \ {y}) /\ Ok(s \ {x})
  BY <1>1, <1>2, <1>4
<1>7. (s \ {y}) \ {x} = (s \ {x}) \ {y} /\ x \in s \ {y} /\ y \in s \ {x}
  BY <1>2, <1>4, <1>5
<1>8. PICK others : others = SumFunctionOnSet(f, (s \ {y}) \ {x}) /\ others \in Nat
  BY <1>3
<1>9. SumFunctionOnSet(f, s \ {y}) = f[x] + others /\ SumFunctionOnSet(f, s \ {x}) = f[y] + others
  BY <1>6, <1>7, <1>8
<1> QED
  BY <1>2, <1>4, <1>8, <1>9

\* Functions that agree have the same sum.
LEMMA SumSame ==
  ASSUME NEW S, IsFiniteSet(S), NEW f, NEW h, \A x \in S : f[x] \in Nat /\ f[x] = h[x]
  PROVE  SumFunctionOnSet(f, S) = SumFunctionOnSet(h, S)
<1>1. PICK g : Unfolds(g, f, S) /\ SumFunctionOnSet(f, S) = g[S]
  BY SumIs
<1>2. PICK k : Unfolds(k, h, S) /\ SumFunctionOnSet(h, S) = k[S]
  BY SumIs
<1>3. \A t \in SUBSET S : g[t] = k[t]
  BY <1>1, <1>2, UnfoldingsAgree
<1> QED
  BY <1>1, <1>2, <1>3

\* Nothing adds up to nothing.
LEMMA SumZero ==
  ASSUME NEW S, IsFiniteSet(S), NEW f, \A x \in S : f[x] = 0
  PROVE  SumFunctionOnSet(f, S) = 0
<1> DEFINE P == {s \in SUBSET S : SumFunctionOnSet(f, s) = 0}
<1> SUFFICES ASSUME S \notin P PROVE FALSE
  OBVIOUS
<1>0. \E s \in SUBSET S : s \notin P
  OBVIOUS
<1>1. PICK s \in SUBSET S : s \notin P /\ \A t \in SUBSET s : t # s => t \in P
  <2> HIDE DEF P
  <2> QED
    BY <1>0, LeastSet, SMTT(30)
<1>2. s # {}
  BY <1>1, SumNone
<1>3. First(s) \in s /\ SumFunctionOnSet(f, s) = f[First(s)] + SumFunctionOnSet(f, s \ {First(s)})
  <2>1. IsFiniteSet(s) /\ \A x \in s : f[x] \in Nat
    BY FS_Subset
  <2> QED
    BY <1>2, <2>1, SumFirst
<1>4. s \ {First(s)} \in P
  BY <1>1, <1>3
<1> QED
  BY <1>1, <1>3, <1>4

\* One more for one element is one more in all.
LEMMA SumOneMore ==
  ASSUME NEW S, IsFiniteSet(S), NEW f, \A x \in S : f[x] \in Nat, NEW y \in S,
         NEW h, h[y] = f[y] + 1, \A x \in S : x # y => h[x] = f[x]
  PROVE  SumFunctionOnSet(h, S) = SumFunctionOnSet(f, S) + 1
<1>1. IsFiniteSet(S \ {y})
  BY FS_Subset
<1>2. \A x \in S \ {y} : f[x] \in Nat /\ f[x] = h[x]
  OBVIOUS
<1>3. SumFunctionOnSet(f, S \ {y}) = SumFunctionOnSet(h, S \ {y})
  BY <1>1, <1>2, SumSame
<1>4. SumFunctionOnSet(f, S \ {y}) \in Nat
  BY <1>1, SumTyped
<1>5. SumFunctionOnSet(f, S) = f[y] + SumFunctionOnSet(f, S \ {y})
  BY SumTakes
<1>6. \A x \in S : h[x] \in Nat
  OBVIOUS
<1>7. SumFunctionOnSet(h, S) = h[y] + SumFunctionOnSet(h, S \ {y})
  BY <1>6, SumTakes
<1> QED
  BY <1>3, <1>4, <1>5, <1>7

\* A part sums up to no more than the whole.
LEMMA SumPart ==
  ASSUME NEW S, IsFiniteSet(S), NEW f, \A x \in S : f[x] \in Nat
  PROVE  \A T \in SUBSET S : SumFunctionOnSet(f, T) <= SumFunctionOnSet(f, S)
<1> DEFINE Ok(s) == \A T \in SUBSET s : SumFunctionOnSet(f, T) <= SumFunctionOnSet(f, s)
           P == {s \in SUBSET S : Ok(s)}
<1> SUFFICES ASSUME S \notin P PROVE FALSE
  OBVIOUS
<1>0. \E s \in SUBSET S : s \notin P
  OBVIOUS
<1>1. PICK s \in SUBSET S : s \notin P /\ \A t \in SUBSET s : t # s => t \in P
  <2> HIDE DEF P
  <2> QED
    BY <1>0, LeastSet
<1>2. PICK T \in SUBSET s : ~(SumFunctionOnSet(f, T) <= SumFunctionOnSet(f, s))
  BY <1>1
<1>3. \A t \in SUBSET S : IsFiniteSet(t) /\ SumFunctionOnSet(f, t) \in Nat
  BY FS_Subset, SumTyped
<1>4. T # s
  BY <1>2, <1>3
<1>5. PICK x \in s : x \notin T
  BY <1>4
<1>6. SumFunctionOnSet(f, s) = f[x] + SumFunctionOnSet(f, s \ {x})
  BY <1>3, SumTakes
<1>7. SumFunctionOnSet(f, T) <= SumFunctionOnSet(f, s \ {x})
  BY <1>1, <1>5
<1> QED
  BY <1>2, <1>3, <1>6, <1>7

\* And two parts that have it all, no less.
LEMMA SumParts ==
  ASSUME NEW S, IsFiniteSet(S), NEW f, \A x \in S : f[x] \in Nat, NEW A \in SUBSET S, NEW B \in SUBSET S
  PROVE  SumFunctionOnSet(f, A \cup B) <= SumFunctionOnSet(f, A) + SumFunctionOnSet(f, B)
<1> DEFINE P == {s \in SUBSET S : SumFunctionOnSet(f, A \cup s) <= SumFunctionOnSet(f, A) + SumFunctionOnSet(f, s)}
<1> SUFFICES ASSUME B \notin P PROVE FALSE
  OBVIOUS
<1>0. \E s \in SUBSET S : s \notin P
  OBVIOUS
<1>1. PICK s \in SUBSET S : s \notin P /\ \A t \in SUBSET s : t # s => t \in P
  <2> HIDE DEF P
  <2> QED
    BY <1>0, LeastSet
<1>2. \A t \in SUBSET S : IsFiniteSet(t) /\ SumFunctionOnSet(f, t) \in Nat
  BY FS_Subset, SumTyped
<1>3. s # {}
  <2> SUFFICES ASSUME s = {} PROVE FALSE
    OBVIOUS
  <2>1. A \cup s = A
    OBVIOUS
  <2> QED
    BY <1>1, <1>2, <2>1, SumNone
<1>4. PICK x \in s : SumFunctionOnSet(f, s) = f[x] + SumFunctionOnSet(f, s \ {x})
  BY <1>2, <1>3, SumTakes
<1>5. SumFunctionOnSet(f, A \cup (s \ {x})) <= SumFunctionOnSet(f, A) + SumFunctionOnSet(f, s \ {x})
  BY <1>1, <1>4
<1>6. SumFunctionOnSet(f, A \cup s) <= f[x] + SumFunctionOnSet(f, A \cup (s \ {x}))
  <2>1. CASE x \in A
    <3>1. A \cup (s \ {x}) = A \cup s /\ A \cup s \in SUBSET S
      BY <2>1
    <3>2. SumFunctionOnSet(f, A \cup s) = SumFunctionOnSet(f, A \cup (s \ {x}))
      BY <3>1
    <3>3. SumFunctionOnSet(f, A \cup s) \in Nat /\ f[x] \in Nat
      BY <1>2, <3>1
    <3> QED
      BY <3>2, <3>3
  <2>2. CASE x \notin A
    <3>1. (A \cup s) \ {x} = A \cup (s \ {x}) /\ x \in A \cup s /\ A \cup s \in SUBSET S
      BY <2>2
    <3>2. SumFunctionOnSet(f, A \cup s) = f[x] + SumFunctionOnSet(f, (A \cup s) \ {x})
      BY <1>2, <3>1, SumTakes
    <3>3. SumFunctionOnSet(f, (A \cup s) \ {x}) = SumFunctionOnSet(f, A \cup (s \ {x})) /\ A \cup (s \ {x}) \in SUBSET S
      BY <3>1
    <3>4. SumFunctionOnSet(f, A \cup (s \ {x})) \in Nat /\ f[x] \in Nat
      BY <1>2, <3>3
    <3> QED
      BY <3>2, <3>3, <3>4
  <2> QED
    BY <2>1, <2>2
<1>7. /\ SumFunctionOnSet(f, A \cup s) \in Nat /\ SumFunctionOnSet(f, A \cup (s \ {x})) \in Nat
      /\ SumFunctionOnSet(f, s \ {x}) \in Nat /\ f[x] \in Nat /\ SumFunctionOnSet(f, A) \in Nat
  <2>1. A \cup s \in SUBSET S /\ A \cup (s \ {x}) \in SUBSET S /\ s \ {x} \in SUBSET S
    OBVIOUS
  <2> QED
    BY <1>2, <2>1
<1> QED
  BY <1>1, <1>4, <1>5, <1>6, <1>7

\* A multiple of a length, and less than it: nothing.
LEMMA NoMultiple ==
  ASSUME NEW m \in Nat \ {0}, NEW k \in Int, 0 <= m * k, m * k < m
  PROVE  k = 0
<1>1. k >= 1 => m * k >= m
  BY SMTT(20)
<1>2. k <= -1 => m * k <= -m
  BY SMTT(20)
<1> QED
  BY <1>1, <1>2

\* A month begins once.
LEMMA MonthBegins ==
  ASSUME NEW t \in Nat
  PROVE  MonthStart(t) \in 0 .. t /\ MonthStart(MonthStart(t)) = MonthStart(t)
<1>0. Month \in Nat \ {0}
  BY ApiAssumption
<1>1. PICK r : r = t % Month
  OBVIOUS
<1>2. r \in 0 .. Month - 1 /\ t = Month * (t \div Month) + r /\ t \div Month \in Int
  BY <1>0, <1>1, SMTT(20)
<1>3. PICK q \in Int : t = Month * q + r
  BY <1>2
<1>4. q >= 0
  BY <1>0, <1>2, <1>3, SMTT(20)
<1>5. MonthStart(t) = Month * q /\ Month * q \in 0 .. t
  BY <1>0, <1>1, <1>2, <1>3, <1>4, SMTT(20) DEF MonthStart
<1>6. (Month * q) % Month = 0
  <2>1. PICK u \in Nat : u = Month * q
    BY <1>5
  <2>2. u = Month * (u \div Month) + (u % Month) /\ u % Month \in 0 .. Month - 1 /\ u \div Month \in Int
    BY <1>0, <2>1, SMTT(20)
  <2>3. PICK d \in Int : d = q - (u \div Month)
    BY <2>2
  <2>4. Month * d = u % Month
    BY <1>0, <2>1, <2>2, <2>3, SMTT(20)
  <2>5. d = 0
    BY <1>0, <2>2, <2>4, NoMultiple
  <2> QED
    BY <1>0, <2>1, <2>4, <2>5
<1> QED
  BY <1>5, <1>6 DEF MonthStart

\* The instants from a on, and those before b among them.
From(a) == {u \in Instants : a <= u}
Span(a, b) == {u \in Instants : a <= u /\ u < b}

\* What was admitted of a key (h) since its window began (a) is what is counted (n); what was
\* admitted less than a window's length before that is no more than a window may have.
Metered(h, a, n, now) ==
  /\ SumFunctionOnSet(h, From(a)) = n
  /\ \A t \in Instants : t + Minute > a => SumFunctionOnSet(h, Span(t, a)) <= PerMinute
  /\ \A t \in Instants : SumFunctionOnSet(h, Span(t, t + Minute)) <= 2 * PerMinute
  /\ \A t \in Instants : h[t] > 0 => t <= now /\ t < a + Minute

\* There are finitely many instants, and so are those of any span.
LEMMA InstantsFinite ==
  ASSUME NEW S \in SUBSET Instants
  PROVE  IsFiniteSet(S)
<1>1. IsFiniteSet(Instants)
  BY FS_Interval, TimeAssumption DEF Instants
<1> QED
  BY <1>1, FS_Subset

\* What was admitted in any span is a number.
LEMMA SumsOfHits ==
  ASSUME NEW h \in [Instants -> Nat]
  PROVE  /\ \A S \in SUBSET Instants : SumFunctionOnSet(h, S) \in Nat
         /\ \A S \in SUBSET Instants : \A T \in SUBSET S : SumFunctionOnSet(h, T) <= SumFunctionOnSet(h, S)
         /\ \A A, B \in SUBSET Instants : SumFunctionOnSet(h, A \cup B) <= SumFunctionOnSet(h, A) + SumFunctionOnSet(h, B)
<1>1. \A S \in SUBSET Instants : IsFiniteSet(S) /\ \A x \in S : h[x] \in Nat
  BY InstantsFinite
<1>2. IsFiniteSet(Instants) /\ \A x \in Instants : h[x] \in Nat
  BY InstantsFinite
<1> QED
  BY <1>1, <1>2, SumTyped, SumPart, SumParts

\* The limits and lengths are positive numbers.
LEMMA Lengths == PerMinute \in Nat \ {0} /\ Minute \in Nat \ {0} /\ Instants \subseteq Nat
  BY ApiAssumption, TimeAssumption DEF Instants

\* One hit more at an instant.
Hit(g, h, c) == g \in [Instants -> Nat] /\ g[c] = h[c] + 1 /\ \A x \in Instants : x # c => g[x] = h[x]

\* One more admitted is one more in a span it falls in,
LEMMA OneHit ==
  ASSUME NEW h \in [Instants -> Nat], NEW c \in Instants, NEW g, g = [h EXCEPT ![c] = @ + 1]
  PROVE  Hit(g, h, c)
  BY DEF Hit

\* It is one more in what has it, and nothing elsewhere.
LEMMA HitIn ==
  ASSUME NEW h \in [Instants -> Nat], NEW c \in Instants, NEW g, Hit(g, h, c), NEW S \in SUBSET Instants, c \in S
  PROVE  SumFunctionOnSet(g, S) = SumFunctionOnSet(h, S) + 1
<1>1. IsFiniteSet(S) /\ \A x \in S : h[x] \in Nat
  BY InstantsFinite
<1>2. g[c] = h[c] + 1 /\ \A x \in S : x # c => g[x] = h[x]
  BY DEF Hit
<1> QED
  BY <1>1, <1>2, SumOneMore

\* and changes none of the others.
LEMMA HitOut ==
  ASSUME NEW h \in [Instants -> Nat], NEW c \in Instants, NEW g, Hit(g, h, c), NEW S \in SUBSET Instants, c \notin S
  PROVE  SumFunctionOnSet(g, S) = SumFunctionOnSet(h, S)
<1>1. IsFiniteSet(S) /\ \A x \in S : h[x] \in Nat /\ h[x] = g[x]
  BY InstantsFinite DEF Hit
<1> QED
  BY <1>1, SumSame

\* No minute has more than two windows' worth, when it may only reach back into one.
LEMMA TwoWindows ==
  ASSUME NEW h \in [Instants -> Nat], NEW a \in Instants, NEW t \in Instants,
         SumFunctionOnSet(h, From(a)) <= PerMinute, SumFunctionOnSet(h, Span(t, a)) <= PerMinute
  PROVE  SumFunctionOnSet(h, Span(t, t + Minute)) <= 2 * PerMinute
<1>0. PerMinute \in Nat /\ Minute \in Nat
  BY Lengths
<1>1. Span(t, t + Minute) \subseteq Span(t, a) \cup From(a)
  BY TimeAssumption, <1>0 DEF Span, From, Instants
<1>2. Span(t, a) \in SUBSET Instants /\ From(a) \in SUBSET Instants
  BY DEF Span, From
<1>3. Span(t, a) \cup From(a) \in SUBSET Instants
  BY <1>2
<1>4. SumFunctionOnSet(h, Span(t, t + Minute)) <= SumFunctionOnSet(h, Span(t, a) \cup From(a))
  BY <1>1, <1>3, SumsOfHits
<1>5. SumFunctionOnSet(h, Span(t, a) \cup From(a)) <= SumFunctionOnSet(h, Span(t, a)) + SumFunctionOnSet(h, From(a))
  BY <1>2, SumsOfHits
<1>6. PICK v, w, x, y \in Nat : /\ v = SumFunctionOnSet(h, Span(t, t + Minute)) /\ w = SumFunctionOnSet(h, Span(t, a) \cup From(a))
                         /\ x = SumFunctionOnSet(h, Span(t, a)) /\ y = SumFunctionOnSet(h, From(a))
  BY <1>1, <1>2, <1>3, SumsOfHits
<1>7. v <= w /\ w <= x + y /\ x <= PerMinute /\ y <= PerMinute
  BY <1>4, <1>5, <1>6
<1>8. v <= 2 * PerMinute
  BY <1>0, <1>7
<1> QED
  BY <1>6, <1>8

\* A request is counted in the window.
LEMMA WindowCounts ==
  ASSUME NEW h \in [Instants -> Nat], NEW a \in Instants, NEW n \in 0 .. PerMinute, NEW c \in Instants,
         Metered(h, a, n, c), n < PerMinute, a <= c, c < a + Minute, NEW g, Hit(g, h, c)
  PROVE  Metered(g, a, n + 1, c)
<1> USE Lengths
<1>1. SumFunctionOnSet(g, From(a)) = n + 1
  <2>1. From(a) \in SUBSET Instants /\ c \in From(a)
    BY DEF From
  <2>2. SumFunctionOnSet(g, From(a)) = SumFunctionOnSet(h, From(a)) + 1
    BY <2>1, HitIn
  <2> QED
    BY <2>2 DEF Metered
<1>2. ASSUME NEW t \in Instants PROVE SumFunctionOnSet(g, Span(t, a)) = SumFunctionOnSet(h, Span(t, a))
  <2>1. Span(t, a) \in SUBSET Instants /\ c \notin Span(t, a)
    BY DEF Span
  <2> QED
    BY <2>1, HitOut
<1>3. ASSUME NEW t \in Instants PROVE SumFunctionOnSet(g, Span(t, t + Minute)) <= 2 * PerMinute
  <2>1. CASE t + Minute > a
    <3>1. SumFunctionOnSet(g, Span(t, a)) <= PerMinute
      BY <1>2, <2>1 DEF Metered
    <3>2. SumFunctionOnSet(g, From(a)) <= PerMinute
      BY <1>1
    <3> QED
      BY <3>1, <3>2, TwoWindows DEF Hit
  <2>2. CASE ~(t + Minute > a)
    <3>1. Span(t, t + Minute) \in SUBSET Instants /\ c \notin Span(t, t + Minute)
      BY <2>2 DEF Span
    <3>2. SumFunctionOnSet(g, Span(t, t + Minute)) = SumFunctionOnSet(h, Span(t, t + Minute))
      BY <3>1, HitOut
    <3> QED
      BY <3>2 DEF Metered
  <2> QED
    BY <2>1, <2>2
<1>4. ASSUME NEW t \in Instants, g[t] > 0 PROVE t <= c /\ t < a + Minute
  <2>1. CASE t = c
    BY <2>1
  <2>2. CASE t # c
    <3>1. h[t] > 0
      BY <1>4, <2>2 DEF Hit
    <3> QED
      BY <3>1 DEF Metered
  <2> QED
    BY <2>1, <2>2
<1>5. \A t \in Instants : t + Minute > a => SumFunctionOnSet(g, Span(t, a)) <= PerMinute
  BY <1>2 DEF Metered
<1> QED
  BY <1>1, <1>3, <1>4, <1>5 DEF Metered

\* A request begins a window, when the one before is over.
LEMMA WindowBegins ==
  ASSUME NEW h \in [Instants -> Nat], NEW a \in Instants, NEW n \in 0 .. PerMinute, NEW c \in Instants,
         Metered(h, a, n, c), a + Minute <= c, NEW g, Hit(g, h, c)
  PROVE  Metered(g, c, 1, c)
<1> USE Lengths
<1>1. SumFunctionOnSet(g, From(c)) = 1
  <2>1. From(c) \in SUBSET Instants /\ c \in From(c)
    BY DEF From
  <2>2. ASSUME NEW t \in From(c) PROVE h[t] = 0
    <3>1. t \in Instants /\ t >= c /\ h[t] \in Nat
      BY DEF From
    <3>2. h[t] > 0 => t < a + Minute
      BY <3>1 DEF Metered
    <3> QED
      BY <3>1, <3>2
  <2>3. SumFunctionOnSet(h, From(c)) = 0
    BY <2>1, <2>2, InstantsFinite, SumZero
  <2>4. SumFunctionOnSet(g, From(c)) = SumFunctionOnSet(h, From(c)) + 1
    BY <2>1, HitIn
  <2> QED
    BY <2>3, <2>4
<1>2. ASSUME NEW t \in Instants, t + Minute > c PROVE SumFunctionOnSet(g, Span(t, c)) <= PerMinute
  <2>1. Span(t, c) \in SUBSET Instants /\ c \notin Span(t, c)
    BY DEF Span
  <2>2. SumFunctionOnSet(g, Span(t, c)) = SumFunctionOnSet(h, Span(t, c))
    BY <2>1, HitOut
  <2>3. Span(t, c) \in SUBSET From(a) /\ From(a) \in SUBSET Instants
    <3>1. t >= a
      BY <1>2
    <3>2. \A u \in Instants : t <= u => a <= u
      BY <3>1
    <3> QED
      BY <3>2 DEF Span, From
  <2>4. SumFunctionOnSet(h, Span(t, c)) <= SumFunctionOnSet(h, From(a)) /\ SumFunctionOnSet(h, Span(t, c)) \in Nat
    BY <2>1, <2>3, SumsOfHits
  <2>5. SumFunctionOnSet(h, From(a)) = n
    BY DEF Metered
  <2> QED
    BY <2>2, <2>4, <2>5
<1>3. ASSUME NEW t \in Instants PROVE SumFunctionOnSet(g, Span(t, t + Minute)) <= 2 * PerMinute
  <2>1. CASE t + Minute > c
    <3>1. SumFunctionOnSet(g, From(c)) <= PerMinute
      BY <1>1
    <3> QED
      BY <1>2, <2>1, <3>1, TwoWindows DEF Hit
  <2>2. CASE ~(t + Minute > c)
    <3>1. Span(t, t + Minute) \in SUBSET Instants /\ c \notin Span(t, t + Minute)
      BY <2>2 DEF Span
    <3>2. SumFunctionOnSet(g, Span(t, t + Minute)) = SumFunctionOnSet(h, Span(t, t + Minute))
      BY <3>1, HitOut
    <3> QED
      BY <3>2 DEF Metered
  <2> QED
    BY <2>1, <2>2
<1>4. ASSUME NEW t \in Instants, g[t] > 0 PROVE t <= c /\ t < c + Minute
  <2>1. CASE t = c
    BY <2>1
  <2>2. CASE t # c
    <3>1. h[t] > 0
      BY <1>4, <2>2 DEF Hit
    <3>2. t <= c
      BY <3>1 DEF Metered
    <3> QED
      BY <3>2
  <2> QED
    BY <2>1, <2>2
<1> QED
  BY <1>1, <1>2, <1>3, <1>4 DEF Metered

\* A key that was never used may begin its window at any time.
LEMMA WindowFresh ==
  ASSUME NEW h \in [Instants -> Nat], \A t \in Instants : h[t] = 0, NEW a \in Instants, NEW c \in Instants
  PROVE  Metered(h, a, 0, c)
<1>1. ASSUME NEW S \in SUBSET Instants PROVE SumFunctionOnSet(h, S) = 0
  <2>1. \A t \in S : h[t] = 0
    OBVIOUS
  <2> QED
    BY <2>1, InstantsFinite, SumZero
<1>2. From(a) \in SUBSET Instants /\ \A x, y : Span(x, y) \in SUBSET Instants
  BY DEF From, Span
<1> QED
  BY <1>1, <1>2, ApiAssumption DEF Metered

\* The steps of a request, and what it has read, as the model types them.
Steps_ == {"idle", "lookup", "consume", "insert", "page", "more", "all", "prepare", "upsert", "reset", "charge",
           "row", "audit", "stream"}
Call == [pc : Steps_, key : Keys, route : Routes, now : 0 .. clock, month : Months, from : SUBSET ProgramIds,
         listed : Seq(ProgramIds)]

\* A key nobody has made has let nothing in; one that was made is metered, and let nothing in when it was not good.
KeyTrue(k) ==
  /\ ~keys[k].made => keys[k].revoked = Never /\ keys[k].count = 0 /\ \A t \in Instants : hits[k][t] = 0
  /\ Metered(hits[k], keys[k].start, keys[k].count, clock)
  /\ \A t \in Instants : hits[k][t] > 0 => t <= keys[k].revoked /\ ~Expired(keys[k].expires, t)

\* A request that comes to be counted has a key, and one that charges a row to charge. What it has to list
\* is among what it has listed, or comes after it.
FitsCall(q) ==
  /\ q.pc = "consume" => keys[q.key].made
  /\ q.pc \in {"reset", "charge"} => quota.row
  /\ IsInjective(q.listed) /\ q.from \subseteq programs
  /\ \A p \in q.from : p \in ToSet(q.listed) \/ \A r \in ToSet(q.listed) : p > r
  /\ q.pc = "all" => q.from \subseteq ToSet(q.listed)
CallTrue(c) == FitsCall(calls[c])

\* The month of the quota's row is the last that was charged, and charged as the row says.
MonthTrue ==
  /\ ~quota.row => \A m \in Months : charged[m] = 0
  /\ charged[quota.period] = quota.used
  /\ \A m \in Months : charged[m] <= Monthly /\ (m > quota.period => charged[m] = 0)

\* What is preserved by every step of the API.
ApiInv == clock \in Instants /\ ApiTypeOK /\ (\A k \in Keys : KeyTrue(k)) /\ (\A c \in Callers : CallTrue(c)) /\ MonthTrue /\ MonthIsPaid

\* What is preserved is enough: no minute reaches into more than two windows.
LEMMA ApiMeters == ApiInv => KeysAreMetered
<1> SUFFICES ASSUME ApiInv PROVE KeysAreMetered
  OBVIOUS
<1>1. ASSUME NEW k \in Keys PROVE KeyIsMetered(k)
  <2>0. keys[k].start \in Nat /\ keys[k].count \in 0 .. PerMinute /\ LastTick \in Nat /\ Minute \in Nat \ {0}
    BY TimeAssumption, Lengths DEF ApiInv, ApiTypeOK, Instants
  <2>1. {t \in Instants : keys[k].start <= t /\ t <= LastTick} = From(keys[k].start)
    BY <2>0 DEF From, Instants
  <2>2. \A t \in Instants : {u \in Instants : t <= u /\ u <= t + Minute - 1} = Span(t, t + Minute)
    <3> SUFFICES ASSUME NEW t \in Instants PROVE {u \in Instants : t <= u /\ u <= t + Minute - 1} = Span(t, t + Minute)
      OBVIOUS
    <3>1. \A u \in Instants : u <= t + Minute - 1 <=> u < t + Minute
      BY <2>0, Lengths
    <3> QED
      BY <3>1 DEF Span
  <2>3. KeyTrue(k)
    BY DEF ApiInv
  <2>4. SumFunctionOnSet(hits[k], {t \in Instants : keys[k].start <= t /\ t <= LastTick}) = keys[k].count
    BY <2>1, <2>3 DEF KeyTrue, Metered
  <2>5. \A t \in Instants : SumFunctionOnSet(hits[k], {u \in Instants : t <= u /\ u <= t + Minute - 1}) <= 2 * PerMinute
    BY <2>2, <2>3 DEF KeyTrue, Metered
  <2> QED
    BY <2>0, <2>3, <2>4, <2>5 DEF KeyIsMetered, KeyTrue
<1>2. PagesMeet
  BY DEF ApiInv, CallTrue, FitsCall, PagesMeet, Listed
<1> QED
  BY <1>1, <1>2 DEF ApiInv, KeysAreMetered

\* Months are finitely many instants, and a month begins where it begins.
LEMMA MonthsTyped ==
  /\ IsFiniteSet(Months) /\ Months \subseteq Nat /\ 0 \in Months
  /\ \A t \in Instants : MonthStart(t) \in Months
  /\ \A m \in Months : MonthStart(m) = m
<1>1. \A t \in Instants : t \in Nat /\ MonthStart(t) \in Instants /\ MonthStart(t) <= t
  BY MonthBegins, TimeAssumption DEF Instants
<1>2. Months \subseteq Instants
  BY <1>1 DEF Months
<1>3. 0 \in Instants
  BY TimeAssumption DEF Instants
<1>4. MonthStart(0) = 0
  BY MonthBegins
<1> QED
  BY <1>1, <1>2, <1>3, <1>4, InstantsFinite, Lengths, MonthBegins DEF Months

\* Nobody is being served.
LEMMA NoCallTyped ==
  /\ clock \in Instants => NoCall \in Call
  /\ NoCall.pc = "idle" /\ NoCall.from = {} /\ NoCall.listed = <<>>
<1>1. (CHOOSE k \in Keys : TRUE) \in Keys
  BY ApiAssumption
<1>2. "look" \in Routes
  BY DEF Routes, Needs
<1>3. clock \in Instants => 0 \in 0 .. clock
  BY Lengths
<1>4. <<>> \in Seq(ProgramIds)
  OBVIOUS
<1> QED
  BY <1>1, <1>2, <1>3, <1>4, MonthsTyped DEF NoCall, Call, Steps_

\* How many requests are at a step, before and after one of them moves.
Serving(p) == Cardinality({c \in Callers : calls[c].pc = p})
LEMMA CallMoves ==
  ASSUME NEW c \in Callers, \A d \in Callers : d # c => calls'[d].pc = calls[d].pc, NEW CONSTANT p
  PROVE  /\ Serving(p) \in Nat
         /\ Serving(p)' = Serving(p) - (IF calls[c].pc = p THEN 1 ELSE 0) + (IF calls'[c].pc = p THEN 1 ELSE 0)
<1> DEFINE F == {d \in Callers : calls[d].pc = p}
           G == {d \in Callers : calls'[d].pc = p}
           R == {d \in Callers : d # c /\ calls[d].pc = p}
<1>1. IsFiniteSet(R) /\ IsFiniteSet(F)
  <2>1. R \in SUBSET Callers /\ F \in SUBSET Callers /\ IsFiniteSet(Callers)
    BY ApiAssumption
  <2> QED
    BY <2>1, FS_Subset
<1>2. F = (IF calls[c].pc = p THEN R \cup {c} ELSE R) /\ G = (IF calls'[c].pc = p THEN R \cup {c} ELSE R)
  OBVIOUS
<1>3. c \notin R
  OBVIOUS
<1> HIDE DEF F, G, R
<1>4. Cardinality(R) \in Nat /\ Cardinality(F) \in Nat /\ Cardinality(R \cup {c}) = Cardinality(R) + 1
  BY <1>1, <1>3, FS_AddElement, FS_CardinalityType
<1>5. /\ Cardinality(F) = Cardinality(R) + (IF calls[c].pc = p THEN 1 ELSE 0)
      /\ Cardinality(G) = Cardinality(R) + (IF calls'[c].pc = p THEN 1 ELSE 0)
  BY <1>2, <1>4
<1>6. Cardinality(G) = Cardinality(F) - (IF calls[c].pc = p THEN 1 ELSE 0) + (IF calls'[c].pc = p THEN 1 ELSE 0)
  BY <1>4, <1>5
<1> QED
  BY <1>4, <1>6 DEF F, G, Serving

\* A request is answered, or goes on, and the others stay as they are.
LEMMA CallStep ==
  ASSUME ApiInv, NEW c \in Callers, NEW x \in Call, calls' = [calls EXCEPT ![c] = x], clock' = clock, FitsCall(x)',
         programs \subseteq programs', quota.row => quota'.row, \A k \in Keys : keys[k].made => keys'[k].made
  PROVE  /\ calls' \in [Callers -> Call]
         /\ \A d \in Callers : CallTrue(d)'
         /\ calls'[c] = x /\ \A d \in Callers : d # c => calls'[d] = calls[d]
         /\ \A p : Serving(p) \in Nat /\ Serving(p)' = Serving(p) - (IF calls[c].pc = p THEN 1 ELSE 0) + (IF x.pc = p THEN 1 ELSE 0)
<1>1. calls \in [Callers -> Call] /\ \A d \in Callers : CallTrue(d)
  BY DEF ApiInv, ApiTypeOK, Call, Steps_
<1>2. calls' \in [Callers -> Call] /\ calls'[c] = x /\ \A d \in Callers : d # c => calls'[d] = calls[d]
  BY <1>1
<1>3. ASSUME NEW d \in Callers PROVE CallTrue(d)'
  <2>1. CASE d = c
    BY <1>2, <2>1 DEF CallTrue
  <2>2. CASE d # c
    <3>1. FitsCall(calls[d]) /\ calls'[d] = calls[d] /\ calls[d].key \in Keys
      BY <1>1, <1>2, <2>2 DEF CallTrue, Call
    <3> QED
      BY <3>1 DEF FitsCall, CallTrue
  <2> QED
    BY <2>1, <2>2
<1>4. ASSUME NEW CONSTANT p PROVE Serving(p) \in Nat /\ Serving(p)' = Serving(p) - (IF calls[c].pc = p THEN 1 ELSE 0) + (IF x.pc = p THEN 1 ELSE 0)
  <2>1. \A d \in Callers : d # c => calls'[d].pc = calls[d].pc
    BY <1>2
  <2> QED
    BY <1>2, <2>1, CallMoves
<1> QED
  BY <1>2, <1>3, <1>4

\* Nobody being served fits any state of the workspace.
LEMMA NoCallFits == FitsCall(NoCall)
<1>1. IsInjective(<<>>) /\ ToSet(<<>>) = {}
  BY DEF IsInjective, ToSet
<1> QED
  BY <1>1, NoCallTyped DEF FitsCall

\* A key stays metered while time passes and nothing is admitted,
LEMMA KeysStay ==
  ASSUME ApiInv, keys' = keys, hits' = hits, clock' = clock \/ clock' = clock + 1
  PROVE  \A k \in Keys : KeyTrue(k)'
<1> SUFFICES ASSUME NEW k \in Keys PROVE KeyTrue(k)'
  OBVIOUS
<1>1. KeyTrue(k) /\ clock \in Nat
  BY Lengths DEF ApiInv
<1>2. \A t \in Instants : t <= clock => t <= clock'
  BY <1>1, Lengths
<1> QED
  BY <1>1, <1>2 DEF KeyTrue, Metered, Expired

\* and the months paid while nothing is charged.
LEMMA MonthsStay ==
  ASSUME ApiInv, quota' = quota, charged' = charged PROVE MonthTrue'
  BY DEF ApiInv, MonthTrue

\* The step of a request that neither pays nor makes a run.
LEMMA FreeStep ==
  ASSUME ApiInv, NEW c \in Callers, NEW x \in Call, calls' = [calls EXCEPT ![c] = x], clock' = clock, FitsCall(x)',
         calls[c].pc \notin {"row", "audit", "stream"}, x.pc \notin {"row", "audit", "stream"},
         programs \subseteq programs', programs' \subseteq ProgramIds, UNCHANGED <<keys, quota, runs, hits, charged>>
  PROVE  ApiInv'
<1>1. /\ calls' \in [Callers -> Call] /\ \A d \in Callers : CallTrue(d)'
      /\ \A p : Serving(p) \in Nat /\ Serving(p)' = Serving(p) - (IF calls[c].pc = p THEN 1 ELSE 0) + (IF x.pc = p THEN 1 ELSE 0)
  BY CallStep
<1>2. Serving("row")' = Serving("row") /\ Serving("audit")' = Serving("audit") /\ Serving("stream")' = Serving("stream")
  <2>1. \A p \in {"row", "audit", "stream"} : Serving(p) \in Nat /\ Serving(p)' = Serving(p) - 0 + 0
    BY <1>1
  <2> QED
    BY <2>1
<1>3. MonthIsPaid'
  BY <1>2 DEF ApiInv, MonthIsPaid, Serving
<1>4. ApiTypeOK'
  BY <1>1 DEF ApiInv, ApiTypeOK, Call, Steps_
<1> QED
  BY <1>1, <1>3, <1>4, KeysStay, MonthsStay DEF ApiInv

\* A request is answered.
LEMMA AnswerStep ==
  ASSUME ApiInv, NEW c \in Callers, Answer(c), clock' = clock, calls[c].pc \notin {"row", "audit", "stream"},
         programs \subseteq programs', programs' \subseteq ProgramIds, UNCHANGED <<keys, quota, runs, hits, charged>>
  PROVE  ApiInv'
<1>1. NoCall \in Call
  BY NoCallTyped DEF ApiInv
<1>2. FitsCall(NoCall)'
  <2>1. IsInjective(<<>>) /\ ToSet(<<>>) = {}
    BY DEF IsInjective, ToSet
  <2> QED
    BY <2>1, NoCallTyped DEF FitsCall, NoCall
<1>3. NoCall.pc = "idle"
  BY NoCallTyped
<1> QED
  BY <1>1, <1>2, <1>3, FreeStep DEF Answer

\* It goes on, having read nothing it keeps.
LEMMA GotoStep ==
  ASSUME ApiInv, NEW c \in Callers, NEW p \in Steps_, Goto(c, p), clock' = clock, calls[c].pc \notin {"row", "audit", "stream"},
         p \notin {"row", "audit", "stream", "all"}, p = "consume" => keys[calls[c].key].made,
         p \in {"reset", "charge"} => quota.row, UNCHANGED <<programs, keys, quota, runs, hits, charged>>
  PROVE  ApiInv'
<1>1. calls[c] \in Call /\ FitsCall(calls[c])
  BY DEF ApiInv, ApiTypeOK, Call, Steps_, CallTrue
<1>2. PICK x : x = [calls[c] EXCEPT !.pc = p]
  OBVIOUS
<1>3. x \in Call /\ x.pc = p /\ x.key = calls[c].key /\ x.listed = calls[c].listed /\ x.from = calls[c].from
  BY <1>1, <1>2 DEF Call
<1>4. FitsCall(x)'
  BY <1>1, <1>3 DEF FitsCall
<1>5. calls' = [calls EXCEPT ![c] = x]
  BY <1>2 DEF Goto
<1>6. programs \subseteq ProgramIds
  BY DEF ApiInv, ApiTypeOK
<1> QED
  BY <1>3, <1>4, <1>5, <1>6, FreeStep

\* A request that lists keeps the programs it must find.
LEMMA ArriveStep ==
  ASSUME ApiInv, NEW c \in Callers, NEW k \in Keys, NEW route \in Routes, Arrive(c, k, route)
  PROVE  ApiInv'
<1>1. PICK x : x = [NoCall EXCEPT !.pc = "lookup", !.key = k, !.route = route, !.now = clock,
                                  !.from = IF route = "list" THEN programs ELSE {}]
  OBVIOUS
<1>2. NoCall \in Call /\ clock \in 0 .. clock /\ programs \subseteq ProgramIds
  <2>1. clock \in Instants /\ programs \subseteq ProgramIds
    BY DEF ApiInv, ApiTypeOK
  <2>2. clock \in 0 .. clock
    BY <2>1, Lengths
  <2> QED
    BY <2>1, <2>2, NoCallTyped
<1>3. x \in Call /\ x.pc = "lookup" /\ x.listed = <<>> /\ x.from \subseteq programs
  BY <1>1, <1>2, NoCallTyped DEF Call, Steps_
<1>4. IsInjective(<<>>) /\ ToSet(<<>>) = {}
  BY DEF IsInjective, ToSet
<1>5. FitsCall(x)'
  BY <1>3, <1>4 DEF FitsCall, Arrive
<1> QED
  BY <1>1, <1>2, <1>3, <1>5, FreeStep DEF Arrive

\* A request goes on to be counted only with a key that was made.
LEMMA LookupStep ==
  ASSUME ApiInv, NEW c \in Callers, Lookup(c)
  PROVE  ApiInv'
<1>1. CASE Answer(c)
  BY <1>1, AnswerStep DEF Lookup, ApiInv, ApiTypeOK
<1>2. CASE Goto(c, "consume") /\ keys[calls[c].key].made
  BY <1>2, GotoStep DEF Lookup, Steps_
<1> QED
  BY <1>1, <1>2 DEF Lookup

\* A program more takes nothing from what a listing must find.
LEMMA InsertStep ==
  ASSUME ApiInv, NEW c \in Callers, NEW p \in ProgramIds, Insert(c, p)
  PROVE  ApiInv'
  BY AnswerStep DEF Insert, ApiInv, ApiTypeOK

\* A page adds to the list what comes after it.
LEMMA PageStep ==
  ASSUME ApiInv, NEW c \in Callers, Page(c)
  PROVE  ApiInv'
<1>1. calls[c] \in Call /\ FitsCall(calls[c]) /\ calls[c].pc = "page" /\ programs \subseteq ProgramIds /\ ProgramIds \subseteq Nat
  BY ApiAssumption DEF ApiInv, ApiTypeOK, Call, Steps_, CallTrue, Page
<1>2. PICK l \in Seq(ProgramIds) : l = calls[c].listed
  BY <1>1 DEF Call
<1>3. After(c) = {p \in programs : \A q \in ToSet(l) : p > q}
  BY <1>2 DEF After, Listed
<1>4. PICK new \in SeqOf(After(c), PageSize) :
         /\ IsPageOf(new, After(c))
         /\ calls' = [calls EXCEPT ![c].listed = @ \o new, ![c].pc = IF ToSet(new) = After(c) THEN "all" ELSE "more"]
  BY DEF Page
<1>5. new \in Seq(ProgramIds) /\ DOMAIN new = 1 .. Len(new) /\ \A i \in 1 .. Len(new) : new[i] \in After(c)
  <2>1. PICK m \in 0 .. PageSize : new \in [1 .. m -> After(c)]
    BY <1>4 DEF SeqOf
  <2>2. m \in Nat /\ After(c) \subseteq ProgramIds
    <3>1. PageSize \in Nat
      BY ApiAssumption
    <3>2. After(c) \subseteq ProgramIds
      BY <1>1, <1>3
    <3> QED
      BY <2>1, <3>1, <3>2
  <2>3. new \in [1 .. m -> ProgramIds]
    BY <2>1, <2>2
  <2>4. new \in Seq(ProgramIds)
    BY <2>2, <2>3, IsASeq
  <2>5. Len(new) = m /\ DOMAIN new = 1 .. m
    BY <2>1, <2>2, <2>4, LenProperties
  <2> QED
    BY <2>1, <2>4, <2>5
<1>6. PICK s : s = l \o new
  OBVIOUS
<1>7. /\ s \in Seq(ProgramIds) /\ DOMAIN s = 1 .. Len(s) /\ Len(s) = Len(l) + Len(new) /\ DOMAIN l = 1 .. Len(l)
      /\ \A i \in 1 .. Len(s) : s[i] = IF i <= Len(l) THEN l[i] ELSE new[i - Len(l)]
  BY <1>2, <1>5, <1>6, ConcatProperties, LenProperties
<1>8. ToSet(s) = ToSet(l) \cup ToSet(new)
  <2>1. \A i \in 1 .. Len(l) : i \in 1 .. Len(s) /\ s[i] = l[i]
    BY <1>2, <1>5, <1>7, LenProperties
  <2>2. ASSUME NEW i \in 1 .. Len(new) PROVE \E j \in 1 .. Len(s) : s[j] = new[i]
    <3>0. Len(l) \in Nat /\ Len(new) \in Nat
      BY <1>2, <1>5, LenProperties
    <3>1. PICK j \in Int : j = Len(l) + i
      BY <3>0
    <3>2. j \in 1 .. Len(s) /\ ~(j <= Len(l)) /\ j - Len(l) = i
      BY <1>7, <3>0, <3>1
    <3> QED
      BY <1>7, <3>2
  <2>3. \A i \in 1 .. Len(s) : i \in 1 .. Len(l) \/ i - Len(l) \in 1 .. Len(new)
    BY <1>2, <1>5, <1>7, LenProperties
  <2>d. /\ \A v : v \in ToSet(l) <=> \E i \in 1 .. Len(l) : v = l[i]
        /\ \A v : v \in ToSet(new) <=> \E i \in 1 .. Len(new) : v = new[i]
        /\ \A v : v \in ToSet(s) <=> \E i \in 1 .. Len(s) : v = s[i]
    <3>1. DOMAIN l = 1 .. Len(l) /\ DOMAIN new = 1 .. Len(new) /\ DOMAIN s = 1 .. Len(s)
      BY <1>5, <1>7
    <3> QED
      BY <3>1 DEF ToSet
  <2>4. \A v : v \in ToSet(s) => v \in ToSet(l) \/ v \in ToSet(new)
    <3> SUFFICES ASSUME NEW i \in 1 .. Len(s) PROVE s[i] \in ToSet(l) \/ s[i] \in ToSet(new)
      BY <2>d
    <3>1. CASE i \in 1 .. Len(l)
      BY <2>1, <2>d, <3>1
    <3>2. CASE i - Len(l) \in 1 .. Len(new) /\ ~(i \in 1 .. Len(l))
      <4>1. i \in Nat /\ Len(l) \in Nat /\ ~(i <= Len(l))
        BY <1>2, <3>2, LenProperties
      <4>2. s[i] = new[i - Len(l)]
        BY <1>7, <4>1
      <4> QED
        BY <2>d, <3>2, <4>2
    <3> QED
      BY <2>3, <3>1, <3>2
  <2>5. \A v : v \in ToSet(l) => v \in ToSet(s)
    BY <1>7, <2>1 DEF ToSet
  <2>6. \A v : v \in ToSet(new) => v \in ToSet(s)
    BY <2>2, <2>d
  <2> QED
    BY <2>4, <2>5, <2>6
<1>9. ToSet(new) \subseteq After(c)
  BY <1>5 DEF ToSet
<1>10. IsInjective(s)
  <2>1. \A i, j \in 1 .. Len(l) : l[i] = l[j] => i = j
    BY <1>1, <1>2, <1>7 DEF FitsCall, IsInjective
  <2>2. \A i, j \in 1 .. Len(new) : new[i] = new[j] => i = j
    <3> SUFFICES ASSUME NEW i \in 1 .. Len(new), NEW j \in 1 .. Len(new), new[i] = new[j] PROVE i = j
      OBVIOUS
    <3>1. new[i] \in Nat /\ (i < j => new[i] < new[j]) /\ (j < i => new[j] < new[i])
      BY <1>1, <1>3, <1>4, <1>5 DEF IsPageOf
    <3> QED
      BY <3>1
  <2>3. \A i \in 1 .. Len(l), j \in 1 .. Len(new) : l[i] # new[j]
    <3> SUFFICES ASSUME NEW i \in 1 .. Len(l), NEW j \in 1 .. Len(new) PROVE l[i] # new[j]
      OBVIOUS
    <3>1. l[i] \in ToSet(l) /\ new[j] \in After(c)
      BY <1>5, <1>7 DEF ToSet
    <3>2. new[j] > l[i]
      BY <1>3, <3>1
    <3>3. new[j] \in ProgramIds /\ l[i] \in ProgramIds
      BY <1>2, <1>5, ElementOfSeq
    <3>4. new[j] \in Nat /\ l[i] \in Nat
      BY <1>1, <3>3
    <3> QED
      BY <3>2, <3>4
  <2> SUFFICES ASSUME NEW i \in 1 .. Len(s), NEW j \in 1 .. Len(s), s[i] = s[j] PROVE i = j
    BY <1>7 DEF IsInjective
  <2>4. Len(l) \in Nat /\ Len(new) \in Nat
    BY <1>2, <1>5, LenProperties
  <2>5. CASE i <= Len(l) /\ j <= Len(l)
    BY <1>7, <2>1, <2>4, <2>5
  <2>6. CASE i <= Len(l) /\ ~(j <= Len(l))
    <3>1. i \in 1 .. Len(l) /\ j - Len(l) \in 1 .. Len(new) /\ s[i] = l[i] /\ s[j] = new[j - Len(l)]
      BY <1>7, <2>4, <2>6
    <3> QED
      BY <2>3, <3>1
  <2>7. CASE ~(i <= Len(l)) /\ j <= Len(l)
    <3>1. j \in 1 .. Len(l) /\ i - Len(l) \in 1 .. Len(new) /\ s[j] = l[j] /\ s[i] = new[i - Len(l)]
      BY <1>7, <2>4, <2>7
    <3> QED
      BY <2>3, <3>1
  <2>8. CASE ~(i <= Len(l)) /\ ~(j <= Len(l))
    <3>1. i - Len(l) \in 1 .. Len(new) /\ j - Len(l) \in 1 .. Len(new) /\ s[i] = new[i - Len(l)] /\ s[j] = new[j - Len(l)]
      BY <1>7, <2>4, <2>8
    <3>2. i - Len(l) = j - Len(l)
      BY <2>2, <3>1
    <3> QED
      BY <2>4, <3>2
  <2> QED
    BY <2>5, <2>6, <2>7, <2>8
<1>11. PICK x : x = [calls[c] EXCEPT !.listed = s, !.pc = IF ToSet(new) = After(c) THEN "all" ELSE "more"]
  OBVIOUS
<1>12. x \in Call /\ x.pc \in {"all", "more"} /\ x.listed = s /\ x.from = calls[c].from /\ (x.pc = "all" => ToSet(new) = After(c))
  BY <1>1, <1>7, <1>11 DEF Call, Steps_
<1>13. ASSUME NEW p \in x.from PROVE p \in ToSet(s) \/ ((\A r \in ToSet(s) : p > r) /\ p \in After(c) \ ToSet(new))
  <2>1. p \in programs /\ p \in Nat
    BY <1>1, <1>12 DEF FitsCall
  <2>2. p \in ToSet(l) \/ \A r \in ToSet(l) : p > r
    BY <1>1, <1>2, <1>12 DEF FitsCall
  <2>3. CASE p \in ToSet(l) \/ p \in ToSet(new)
    BY <1>8, <2>3
  <2>4. CASE p \notin ToSet(l) /\ p \notin ToSet(new)
    <3>1. p \in After(c) \ ToSet(new)
      BY <1>3, <2>1, <2>2, <2>4
    <3>2. \A q \in ToSet(new) : q < p
      BY <1>4, <3>1 DEF IsPageOf
    <3>3. \A q \in ToSet(new) : q \in Nat
      BY <1>1, <1>3, <1>9
    <3> QED
      BY <1>8, <2>1, <2>2, <2>4, <3>1, <3>2, <3>3
  <2> QED
    BY <2>3, <2>4
<1>14. FitsCall(x)'
  <2>1. programs' = programs
    BY DEF Page
  <2>2. x.pc = "all" => x.from \subseteq ToSet(s)
    BY <1>12, <1>13
  <2>3. x.from \subseteq programs /\ IsInjective(x.listed)
    BY <1>1, <1>10, <1>12 DEF FitsCall
  <2> QED
    BY <1>12, <1>13, <2>1, <2>2, <2>3 DEF FitsCall
<1>15. calls' = [calls EXCEPT ![c] = x]
  <2>1. calls[c].listed = l /\ calls \in [Callers -> Call]
    BY <1>2 DEF ApiInv, ApiTypeOK, Call, Steps_
  <2> QED
    BY <1>1, <1>4, <1>6, <1>11, <2>1 DEF Call
<1> QED
  BY <1>1, <1>12, <1>14, <1>15, FreeStep DEF Page

\* The request for the next page keeps what was listed.
LEMMA MoreStep ==
  ASSUME ApiInv, NEW c \in Callers, More(c)
  PROVE  ApiInv'
<1>1. calls[c] \in Call /\ FitsCall(calls[c]) /\ calls[c].pc = "more" /\ programs \subseteq ProgramIds /\ clock \in 0 .. clock
  BY Lengths DEF ApiInv, ApiTypeOK, Call, Steps_, CallTrue, More
<1>2. PICK x : x = [calls[c] EXCEPT !.pc = "lookup", !.now = clock]
  OBVIOUS
<1>3. x \in Call /\ x.pc = "lookup" /\ x.listed = calls[c].listed /\ x.from = calls[c].from
  BY <1>1, <1>2 DEF Call, Steps_
<1>4. FitsCall(x)'
  BY <1>1, <1>3 DEF FitsCall, More
<1>5. calls' = [calls EXCEPT ![c] = x]
  BY <1>2 DEF More
<1> QED
  BY <1>1, <1>3, <1>4, <1>5, FreeStep DEF More

\* A request that may run reads the month it will charge.
LEMMA PrepareStep ==
  ASSUME ApiInv, NEW c \in Callers, NEW p, NEW available, Prepare(c, p, available)
  PROVE  ApiInv'
<1>1. calls[c] \in Call /\ FitsCall(calls[c]) /\ calls[c].pc = "prepare" /\ programs \subseteq ProgramIds /\ MonthStart(clock) \in Months
  BY MonthsTyped DEF ApiInv, ApiTypeOK, Call, Steps_, CallTrue, Prepare
<1>2. CASE Answer(c)
  BY <1>1, <1>2, AnswerStep DEF Prepare
<1>3. CASE calls' = [calls EXCEPT ![c].pc = "upsert", ![c].month = MonthStart(clock)]
  <2>1. PICK x : x = [calls[c] EXCEPT !.pc = "upsert", !.month = MonthStart(clock)]
    OBVIOUS
  <2>2. x \in Call /\ x.pc = "upsert" /\ x.listed = calls[c].listed /\ x.from = calls[c].from
    BY <1>1, <2>1 DEF Call, Steps_
  <2>3. FitsCall(x)'
    BY <1>1, <2>2 DEF FitsCall, Prepare
  <2>4. calls' = [calls EXCEPT ![c] = x]
    BY <1>3, <2>1
  <2> QED
    BY <1>1, <2>2, <2>3, <2>4, FreeStep DEF Prepare
<1> QED
  BY <1>2, <1>3 DEF Prepare

\* A query that fails before the charge leaves everything paid.
LEMMA FailStep ==
  ASSUME ApiInv, NEW c \in Callers, Fail(c)
  PROVE  ApiInv'
  BY AnswerStep DEF Fail, ApiInv, ApiTypeOK

\* The row of a key.
KeyRow == [made : BOOLEAN, scopes : SUBSET Scopes, expires : Dates, revoked : Dates,
           start : 0 .. clock, count : 0 .. PerMinute]

\* One row admits a request: the others are as they were.
LEMMA AdmitStep ==
  ASSUME ApiInv, NEW id \in Keys, keys[id].made, Admits(keys[id]), clock' = clock,
         keys' = [keys EXCEPT ![id].start = IF WindowOver(keys[id]) THEN clock ELSE keys[id].start,
                              ![id].count = IF WindowOver(keys[id]) THEN 1 ELSE keys[id].count + 1],
         hits' = [hits EXCEPT ![id][clock] = @ + 1]
  PROVE  /\ keys' \in [Keys -> KeyRow]
         /\ hits' \in [Keys -> [Instants -> Nat]]
         /\ \A k \in Keys : KeyTrue(k)' /\ keys'[k].made = keys[k].made
<1>1. /\ keys \in [Keys -> KeyRow]
      /\ hits \in [Keys -> [Instants -> Nat]] /\ clock \in Instants /\ \A k \in Keys : KeyTrue(k)
  BY DEF ApiInv, ApiTypeOK, KeyRow
<1>2. PICK r : r = keys[id]
  OBVIOUS
<1>3. r.start \in Instants /\ r.start \in Nat /\ r.count \in 0 .. PerMinute /\ clock \in 0 .. clock /\ clock \in Nat /\ r.start <= clock
  BY <1>1, <1>2, Lengths, TimeAssumption DEF Instants, KeyRow
<1>4. PICK n \in 0 .. PerMinute : n = IF WindowOver(r) THEN 1 ELSE r.count + 1
  BY <1>2, <1>3, Lengths DEF Admits
<1>5. PICK a \in 0 .. clock : a = IF WindowOver(r) THEN clock ELSE r.start
  BY <1>1, <1>2, <1>3 DEF KeyRow
<1>6. PICK x \in KeyRow : x = [r EXCEPT !.start = a, !.count = n]
  BY <1>1, <1>2 DEF KeyRow
<1>17. keys' = [keys EXCEPT ![id] = x]
  BY <1>1, <1>2, <1>4, <1>5, <1>6 DEF KeyRow
<1>18. x.start = a /\ x.count = n /\ x.made = r.made /\ x.revoked = r.revoked /\ x.expires = r.expires
  BY <1>1, <1>2, <1>6 DEF KeyRow
<1>7. /\ keys' \in [Keys -> KeyRow]
      /\ \A k \in Keys : k # id => keys'[k] = keys[k]
      /\ keys'[id].start = a /\ keys'[id].count = n /\ keys'[id].made = r.made /\ keys'[id].revoked = r.revoked /\ keys'[id].expires = r.expires
  <2>1. keys' \in [Keys -> KeyRow]
    BY <1>1, <1>17
  <2>2. keys'[id] = x
    BY <1>1, <1>17
  <2>3. \A k \in Keys : k # id => keys'[k] = keys[k]
    BY <1>1, <1>17
  <2> QED
    BY <1>18, <2>1, <2>2, <2>3
<1>8. PICK h : h = hits[id]
  OBVIOUS
<1>9. PICK g : g = [h EXCEPT ![clock] = @ + 1]
  OBVIOUS
<1>10. h \in [Instants -> Nat] /\ Hit(g, h, clock)
  BY <1>1, <1>8, <1>9, OneHit
<1>11. hits' \in [Keys -> [Instants -> Nat]] /\ hits'[id] = g /\ \A k \in Keys : k # id => hits'[k] = hits[k]
  BY <1>1, <1>8, <1>9, <1>10 DEF Hit
<1>12. KeyTrue(id) /\ Metered(h, r.start, r.count, clock)
  BY <1>1, <1>2, <1>8 DEF KeyTrue
<1>13. Metered(g, a, n, clock)
  <2>1. CASE WindowOver(r)
    BY <1>1, <1>3, <1>4, <1>5, <1>10, <1>12, <2>1, WindowBegins DEF WindowOver
  <2>2. CASE ~WindowOver(r)
    <3>1. r.count < PerMinute /\ clock < r.start + Minute
      BY <1>2, <1>3, <2>2, Lengths DEF Admits, WindowOver
    <3> QED
      BY <1>1, <1>3, <1>4, <1>5, <1>10, <1>12, <2>2, <3>1, WindowCounts
  <2> QED
    BY <2>1, <2>2
<1>14. ASSUME NEW t \in Instants, g[t] > 0 PROVE t <= r.revoked /\ ~Expired(r.expires, t)
  <2>1. CASE t = clock
    BY <1>2, <1>3, <2>1, TimeAssumption DEF Admits, Never, Instants
  <2>2. CASE t # clock
    <3>1. h[t] > 0
      BY <1>10, <1>14, <2>2 DEF Hit
    <3> QED
      BY <1>2, <1>8, <1>12, <3>1 DEF KeyTrue
  <2> QED
    BY <2>1, <2>2
<1>15. KeyTrue(id)'
  BY <1>2, <1>7, <1>11, <1>13, <1>14 DEF KeyTrue
<1>16. ASSUME NEW k \in Keys, k # id PROVE KeyTrue(k)'
  BY <1>1, <1>7, <1>11, <1>16 DEF KeyTrue
<1> QED
  BY <1>2, <1>7, <1>11, <1>15, <1>16

\* The second query: it admits in one update, or answers.
LEMMA ConsumeStep ==
  ASSUME ApiInv, NEW c \in Callers, Consume(c)
  PROVE  ApiInv'
<1>1. calls[c] \in Call /\ FitsCall(calls[c]) /\ calls[c].pc = "consume" /\ keys[calls[c].key].made /\ calls[c].key \in Keys
  BY DEF ApiInv, ApiTypeOK, Call, Steps_, CallTrue, Consume, FitsCall
<1>2. programs' = programs /\ programs \subseteq ProgramIds /\ clock' = clock /\ UNCHANGED <<quota, runs, charged>>
  BY DEF ApiInv, ApiTypeOK, Consume
<1>3. CASE ~Admits(keys[calls[c].key])
  BY <1>1, <1>2, <1>3, AnswerStep DEF Consume
<1>4. CASE Admits(keys[calls[c].key])
  <2>1. /\ keys' \in [Keys -> KeyRow]
        /\ hits' \in [Keys -> [Instants -> Nat]]
        /\ \A k \in Keys : KeyTrue(k)' /\ keys'[k].made = keys[k].made
    BY <1>1, <1>2, <1>4, AdmitStep DEF Consume
  <2>2. PICK x : /\ x \in Call /\ x.pc \in {"idle", "prepare", "insert", "page"} /\ calls' = [calls EXCEPT ![c] = x]
                 /\ (x.listed = <<>> /\ x.from = {}) \/ (x.listed = calls[c].listed /\ x.from = calls[c].from)
    <3>1. CASE Answer(c)
      <4>1. NoCall \in Call /\ NoCall.pc = "idle" /\ NoCall.from = {} /\ NoCall.listed = <<>>
        BY NoCallTyped DEF ApiInv
      <4> QED
        BY <3>1, <4>1 DEF Answer
    <3>2. CASE Goto(c, FirstOf(calls[c].route)) /\ calls[c].route # "look"
      <4>1. calls[c].route \in {"optimize", "create", "list"}
        BY <1>1, <3>2 DEF Call, Routes, Needs
      <4>2. PICK p \in {"prepare", "insert", "page"} : p = FirstOf(calls[c].route)
        BY <4>1 DEF FirstOf
      <4>3. PICK x : x = [calls[c] EXCEPT !.pc = p]
        OBVIOUS
      <4>4. x \in Call /\ x.pc = p /\ x.listed = calls[c].listed /\ x.from = calls[c].from
        BY <1>1, <4>3 DEF Call, Steps_
      <4>5. calls' = [calls EXCEPT ![c] = x]
        BY <3>2, <4>2, <4>3 DEF Goto
      <4> QED
        BY <4>4, <4>5
    <3> QED
      BY <1>4, <3>1, <3>2 DEF Consume
  <2>3. FitsCall(x)'
    <3>1. IsInjective(<<>>) /\ ToSet(<<>>) = {}
      BY DEF IsInjective, ToSet
    <3> QED
      BY <1>1, <1>2, <2>2, <3>1 DEF FitsCall
  <2>4. /\ calls' \in [Callers -> Call] /\ \A d \in Callers : CallTrue(d)'
        /\ \A p : Serving(p) \in Nat /\ Serving(p)' = Serving(p) - (IF calls[c].pc = p THEN 1 ELSE 0) + (IF x.pc = p THEN 1 ELSE 0)
    <3>1. /\ clock' = clock /\ programs \subseteq programs' /\ (quota.row => quota'.row)
          /\ \A k \in Keys : keys[k].made => keys'[k].made
      BY <1>2, <2>1
    <3> QED
      BY <2>2, <2>3, <3>1, CallStep
  <2>5. Serving("row")' = Serving("row") /\ Serving("audit")' = Serving("audit") /\ Serving("stream")' = Serving("stream")
    <3>1. \A p \in {"row", "audit", "stream"} : Serving(p) \in Nat /\ Serving(p)' = Serving(p) - 0 + 0
      BY <1>1, <2>2, <2>4
    <3> QED
      BY <3>1
  <2>6. MonthIsPaid'
    BY <1>2, <2>5 DEF ApiInv, MonthIsPaid, Serving
  <2>7. ApiTypeOK'
    BY <1>2, <2>1, <2>4 DEF ApiInv, ApiTypeOK, Call, Steps_, KeyRow
  <2> QED
    BY <1>2, <2>1, <2>4, <2>6, <2>7, MonthsStay DEF ApiInv
<1> QED
  BY <1>3, <1>4

\* A request goes on with the quota, or with its run.
LEMMA GoesOn ==
  ASSUME ApiInv, NEW c \in Callers, NEW p \in {"reset", "charge", "row", "audit", "stream"}, Goto(c, p),
         clock' = clock, UNCHANGED <<keys, programs, hits>>, quota.row => quota'.row, p \in {"reset", "charge"} => quota'.row
  PROVE  /\ calls' \in [Callers -> Call] /\ \A d \in Callers : CallTrue(d)'
         /\ \A q : Serving(q) \in Nat /\ Serving(q)' = Serving(q) - (IF calls[c].pc = q THEN 1 ELSE 0) + (IF p = q THEN 1 ELSE 0)
<1>1. calls[c] \in Call /\ FitsCall(calls[c])
  BY DEF ApiInv, ApiTypeOK, Call, Steps_, CallTrue
<1>2. PICK x : x = [calls[c] EXCEPT !.pc = p]
  OBVIOUS
<1>3. x \in Call /\ x.pc = p /\ x.listed = calls[c].listed /\ x.from = calls[c].from
  BY <1>1, <1>2 DEF Call, Steps_
<1>4. calls' = [calls EXCEPT ![c] = x]
  BY <1>2 DEF Goto
<1>5. FitsCall(x)'
  BY <1>1, <1>3 DEF FitsCall
<1>6. programs \subseteq programs' /\ \A k \in Keys : keys[k].made => keys'[k].made
  OBVIOUS
<1>7. /\ calls' \in [Callers -> Call] /\ \A d \in Callers : CallTrue(d)'
      /\ \A q : Serving(q) \in Nat /\ Serving(q)' = Serving(q) - (IF calls[c].pc = q THEN 1 ELSE 0) + (IF x.pc = q THEN 1 ELSE 0)
  BY <1>3, <1>4, <1>5, <1>6, CallStep
<1> QED
  BY <1>3, <1>7

\* Or it is over.
LEMMA IsOver ==
  ASSUME ApiInv, NEW c \in Callers, Answer(c), clock' = clock, UNCHANGED <<keys, programs, quota, hits>>
  PROVE  /\ calls' \in [Callers -> Call] /\ \A d \in Callers : CallTrue(d)'
         /\ \A q : Serving(q) \in Nat /\ Serving(q)' = Serving(q) - (IF calls[c].pc = q THEN 1 ELSE 0) + (IF q = "idle" THEN 1 ELSE 0)
<1>1. NoCall \in Call /\ NoCall.pc = "idle"
  BY NoCallTyped DEF ApiInv
<1>2. IsInjective(<<>>) /\ ToSet(<<>>) = {}
  BY DEF IsInjective, ToSet
<1>3. FitsCall(NoCall)'
  BY <1>2, NoCallTyped DEF FitsCall, NoCall
<1> QED
  BY <1>1, <1>3, CallStep DEF Answer

\* A row begins where nothing was charged yet.
LEMMA UpsertStep ==
  ASSUME ApiInv, NEW c \in Callers, Upsert(c)
  PROVE  ApiInv'
<1>1. calls[c].pc = "upsert" /\ calls[c].month \in Months /\ quota \in [row : BOOLEAN, period : Months, used : 0 .. Monthly]
  BY DEF Upsert, ApiInv, ApiTypeOK
<1>2. quota' \in [row : BOOLEAN, period : Months, used : 0 .. Monthly] /\ quota'.row
  <2>1. Monthly \in Nat
    BY ApiAssumption
  <2> QED
    BY <1>1, <2>1 DEF Upsert
<1>3. UNCHANGED <<keys, programs, runs, hits, charged, clock>> /\ Goto(c, "reset")
  BY DEF Upsert
<1>4. /\ calls' \in [Callers -> Call] /\ \A d \in Callers : CallTrue(d)'
      /\ \A q : Serving(q) \in Nat /\ Serving(q)' = Serving(q) - (IF calls[c].pc = q THEN 1 ELSE 0) + (IF "reset" = q THEN 1 ELSE 0)
  BY <1>2, <1>3, GoesOn
<1>5. Serving("row")' = Serving("row") /\ Serving("audit")' = Serving("audit") /\ Serving("stream")' = Serving("stream")
  <2>1. \A q \in {"row", "audit", "stream"} : Serving(q) \in Nat /\ Serving(q)' = Serving(q) - 0 + 0
    BY <1>1, <1>4
  <2> QED
    BY <2>1
<1>6. MonthIsPaid'
  BY <1>3, <1>5 DEF ApiInv, MonthIsPaid, Serving
<1>7. MonthTrue'
  <2>1. CASE quota.row
    BY <1>3, <2>1 DEF Upsert, ApiInv, MonthTrue
  <2>2. CASE ~quota.row
    <3>1. quota' = [row |-> TRUE, period |-> calls[c].month, used |-> 0] /\ \A m \in Months : charged'[m] = 0
      BY <1>3, <2>2 DEF Upsert, ApiInv, MonthTrue
    <3>2. Monthly \in Nat
      BY ApiAssumption
    <3> QED
      BY <1>1, <3>1, <3>2 DEF MonthTrue
  <2> QED
    BY <2>1, <2>2
<1>8. ApiTypeOK'
  BY <1>2, <1>3, <1>4 DEF ApiInv, ApiTypeOK, Call, Steps_
<1> QED
  BY <1>3, <1>4, <1>6, <1>7, <1>8, KeysStay DEF ApiInv

\* A month that is begun has nothing charged to it, whatever month the request holds.
LEMMA ResetStep ==
  ASSUME ApiInv, NEW c \in Callers, Reset(c)
  PROVE  ApiInv'
<1>1. calls[c].pc = "reset" /\ calls[c].month \in Months /\ quota \in [row : BOOLEAN, period : Months, used : 0 .. Monthly] /\ quota.row
  BY DEF Reset, ApiInv, ApiTypeOK, CallTrue, FitsCall
<1>2. quota' \in [row : BOOLEAN, period : Months, used : 0 .. Monthly] /\ quota'.row
  <2>1. 0 \in 0 .. Monthly
    BY ApiAssumption
  <2>2. CASE Outdated(c)
    BY <1>1, <2>1, <2>2 DEF Reset
  <2>3. CASE ~Outdated(c)
    BY <1>1, <2>3 DEF Reset
  <2> QED
    BY <2>2, <2>3
<1>3. UNCHANGED <<keys, programs, runs, hits, charged, clock>> /\ Goto(c, "charge")
  BY DEF Reset
<1>4. /\ calls' \in [Callers -> Call] /\ \A d \in Callers : CallTrue(d)'
      /\ \A q : Serving(q) \in Nat /\ Serving(q)' = Serving(q) - (IF calls[c].pc = q THEN 1 ELSE 0) + (IF "charge" = q THEN 1 ELSE 0)
  BY <1>2, <1>3, GoesOn
<1>5. Serving("row")' = Serving("row") /\ Serving("audit")' = Serving("audit") /\ Serving("stream")' = Serving("stream")
  <2>1. \A q \in {"row", "audit", "stream"} : Serving(q) \in Nat /\ Serving(q)' = Serving(q) - 0 + 0
    BY <1>1, <1>4
  <2> QED
    BY <2>1
<1>6. MonthIsPaid'
  BY <1>3, <1>5 DEF ApiInv, MonthIsPaid, Serving
<1>7. MonthTrue'
  <2>1. CASE ~Outdated(c)
    BY <1>3, <2>1 DEF Reset, ApiInv, MonthTrue
  <2>2. CASE Outdated(c)
    <3>1. quota'.period = calls[c].month /\ quota'.used = 0 /\ quota'.row /\ quota.period < calls[c].month
      BY <1>1, <2>2 DEF Reset, Outdated
    <3>2. charged'[calls[c].month] = 0
      BY <1>1, <1>3, <3>1 DEF ApiInv, MonthTrue
    <3>3. \A m \in Months : m > calls[c].month => m > quota.period
      <4>1. quota.period \in Nat /\ calls[c].month \in Nat /\ \A m \in Months : m \in Nat
        BY <1>1, MonthsTyped
      <4> QED
        BY <3>1, <4>1
    <3> QED
      BY <1>1, <1>3, <3>1, <3>2, <3>3 DEF ApiInv, MonthTrue
  <2> QED
    BY <2>1, <2>2
<1>8. ApiTypeOK'
  BY <1>2, <1>3, <1>4 DEF ApiInv, ApiTypeOK, Call, Steps_
<1> QED
  BY <1>3, <1>4, <1>6, <1>7, <1>8, KeysStay DEF ApiInv

\* The charge compares and counts in one update, so the month is charged as its row says.
LEMMA ChargeStep ==
  ASSUME ApiInv, NEW c \in Callers, Charge(c)
  PROVE  ApiInv'
<1>1. /\ calls[c].pc = "charge" /\ quota \in [row : BOOLEAN, period : Months, used : 0 .. Monthly] /\ quota.row
      /\ charged \in [Months -> Nat] /\ Monthly \in Nat
  BY ApiAssumption DEF Charge, ApiInv, ApiTypeOK, CallTrue, FitsCall
<1>2. CASE ~(quota.used < Monthly)
  BY <1>1, <1>2, AnswerStep DEF Charge, ApiInv, ApiTypeOK
<1>3. CASE quota.used < Monthly
  <2>1. UNCHANGED <<keys, programs, runs, hits, clock>> /\ Goto(c, "row") /\ quota' = [quota EXCEPT !.used = @ + 1]
    BY <1>3 DEF Charge
  <2>2. PICK m \in Months : m = quota.period /\ charged' = [charged EXCEPT ![m] = @ + 1]
    <3>1. MonthStart(quota.period) = quota.period
      BY <1>1, MonthsTyped
    <3> QED
      BY <1>1, <1>3, <3>1 DEF Charge
  <2>3. quota' \in [row : BOOLEAN, period : Months, used : 0 .. Monthly] /\ quota'.row /\ quota'.period = m /\ quota'.used = quota.used + 1
    BY <1>1, <1>3, <2>1, <2>2
  <2>4. charged' \in [Months -> Nat] /\ charged'[m] = charged[m] + 1 /\ \A n \in Months : n # m => charged'[n] = charged[n]
    BY <1>1, <2>2
  <2>5. /\ calls' \in [Callers -> Call] /\ \A d \in Callers : CallTrue(d)'
        /\ \A q : Serving(q) \in Nat /\ Serving(q)' = Serving(q) - (IF calls[c].pc = q THEN 1 ELSE 0) + (IF "row" = q THEN 1 ELSE 0)
    BY <2>1, <2>3, GoesOn
  <2>6. Serving("row") \in Nat /\ Serving("row")' = Serving("row") + 1 /\ Serving("audit")' = Serving("audit") /\ Serving("stream")' = Serving("stream")
    <3>1. \A q \in {"audit", "stream"} : Serving(q) \in Nat /\ Serving(q)' = Serving(q) - 0 + 0
      BY <1>1, <2>5
    <3>2. Serving("row") \in Nat /\ Serving("row")' = Serving("row") - 0 + 1
      BY <1>1, <2>5
    <3> QED
      BY <3>1, <3>2
  <2>7. MonthTrue'
    <3>1. charged[m] = quota.used
      BY <2>2 DEF ApiInv, MonthTrue
    <3>2. charged'[m] = quota'.used /\ charged'[m] <= Monthly
      BY <1>1, <1>3, <2>3, <2>4, <3>1
    <3>3. \A n \in Months : n # m => charged'[n] <= Monthly /\ (n > m => charged'[n] = 0)
      BY <2>2, <2>4 DEF ApiInv, MonthTrue
    <3>4. ~(m > m)
      BY MonthsTyped
    <3> QED
      BY <2>3, <2>4, <3>2, <3>3, <3>4 DEF MonthTrue
  <2>8. SumFunction(charged') = SumFunction(charged) + 1
    <3>1. DOMAIN charged = Months /\ DOMAIN charged' = Months
      BY <1>1, <2>4
    <3>2. \A n \in Months : charged[n] \in Nat
      BY <1>1
    <3>3. SumFunctionOnSet(charged', Months) = SumFunctionOnSet(charged, Months) + 1
      BY <2>4, <3>2, MonthsTyped, SumOneMore
    <3> QED
      BY <3>1, <3>3 DEF SumFunction
  <2>9. MonthIsPaid'
    <3>1. SumFunction(charged) = runs.made + runs.lost + Serving("row")
      BY DEF ApiInv, MonthIsPaid, Serving
    <3>2. runs.made = runs.ended + runs.stranded + Serving("audit") + Serving("stream")
      BY DEF ApiInv, MonthIsPaid, Serving
    <3>3. runs.made \in Nat /\ runs.lost \in Nat
      BY DEF ApiInv, ApiTypeOK
    <3>4. SumFunction(charged') = runs.made + runs.lost + Serving("row")'
      BY <2>6, <2>8, <3>1, <3>3
    <3>5. runs.made = runs.ended + runs.stranded + Serving("audit")' + Serving("stream")'
      BY <2>6, <3>2
    <3>6. \A n \in Months : charged'[n] <= Monthly
      BY <2>7 DEF MonthTrue
    <3>7. runs' = runs
      BY <2>1
    <3> QED
      BY <3>4, <3>5, <3>6, <3>7 DEF MonthIsPaid, Serving
  <2>10. ApiTypeOK'
    BY <2>1, <2>3, <2>4, <2>5 DEF ApiInv, ApiTypeOK, Call, Steps_
  <2> QED
    BY <2>1, <2>5, <2>7, <2>9, <2>10, KeysStay DEF ApiInv
<1> QED
  BY <1>2, <1>3

\* A step of a request's run: what is counted, and where the request goes on.
LEMMA RunStep ==
  ASSUME ApiInv, NEW c \in Callers, clock' = clock, UNCHANGED <<keys, quota, programs, hits, charged>>,
         runs' \in [{"made", "ended", "stranded", "lost"} -> Nat],
         calls' \in [Callers -> Call] /\ \A d \in Callers : CallTrue(d)',
         runs'.made + runs'.lost + Serving("row")' = runs.made + runs.lost + Serving("row"),
         runs'.made = runs'.ended + runs'.stranded + Serving("audit")' + Serving("stream")'
  PROVE  ApiInv'
<1>1. ApiTypeOK'
  BY DEF ApiInv, ApiTypeOK, Call, Steps_
<1>2. SumFunction(charged) = runs.made + runs.lost + Serving("row") /\ \A m \in Months : charged[m] <= Monthly
  BY DEF ApiInv, MonthIsPaid, Serving
<1>3. MonthIsPaid'
  BY <1>2 DEF MonthIsPaid, Serving
<1> QED
  BY <1>1, <1>3, KeysStay, MonthsStay DEF ApiInv

\* The numbers of runs, and where the runs made are.
LEMMA RunsTyped ==
  ASSUME ApiInv
  PROVE  /\ runs \in [{"made", "ended", "stranded", "lost"} -> Nat]
         /\ runs.made \in Nat /\ runs.lost \in Nat /\ runs.ended \in Nat /\ runs.stranded \in Nat
         /\ runs.made = runs.ended + runs.stranded + Serving("audit") + Serving("stream")
  BY DEF ApiInv, ApiTypeOK, MonthIsPaid, Serving

\* A run paid for is made, or lost.
LEMMA MakeRunStep ==
  ASSUME ApiInv, NEW c \in Callers, NEW works, MakeRun(c, works)
  PROVE  ApiInv'
<1>1. calls[c].pc = "row" /\ clock' = clock /\ UNCHANGED <<keys, quota, programs, hits, charged>>
  BY DEF MakeRun
<1>2. CASE Counted("made") /\ Goto(c, "audit")
  <2>1. /\ runs' \in [{"made", "ended", "stranded", "lost"} -> Nat] /\ runs'.made = runs.made + 1
        /\ runs'.lost = runs.lost /\ runs'.ended = runs.ended /\ runs'.stranded = runs.stranded
    BY <1>2, RunsTyped DEF Counted
  <2>2. /\ calls' \in [Callers -> Call] /\ \A d \in Callers : CallTrue(d)'
        /\ \A q : Serving(q) \in Nat /\ Serving(q)' = Serving(q) - (IF calls[c].pc = q THEN 1 ELSE 0) + (IF "audit" = q THEN 1 ELSE 0)
    BY <1>1, <1>2, GoesOn DEF MakeRun
  <2>3. /\ Serving("row") \in Nat /\ Serving("audit") \in Nat /\ Serving("stream") \in Nat
        /\ Serving("row")' = Serving("row") - 1 + 0 /\ Serving("audit")' = Serving("audit") - 0 + 1 /\ Serving("stream")' = Serving("stream") - 0 + 0
    BY <1>1, <2>2
  <2>4. runs'.made + runs'.lost + Serving("row")' = runs.made + runs.lost + Serving("row")
    BY <2>1, <2>3, RunsTyped
  <2>5. runs'.made = runs'.ended + runs'.stranded + Serving("audit")' + Serving("stream")'
    BY <2>1, <2>3, RunsTyped
  <2> QED
    BY <2>1, <2>2, <2>4, <2>5, RunStep DEF MakeRun
<1>3. CASE Counted("lost") /\ Answer(c)
  <2>1. /\ runs' \in [{"made", "ended", "stranded", "lost"} -> Nat] /\ runs'.lost = runs.lost + 1
        /\ runs'.made = runs.made /\ runs'.ended = runs.ended /\ runs'.stranded = runs.stranded
    BY <1>3, RunsTyped DEF Counted
  <2>2. /\ calls' \in [Callers -> Call] /\ \A d \in Callers : CallTrue(d)'
        /\ \A q : Serving(q) \in Nat /\ Serving(q)' = Serving(q) - (IF calls[c].pc = q THEN 1 ELSE 0) + (IF q = "idle" THEN 1 ELSE 0)
    BY <1>3, IsOver DEF MakeRun
  <2>3. /\ Serving("row") \in Nat /\ Serving("audit") \in Nat /\ Serving("stream") \in Nat
        /\ Serving("row")' = Serving("row") - 1 + 0 /\ Serving("audit")' = Serving("audit") - 0 + 0 /\ Serving("stream")' = Serving("stream") - 0 + 0
    BY <1>1, <2>2
  <2>4. runs'.made + runs'.lost + Serving("row")' = runs.made + runs.lost + Serving("row")
    BY <2>1, <2>3, RunsTyped
  <2>5. runs'.made = runs'.ended + runs'.stranded + Serving("audit")' + Serving("stream")'
    BY <2>1, <2>3, RunsTyped
  <2> QED
    BY <2>1, <2>2, <2>4, <2>5, RunStep DEF MakeRun
<1> QED
  BY <1>2, <1>3 DEF MakeRun

\* A run made goes on to its stream, or is stranded.
LEMMA AuditStep ==
  ASSUME ApiInv, NEW c \in Callers, NEW works, Audit(c, works)
  PROVE  ApiInv'
<1>1. calls[c].pc = "audit"
  BY DEF Audit
<1>2. CASE Goto(c, "stream") /\ UNCHANGED runs
  <2>2. /\ calls' \in [Callers -> Call] /\ \A d \in Callers : CallTrue(d)'
        /\ \A q : Serving(q) \in Nat /\ Serving(q)' = Serving(q) - (IF calls[c].pc = q THEN 1 ELSE 0) + (IF "stream" = q THEN 1 ELSE 0)
    BY <1>2, GoesOn DEF Audit
  <2>3. /\ Serving("row") \in Nat /\ Serving("audit") \in Nat /\ Serving("stream") \in Nat
        /\ Serving("row")' = Serving("row") - 0 + 0 /\ Serving("audit")' = Serving("audit") - 1 + 0 /\ Serving("stream")' = Serving("stream") - 0 + 1
    BY <1>1, <2>2
  <2>4. runs'.made + runs'.lost + Serving("row")' = runs.made + runs.lost + Serving("row")
    BY <1>2, <2>3, RunsTyped
  <2>5. runs'.made = runs'.ended + runs'.stranded + Serving("audit")' + Serving("stream")'
    BY <1>2, <2>3, RunsTyped
  <2> QED
    BY <1>2, <2>2, <2>4, <2>5, RunStep, RunsTyped DEF Audit
<1>3. CASE Counted("stranded") /\ Answer(c)
  <2>1. /\ runs' \in [{"made", "ended", "stranded", "lost"} -> Nat] /\ runs'.stranded = runs.stranded + 1
        /\ runs'.made = runs.made /\ runs'.ended = runs.ended /\ runs'.lost = runs.lost
    BY <1>3, RunsTyped DEF Counted
  <2>2. /\ calls' \in [Callers -> Call] /\ \A d \in Callers : CallTrue(d)'
        /\ \A q : Serving(q) \in Nat /\ Serving(q)' = Serving(q) - (IF calls[c].pc = q THEN 1 ELSE 0) + (IF q = "idle" THEN 1 ELSE 0)
    BY <1>3, IsOver DEF Audit
  <2>3. /\ Serving("row") \in Nat /\ Serving("audit") \in Nat /\ Serving("stream") \in Nat
        /\ Serving("row")' = Serving("row") - 0 + 0 /\ Serving("audit")' = Serving("audit") - 1 + 0 /\ Serving("stream")' = Serving("stream") - 0 + 0
    BY <1>1, <2>2
  <2>4. runs'.made + runs'.lost + Serving("row")' = runs.made + runs.lost + Serving("row")
    BY <2>1, <2>3, RunsTyped
  <2>5. runs'.made = runs'.ended + runs'.stranded + Serving("audit")' + Serving("stream")'
    BY <2>1, <2>3, RunsTyped
  <2> QED
    BY <2>1, <2>2, <2>4, <2>5, RunStep DEF Audit
<1> QED
  BY <1>2, <1>3 DEF Audit

\* A stream ends one run.
LEMMA StreamStep ==
  ASSUME ApiInv, NEW c \in Callers, Stream(c)
  PROVE  ApiInv'
<1>1. calls[c].pc = "stream"
  BY DEF Stream
<1>2. /\ runs' \in [{"made", "ended", "stranded", "lost"} -> Nat] /\ runs'.ended = runs.ended + 1
      /\ runs'.made = runs.made /\ runs'.stranded = runs.stranded /\ runs'.lost = runs.lost
  BY RunsTyped DEF Stream, Counted
<1>3. /\ calls' \in [Callers -> Call] /\ \A d \in Callers : CallTrue(d)'
      /\ \A q : Serving(q) \in Nat /\ Serving(q)' = Serving(q) - (IF calls[c].pc = q THEN 1 ELSE 0) + (IF q = "idle" THEN 1 ELSE 0)
  BY IsOver DEF Stream
<1>4. /\ Serving("row") \in Nat /\ Serving("audit") \in Nat /\ Serving("stream") \in Nat
      /\ Serving("row")' = Serving("row") - 0 + 0 /\ Serving("audit")' = Serving("audit") - 0 + 0 /\ Serving("stream")' = Serving("stream") - 1 + 0
  BY <1>1, <1>3
<1>5. runs'.made + runs'.lost + Serving("row")' = runs.made + runs.lost + Serving("row")
  BY <1>2, <1>4, RunsTyped
<1>6. runs'.made = runs'.ended + runs'.stranded + Serving("audit")' + Serving("stream")'
  BY <1>2, <1>4, RunsTyped
<1> QED
  BY <1>2, <1>3, <1>5, <1>6, RunStep DEF Stream

\* Where the requests stand still, so does what they count.
LEMMA CallsStay ==
  ASSUME ApiInv, UNCHANGED <<quota, programs, calls, runs, charged>>, \A k \in Keys : keys[k].made => keys'[k].made
  PROVE  (\A c \in Callers : CallTrue(c))' /\ MonthIsPaid' /\ MonthTrue'
<1>1. calls \in [Callers -> Call] /\ \A c \in Callers : FitsCall(calls[c])
  BY DEF ApiInv, ApiTypeOK, Call, Steps_, CallTrue
<1>2. ASSUME NEW c \in Callers PROVE CallTrue(c)'
  <2>1. FitsCall(calls[c]) /\ calls[c].key \in Keys
    BY <1>1 DEF Call
  <2> QED
    BY <2>1 DEF FitsCall, CallTrue
<1>3. MonthIsPaid'
  BY DEF ApiInv, MonthIsPaid
<1> QED
  BY <1>2, <1>3, MonthsStay

\* A key that is made begins a window nothing was admitted in,
LEMMA CreateKeyStep ==
  ASSUME ApiInv, NEW k \in Keys, NEW role, NEW scopes \in SUBSET Scopes, NEW expires \in Dates, CreateKey(k, role, scopes, expires)
  PROVE  ApiInv'
<1>1. keys \in [Keys -> KeyRow] /\ hits \in [Keys -> [Instants -> Nat]] /\ clock \in Instants /\ ~keys[k].made /\ KeyTrue(k)
  BY DEF ApiInv, ApiTypeOK, KeyRow, CreateKey
<1>2. PICK x : x = [NoKey EXCEPT !.made = TRUE, !.scopes = scopes, !.expires = expires, !.start = clock]
  OBVIOUS
<1>3. x \in KeyRow /\ x.made /\ x.revoked = Never /\ x.start = clock /\ x.count = 0
  <2>1. clock \in 0 .. clock /\ 0 \in 0 .. PerMinute /\ Never \in Dates /\ {} \subseteq Scopes
    BY <1>1, Lengths DEF Dates
  <2> QED
    BY <1>2, <2>1 DEF NoKey, KeyRow
<1>4. keys' = [keys EXCEPT ![k] = x]
  BY <1>2 DEF CreateKey
<1>5. keys' \in [Keys -> KeyRow] /\ keys'[k] = x /\ \A j \in Keys : j # k => keys'[j] = keys[j]
  BY <1>1, <1>3, <1>4
<1>6. UNCHANGED <<quota, programs, calls, runs, hits, charged, clock>>
  BY DEF CreateKey
<1>7. KeyTrue(k)'
  <2>1. \A t \in Instants : hits[k][t] = 0
    BY <1>1 DEF KeyTrue
  <2>2. hits[k] \in [Instants -> Nat]
    BY <1>1
  <2>3. Metered(hits[k], clock, 0, clock)
    BY <1>1, <2>1, <2>2, WindowFresh
  <2> QED
    BY <1>3, <1>5, <1>6, <2>1, <2>3 DEF KeyTrue
<1>8. ASSUME NEW j \in Keys, j # k PROVE KeyTrue(j)'
  BY <1>5, <1>6, <1>8 DEF KeyTrue, ApiInv
<1>9. \A j \in Keys : keys[j].made => keys'[j].made
  BY <1>3, <1>5
<1>10. ApiTypeOK'
  BY <1>5, <1>6 DEF ApiInv, ApiTypeOK, KeyRow
<1> QED
  BY <1>6, <1>7, <1>8, <1>9, <1>10, CallsStay DEF ApiInv

\* and one that is revoked let nothing in later than now.
LEMMA RevokeKeyStep ==
  ASSUME ApiInv, NEW k \in Keys, NEW role, RevokeKey(k, role)
  PROVE  ApiInv'
<1>1. keys \in [Keys -> KeyRow] /\ hits \in [Keys -> [Instants -> Nat]] /\ clock \in Instants /\ keys[k].made /\ KeyTrue(k)
  BY DEF ApiInv, ApiTypeOK, KeyRow, RevokeKey
<1>2. PICK x : x = [keys[k] EXCEPT !.revoked = clock]
  OBVIOUS
<1>3. /\ x \in KeyRow /\ x.made /\ x.revoked = clock /\ x.start = keys[k].start /\ x.count = keys[k].count
      /\ x.expires = keys[k].expires
  BY <1>1, <1>2 DEF KeyRow, Dates
<1>4. keys' = [keys EXCEPT ![k] = x]
  BY <1>2 DEF RevokeKey
<1>5. keys' \in [Keys -> KeyRow] /\ keys'[k] = x /\ \A j \in Keys : j # k => keys'[j] = keys[j]
  BY <1>1, <1>3, <1>4
<1>6. UNCHANGED <<quota, programs, calls, runs, hits, charged, clock>>
  BY DEF RevokeKey
<1>7. KeyTrue(k)'
  <2>1. Metered(hits[k], keys[k].start, keys[k].count, clock) /\ \A t \in Instants : hits[k][t] > 0 => ~Expired(keys[k].expires, t)
    BY <1>1 DEF KeyTrue
  <2>2. \A t \in Instants : hits[k][t] > 0 => t <= clock
    BY <2>1 DEF Metered
  <2> QED
    BY <1>3, <1>5, <1>6, <2>1, <2>2 DEF KeyTrue
<1>8. ASSUME NEW j \in Keys, j # k PROVE KeyTrue(j)'
  BY <1>5, <1>6, <1>8 DEF KeyTrue, ApiInv
<1>9. \A j \in Keys : keys[j].made => keys'[j].made
  BY <1>3, <1>5
<1>10. ApiTypeOK'
  BY <1>5, <1>6 DEF ApiInv, ApiTypeOK, KeyRow
<1> QED
  BY <1>6, <1>7, <1>8, <1>9, <1>10, CallsStay DEF ApiInv

\* Time passes, for the API or for another part.
LEMMA LaterStep ==
  ASSUME ApiInv, UNCHANGED apiVars, clock' = clock \/ Tick
  PROVE  ApiInv'
<1>1. clock' \in Instants /\ (clock' = clock \/ clock' = clock + 1)
  BY TimeAssumption DEF ApiInv, Tick, Instants
<1>2. \A n : n \in 0 .. clock => n \in 0 .. clock'
  BY <1>1, Lengths DEF ApiInv
<1>3. calls \in [Callers -> Call'] /\ keys \in [Keys -> KeyRow']
  <2>1. \A x \in Call : x \in Call'
    BY <1>2 DEF Call
  <2>2. \A x \in KeyRow : x \in KeyRow'
    BY <1>2 DEF KeyRow
  <2> QED
    BY <2>1, <2>2 DEF ApiInv, ApiTypeOK, Call, Steps_, KeyRow
<1>4. ApiTypeOK'
  BY <1>3 DEF ApiInv, ApiTypeOK, Call, Steps_, KeyRow, apiVars
<1> QED
  BY <1>1, <1>4, KeysStay, CallsStay DEF apiVars, ApiInv

\* Nothing is there yet.
LEMMA ApiStart == Init => ApiInv
<1> SUFFICES ASSUME Init PROVE ApiInv
  OBVIOUS
<1>1. clock = 0 /\ clock \in Instants /\ 0 \in Instants /\ Never \in Dates
  BY TimeAssumption DEF Init, Instants, Dates
<1>2. /\ keys = [k \in Keys |-> NoKey] /\ quota = [row |-> FALSE, period |-> 0, used |-> 0] /\ programs \subseteq ProgramIds
      /\ calls = [c \in Callers |-> NoCall] /\ runs = [made |-> 0, ended |-> 0, stranded |-> 0, lost |-> 0]
      /\ hits = [k \in Keys |-> [t \in Instants |-> 0]] /\ charged = [m \in Months |-> 0]
  <2>1. AnySite \in Sites
    BY SitesAssumption DEF AnySite
  <2>2. [AnySite EXCEPT !.programs = {{}}].programs = {{}}
    BY <2>1, SitesAssumption
  <2>3. part.kind = "api" => part.site \in Sites
    BY DEF Init, Parts
  <2>4. part.kind = "api" => part.site.programs \subseteq SUBSET ProgramIds
    BY <2>3, SitesAssumption
  <2> QED
    BY <2>2, <2>4 DEF Init, ApiInit
<1>3. NoCall \in Call /\ NoCall.pc = "idle" /\ NoCall.from = {} /\ NoCall.listed = <<>>
  BY <1>1, NoCallTyped
<1>4. Monthly \in Nat /\ IsFiniteSet(Callers)
  BY ApiAssumption
<1>5. ApiTypeOK
  <2>1. NoKey \in KeyRow
    BY <1>1, Lengths DEF NoKey, KeyRow
  <2>2. keys \in [Keys -> KeyRow] /\ calls \in [Callers -> Call]
    BY <1>2, <1>3, <2>1
  <2> QED
    BY <1>2, <1>4, <2>2, MonthsTyped DEF ApiTypeOK, KeyRow, Call, Steps_
<1>6. ASSUME NEW k \in Keys PROVE KeyTrue(k)
  <2>1. hits[k] = [t \in Instants |-> 0] /\ keys[k] = NoKey
    BY <1>2
  <2>2. hits[k] \in [Instants -> Nat] /\ \A t \in Instants : hits[k][t] = 0
    BY <2>1
  <2>3. Metered(hits[k], 0, 0, clock)
    BY <1>1, <2>2, WindowFresh
  <2> QED
    BY <2>1, <2>2, <2>3 DEF KeyTrue, NoKey
<1>7. ASSUME NEW c \in Callers PROVE CallTrue(c)
  <2>1. IsInjective(<<>>) /\ ToSet(<<>>) = {}
    BY DEF IsInjective, ToSet
  <2> QED
    BY <1>2, <1>3, <2>1 DEF CallTrue, FitsCall
<1>8. MonthTrue
  BY <1>2, <1>4, MonthsTyped DEF MonthTrue
<1>9. MonthIsPaid
  <2>1. SumFunction(charged) = 0
    <3>1. DOMAIN charged = Months /\ \A m \in Months : charged[m] = 0
      BY <1>2
    <3> QED
      BY <3>1, MonthsTyped, SumZero DEF SumFunction
  <2>2. Serving("row") = 0 /\ Serving("audit") = 0 /\ Serving("stream") = 0
    <3>1. \A p \in {"row", "audit", "stream"} : {c \in Callers : calls[c].pc = p} = {}
      BY <1>2, <1>3
    <3> QED
      BY <3>1, FS_EmptySet DEF Serving
  <2> QED
    BY <1>2, <1>4, <2>1, <2>2 DEF MonthIsPaid, Serving
<1> QED
  BY <1>1, <1>5, <1>6, <1>7, <1>8, <1>9 DEF ApiInv

\* The clock is the only thing the links and the API share.
LEMMA SharesClock ==
  ASSUME SharesNext(ShareDays)
  PROVE  clock' = clock \/ Tick
<1>1. CASE \E l \in Links, role \in Sharers : \E target \in Ours \cup Theirs, expires \in Dates : Share(l, role, target, expires)
  BY <1>1 DEF Share
<1>2. CASE \E l \in Links, role \in Sharers : \E d \in Desks : AskRevoke(d, l, role)
  BY <1>2 DEF AskRevoke
<1>3. CASE \E d \in Desks : Revoke(d) \/ Load(d)
  BY <1>3 DEF Revoke, Load
<1>4. CASE \E d \in Desks, l \in Links : View(d, l) \/ Unfurl(d, l)
  BY <1>4 DEF View, Unfurl, Follow_
<1>5. CASE \E d \in Desks : \E works \in BOOLEAN : CountView(d, works)
  BY <1>5 DEF CountView
<1> QED
  BY <1>1, <1>2, <1>3, <1>4, <1>5 DEF SharesNext

\* Every step of the API preserves what holds of it,
LEMMA ApiNextStep ==
  ASSUME ApiInv, NEW site \in Sites, ApiNext(site)
  PROVE  ApiInv'
<1>1. site.routes \subseteq Routes /\ site.expiries \subseteq Dates /\ ScopeChoices \subseteq SUBSET Scopes
  BY SitesAssumption, ApiAssumption
<1>2. CASE \E k \in Keys, role \in Managers, scopes \in ScopeChoices, expires \in site.expiries : CreateKey(k, role, scopes, expires)
  BY <1>1, <1>2, CreateKeyStep
<1>3. CASE \E k \in Keys, role \in site.revokers : RevokeKey(k, role)
  BY <1>3, RevokeKeyStep
<1>4. CASE \E c \in Callers : ApiStep(c, site.routes)
  <2>1. PICK c \in Callers : ApiStep(c, site.routes)
    BY <1>4
  <2>2. CASE \E k \in Keys, route \in site.routes : Arrive(c, k, route)
    BY <1>1, <2>2, ArriveStep
  <2>3. CASE Lookup(c) \/ Consume(c) \/ Page(c) \/ More(c)
    BY <2>3, LookupStep, ConsumeStep, PageStep, MoreStep
  <2>4. CASE Upsert(c) \/ Reset(c) \/ Charge(c)
    BY <2>4, UpsertStep, ResetStep, ChargeStep
  <2>5. CASE Stream(c) \/ Fail(c)
    BY <2>5, StreamStep, FailStep
  <2>6. CASE \E p \in ProgramIds : Insert(c, p)
    BY <2>6, InsertStep
  <2>7. CASE \E p \in ProgramIds : \E available \in BOOLEAN : Prepare(c, p, available)
    BY <2>7, PrepareStep
  <2>8. CASE \E works \in BOOLEAN : MakeRun(c, works)
    BY <2>8, MakeRunStep
  <2>9. CASE \E works \in BOOLEAN : Audit(c, works)
    BY <2>9, AuditStep
  <2> QED
    BY <2>1, <2>2, <2>3, <2>4, <2>5, <2>6, <2>7, <2>8, <2>9 DEF ApiStep
<1>5. CASE Tick /\ UNCHANGED apiVars
  BY <1>5, LaterStep
<1> QED
  BY <1>2, <1>3, <1>4, <1>5 DEF ApiNext

\* The part that moves is one of the parts, and stays it.
ApiPart == part.kind = "api" => part.site \in Sites

\* and every step of the application tier does.
LEMMA ApiSteps == ApiInv /\ ApiPart /\ [Next]_appVars => ApiInv' /\ ApiPart'
<1> SUFFICES ASSUME ApiInv, ApiPart, [Next]_appVars PROVE ApiInv' /\ ApiPart'
  OBVIOUS
<1>1. ApiPart'
  BY DEF Next, appVars, ApiPart
<1> SUFFICES ApiInv'
  BY <1>1
<1>2. CASE UNCHANGED <<apiVars, clock>>
  BY <1>2, LaterStep
<1>3. CASE SharesNext(ShareDays) /\ UNCHANGED apiVars
  <2>1. clock' = clock \/ Tick
    BY <1>3, SharesClock
  <2> QED
    BY <1>3, <2>1, LaterStep
<1>4. CASE part.kind = "api" /\ ApiNext(part.site)
  <2>1. part.site \in Sites
    BY <1>4 DEF ApiPart
  <2> QED
    BY <1>4, <2>1, ApiNextStep
<1>5. UNCHANGED <<apiVars, clock>> \/ (SharesNext(ShareDays) /\ UNCHANGED apiVars) \/ (part.kind = "api" /\ ApiNext(part.site))
  BY DEF Next, appVars
<1> QED
  BY <1>2, <1>3, <1>4, <1>5

\* However requests interleave, fail or dawdle, an API key is counted in windows of a minute with at most
\* PerMinute admitted in each, no minute sees more than two windows' worth and nothing is admitted at a
\* time the key was revoked or expired (src/web/lib/api/rate-limit.ts, keys.ts); no month is charged more
\* than its quota, a slow request's month included, and every charge is a run or a failed insert
\* (src/web/lib/api/quota.ts, src/web/app/api/v1/optimize/route.ts); a listing followed to its end has what
\* was there when it began, and nothing twice (src/web/app/api/v1/programs/route.ts).
THEOREM KeysMetered == Spec => []KeysAreMetered
<1>1. Init => ApiInv /\ ApiPart
  <2>1. Init => ApiPart
    BY DEF Init, Parts, ApiPart
  <2> QED
    BY <2>1, ApiStart
<1> QED
  BY <1>1, ApiSteps, ApiMeters, PTL DEF Spec

-----------------------------------------------------------------------------
(* Records: rows of workspaces, and the forms that make them *)

\* Rows as they are typed, one set a table.
Project_ == [in : Tenants, title : Titles, by : Folk]
Program_(rows) == [project : DOMAIN rows.projects, by : Folk]
Suite_(rows) == [in : Tenants, title : Titles, by : Folk, programs : Seq(DOMAIN rows.programs), methods : MethodChoices]
SuiteRun_(rows) == [suite : DOMAIN rows.suites, by : Folk, total : 1 .. MaxSuiteRuns, status : {"QUEUED", "ABANDONED"}]
Run_(rows) ==
  [program : DOMAIN rows.programs, by : Folk, suiteRun : {0} \cup DOMAIN rows.suiteRuns,
   status : {"QUEUED", "RUNNING", "ABANDONED"}, method : {"greedy"} \cup UNION MethodChoices]

\* Nothing of the old rows is changed or removed.
Grown(old, new) == DOMAIN old \subseteq DOMAIN new /\ \A i \in DOMAIN old : new[i] = old[i]
Grows(rows, new) ==
  /\ Grown(rows.projects, new.projects) /\ Grown(rows.programs, new.programs) /\ Grown(rows.suites, new.suites)
  /\ Grown(rows.suiteRuns, new.suiteRuns) /\ Grown(rows.runs, new.runs)

\* What the types of the tables say of each row.
LEMMA RowTypes ==
  ASSUME NEW rows, RowsTyped(rows)
  PROVE  /\ rows.projects \in Seq(Project_) /\ rows.programs \in Seq(Program_(rows)) /\ rows.suites \in Seq(Suite_(rows))
         /\ rows.suiteRuns \in Seq(SuiteRun_(rows)) /\ rows.runs \in Seq(Run_(rows))
         /\ \A i \in DOMAIN rows.projects : rows.projects[i] \in Project_
         /\ \A i \in DOMAIN rows.programs : rows.programs[i] \in Program_(rows)
         /\ \A i \in DOMAIN rows.suites : rows.suites[i] \in Suite_(rows)
         /\ \A i \in DOMAIN rows.suiteRuns : rows.suiteRuns[i] \in SuiteRun_(rows)
         /\ \A i \in DOMAIN rows.runs : rows.runs[i] \in Run_(rows)
<1>1. /\ rows.projects \in Seq(Project_) /\ rows.programs \in Seq(Program_(rows)) /\ rows.suites \in Seq(Suite_(rows))
      /\ rows.suiteRuns \in Seq(SuiteRun_(rows)) /\ rows.runs \in Seq(Run_(rows))
  BY DEF RowsTyped, Project_, Program_, Suite_, SuiteRun_, Run_
<1>2. ASSUME NEW S, NEW s \in Seq(S) PROVE \A i \in DOMAIN s : s[i] \in S
  OBVIOUS
<1> QED
  BY <1>1, <1>2

\* A sequence with one element more.
LEMMA OneMore ==
  ASSUME NEW S, NEW s \in Seq(S), NEW x
  PROVE  /\ Grown(s, Append(s, x)) /\ DOMAIN Append(s, x) = DOMAIN s \cup {Len(s) + 1} /\ Len(s) + 1 \notin DOMAIN s
         /\ Append(s, x)[Len(s) + 1] = x
         /\ \A T : S \subseteq T /\ x \in T => Append(s, x) \in Seq(T)
<1>1. Len(s) \in Nat /\ DOMAIN s = 1 .. Len(s)
  BY LenProperties
<1>2. s \in Seq(S \cup {x}) /\ x \in S \cup {x}
  BY SeqMonotonic
<1>3. /\ DOMAIN Append(s, x) = 1 .. Len(s) + 1 /\ \A i \in 1 .. Len(s) : Append(s, x)[i] = s[i]
      /\ Append(s, x)[Len(s) + 1] = x
  BY <1>1, <1>2
<1>4. ASSUME NEW T, S \subseteq T, x \in T PROVE Append(s, x) \in Seq(T)
  <2>1. s \in Seq(T)
    BY <1>4, SeqMonotonic
  <2> QED
    BY <1>4, <2>1
<1> QED
  BY <1>1, <1>3, <1>4 DEF Grown

\* A function on the first numbers is a sequence of that length.
LEMMA AsFunction == ASSUME NEW S, NEW n \in Nat, NEW f \in [1 .. n -> S] PROVE f \in Seq(S) /\ Len(f) = n
  OBVIOUS

\* A table that is left alone has lost nothing.
LEMMA SameGrown == ASSUME NEW s PROVE Grown(s, s)
  BY DEF Grown

\* Where rows only grow, what is referred to stays there, with the same home.
LEMMA HomesStay ==
  ASSUME NEW rows, NEW new, RowsTyped(rows), Grows(rows, new)
  PROVE  /\ \A i \in DOMAIN rows.programs : HomeIn(new, i) = HomeIn(rows, i)
         /\ \A i \in DOMAIN rows.suiteRuns : new.suites[new.suiteRuns[i].suite] = rows.suites[rows.suiteRuns[i].suite]
         /\ \A i \in DOMAIN rows.runs : HomeIn(new, new.runs[i].program) = HomeIn(rows, rows.runs[i].program)
<1>0. /\ Grown(rows.projects, new.projects) /\ Grown(rows.programs, new.programs) /\ Grown(rows.suites, new.suites)
      /\ Grown(rows.suiteRuns, new.suiteRuns) /\ Grown(rows.runs, new.runs)
  BY DEF Grows
<1>1. /\ \A i \in DOMAIN rows.programs : rows.programs[i].project \in DOMAIN rows.projects
      /\ \A i \in DOMAIN rows.suiteRuns : rows.suiteRuns[i].suite \in DOMAIN rows.suites
      /\ \A i \in DOMAIN rows.runs : rows.runs[i].program \in DOMAIN rows.programs
  BY RowTypes DEF Program_, SuiteRun_, Run_
<1>2. \A i \in DOMAIN rows.programs : HomeIn(new, i) = HomeIn(rows, i)
  BY <1>0, <1>1 DEF HomeIn, Grown
<1>3. \A i \in DOMAIN rows.suiteRuns : new.suites[new.suiteRuns[i].suite] = rows.suites[rows.suiteRuns[i].suite]
  BY <1>0, <1>1 DEF Grown
<1>4. \A i \in DOMAIN rows.runs : HomeIn(new, new.runs[i].program) = HomeIn(rows, rows.runs[i].program)
  BY <1>0, <1>2, <1>1 DEF Grown
<1> QED
  BY <1>2, <1>3, <1>4

\* Rows made by people of their workspaces stay so when rows are only added, if each new one is.
LEMMA OldInside ==
  ASSUME NEW rows, NEW new, NEW ever, RowsTyped(rows), Grows(rows, new), MadeInside(rows, ever),
         new.projects = rows.projects \/ \A i \in DOMAIN new.projects \ DOMAIN rows.projects : new.projects[i].by \in ever[new.projects[i].in],
         new.programs = rows.programs \/ \A i \in DOMAIN new.programs \ DOMAIN rows.programs : new.programs[i].by \in ever[HomeIn(new, i)],
         new.suites = rows.suites \/ \A i \in DOMAIN new.suites \ DOMAIN rows.suites : new.suites[i].by \in ever[new.suites[i].in],
         new.suiteRuns = rows.suiteRuns \/ \A i \in DOMAIN new.suiteRuns \ DOMAIN rows.suiteRuns :
           new.suiteRuns[i].by \in ever[new.suites[new.suiteRuns[i].suite].in],
         new.runs = rows.runs \/ \A i \in DOMAIN new.runs \ DOMAIN rows.runs : new.runs[i].by \in ever[HomeIn(new, new.runs[i].program)]
  PROVE  MadeInside(new, ever)
<1>0. /\ Grown(rows.projects, new.projects) /\ Grown(rows.programs, new.programs) /\ Grown(rows.suites, new.suites)
      /\ Grown(rows.suiteRuns, new.suiteRuns) /\ Grown(rows.runs, new.runs)
  BY DEF Grows
<1>1. \A i \in DOMAIN new.projects : new.projects[i].by \in ever[new.projects[i].in]
  BY <1>0 DEF MadeInside, Grown
<1>6. /\ \A i \in DOMAIN rows.programs : HomeIn(new, i) = HomeIn(rows, i)
      /\ \A i \in DOMAIN rows.suiteRuns : new.suites[new.suiteRuns[i].suite] = rows.suites[rows.suiteRuns[i].suite]
      /\ \A i \in DOMAIN rows.runs : HomeIn(new, new.runs[i].program) = HomeIn(rows, rows.runs[i].program)
  BY HomesStay
<1>2. ASSUME NEW i \in DOMAIN new.programs PROVE new.programs[i].by \in ever[HomeIn(new, i)]
  <2>1. CASE i \in DOMAIN rows.programs
    BY <1>0, <1>6, <2>1 DEF MadeInside, Grown
  <2> QED
    BY <2>1
<1>3. \A i \in DOMAIN new.suites : new.suites[i].by \in ever[new.suites[i].in]
  BY <1>0 DEF MadeInside, Grown
<1>4. ASSUME NEW i \in DOMAIN new.suiteRuns PROVE new.suiteRuns[i].by \in ever[new.suites[new.suiteRuns[i].suite].in]
  <2>1. CASE i \in DOMAIN rows.suiteRuns
    BY <1>0, <1>6, <2>1 DEF MadeInside, Grown
  <2> QED
    BY <2>1
<1>5. ASSUME NEW i \in DOMAIN new.runs PROVE new.runs[i].by \in ever[HomeIn(new, new.runs[i].program)]
  <2>1. CASE i \in DOMAIN rows.runs
    BY <1>0, <1>6, <2>1 DEF MadeInside, Grown
  <2> QED
    BY <2>1
<1> QED
  BY <1>1, <1>2, <1>3, <1>4, <1>5 DEF MadeInside

\* A suite that fits fits still when rows are only added,
LEMMA OldSuites ==
  ASSUME NEW rows, NEW new, RowsTyped(rows), Grows(rows, new), NEW i \in DOMAIN rows.suites, SuiteFits(rows, i)
  PROVE  SuiteFits(new, i)
<1>1. new.suites[i] = rows.suites[i]
  BY DEF Grows, Grown
<1>2. rows.suites[i].programs \in Seq(DOMAIN rows.programs)
  BY RowTypes DEF Suite_
<1>3. \A k \in DOMAIN rows.suites[i].programs : rows.suites[i].programs[k] \in DOMAIN rows.programs
  BY <1>2
<1> QED
  BY <1>1, <1>3, HomesStay DEF SuiteFits

\* and a suite run whose runs are its plan, when none of the new runs is one of its own.
LEMMA OldPlans ==
  ASSUME NEW rows, NEW new, RowsTyped(rows), Grows(rows, new), NEW i \in DOMAIN rows.suiteRuns, PlanKept(rows, i),
         \A k \in DOMAIN new.runs \ DOMAIN rows.runs : new.runs[k].suiteRun # i
  PROVE  PlanKept(new, i)
<1>1. new.suiteRuns[i] = rows.suiteRuns[i] /\ new.suites[new.suiteRuns[i].suite] = rows.suites[rows.suiteRuns[i].suite]
  BY HomesStay DEF Grows, Grown
<1>2. Grown(rows.runs, new.runs)
  BY DEF Grows
<1>3. RunsIn(new, i) = RunsIn(rows, i) /\ \A k \in RunsIn(rows, i) : new.runs[k] = rows.runs[k]
  BY <1>2 DEF RunsIn, Grown
<1>4. {<<new.runs[k].program, new.runs[k].method>> : k \in RunsIn(new, i)}
        = {<<rows.runs[k].program, rows.runs[k].method>> : k \in RunsIn(rows, i)}
  BY <1>3
<1> QED
  BY <1>1, <1>3, <1>4 DEF PlanKept


\* Where rows are only added, what is a row of the old tables is one of the new.
LEMMA TypesGrow ==
  ASSUME NEW rows, NEW new, Grows(rows, new)
  PROVE  /\ Program_(rows) \subseteq Program_(new) /\ Suite_(rows) \subseteq Suite_(new)
         /\ SuiteRun_(rows) \subseteq SuiteRun_(new) /\ Run_(rows) \subseteq Run_(new)
<1>1. /\ DOMAIN rows.projects \subseteq DOMAIN new.projects /\ DOMAIN rows.programs \subseteq DOMAIN new.programs
      /\ DOMAIN rows.suites \subseteq DOMAIN new.suites /\ DOMAIN rows.suiteRuns \subseteq DOMAIN new.suiteRuns
  BY DEF Grows, Grown
<1>2. \A s \in Seq(DOMAIN rows.programs) : s \in Seq(DOMAIN new.programs)
  BY <1>1, SeqMonotonic
<1> QED
  BY <1>1, <1>2 DEF Program_, Suite_, SuiteRun_, Run_

\* Rows of each table, old and new, are typed again.
LEMMA TypedAgain ==
  ASSUME NEW rows, NEW new, RowsTyped(rows), Grows(rows, new),
         new = [projects |-> new.projects, programs |-> new.programs, suites |-> new.suites,
                suiteRuns |-> new.suiteRuns, runs |-> new.runs],
         new.projects = rows.projects \/ new.projects \in Seq(Project_),
         new.programs = rows.programs \/ new.programs \in Seq(Program_(new)),
         new.suites = rows.suites \/ new.suites \in Seq(Suite_(new)),
         new.suiteRuns = rows.suiteRuns \/ new.suiteRuns \in Seq(SuiteRun_(new)),
         new.runs = rows.runs \/ new.runs \in Seq(Run_(new))
  PROVE  RowsTyped(new)
<1>1. rows.projects \in Seq(Project_)
  BY RowTypes
<1>2. rows.programs \in Seq(Program_(new))
  BY RowTypes, TypesGrow, SeqMonotonic
<1>3. rows.suites \in Seq(Suite_(new))
  BY RowTypes, TypesGrow, SeqMonotonic
<1>4. rows.suiteRuns \in Seq(SuiteRun_(new))
  BY RowTypes, TypesGrow, SeqMonotonic
<1>5. rows.runs \in Seq(Run_(new))
  BY RowTypes, TypesGrow, SeqMonotonic
<1> QED
  BY <1>1, <1>2, <1>3, <1>4, <1>5 DEF RowsTyped, Project_, Program_, Suite_, SuiteRun_, Run_

\* Names of one table.
Once(s) == \A i, j \in DOMAIN s : s[i].in = s[j].in /\ s[i].title = s[j].title => i = j

\* Names are told apart in each of the two tables that have them.
LEMMA NamesApart == ASSUME NEW rows PROVE NamesOnce(rows) <=> Once(rows.projects) /\ Once(rows.suites)
<1>1. rows["projects"] = rows.projects /\ rows["suites"] = rows.suites
  OBVIOUS
<1>2. ASSUME NamesOnce(rows) PROVE Once(rows["projects"]) /\ Once(rows["suites"])
  BY <1>2 DEF NamesOnce, Once
<1>3. ASSUME Once(rows["projects"]), Once(rows["suites"]) PROVE NamesOnce(rows)
  <2>1. \A name \in {"projects", "suites"} : Once(rows[name])
    BY <1>3
  <2> QED
    BY <2>1 DEF NamesOnce, Once
<1> QED
  BY <1>1, <1>2, <1>3

\* A row under a name that is free in its workspace leaves every name once.
LEMMA FreeName ==
  ASSUME NEW s, NEW more, NEW n, Grown(s, more), DOMAIN more = DOMAIN s \cup {n}, Once(s),
         \A i \in DOMAIN s : ~(s[i].in = more[n].in /\ s[i].title = more[n].title)
  PROVE  Once(more)
<1>1. ASSUME NEW i \in DOMAIN more, NEW j \in DOMAIN more, more[i].in = more[j].in, more[i].title = more[j].title
      PROVE  i = j
  <2>1. CASE i \in DOMAIN s /\ j \in DOMAIN s
    <3>1. s[i] = more[i] /\ s[j] = more[j]
      BY <2>1 DEF Grown
    <3> QED
      BY <1>1, <2>1, <3>1 DEF Once
  <2>2. CASE i \in DOMAIN s /\ j \notin DOMAIN s
    <3>1. j = n /\ s[i] = more[i]
      BY <2>2 DEF Grown
    <3> QED
      BY <1>1, <2>2, <3>1
  <2>3. CASE i \notin DOMAIN s /\ j \in DOMAIN s
    <3>1. i = n /\ s[j] = more[j]
      BY <2>3 DEF Grown
    <3> QED
      BY <1>1, <2>3, <3>1
  <2> QED
    BY <2>1, <2>2, <2>3
<1> QED
  BY <1>1 DEF Once

\* Where neither table with names changes, they stay apart.
LEMMA SameNames ==
  ASSUME NEW rows, NEW new, NamesOnce(rows), new.projects = rows.projects, new.suites = rows.suites
  PROVE  NamesOnce(new)
  BY NamesApart

\* Rows with one row more in a table.
WithProject(rows, row) == [rows EXCEPT !.projects = Append(@, row)]
WithProgram(rows, row) == [rows EXCEPT !.programs = Append(@, row)]
WithSuite(rows, row) == [rows EXCEPT !.suites = Append(@, row)]
WithRun(rows, row) == [rows EXCEPT !.runs = Append(@, row)]

\* project.create: the name was free when it was inserted.
LEMMA ProjectMade ==
  ASSUME NEW rows, NEW new, NEW ever, RowsTyped(rows), RowsApart(rows, ever),
         NEW w \in Tenants, NEW t \in Titles, NEW p \in Folk, p \in ever[w],
         ~\E i \in DOMAIN rows.projects : rows.projects[i].in = w /\ rows.projects[i].title = t,
         NEW row, row = [in |-> w, title |-> t, by |-> p], new = WithProject(rows, row)
  PROVE  RowsTyped(new) /\ RowsApart(new, ever)
<1> DEFINE n == Len(rows.projects) + 1
<1>1. new = [projects |-> Append(rows.projects, row), programs |-> rows.programs, suites |-> rows.suites,
             suiteRuns |-> rows.suiteRuns, runs |-> rows.runs]
  BY DEF RowsTyped, WithProject
<1>2. /\ new.projects = Append(rows.projects, row) /\ new.programs = rows.programs /\ new.suites = rows.suites
      /\ new.suiteRuns = rows.suiteRuns /\ new.runs = rows.runs
  BY <1>1
<1>3. rows.projects \in Seq(Project_) /\ row \in Project_
  BY RowTypes DEF Project_
<1>4. /\ Grown(rows.projects, new.projects) /\ DOMAIN new.projects = DOMAIN rows.projects \cup {n}
      /\ n \notin DOMAIN rows.projects /\ new.projects[n] = row /\ new.projects \in Seq(Project_)
  <2> DEFINE more == Append(rows.projects, row)
  <2>1. /\ Grown(rows.projects, more) /\ DOMAIN more = DOMAIN rows.projects \cup {n}
        /\ n \notin DOMAIN rows.projects /\ more[n] = row /\ more \in Seq(Project_)
    BY <1>3, OneMore
  <2> HIDE DEF more
  <2>2. new.projects = more
    BY <1>2 DEF more
  <2> QED
    BY <1>3, <2>1, <2>2
<1>5. Grows(rows, new)
  BY <1>2, <1>4, SameGrown DEF Grows
<1>6. RowsTyped(new)
  BY <1>1, <1>2, <1>4, <1>5, TypedAgain
<1>7. MadeInside(new, ever)
  <2>1. \A i \in DOMAIN new.projects \ DOMAIN rows.projects : new.projects[i].by \in ever[new.projects[i].in]
    BY <1>4
  <2> QED
    BY <1>2, <1>5, <2>1, OldInside DEF RowsApart
<1>8. NamesOnce(new)
  <2>1. Once(rows.projects) /\ Once(rows.suites)
    BY NamesApart DEF RowsApart
  <2>2. \A i \in DOMAIN rows.projects : ~(rows.projects[i].in = new.projects[n].in /\ rows.projects[i].title = new.projects[n].title)
    BY <1>4
  <2>3. Once(new.projects)
    BY <1>4, <2>1, <2>2, FreeName
  <2> QED
    BY <1>2, <2>1, <2>3, NamesApart
<1>9. /\ \A i \in DOMAIN new.suites : SuiteFits(new, i)
      /\ \A i \in DOMAIN new.suiteRuns : PlanKept(new, i)
  BY <1>2, <1>5, OldSuites, OldPlans DEF RowsApart
<1> QED
  BY <1>6, <1>7, <1>8, <1>9 DEF RowsApart

\* program.create: into a project of the workspace.
LEMMA ProgramMade ==
  ASSUME NEW rows, NEW new, NEW ever, RowsTyped(rows), RowsApart(rows, ever),
         NEW j \in DOMAIN rows.projects, NEW p \in Folk, p \in ever[rows.projects[j].in],
         NEW row, row = [project |-> j, by |-> p], new = WithProgram(rows, row)
  PROVE  RowsTyped(new) /\ RowsApart(new, ever)
<1> DEFINE n == Len(rows.programs) + 1
<1>1. new = [projects |-> rows.projects, programs |-> Append(rows.programs, row), suites |-> rows.suites,
             suiteRuns |-> rows.suiteRuns, runs |-> rows.runs]
  BY DEF RowsTyped, WithProgram
<1>2. /\ new.projects = rows.projects /\ new.programs = Append(rows.programs, row) /\ new.suites = rows.suites
      /\ new.suiteRuns = rows.suiteRuns /\ new.runs = rows.runs
  BY <1>1
<1>3. rows.programs \in Seq(Program_(rows)) /\ row \in Program_(rows) /\ Program_(rows) = Program_(new)
  BY <1>2, RowTypes DEF Program_
<1>4. /\ Grown(rows.programs, new.programs) /\ DOMAIN new.programs = DOMAIN rows.programs \cup {n}
      /\ n \notin DOMAIN rows.programs /\ new.programs[n] = row /\ new.programs \in Seq(Program_(new))
  <2> DEFINE more == Append(rows.programs, row)
  <2>1. /\ Grown(rows.programs, more) /\ DOMAIN more = DOMAIN rows.programs \cup {n}
        /\ n \notin DOMAIN rows.programs /\ more[n] = row /\ more \in Seq(Program_(rows))
    BY <1>3, OneMore
  <2> HIDE DEF more
  <2>2. new.programs = more
    BY <1>2 DEF more
  <2> QED
    BY <1>3, <2>1, <2>2
<1>5. Grows(rows, new)
  BY <1>2, <1>4, SameGrown DEF Grows
<1>6. RowsTyped(new)
  BY <1>1, <1>2, <1>4, <1>5, TypedAgain
<1>7. HomeIn(new, n) = rows.projects[j].in
  BY <1>2, <1>4 DEF HomeIn
<1>8. MadeInside(new, ever)
  <2>1. \A i \in DOMAIN new.programs \ DOMAIN rows.programs : new.programs[i].by \in ever[HomeIn(new, i)]
    BY <1>4, <1>7
  <2> QED
    BY <1>2, <1>5, <2>1, OldInside DEF RowsApart
<1>9. NamesOnce(new)
  BY <1>2, SameNames DEF RowsApart
<1>10. /\ \A i \in DOMAIN new.suites : SuiteFits(new, i)
       /\ \A i \in DOMAIN new.suiteRuns : PlanKept(new, i)
  BY <1>2, <1>5, OldSuites, OldPlans DEF RowsApart
<1> QED
  BY <1>6, <1>8, <1>9, <1>10 DEF RowsApart

\* A run of its own: of no suite's run.
LEMMA RunMade ==
  ASSUME NEW rows, NEW new, NEW ever, RowsTyped(rows), RowsApart(rows, ever),
         NEW g \in DOMAIN rows.programs, NEW p \in Folk, p \in ever[HomeIn(rows, g)],
         NEW m \in {"greedy"} \cup UNION MethodChoices,
         NEW row, row = [program |-> g, by |-> p, suiteRun |-> 0, status |-> "RUNNING", method |-> m], new = WithRun(rows, row)
  PROVE  RowsTyped(new) /\ RowsApart(new, ever)
<1> DEFINE n == Len(rows.runs) + 1
<1>1. new = [projects |-> rows.projects, programs |-> rows.programs, suites |-> rows.suites,
             suiteRuns |-> rows.suiteRuns, runs |-> Append(rows.runs, row)]
  BY DEF RowsTyped, WithRun
<1>2. /\ new.projects = rows.projects /\ new.programs = rows.programs /\ new.suites = rows.suites
      /\ new.suiteRuns = rows.suiteRuns /\ new.runs = Append(rows.runs, row)
  BY <1>1
<1>3. rows.runs \in Seq(Run_(rows)) /\ row \in Run_(rows) /\ Run_(rows) = Run_(new)
  BY <1>2, RowTypes DEF Run_
<1>4. /\ Grown(rows.runs, new.runs) /\ DOMAIN new.runs = DOMAIN rows.runs \cup {n}
      /\ n \notin DOMAIN rows.runs /\ new.runs[n] = row /\ new.runs \in Seq(Run_(new))
  <2> DEFINE more == Append(rows.runs, row)
  <2>1. /\ Grown(rows.runs, more) /\ DOMAIN more = DOMAIN rows.runs \cup {n}
        /\ n \notin DOMAIN rows.runs /\ more[n] = row /\ more \in Seq(Run_(rows))
    BY <1>3, OneMore
  <2> HIDE DEF more
  <2>2. new.runs = more
    BY <1>2 DEF more
  <2> QED
    BY <1>3, <2>1, <2>2
<1>5. Grows(rows, new)
  BY <1>2, <1>4, SameGrown DEF Grows
<1>6. RowsTyped(new)
  BY <1>1, <1>2, <1>4, <1>5, TypedAgain
<1>7. MadeInside(new, ever)
  <2>0. new.runs[n].program = g
    BY <1>4
  <2>1. HomeIn(new, new.runs[n].program) = HomeIn(rows, g)
    BY <1>2, <2>0 DEF HomeIn
  <2>2. \A i \in DOMAIN new.runs \ DOMAIN rows.runs : new.runs[i].by \in ever[HomeIn(new, new.runs[i].program)]
    BY <1>4, <2>1
  <2> QED
    BY <1>2, <1>5, <2>2, OldInside DEF RowsApart
<1>8. NamesOnce(new)
  BY <1>2, SameNames DEF RowsApart
<1>9. \A i \in DOMAIN rows.suiteRuns, k \in DOMAIN new.runs \ DOMAIN rows.runs : new.runs[k].suiteRun # i
  <2>1. \A i \in DOMAIN rows.suiteRuns : i # 0
    BY RowTypes
  <2> QED
    BY <1>4, <2>1
<1>10. /\ \A i \in DOMAIN new.suites : SuiteFits(new, i)
       /\ \A i \in DOMAIN new.suiteRuns : PlanKept(new, i)
  BY <1>2, <1>5, <1>9, OldSuites, OldPlans DEF RowsApart
<1> QED
  BY <1>6, <1>7, <1>8, <1>10 DEF RowsApart

\* What a set of programs is stored as has each of them, once.
LEMMA AsSequence ==
  ASSUME NEW S, IsFiniteSet(S)
  PROVE  /\ SetToSeq(S) \in Seq(S) /\ Len(SetToSeq(S)) = Cardinality(S) /\ Cardinality(S) \in Nat
         /\ IsInjective(SetToSeq(S)) /\ ToSet(SetToSeq(S)) = S
<1> DEFINE n == Cardinality(S)
           f == SetToSeq(S)
<1>1. n \in Nat /\ ExistsBijection(1 .. n, S)
  BY FS_CardinalityType
<1>2. PICK b \in [1 .. n -> S] : b \in Bijection(1 .. n, S)
  BY <1>1 DEF ExistsBijection, Bijection, Injection
<1>3. IsInjective(b)
  BY <1>2 DEF Bijection, Injection, IsInjective
<1>4. f \in [1 .. n -> S] /\ IsInjective(f)
  BY <1>3 DEF SetToSeq
<1>5. f \in Seq(S) /\ Len(f) = n
  BY <1>1, <1>4
<1>6. f \in Injection(1 .. n, S)
  BY <1>4 DEF Injection, IsInjective
<1>7. IsFiniteSet(1 .. n) /\ Cardinality(1 .. n) = n
  BY <1>1, FS_Interval
<1>8. f \in Surjection(1 .. n, S)
  BY <1>6, <1>7, FS_Injection
<1>9. ToSet(f) = S
  BY <1>4, <1>8 DEF Surjection, ToSet
<1> QED
  BY <1>1, <1>4, <1>5, <1>9

\* Any programs of the table are finitely many.
LEMMA ProgramsFinite ==
  ASSUME NEW rows, RowsTyped(rows)
  PROVE  \A ids \in SUBSET DOMAIN rows.programs : IsFiniteSet(ids) /\ Cardinality(ids) \in Nat
<1>1. rows.programs \in Seq(Program_(rows))
  BY RowTypes
<1>2. DOMAIN rows.programs = 1 .. Len(rows.programs) /\ Len(rows.programs) \in Nat
  BY <1>1, LenProperties
<1>3. IsFiniteSet(DOMAIN rows.programs)
  BY <1>2, FS_Interval
<1> QED
  BY <1>3, FS_Subset, FS_CardinalityType

\* benchmarkSuite.create: of programs that were all found in the workspace.
LEMMA SuiteMade ==
  ASSUME NEW rows, NEW new, NEW ever, RowsTyped(rows), RowsApart(rows, ever),
         NEW w \in Tenants, NEW t \in Titles, NEW p \in Folk, p \in ever[w],
         ~\E i \in DOMAIN rows.suites : rows.suites[i].in = w /\ rows.suites[i].title = t,
         NEW ids \in SUBSET DOMAIN rows.programs, \A id \in ids : HomeIn(rows, id) = w,
         NEW ms \in MethodChoices, Fits([programs |-> ids, methods |-> ms]),
         NEW row, row = [in |-> w, title |-> t, by |-> p, programs |-> SetToSeq(ids), methods |-> ms],
         new = WithSuite(rows, row)
  PROVE  RowsTyped(new) /\ RowsApart(new, ever)
<1> DEFINE n == Len(rows.suites) + 1
<1>1. new = [projects |-> rows.projects, programs |-> rows.programs, suites |-> Append(rows.suites, row),
             suiteRuns |-> rows.suiteRuns, runs |-> rows.runs]
  BY DEF RowsTyped, WithSuite
<1>2. /\ new.projects = rows.projects /\ new.programs = rows.programs /\ new.suites = Append(rows.suites, row)
      /\ new.suiteRuns = rows.suiteRuns /\ new.runs = rows.runs
  BY <1>1
<1>3. /\ SetToSeq(ids) \in Seq(ids) /\ IsInjective(SetToSeq(ids)) /\ ToSet(SetToSeq(ids)) = ids
      /\ SetToSeq(ids) \in Seq(DOMAIN rows.programs)
  <2>1. SetToSeq(ids) \in Seq(ids) /\ IsInjective(SetToSeq(ids)) /\ ToSet(SetToSeq(ids)) = ids
    BY ProgramsFinite, AsSequence
  <2> QED
    BY <2>1, SeqMonotonic
<1>4. rows.suites \in Seq(Suite_(rows)) /\ row \in Suite_(rows) /\ Suite_(rows) = Suite_(new)
  BY <1>2, <1>3, RowTypes DEF Suite_
<1>5. /\ Grown(rows.suites, new.suites) /\ DOMAIN new.suites = DOMAIN rows.suites \cup {n}
      /\ n \notin DOMAIN rows.suites /\ new.suites[n] = row /\ new.suites \in Seq(Suite_(new))
  <2> DEFINE more == Append(rows.suites, row)
  <2>1. /\ Grown(rows.suites, more) /\ DOMAIN more = DOMAIN rows.suites \cup {n}
        /\ n \notin DOMAIN rows.suites /\ more[n] = row /\ more \in Seq(Suite_(rows))
    BY <1>4, OneMore
  <2> HIDE DEF more
  <2>2. new.suites = more
    BY <1>2 DEF more
  <2> QED
    BY <1>4, <2>1, <2>2
<1>6. Grows(rows, new)
  BY <1>2, <1>5, SameGrown DEF Grows
<1>7. RowsTyped(new)
  BY <1>1, <1>2, <1>5, <1>6, TypedAgain
<1>8. MadeInside(new, ever)
  <2>1. \A i \in DOMAIN new.suites \ DOMAIN rows.suites : new.suites[i].by \in ever[new.suites[i].in]
    BY <1>5
  <2> QED
    BY <1>2, <1>6, <2>1, OldInside DEF RowsApart
<1>9. NamesOnce(new)
  <2>1. Once(rows.projects) /\ Once(rows.suites)
    BY NamesApart DEF RowsApart
  <2>2. \A i \in DOMAIN rows.suites : ~(rows.suites[i].in = new.suites[n].in /\ rows.suites[i].title = new.suites[n].title)
    BY <1>5
  <2>3. Once(new.suites)
    BY <1>5, <2>1, <2>2, FreeName
  <2> QED
    BY <1>2, <2>1, <2>3, NamesApart
<1>10. SuiteFits(new, n)
  <2>1. new.suites[n] = row /\ row.programs = SetToSeq(ids) /\ row.in = w /\ row.methods = ms
    BY <1>5
  <2>2. \A k \in DOMAIN SetToSeq(ids) : SetToSeq(ids)[k] \in ids
    BY <1>3
  <2>3. \A id \in ids : HomeIn(new, id) = w
    BY <1>2 DEF HomeIn
  <2> QED
    BY <1>3, <2>1, <2>2, <2>3 DEF SuiteFits
<1>11. /\ \A i \in DOMAIN new.suites : SuiteFits(new, i)
       /\ \A i \in DOMAIN new.suiteRuns : PlanKept(new, i)
  BY <1>2, <1>5, <1>6, <1>10, OldSuites, OldPlans DEF RowsApart
<1> QED
  BY <1>7, <1>8, <1>9, <1>11 DEF RowsApart

\* How many runs a suite asks for.
LEMMA PlanSize ==
  ASSUME NEW rows, RowsTyped(rows), NEW g \in DOMAIN rows.suites, SuiteFits(rows, g)
  PROVE  LET s_ == rows.suites[g] IN
         /\ IsFiniteSet(ToSet(s_.programs) \X s_.methods)
         /\ ToSet(s_.programs) \subseteq DOMAIN rows.programs /\ s_.methods \in MethodChoices
         /\ Cardinality(ToSet(s_.programs) \X s_.methods) \in 1 .. MaxSuiteRuns
<1> DEFINE s_ == rows.suites[g]
           ids == ToSet(s_.programs)
<1>1. s_.programs \in Seq(DOMAIN rows.programs) /\ s_.methods \in MethodChoices
  BY RowTypes DEF Suite_
<1>2. ids \subseteq DOMAIN rows.programs
  BY <1>1 DEF ToSet
<1>3. IsFiniteSet(ids) /\ Cardinality(ids) \in Nat
  BY <1>2, ProgramsFinite
<1>4. IsFiniteSet(s_.methods) /\ Cardinality(s_.methods) \in Nat
  BY <1>1, RecordsAssumption, FS_CardinalityType
<1>5. /\ ids # {} /\ s_.methods # {}
      /\ Cardinality(ids) * Cardinality(s_.methods) <= MaxSuiteRuns
  BY DEF SuiteFits, Fits
<1>6. Cardinality(ids) >= 1 /\ Cardinality(s_.methods) >= 1
  BY <1>3, <1>4, <1>5, FS_EmptySet
<1>7. \A a, b \in Nat : a >= 1 /\ b >= 1 => a * b \in Nat /\ a * b >= 1
  OBVIOUS
<1>8. /\ IsFiniteSet(ids \X s_.methods)
      /\ Cardinality(ids \X s_.methods) = Cardinality(ids) * Cardinality(s_.methods)
  BY <1>3, <1>4, FS_Product
<1>9. Cardinality(ids \X s_.methods) \in 1 .. MaxSuiteRuns
  BY <1>3, <1>4, <1>5, <1>6, <1>7, <1>8, RecordsAssumption
<1> QED
  BY <1>1, <1>2, <1>8, <1>9

\* suiteRun.create with its runs: one for each program and method of the suite.
PlanOf(s) == SetToSeq(ToSet(s.programs) \X s.methods)
PlannedRun(rows, p, plan, i) ==
  [program |-> plan[i][1], by |-> p, suiteRun |-> Len(rows.suiteRuns) + 1, status |-> "QUEUED", method |-> plan[i][2]]
Started(rows, g, p, plan) ==
  [rows EXCEPT !.suiteRuns = Append(@, [suite |-> g, by |-> p, total |-> Len(plan), status |-> "QUEUED"]),
               !.runs = @ \o [i \in DOMAIN plan |-> PlannedRun(rows, p, plan, i)]]

\* startSuiteRun: a suite run with one queued run for each pair of its plan, and nobody else's.
LEMMA SuiteRunMade ==
  ASSUME NEW rows, NEW new, NEW ever, RowsTyped(rows), RowsApart(rows, ever),
         NEW g \in DOMAIN rows.suites, NEW p \in Folk, p \in ever[rows.suites[g].in],
         NEW plan, plan = PlanOf(rows.suites[g]), new = Started(rows, g, p, plan)
  PROVE  RowsTyped(new) /\ RowsApart(new, ever)
<1> DEFINE s_ == rows.suites[g]
           pairs == ToSet(s_.programs) \X s_.methods
           n == Len(rows.suiteRuns) + 1
           row == [suite |-> g, by |-> p, total |-> Len(plan), status |-> "QUEUED"]
           made == [i \in DOMAIN plan |-> PlannedRun(rows, p, plan, i)]
           L == Len(rows.runs)
<1>1. new = [projects |-> rows.projects, programs |-> rows.programs, suites |-> rows.suites,
             suiteRuns |-> Append(rows.suiteRuns, row), runs |-> rows.runs \o made]
  BY DEF RowsTyped, Started
<1>2. /\ new.projects = rows.projects /\ new.programs = rows.programs /\ new.suites = rows.suites
      /\ new.suiteRuns = Append(rows.suiteRuns, row) /\ new.runs = rows.runs \o made
  BY <1>1
<1>3. SuiteFits(rows, g)
  BY DEF RowsApart
<1>4. /\ IsFiniteSet(pairs) /\ ToSet(s_.programs) \subseteq DOMAIN rows.programs /\ s_.methods \in MethodChoices
      /\ Cardinality(pairs) \in 1 .. MaxSuiteRuns
  BY <1>3, PlanSize
<1>5. /\ plan \in Seq(pairs) /\ Len(plan) = Cardinality(pairs) /\ ToSet(plan) = pairs
      /\ Len(plan) \in Nat /\ DOMAIN plan = 1 .. Len(plan) /\ \A i \in 1 .. Len(plan) : plan[i] \in pairs
  <2>1. plan \in Seq(pairs) /\ Len(plan) = Cardinality(pairs) /\ ToSet(plan) = pairs
    BY <1>4, AsSequence DEF PlanOf
  <2> QED
    BY <2>1, LenProperties, ElementOfSeq
<1>6. rows.suiteRuns \in Seq(SuiteRun_(rows)) /\ row \in SuiteRun_(rows) /\ SuiteRun_(rows) = SuiteRun_(new)
  BY <1>2, <1>4, <1>5, RowTypes DEF SuiteRun_
<1>7. /\ Grown(rows.suiteRuns, new.suiteRuns) /\ DOMAIN new.suiteRuns = DOMAIN rows.suiteRuns \cup {n}
      /\ n \notin DOMAIN rows.suiteRuns /\ new.suiteRuns[n] = row /\ new.suiteRuns \in Seq(SuiteRun_(new))
  BY <1>2, <1>6, OneMore
<1>8. /\ \A i \in 1 .. Len(plan) : made[i] \in Run_(new)
      /\ made \in Seq(Run_(new)) /\ Len(made) = Len(plan)
  <2>1. \A i \in 1 .. Len(plan) : plan[i][1] \in DOMAIN rows.programs /\ plan[i][2] \in UNION MethodChoices
    BY <1>4, <1>5
  <2>2. n \in DOMAIN new.suiteRuns /\ new.programs = rows.programs
    BY <1>2, <1>7
  <2>3. \A i \in 1 .. Len(plan) : PlannedRun(rows, p, plan, i) \in Run_(new)
    BY <2>1, <2>2 DEF Run_, PlannedRun
  <2>4. \A i \in 1 .. Len(plan) : made[i] = PlannedRun(rows, p, plan, i)
    BY <1>5
  <2>5. made = [i \in 1 .. Len(plan) |-> PlannedRun(rows, p, plan, i)]
    BY <1>5
  <2>6. made \in [1 .. Len(plan) -> Run_(new)]
    BY <2>3, <2>5
  <2> HIDE DEF made, pairs
  <2>7. made \in Seq(Run_(new)) /\ Len(made) = Len(plan)
    BY <1>5, <2>6, AsFunction
  <2> QED
    BY <2>3, <2>4, <2>7
<1>9. /\ rows.runs \in Seq(Run_(rows)) /\ rows.runs \in Seq(Run_(new)) /\ L \in Nat /\ DOMAIN rows.runs = 1 .. L
  <2>1. rows.runs \in Seq(Run_(rows))
    BY RowTypes
  <2>2. Run_(rows) \subseteq Run_(new)
    BY <1>2, <1>7 DEF Run_
  <2> QED
    BY <2>1, <2>2, SeqMonotonic, LenProperties
<1>10. /\ new.runs \in Seq(Run_(new)) /\ DOMAIN new.runs = 1 .. L + Len(plan)
       /\ \A k \in 1 .. L : new.runs[k] = rows.runs[k]
       /\ \A k \in L + 1 .. L + Len(plan) : k - L \in 1 .. Len(plan) /\ new.runs[k] = made[k - L]
  <2>1. /\ rows.runs \o made \in Seq(Run_(new)) /\ Len(rows.runs \o made) = L + Len(made)
        /\ \A i \in 1 .. L + Len(made) : (rows.runs \o made)[i] = IF i <= L THEN rows.runs[i] ELSE made[i - L]
    BY <1>8, <1>9, ConcatProperties
  <2> HIDE DEF L, made, pairs
  <2>2. /\ new.runs \in Seq(Run_(new)) /\ Len(new.runs) = L + Len(plan)
        /\ \A i \in 1 .. L + Len(plan) : new.runs[i] = IF i <= L THEN rows.runs[i] ELSE made[i - L]
    BY <1>2, <1>8, <2>1
  <2>3. DOMAIN new.runs = 1 .. L + Len(plan)
    BY <2>2, LenProperties
  <2>4. \A k \in 1 .. L : k \in 1 .. L + Len(plan) /\ k <= L
    BY <1>5, <1>9
  <2>5. \A k \in L + 1 .. L + Len(plan) : k \in 1 .. L + Len(plan) /\ ~(k <= L) /\ k - L \in 1 .. Len(plan)
    BY <1>5, <1>9
  <2> QED
    BY <2>2, <2>3, <2>4, <2>5
<1>11. Grows(rows, new)
  <2>1. Grown(rows.runs, new.runs)
    BY <1>5, <1>9, <1>10 DEF Grown
  <2> QED
    BY <1>2, <1>7, <2>1, SameGrown DEF Grows
<1>21. \A i \in 1 .. Len(plan) :
         /\ made[i].by = p /\ made[i].suiteRun = n /\ made[i].status = "QUEUED"
         /\ <<made[i].program, made[i].method>> = plan[i] /\ made[i].program \in ToSet(s_.programs)
  <2>1. \A i \in 1 .. Len(plan) : plan[i] = <<plan[i][1], plan[i][2]>> /\ plan[i][1] \in ToSet(s_.programs)
    BY <1>5
  <2>2. \A i \in 1 .. Len(plan) : made[i] = PlannedRun(rows, p, plan, i)
    BY <1>5
  <2>3. ASSUME NEW i
        PROVE  LET r == PlannedRun(rows, p, plan, i) IN
               r.by = p /\ r.suiteRun = n /\ r.status = "QUEUED" /\ r.program = plan[i][1] /\ r.method = plan[i][2]
    BY DEF PlannedRun
  <2> HIDE DEF n, made
  <2> QED
    BY <2>1, <2>2, <2>3
<1>22. row.suite = g /\ row.by = p /\ row.total = Len(plan) /\ row.status = "QUEUED" /\ n # 0
  <2>1. Len(rows.suiteRuns) \in Nat
    BY <1>6, LenProperties
  <2> QED
    BY <2>1
<1>12. RowsTyped(new)
  BY <1>1, <1>2, <1>7, <1>10, <1>11, TypedAgain
<1> HIDE DEF n, L, pairs, row, made
<1>13. \A k \in L + 1 .. L + Len(plan) :
         /\ new.runs[k].by = p /\ new.runs[k].suiteRun = n /\ new.runs[k].status = "QUEUED"
         /\ <<new.runs[k].program, new.runs[k].method>> = plan[k - L]
         /\ new.runs[k].program \in ToSet(s_.programs)
  BY <1>10, <1>21
<1>14. \A k \in DOMAIN rows.runs : new.runs[k] = rows.runs[k] /\ new.runs[k].suiteRun # n
  <2>1. \A k \in DOMAIN rows.runs : rows.runs[k].suiteRun \in {0} \cup DOMAIN rows.suiteRuns
    BY RowTypes DEF Run_
  <2> QED
    BY <1>7, <1>9, <1>10, <1>22, <2>1
<1>15. \A k \in DOMAIN new.runs : k \in DOMAIN rows.runs \/ k \in L + 1 .. L + Len(plan)
  BY <1>5, <1>9, <1>10
<1>16. MadeInside(new, ever)
  <2>1. \A i \in DOMAIN new.suiteRuns \ DOMAIN rows.suiteRuns : new.suiteRuns[i].by \in ever[new.suites[new.suiteRuns[i].suite].in]
    BY <1>2, <1>7, <1>22
  <2>2. \A id \in ToSet(s_.programs) : HomeIn(new, id) = s_.in
    BY <1>2, <1>3 DEF SuiteFits, HomeIn, ToSet
  <2>3. \A i \in DOMAIN new.runs \ DOMAIN rows.runs : new.runs[i].by \in ever[HomeIn(new, new.runs[i].program)]
    BY <1>13, <1>15, <2>2
  <2>4. MadeInside(rows, ever)
    BY DEF RowsApart
  <2> QED
    BY <1>2, <1>11, <2>1, <2>3, <2>4, OldInside
<1>17. NamesOnce(new)
  BY <1>2, SameNames DEF RowsApart
<1>18. PlanKept(new, n)
  <2>1. RunsIn(new, n) = L + 1 .. L + Len(plan)
    BY <1>5, <1>9, <1>10, <1>13, <1>14, <1>15 DEF RunsIn
  <2>2. Cardinality(RunsIn(new, n)) = Len(plan)
    BY <1>5, <1>9, <2>1, FS_Interval
  <2> DEFINE Pair(k) == <<new.runs[k].program, new.runs[k].method>>
  <2>3. \A k \in RunsIn(new, n) : k - L \in 1 .. Len(plan) /\ Pair(k) = plan[k - L]
    BY <1>10, <1>13, <2>1
  <2>4. \A i \in 1 .. Len(plan) : L + i \in RunsIn(new, n) /\ (L + i) - L = i
    BY <1>5, <1>9, <2>1
  <2>5. new.suites[new.suiteRuns[n].suite] = s_ /\ new.suiteRuns[n].total = Len(plan) /\ new.suiteRuns[n].status = "QUEUED"
    BY <1>2, <1>7, <1>22
  <2>6. {<<new.runs[k].program, new.runs[k].method>> : k \in RunsIn(new, n)} = ToSet(s_.programs) \X s_.methods
    <3>1. ToSet(plan) = ToSet(s_.programs) \X s_.methods
      BY <1>5 DEF pairs
    <3>2. /\ \A i \in 1 .. Len(plan) : plan[i] \in ToSet(plan)
          /\ \A x \in ToSet(plan) : \E i \in 1 .. Len(plan) : x = plan[i]
      BY <1>5 DEF ToSet
    <3> HIDE DEF Pair
    <3>3. \A k \in RunsIn(new, n) : Pair(k) \in ToSet(plan)
      BY <2>3, <3>2
    <3>4. \A x \in ToSet(plan) : \E k \in RunsIn(new, n) : x = Pair(k)
      BY <2>3, <2>4, <3>2
    <3>5. {Pair(k) : k \in RunsIn(new, n)} = ToSet(plan)
      BY <3>3, <3>4
    <3> QED
      BY <3>1, <3>5 DEF Pair
  <2> QED
    BY <2>2, <2>5, <2>6 DEF PlanKept
<1>19. \A i \in DOMAIN rows.suiteRuns : PlanKept(new, i)
  <2>1. \A i \in DOMAIN rows.suiteRuns, k \in DOMAIN new.runs \ DOMAIN rows.runs : new.runs[k].suiteRun # i
    BY <1>7, <1>13, <1>15
  <2> QED
    BY <1>11, <2>1, OldPlans DEF RowsApart
<1>20. \A i \in DOMAIN new.suites : SuiteFits(new, i)
  BY <1>2, <1>11, OldSuites DEF RowsApart
<1> QED
  BY <1>7, <1>12, <1>16, <1>17, <1>18, <1>19, <1>20 DEF RowsApart

Ended_(rows, id, i) ==
  IF rows.runs[i].suiteRun = id /\ rows.runs[i].status = "QUEUED"
    THEN [rows.runs[i] EXCEPT !.status = "ABANDONED"] ELSE rows.runs[i]
Stopped(rows, id) ==
  [rows EXCEPT !.suiteRuns[id].status = "ABANDONED", !.runs = [i \in DOMAIN @ |-> Ended_(rows, id, i)]]

\* suiteRun.update and run.updateMany: only how far things are is changed.
LEMMA RunsStopped ==
  ASSUME NEW rows, NEW new, NEW ever, RowsTyped(rows), RowsApart(rows, ever), NEW id \in DOMAIN rows.suiteRuns,
         new = Stopped(rows, id)
  PROVE  RowsTyped(new) /\ RowsApart(new, ever)
<1> DEFINE closed_ == [rows.suiteRuns EXCEPT ![id].status = "ABANDONED"]
           ended_ == [i \in DOMAIN rows.runs |-> Ended_(rows, id, i)]
<1>1. new = [projects |-> rows.projects, programs |-> rows.programs, suites |-> rows.suites,
             suiteRuns |-> closed_, runs |-> ended_]
  BY DEF RowsTyped, Stopped
<1>2. /\ new.projects = rows.projects /\ new.programs = rows.programs /\ new.suites = rows.suites
      /\ new.suiteRuns = closed_ /\ new.runs = ended_
  BY <1>1
<1>3. /\ DOMAIN closed_ = DOMAIN rows.suiteRuns /\ closed_ \in Seq(SuiteRun_(rows))
      /\ \A i \in DOMAIN rows.suiteRuns :
           /\ closed_[i].suite = rows.suiteRuns[i].suite /\ closed_[i].by = rows.suiteRuns[i].by
           /\ closed_[i].total = rows.suiteRuns[i].total
           /\ i # id => closed_[i].status = rows.suiteRuns[i].status
  <2>1. rows.suiteRuns \in Seq(SuiteRun_(rows)) /\ rows.suiteRuns[id] \in SuiteRun_(rows)
    BY RowTypes
  <2>2. id \in 1 .. Len(rows.suiteRuns)
    BY <2>1, LenProperties
  <2> DEFINE e == [rows.suiteRuns[id] EXCEPT !.status = "ABANDONED"]
  <2>3. /\ e \in SuiteRun_(rows) /\ e.suite = rows.suiteRuns[id].suite /\ e.by = rows.suiteRuns[id].by
        /\ e.total = rows.suiteRuns[id].total
    BY <2>1 DEF SuiteRun_
  <2> HIDE DEF e
  <2>4. closed_ = [rows.suiteRuns EXCEPT ![id] = e]
    BY DEF e
  <2>5. /\ [rows.suiteRuns EXCEPT ![id] = e] \in Seq(SuiteRun_(rows))
        /\ DOMAIN [rows.suiteRuns EXCEPT ![id] = e] = DOMAIN rows.suiteRuns
    BY <2>1, <2>2, <2>3, ExceptSeq
  <2>6. \A i \in DOMAIN rows.suiteRuns : closed_[i] = IF i = id THEN e ELSE rows.suiteRuns[i]
    BY <2>4
  <2> QED
    BY <2>3, <2>4, <2>5, <2>6
<1>4. /\ DOMAIN ended_ = DOMAIN rows.runs /\ ended_ \in Seq(Run_(rows))
      /\ \A k \in DOMAIN rows.runs :
           /\ ended_[k].program = rows.runs[k].program /\ ended_[k].by = rows.runs[k].by
           /\ ended_[k].suiteRun = rows.runs[k].suiteRun /\ ended_[k].method = rows.runs[k].method
           /\ rows.runs[k].status # "QUEUED" => ended_[k].status # "QUEUED"
           /\ rows.runs[k].suiteRun = id => ended_[k].status # "QUEUED"
  <2>1. /\ rows.runs \in Seq(Run_(rows)) /\ \A k \in DOMAIN rows.runs : rows.runs[k] \in Run_(rows)
    BY RowTypes
  <2>2. Len(rows.runs) \in Nat /\ DOMAIN rows.runs = 1 .. Len(rows.runs)
    BY <2>1, LenProperties
  <2>3. ASSUME NEW k \in DOMAIN rows.runs
        PROVE  /\ Ended_(rows, id, k) \in Run_(rows)
               /\ Ended_(rows, id, k).program = rows.runs[k].program /\ Ended_(rows, id, k).by = rows.runs[k].by
               /\ Ended_(rows, id, k).suiteRun = rows.runs[k].suiteRun /\ Ended_(rows, id, k).method = rows.runs[k].method
               /\ rows.runs[k].status # "QUEUED" => Ended_(rows, id, k).status # "QUEUED"
               /\ rows.runs[k].suiteRun = id => Ended_(rows, id, k).status # "QUEUED"
    <3>1. rows.runs[k] \in Run_(rows)
      BY <2>1
    <3>2. CASE rows.runs[k].suiteRun = id /\ rows.runs[k].status = "QUEUED"
      BY <3>1, <3>2 DEF Run_, Ended_
    <3>3. CASE ~(rows.runs[k].suiteRun = id /\ rows.runs[k].status = "QUEUED")
      <4>1. Ended_(rows, id, k) = rows.runs[k]
        BY <3>3 DEF Ended_
      <4> QED
        BY <3>1, <3>3, <4>1
    <3> QED
      BY <3>2, <3>3
  <2>4. ended_ \in [1 .. Len(rows.runs) -> Run_(rows)]
    BY <2>2, <2>3
  <2>5. ended_ \in Seq(Run_(rows))
    BY <2>2, <2>4, AsFunction
  <2> QED
    BY <2>3, <2>5
<1> HIDE DEF closed_, ended_
<1>5. SuiteRun_(new) = SuiteRun_(rows) /\ Run_(new) = Run_(rows) /\ Suite_(new) = Suite_(rows) /\ Program_(new) = Program_(rows)
  BY <1>2, <1>3 DEF SuiteRun_, Run_, Suite_, Program_
<1>6. RowsTyped(new)
  <2>1. /\ rows.projects \in Seq(Project_) /\ rows.programs \in Seq(Program_(rows)) /\ rows.suites \in Seq(Suite_(rows))
    BY RowTypes
  <2>2. /\ new.projects \in Seq(Project_) /\ new.programs \in Seq(Program_(new)) /\ new.suites \in Seq(Suite_(new))
        /\ new.suiteRuns \in Seq(SuiteRun_(new)) /\ new.runs \in Seq(Run_(new))
    BY <1>2, <1>3, <1>4, <1>5, <2>1
  <2>3. new = [projects |-> new.projects, programs |-> new.programs, suites |-> new.suites,
               suiteRuns |-> new.suiteRuns, runs |-> new.runs]
    BY <1>1, <1>2
  <2> QED
    BY <2>2, <2>3 DEF RowsTyped, Project_, Program_, Suite_, SuiteRun_, Run_
<1>7. \A i : HomeIn(new, i) = HomeIn(rows, i)
  BY <1>2 DEF HomeIn
<1>8. MadeInside(new, ever)
  <2>1. MadeInside(rows, ever)
    BY DEF RowsApart
  <2>2. \A i \in DOMAIN new.suiteRuns : new.suiteRuns[i].by \in ever[new.suites[new.suiteRuns[i].suite].in]
    BY <1>2, <1>3, <2>1 DEF MadeInside
  <2>3. \A i \in DOMAIN new.runs : new.runs[i].by \in ever[HomeIn(new, new.runs[i].program)]
    BY <1>2, <1>4, <1>7, <2>1 DEF MadeInside
  <2> QED
    BY <1>2, <1>7, <2>1, <2>2, <2>3 DEF MadeInside
<1>9. NamesOnce(new)
  BY <1>2, SameNames DEF RowsApart
<1>10. \A i \in DOMAIN new.suites : SuiteFits(new, i)
  BY <1>2, <1>7 DEF RowsApart, SuiteFits
<1>11. ASSUME NEW i \in DOMAIN new.suiteRuns PROVE PlanKept(new, i)
  <2>1. PlanKept(rows, i) /\ i \in DOMAIN rows.suiteRuns
    BY <1>2, <1>3 DEF RowsApart
  <2>2. RunsIn(new, i) = RunsIn(rows, i)
    BY <1>2, <1>4 DEF RunsIn
  <2>3. \A k \in RunsIn(rows, i) : k \in DOMAIN rows.runs /\ rows.runs[k].suiteRun = i
    BY DEF RunsIn
  <2>4. {<<new.runs[k].program, new.runs[k].method>> : k \in RunsIn(new, i)}
          = {<<rows.runs[k].program, rows.runs[k].method>> : k \in RunsIn(rows, i)}
    BY <1>2, <1>4, <2>2, <2>3
  <2>5. new.suiteRuns[i].total = rows.suiteRuns[i].total /\ new.suites[new.suiteRuns[i].suite] = rows.suites[rows.suiteRuns[i].suite]
    BY <1>2, <1>3, <2>1
  <2>6. new.suiteRuns[i].status = "ABANDONED" => \A k \in RunsIn(new, i) : new.runs[k].status # "QUEUED"
    <3>1. CASE i = id
      BY <1>2, <1>4, <2>2, <2>3, <3>1
    <3>2. CASE i # id
      BY <1>2, <1>3, <1>4, <2>1, <2>2, <2>3, <3>2 DEF PlanKept
    <3> QED
      BY <3>1, <3>2
  <2> QED
    BY <2>1, <2>2, <2>4, <2>5, <2>6 DEF PlanKept
<1> QED
  BY <1>6, <1>8, <1>9, <1>10, <1>11 DEF RowsApart

\* Whoever has been in a workspace has been there.
LEMMA LongerHistory ==
  ASSUME NEW rows, NEW ever, NEW later, RowsTyped(rows), RowsApart(rows, ever), \A w \in Tenants : ever[w] \subseteq later[w]
  PROVE  RowsApart(rows, later)
<1>1. MadeInside(rows, ever)
  BY DEF RowsApart
<1>2. /\ \A i \in DOMAIN rows.projects : rows.projects[i].in \in Tenants
      /\ \A i \in DOMAIN rows.suites : rows.suites[i].in \in Tenants
  BY RowTypes DEF Project_, Suite_
<1>3. \A i \in DOMAIN rows.programs : HomeIn(rows, i) \in Tenants
  BY <1>2, RowTypes DEF Program_, HomeIn
<1>4. \A i \in DOMAIN rows.suiteRuns : rows.suites[rows.suiteRuns[i].suite].in \in Tenants
  BY <1>2, RowTypes DEF SuiteRun_
<1>5. \A i \in DOMAIN rows.runs : HomeIn(rows, rows.runs[i].program) \in Tenants
  BY <1>3, RowTypes DEF Run_
<1>6. MadeInside(rows, later)
  BY <1>1, <1>2, <1>3, <1>4, <1>5 DEF MadeInside
<1> QED
  BY <1>6 DEF RowsApart

FormSteps == {"role", "find", "engine", "insert"}
ProjectForm == [kind : {"project"}, by : Folk, in : Tenants, step : FormSteps, title : Titles]
ProgramForm == [kind : {"program"}, by : Folk, in : Tenants, step : FormSteps, project : Nat]
SuiteForm ==
  [kind : {"suite"}, by : Folk, in : Tenants, step : FormSteps, title : Titles, programs : SUBSET Nat, methods : MethodChoices]
SuiteRunForm == [kind : {"suiteRun"}, by : Folk, in : Tenants, step : FormSteps, suite : Nat]
CancelForm == [kind : {"cancel"}, by : Folk, in : Tenants, step : FormSteps, suiteRun : Nat]
RunForm == [kind : {"run"}, by : Folk, in : Tenants, step : FormSteps, program : Nat]
Form_ == ProjectForm \cup ProgramForm \cup SuiteForm \cup SuiteRunForm \cup CancelForm \cup RunForm

\* Once a form is past the look at its sender's role, they have been in its workspace; once past the
\* look at its rows, those are there and of that workspace: rows are never removed, nor moved.
Admitted(f) == f.step \in {"engine", "insert"} \/ (f.step = "find" /\ f.kind # "run")
FormTrue ==
  form # NoForm_ =>
    /\ form \in Form_
    /\ Admitted(form) => form.by \in everIn[form.in]
    /\ form.step \in {"engine", "insert"} => Ours_(form.in, form) /\ (form.kind = "suite" => Fits(form))
    /\ form.kind = "run" /\ form.step # "find" => Exists("programs", form.program) /\ HomeOfProgram(form.program) = form.in

PeopleTyped ==
  /\ standing \in [Tenants -> [Folk -> Ranked \cup {Stranger}]] /\ everIn \in [Tenants -> SUBSET Folk]
  /\ engine \in Engines /\ allowed \in [posts : 0 .. MaxPosts, moves : 0 .. MaxMoved]
  /\ \A w \in Tenants, p \in Folk : Present(standing[w][p]) => p \in everIn[w]
RowsTrue == RowsTyped(stored) /\ RowsApart(stored, everIn)
AnswerTrue == told # NoForm_ => told.home \in Tenants /\ (told.answer # "missing" => told.by \in everIn[told.home])
RecordsInv == PeopleTyped /\ RowsTrue /\ AnswerTrue /\ FormTrue

\* The invariant of the steps is what the property says, and more.
LEMMA RecordsMean == RecordsInv => RowsStayApart
  BY DEF RecordsInv, PeopleTyped, RowsTrue, AnswerTrue, RowsStayApart, RecordsTypeOK

\* Rows and roles to start from satisfy it.
LEMMA RecordsStart == Init /\ part.kind = "records" => RecordsInv
<1> SUFFICES ASSUME Init, part.kind = "records" PROVE RecordsInv
  OBVIOUS
<1>1. RecordsInit(Stores, Standings, Engines \ {Offline})
  BY DEF Init
<1>2. standing \in Standings /\ everIn = InsideOf(standing) /\ stored \in Stores /\ engine \in Engines
      /\ form = NoForm_ /\ told = NoForm_ /\ allowed = [posts |-> MaxPosts, moves |-> MaxMoved]
  BY <1>1 DEF RecordsInit
<1>3. PeopleTyped
  BY <1>2, RecordsAssumption DEF PeopleTyped, InsideOf
<1>4. RowsTrue
  BY <1>2, RecordsAssumption DEF RowsTrue
<1> QED
  BY <1>2, <1>3, <1>4 DEF RecordsInv, AnswerTrue, FormTrue

\* A form whose step is the only thing that changes.
LEMMA Proceeds ==
  ASSUME NEW f \in Form_, NEW s \in FormSteps, NEW g, g = [f EXCEPT !.step = s]
  PROVE  /\ g \in Form_ /\ g.kind = f.kind /\ g.by = f.by /\ g.in = f.in /\ g.step = s
         /\ \A w : Ours_(w, f) => Ours_(w, g)
         /\ f.kind = "suite" /\ Fits(f) => Fits(g)
         /\ f.kind = "run" => g.program = f.program
<1>1. CASE f \in ProjectForm
  BY <1>1 DEF ProjectForm, Form_, Ours_
<1>2. CASE f \in ProgramForm
  BY <1>2 DEF ProgramForm, Form_, Ours_
<1>3. CASE f \in SuiteForm
  BY <1>3 DEF SuiteForm, Form_, Ours_, Fits
<1>4. CASE f \in SuiteRunForm
  BY <1>4 DEF SuiteRunForm, Form_, Ours_
<1>5. CASE f \in CancelForm
  BY <1>5 DEF CancelForm, Form_, Ours_
<1>6. CASE f \in RunForm
  BY <1>6 DEF RunForm, Form_, Ours_
<1> QED
  BY <1>1, <1>2, <1>3, <1>4, <1>5, <1>6 DEF Form_

\* A form that was posted is one, with a sender, a workspace and a step.
LEMMA NotNone == \A f \in Form_ : f # NoForm_ /\ f.step \in FormSteps /\ f.by \in Folk /\ f.in \in Tenants
  BY DEF Form_, ProjectForm, ProgramForm, SuiteForm, SuiteRunForm, CancelForm, RunForm, NoForm_

\* A form that goes on to its next step, while nothing but the answers may change.
LEMMA FormProceeds ==
  ASSUME RecordsInv, form # NoForm_, NEW s \in FormSteps, Proceed(s),
         UNCHANGED <<standing, everIn, stored, engine, allowed>>,
         s \in {"engine", "insert"} \/ (s = "find" /\ form.kind # "run") => form.by \in everIn[form.in],
         s \in {"engine", "insert"} => Ours_(form.in, form) /\ (form.kind = "suite" => Fits(form)),
         form.kind = "run" => form.step # "find"
  PROVE  RecordsInv'
<1>1. form \in Form_ /\ form' = [form EXCEPT !.step = s] /\ told' = told
  BY DEF RecordsInv, FormTrue, Proceed
<1>2. /\ form' \in Form_ /\ form'.kind = form.kind /\ form'.by = form.by /\ form'.in = form.in /\ form'.step = s
      /\ \A w : Ours_(w, form) => Ours_(w, form')
      /\ form.kind = "suite" /\ Fits(form) => Fits(form')
      /\ form.kind = "run" => form'.program = form.program
  BY <1>1, Proceeds
<1>3. PeopleTyped' /\ RowsTrue' /\ AnswerTrue'
  BY <1>1 DEF RecordsInv, PeopleTyped, RowsTrue, AnswerTrue
<1>4. /\ Ours_(form.in, form)' <=> Ours_(form'.in, form')
      /\ HomeOfProgram(form.program)' = HomeOfProgram(form'.program)
      /\ Exists("programs", form.program)' <=> Exists("programs", form'.program)
      /\ Fits(form)' <=> Fits(form')
  BY DEF Ours_, OwnProject, OwnPrograms, Exists, HomeOfProgram, HomeOfSuiteRun, HomeIn, Fits
<1>5. FormTrue'
  <2>1. form' # NoForm_ /\ (Admitted(form)' => form'.by \in everIn'[form'.in])
    BY <1>2, NotNone DEF Admitted
  <2>2. form'.step \in {"engine", "insert"} => Ours_(form'.in, form') /\ (form'.kind = "suite" => Fits(form'))
    BY <1>2
  <2>3. form'.kind = "run" => Exists("programs", form'.program) /\ HomeOfProgram(form'.program) = form'.in
    BY <1>2 DEF RecordsInv, FormTrue
  <2> QED
    BY <1>2, <1>4, <2>1, <2>2, <2>3 DEF FormTrue
<1> QED
  BY <1>3, <1>5 DEF RecordsInv

\* A form that is answered.
LEMMA FormAnswered ==
  ASSUME RecordsInv, form # NoForm_, NEW answer, Respond(answer, form.in), UNCHANGED <<standing, everIn, engine, allowed>>,
         answer # "missing" => form.by \in everIn[form.in], RowsTrue'
  PROVE  RecordsInv'
<1>1. form' = NoForm_ /\ told' = [by |-> form.by, answer |-> answer, home |-> form.in]
  BY DEF Respond
<1>2. PeopleTyped'
  BY DEF RecordsInv, PeopleTyped
<1>3. AnswerTrue'
  BY <1>1, NotNone DEF RecordsInv, FormTrue, AnswerTrue
<1> QED
  BY <1>1, <1>2, <1>3 DEF RecordsInv, FormTrue

\* Where neither the rows nor the history change, the rows are as true as before.
LEMMA RowsStay ==
  ASSUME RecordsInv, UNCHANGED <<stored, everIn>>
  PROVE  RowsTrue'
  BY DEF RecordsInv, RowsTrue

\* findWorkspaceBySlug, principalFor and authorize: who goes on has been in the workspace.
LEMMA AdmitFormStep ==
  ASSUME RecordsInv, Admit
  PROVE  RecordsInv'
<1>1. form # NoForm_ /\ form.step = "role" /\ form \in Form_ /\ form.by \in Folk /\ form.in \in Tenants
  BY NotNone DEF Admit, RecordsInv, FormTrue
<1>2. UNCHANGED <<standing, everIn, stored, engine, allowed>> /\ RowsTrue'
  BY RowsStay DEF Admit
<1>3. Present(standing[form.in][form.by]) => form.by \in everIn[form.in]
  BY <1>1 DEF RecordsInv, PeopleTyped
<1>4. CASE ~Present(standing[form.in][form.by])
  <2>1. Respond("missing", form.in)
    BY <1>4 DEF Admit
  <2> QED
    BY <1>1, <1>2, <2>1, FormAnswered
<1>5. CASE Present(standing[form.in][form.by]) /\ ~Authorize(standing[form.in][form.by], Needed[form.kind], FALSE)
  <2>1. Respond("forbidden", form.in)
    BY <1>5 DEF Admit
  <2> QED
    BY <1>1, <1>2, <1>3, <1>5, <2>1, FormAnswered
<1>6. CASE Present(standing[form.in][form.by]) /\ Authorize(standing[form.in][form.by], Needed[form.kind], FALSE)
  <2>1. Proceed(IF form.kind = "project" THEN "insert" ELSE IF form.kind = "run" THEN "insert" ELSE "find")
    BY <1>6 DEF Admit
  <2>2. CASE form.kind \in {"project", "run"}
    <3>1. Proceed("insert")
      BY <2>1, <2>2
    <3>2. Ours_(form.in, form)
      BY <2>2 DEF Ours_
    <3> QED
      BY <1>1, <1>2, <1>3, <1>6, <2>2, <3>1, <3>2, FormProceeds DEF FormSteps
  <2>3. CASE form.kind \notin {"project", "run"}
    <3>1. Proceed("find")
      BY <2>1, <2>3
    <3> QED
      BY <1>1, <1>2, <1>3, <1>6, <2>3, <3>1, FormProceeds DEF FormSteps
  <2> QED
    BY <2>2, <2>3
<1> QED
  BY <1>4, <1>5, <1>6

\* The rows of a form are looked up: what goes on refers to rows of its own workspace.
LEMMA FindRowsStep ==
  ASSUME RecordsInv, Find_
  PROVE  RecordsInv'
<1>1. form # NoForm_ /\ form.step = "find" /\ form.kind # "run" /\ form.by \in everIn[form.in]
  BY DEF Find_, RecordsInv, FormTrue, Admitted
<1>2. UNCHANGED <<standing, everIn, stored, engine, allowed>> /\ RowsTrue'
  BY RowsStay DEF Find_
<1>3. CASE form.kind = "suite" /\ ~Fits(form)
  <2>1. Respond("invalid", form.in)
    BY <1>3 DEF Find_
  <2> QED
    BY <1>1, <1>2, <2>1, FormAnswered
<1>4. CASE (form.kind = "suite" => Fits(form)) /\ ~Ours_(form.in, form)
  <2>1. Respond("missing", form.in)
    BY <1>4 DEF Find_
  <2> QED
    BY <1>1, <1>2, <2>1, FormAnswered
<1>5. CASE (form.kind = "suite" => Fits(form)) /\ Ours_(form.in, form)
  <2>1. Proceed(IF form.kind = "suiteRun" THEN "engine" ELSE "insert")
    BY <1>5 DEF Find_
  <2>2. PICK s \in {"engine", "insert"} : Proceed(s)
    BY <2>1
  <2> QED
    BY <1>1, <1>2, <1>5, <2>2, FormProceeds DEF FormSteps
<1> QED
  BY <1>3, <1>4, <1>5

\* engineStatus: the form goes on, or is answered.
LEMMA AskEngineStep ==
  ASSUME RecordsInv, AskEngine
  PROVE  RecordsInv'
<1>1. form # NoForm_ /\ form.step = "engine" /\ form.by \in everIn[form.in]
  BY DEF AskEngine, RecordsInv, FormTrue, Admitted
<1>2. UNCHANGED <<standing, everIn, stored, engine, allowed>> /\ RowsTrue'
  BY RowsStay DEF AskEngine
<1>3. CASE Proceed("insert")
  BY <1>1, <1>2, <1>3, FormProceeds DEF FormSteps, RecordsInv, FormTrue
<1>4. CASE Respond("offline", form.in)
  BY <1>1, <1>2, <1>4, FormAnswered
<1> QED
  BY <1>3, <1>4 DEF AskEngine

\* startRun takes its workspace from the program: the role is looked at after that.
LEMMA FindProgramStep ==
  ASSUME RecordsInv, FindProgram
  PROVE  RecordsInv'
<1>1. form # NoForm_ /\ form.step = "find" /\ form.kind = "run" /\ form \in Form_
  BY DEF FindProgram, RecordsInv, FormTrue
<1>2. UNCHANGED <<standing, everIn, stored, engine, allowed>> /\ RowsTrue'
  BY RowsStay DEF FindProgram
<1>3. CASE ~Exists("programs", form.program)
  <2>1. Respond("missing", form.in)
    BY <1>3 DEF FindProgram
  <2> QED
    BY <1>1, <1>2, <2>1, FormAnswered
<1>4. CASE Exists("programs", form.program)
  <2>1. form' = [form EXCEPT !.step = "role", !.in = HomeOfProgram(form.program)] /\ told' = told
    BY <1>4 DEF FindProgram
  <2>2. form \in RunForm
    BY <1>1 DEF Form_, ProjectForm, ProgramForm, SuiteForm, SuiteRunForm, CancelForm, RunForm
  <2>3. HomeOfProgram(form.program) \in Tenants
    BY <1>4, RowTypes DEF RecordsInv, RowsTrue, HomeOfProgram, HomeIn, Exists, Program_, Project_
  <2>4. /\ form' \in RunForm /\ form'.kind = "run" /\ form'.step = "role" /\ form'.program = form.program
        /\ form'.in = HomeOfProgram(form.program)
    BY <2>1, <2>2, <2>3 DEF RunForm, FormSteps
  <2>5. form'.in = HomeOfProgram(form'.program) /\ Exists("programs", form'.program)
    BY <1>4, <2>4
  <2>6. HomeOfProgram(form.program)' = HomeOfProgram(form'.program) /\ (Exists("programs", form.program)' <=> Exists("programs", form'.program))
    BY <1>2 DEF HomeOfProgram, HomeIn, Exists
  <2>7. FormTrue'
    BY <2>4, <2>5, <2>6 DEF FormTrue, Admitted, Form_
  <2>8. PeopleTyped' /\ AnswerTrue'
    BY <1>2, <2>1 DEF RecordsInv, PeopleTyped, AnswerTrue
  <2> QED
    BY <1>2, <2>7, <2>8 DEF RecordsInv
<1> QED
  BY <1>3, <1>4

\* A form is posted: nothing is known of it yet.
LEMMA PostFormStep ==
  ASSUME RecordsInv, NEW p \in Posters, NEW w \in Tenants, NEW f \in FormsOf(p, w), Post(f)
  PROVE  RecordsInv'
<1>1. p \in Folk /\ AnyTenant \in Tenants /\ \A tab_ : Ids(tab_) \subseteq Nat
  BY RecordsAssumption DEF AnyTenant, Ids
<1>2. form' = f /\ told' = NoForm_ /\ UNCHANGED <<standing, everIn, stored, engine>> /\ allowed.posts > 0
      /\ allowed' = [allowed EXCEPT !.posts = @ - 1]
  BY DEF Post
<1>3. f \in Form_ /\ f.step = IF f.kind = "run" THEN "find" ELSE "role"
  BY <1>1 DEF FormsOf, Form_, ProjectForm, ProgramForm, SuiteForm, SuiteRunForm, CancelForm, RunForm, FormSteps
<1>4. FormTrue'
  BY <1>2, <1>3, NotNone DEF FormTrue, Admitted
<1>5. PeopleTyped'
  BY <1>2, RecordsAssumption DEF RecordsInv, PeopleTyped
<1> QED
  BY <1>2, <1>4, <1>5, RowsStay DEF RecordsInv, AnswerTrue

\* A project or a suite is inserted, unless its name is taken.
LEMMA InsertNamedStep ==
  ASSUME RecordsInv, InsertNamed
  PROVE  RecordsInv'
<1>1. /\ form # NoForm_ /\ form.step = "insert" /\ form.kind \in {"project", "suite"} /\ form \in Form_
      /\ form.by \in everIn[form.in] /\ form.by \in Folk /\ form.in \in Tenants
      /\ UNCHANGED <<standing, everIn, engine, allowed>>
  BY NotNone DEF InsertNamed, RecordsInv, FormTrue, Admitted
<1>2. RowsTyped(stored) /\ RowsApart(stored, everIn)
  BY DEF RecordsInv, RowsTrue
<1>3. form.title \in Titles
  BY <1>1 DEF Form_, ProjectForm, ProgramForm, SuiteForm, SuiteRunForm, CancelForm, RunForm
<1>4. CASE UNCHANGED stored /\ Respond("taken", form.in)
  BY <1>1, <1>4, RowsStay, FormAnswered
<1>5. CASE form.kind = "project" /\ ~Taken_("projects") /\ Respond("made", form.in)
  <2> DEFINE row == [in |-> form.in, title |-> form.title, by |-> form.by]
  <2>1. stored' = WithProject(stored, row)
    BY <1>5 DEF InsertNamed, Put, WithProject
  <2>2. ~\E i \in DOMAIN stored.projects : stored.projects[i].in = form.in /\ stored.projects[i].title = form.title
    BY <1>5 DEF Taken_
  <2> HIDE DEF row
  <2>3. row = [in |-> form.in, title |-> form.title, by |-> form.by]
    BY DEF row
  <2>4. RowsTyped(stored') /\ RowsApart(stored', everIn)
    BY <1>1, <1>2, <1>3, <2>1, <2>2, <2>3, ProjectMade
  <2>5. RowsTrue'
    BY <1>1, <2>4 DEF RowsTrue
  <2> QED
    BY <1>1, <1>5, <2>5, FormAnswered
<1>6. CASE form.kind = "suite" /\ ~Taken_("suites") /\ Respond("made", form.in)
  <2> DEFINE row == [in |-> form.in, title |-> form.title, by |-> form.by, programs |-> SetToSeq(form.programs),
                     methods |-> form.methods]
  <2>1. stored' = WithSuite(stored, row)
    BY <1>6 DEF InsertNamed, Put, WithSuite
  <2>2. ~\E i \in DOMAIN stored.suites : stored.suites[i].in = form.in /\ stored.suites[i].title = form.title
    BY <1>6 DEF Taken_
  <2>3. form.methods \in MethodChoices /\ Fits(form) /\ Ours_(form.in, form)
    BY <1>1, <1>6 DEF RecordsInv, FormTrue, Form_, ProjectForm, ProgramForm, SuiteForm, SuiteRunForm, CancelForm, RunForm
  <2>4. form.programs \in SUBSET DOMAIN stored.programs /\ \A id \in form.programs : HomeIn(stored, id) = form.in
    BY <1>6, <2>3 DEF Ours_, OwnPrograms, Exists, HomeOfProgram
  <2>5. Fits([programs |-> form.programs, methods |-> form.methods])
    BY <2>3 DEF Fits
  <2> HIDE DEF row
  <2>6. row = [in |-> form.in, title |-> form.title, by |-> form.by, programs |-> SetToSeq(form.programs),
               methods |-> form.methods]
    BY DEF row
  <2>7. RowsTyped(stored') /\ RowsApart(stored', everIn)
    BY <1>1, <1>2, <1>3, <2>1, <2>2, <2>3, <2>4, <2>5, <2>6, SuiteMade
  <2>8. RowsTrue'
    BY <1>1, <2>7 DEF RowsTrue
  <2> QED
    BY <1>1, <1>6, <2>8, FormAnswered
<1> QED
  BY <1>1, <1>4, <1>5, <1>6 DEF InsertNamed

\* A program, a run, or a suite run with its runs is inserted.
LEMMA InsertOtherStep ==
  ASSUME RecordsInv, InsertOther
  PROVE  RecordsInv'
<1>1. /\ form # NoForm_ /\ form.step = "insert" /\ form.kind \in {"program", "suiteRun", "run"}
      /\ form.by \in everIn[form.in] /\ form.by \in Folk /\ form.in \in Tenants /\ Ours_(form.in, form)
      /\ UNCHANGED <<standing, everIn, engine, allowed>> /\ Respond("made", form.in)
  BY NotNone DEF InsertOther, RecordsInv, FormTrue, Admitted
<1>2. RowsTyped(stored) /\ RowsApart(stored, everIn)
  BY DEF RecordsInv, RowsTrue
<1>3. ASSUME form.kind = "program" PROVE RowsTyped(stored') /\ RowsApart(stored', everIn)
  <2> DEFINE row == [project |-> form.project, by |-> form.by]
  <2>1. stored' = WithProgram(stored, row)
    BY <1>3 DEF InsertOther, Put, WithProgram
  <2>2. form.project \in DOMAIN stored.projects /\ form.by \in everIn[stored.projects[form.project].in]
    BY <1>1, <1>3 DEF Ours_, OwnProject, Exists
  <2> HIDE DEF row
  <2>3. row = [project |-> form.project, by |-> form.by]
    BY DEF row
  <2> QED
    BY <1>1, <1>2, <2>1, <2>2, <2>3, ProgramMade
<1>4. ASSUME form.kind = "run" PROVE RowsTyped(stored') /\ RowsApart(stored', everIn)
  <2> DEFINE row == [program |-> form.program, by |-> form.by, suiteRun |-> 0, status |-> "RUNNING", method |-> "greedy"]
  <2>1. stored' = WithRun(stored, row)
    BY <1>4 DEF InsertOther, Put, WithRun
  <2>2. form.program \in DOMAIN stored.programs /\ form.by \in everIn[HomeIn(stored, form.program)]
    BY <1>1, <1>4 DEF RecordsInv, FormTrue, Exists, HomeOfProgram
  <2> HIDE DEF row
  <2>3. row = [program |-> form.program, by |-> form.by, suiteRun |-> 0, status |-> "RUNNING", method |-> "greedy"]
    BY DEF row
  <2> QED
    BY <1>1, <1>2, <2>1, <2>2, <2>3, RunMade
<1>5. ASSUME form.kind = "suiteRun" PROVE RowsTyped(stored') /\ RowsApart(stored', everIn)
  <2> DEFINE plan == PlanOf(stored.suites[form.suite])
  <2>1. form.suite \in DOMAIN stored.suites /\ form.by \in everIn[stored.suites[form.suite].in]
    BY <1>1, <1>5 DEF Ours_, Exists
  <2>2. stored' = Started(stored, form.suite, form.by, plan)
    BY <1>5 DEF InsertOther, Started, PlanOf, PlannedRun
  <2> HIDE DEF plan
  <2>3. plan = PlanOf(stored.suites[form.suite])
    BY DEF plan
  <2> QED
    BY <1>1, <1>2, <2>1, <2>2, <2>3, SuiteRunMade
<1>6. RowsTrue'
  BY <1>1, <1>3, <1>4, <1>5 DEF RowsTrue
<1> QED
  BY <1>1, <1>6, FormAnswered

\* cancelSuiteRun: what is queued of a suite run is dropped with it.
LEMMA CancelStep ==
  ASSUME RecordsInv, Cancel_
  PROVE  RecordsInv'
<1>1. /\ form # NoForm_ /\ form.step = "insert" /\ form.kind = "cancel"
      /\ form.by \in everIn[form.in] /\ Ours_(form.in, form)
      /\ UNCHANGED <<standing, everIn, engine, allowed>> /\ Respond("made", form.in)
  BY DEF Cancel_, RecordsInv, FormTrue, Admitted
<1>2. form.suiteRun \in DOMAIN stored.suiteRuns
  BY <1>1 DEF Ours_, Exists
<1>3. stored' = Stopped(stored, form.suiteRun)
  BY DEF Cancel_, Stopped, Ended_
<1>4. RowsTyped(stored') /\ RowsApart(stored', everIn)
  BY <1>2, <1>3, RunsStopped DEF RecordsInv, RowsTrue
<1>5. RowsTrue'
  BY <1>1, <1>4 DEF RowsTrue
<1> QED
  BY <1>1, <1>5, FormAnswered

\* Someone joins, leaves or changes role while a form is on its way: what it was told stays true.
LEMMA ReassignStep ==
  ASSUME RecordsInv, NEW p \in Posters, NEW w \in Tenants, NEW role \in Ranked \cup {Stranger}, Reassign(p, w, role)
  PROVE  RecordsInv'
<1>1. /\ allowed.moves > 0 /\ allowed' = [allowed EXCEPT !.moves = @ - 1]
      /\ standing' = [standing EXCEPT ![w][p] = role]
      /\ everIn' = [everIn EXCEPT ![w] = IF Present(role) THEN @ \cup {p} ELSE @]
      /\ UNCHANGED <<stored, engine, form, told>>
  BY DEF Reassign
<1>2. /\ p \in Folk /\ standing \in [Tenants -> [Folk -> Ranked \cup {Stranger}]] /\ everIn \in [Tenants -> SUBSET Folk]
  BY RecordsAssumption DEF RecordsInv, PeopleTyped
<1>3. \A v \in Tenants : everIn[v] \subseteq everIn'[v]
  BY <1>1, <1>2
<1>4. /\ standing' \in [Tenants -> [Folk -> Ranked \cup {Stranger}]] /\ everIn' \in [Tenants -> SUBSET Folk]
  BY <1>1, <1>2
<1>5. ASSUME NEW v \in Tenants, NEW q \in Folk, Present(standing'[v][q]) PROVE q \in everIn'[v]
  <2>1. CASE v = w /\ q = p
    BY <1>1, <1>2, <1>5, <2>1
  <2>2. CASE ~(v = w /\ q = p)
    <3>1. standing'[v][q] = standing[v][q]
      BY <1>1, <1>2, <2>2
    <3> QED
      BY <1>3, <1>5, <3>1 DEF RecordsInv, PeopleTyped
  <2> QED
    BY <2>1, <2>2
<1>6. PeopleTyped'
  <2>1. allowed \in [posts : 0 .. MaxPosts, moves : 0 .. MaxMoved] /\ engine \in Engines
    BY DEF RecordsInv, PeopleTyped
  <2>2. allowed' \in [posts : 0 .. MaxPosts, moves : 0 .. MaxMoved]
    BY <1>1, <2>1, RecordsAssumption
  <2>3. (\A v \in Tenants, q \in Folk : Present(standing[v][q]) => q \in everIn[v])'
    BY <1>5
  <2> QED
    BY <1>1, <1>4, <2>1, <2>2, <2>3 DEF PeopleTyped
<1>7. RowsTrue'
  BY <1>1, <1>3, LongerHistory DEF RecordsInv, RowsTrue
<1>8. AnswerTrue'
  BY <1>1, <1>3 DEF RecordsInv, AnswerTrue
<1>9. FormTrue'
  <2>1. form # NoForm_ => form.in \in Tenants
    BY NotNone DEF RecordsInv, FormTrue
  <2> QED
    BY <1>1, <1>3, <2>1 DEF RecordsInv, FormTrue, Admitted, Ours_, OwnProject, OwnPrograms, Exists, HomeOfProgram,
         HomeOfSuiteRun, HomeIn, Fits
<1> QED
  BY <1>6, <1>7, <1>8, <1>9 DEF RecordsInv

\* The engine comes or goes.
LEMMA TurnStep ==
  ASSUME RecordsInv, NEW e \in Engines, EngineTurns(e)
  PROVE  RecordsInv'
<1>1. PeopleTyped'
  BY RecordsAssumption DEF EngineTurns, RecordsInv, PeopleTyped
<1>2. RowsTrue'
  BY RowsStay DEF EngineTurns
<1>3. AnswerTrue' /\ FormTrue'
  BY DEF EngineTurns, RecordsInv, AnswerTrue, FormTrue, Admitted, Ours_, OwnProject, OwnPrograms, Exists, HomeOfProgram,
         HomeOfSuiteRun, HomeIn, Fits
<1> QED
  BY <1>1, <1>2, <1>3 DEF RecordsInv

\* Every step of the records keeps the invariant,
LEMMA RecordsStep ==
  ASSUME RecordsInv, RecordsNext
  PROVE  RecordsInv'
<1>1. CASE \E p \in Posters, w \in Tenants : \E f \in FormsOf(p, w) : Post(f)
  BY <1>1, PostFormStep
<1>2. CASE Admit
  BY <1>2, AdmitFormStep
<1>3. CASE Find_
  BY <1>3, FindRowsStep
<1>4. CASE FindProgram
  BY <1>4, FindProgramStep
<1>5. CASE AskEngine
  BY <1>5, AskEngineStep
<1>6. CASE InsertNamed
  BY <1>6, InsertNamedStep
<1>7. CASE InsertOther
  BY <1>7, InsertOtherStep
<1>8. CASE Cancel_
  BY <1>8, CancelStep
<1>9. CASE \E p \in Posters, w \in Tenants, role \in Ranked \cup {Stranger} : Reassign(p, w, role)
  BY <1>9, ReassignStep
<1>10. CASE \E e \in Engines : EngineTurns(e)
  BY <1>10, TurnStep
<1> QED
  BY <1>1, <1>2, <1>3, <1>4, <1>5, <1>6, <1>7, <1>8, <1>9, <1>10 DEF RecordsNext

\* and so does every step that leaves them alone.
LEMMA RecordsRest ==
  ASSUME RecordsInv, UNCHANGED recordVars
  PROVE  RecordsInv'
<1>1. UNCHANGED <<standing, everIn, stored, engine, form, told, allowed>>
  BY DEF recordVars
<1>2. RowsTrue'
  BY <1>1, RowsStay
<1>3. PeopleTyped' /\ AnswerTrue'
  BY <1>1 DEF RecordsInv, PeopleTyped, AnswerTrue
<1>4. FormTrue'
  BY <1>1 DEF RecordsInv, FormTrue, Admitted, Ours_, OwnProject, OwnPrograms, Exists, HomeOfProgram, HomeOfSuiteRun, HomeIn, Fits
<1> QED
  BY <1>2, <1>3, <1>4 DEF RecordsInv

-----------------------------------------------------------------------------
(* Screens: the pages over the rows *)

\* What a role may do at all: whoever is in a workspace may look; nobody else may do anything.
LEMMA RolesMay ==
  ASSUME NEW r \in Ranked \cup {Stranger}
  PROVE  /\ Present(r) => \A a \in Viewers_ : Authorize(r, a, FALSE)
         /\ \A a : Authorize(r, a, FALSE) => Present(r)
         /\ \A a \in Admins_ : Authorize(r, a, FALSE) => r \in {"ADMIN", "OWNER"}
<1>1. Present(r) => \A a \in Viewers_ : Authorize(r, a, FALSE)
  BY DEF Present, Ranked, Stranger, Viewers_, Authorize, OwnOnly, Reaches, Minimum, Owners_, Admins_, Members_, Weight
<1>2. \A a : Authorize(r, a, FALSE) => Present(r)
  BY DEF Present, Stranger, Authorize, Reaches
<1>3. ASSUME NEW a \in Admins_, Authorize(r, a, FALSE) PROVE r \in {"ADMIN", "OWNER"}
  <2>1. a \notin Owners_ /\ a \notin Members_ /\ a \notin Viewers_ /\ a \notin OwnOnly
    BY <1>3 DEF Owners_, Admins_, Members_, Viewers_, OwnOnly
  <2>2. Minimum(a) = "ADMIN"
    BY <1>3, <2>1 DEF Minimum
  <2>3. r # Stranger /\ Weight[r] >= Weight["ADMIN"]
    BY <1>3, <2>1, <2>2 DEF Authorize, Reaches
  <2> QED
    BY <2>3 DEF Weight, Ranked
<1> QED
  BY <1>1, <1>2, <1>3

\* People and rows, as every step of the records leaves them.
Settled == PeopleTyped /\ RowsTrue

\* Whoever is in a workspace may open its pages of runs; whoever may do anything is in it.
LEMMA InsideMay ==
  ASSUME Settled, NEW p \in Folk, NEW w \in Tenants
  PROVE  /\ Inside(p, w) => May(p, w, "run:view") /\ May(p, w, "trace:view") /\ May(p, w, "analytics:view")
         /\ \A a : May(p, w, a) => Inside(p, w)
<1>1. standing[w][p] \in Ranked \cup {Stranger}
  BY DEF Settled, PeopleTyped
<1>2. "run:view" \in Viewers_ /\ "trace:view" \in Viewers_ /\ "analytics:view" \in Viewers_
  BY DEF Viewers_
<1> QED
  BY <1>1, <1>2, RolesMay DEF Inside, May

\* The newest of some ids are among them.
LEMMA NewestIn == ASSUME NEW ids, NEW take PROVE Newest(ids, take) \subseteq ids
  BY DEF Newest

\* Whose the rows are that a row refers to.
LEMMA HomesAgree ==
  ASSUME Settled
  PROVE  /\ \A i \in DOMAIN stored.programs : stored.programs[i].project \in DOMAIN stored.projects
         /\ \A i \in DOMAIN stored.runs : stored.runs[i].program \in DOMAIN stored.programs
         /\ \A i \in DOMAIN stored.suiteRuns : stored.suiteRuns[i].suite \in DOMAIN stored.suites
         /\ \A i \in DOMAIN stored.suites : ToSet(stored.suites[i].programs) \subseteq ProgramsOf(stored.suites[i].in)
         /\ \A i \in DOMAIN stored.suiteRuns : RunsOfSuiteRun(i) \subseteq RunsOf_(HomeOfSuiteRun(i))
<1>1. RowsTyped(stored) /\ RowsApart(stored, everIn)
  BY DEF Settled, RowsTrue
<1>2. /\ \A i \in DOMAIN stored.programs : stored.programs[i].project \in DOMAIN stored.projects
      /\ \A i \in DOMAIN stored.runs : stored.runs[i].program \in DOMAIN stored.programs
      /\ \A i \in DOMAIN stored.suiteRuns : stored.suiteRuns[i].suite \in DOMAIN stored.suites
  BY <1>1, RowTypes DEF Program_, Run_, SuiteRun_
<1>3. ASSUME NEW i \in DOMAIN stored.suites, NEW x \in ToSet(stored.suites[i].programs)
      PROVE  x \in ProgramsOf(stored.suites[i].in)
  <2>1. PICK k \in DOMAIN stored.suites[i].programs : x = stored.suites[i].programs[k]
    BY <1>3 DEF ToSet
  <2>2. stored.suites[i].programs \in Seq(DOMAIN stored.programs)
    BY <1>1, RowTypes DEF Suite_
  <2>3. x \in DOMAIN stored.programs
    BY <2>1, <2>2
  <2>4. HomeIn(stored, x) = stored.suites[i].in
    BY <1>1, <2>1 DEF RowsApart, SuiteFits
  <2> QED
    BY <2>3, <2>4 DEF ProgramsOf, HomeOfProgram
<1>4. ASSUME NEW i \in DOMAIN stored.suiteRuns, NEW k \in RunsOfSuiteRun(i)
      PROVE  k \in RunsOf_(HomeOfSuiteRun(i))
  <2> DEFINE suite_ == stored.suites[stored.suiteRuns[i].suite]
  <2>1. k \in DOMAIN stored.runs /\ k \in RunsIn(stored, i)
    BY DEF RunsOfSuiteRun, RunsIn
  <2>2. {<<stored.runs[j].program, stored.runs[j].method>> : j \in RunsIn(stored, i)} = ToSet(suite_.programs) \X suite_.methods
    BY <1>1 DEF RowsApart, PlanKept
  <2>3. stored.runs[k].program \in ToSet(suite_.programs)
    <3> HIDE DEF suite_
    <3>1. <<stored.runs[k].program, stored.runs[k].method>> \in ToSet(suite_.programs) \X suite_.methods
      BY <2>1, <2>2
    <3> QED
      BY <3>1
  <2>4. stored.runs[k].program \in ProgramsOf(suite_.in)
    BY <1>2, <1>3, <2>3
  <2> QED
    BY <2>1, <2>4 DEF ProgramsOf, HomeOfRun, RunsOf_, HomeOfSuiteRun
<1> QED
  BY <1>2, <1>3, <1>4

\* What is at the address of a page of the workspace,
LEMMA VisitPage ==
  ASSUME NEW p, NEW w
  PROVE  /\ Visit_(p, At("dashboard", w)) = Dashboard(p, w) /\ Visit_(p, At("projects", w)) = ProjectsPage(p, w)
         /\ Visit_(p, At("suites", w)) = SuitesPage(p, w) /\ Visit_(p, At("analytics", w)) = AnalyticsPage(p, w)
         /\ Visit_(p, At("runs", w)) = RunsPage(p, w) /\ Visit_(p, At("settings", w)) = SettingsPage(p, w)
         /\ Visit_(p, At("shares", w)) = SharesPage(p, w) /\ Visit_(p, At("audit", w)) = AuditPage(p, w)
         /\ Visit_(p, At("apiKeys", w)) = ApiKeysPage(p, w) /\ Visit_(p, At("palette", w)) = PaletteRoute(p, w)
  BY DEF Visit_, At

\* of one of its rows,
LEMMA VisitRow ==
  ASSUME NEW p, NEW w, NEW id
  PROVE  /\ Visit_(p, AtId("program", w, id)) = ProgramPage(p, w, id)
         /\ Visit_(p, AtId("suite", w, id)) = SuitePage(p, w, id)
         /\ Visit_(p, AtId("run", w, id)) = RunDetailPage(p, w, id)
         /\ Visit_(p, AtId("csv", w, id)) = ExportCsv(p, id)
         /\ Visit_(p, AtId("stream", w, id)) = ExportCsv(p, id)
  BY DEF Visit_, AtId

\* of a run of a suite,
LEMMA VisitSuiteRun == \A p, w, s, id : Visit_(p, SuiteRunAt(w, s, id)) = SuiteRunPage(p, w, s, id)
  BY DEF Visit_, SuiteRunAt

\* and of two runs beside each other.
LEMMA VisitPair ==
  \A p, w, a, b : Visit_(p, [page |-> "compare", in |-> w, id |-> a, other |-> b]) = ComparePage(p, w, a, b)
  BY DEF Visit_

\* Which addresses of a workspace are found by those who are in it.
LEMMA WaysIn ==
  ASSUME Settled, NEW p \in Folk, NEW w \in Tenants, Inside(p, w)
  PROVE  /\ \A at \in {"dashboard", "projects", "suites", "analytics", "runs", "settings", "shares", "palette"} :
              Visit_(p, At(at, w)).found
         /\ May(p, w, "auditLog:view") => Visit_(p, At("audit", w)).found
         /\ \A id \in ProgramsOf(w) : Visit_(p, AtId("program", w, id)).found
         /\ \A id \in SuitesOf(w) : /\ Visit_(p, AtId("suite", w, id)).found
                                    /\ \A k \in RunsOfSuite(id) : Visit_(p, SuiteRunAt(w, id, k)).found
         /\ \A id \in RunsOf_(w) : /\ Visit_(p, AtId("run", w, id)).found
                                   /\ \A b : Visit_(p, [page |-> "compare", in |-> w, id |-> id, other |-> b]).found
         /\ \A id \in DOMAIN stored.suiteRuns : HomeOfSuiteRun(id) = w =>
              Visit_(p, AtId("csv", w, id)).found /\ Visit_(p, AtId("stream", w, id)).found
<1>1. May(p, w, "run:view") /\ May(p, w, "trace:view") /\ May(p, w, "analytics:view")
  BY InsideMay
<1>2. \A links_, offers, rows : Screen(links_, offers, rows).found
  BY DEF Screen
<1>3. \A at \in {"dashboard", "projects", "suites", "analytics", "runs", "settings", "shares", "palette"} :
        Visit_(p, At(at, w)).found
  <2>1. Dashboard(p, w).found
    BY <1>2 DEF Dashboard
  <2>2. ProjectsPage(p, w).found
    BY <1>2 DEF ProjectsPage
  <2>3. SuitesPage(p, w).found
    BY <1>2 DEF SuitesPage
  <2>4. AnalyticsPage(p, w).found
    BY <1>1, <1>2 DEF AnalyticsPage
  <2>5. RunsPage(p, w).found
    BY <1>1, <1>2 DEF RunsPage
  <2>6. SettingsPage(p, w).found
    BY <1>2 DEF SettingsPage
  <2>7. SharesPage(p, w).found
    BY <1>2 DEF SharesPage
  <2>8. PaletteRoute(p, w).found
    BY <1>1, <1>2 DEF PaletteRoute
  <2> QED
    BY <2>1, <2>2, <2>3, <2>4, <2>5, <2>6, <2>7, <2>8, VisitPage
<1>4. May(p, w, "auditLog:view") => Visit_(p, At("audit", w)).found
  BY <1>2, VisitPage DEF AuditPage
<1>5. ASSUME NEW id \in ProgramsOf(w) PROVE Visit_(p, AtId("program", w, id)).found
  <2>1. ProgramPage(p, w, id).found
    BY <1>2, <1>5 DEF ProgramPage, ProgramsOf, Exists
  <2> QED
    BY <2>1, VisitRow
<1>6. ASSUME NEW id \in SuitesOf(w) PROVE Visit_(p, AtId("suite", w, id)).found
  <2>1. SuitePage(p, w, id).found
    BY <1>2, <1>6 DEF SuitePage, SuitesOf, Exists
  <2> QED
    BY <2>1, VisitRow
<1>7. ASSUME NEW id \in SuitesOf(w), NEW k \in RunsOfSuite(id) PROVE Visit_(p, SuiteRunAt(w, id, k)).found
  <2>1. k \in DOMAIN stored.suiteRuns /\ stored.suiteRuns[k].suite = id /\ stored.suites[id].in = w
    BY <1>7 DEF RunsOfSuite, SuitesOf
  <2>2. SuiteRunPage(p, w, id, k).found
    BY <1>1, <1>2, <2>1 DEF SuiteRunPage, Exists, HomeOfSuiteRun
  <2> QED
    BY <2>2, VisitSuiteRun
<1>8. ASSUME NEW id \in RunsOf_(w) PROVE Visit_(p, AtId("run", w, id)).found
  <2>1. RunDetailPage(p, w, id).found
    BY <1>1, <1>2, <1>8 DEF RunDetailPage, RunsOf_, Exists
  <2> QED
    BY <2>1, VisitRow
<1>9. ASSUME NEW id \in RunsOf_(w), NEW b PROVE Visit_(p, [page |-> "compare", in |-> w, id |-> id, other |-> b]).found
  <2>1. ComparePage(p, w, id, b).found
    BY <1>1, <1>2, <1>9 DEF ComparePage, RunsOf_, Exists
  <2> QED
    BY <2>1, VisitPair
<1>10. ASSUME NEW id \in DOMAIN stored.suiteRuns, HomeOfSuiteRun(id) = w
       PROVE  Visit_(p, AtId("csv", w, id)).found /\ Visit_(p, AtId("stream", w, id)).found
  <2>1. ExportCsv(p, id).found
    BY <1>1, <1>2, <1>10 DEF ExportCsv, Exists
  <2> QED
    BY <2>1, VisitRow
<1> QED
  BY <1>3, <1>4, <1>5, <1>6, <1>7, <1>8, <1>9, <1>10

\* A page that is not found shows nothing; one that is found is right if each thing on it is.
LEMMA MissingRight == ASSUME NEW p, NEW w, NEW found PROVE ShownRight(p, w, Missing, found)
  BY DEF ShownRight, Missing

OfferRight(p, w, offer) == RefusedOffer(p, w, offer) \/ Accepted(p, w, offer)
LinkRight(p, w, to) == Excepted(p, w, to) \/ Visit_(p, to).found

\* A page that is found is right where its rows, links and controls are.
LEMMA ScreenRight ==
  ASSUME NEW p, NEW w, NEW found, Inside(p, w), NEW links_, NEW offers, NEW rows,
         \A row \in rows : HomeOfRow(row) = w, \A to \in links_ : LinkRight(p, w, to), \A offer \in offers : OfferRight(p, w, offer)
  PROVE  ShownRight(p, w, Screen(links_, offers, rows), found)
  BY DEF ShownRight, Screen, OfferRight, LinkRight

\* Rows of one table, at home.
LEMMA RowsHome ==
  ASSUME Settled, NEW w
  PROVE  /\ \A ids \in SUBSET ProjectsOf(w) : \A row \in Rows("projects", ids) : HomeOfRow(row) = w
         /\ \A ids \in SUBSET ProgramsOf(w) : \A row \in Rows("programs", ids) : HomeOfRow(row) = w
         /\ \A ids \in SUBSET SuitesOf(w) : \A row \in Rows("suites", ids) : HomeOfRow(row) = w
         /\ \A ids : (\A id \in ids : HomeOfSuiteRun(id) = w) => \A row \in Rows("suiteRuns", ids) : HomeOfRow(row) = w
         /\ \A ids \in SUBSET RunsOf_(w) : \A row \in Rows("runs", ids) : HomeOfRow(row) = w
<1>1. \A ids \in SUBSET ProjectsOf(w) : \A row \in Rows("projects", ids) : HomeOfRow(row) = w
  BY DEF Rows, HomeOfRow, ProjectsOf
<1>2. \A ids \in SUBSET ProgramsOf(w) : \A row \in Rows("programs", ids) : HomeOfRow(row) = w
  BY DEF Rows, HomeOfRow, ProgramsOf
<1>3. \A ids \in SUBSET SuitesOf(w) : \A row \in Rows("suites", ids) : HomeOfRow(row) = w
  BY DEF Rows, HomeOfRow, SuitesOf
<1>4. \A ids : (\A id \in ids : HomeOfSuiteRun(id) = w) => \A row \in Rows("suiteRuns", ids) : HomeOfRow(row) = w
  BY DEF Rows, HomeOfRow
<1>5. \A ids \in SUBSET RunsOf_(w) : \A row \in Rows("runs", ids) : HomeOfRow(row) = w
  BY DEF Rows, HomeOfRow, RunsOf_
<1> QED
  BY <1>1, <1>2, <1>3, <1>4, <1>5

\* Links to what the workspace has.
LEMMA LinksRight ==
  ASSUME Settled, NEW p \in Folk, NEW w \in Tenants, Inside(p, w)
  PROVE  /\ \A at \in {"dashboard", "projects", "suites", "analytics", "runs", "settings", "shares", "palette", "apiKeys"} :
              LinkRight(p, w, At(at, w))
         /\ \A ids \in SUBSET ProgramsOf(w) : \A to \in ProgramTable(w, ids) : LinkRight(p, w, to)
         /\ \A ids \in SUBSET RunsOf_(w) : \A to \in RunTable(w, ids) : LinkRight(p, w, to)
<1>1. \A at \in {"dashboard", "projects", "suites", "analytics", "runs", "settings", "shares", "palette"} : LinkRight(p, w, At(at, w))
  BY WaysIn DEF LinkRight
<1>2. LinkRight(p, w, At("apiKeys", w))
  BY DEF LinkRight, Excepted, At
<1>3. \A ids \in SUBSET ProgramsOf(w) : \A to \in ProgramTable(w, ids) : LinkRight(p, w, to)
  BY WaysIn DEF ProgramTable, LinkRight
<1>4. \A ids \in SUBSET RunsOf_(w) : \A to \in RunTable(w, ids) : LinkRight(p, w, to)
  BY WaysIn DEF RunTable, LinkRight
<1> QED
  BY <1>1, <1>2, <1>3, <1>4

\* The dashboard: web/app/w/[slug]/page.tsx.
LEMMA DashboardRight ==
  ASSUME Settled, NEW p \in Folk, NEW w \in Tenants, NEW found
  PROVE  ShownRight(p, w, Dashboard(p, w), found)
<1>1. CASE ~Inside(p, w)
  BY <1>1, MissingRight DEF Dashboard
<1>2. CASE Inside(p, w)
  <2> DEFINE runs_ == Newest(RunsOf_(w), DashboardLimit)
  <2>1. runs_ \subseteq RunsOf_(w)
    BY NewestIn
  <2>2. Dashboard(p, w) = Screen({At("projects", w), At("analytics", w), At("runs", w)} \cup RunTable(w, runs_), {}, Rows("runs", runs_))
    BY <1>2 DEF Dashboard
  <2> HIDE DEF runs_
  <2>3. \A to \in {At("projects", w), At("analytics", w), At("runs", w)} \cup RunTable(w, runs_) : LinkRight(p, w, to)
    BY <1>2, <2>1, LinksRight
  <2>4. \A row \in Rows("runs", runs_) : HomeOfRow(row) = w
    BY <2>1, RowsHome
  <2> QED
    BY <1>2, <2>2, <2>3, <2>4, ScreenRight
<1> QED
  BY <1>1, <1>2

\* The projects with their programs, and the two dialogs: projects/page.tsx.
LEMMA ProjectsRight ==
  ASSUME Settled, NEW p \in Folk, NEW w \in Tenants, NEW found
  PROVE  ShownRight(p, w, ProjectsPage(p, w), found)
<1>1. CASE ~Inside(p, w)
  BY <1>1, MissingRight DEF ProjectsPage
<1>2. CASE Inside(p, w)
  <2> DEFINE inside_ == {i \in ProgramsOf(w) : stored.programs[i].project \in ProjectsOf(w)}
             made_ == When(May(p, w, "project:create"), {[kind |-> "project"]})
             added_ == When(May(p, w, "program:create"), {[kind |-> "program", project |-> j] : j \in ProjectsOf(w)})
  <2>1. inside_ \subseteq ProgramsOf(w)
    OBVIOUS
  <2>2. ProjectsPage(p, w) = Screen(ProgramTable(w, inside_), made_ \cup added_,
                                    Rows("projects", ProjectsOf(w)) \cup Rows("programs", inside_))
    BY <1>2 DEF ProjectsPage
  <2>3. ASSUME NEW offer \in made_ PROVE OfferRight(p, w, offer)
    <3>1. May(p, w, "project:create") /\ offer = [kind |-> "project"]
      BY <2>3 DEF When
    <3> QED
      BY <3>1 DEF OfferRight, Accepted, Needed, Ours_, May
  <2>4. ASSUME NEW offer \in added_ PROVE OfferRight(p, w, offer)
    <3>1. May(p, w, "program:create") /\ \E j \in ProjectsOf(w) : offer = [kind |-> "program", project |-> j]
      BY <2>4 DEF When
    <3>2. PICK j \in ProjectsOf(w) : offer = [kind |-> "program", project |-> j]
      BY <3>1
    <3>3. OwnProject(j, w)
      BY DEF OwnProject, Exists, ProjectsOf
    <3> QED
      BY <3>1, <3>2, <3>3 DEF OfferRight, Accepted, Needed, Ours_, May
  <2> HIDE DEF inside_, made_, added_
  <2>5. \A to \in ProgramTable(w, inside_) : LinkRight(p, w, to)
    BY <1>2, <2>1, LinksRight
  <2>6. \A row \in Rows("projects", ProjectsOf(w)) \cup Rows("programs", inside_) : HomeOfRow(row) = w
    BY <2>1, RowsHome
  <2> QED
    BY <1>2, <2>2, <2>3, <2>4, <2>5, <2>6, ScreenRight
<1> QED
  BY <1>1, <1>2

\* A program, its newest runs and the button that starts one: programs/[id]/page.tsx.
LEMMA ProgramRight ==
  ASSUME Settled, NEW p \in Folk, NEW w \in Tenants, NEW found, NEW id
  PROVE  ShownRight(p, w, ProgramPage(p, w, id), found)
<1>1. CASE ~Inside(p, w) \/ ~Exists("programs", id) \/ HomeOfProgram(id) # w
  BY <1>1, MissingRight DEF ProgramPage
<1>2. CASE Inside(p, w) /\ Exists("programs", id) /\ HomeOfProgram(id) = w
  <2> DEFINE runs_ == Newest(RunsOfProgram(id), RecentLimit)
             started_ == When(May(p, w, "run:start"), {[kind |-> "run", program |-> id]})
  <2>1. runs_ \subseteq RunsOf_(w)
    BY <1>2, NewestIn DEF RunsOfProgram, RunsOf_, HomeOfRun
  <2>2. ProgramPage(p, w, id) = Screen({At("projects", w)} \cup RunTable(w, runs_), started_,
                                       Rows("programs", {id}) \cup Rows("runs", runs_))
    BY <1>2 DEF ProgramPage
  <2>3. ASSUME NEW offer \in started_ PROVE OfferRight(p, w, offer)
    <3>1. May(p, w, "run:start") /\ offer = [kind |-> "run", program |-> id]
      BY <2>3 DEF When
    <3> QED
      BY <3>1 DEF OfferRight, Accepted, Needed, Ours_, May
  <2> HIDE DEF runs_, started_
  <2>4. {id} \subseteq ProgramsOf(w)
    BY <1>2 DEF ProgramsOf, Exists
  <2>5. \A to \in {At("projects", w)} \cup RunTable(w, runs_) : LinkRight(p, w, to)
    BY <1>2, <2>1, LinksRight
  <2>6. \A row \in Rows("programs", {id}) \cup Rows("runs", runs_) : HomeOfRow(row) = w
    BY <2>1, <2>4, RowsHome
  <2> QED
    BY <1>2, <2>2, <2>3, <2>5, <2>6, ScreenRight
<1> QED
  BY <1>1, <1>2

\* The suites, the newest run of each, and the dialog that makes one: suites/page.tsx.
LEMMA SuitesRight ==
  ASSUME Settled, NEW p \in Folk, NEW w \in Tenants, NEW found
  PROVE  ShownRight(p, w, SuitesPage(p, w), found)
<1>1. CASE ~Inside(p, w)
  BY <1>1, MissingRight DEF SuitesPage
<1>2. CASE Inside(p, w)
  <2> DEFINE listed_ == {AtId("suite", w, id) : id \in SuitesOf(w)}
             latest_ == UNION {{SuiteRunAt(w, id, k) : k \in Newest(RunsOfSuite(id), 1)} : id \in SuitesOf(w)}
             made_ == When(May(p, w, "suite:create"), {[kind |-> "suite", programs |-> {id}] : id \in ProgramsOf(w)})
  <2>1. SuitesPage(p, w) = Screen(listed_ \cup latest_, made_, Rows("suites", SuitesOf(w)))
    BY <1>2 DEF SuitesPage
  <2>2. \A to \in listed_ : LinkRight(p, w, to)
    BY <1>2, WaysIn DEF LinkRight
  <2>3. ASSUME NEW to \in latest_ PROVE LinkRight(p, w, to)
    <3>1. PICK id \in SuitesOf(w) : to \in {SuiteRunAt(w, id, k) : k \in Newest(RunsOfSuite(id), 1)}
      BY <2>3
    <3>2. PICK k \in RunsOfSuite(id) : to = SuiteRunAt(w, id, k)
      BY <3>1, NewestIn
    <3> QED
      BY <1>2, <3>2, WaysIn DEF LinkRight
  <2>4. ASSUME NEW offer \in made_ PROVE OfferRight(p, w, offer)
    <3>1. May(p, w, "suite:create") /\ offer \in {[kind |-> "suite", programs |-> {id}] : id \in ProgramsOf(w)}
      BY <2>4 DEF When
    <3>2. PICK id \in ProgramsOf(w) : offer = [kind |-> "suite", programs |-> {id}]
      BY <3>1
    <3>3. OwnPrograms({id}, w)
      BY DEF OwnPrograms, Exists, ProgramsOf
    <3> QED
      BY <3>1, <3>2, <3>3 DEF OfferRight, Accepted, Needed, Ours_, May
  <2> HIDE DEF listed_, latest_, made_
  <2>5. \A row \in Rows("suites", SuitesOf(w)) : HomeOfRow(row) = w
    BY RowsHome
  <2> QED
    BY <1>2, <2>1, <2>2, <2>3, <2>4, <2>5, ScreenRight
<1> QED
  BY <1>1, <1>2

\* A suite, its programs and runs, and the button that starts it: suites/[id]/page.tsx.
LEMMA SuiteRight ==
  ASSUME Settled, NEW p \in Folk, NEW w \in Tenants, NEW found, NEW id
  PROVE  ShownRight(p, w, SuitePage(p, w, id), found)
<1>1. CASE ~Inside(p, w) \/ ~Exists("suites", id) \/ stored.suites[id].in # w
  BY <1>1, MissingRight DEF SuitePage
<1>2. CASE Inside(p, w) /\ Exists("suites", id) /\ stored.suites[id].in = w
  <2> DEFINE s_ == stored.suites[id]
             runs_ == Newest(RunsOfSuite(id), SuiteRunLimit)
             held_ == ToSet(s_.programs)
             past_ == {SuiteRunAt(w, id, k) : k \in runs_}
             started_ == When(May(p, w, "suite:run") /\ Startable(s_), {[kind |-> "suiteRun", suite |-> id]})
  <2>1. SuitePage(p, w, id) = Screen({At("suites", w)} \cup past_ \cup ProgramTable(w, held_), started_,
                                     Rows("suites", {id}) \cup Rows("suiteRuns", runs_) \cup Rows("programs", held_))
    BY <1>2 DEF SuitePage
  <2>2. runs_ \subseteq RunsOfSuite(id) /\ id \in SuitesOf(w) /\ held_ \subseteq ProgramsOf(w)
    BY <1>2, NewestIn, HomesAgree DEF SuitesOf, Exists
  <2>3. \A to \in past_ : LinkRight(p, w, to)
    BY <1>2, <2>2, WaysIn DEF LinkRight
  <2>4. ASSUME NEW offer \in started_ PROVE OfferRight(p, w, offer)
    <3>1. May(p, w, "suite:run") /\ Startable(s_) /\ offer = [kind |-> "suiteRun", suite |-> id]
      BY <2>4 DEF When
    <3> QED
      BY <1>2, <3>1 DEF OfferRight, Accepted, Needed, Ours_, May, Startable
  <2>5. \A k \in runs_ : HomeOfSuiteRun(k) = w
    BY <1>2, <2>2 DEF RunsOfSuite, HomeOfSuiteRun
  <2> HIDE DEF runs_, held_, past_, started_, s_
  <2>6. \A to \in {At("suites", w)} \cup past_ \cup ProgramTable(w, held_) : LinkRight(p, w, to)
    BY <1>2, <2>2, <2>3, LinksRight
  <2>7. \A row \in Rows("suites", {id}) \cup Rows("suiteRuns", runs_) \cup Rows("programs", held_) : HomeOfRow(row) = w
    BY <2>2, <2>5, RowsHome
  <2> QED
    BY <1>2, <2>1, <2>4, <2>6, <2>7, ScreenRight
<1> QED
  BY <1>1, <1>2

\* A run of a suite: its cells lead to runs of the same workspace because those are its plan.
LEMMA SuiteRunRight ==
  ASSUME Settled, NEW p \in Folk, NEW w \in Tenants, NEW found, NEW s, NEW id
  PROVE  ShownRight(p, w, SuiteRunPage(p, w, s, id), found)
<1>1. CASE ~May(p, w, "run:view") \/ ~Exists("suiteRuns", id) \/ HomeOfSuiteRun(id) # w \/ stored.suiteRuns[id].suite # s
  BY <1>1, MissingRight DEF SuiteRunPage
<1>2. CASE May(p, w, "run:view") /\ Exists("suiteRuns", id) /\ HomeOfSuiteRun(id) = w /\ stored.suiteRuns[id].suite = s
  <2> DEFINE ways_ == {At("suites", w), AtId("suite", w, s), AtId("csv", w, id), AtId("stream", w, id)}
             runs_ == RunsOfSuiteRun(id)
  <2>1. SuiteRunPage(p, w, s, id) = Screen(ways_ \cup Matrix(w, id), ShareDialog(p, w, "suiteRuns", id) \cup StopButton(p, w, id),
                                           Rows("suiteRuns", {id}) \cup Rows("runs", runs_))
    BY <1>2 DEF SuiteRunPage
  <2>2. Inside(p, w) /\ id \in DOMAIN stored.suiteRuns /\ s \in SuitesOf(w) /\ runs_ \subseteq RunsOf_(w)
    BY <1>2, InsideMay, HomesAgree DEF Exists, SuitesOf, HomeOfSuiteRun
  <2>3. \A to \in ways_ : LinkRight(p, w, to)
    BY <1>2, <2>2, WaysIn, LinksRight DEF LinkRight
  <2>4. ASSUME NEW to \in Matrix(w, id) PROVE LinkRight(p, w, to)
    <3>1. \E i \in runs_ : to = AtId("run", w, i)
      BY <2>4 DEF Matrix
    <3> QED
      BY <2>2, <3>1, WaysIn DEF LinkRight
  <2>5. ASSUME NEW offer \in ShareDialog(p, w, "suiteRuns", id) PROVE OfferRight(p, w, offer)
    <3>1. May(p, w, "share:create") /\ offer = [kind |-> "share", table |-> "suiteRuns", id |-> id]
      BY <2>5 DEF ShareDialog, When
    <3>2. HomeOfRow(<<"suiteRuns", id>>) = w
      BY <1>2 DEF HomeOfRow
    <3> QED
      BY <3>1, <3>2 DEF OfferRight, Accepted, May
  <2>6. ASSUME NEW offer \in StopButton(p, w, id) PROVE OfferRight(p, w, offer)
    <3>1. May(p, w, "suite:run") /\ offer = [kind |-> "cancel", suiteRun |-> id]
      BY <2>6 DEF StopButton, When
    <3> QED
      BY <1>2, <3>1 DEF OfferRight, Accepted, Needed, Ours_, May
  <2> HIDE DEF ways_, runs_
  <2>7. \A row \in Rows("suiteRuns", {id}) \cup Rows("runs", runs_) : HomeOfRow(row) = w
    BY <1>2, <2>2, RowsHome
  <2> QED
    BY <2>1, <2>2, <2>3, <2>4, <2>5, <2>6, <2>7, ScreenRight
<1> QED
  BY <1>1, <1>2

\* The analytics: analytics/page.tsx.
LEMMA AnalyticsRight ==
  ASSUME Settled, NEW p \in Folk, NEW w \in Tenants, NEW found
  PROVE  ShownRight(p, w, AnalyticsPage(p, w), found)
<1>1. CASE ~May(p, w, "analytics:view")
  BY <1>1, MissingRight DEF AnalyticsPage
<1>2. CASE May(p, w, "analytics:view")
  <2> DEFINE ran_ == {stored.runs[i].program : i \in RunsOf_(w)}
             ways_ == IF RunsOf_(w) = {} THEN {At("suites", w)} ELSE ProgramTable(w, ran_)
  <2>1. AnalyticsPage(p, w) = Screen({At("analytics", w)} \cup ways_, {}, Rows("runs", RunsOf_(w)))
    BY <1>2 DEF AnalyticsPage
  <2>2. ran_ \subseteq ProgramsOf(w)
    BY HomesAgree DEF RunsOf_, HomeOfRun, ProgramsOf
  <2>3. Inside(p, w)
    BY <1>2, InsideMay
  <2> HIDE DEF ran_
  <2>4. \A to \in {At("analytics", w)} \cup ways_ : LinkRight(p, w, to)
    BY <2>2, <2>3, LinksRight
  <2>5. \A row \in Rows("runs", RunsOf_(w)) : HomeOfRow(row) = w
    BY RowsHome
  <2> HIDE DEF ways_
  <2> QED
    BY <2>1, <2>3, <2>4, <2>5, ScreenRight
<1> QED
  BY <1>1, <1>2

\* The newest runs: runs/page.tsx.
LEMMA RunsRight ==
  ASSUME Settled, NEW p \in Folk, NEW w \in Tenants, NEW found
  PROVE  ShownRight(p, w, RunsPage(p, w), found)
<1>1. CASE ~May(p, w, "run:view")
  BY <1>1, MissingRight DEF RunsPage
<1>2. CASE May(p, w, "run:view")
  <2> DEFINE runs_ == Newest(RunsOf_(w), RecentLimit)
             empty_ == When(runs_ = {}, {At("projects", w)})
  <2>1. RunsPage(p, w) = Screen(empty_ \cup RunTable(w, runs_), {}, Rows("runs", runs_))
    BY <1>2 DEF RunsPage
  <2>2. Inside(p, w) /\ runs_ \subseteq RunsOf_(w) /\ empty_ \subseteq {At("projects", w)}
    BY <1>2, InsideMay, NewestIn DEF When
  <2> HIDE DEF runs_, empty_
  <2>3. \A to \in empty_ \cup RunTable(w, runs_) : LinkRight(p, w, to)
    BY <2>2, LinksRight
  <2>4. \A row \in Rows("runs", runs_) : HomeOfRow(row) = w
    BY <2>2, RowsHome
  <2> QED
    BY <2>1, <2>2, <2>3, <2>4, ScreenRight
<1> QED
  BY <1>1, <1>2

\* A run and its share dialog: runs/[id]/page.tsx.
LEMMA RunRight ==
  ASSUME Settled, NEW p \in Folk, NEW w \in Tenants, NEW found, NEW id
  PROVE  ShownRight(p, w, RunDetailPage(p, w, id), found)
<1>1. CASE ~May(p, w, "trace:view") \/ ~Exists("runs", id) \/ HomeOfRun(id) # w
  BY <1>1, MissingRight DEF RunDetailPage
<1>2. CASE May(p, w, "trace:view") /\ Exists("runs", id) /\ HomeOfRun(id) = w
  <2> DEFINE ways_ == {At("runs", w), [page |-> "compare", in |-> w, id |-> id, other |-> 0]}
  <2>1. RunDetailPage(p, w, id) = Screen(ways_, ShareDialog(p, w, "runs", id), Rows("runs", {id}))
    BY <1>2 DEF RunDetailPage
  <2>2. Inside(p, w) /\ id \in RunsOf_(w)
    BY <1>2, InsideMay DEF Exists, RunsOf_
  <2>3. \A to \in ways_ : LinkRight(p, w, to)
    BY <2>2, LinksRight, WaysIn DEF LinkRight
  <2>4. ASSUME NEW offer \in ShareDialog(p, w, "runs", id) PROVE OfferRight(p, w, offer)
    <3>1. May(p, w, "share:create") /\ offer = [kind |-> "share", table |-> "runs", id |-> id]
      BY <2>4 DEF ShareDialog, When
    <3>2. HomeOfRow(<<"runs", id>>) = w
      BY <1>2 DEF HomeOfRow
    <3> QED
      BY <3>1, <3>2 DEF OfferRight, Accepted, May
  <2> HIDE DEF ways_
  <2>5. \A row \in Rows("runs", {id}) : HomeOfRow(row) = w
    BY <2>2, RowsHome
  <2> QED
    BY <2>1, <2>2, <2>3, <2>4, <2>5, ScreenRight
<1> QED
  BY <1>1, <1>2

\* Two runs side by side; the second is shown only if it is of this workspace: runs/compare/page.tsx.
LEMMA CompareRight ==
  ASSUME Settled, NEW p \in Folk, NEW w \in Tenants, NEW found, NEW a, NEW b
  PROVE  ShownRight(p, w, ComparePage(p, w, a, b), found)
<1>1. CASE ~May(p, w, "trace:view") \/ ~Exists("runs", a) \/ HomeOfRun(a) # w
  BY <1>1, MissingRight DEF ComparePage
<1>2. CASE May(p, w, "trace:view") /\ Exists("runs", a) /\ HomeOfRun(a) = w
  <2> DEFINE choices_ == Newest(RunsOfProgram(stored.runs[a].program), RecentLimit)
             shown_ == Second(w, b)
             pairs_ == {[page |-> "compare", in |-> w, id |-> c, other |-> d] : c \in choices_, d \in choices_ \ {a}}
             both_ == When(shown_ # {}, RunTable(w, {a} \cup shown_))
  <2>1. ComparePage(p, w, a, b) = Screen({At("runs", w)} \cup pairs_ \cup both_, {}, Rows("runs", choices_ \cup {a} \cup shown_))
    BY <1>2 DEF ComparePage
  <2>2. Inside(p, w) /\ a \in RunsOf_(w)
    BY <1>2, InsideMay DEF Exists, RunsOf_
  <2>3. choices_ \subseteq RunsOf_(w)
    <3>1. RunsOfProgram(stored.runs[a].program) \subseteq RunsOf_(w)
      BY <1>2 DEF RunsOfProgram, RunsOf_, HomeOfRun
    <3> QED
      BY <3>1, NewestIn
  <2>4. shown_ \subseteq RunsOf_(w)
    BY DEF Second, RunsOf_, Exists
  <2>5. \A to \in pairs_ : LinkRight(p, w, to)
    BY <2>2, <2>3, WaysIn DEF LinkRight
  <2>6. both_ \subseteq RunTable(w, {a} \cup shown_)
    BY DEF When
  <2> HIDE DEF choices_, shown_, pairs_, both_
  <2>7. {a} \cup shown_ \in SUBSET RunsOf_(w) /\ choices_ \cup {a} \cup shown_ \in SUBSET RunsOf_(w)
    BY <2>2, <2>3, <2>4
  <2>8. \A to \in both_ : LinkRight(p, w, to)
    BY <2>2, <2>6, <2>7, LinksRight
  <2>9. \A row \in Rows("runs", choices_ \cup {a} \cup shown_) : HomeOfRow(row) = w
    BY <2>7, RowsHome
  <2>10. LinkRight(p, w, At("runs", w))
    BY <2>2, LinksRight
  <2> QED
    BY <2>1, <2>2, <2>5, <2>8, <2>9, <2>10, ScreenRight
<1> QED
  BY <1>1, <1>2

\* A member's row: whoever it is frozen for is not offered to change it.
LEMMA MemberRight ==
  ASSUME Settled, NEW p \in Folk, NEW w \in Tenants, NEW q \in Folk, NEW offer \in MemberRow(p, w, q)
  PROVE  OfferRight(p, w, offer)
<1>1. standing[w][p] \in Ranked \cup {Stranger}
  BY DEF Settled, PeopleTyped
<1>2. standing[w][q] # "OWNER" \/ standing[w][p] = "OWNER"
  BY DEF MemberRow, When
<1>3. CASE May(p, w, "member:changeRole") /\ offer \in {[kind |-> "role", of |-> q, to |-> r] : r \in Ranked}
  <2>1. standing[w][p] \in {"ADMIN", "OWNER"}
    BY <1>1, <1>3, RolesMay DEF May, Admins_
  <2>2. PICK r \in Ranked : offer = [kind |-> "role", of |-> q, to |-> r]
    BY <1>3
  <2> QED
    BY <1>2, <2>1, <2>2 DEF OfferRight, RefusedOffer, Accepted
<1>4. CASE offer = [kind |-> "remove", of |-> q]
  BY <1>2, <1>4 DEF OfferRight, Accepted
<1> QED
  BY <1>3, <1>4 DEF MemberRow, When

\* The members and the controls of each: settings/page.tsx.
LEMMA SettingsRight ==
  ASSUME Settled, NEW p \in Folk, NEW w \in Tenants, NEW found
  PROVE  ShownRight(p, w, SettingsPage(p, w), found)
<1>1. CASE ~Inside(p, w)
  BY <1>1, MissingRight DEF SettingsPage
<1>2. CASE Inside(p, w)
  <2> DEFINE members_ == {q \in Folk : Present(standing[w][q])}
             rows_ == UNION {MemberRow(p, w, q) : q \in members_}
             audit_ == When(May(p, w, "auditLog:view"), {At("audit", w)})
  <2>1. SettingsPage(p, w) = Screen({At("shares", w), At("apiKeys", w)} \cup audit_, AddMember(p, w) \cup rows_, {})
    BY <1>2 DEF SettingsPage
  <2>2. \A to \in {At("shares", w), At("apiKeys", w)} : LinkRight(p, w, to)
    BY <1>2, LinksRight
  <2>3. \A to \in audit_ : LinkRight(p, w, to)
    BY <1>2, WaysIn DEF When, LinkRight
  <2>4. ASSUME NEW offer \in rows_ PROVE OfferRight(p, w, offer)
    <3>1. PICK q \in members_ : offer \in MemberRow(p, w, q)
      BY <2>4
    <3> QED
      BY <3>1, MemberRight
  <2>5. ASSUME NEW offer \in AddMember(p, w) PROVE OfferRight(p, w, offer)
    <3>1. \E r \in IF standing[w][p] = "OWNER" THEN Ranked ELSE Ranked \ {"OWNER"} : offer = [kind |-> "invite", to |-> r]
      BY <2>5 DEF AddMember, When
    <3> QED
      BY <3>1 DEF OfferRight, Accepted
  <2> HIDE DEF members_, rows_, audit_
  <2> QED
    BY <1>2, <2>1, <2>2, <2>3, <2>4, <2>5, ScreenRight
<1> QED
  BY <1>1, <1>2

\* The links of a workspace: shares/page.tsx.
LEMMA LinksPageRight ==
  ASSUME Settled, NEW p \in Folk, NEW w \in Tenants, NEW found
  PROVE  ShownRight(p, w, SharesPage(p, w), found)
<1>1. CASE ~Inside(p, w)
  BY <1>1, MissingRight DEF SharesPage
<1>2. CASE Inside(p, w)
  <2> DEFINE past_ == UNION {{SuiteRunAt(w, id, k) : k \in RunsOfSuite(id)} : id \in SuitesOf(w)}
  <2>1. SharesPage(p, w) = Screen(RunTable(w, RunsOf_(w)) \cup past_, {}, {})
    BY <1>2 DEF SharesPage
  <2>2. \A to \in RunTable(w, RunsOf_(w)) : LinkRight(p, w, to)
    BY <1>2, LinksRight
  <2>3. ASSUME NEW to \in past_ PROVE LinkRight(p, w, to)
    <3>1. PICK id \in SuitesOf(w) : to \in {SuiteRunAt(w, id, k) : k \in RunsOfSuite(id)}
      BY <2>3
    <3> QED
      BY <1>2, <3>1, WaysIn DEF LinkRight
  <2> HIDE DEF past_
  <2> QED
    BY <1>2, <2>1, <2>2, <2>3, ScreenRight
<1> QED
  BY <1>1, <1>2

\* What the palette loads leads somewhere: api/w/[slug]/palette/route.ts.
LEMMA PaletteRight ==
  ASSUME Settled, NEW p \in Folk, NEW w \in Tenants, NEW found
  PROVE  /\ ShownRight(p, w, PaletteRoute(p, w), found)
         /\ Inside(p, w) => \A to \in PaletteRoute(p, w).links : Visit_(p, to).found
<1>1. CASE ~May(p, w, "run:view")
  BY <1>1, MissingRight, InsideMay DEF PaletteRoute
<1>2. CASE May(p, w, "run:view")
  <2> DEFINE runs_ == Newest(RunsOf_(w), PaletteLimit)
             suites_ == {AtId("suite", w, id) : id \in SuitesOf(w)}
             ways_ == ProgramTable(w, ProgramsOf(w)) \cup suites_ \cup RunTable(w, runs_)
             rows_ == Rows("programs", ProgramsOf(w)) \cup Rows("suites", SuitesOf(w)) \cup Rows("runs", runs_)
  <2>1. PaletteRoute(p, w) = Screen(ways_, {}, rows_)
    BY <1>2 DEF PaletteRoute
  <2>2. Inside(p, w) /\ runs_ \subseteq RunsOf_(w)
    BY <1>2, InsideMay, NewestIn
  <2> HIDE DEF runs_
  <2>3. \A to \in ways_ : Visit_(p, to).found
    BY <2>2, WaysIn DEF ProgramTable, RunTable
  <2>4. \A row \in rows_ : HomeOfRow(row) = w
    BY <2>2, RowsHome
  <2> HIDE DEF ways_, rows_
  <2>5. \A to \in ways_ : LinkRight(p, w, to)
    BY <2>3 DEF LinkRight
  <2>6. PaletteRoute(p, w).links = ways_
    BY <2>1 DEF Screen
  <2> QED
    BY <2>1, <2>2, <2>3, <2>4, <2>5, <2>6, ScreenRight
<1> QED
  BY <1>1, <1>2

\* The audit log and the API keys: who may not open them finds nothing.
LEMMA OfficesRight ==
  ASSUME Settled, NEW p \in Folk, NEW w \in Tenants, NEW found
  PROVE  ShownRight(p, w, AuditPage(p, w), found) /\ ShownRight(p, w, ApiKeysPage(p, w), found)
<1>1. ShownRight(p, w, AuditPage(p, w), found)
  <2>1. CASE May(p, w, "auditLog:view")
    <3>1. AuditPage(p, w) = Screen({}, {}, {}) /\ Inside(p, w)
      BY <2>1, InsideMay DEF AuditPage
    <3> QED
      BY <3>1, ScreenRight
  <2> QED
    BY <2>1, MissingRight DEF AuditPage
<1>2. ShownRight(p, w, ApiKeysPage(p, w), found)
  <2>1. CASE May(p, w, "apiKey:manage")
    <3>1. ApiKeysPage(p, w) = Screen({At("settings", w)}, {}, {}) /\ Inside(p, w)
      BY <2>1, InsideMay DEF ApiKeysPage
    <3>2. \A to \in {At("settings", w)} : LinkRight(p, w, to)
      BY <3>1, LinksRight
    <3> QED
      BY <3>1, <3>2, ScreenRight
  <2> QED
    BY <2>1, MissingRight DEF ApiKeysPage
<1> QED
  BY <1>1, <1>2

\* Whatever the address, what is there is right.
LEMMA EveryPageRight ==
  ASSUME Settled, NEW p \in Folk, NEW w \in Tenants, NEW found, NEW at \in Addresses(w)
  PROVE  ShownRight(p, w, Visit_(p, at), found)
<1>1. ASSUME NEW p_ \in {"dashboard", "projects", "suites", "analytics", "runs", "settings", "shares", "audit", "apiKeys", "palette"},
             at = At(p_, w)
      PROVE  ShownRight(p, w, Visit_(p, at), found)
  BY <1>1, VisitPage, DashboardRight, ProjectsRight, SuitesRight, AnalyticsRight, RunsRight, SettingsRight, LinksPageRight,
     OfficesRight, PaletteRight
<1>2. ASSUME NEW id, at = AtId("program", w, id) PROVE ShownRight(p, w, Visit_(p, at), found)
  <2>1. Visit_(p, at) = ProgramPage(p, w, id)
    BY <1>2, VisitRow
  <2> QED
    BY <2>1, ProgramRight
<1>3. ASSUME NEW id, at = AtId("suite", w, id) PROVE ShownRight(p, w, Visit_(p, at), found)
  <2>1. Visit_(p, at) = SuitePage(p, w, id)
    BY <1>3, VisitRow
  <2> QED
    BY <2>1, SuiteRight
<1>4. ASSUME NEW s, NEW id, at = SuiteRunAt(w, s, id) PROVE ShownRight(p, w, Visit_(p, at), found)
  <2>1. Visit_(p, at) = SuiteRunPage(p, w, s, id)
    BY <1>4, VisitSuiteRun
  <2> QED
    BY <2>1, SuiteRunRight
<1>5. ASSUME NEW id, at = AtId("run", w, id) PROVE ShownRight(p, w, Visit_(p, at), found)
  <2>1. Visit_(p, at) = RunDetailPage(p, w, id)
    BY <1>5, VisitRow
  <2> QED
    BY <2>1, RunRight
<1>6. ASSUME NEW a, NEW b, at = [page |-> "compare", in |-> w, id |-> a, other |-> b]
      PROVE  ShownRight(p, w, Visit_(p, at), found)
  <2>1. Visit_(p, at) = ComparePage(p, w, a, b)
    BY <1>6, VisitPair
  <2> QED
    BY <2>1, CompareRight
<1> QED
  BY <1>1, <1>2, <1>3, <1>4, <1>5, <1>6 DEF Addresses

\* The frame around a page, the palette and the landing after a sign-in.
LEMMA FrameRight ==
  ASSUME Settled, NEW p \in Folk, NEW w \in Tenants
  PROVE  \A to \in LayoutLinks(p, w) \cup When(Inside(p, w), Palette(p, w)) \cup Landing(p).redirect \cup Landing(p).links :
           Visit_(p, to).found
<1>1. ASSUME NEW to \in Switcher(p) PROVE Visit_(p, to).found
  <2>1. PICK v \in Tenants : Inside(p, v) /\ to = At("dashboard", v)
    BY DEF Switcher
  <2> QED
    BY <2>1, WaysIn
<1>2. Landing(p).redirect \cup Landing(p).links \subseteq Switcher(p)
  BY DEF Landing
<1>3. ASSUME Inside(p, w), NEW to \in HeaderLinks(p, w) PROVE Visit_(p, to).found
  <2>1. CASE to \in When(May(p, w, "auditLog:view"), {At("audit", w)})
    BY <1>3, <2>1, WaysIn DEF When
  <2>2. CASE \E p_ \in {"dashboard", "projects", "runs", "suites", "analytics", "settings"} : to = At(p_, w)
    BY <1>3, <2>2, WaysIn
  <2> QED
    BY <2>1, <2>2 DEF HeaderLinks
<1>4. ASSUME Inside(p, w), NEW to \in Palette(p, w) PROVE Visit_(p, to).found
  <2>1. CASE to \in PaletteRoute(p, w).links
    BY <1>4, <2>1, PaletteRight
  <2>2. CASE \E p_ \in {"dashboard", "projects", "runs", "suites", "analytics", "settings", "shares"} : to = At(p_, w)
    BY <1>4, <2>2, WaysIn
  <2>3. CASE to \in Switcher(p)
    BY <1>1, <2>3
  <2> QED
    BY <2>1, <2>2, <2>3 DEF Palette
<1>5. \A to \in LayoutLinks(p, w) : Visit_(p, to).found
  BY <1>1, <1>3 DEF LayoutLinks
<1>6. \A to \in When(Inside(p, w), Palette(p, w)) : Visit_(p, to).found
  BY <1>4 DEF When
<1> QED
  BY <1>1, <1>2, <1>5, <1>6

\* The elements whose part, of[i], is one of T;
PartsIn(S, of, T) == {i \in S : of[i] \in T}

\* counted part by part, they are all counted once.
LEMMA CountByParts ==
  ASSUME NEW S, IsFiniteSet(S), NEW T, IsFiniteSet(T), NEW of, NEW f, \A j \in T : f[j] = Cardinality(PartsIn(S, of, {j}))
  PROVE  SumFunctionOnSet(f, T) = Cardinality(PartsIn(S, of, T))
<1> USE DEF PartsIn
<1> DEFINE In(t) == PartsIn(S, of, t)
           P == {t \in SUBSET T : SumFunctionOnSet(f, t) = Cardinality(In(t))}
<1> SUFFICES ASSUME T \notin P PROVE FALSE
  OBVIOUS
<1>0. \E t \in SUBSET T : t \notin P
  OBVIOUS
<1>1. PICK t \in SUBSET T : t \notin P /\ \A u \in SUBSET t : u # t => u \in P
  <2> HIDE DEF P
  <2> QED
    BY <1>0, LeastSet, SMTT(30)
<1>2. \A A \in SUBSET S : IsFiniteSet(A) /\ Cardinality(A) \in Nat
  BY FS_Subset, FS_CardinalityType
<1>3. t # {}
  <2> SUFFICES ASSUME t = {} PROVE FALSE
    OBVIOUS
  <2>1. In(t) = {}
    OBVIOUS
  <2> QED
    BY <1>1, <2>1, SumNone, FS_EmptySet
<1>4. PICK x \in t : TRUE
  BY <1>3
<1>5. \A j \in t : f[j] \in Nat
  BY <1>2
<1>6. SumFunctionOnSet(f, t) = f[x] + SumFunctionOnSet(f, t \ {x})
  BY <1>5, FS_Subset, SumTakes
<1>7. SumFunctionOnSet(f, t \ {x}) = Cardinality(In(t \ {x}))
  BY <1>1, <1>4
<1> DEFINE one == In({x})
           rest_ == In(t \ {x})
<1>8. /\ one \in SUBSET S /\ rest_ \in SUBSET S /\ one \cup rest_ = In(t) /\ one \cap rest_ = {} /\ f[x] = Cardinality(one)
  OBVIOUS
<1> HIDE DEF one, rest_
<1>9. Cardinality(one \cup rest_) = Cardinality(one) + Cardinality(rest_)
  <2>1. IsFiniteSet(one) /\ IsFiniteSet(rest_) /\ Cardinality(one) \in Nat /\ Cardinality(rest_) \in Nat
    BY <1>2, <1>8
  <2>2. Cardinality(one \cap rest_) = 0
    BY <1>8, FS_EmptySet
  <2>3. Cardinality(one \cup rest_) = Cardinality(one) + Cardinality(rest_) - Cardinality(one \cap rest_)
    BY <2>1, FS_Union
  <2> QED
    BY <2>1, <2>2, <2>3
<1>10. SumFunctionOnSet(f, t) = Cardinality(In(t))
  BY <1>6, <1>7, <1>8, <1>9 DEF rest_
<1> QED
  BY <1>1, <1>10

\* There are as many rows listed of a table as there are ids.
LEMMA RowsCount ==
  ASSUME NEW name, NEW ids, IsFiniteSet(ids)
  PROVE  IsFiniteSet(Rows(name, ids)) /\ Cardinality(Rows(name, ids)) = Cardinality(ids)
<1> DEFINE f == [id \in ids |-> <<name, id>>]
<1>1. f \in Bijection(ids, Rows(name, ids))
  BY DEF Bijection, Injection, Surjection, IsInjective, Rows
<1> HIDE DEF f
<1>2. ExistsBijection(ids, Rows(name, ids))
  BY <1>1 DEF ExistsBijection
<1> QED
  BY <1>2, FS_Bijection

\* Used and left add up to the quota, whichever is larger, and the share is a fraction: QuotaPanel.
LEMMA PanelAdds ==
  ASSUME NEW q, q.monthly \in Nat, q.used \in Nat
  PROVE  LET panel == QuotaPanel(q) IN
         panel.used + panel.left = q.monthly /\ panel.share[1] <= panel.share[2] /\ panel.share[2] > 0
<1> DEFINE m == q.monthly
           u == q.used
<1>1. Min({u, m}) = IF u <= m THEN u ELSE m
  <2>1. \A x \in {u, m} : (\A y \in {u, m} : x <= y) <=> x = IF u <= m THEN u ELSE m
    OBVIOUS
  <2>2. (IF u <= m THEN u ELSE m) \in {u, m}
    OBVIOUS
  <2> HIDE DEF u, m
  <2> QED
    BY <2>1, <2>2 DEF Min
<1>2. Max({m - u, 0}) = IF u <= m THEN m - u ELSE 0
  <2>1. \A x \in {m - u, 0} : (\A y \in {m - u, 0} : x >= y) <=> x = IF u <= m THEN m - u ELSE 0
    OBVIOUS
  <2>2. (IF u <= m THEN m - u ELSE 0) \in {m - u, 0}
    OBVIOUS
  <2> HIDE DEF u, m
  <2> QED
    BY <2>1, <2>2 DEF Max
<1>3. QuotaPanel(q) = [used |-> IF u <= m THEN u ELSE m, left |-> IF u <= m THEN m - u ELSE 0,
                       share |-> IF m = 0 THEN <<1, 1>> ELSE <<IF u <= m THEN u ELSE m, m>>]
  BY <1>1, <1>2 DEF QuotaPanel
<1> HIDE DEF u, m
<1>4. m \in Nat /\ u \in Nat
  BY DEF u, m
<1> QED
  BY <1>3, <1>4 DEF m

\* The list of projects has every program of the workspace, and the dashboard's numbers are its rows.
LEMMA NumbersAgree ==
  ASSUME Settled, NEW p \in Folk, NEW w \in Tenants, Inside(p, w)
  PROVE  /\ Rows("programs", ProgramsOf(w)) \subseteq ProjectsPage(p, w).rows
         /\ \A q : /\ DashboardStats(w, q).projects + DashboardStats(w, q).programs = Cardinality(ProjectsPage(p, w).rows)
                   /\ DashboardStats(w, q).runs = Cardinality(AnalyticsPage(p, w).rows)
<1> DEFINE A == ProjectsOf(w)
           B == {i \in ProgramsOf(w) : stored.programs[i].project \in A}
           S == DOMAIN stored.programs
           of == [i \in S |-> stored.programs[i].project]
           f == [j \in A |-> Cardinality({i \in S : stored.programs[i].project = j})]
<1>1. /\ stored.projects \in Seq(Project_) /\ stored.programs \in Seq(Program_(stored)) /\ stored.runs \in Seq(Run_(stored))
  BY RowTypes DEF Settled, RowsTrue
<1>2. IsFiniteSet(DOMAIN stored.projects) /\ IsFiniteSet(DOMAIN stored.programs) /\ IsFiniteSet(DOMAIN stored.runs)
  <2>1. ASSUME NEW R, NEW s \in Seq(R) PROVE IsFiniteSet(DOMAIN s)
    <3>1. DOMAIN s = 1 .. Len(s) /\ Len(s) \in Nat
      OBVIOUS
    <3> QED
      BY <3>1, FS_Interval
  <2> QED
    BY <1>1, <2>1
<1>3. IsFiniteSet(A) /\ IsFiniteSet(B) /\ IsFiniteSet(RunsOf_(w))
  BY <1>2, FS_Subset DEF ProjectsOf, ProgramsOf, RunsOf_
<1>4. ProjectsPage(p, w).rows = Rows("projects", A) \cup Rows("programs", B)
  BY DEF ProjectsPage, Screen
<1>5. B = ProgramsOf(w) /\ B = {i \in S : of[i] \in A}
  BY HomesAgree DEF ProgramsOf, ProjectsOf, HomeOfProgram, HomeIn
<1>6. SumFunctionOnSet(f, A) = Cardinality(B)
  <2>1. \A j \in A : f[j] = Cardinality(PartsIn(S, of, {j}))
    <3>1. \A j : {i \in S : stored.programs[i].project = j} = PartsIn(S, of, {j})
      BY DEF PartsIn
    <3> QED
      BY <3>1
  <2> HIDE DEF f, of, A, B, S
  <2>2. IsFiniteSet(S)
    BY <1>2 DEF S
  <2>3. SumFunctionOnSet(f, A) = Cardinality(PartsIn(S, of, A))
    BY <1>3, <2>1, <2>2, CountByParts
  <2> QED
    BY <1>5, <2>3 DEF PartsIn
<1>7. Cardinality(Rows("projects", A) \cup Rows("programs", B)) = Cardinality(A) + Cardinality(B)
  <2>1. Rows("projects", A) \cap Rows("programs", B) = {}
    BY DEF Rows
  <2> DEFINE X == Rows("projects", A)
             Y == Rows("programs", B)
  <2>2. IsFiniteSet(X) /\ IsFiniteSet(Y) /\ Cardinality(X) = Cardinality(A) /\ Cardinality(Y) = Cardinality(B)
    BY <1>3, RowsCount
  <2>3. Cardinality({}) = 0 /\ Cardinality(A) \in Nat /\ Cardinality(B) \in Nat
    BY <1>3, FS_EmptySet, FS_CardinalityType
  <2>4. X \cap Y = {}
    BY <2>1
  <2> HIDE DEF X, Y, A, B
  <2>5. Cardinality(X \cup Y) = Cardinality(X) + Cardinality(Y) - Cardinality(X \cap Y)
    BY <2>2, FS_Union
  <2>6. Cardinality(X \cap Y) = 0
    BY <2>3, <2>4
  <2>7. Cardinality(X \cup Y) = Cardinality(A) + Cardinality(B)
    BY <2>2, <2>3, <2>5, <2>6
  <2> QED
    BY <2>7 DEF X, Y
<1>8. AnalyticsPage(p, w).rows = Rows("runs", RunsOf_(w))
  <2>1. May(p, w, "analytics:view")
    BY InsideMay
  <2> QED
    BY <2>1 DEF AnalyticsPage, Screen
<1>9. Cardinality(AnalyticsPage(p, w).rows) = Cardinality(RunsOf_(w))
  BY <1>3, <1>8, RowsCount
<1>10. ASSUME NEW q
       PROVE  /\ DashboardStats(w, q).projects = Cardinality(A) /\ DashboardStats(w, q).programs = SumFunctionOnSet(f, A)
              /\ DashboardStats(w, q).runs = Cardinality(RunsOf_(w))
  BY DEF DashboardStats
<1> HIDE DEF A, B, S, of, f
<1> QED
  BY <1>4, <1>5, <1>6, <1>7, <1>9, <1>10

\* The runs a program's page links are its newest.
LEMMA NewestLinked ==
  ASSUME NEW p, NEW w, Inside(p, w), NEW id \in ProgramsOf(w)
  PROVE  Newest(RunsOfProgram(id), RecentLimit) = {a.id : a \in {x \in ProgramPage(p, w, id).links : x.page = "run"}}
<1> DEFINE runs_ == Newest(RunsOfProgram(id), RecentLimit)
           ways_ == {At("projects", w)} \cup RunTable(w, runs_)
<1>1. ProgramPage(p, w, id).links = ways_
  BY DEF ProgramPage, Screen, ProgramsOf, Exists
<1> HIDE DEF runs_
<1>2. {x \in ways_ : x.page = "run"} = RunTable(w, runs_)
  BY DEF RunTable, At, AtId
<1>3. {a.id : a \in RunTable(w, runs_)} = runs_
  <2>1. \A id_ : AtId("run", w, id_).id = id_
    BY DEF AtId
  <2> QED
    BY <2>1 DEF RunTable
<1> QED
  BY <1>1, <1>2, <1>3 DEF runs_

\* Whatever people and rows the steps of the records lead to, the pages over them are right.
LEMMA ScreensMean == Settled => ScreensLead(Quotas)
<1> SUFFICES ASSUME Settled PROVE ScreensLead(Quotas)
  OBVIOUS
<1>1. ASSUME NEW p \in Folk, NEW w \in Tenants, Inside(p, w), NEW q \in Quotas, q # NoForm_
      PROVE  LET panel == QuotaPanel(q) IN
             panel.used + panel.left = q.monthly /\ panel.share[1] <= panel.share[2] /\ panel.share[2] > 0
  BY <1>1, QuotasAssumption, PanelAdds
<1> QED
  BY <1>1, EveryPageRight, FrameRight, NumbersAgree, NewestLinked DEF ScreensLead

\* Whoever asks for what, in whichever order, while people are moved and the engine comes and goes: rows
\* of two workspaces never mix (src/web/lib/actions/projects.ts, programs.ts, suites.ts, runs.ts), and
\* between two requests no page shows, links or offers what its reader may not have (src/web/app/w).
THEOREM WorkspacesApart == Spec => []WorkspacesStayApart
<1> DEFINE Inv_ == part.kind = "records" => RecordsInv
<1>1. Init => Inv_
  BY RecordsStart
<1>2. Inv_ /\ [Next]_appVars => Inv_'
  <2> SUFFICES ASSUME Inv_, [Next]_appVars, part.kind = "records" PROVE RecordsInv'
    BY DEF Next, appVars
  <2>1. CASE RecordsNext
    BY <2>1, RecordsStep
  <2>2. CASE UNCHANGED recordVars
    BY <2>2, RecordsRest
  <2> QED
    BY <2>1, <2>2 DEF Next, appVars
<1>3. Inv_ => WorkspacesStayApart
  BY RecordsMean, ScreensMean DEF WorkspacesStayApart, RecordsInv, Settled
<1> QED
  BY <1>1, <1>2, <1>3, PTL DEF Spec
-----------------------------------------------------------------------------
(* Accounts: the passwords that stay, and workspaces of which none is to spare. *)

\* The slugs that may be tried, a tab, and what one that serves somebody has in hand.
Slugs_ ==
  {<<>>} \cup {Words(p) : p \in People}
    \cup {Append(Words(p), ToString(n)) : p \in People, n \in 2 .. NumberedAttempts}
    \cup {Append(Words(p), s) : p \in People, s \in RandomSuffixes}
Tab == [pc : {"idle", "register", "credentials", "find", "probe", "create"}, of : {NoForm.of} \cup People,
        password : {""} \cup UNION {Forms(p) : p \in People}, slug : Slugs_,
        tries : 0 .. NumberedAttempts + RandomAttempts, spare : BOOLEAN]
TabsTyped ==
  /\ users = [p \in People |-> users[p]] /\ tabs \in [Tabs -> Tab]
  /\ \A t \in Tabs :
       /\ tabs[t].pc # "idle" => tabs[t].of \in People
       /\ tabs[t].pc \in {"register", "credentials"} => tabs[t].password \in Forms(tabs[t].of)

\* Of the tabs that make a workspace for a person, one at most looked when there was nothing to
\* excuse it; until it has made it, whatever was made is excused.
Unexcused(p) == {t \in Making(p) : ~tabs[t].spare}
OneUnexcused ==
  \A p \in People :
    /\ \A t, u \in Unexcused(p) : t = u
    /\ Unexcused(p) # {} => founded[p] <= excused[p]

AccountsInv == AccountsTypeOK /\ TabsTyped /\ NoneToSpare /\ OneUnexcused

\* The bounds are numbers.
LEMMA AccountBounds ==
  /\ NumberedAttempts \in Nat /\ NumberedAttempts >= 1 /\ RandomAttempts \in Nat /\ MaxMoves \in Nat
  /\ 0 \in 0 .. NumberedAttempts + RandomAttempts /\ 1 \in 0 .. NumberedAttempts + RandomAttempts
<1>1. NumberedAttempts \in Nat /\ NumberedAttempts >= 1 /\ RandomAttempts \in Nat /\ MaxMoves \in Nat
  BY AccountsAssumption
<1> QED
  BY <1>1

\* A tab nobody uses.
LEMMA NoFormIs ==
  /\ NoForm \in Tab /\ NoForm.pc = "idle" /\ NoForm.tries = 0 /\ NoForm.spare = FALSE
<1>1. PICK p : NoForm = [pc |-> "idle", of |-> p, password |-> "", slug |-> <<>>, tries |-> 0, spare |-> FALSE]
  BY DEF NoForm
<1>2. <<>> \in Slugs_
  BY DEF Slugs_
<1>3. p \in {NoForm.of} \cup People
  BY <1>1
<1>4. "" \in {""} \cup UNION {Forms(q) : q \in People}
  OBVIOUS
<1> QED
  BY <1>1, <1>2, <1>3, <1>4, AccountBounds DEF Tab

\* At first nobody has signed up.
LEMMA AccountsStart == Init => AccountsInv
<1> SUFFICES ASSUME AccountsInit PROVE AccountsInv
  BY DEF Init
<1> USE NoFormIs DEF AccountsInit
<1>1. AccountsTypeOK
  BY AccountBounds DEF AccountsTypeOK
<1>2. TabsTyped
  BY DEF TabsTyped
<1>3. NoneToSpare
  BY DEF NoneToSpare
<1>4. OneUnexcused
  BY DEF OneUnexcused, Unexcused, Making
<1> QED
  BY <1>1, <1>2, <1>3, <1>4 DEF AccountsInv

\* What a step of a tab leaves of the others: their records.
LEMMA OtherTabs ==
  ASSUME TabsTyped, NEW t \in Tabs, NEW r \in Tab, tabs' = [tabs EXCEPT ![t] = r]
  PROVE  /\ tabs' \in [Tabs -> Tab] /\ tabs'[t] = r /\ \A u \in Tabs \ {t} : tabs'[u] = tabs[u]
  BY DEF TabsTyped

\* A tab that makes nothing is not one that needs an excuse.
LEMMA NotMaking ==
  ASSUME NEW t \in Tabs, tabs'[t].pc \notin {"probe", "create"}, \A u \in Tabs \ {t} : tabs'[u] = tabs[u]
  PROVE  \A p : Unexcused(p)' = Unexcused(p) \ {t}
  BY DEF Unexcused, Making

\* Fewer are making a workspace, and nobody has founded one: then nobody more is without an excuse.
LEMMA FewerMaking ==
  ASSUME OneUnexcused, UNCHANGED <<founded, excused>>, \A p \in People : Unexcused(p)' \subseteq Unexcused(p)
  PROVE  OneUnexcused'
  BY DEF OneUnexcused

\* Somebody opens a form or a page.
LEMMA OpenKeeps ==
  ASSUME AccountsInv, NEW t \in Tabs, NEW p \in People, NEW password, NEW pc \in {"register", "credentials", "find"},
         Open(t, p, password, pc), pc = "find" => p \in session /\ password = "", pc # "find" => password \in Forms(p)
  PROVE  AccountsInv'
<1> DEFINE r_ == [NoForm EXCEPT !.pc = pc, !.of = p, !.password = password]
<1>1. tabs' = [tabs EXCEPT ![t] = r_] /\ UNCHANGED <<users, session, memberOf, workspaces, founded, excused, moves>>
  BY DEF Open
<1>2. r_ \in Tab /\ r_.pc = pc /\ r_.of = p /\ r_.password = password /\ r_.tries = 0
  <2>1. password \in {""} \cup UNION {Forms(q) : q \in People}
    OBVIOUS
  <2> QED
    BY <2>1, NoFormIs DEF Tab
<1> HIDE DEF r_
<1>3. /\ tabs' \in [Tabs -> Tab] /\ tabs'[t] = r_ /\ \A u \in Tabs \ {t} : tabs'[u] = tabs[u]
  BY <1>1, <1>2, OtherTabs DEF AccountsInv
<1>4. AccountsTypeOK'
  BY <1>1, <1>2, <1>3, AccountBounds DEF AccountsInv, AccountsTypeOK
<1>5. TabsTyped'
  BY <1>1, <1>2, <1>3 DEF AccountsInv, TabsTyped
<1>6. NoneToSpare'
  BY <1>1 DEF AccountsInv, NoneToSpare
<1>7. OneUnexcused'
  BY <1>1, <1>2, <1>3, NotMaking, FewerMaking DEF AccountsInv
<1> QED
  BY <1>4, <1>5, <1>6, <1>7 DEF AccountsInv

\* A tab that is done.
LEMMA LeaveKeeps ==
  ASSUME AccountsInv, NEW t \in Tabs, Leave(t), UNCHANGED <<users, session, memberOf, workspaces, founded, excused, moves>>
  PROVE  AccountsInv'
<1>1. tabs' = [tabs EXCEPT ![t] = NoForm]
  BY DEF Leave
<1>3. /\ tabs' \in [Tabs -> Tab] /\ tabs'[t] = NoForm /\ \A u \in Tabs \ {t} : tabs'[u] = tabs[u]
  BY <1>1, NoFormIs, OtherTabs DEF AccountsInv
<1>4. AccountsTypeOK'
  BY NoFormIs, <1>3, AccountBounds DEF AccountsInv, AccountsTypeOK
<1>5. TabsTyped'
  BY NoFormIs, <1>3 DEF AccountsInv, TabsTyped
<1>6. NoneToSpare'
  BY DEF AccountsInv, NoneToSpare
<1>7. OneUnexcused'
  BY NoFormIs, <1>3, NotMaking, FewerMaking DEF AccountsInv
<1> QED
  BY <1>4, <1>5, <1>6, <1>7 DEF AccountsInv

\* A tab that goes on to its next query.
LEMMA StepKeeps ==
  ASSUME AccountsInv, NEW t \in Tabs, NEW pc, Step(t, pc),
         \/ pc = "credentials" /\ tabs[t].pc = "register"
         \/ pc = "find" /\ tabs[t].pc = "credentials",
         pc = "find" => tabs[t].of \in session',
         session \subseteq session', session' \subseteq {p \in People : users'[p] # "nobody"},
         users' = [p \in People |-> users'[p]], \A p \in People : users'[p] \in {"nobody", "github"} \cup Forms(p),
         UNCHANGED <<memberOf, workspaces, founded, excused, moves>>
  PROVE  AccountsInv'
<1> DEFINE r_ == [tabs[t] EXCEPT !.pc = pc]
<1>1. tabs' = [tabs EXCEPT ![t] = r_]
  BY DEF Step, AccountsInv, TabsTyped
<1>2. r_ \in Tab /\ r_.pc = pc /\ r_.of = tabs[t].of /\ r_.password = tabs[t].password /\ r_.tries = tabs[t].tries
  BY DEF AccountsInv, TabsTyped, Tab
<1> HIDE DEF r_
<1>3. /\ tabs' \in [Tabs -> Tab] /\ tabs'[t] = r_ /\ \A u \in Tabs \ {t} : tabs'[u] = tabs[u]
  BY <1>1, <1>2, OtherTabs DEF AccountsInv
<1>4. AccountsTypeOK'
  BY <1>2, <1>3, AccountBounds DEF AccountsInv, AccountsTypeOK
<1>5. TabsTyped'
  BY <1>2, <1>3 DEF AccountsInv, TabsTyped
<1>6. NoneToSpare'
  BY DEF AccountsInv, NoneToSpare
<1>7. OneUnexcused'
  BY <1>2, <1>3, NotMaking, FewerMaking DEF AccountsInv
<1> QED
  BY <1>4, <1>5, <1>6, <1>7 DEF AccountsInv

\* The row of an address is written once.
LEMMA RegisterKeeps ==
  ASSUME AccountsInv, NEW t \in Tabs, NEW works \in BOOLEAN, Register(t, works)
  PROVE  AccountsInv' /\ AccountIsKept
<1>1. CASE works
  <2>1. users' = Registered(t) /\ Step(t, "credentials") /\ tabs[t].pc = "register"
        /\ UNCHANGED <<session, memberOf, workspaces, founded, excused, moves>>
    BY <1>1 DEF Register
  <2>2. tabs[t].of \in People /\ tabs[t].password \in Forms(tabs[t].of) /\ tabs[t].password # "nobody"
    BY <2>1, AccountsAssumption DEF AccountsInv, TabsTyped
  <2>3. users' = [p \in People |-> users'[p]] /\ \A p \in People : users'[p] \in {"nobody", "github"} \cup Forms(p)
    BY <2>1, <2>2 DEF Registered, AccountsInv, TabsTyped, AccountsTypeOK
  <2>4. \A p \in People : users[p] = users'[p] \/ users[p] = "nobody"
    BY <2>1, <2>2 DEF Registered, AccountsInv, TabsTyped
  <2>5. session' \subseteq {p \in People : users'[p] # "nobody"}
    BY <2>1, <2>4 DEF AccountsInv, AccountsTypeOK
  <2> QED
    BY <2>1, <2>3, <2>4, <2>5, StepKeeps DEF AccountIsKept
<1>2. CASE ~works
  BY <1>2, LeaveKeeps DEF Register, AccountIsKept
<1> QED
  BY <1>1, <1>2

\* Only who has a row is signed in.
LEMMA CredentialsKeep ==
  ASSUME AccountsInv, NEW t \in Tabs, Credentials(t)
  PROVE  AccountsInv' /\ AccountIsKept
<1>1. CASE users[tabs[t].of] = tabs[t].password
  <2>1. session' = session \cup {tabs[t].of} /\ Step(t, "find") /\ tabs[t].pc = "credentials"
        /\ UNCHANGED <<users, memberOf, workspaces, founded, excused, moves>>
    BY <1>1 DEF Credentials
  <2>2. tabs[t].of \in People /\ users[tabs[t].of] # "nobody"
    BY <1>1, <2>1, AccountsAssumption DEF AccountsInv, TabsTyped
  <2>3. session \subseteq session' /\ session' \subseteq {p \in People : users'[p] # "nobody"}
    BY <2>1, <2>2 DEF AccountsInv, AccountsTypeOK
  <2>4. users' = [p \in People |-> users'[p]] /\ \A p \in People : users'[p] \in {"nobody", "github"} \cup Forms(p)
    BY <2>1 DEF AccountsInv, TabsTyped, AccountsTypeOK
  <2> QED
    BY <2>1, <2>3, <2>4, StepKeeps DEF AccountIsKept
<1>2. CASE users[tabs[t].of] # tabs[t].password
  BY <1>2, LeaveKeeps DEF Credentials, AccountIsKept
<1> QED
  BY <1>1, <1>2

\* GitHub takes an address nobody has a password for.
LEMMA GitHubKeeps ==
  ASSUME AccountsInv, NEW p \in People, GitHub(p)
  PROVE  AccountsInv' /\ AccountIsKept
<1> USE DEF GitHub, AccountsInv
<1>1. AccountIsKept
  BY DEF AccountIsKept, TabsTyped
<1>2. AccountsTypeOK'
  BY DEF AccountsTypeOK, TabsTyped
<1>3. TabsTyped'
  BY DEF TabsTyped
<1>4. NoneToSpare'
  BY DEF NoneToSpare
<1>5. OneUnexcused'
  BY DEF OneUnexcused, Unexcused, Making
<1> QED
  BY <1>1, <1>2, <1>3, <1>4, <1>5

\* The look: it needs no excuse only where nobody else is making a workspace and none was made.
LEMMA FindKeeps ==
  ASSUME AccountsInv, NEW t \in Tabs, Find(t)
  PROVE  AccountsInv'
<1> DEFINE p_ == tabs[t].of
           spare_ == Making(p_) # {} \/ founded[p_] > 0
           r_ == [tabs[t] EXCEPT !.pc = "probe", !.tries = 1, !.spare = spare_]
<1>1. CASE memberOf[p_] # {}
  BY <1>1, LeaveKeeps DEF Find
<1>2. CASE memberOf[p_] = {}
  <2>1. tabs[t].pc = "find" /\ UNCHANGED <<users, session, memberOf, workspaces, founded, excused, moves>>
        /\ tabs' = [tabs EXCEPT ![t].pc = "probe", ![t].tries = 1, ![t].spare = spare_]
    BY <1>2 DEF Find
  <2>2. tabs' = [tabs EXCEPT ![t] = r_]
    BY <2>1 DEF AccountsInv, TabsTyped
  <2>3. r_ \in Tab /\ r_.pc = "probe" /\ r_.of = p_ /\ r_.tries = 1 /\ r_.spare = spare_
    BY AccountBounds DEF AccountsInv, TabsTyped, Tab
  <2>4. p_ \in People /\ p_ \in session /\ founded[p_] \in Nat /\ excused[p_] \in Nat
    BY <2>1 DEF AccountsInv, TabsTyped, AccountsTypeOK
  <2>5. /\ tabs' \in [Tabs -> Tab] /\ tabs'[t] = r_ /\ \A u \in Tabs \ {t} : tabs'[u] = tabs[u]
    BY <2>2, <2>3, OtherTabs DEF AccountsInv
  <2> HIDE DEF r_
  <2>6. AccountsTypeOK'
    BY <2>1, <2>3, <2>4, <2>5, AccountBounds DEF AccountsInv, AccountsTypeOK
  <2>7. TabsTyped'
    BY <2>1, <2>3, <2>4, <2>5 DEF AccountsInv, TabsTyped
  <2>8. NoneToSpare'
    BY <2>1 DEF AccountsInv, NoneToSpare
  <2>9. OneUnexcused'
    <3> SUFFICES ASSUME NEW q \in People
                 PROVE  /\ \A a, b \in Unexcused(q)' : a = b
                        /\ Unexcused(q)' # {} => founded'[q] <= excused'[q]
      BY DEF OneUnexcused
    <3>1. CASE q # p_ \/ spare_
      <4>1. Unexcused(q)' \subseteq Unexcused(q)
        BY <3>1, <2>3, <2>5 DEF Unexcused, Making
      <4> QED
        BY <4>1, <2>1 DEF AccountsInv, OneUnexcused
    <3>2. CASE q = p_ /\ ~spare_
      <4>1. Unexcused(q)' \subseteq {t}
        BY <3>2, <2>5 DEF Unexcused, Making
      <4>2. founded[q] <= excused[q]
        BY <3>2, <2>4
      <4> QED
        BY <4>1, <4>2, <2>1
    <3> QED
      BY <3>1, <3>2
  <2> QED
    BY <2>6, <2>7, <2>8, <2>9 DEF AccountsInv
<1> QED
  BY <1>1, <1>2

\* One candidate after the other is looked up.
LEMMA ProbeKeeps ==
  ASSUME AccountsInv, NEW t \in Tabs, NEW slug, Probe(t, slug)
  PROVE  AccountsInv'
<1> DEFINE limit_ == NumberedAttempts + RandomAttempts
           found_ == [tabs[t] EXCEPT !.pc = "create", !.slug = slug]
           next_ == [tabs[t] EXCEPT !.tries = @ + 1]
<1>1. tabs[t].pc = "probe" /\ UNCHANGED <<users, session, memberOf, workspaces, founded, excused, moves>>
  BY DEF Probe
<1>2. tabs[t] \in Tab /\ tabs[t].of \in People /\ tabs[t].of \in session
  BY <1>1 DEF AccountsInv, TabsTyped, AccountsTypeOK
<1>3. ASSUME NEW r \in Tab, tabs' = [tabs EXCEPT ![t] = r], r.pc \in {"probe", "create"},
             r.of = tabs[t].of, r.spare = tabs[t].spare
      PROVE  AccountsInv'
  <2>1. tabs' \in [Tabs -> Tab] /\ tabs'[t] = r /\ \A u \in Tabs \ {t} : tabs'[u] = tabs[u]
    BY <1>3, OtherTabs DEF AccountsInv
  <2>2. AccountsTypeOK'
    <3>1. \A u \in Tabs : /\ tabs'[u].pc \in {"idle", "register", "credentials", "find", "probe", "create"}
                          /\ tabs'[u].tries \in 0 .. limit_
      BY <2>1 DEF Tab
    <3>2. \A u \in Tabs : tabs'[u].pc \in {"find", "probe", "create"} => tabs'[u].of \in session
      BY <1>2, <1>3, <2>1 DEF AccountsInv, AccountsTypeOK
    <3> QED
      BY <1>1, <3>1, <3>2 DEF AccountsInv, AccountsTypeOK
  <2>3. TabsTyped'
    BY <1>1, <1>2, <1>3, <2>1 DEF AccountsInv, TabsTyped
  <2>4. NoneToSpare'
    BY <1>1 DEF AccountsInv, NoneToSpare
  <2>5. \A q \in People : Unexcused(q)' \subseteq Unexcused(q)
    BY <1>1, <1>3, <2>1 DEF Unexcused, Making
  <2> QED
    BY <1>1, <2>2, <2>3, <2>4, <2>5, FewerMaking DEF AccountsInv
<1>4. CASE slug \notin workspaces
  <2>1. tabs' = [tabs EXCEPT ![t] = found_]
    BY <1>4 DEF Probe, AccountsInv, TabsTyped
  <2>2. slug \in Slugs_
    BY <1>2 DEF Probe, Candidates, Base, Slugs_
  <2>3. found_ \in Tab /\ found_.pc = "create" /\ found_.of = tabs[t].of /\ found_.spare = tabs[t].spare
    BY <1>2, <2>2 DEF Tab
  <2> QED
    BY <2>1, <2>3, <1>3
<1>5. CASE slug \in workspaces /\ tabs[t].tries < limit_
  <2>1. tabs' = [tabs EXCEPT ![t] = next_]
    BY <1>5 DEF Probe, AccountsInv, TabsTyped
  <2>2. tabs[t].tries + 1 \in 0 .. limit_
    <3>1. tabs[t].tries \in 0 .. limit_
      BY <1>2 DEF Tab
    <3>2. limit_ \in Nat
      BY AccountBounds
    <3> QED
      BY <3>1, <3>2, <1>5
  <2>3. next_ \in Tab /\ next_.pc = "probe" /\ next_.of = tabs[t].of /\ next_.spare = tabs[t].spare
    BY <1>1, <1>2, <2>2 DEF Tab
  <2> QED
    BY <2>1, <2>3, <1>3
<1>6. CASE slug \in workspaces /\ ~(tabs[t].tries < limit_)
  BY <1>1, <1>6, LeaveKeeps DEF Probe
<1> QED
  BY <1>4, <1>5, <1>6

\* A workspace is made with its owner in it; the one made without an excuse is the last such.
LEMMA CreateKeeps ==
  ASSUME AccountsInv, NEW t \in Tabs, Create(t)
  PROVE  AccountsInv'
<1> DEFINE p_ == tabs[t].of
           slug_ == tabs[t].slug
<1>1. CASE slug_ \in workspaces
  BY <1>1, LeaveKeeps DEF Create
<1>2. CASE slug_ \notin workspaces
  <2>1. /\ tabs[t].pc = "create" /\ tabs' = [tabs EXCEPT ![t] = NoForm] /\ UNCHANGED <<users, session, moves>>
        /\ workspaces' = workspaces \cup {slug_}
        /\ memberOf' = [memberOf EXCEPT ![p_] = @ \cup {slug_}]
        /\ founded' = [founded EXCEPT ![p_] = @ + 1]
        /\ excused' = IF tabs[t].spare THEN [excused EXCEPT ![p_] = @ + 1] ELSE excused
    BY <1>2 DEF Create, Leave
  <2>2. p_ \in People /\ tabs[t].spare \in BOOLEAN
    <3>1. tabs[t] \in Tab
      BY DEF AccountsInv, TabsTyped
    <3> QED
      BY <2>1, <3>1 DEF AccountsInv, TabsTyped, Tab
  <2>4. /\ tabs' \in [Tabs -> Tab] /\ tabs'[t] = NoForm /\ \A u \in Tabs \ {t} : tabs'[u] = tabs[u]
    BY <2>1, NoFormIs, OtherTabs DEF AccountsInv
  <2>3. \A q : Unexcused(q)' = Unexcused(q) \ {t}
    BY <2>4, NoFormIs, NotMaking
  <2>5. founded' \in [People -> Nat] /\ excused' \in [People -> Nat] /\ memberOf' \in [People -> SUBSET workspaces']
    BY <2>1, <2>2 DEF AccountsInv, AccountsTypeOK
  <2>6. AccountsTypeOK'
    BY <2>1, NoFormIs, <2>4, <2>5, AccountBounds DEF AccountsInv, AccountsTypeOK
  <2>7. TabsTyped'
    BY <2>1, NoFormIs, <2>4 DEF AccountsInv, TabsTyped
  <2>8. \A slug \in workspaces' : \E p \in People : slug \in memberOf'[p]
    <3>1. slug_ \in memberOf'[p_] /\ \A p \in People : memberOf[p] \subseteq memberOf'[p]
      BY <2>1, <2>2 DEF AccountsInv, AccountsTypeOK
    <3> QED
      BY <3>1, <2>1, <2>2 DEF AccountsInv, NoneToSpare
  <2>9. \A p \in People :
          /\ founded'[p] <= 1 + excused'[p]
          /\ \A a, b \in Unexcused(p)' : a = b
          /\ Unexcused(p)' # {} => founded'[p] <= excused'[p]
    <3> SUFFICES ASSUME NEW p \in People
                 PROVE  /\ founded'[p] <= 1 + excused'[p]
                        /\ \A a, b \in Unexcused(p)' : a = b
                        /\ Unexcused(p)' # {} => founded'[p] <= excused'[p]
      OBVIOUS
    <3>1. /\ founded[p] \in Nat /\ excused[p] \in Nat /\ founded[p] <= 1 + excused[p]
          /\ \A a, b \in Unexcused(p) : a = b
          /\ Unexcused(p) # {} => founded[p] <= excused[p]
      BY DEF AccountsInv, AccountsTypeOK, NoneToSpare, OneUnexcused
    <3>2. CASE p # p_
      <4>1. founded'[p] = founded[p] /\ excused'[p] = excused[p]
        BY <3>2, <2>1, <2>2 DEF AccountsInv, AccountsTypeOK
      <4> QED
        BY <4>1, <3>1, <2>3
    <3>3. CASE p = p_ /\ tabs[t].spare
      <4>1. founded'[p] = founded[p] + 1 /\ excused'[p] = excused[p] + 1
        BY <3>3, <2>1, <2>2 DEF AccountsInv, AccountsTypeOK
      <4> QED
        BY <4>1, <3>1, <2>3
    <3>4. CASE p = p_ /\ ~tabs[t].spare
      <4>1. founded'[p] = founded[p] + 1 /\ excused'[p] = excused[p]
        BY <3>4, <2>1, <2>2 DEF AccountsInv, AccountsTypeOK
      <4>2. t \in Unexcused(p)
        BY <3>4, <2>1 DEF Unexcused, Making
      <4>3. Unexcused(p)' = {} /\ founded[p] <= excused[p]
        BY <4>2, <3>1, <2>3
      <4> QED
        BY <4>1, <4>3, <3>1
    <3> QED
      BY <3>2, <3>3, <3>4, <2>2
  <2> QED
    BY <2>6, <2>7, <2>8, <2>9 DEF AccountsInv, NoneToSpare, OneUnexcused
<1> QED
  BY <1>1, <1>2

\* Somebody else adds a person, or a person leaves where another stays.
LEMMA MovesKeep ==
  ASSUME AccountsInv, NEW p \in People, NEW slug \in workspaces, Join(p, slug) \/ GiveUp(p, slug)
  PROVE  AccountsInv'
<1>1. moves < MaxMoves /\ moves' = moves + 1 /\ UNCHANGED <<users, session, workspaces, tabs, founded, excused>>
  BY DEF Join, GiveUp
<1>2. memberOf' \in [People -> SUBSET workspaces'] /\ \A s \in workspaces' : \E q \in People : s \in memberOf'[q]
  <2>1. CASE Join(p, slug)
    <3>1. memberOf' = [memberOf EXCEPT ![p] = @ \cup {slug}]
      BY <2>1 DEF Join
    <3> QED
      BY <3>1, <1>1 DEF AccountsInv, AccountsTypeOK, NoneToSpare
  <2>2. CASE GiveUp(p, slug)
    <3>1. memberOf' = [memberOf EXCEPT ![p] = @ \ {slug}]
      BY <2>2 DEF GiveUp
    <3>2. PICK q \in People \ {p} : slug \in memberOf[q]
      BY <2>2 DEF GiveUp
    <3>3. memberOf' \in [People -> SUBSET workspaces'] /\ slug \in memberOf'[q]
      BY <3>1, <3>2, <1>1 DEF AccountsInv, AccountsTypeOK
    <3>4. ASSUME NEW s \in workspaces, s # slug PROVE \E r \in People : s \in memberOf'[r]
      <4>1. PICK r \in People : s \in memberOf[r]
        BY DEF AccountsInv, NoneToSpare
      <4> QED
        BY <4>1, <3>1, <3>4 DEF AccountsInv, AccountsTypeOK
    <3> QED
      BY <3>3, <3>4, <1>1
  <2> QED
    BY <2>1, <2>2
<1>3. AccountsTypeOK'
  BY <1>1, <1>2, AccountBounds DEF AccountsInv, AccountsTypeOK
<1>4. TabsTyped' /\ OneUnexcused'
  BY <1>1 DEF AccountsInv, TabsTyped, OneUnexcused, Unexcused, Making
<1>5. NoneToSpare'
  BY <1>1, <1>2 DEF AccountsInv, NoneToSpare
<1> QED
  BY <1>3, <1>4, <1>5 DEF AccountsInv

\* Every step.
LEMMA AccountsStep ==
  ASSUME AccountsInv, AccountsNext
  PROVE  AccountsInv' /\ AccountIsKept
<1>1. ASSUME NEW t \in Tabs, NEW p \in People, NEW password \in Forms(p), SignUp(t, p, password) \/ SignIn(t, p, password)
      PROVE  AccountsInv' /\ UNCHANGED users
  <2>1. PICK pc \in {"register", "credentials"} : Open(t, p, password, pc)
    BY <1>1 DEF SignUp, SignIn
  <2> QED
    BY <2>1, OpenKeeps DEF Open
<1>2. ASSUME NEW t \in Tabs, NEW p \in People, Visit(t, p) PROVE AccountsInv' /\ UNCHANGED users
  <2>1. Open(t, p, "", "find") /\ p \in session
    BY <1>2 DEF Visit
  <2> QED
    BY <2>1, OpenKeeps DEF Open
<1>3. ASSUME NEW t \in Tabs, Serve(t) PROVE AccountsInv' /\ AccountIsKept
  <2>1. ASSUME NEW works \in BOOLEAN, Register(t, works) PROVE AccountsInv' /\ AccountIsKept
    BY <2>1, RegisterKeeps
  <2>2. CASE Credentials(t)
    BY <2>2, CredentialsKeep
  <2>3. CASE Find(t)
    BY <2>3, FindKeeps DEF Find, AccountIsKept
  <2>4. CASE Create(t)
    BY <2>4, CreateKeeps DEF Create, AccountIsKept
  <2>5. ASSUME NEW slug, Probe(t, slug) PROVE AccountsInv' /\ AccountIsKept
    BY <2>5, ProbeKeeps DEF Probe, AccountIsKept
  <2> QED
    BY <1>3, <2>1, <2>2, <2>3, <2>4, <2>5 DEF Serve
<1>4. ASSUME NEW p \in People, GitHub(p) PROVE AccountsInv' /\ AccountIsKept
  BY <1>4, GitHubKeeps
<1>5. ASSUME NEW p \in People, NEW slug \in workspaces, Join(p, slug) \/ GiveUp(p, slug)
      PROVE  AccountsInv' /\ UNCHANGED users
  BY <1>5, MovesKeep DEF Join, GiveUp
<1>6. UNCHANGED users => AccountIsKept
  BY DEF AccountIsKept
<1> QED
  BY <1>1, <1>2, <1>3, <1>4, <1>5, <1>6 DEF AccountsNext

\* Whoever signs up, signs in, visits, joins or leaves, in any number of tabs: the password of an
\* account is never replaced (src/web/lib/actions/auth.ts, registerUser), a workspace has somebody in
\* it, and nobody is given a second one but by two requests that raced or after giving one up.
THEOREM AccountsAreKept == Spec => AccountsHold
<1>1. AccountsInv /\ [Next]_appVars => AccountsInv' /\ [AccountIsKept]_accountVars
  <2> SUFFICES ASSUME AccountsInv, [Next]_appVars PROVE AccountsInv' /\ [AccountIsKept]_accountVars
    OBVIOUS
  <2>1. CASE AccountsNext
    BY <2>1, AccountsStep
  <2>2. CASE UNCHANGED accountVars
    BY <2>2 DEF accountVars, AccountsInv, AccountsTypeOK, TabsTyped, NoneToSpare, OneUnexcused, Unexcused, Making
  <2> QED
    BY <2>1, <2>2 DEF Next, appVars
<1>2. AccountsInv => AccountsTypeOK /\ NoneToSpare
  BY DEF AccountsInv
<1> QED
  BY <1>1, <1>2, AccountsStart, PTL DEF Spec, AccountsHold
=============================================================================
