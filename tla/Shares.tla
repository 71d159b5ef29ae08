-------------------------------- MODULE Shares --------------------------------
(***************************************************************************)
(* Share links of one workspace: web/lib/actions/shares.ts,                *)
(* web/lib/shares.ts, web/lib/repositories/shares.ts and what a token      *)
(* opens, web/lib/shared-view.ts.  Making, revoking and viewing are        *)
(* requests of several queries each.  Tokens are unguessable, so a link is *)
(* its own token; the text of the audit log and of the page is left out.   *)
(***************************************************************************)
EXTENDS Access, Times, Sequences, FiniteSets

CONSTANTS
  Links,     \* rows of ShareLink
  Sharers,   \* roles of the people who share and revoke
  Ours,      \* runs and suite runs of the workspace
  Theirs,    \* of other workspaces
  Desks,     \* requests that may be under way at once
  MaxViews   \* bound: pages shown

ASSUME SharesAssumption == Links # {} /\ Ours # {} /\ IsFiniteSet(Desks) /\ MaxViews \in Nat

VARIABLES
  links,    \* links[l]: its row
  desks,    \* desks[d]: the request d is serving, and what it has read
  shown,    \* history: pages and cards shown: the link, the target, when they were begun and whether they count
  closed,   \* history: closed[l], when l was first revoked
  missed    \* history: missed[l], views that failed to count

shareVars == <<links, desks, shown, closed, missed>>

NoLink == [made |-> FALSE, target |-> CHOOSE x \in Ours : TRUE, expires |-> Never, revoked |-> Never, views |-> 0]
NoDesk == [pc |-> "idle", counts |-> TRUE, link |-> CHOOSE l \in Links : TRUE, target |-> CHOOSE x \in Ours : TRUE, began |-> 0]

SharesInit ==
  /\ links = [l \in Links |-> NoLink]
  /\ desks = [d \in Desks |-> NoDesk]
  /\ shown = <<>>
  /\ closed = [l \in Links |-> Never]
  /\ missed = [l \in Links |-> 0]

Release(d) == desks' = [desks EXCEPT ![d] = NoDesk]
Onward(d, pc) == desks' = [desks EXCEPT ![d].pc = pc]

\* shareState(link, now)
State(l) ==
  CASE links[l].revoked # Never -> "revoked"
    [] links[l].revoked = Never /\ Expired(links[l].expires, clock) -> "expired"
    [] OTHER -> "active"
-----------------------------------------------------------------------------
\* createShareLink: a target the caller's workspace holds, and an expiry of the list.
Share(l, role, target, expires) ==
  /\ ~links[l].made /\ expires > clock
  /\ Authorize(role, "share:create", FALSE) /\ target \in Ours
  /\ links' = [links EXCEPT ![l] = [NoLink EXCEPT !.made = TRUE, !.target = target, !.expires = expires]]
  /\ UNCHANGED <<desks, shown, closed, missed, clock>>

\* revokeShareLink reads the row, refuses a role below ADMIN and leaves a revoked link alone,
AskRevoke(d, l, role) ==
  /\ desks[d].pc = "idle" /\ links[l].made
  /\ Authorize(role, "share:revoke", FALSE) /\ links[l].revoked = Never
  /\ desks' = [desks EXCEPT ![d] = [NoDesk EXCEPT !.pc = "revoke", !.link = l]]
  /\ UNCHANGED <<links, shown, closed, missed, clock>>

\* and writes by id alone: two at once both write, and the later date stays.
Revoke(d) ==
  LET l == desks[d].link IN
  /\ desks[d].pc = "revoke"
  /\ links' = [links EXCEPT ![l].revoked = clock]
  /\ closed' = [closed EXCEPT ![l] = IF @ = Never THEN clock ELSE @]
  /\ Release(d)
  /\ UNCHANGED <<shown, missed, clock>>
-----------------------------------------------------------------------------
(* loadSharedView *)

\* Bug: a link past its expiry still opens, only revoking closes it.
Opens_UnlessRevoked(l) == links[l].made /\ State(l) # "revoked"

Opens(l) == links[l].made /\ State(l) = "active"

\* The row of the token, and its state now; anything but an active link says no more than that.
Follow_(d, l, counts) ==
  /\ desks[d].pc = "idle" /\ Len(shown) < MaxViews
  /\ Opens(l)
  /\ desks' = [desks EXCEPT ![d] = [pc |-> "load", counts |-> counts, link |-> l, target |-> links[l].target, began |-> clock]]
  /\ UNCHANGED <<links, shown, closed, missed, clock>>

View(d, l) == Follow_(d, l, TRUE)

\* Whoever only previews the link, the title or the card of it, opens it by the same way, uncounted.
Unfurl(d, l) == Follow_(d, l, FALSE)

\* The run with its events, or the suite run with its rows; the page is on its way.
Load(d) ==
  /\ desks[d].pc = "load" /\ Len(shown) < MaxViews
  /\ shown' = Append(shown, [k \in {"link", "target", "began", "counts"} |-> desks[d][k]])
  /\ IF desks[d].counts THEN Onward(d, "count") ELSE Release(d)
  /\ UNCHANGED <<links, closed, missed, clock>>

\* Bug: the count is set where it should be incremented.
Tally_Set(l) == 1
Tally(l) == links[l].views + 1

\* countView: an increment nobody waits for, and one that fails is a view all the same.
CountView(d, works) ==
  LET l == desks[d].link IN
  /\ desks[d].pc = "count"
  /\ IF works THEN links' = [links EXCEPT ![l].views = Tally(l)] /\ UNCHANGED missed
              ELSE missed' = [missed EXCEPT ![l] = @ + 1] /\ UNCHANGED links
  /\ Release(d)
  /\ UNCHANGED <<shown, closed, clock>>

SharesNext(last) ==
  \/ \E l \in Links, role \in Sharers :
       \/ \E target \in Ours \cup Theirs, expires \in Dates : Share(l, role, target, expires)
       \/ \E d \in Desks : AskRevoke(d, l, role)
  \/ \E d \in Desks :
       \/ Revoke(d) \/ Load(d)
       \/ \E l \in Links : View(d, l) \/ Unfurl(d, l)
       \/ \E works \in BOOLEAN : CountView(d, works)
  \/ clock < last /\ Tick /\ UNCHANGED shareVars
-----------------------------------------------------------------------------
(* The types. *)
SharesTypeOK ==
  /\ links \in [Links -> [made : BOOLEAN, target : Ours, expires : Dates, revoked : Dates, views : 0 .. MaxViews]]
  /\ desks \in [Desks -> [pc : {"idle", "revoke", "load", "count"}, counts : BOOLEAN, link : Links, target : Ours,
                           began : 0 .. clock]]
  /\ shown \in Seq([link : Links, target : Ours, began : 0 .. clock, counts : BOOLEAN])
  /\ closed \in [Links -> Dates] /\ missed \in [Links -> 0 .. MaxViews]

(* A page or a card that was begun after its link was first revoked, or at or *)
(* after its expiry, was never shown; what is shown is the link's own target, *)
(* one of this workspace; a revoked link stays revoked.  The count on a link  *)
(* is the pages it opened, no cards, less those still to be counted and those *)
(* that failed to be.                                                         *)
SharesStayClosed ==
  /\ SharesTypeOK
  /\ \A i \in DOMAIN shown :
       LET page == shown[i] l == links[page.link] IN
       /\ page.target = l.target /\ page.target \in Ours
       /\ page.began <= closed[page.link] /\ ~Expired(l.expires, page.began)
  /\ \A l \in Links :
       /\ (closed[l] = Never) = (links[l].revoked = Never)
       /\ closed[l] <= links[l].revoked
       /\ links[l].views + missed[l] + Cardinality({d \in Desks : desks[d].pc = "count" /\ desks[d].link = l})
            = Cardinality({i \in DOMAIN shown : shown[i].link = l /\ shown[i].counts})
=============================================================================
