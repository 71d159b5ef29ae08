------------------------------- MODULE AppTier -------------------------------
(***************************************************************************)
(* The parts of the application tier beside the suites and the members:    *)
(* API keys, accounts, share links, the records of the workspaces with     *)
(* their pages, the page where anyone tries the engine, the page a suite   *)
(* is followed on, and what pages compute.  They meet in the database only *)
(* through rows that none of the others writes, so a behaviour follows one *)
(* of them and the others stand still: part is the bound that keeps their  *)
(* states from multiplying.                                                *)
(***************************************************************************)
EXTENDS ApiKeys, Accounts, Shares, Charts, Screens, Playground, Follow, Console

CONSTANTS
  Kinds,      \* the parts that may move
  Sites,      \* bounds of the API: the routes called, the first programs, the expiries, who revokes, the last tick
  ShareDays,  \* bound of the links: their last tick
  Sheets,     \* rows of a suite, as they may be read
  Listings,   \* pairs of listings, or of walks, to compare
  Streams,    \* streams, cut into pieces
  Events, Finals, Today,
  Quotas,     \* quotas of a workspace, or none
  Graphs_,    \* flow graphs: the lines of each block, and the edges
  Texts_,     \* documents of the editor: the lengths of the lines, and a diagnostic's place
  Sessions,   \* key presses in a row
  Notices,    \* toasts raised, closed and gone in a row
  Playbacks,  \* ticks and clicks in a row
  Attempts,   \* a form of signing up, and one of signing in
  Namings,    \* names of workspaces
  KeyAnswers, \* what becomes of an API key's form
  Dialogs,    \* what is done in a dialog, one thing after the other
  Starts,     \* what becomes of runs started from a program's page
  SuiteForms  \* how much of everything is ticked

ASSUME SitesAssumption ==
  /\ Sites # {}
  /\ Sites \subseteq [routes : SUBSET Routes, programs : SUBSET SUBSET ProgramIds, expiries : SUBSET Dates,
                     revokers : SUBSET Managers, last : Nat]

ASSUME QuotasAssumption == \A q \in Quotas : q = NoForm_ \/ (q.monthly \in Nat /\ q.used \in Nat)

VARIABLES
  part,   \* the part that moves
  page    \* what a page is drawn from: rows, two listings or a stream

appVars == <<apiVars, accountVars, shareVars, recordVars, playVars, followVars, clock, part, page>>

Still == [kind |-> "none"]
Parts ==
  [kind : {"api"} \cap Kinds, site : Sites]
    \cup [kind : {"accounts", "shares", "records", "play", "follow", "pages"} \cap Kinds]
Shown ==
  [kind : {"suite"}, rows : Sheets] \cup [kind : {"diff"}, pair : Listings] \cup [kind : {"stream"}, pieces : Streams]
    \cup [kind : {"graph"}, graph : Graphs_] \cup [kind : {"mark"}, text : Texts_]
    \cup [kind : {"keys"}, inputs : Sessions] \cup [kind : {"toasts"}, inputs : Notices]
    \cup [kind : {"signs"}, pair : Attempts] \cup [kind : {"slug"}, name : Namings] \cup [kind : {"key"}, inputs : KeyAnswers]
    \cup [kind : {"dialog"}, linked : BOOLEAN, inputs : Dialogs] \cup [kind : {"run"}, inputs : Starts]
    \cup [kind : {"playback"}, inputs : Playbacks] \cup [kind : {"form"}, form : SuiteForms]

AnySite == CHOOSE s \in Sites : TRUE
SomeTenancy == CHOOSE s \in Stores : TRUE
AnyLink == [source |-> FirstSample, method |-> FirstSearch]

Init ==
  /\ clock = 0 /\ part \in Parts
  /\ ApiInit(IF part.kind = "api" THEN part.site ELSE [AnySite EXCEPT !.programs = {{}}])
  /\ AccountsInit /\ SharesInit
  /\ IF part.kind = "records" THEN RecordsInit(Stores, Standings, Engines \ {Offline})
     ELSE RecordsInit({SomeTenancy}, {[w \in Tenants |-> [p \in Folk |-> Stranger]]}, {Offline})
  /\ IF part.kind = "play" THEN PlayInit(Link, {"analysis", "address"}) ELSE PlayInit({AnyLink}, {})
  /\ FollowInit(part.kind = "follow")
  /\ page \in IF part.kind = "pages" THEN Shown ELSE {Still}

Next ==
  /\ UNCHANGED <<part, page>>
  /\ \/ /\ part.kind = "api" /\ ApiNext(part.site)
        /\ UNCHANGED <<accountVars, shareVars, recordVars, playVars, followVars>>
     \/ /\ part.kind = "accounts" /\ AccountsNext
        /\ UNCHANGED <<apiVars, shareVars, recordVars, playVars, followVars, clock>>
     \/ /\ part.kind = "shares" /\ SharesNext(ShareDays)
        /\ UNCHANGED <<apiVars, accountVars, recordVars, playVars, followVars>>
     \/ /\ part.kind = "records" /\ RecordsNext
        /\ UNCHANGED <<apiVars, accountVars, shareVars, playVars, followVars, clock>>
     \/ /\ part.kind = "play" /\ PlayNext
        /\ UNCHANGED <<apiVars, accountVars, shareVars, recordVars, followVars, clock>>
     \/ /\ part.kind = "follow" /\ FollowNext
        /\ UNCHANGED <<apiVars, accountVars, shareVars, recordVars, playVars, clock>>

\* A part that stands still owes nothing: nobody is signing in, no timer runs and no suite is worked on.
Spec == Init /\ [][Next]_appVars /\ AccountsFairness /\ PlayFairness /\ FollowFairness

(* What the pages of a suite, a comparison and a live run show agrees with    *)
(* the rows, the listings and the stream it is computed from, and what the    *)
(* browser draws, marks and answers to keys, clicks and time with its inputs: *)
(* see SuiteAgrees, ChartsAgree, DiffAgrees, TalliesAgree, StreamAgrees,      *)
(* LinesApart, ViewsAgree, MarkInLine, FormsTell, SlugsTell, KeysTell,        *)
(* ToastsTell, KeyFormTells, DialogTells, RunTells, PlaybackTells and         *)
(* FormTells.                                                                 *)
PagesAgree ==
  CASE page.kind = "suite" -> SuiteAgrees(page.rows.rows, page.rows.names, Today)
                                  /\ ChartsAgree(page.rows.rows, page.rows.names, Today)
    [] page.kind = "diff" -> DiffAgrees(page.pair[1], page.pair[2]) /\ TalliesAgree(page.pair[1], page.pair[2])
    [] page.kind = "stream" -> StreamAgrees(page.pieces, Events, Finals)
    [] page.kind = "graph" -> 
         /\ LinesApart(page.graph.blocks, page.graph.edges)
         /\ \A selected \in {{}, {1}, {5}} : ViewsAgree(page.graph.blocks, page.graph.edges, selected)
    [] page.kind = "mark" -> MarkInLine(page.text.lengths, page.text.line, page.text.column)
    [] page.kind = "keys" -> KeysTell(page.inputs)
    [] page.kind = "toasts" -> ToastsTell(page.inputs)
    [] page.kind = "signs" -> FormsTell(page.pair[1], page.pair[2])
    [] page.kind = "slug" -> SlugsTell(page.name)
    [] page.kind = "key" -> KeyFormTells(page.inputs)
    [] page.kind = "dialog" -> DialogTells(page.linked, page.inputs)
    [] page.kind = "run" -> RunTells(page.inputs)
    [] page.kind = "playback" -> PlaybackTells(page.inputs)
    [] page.kind = "form" -> FormTells(page.form)
    [] OTHER -> TRUE

(* Rows of two workspaces never mix, and no page shows, links or offers what  *)
(* its reader may not have: see RowsStayApart and, between two requests,      *)
(* ScreensLead.                                                               *)
WorkspacesStayApart == part.kind = "records" => RowsStayApart /\ (form = NoForm_ => ScreensLead(Quotas))

(* What is on a screen that several things change is of one moment: see       *)
(* ScreenAgrees and FollowsTheTable.                                          *)
ScreensTell == (part.kind = "play" => ScreenAgrees) /\ (part.kind = "follow" => FollowsTheTable)

(* What holds of accounts whoever signs up, signs in, joins and leaves at     *)
(* once.                                                                      *)
AccountsHold == [][AccountIsKept]_accountVars /\ [](AccountsTypeOK /\ NoneToSpare)

(* An account keeps the password it was made with and a workspace somebody in *)
(* it; and in the end, once nobody changes or gives up anything any more,     *)
(* whoever signed in has a workspace, the screen of the playground is at rest *)
(* and nobody waits for the end of a suite run that is over: see AccountIsKept*)
(* and NoneToSpare, then SomewhereToWork, ScreenRests and EndIsSeen.          *)
EverythingSettles ==
  /\ AccountsHold
  /\ <>[](SomewhereToWork /\ ScreenRests /\ EndIsSeen)
=============================================================================
