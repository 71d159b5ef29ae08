--------------------------------- MODULE AStar ---------------------------------
(***************************************************************************)
(* Best-first search: class AStar of engine/autoopt/search/strategies.py.  *)
(* One step takes a program off the frontier and looks at all its          *)
(* successors.  Of programs with equal estimates any may come first.       *)
(***************************************************************************)
EXTENDS SearchEnv

CONSTANT
  Expansions    \* min(AStar.node_budget, max_iterations)

ASSUME ExpansionsAssumption == Expansions \in Nat

VARIABLES
  frontier,   \* programs to expand, with the walk to each
  seen,       \* every program that was ever a successor, or the start
  popped,     \* programs taken off the frontier, in order
  top,        \* best: the best of them
  topWalk,    \* and how it was reached
  returned    \* whether search() has returned

found == <<top, topWalk>>
astarVars == <<env, frontier, seen, popped, found, returned>>

Nodes == [program : Programs, walk : Seq(Programs)]

AStarTypeOK ==
  /\ EnvTypeOK
  /\ frontier \subseteq Nodes
  /\ seen \subseteq Programs
  /\ popped \in Seq(Programs) /\ Len(popped) <= Expansions
  /\ top \in Programs /\ topWalk \in Seq(Programs)
  /\ returned \in BOOLEAN

AStarInit ==
  /\ EnvInit
  /\ frontier = {[program |-> Start, walk |-> <<Start>>]}
  /\ seen = {Start}
  /\ popped = <<>>
  /\ top = Start /\ topWalk = <<Start>>
  /\ returned = FALSE

\* _heuristic() tries every opportunity and verifies none: cost less estimate is
\* the cost of the cheapest candidate, or of the program itself.
Within(p) == {p} \cup {m[2] : m \in Offered(p)}
NoDearer(p, x) == \A q \in Within(x) : \E r \in Within(p) : Cost(r) <= Cost(q)

\* Bug: without a counter in the heap, a tie cannot be broken.
Foremost_Untied ==
  {n \in frontier : \A o \in frontier : o = n \/ ~NoDearer(o.program, n.program)}

Foremost == {n \in frontier : \A o \in frontier : NoDearer(n.program, o.program)}

MayExpand == Len(popped) < Expansions

\* Bug: the first improvement is kept, however small.
Better_First(p) == top = Start /\ Cost(p) < Cost(Start)
Better(p) == Cost(p) < Cost(top)

\* Bug: a node inherits the walk of the best program.
WalkTo_Best(n, p) == Append(topWalk, p)
WalkTo(n, p) == Append(n.walk, p)

\* What the successors of p add to the frontier: nothing dearer than p.
Follow(p, q) == Cost(q) <= Cost(p)

\* Bug: what was seen before is followed again.
Fresh_Again(p) == {m[2] : m \in Successors(p)}

\* Bug: candidates are followed before they are verified.
Fresh_Unverified(p) == {m[2] : m \in Offered(p)} \ seen
Fresh(p) == {m[2] : m \in Successors(p)} \ seen

Expand(n) ==
  LET p == n.program IN
  /\ ~returned /\ MayExpand
  /\ n \in Foremost
  /\ popped' = Append(popped, p)
  /\ IF Better(p) THEN top' = p /\ topWalk' = n.walk ELSE UNCHANGED found
  /\ Lookup(p)
  /\ seen' = seen \cup Fresh(p)
  /\ frontier' = (frontier \ {n})
       \cup {[program |-> q, walk |-> WalkTo(n, q)] : q \in {r \in Fresh(p) : Follow(p, r)}}
  /\ UNCHANGED returned

GiveBest ==
  /\ ~returned /\ (frontier = {} \/ ~MayExpand)
  /\ returned' = TRUE
  /\ UNCHANGED <<env, frontier, seen, popped, found>>

AStarNext == GiveBest \/ \E n \in frontier : Expand(n)

AStarSpec == AStarInit /\ [][AStarNext]_astarVars
-----------------------------------------------------------------------------
(* Properties *)

\* Whatever is returned was reached by verified steps, which are the moves
\* reported with it, although the order of the frontier comes from candidates
\* nobody verified ("Nothing unsafe follows", strategies.py:133).
NodesAreVerified ==
  IsWalk(topWalk, top) /\ \A n \in frontier : IsWalk(n.walk, n.program)

\* The answer is the cheapest program that was taken off the frontier; it is the
\* start with no moves, or strictly cheaper (strategies.py:196-199).
BestOfPopped ==
  /\ \A i \in DOMAIN popped : Cost(top) <= Cost(popped[i])
  /\ Cost(top) < Cost(Start) \/ topWalk = <<Start>>

\* However many paths lead to a program, it is expanded at most once (seen).
ExpandedOnce ==
  /\ \A i, j \in DOMAIN popped : popped[i] = popped[j] => i = j
  /\ \A n, o \in frontier : n.program = o.program => n = o
  /\ \A n \in frontier, i \in DOMAIN popped : popped[i] # n.program

\* The search keeps what VerifiedSearch promises.
\* Every program is reached by a verified walk, and expanded once.
VerifiedAndOnce == NodesAreVerified /\ ExpandedOnce

AStarPromise == INSTANCE VerifiedSearch WITH
  cost <- graph.cost,
  steps <- {e \in Programs \X Programs : \E m \in Verified(e[1]) : m[2] = e[2]},
  known <- seen,
  answer <- IF returned THEN top ELSE None
AStarPromiseKept == AStarPromise!Spec
=============================================================================
