------------------------------- MODULE AStarProofs -------------------------------
(***************************************************************************)
(* Theorems about AStar, for every family of graphs.  What the frontier,   *)
(* the walks and the list of seen programs say of each other is an         *)
(* invariant, and all the rest follows from it.                            *)
(***************************************************************************)
EXTENDS AStar, TLAPS

(* Facts about the environment of a search. *)

\* A move that was offered leads from a program to a program.
LEMMA MovesLead ==
  ASSUME graph \in Graph, NEW p \in Programs
  PROVE  /\ \A m \in Offered(p) : m[2] \in Programs /\ Cost(m[2]) \in Nat
         /\ Successors(p) \subseteq Verified(p) /\ Verified(p) \subseteq Offered(p)
         /\ Cost(p) \in Nat
<1>1. graph.offers[p] \subseteq Kinds \X Programs /\ graph.cost \in [Programs -> Nat]
  BY DEF Graph
<1> QED
  BY <1>1 DEF Offered, Verified, Successors, Cost

\* The start is a walk of its own.
LEMMA WalkStarts == <<Start>> \in Seq(Programs) /\ IsWalk(<<Start>>, Start)
  BY StartAssumption DEF IsWalk

\* A walk goes on along a verified move.
LEMMA WalkGoesOn ==
  ASSUME graph \in Graph, NEW w \in Seq(Programs), NEW p \in Programs,
         IsWalk(w, p), NEW m \in Verified(p)
  PROVE  Append(w, m[2]) \in Seq(Programs) /\ IsWalk(Append(w, m[2]), m[2])
<1> DEFINE v == Append(w, m[2])
<1>1. m[2] \in Programs
  BY MovesLead
<1>2. v \in Seq(Programs) /\ Len(v) = Len(w) + 1 /\ v[Len(v)] = m[2] /\ Len(w) \in Nat
  BY <1>1
<1>3. \A i \in 1..Len(w) : v[i] = w[i]
  BY <1>1
<1>4. Len(w) > 0 /\ w[1] = Start /\ w[Len(w)] = p
  BY DEF IsWalk
<1>5. ASSUME NEW i \in 1..(Len(v) - 1) PROVE \E n \in Verified(v[i]) : n[2] = v[i + 1]
  <2>1. CASE i = Len(w)
    BY <1>2, <1>3, <1>4, <2>1
  <2>2. CASE i # Len(w)
    <3>1. i \in 1..(Len(w) - 1) /\ i + 1 \in 1..Len(w)
      BY <1>2, <2>2
    <3> QED
      BY <1>3, <3>1 DEF IsWalk
  <2> QED
    BY <2>1, <2>2
<1>6. v # <<>> /\ v[1] = Start
  BY <1>2, <1>3, <1>4
<1> QED
  BY <1>2, <1>5, <1>6 DEF IsWalk

\* A lookup keeps the types of the environment, and a walk stays one.
LEMMA LookupKeeps ==
  ASSUME EnvTypeOK, NEW p \in Programs, Lookup(p)
  PROVE  EnvTypeOK' /\ graph' = graph
  BY DEF EnvTypeOK, Lookup
-----------------------------------------------------------------------------

\* The best program is the start as it was, or strictly cheaper.
BestIsBetter == Cost(top) < Cost(Start) \/ (top = Start /\ topWalk = <<Start>>)

\* What was popped, is on the frontier or is the best was seen.
AllSeen ==
  /\ \A n \in frontier : n.program \in seen
  /\ \A i \in DOMAIN popped : popped[i] \in seen
  /\ top \in seen

Inv == AStarTypeOK /\ NodesAreVerified /\ BestIsBetter /\ AllSeen /\ ExpandedOnce

LEMMA InitInv == AStarInit => Inv
<1> SUFFICES ASSUME AStarInit PROVE Inv
  OBVIOUS
<1>1. AStarTypeOK
  <2>1. EnvTypeOK
    BY GraphAssumption DEF AStarInit, EnvInit, EnvTypeOK
  <2>2. frontier \subseteq Nodes
    BY WalkStarts, StartAssumption DEF AStarInit, Nodes
  <2>3. popped \in Seq(Programs) /\ Len(popped) <= Expansions
    BY ExpansionsAssumption DEF AStarInit
  <2> QED
    BY <2>1, <2>2, <2>3, WalkStarts, StartAssumption DEF AStarInit, AStarTypeOK
<1>2. NodesAreVerified
  BY WalkStarts DEF AStarInit, NodesAreVerified
<1>3. BestIsBetter /\ AllSeen /\ ExpandedOnce
  BY DEF AStarInit, BestIsBetter, AllSeen, ExpandedOnce
<1> QED
  BY <1>1, <1>2, <1>3 DEF Inv

\* Programs that are fresh were reached by a verified move and not seen before.
LEMMA FreshIsNew ==
  ASSUME AStarTypeOK, NEW p \in Programs
  PROVE  /\ Fresh(p) \subseteq Programs \ seen
         /\ \A q \in Fresh(p) : \E m \in Verified(p) : m[2] = q
<1>1. \A m \in Successors(p) : m \in Verified(p) /\ m[2] \in Programs
  BY MovesLead DEF AStarTypeOK, EnvTypeOK
<1> QED
  BY <1>1 DEF Fresh

LEMMA ExpandInv == ASSUME Inv, NEW n \in frontier, Expand(n) PROVE Inv'
<1> DEFINE p == n.program
           Added == {[program |-> q, walk |-> WalkTo(n, q)] : q \in {r \in Fresh(p) : Follow(p, r)}}
<1> USE DEF Inv
<1>1. n \in Nodes /\ p \in Programs /\ n.walk \in Seq(Programs) /\ p \in seen
  BY DEF AStarTypeOK, Nodes, AllSeen
<1>2. Fresh(p) \subseteq Programs \ seen /\ \A q \in Fresh(p) : \E m \in Verified(p) : m[2] = q
  BY <1>1, FreshIsNew
<1>3. EnvTypeOK' /\ graph' = graph
  BY <1>1, LookupKeeps DEF Expand, AStarTypeOK
<1>4. IsWalk(n.walk, p)
  BY DEF NodesAreVerified
<1>5. /\ seen' = seen \cup Fresh(p) /\ popped' = Append(popped, p)
      /\ frontier' = (frontier \ {n}) \cup Added
      /\ returned' = returned /\ Len(popped) < Expansions
  BY DEF Expand, MayExpand
<1>6. \A o \in Added : /\ o.program \in Fresh(p) /\ o \in Nodes
                       /\ IsWalk(o.walk, o.program)
  <2> SUFFICES ASSUME NEW q \in Fresh(p)
               PROVE  [program |-> q, walk |-> WalkTo(n, q)] \in Nodes /\ IsWalk(WalkTo(n, q), q)
    OBVIOUS
  <2>1. PICK m \in Verified(p) : m[2] = q
    BY <1>2
  <2>2. Append(n.walk, q) \in Seq(Programs) /\ IsWalk(Append(n.walk, q), q)
    BY <1>1, <1>4, <2>1, WalkGoesOn DEF AStarTypeOK, EnvTypeOK
  <2> QED
    BY <1>2, <2>2 DEF WalkTo, Nodes
<1>7. \/ top' = p /\ topWalk' = n.walk /\ Cost(p) < Cost(top)
      \/ top' = top /\ topWalk' = topWalk
  BY DEF Expand, found, Better
<1>8. AStarTypeOK'
  <2>1. popped' \in Seq(Programs) /\ Len(popped') <= Expansions
    BY <1>1, <1>5, ExpansionsAssumption DEF AStarTypeOK
  <2>2. frontier' \subseteq Nodes /\ seen' \subseteq Programs
    BY <1>2, <1>5, <1>6 DEF AStarTypeOK
  <2>3. top' \in Programs /\ topWalk' \in Seq(Programs)
    BY <1>1, <1>7 DEF AStarTypeOK
  <2> QED
    BY <1>3, <1>5, <2>1, <2>2, <2>3 DEF AStarTypeOK
<1>9. \A w, q : IsWalk(w, q)' <=> IsWalk(w, q)
  BY <1>3 DEF IsWalk, Verified, Offered
<1>10. NodesAreVerified'
  <2>1. IsWalk(topWalk', top')
    BY <1>4, <1>7 DEF NodesAreVerified
  <2>2. \A o \in frontier' : IsWalk(o.walk, o.program)
    BY <1>5, <1>6 DEF NodesAreVerified
  <2> QED
    BY <1>3, <2>1, <2>2 DEF NodesAreVerified, IsWalk, Verified, Offered
<1>11. BestIsBetter'
  <2>1. Cost(p) \in Nat /\ Cost(top) \in Nat /\ Cost(Start) \in Nat
    BY <1>1, MovesLead, StartAssumption DEF AStarTypeOK, EnvTypeOK
  <2>2. \A q : Cost(q)' = Cost(q)
    BY <1>3 DEF Cost
  <2>3. Cost(top') < Cost(Start) \/ (top' = Start /\ topWalk' = <<Start>>)
    BY <1>7, <2>1 DEF BestIsBetter
  <2> QED
    BY <1>3, <2>3 DEF BestIsBetter, Cost
<1>12. AllSeen'
  <2>1. \A i \in DOMAIN popped' : popped'[i] \in seen'
    BY <1>1, <1>5 DEF AllSeen, AStarTypeOK
  <2>2. \A o \in frontier' : o.program \in seen'
    BY <1>5, <1>6 DEF AllSeen
  <2>3. top' \in seen'
    BY <1>1, <1>5, <1>7 DEF AllSeen
  <2> QED
    BY <2>1, <2>2, <2>3 DEF AllSeen
<1>13. ExpandedOnce'
  <2>1. \A i \in DOMAIN popped : popped[i] # p
    BY DEF ExpandedOnce
  <2>2. DOMAIN popped' = 1..(Len(popped) + 1) /\ popped'[Len(popped) + 1] = p
        /\ \A i \in DOMAIN popped : popped'[i] = popped[i]
    BY <1>1, <1>5 DEF AStarTypeOK
  <2>3. \A i, j \in DOMAIN popped' : popped'[i] = popped'[j] => i = j
    BY <2>1, <2>2 DEF ExpandedOnce, AStarTypeOK
  <2>4. \A o, q \in Added : o.program = q.program => o = q
    OBVIOUS
  <2>5. \A o \in Added : o.program \notin seen
    BY <1>2, <1>6
  <2>6. \A o, q \in frontier' : o.program = q.program => o = q
    BY <1>5, <2>4, <2>5 DEF ExpandedOnce, AllSeen
  <2>7. \A o \in frontier' : o.program # p /\ \A i \in DOMAIN popped : popped[i] # o.program
    BY <1>1, <1>5, <2>5 DEF ExpandedOnce, AllSeen
  <2>8. \A o \in frontier', i \in DOMAIN popped' : popped'[i] # o.program
    BY <2>2, <2>7 DEF AStarTypeOK
  <2> QED
    BY <2>3, <2>6, <2>8 DEF ExpandedOnce
<1> QED
  BY <1>8, <1>10, <1>11, <1>12, <1>13

LEMMA StepInv == Inv /\ [AStarNext]_astarVars => Inv'
<1> SUFFICES ASSUME Inv, [AStarNext]_astarVars PROVE Inv'
  OBVIOUS
<1>1. CASE \E n \in frontier : Expand(n)
  BY <1>1, ExpandInv
<1>2. CASE GiveBest \/ UNCHANGED astarVars
  <2>1. /\ graph' = graph /\ cache' = cache /\ exhausted' = exhausted /\ frontier' = frontier
        /\ seen' = seen /\ popped' = popped /\ top' = top /\ topWalk' = topWalk
        /\ returned' \in {returned, TRUE}
    BY <1>2 DEF GiveBest, astarVars, env, found
  <2>2. AStarTypeOK'
    BY <2>1 DEF Inv, AStarTypeOK, EnvTypeOK
  <2>3. NodesAreVerified'
    BY <2>1 DEF Inv, NodesAreVerified, IsWalk, Verified, Offered
  <2>4. BestIsBetter' /\ AllSeen' /\ ExpandedOnce'
    BY <2>1 DEF Inv, BestIsBetter, Cost, AllSeen, ExpandedOnce
  <2> QED
    BY <2>2, <2>3, <2>4 DEF Inv
<1> QED
  BY <1>1, <1>2 DEF AStarNext

\* The variables of a search keep their types, and no more programs than allowed
\* are taken off the frontier.
THEOREM AStarTyped == AStarSpec => []AStarTypeOK
<1>1. Inv => AStarTypeOK
  BY DEF Inv
<1> QED
  BY <1>1, InitInv, StepInv, PTL DEF AStarSpec

\* On any graph, the program returned was reached by verified steps, which are
\* those reported with it.
THEOREM AStarWalks == AStarSpec => []NodesAreVerified
<1>1. Inv => NodesAreVerified
  BY DEF Inv
<1> QED
  BY <1>1, InitInv, StepInv, PTL DEF AStarSpec

\* On any graph, no program is expanded twice.
THEOREM AStarOnce == AStarSpec => []ExpandedOnce
<1>1. Inv => ExpandedOnce
  BY DEF Inv
<1> QED
  BY <1>1, InitInv, StepInv, PTL DEF AStarSpec

\* On any graph, the search implements VerifiedSearch: an expansion learns
\* programs that verified steps lead to, and a return answers with a known one
\* that is cheaper than the start or is the start.
THEOREM AStarKeepsPromise == AStarSpec => AStarPromiseKept
<1> DEFINE Steps == {e \in Programs \X Programs : \E m \in Verified(e[1]) : m[2] = e[2]}
           Result == IF returned THEN top ELSE None
<1>1. AStarInit => AStarPromise!Init
  BY DEF AStarInit, AStarPromise!Init
<1>2. ASSUME Inv, [AStarNext]_astarVars PROVE [AStarPromise!Next]_(AStarPromise!vars)
  <2>1. CASE \E n \in frontier : Expand(n)
    <3>1. PICK n \in frontier : Expand(n)
      BY <2>1
    <3>2. n.program \in Programs /\ n.program \in seen
      BY <1>2 DEF Inv, AStarTypeOK, Nodes, AllSeen
    <3>3. graph' = graph /\ returned' = returned /\ ~returned /\ seen' = seen \cup Fresh(n.program)
      BY <3>1 DEF Expand, Lookup
    <3>4. \A q \in Fresh(n.program) : <<n.program, q>> \in Steps
      BY <1>2, <3>2, FreshIsNew DEF Inv
    <3>5. Fresh(n.program) \subseteq {e[2] : e \in {f \in Steps : f[1] \in seen}}
      <4> SUFFICES ASSUME NEW q \in Fresh(n.program)
                   PROVE  q \in {e[2] : e \in {f \in Steps : f[1] \in seen}}
        OBVIOUS
      <4>1. <<n.program, q>> \in {f \in Steps : f[1] \in seen} /\ <<n.program, q>>[2] = q
        BY <3>2, <3>4
      <4> HIDE DEF Steps
      <4> QED
        BY <4>1
    <3>6. Steps' = Steps /\ (graph.cost)' = graph.cost /\ Result' = Result /\ Result = None
      BY <3>3 DEF Verified, Offered
    <3>7. Fresh(n.program) \in SUBSET {e[2] : e \in {f \in Steps : f[1] \in seen}}
      BY <3>5
    <3>8. AStarPromise!Learn
      <4> HIDE DEF Steps, Result
      <4> QED
        BY <3>3, <3>6, <3>7 DEF AStarPromise!Learn, Steps, Result
    <3> QED
      BY <3>8 DEF AStarPromise!Next
  <2>2. CASE GiveBest
    <3>1. ~returned /\ returned' = TRUE /\ top' = top /\ seen' = seen /\ graph' = graph
      BY <2>2 DEF GiveBest, env, found
    <3>2. top \in seen /\ (top = Start \/ graph.cost[top] < graph.cost[Start])
      BY <1>2 DEF Inv, AllSeen, BestIsBetter, Cost
    <3>3. Steps' = Steps /\ Result = None /\ Result' = top
      BY <3>1 DEF Verified, Offered
    <3>4. AStarPromise!Answer
      BY <3>1, <3>2, <3>3 DEF AStarPromise!Answer
    <3> QED
      BY <3>4 DEF AStarPromise!Next
  <2>3. CASE UNCHANGED astarVars
    BY <2>3 DEF astarVars, env, found, AStarPromise!vars, Verified, Offered
  <2> QED
    BY <1>2, <2>1, <2>2, <2>3 DEF AStarNext
<1> QED
  BY <1>1, <1>2, InitInv, StepInv, PTL DEF AStarSpec, AStarPromiseKept, AStarPromise!Spec

\* On any graph, walks are verified and no program is expanded twice.
THEOREM AStarVerifiedAndOnce == AStarSpec => []VerifiedAndOnce
<1>1. NodesAreVerified /\ ExpandedOnce => VerifiedAndOnce
  BY DEF VerifiedAndOnce
<1> QED
  BY <1>1, AStarWalks, AStarOnce, PTL

\* Nothing that was popped is cheaper than the best.
BestInv == Inv /\ \A i \in DOMAIN popped : Cost(top) <= Cost(popped[i])

LEMMA StepBest == BestInv /\ [AStarNext]_astarVars => BestInv'
<1> SUFFICES ASSUME BestInv, [AStarNext]_astarVars
             PROVE  \A i \in DOMAIN popped' : (graph.cost)'[top'] <= (graph.cost)'[popped'[i]]
  BY StepInv DEF BestInv, Cost
<1>1. CASE GiveBest \/ UNCHANGED astarVars
  BY <1>1 DEF GiveBest, astarVars, env, found, BestInv, Cost
<1>2. ASSUME NEW n \in frontier, Expand(n)
      PROVE  \A i \in DOMAIN popped' : (graph.cost)'[top'] <= (graph.cost)'[popped'[i]]
  <2> DEFINE p == n.program
  <2>1. p \in Programs /\ top \in Programs /\ popped \in Seq(Programs)
    BY DEF BestInv, Inv, AStarTypeOK, Nodes
  <2>2. graph' = graph /\ popped' = Append(popped, p)
    BY <1>2 DEF Expand, Lookup
  <2>3. DOMAIN popped' = 1..(Len(popped) + 1) /\ popped'[Len(popped) + 1] = p
        /\ DOMAIN popped = 1..Len(popped) /\ Len(popped) \in Nat
        /\ \A i \in DOMAIN popped : popped'[i] = popped[i]
    BY <2>1, <2>2
  <2>4. Cost(p) \in Nat /\ Cost(top) \in Nat
    BY <2>1, MovesLead DEF BestInv, Inv, AStarTypeOK, EnvTypeOK
  <2>5. ASSUME NEW i \in DOMAIN popped PROVE Cost(popped[i]) \in Nat
    <3>1. popped[i] \in Programs
      BY <2>1, <2>3
    <3> QED
      BY <3>1, MovesLead DEF BestInv, Inv, AStarTypeOK, EnvTypeOK
  <2>6. Cost(top') <= Cost(top) /\ Cost(top') <= Cost(p) /\ Cost(top') \in Nat
    BY <1>2, <2>4 DEF Expand, found, Better
  <2>7. \A i \in DOMAIN popped : Cost(top') <= Cost(popped[i])
    BY <2>4, <2>5, <2>6 DEF BestInv
  <2>8. \A i \in DOMAIN popped' : i \in DOMAIN popped \/ i = Len(popped) + 1
    BY <2>3
  <2> QED
    BY <2>2, <2>3, <2>6, <2>7, <2>8 DEF Cost
<1> QED
  BY <1>1, <1>2 DEF AStarNext

\* On any graph, the answer is the cheapest program that was expanded, and it is
\* the start with no moves or strictly cheaper.
THEOREM AStarBestOfPopped == AStarSpec => []BestOfPopped
<1>1. AStarInit => BestInv
  BY InitInv DEF AStarInit, BestInv
<1>2. BestInv => BestOfPopped
  BY DEF BestInv, Inv, BestIsBetter, BestOfPopped
<1> QED
  BY <1>1, <1>2, StepBest, PTL DEF AStarSpec
=============================================================================
