------------------------------- MODULE SearchEnv -------------------------------
(***************************************************************************)
(* What every search method shares: class Environment of                   *)
(* engine/autoopt/search/base.py.  Programs are the listings a search can  *)
(* reach, equal when their canonical hashes are; what analyse(), apply(),  *)
(* verify() and the cost model say of them is a graph, and a search may be *)
(* given any of Graphs.                                                    *)
(***************************************************************************)
EXTENDS Naturals, FiniteSets, Sequences

CONSTANTS
  Programs,    \* programs, up to canonical_hash
  Start,       \* the program to optimize
  Kinds,       \* optimization types
  Graphs,      \* see Graph
  NodeBudget,  \* node_budget; one that never binds if there is none
  None         \* no answer yet

\* cost[p] is the score of p; offers[p] has, for each opportunity analyse() finds
\* in p and apply() can take, its kind and the program it gives; ok has the pairs
\* whose verification does not refute them.
Graph == [cost : [Programs -> Nat],
          offers : [Programs -> SUBSET (Kinds \X Programs)],
          ok : SUBSET (Programs \X Programs)]

ASSUME StartAssumption == Start \in Programs
ASSUME GraphAssumption == Graphs \subseteq Graph
ASSUME NoneAssumption == None \notin Programs
ASSUME BudgetAssumption == NodeBudget \in Nat

VARIABLES
  graph,      \* the graph of this search
  cache,      \* the programs whose successors were worked out
  exhausted   \* stats.budget_exhausted

env == <<graph, cache, exhausted>>

EnvTypeOK ==
  /\ graph \in Graph
  /\ cache \subseteq Programs
  /\ exhausted \in BOOLEAN

EnvInit == graph \in Graphs /\ cache = {} /\ exhausted = FALSE

Cost(p) == graph.cost[p]

\* Candidates that verification did not refute.
Offered(p) == graph.offers[p]
Verified(p) == {m \in Offered(p) : <<p, m[2]>> \in graph.ok}

\* stats.nodes_expanded is the number of programs in the cache.
Room == Cardinality(cache) < NodeBudget

\* Bug: refuted candidates are kept.
Successors_All(p) == IF p \in cache \/ Room THEN Offered(p) ELSE {}

\* What successors(p) returns.
Successors(p) == IF p \in cache \/ Room THEN Verified(p) ELSE {}

\* What successors(p) leaves behind.
Lookup(p) ==
  /\ cache' = IF Room THEN cache \cup {p} ELSE cache
  /\ exhausted' = (exhausted \/ (p \notin cache /\ ~Room))
  /\ UNCHANGED graph

\* The list is sorted by cost; among moves of one cost the order depends on lines
\* of the listing, so any may be first.
Cheapest(moves) == {m \in moves : \A n \in moves : Cost(m[2]) <= Cost(n[2])}

Cheaper(moves, p) == {m \in moves : Cost(m[2]) < Cost(p)}
Improving(p) == Cheaper(Successors(p), p)
Level(moves, p) == {m \in moves : Cost(m[2]) = Cost(p)}

\* A walk from the start to p of which every step was verified.
IsWalk(walk, p) ==
  /\ walk # <<>> /\ walk[1] = Start /\ walk[Len(walk)] = p
  /\ \A i \in 1..(Len(walk) - 1) : \E m \in Verified(walk[i]) : m[2] = walk[i + 1]
===============================================================================
