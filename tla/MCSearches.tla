-------------------------------- MODULE MCSearches --------------------------------
(***************************************************************************)
(* The searches and the batch that runs them: the walking methods          *)
(* (Search), A* (AStar) and the processes that work through an experiment  *)
(* (Experiment).  A behaviour follows one of them, and the others stay as  *)
(* they were.  Both kinds of search are given families of small graphs.    *)
(***************************************************************************)
EXTENDS Search, AStar, Experiment

CONSTANTS s, a, b, c, fold, copy

\* Costs on both sides of that of the start.  Only their order matters, so none is 1
\* unless one is 0; and the other programs are alike, so their order does not.
Costs ==
  {x \in [Programs -> 0..3] :
     /\ x[Start] = 2 /\ x[a] <= x[b] /\ x[b] <= x[c]
     /\ (\E p \in Programs : x[p] = 1) => x[a] = 0}

\* The graph of what there is between two programs: no opportunity, a refuted one,
\* which is of the first kind, or a verified one of either kind.
GraphOf(edge, cost) ==
  [cost |-> cost,
   offers |-> [p \in Programs |->
                 {<<IF edge[e] = "refuted" THEN fold ELSE edge[e], e[2]>> :
                    e \in {f \in DOMAIN edge : f[1] = p /\ edge[f] # "none"}}],
   ok |-> {e \in DOMAIN edge : edge[e] \in Kinds}]

PairsOf(programs) == {e \in programs \X programs : e[1] # e[2]}

\* Between three programs, any opportunities, at most one from one program to
\* another; one back to the start is of the first kind.
Narrow ==
  {x \in [PairsOf({s, a, b}) -> {"none", "refuted"} \cup Kinds] :
     \A e \in DOMAIN x : e[2] = Start => x[e] # copy}

\* Between four programs of one kind, but nothing leads back to the start, and only
\* candidates of the start are refuted.
Wide ==
  {x \in [{e \in PairsOf(Programs) : e[2] # Start} -> {"none", "refuted", fold}] :
     \A e \in DOMAIN x : x[e] = "refuted" => e[1] = Start}

Drawn ==
  {GraphOf(x[1], x[2]) : x \in UNION {Narrow \X {y \in Costs : y[c] = 3}, Wide \X Costs}}
AllGraphs == Drawn

\* One of them, for when no search is followed.
NoMoves ==
  [cost |-> [p \in Programs |-> IF p = Start THEN 2 ELSE 3],
   offers |-> [p \in Programs |-> {}],
   ok |-> {}]

\* More iterations than hill climbing can use, and fewer than the others could.
Iterations == [m \in Methods |-> IF m = "hill_climbing" THEN 14 ELSE 2]

Passes == <<fold, copy>>
-----------------------------------------------------------------------------
VARIABLE part   \* the part that is followed

walkVars == <<method, over, place, record, counters>>
bestFirstVars == <<frontier, seen, popped, found, returned>>
searchesVars == <<vars, bestFirstVars, batchVars, part>>

\* The walking methods have no use for the fourth program, a dear one, and only the
\* pipeline for the second kind.
ThreeOnly ==
  /\ graph.cost[c] = 3 /\ graph.offers[c] = {}
  /\ \A p \in Programs : \A m \in graph.offers[p] : m[2] # c
OneKind == \A p \in Programs : \A m \in graph.offers[p] : m[1] = fold

SearchesInit ==
  /\ Init /\ AStarInit /\ BatchInit
  /\ part \in {"walk", "astar", "batch"}
  /\ IF part = "walk" THEN ThreeOnly ELSE method = "greedy"
  /\ method # "fixed_pipeline" => OneKind
  /\ part = "batch" => graph = NoMoves

Walking == part = "walk" /\ Next /\ UNCHANGED <<bestFirstVars, batchVars, part>>
BestFirst == part = "astar" /\ AStarNext /\ UNCHANGED <<walkVars, batchVars, part>>
Batch(A) == part = "batch" /\ A /\ UNCHANGED <<vars, bestFirstVars, part>>

SearchesNext == Walking \/ BestFirst \/ Batch(BatchNext)

\* A search is one thread that nothing holds up.  A process of the batch that is
\* not killed goes on; the batch is started again and again ("restarted unattended
\* for days"), a stranger does not have the id in the lock every time somebody
\* looks, and now and then the provider answers for long enough to come to any cell
\* that is left.
Fairness ==
  /\ WF_vars(Walking) /\ WF_astarVars(BestFirst)
  /\ \A r \in Runs :
       WF_batchVars(Batch(Step(r))) /\ WF_batchVars(Batch(\E p \in Pids : Begin(r, p)))
  /\ SF_batchVars(Batch(\E r \in Runs : TakeOver(r)))
  /\ \A cell \in Cells : SF_batchVars(Batch(\E r \in Runs : WriteRow(r, cell)))

SearchesSpec == SearchesInit /\ [][SearchesNext]_searchesVars /\ Fairness

\* Every walking method returns, through level moves, restarts and chance; A*
\* returns, for its frontier runs dry or its expansions do; and the batch is
\* finished, wherever a process was killed ("A killed run must not block every later
\* one for good", test_experiment.py:63), unless the id in the lock that one left
\* comes back again and again.
Returns ==
  \/ <>[]CASE part = "walk" -> over [] part = "astar" -> returned [] part = "batch" -> Finished
  \/ []<>(part = "batch" /\ Mistaken)
=============================================================================
