-------------------------------- MODULE Search --------------------------------
(***************************************************************************)
(* The methods that walk from program to program, of                       *)
(* engine/autoopt/search/strategies.py and engine/autoopt/llm/strategy.py. *)
(* One turn of a method's loop is a step.  Seeded choices are free, and so *)
(* is what a language model answers.  A* is in module AStar.               *)
(***************************************************************************)
EXTENDS SearchEnv

CONSTANTS
  Methods,         \* the methods a search may use
  MaxIterations,   \* MaxIterations[m]: the max_iterations a search by m is given
  Order,           \* FixedPipeline.ORDER
  Restarts,        \* HillClimbing.restarts
  SidewaysLimit,   \* HillClimbing.sideways_limit
  CoolingSteps,    \* turns until the temperature is down to 1e-4
  MaxCalls,        \* LlmStrategy.max_calls
  MaxFailures      \* LlmStrategy.max_consecutive_failures

AllMethods ==
  {"fixed_pipeline", "greedy", "random_baseline", "hill_climbing", "simulated_annealing", "llm"}

ASSUME MethodAssumption == Methods \subseteq AllMethods
ASSUME OrderAssumption == Order \in Seq(Kinds)
ASSUME LimitAssumption ==
  /\ MaxIterations \in [Methods -> Nat] /\ Restarts \in Nat \ {0} /\ SidewaysLimit \in Nat
  /\ CoolingSteps \in Nat /\ MaxCalls \in Nat /\ MaxFailures \in Nat

VARIABLES
  method,       \* the method of this search
  over,         \* whether search() has returned
  current,      \* the program the method is at
  walk,         \* the programs it went through to get there
  best,         \* the best program so far, for the methods that keep one
  bestWalk,     \* and how it was reached
  iterations,   \* iterations
  turn,         \* index into ORDER, or number of the attempt
  sideways,     \* level moves since the last one down
  calls,        \* questions asked of the model
  failures,     \* answers in a row that came to nothing
  visited       \* every program the method was at

place == <<current, walk, visited, iterations>>
record == <<best, bestWalk>>
counters == <<turn, sideways, calls, failures>>
vars == <<env, method, over, place, record, counters>>

KeepsBest == method \in {"hill_climbing", "simulated_annealing"}

\* What search() returns.
Answer == IF KeepsBest THEN best ELSE current
AnswerWalk == IF KeepsBest THEN bestWalk ELSE walk

TypeOK ==
  /\ EnvTypeOK
  /\ method \in Methods /\ over \in BOOLEAN
  /\ current \in Programs /\ best \in Programs /\ visited \subseteq Programs
  /\ walk \in Seq(Programs) /\ bestWalk \in Seq(Programs)
  /\ iterations \in 0..MaxIterations[method]
  /\ turn \in 1..(IF method = "fixed_pipeline" THEN Len(Order) + 1 ELSE Restarts)
  /\ sideways \in 0..SidewaysLimit
  /\ calls \in 0..MaxCalls /\ failures \in 0..MaxFailures

Init ==
  /\ EnvInit
  /\ method \in Methods /\ over = FALSE
  /\ current = Start /\ walk = <<Start>> /\ visited = {Start}
  /\ best = Start /\ bestWalk = <<Start>>
  /\ iterations = 0 /\ turn = 1 /\ sideways = 0 /\ calls = 0 /\ failures = 0
-----------------------------------------------------------------------------
(* Parts of a turn *)

Turn(m) == method = m /\ ~over

MayGoOn == iterations < MaxIterations[method]
Stay == UNCHANGED <<current, walk, visited>>
Return == over' = TRUE

\* Bug: the move is kept without the programs it went through.
Goto_Forget(p) ==
  current' = p /\ walk' = <<walk[1], p>> /\ visited' = visited \cup {p}

Goto(p) ==
  current' = p /\ walk' = Append(walk, p) /\ visited' = visited \cup {p}

\* Bug: a step that ties is remembered as an improvement, with another's walk.
Remember_Tie(p) ==
  IF Cost(p) <= Cost(best)
  THEN best' = p /\ bestWalk' = Append(walk, p)
  ELSE UNCHANGED record

Remember(p) ==
  IF Cost(p) < Cost(best)
  THEN best' = p /\ bestWalk' = Append(walk, p)
  ELSE UNCHANGED record

Move(m) == Goto(m[2]) /\ iterations' = iterations + 1
-----------------------------------------------------------------------------
(* fixed_pipeline: each pass until it stops paying, then the next *)

PipelinePass ==
  /\ Turn("fixed_pipeline") /\ turn <= Len(Order) /\ MayGoOn
  /\ Lookup(current)
  /\ LET moves == {m \in Improving(current) : m[1] = Order[turn]} IN
     \/ moves # {} /\ (\E m \in Cheapest(moves) : Move(m)) /\ turn' = turn
     \/ moves = {} /\ turn' = turn + 1 /\ Stay /\ UNCHANGED iterations
  /\ UNCHANGED <<method, over, record, sideways, calls, failures>>

PipelineEnds ==
  /\ Turn("fixed_pipeline") /\ (turn > Len(Order) \/ ~MayGoOn)
  /\ Return
  /\ UNCHANGED <<env, method, place, record, counters>>

(* greedy and random_baseline: an improving move, while there is one *)

\* Bug: the list is read from its dear end.
Greedy_Last ==
  {m \in Improving(current) : \A n \in Successors(current) : Cost(n[2]) <= Cost(m[2])}

\* The moves a method may take next.
Greedy == Cheapest(Improving(current))
RandomBaseline == Improving(current)

Descend(m, moves) ==
  /\ Turn(m)
  /\ IF MayGoOn
     THEN /\ Lookup(current)
          /\ \/ (\E n \in moves : Move(n)) /\ UNCHANGED over
             \/ moves = {} /\ Return /\ UNCHANGED place
     ELSE Return /\ UNCHANGED <<env, place>>
  /\ UNCHANGED <<method, record, counters>>
-----------------------------------------------------------------------------
(* hill_climbing: steepest descent, some level moves, then over again *)

\* Bug: every level move is the first.
Sideways_Reset(m) == 0
Sideways(m) == IF Cost(m[2]) < Cost(current) THEN 0 ELSE sideways + 1

Climbable ==
  LET moves == Successors(current)
      downhill == Cheaper(moves, current)
  IN IF downhill # {} THEN Cheapest(downhill)
     ELSE IF sideways < SidewaysLimit THEN Level(moves, current)
     ELSE {}

Climb ==
  /\ Turn("hill_climbing") /\ MayGoOn
  /\ \E m \in Climbable : Move(m) /\ Remember(m[2]) /\ sideways' = Sideways(m)
  /\ Lookup(current)
  /\ UNCHANGED <<method, over, turn, calls, failures>>

\* Bug: an attempt that takes no step is not counted.
Again_Moved == IF walk = <<Start>> THEN turn ELSE turn + 1
Again == turn + 1

\* The attempt is over, and the search with it after the last attempt.
Restart ==
  /\ Turn("hill_climbing") /\ MayGoOn
  /\ Climbable = {}
  /\ Lookup(current)
  /\ IF turn < Restarts
     THEN /\ turn' = Again /\ sideways' = 0
          /\ current' = Start /\ walk' = <<Start>>
          /\ UNCHANGED <<visited, over>>
     ELSE Return /\ Stay /\ UNCHANGED <<turn, sideways>>
  /\ UNCHANGED <<method, iterations, record, calls, failures>>

(* simulated_annealing: a random move, kept if it is no dearer or by chance *)

Anneal ==
  /\ Turn("simulated_annealing") /\ MayGoOn /\ iterations < CoolingSteps
  /\ Lookup(current)
  /\ \E m \in Successors(current) :
       /\ iterations' = iterations + 1
       /\ \/ Goto(m[2]) /\ Remember(m[2])
          \/ Cost(m[2]) > Cost(current) /\ Stay /\ UNCHANGED record
  /\ UNCHANGED <<method, over, counters>>

\* No move from here, and nothing else to try.
Stuck ==
  /\ Turn("simulated_annealing") /\ MayGoOn /\ iterations < CoolingSteps
  /\ Successors(current) = {}
  /\ Lookup(current)
  /\ Return
  /\ UNCHANGED <<method, place, record, counters>>

OutOfTurns ==
  /\ \/ Turn("hill_climbing") /\ ~MayGoOn
     \/ Turn("simulated_annealing") /\ (~MayGoOn \/ iterations >= CoolingSteps)
  /\ Return
  /\ UNCHANGED <<env, method, place, record, counters>>
-----------------------------------------------------------------------------
(* llm: a move the model names, if it is one *)

MayAsk == MayGoOn /\ calls < MaxCalls /\ failures < MaxFailures

Asking == Turn("llm") /\ MayAsk /\ calls' = calls + 1
          /\ UNCHANGED <<method, record, turn, sideways>>

Declines ==
  /\ Asking
  /\ Return
  /\ UNCHANGED <<env, place, failures>>

\* An answer that cannot be read, or names what does not apply there.
Unusable ==
  /\ Asking
  /\ failures' = failures + 1
  /\ UNCHANGED <<env, over, place>>

Taken(m) == m \in Improving(current)

Names(m) ==
  /\ Asking /\ m \in Offered(current)
  /\ Lookup(current)
  /\ IF Taken(m) THEN Move(m) /\ failures' = 0
     ELSE failures' = failures + 1 /\ UNCHANGED place
  /\ UNCHANGED over

GivesUp ==
  /\ Turn("llm") /\ ~MayAsk
  /\ Return
  /\ UNCHANGED <<env, method, place, record, counters>>
-----------------------------------------------------------------------------
Next ==
  \/ PipelinePass \/ PipelineEnds
  \/ Descend("greedy", Greedy) \/ Descend("random_baseline", RandomBaseline)
  \/ Climb \/ Restart \/ Anneal \/ Stuck \/ OutOfTurns
  \/ Declines \/ Unusable \/ GivesUp \/ \E m \in Offered(current) : Names(m)

Spec == Init /\ [][Next]_vars
-----------------------------------------------------------------------------
(* Properties *)

\* "Correctness is never relaxed" (base.py:17): whatever is returned was reached
\* from the start by verified steps, and the moves reported are those steps,
\* through restarts, chance and a budget that ends anywhere.
WalksAreVerified == IsWalk(walk, current) /\ IsWalk(bestWalk, best)

\* "The program they finally return must be strictly cheaper than the original"
\* (base.py:11), or be the original with no moves reported; and a method that
\* keeps the best one has seen nothing better.
NeverDearer ==
  /\ Cost(Answer) < Cost(Start) \/ AnswerWalk = <<Start>>
  /\ KeepsBest => \A p \in visited : Cost(best) <= Cost(p)

\* Greedy and its random twin return a program no verified move improves, unless
\* the iterations or the budget ran out (strategies.py:66-73).
StopsAtLocalOptimum ==
  over /\ method \in {"greedy", "random_baseline"} /\ ~exhausted /\ MayGoOn
    => Cheaper(Verified(current), current) = {}

\* "Sideways moves are capped, or a chain of equal cost rewrites can wander
\* indefinitely" (strategies.py:205): hill climbing stops by itself, however many
\* iterations it is allowed.
NeverWanders == method = "hill_climbing" => MayGoOn

\* A search keeps what VerifiedSearch promises.
\* What is kept was reached by verified moves, and pays.
WalksNeverDearer == WalksAreVerified /\ NeverDearer

\* A descent stops only where nothing is cheaper, and a climb does not wander on.
StopsInTime == StopsAtLocalOptimum /\ NeverWanders

Promise == INSTANCE VerifiedSearch WITH
  cost <- graph.cost,
  steps <- {e \in Programs \X Programs : \E m \in Verified(e[1]) : m[2] = e[2]},
  known <- visited,
  answer <- IF over THEN Answer ELSE None
PromiseKept == Promise!Spec
=============================================================================
