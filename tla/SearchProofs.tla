------------------------------ MODULE SearchProofs ------------------------------
(***************************************************************************)
(* Theorems about Search, for every method and every family of graphs.     *)
(* Each step of each method does one of three things: it moves along a     *)
(* verified candidate, goes back to the start, or stays (StepShape); the   *)
(* invariants are then proved of these three.                              *)
(***************************************************************************)
EXTENDS Search, WellFoundedInduction, TLAPS

(* Facts about the environment of a search. *)

\* A move that was offered leads from a program to a program.
LEMMA MovesLead ==
  ASSUME graph \in Graph, NEW p \in Programs
  PROVE  /\ \A m \in Offered(p) : m[2] \in Programs /\ Cost(m[2]) \in Nat
         /\ Successors(p) \subseteq Verified(p) /\ Verified(p) \subseteq Offered(p)
         /\ Cost(p) \in Nat
<1>1. graph.offers[p] \subseteq Kinds \X Programs /\ graph.cost \in [Programs -> Nat]
  BY DEF Graph
<1> QED
  BY <1>1 DEF Offered, Verified, Successors, Cost

\* The start is a walk of its own.
LEMMA WalkStarts == <<Start>> \in Seq(Programs) /\ IsWalk(<<Start>>, Start)
  BY StartAssumption DEF IsWalk

\* A walk goes on along a verified move.
LEMMA WalkGoesOn ==
  ASSUME graph \in Graph, NEW w \in Seq(Programs), NEW p \in Programs,
         IsWalk(w, p), NEW m \in Verified(p)
  PROVE  Append(w, m[2]) \in Seq(Programs) /\ IsWalk(Append(w, m[2]), m[2])
<1> DEFINE v == Append(w, m[2])
<1>1. m[2] \in Programs
  BY MovesLead
<1>2. v \in Seq(Programs) /\ Len(v) = Len(w) + 1 /\ v[Len(v)] = m[2] /\ Len(w) \in Nat
  BY <1>1
<1>3. \A i \in 1..Len(w) : v[i] = w[i]
  BY <1>1
<1>4. Len(w) > 0 /\ w[1] = Start /\ w[Len(w)] = p
  BY DEF IsWalk
<1>5. ASSUME NEW i \in 1..(Len(v) - 1) PROVE \E n \in Verified(v[i]) : n[2] = v[i + 1]
  <2>1. CASE i = Len(w)
    BY <1>2, <1>3, <1>4, <2>1
  <2>2. CASE i # Len(w)
    <3>1. i \in 1..(Len(w) - 1) /\ i + 1 \in 1..Len(w)
      BY <1>2, <2>2
    <3> QED
      BY <1>3, <3>1 DEF IsWalk
  <2> QED
    BY <2>1, <2>2
<1>6. v # <<>> /\ v[1] = Start
  BY <1>2, <1>3, <1>4
<1> QED
  BY <1>2, <1>5, <1>6 DEF IsWalk

\* A lookup keeps the types of the environment, and a walk stays one.
LEMMA LookupKeeps ==
  ASSUME EnvTypeOK, NEW p \in Programs, Lookup(p)
  PROVE  EnvTypeOK' /\ graph' = graph
  BY DEF EnvTypeOK, Lookup
-----------------------------------------------------------------------------

\* A move along m, remembered or an improvement according to the method.
Along(m) ==
  /\ m \in Verified(current) /\ Goto(m[2])
  /\ \/ KeepsBest /\ Remember(m[2])
     \/ ~KeepsBest /\ Cost(m[2]) < Cost(current) /\ UNCHANGED record

Back == KeepsBest /\ current' = Start /\ walk' = <<Start>> /\ UNCHANGED <<visited, record>>

Still == Stay /\ UNCHANGED record

\* What the walk has to do with what is returned.
Settled ==
  /\ Start \in visited /\ current \in visited /\ best \in visited
  /\ Cost(best) < Cost(Start) \/ (best = Start /\ bestWalk = <<Start>>)
  /\ KeepsBest => \A p \in visited : Cost(best) <= Cost(p)
  /\ ~KeepsBest => (Cost(current) < Cost(Start) \/ (current = Start /\ walk = <<Start>>))

Inv == TypeOK /\ WalksAreVerified /\ Settled

LEMMA ImprovingVerified ==
  ASSUME EnvTypeOK, current \in Programs
  PROVE  \A m \in Improving(current) : m \in Verified(current) /\ Cost(m[2]) < Cost(current)
  BY MovesLead DEF Improving, Cheaper, EnvTypeOK

\* What a step of any method comes to.
LEMMA StepShape ==
  ASSUME TypeOK, Next
  PROVE  /\ ~over /\ EnvTypeOK' /\ graph' = graph /\ method' = method /\ over' \in BOOLEAN
         /\ \/ ~over' /\ ((\E m \in Verified(current) : Along(m)) \/ Back)
            \/ Still
<1> DEFINE Kept == EnvTypeOK' /\ graph' = graph
           Moved == ~over' /\ ((\E m \in Verified(current) : Along(m)) \/ Back)
<1>t. current \in Programs /\ EnvTypeOK /\ over \in BOOLEAN
  BY DEF TypeOK
<1>o. over' \in BOOLEAN
  BY <1>t DEF Next, PipelinePass, PipelineEnds, Descend, Climb, Restart, Anneal, Stuck, OutOfTurns,
         Declines, Unusable, GivesUp, Names, Asking, Return
<1>e. Lookup(current) => Kept
  BY <1>t, LookupKeeps
<1>u. UNCHANGED env => Kept
  BY <1>t DEF env, EnvTypeOK
<1>v. Successors(current) \subseteq Verified(current) /\ Verified(current) \subseteq Offered(current)
  BY <1>t, MovesLead DEF EnvTypeOK
<1>i. \A m \in Improving(current) : m \in Verified(current) /\ Cost(m[2]) < Cost(current)
  BY <1>t, ImprovingVerified
<1>p. UNCHANGED <<place, record>> => Still
  BY DEF Still, Stay, place
<1> HIDE DEF Kept
<1>1. CASE PipelinePass
  <2>1. ~KeepsBest /\ ~over /\ method' = method /\ over' = over /\ UNCHANGED record /\ Kept
    BY <1>1, <1>e DEF PipelinePass, Turn, KeepsBest
  <2>2. (\E m \in Improving(current) : Move(m)) \/ Stay
    BY <1>1 DEF PipelinePass, Cheapest
  <2>3. CASE \E m \in Improving(current) : Move(m)
    <3>1. PICK m \in Improving(current) : Move(m)
      BY <2>3
    <3>2. m \in Verified(current) /\ Along(m)
      BY <1>i, <2>1, <3>1 DEF Move, Along
    <3> QED
      BY <1>o, <2>1, <3>2 DEF Kept
  <2> QED
    BY <1>o, <2>1, <2>2, <2>3 DEF Still, Kept
<1>2. CASE PipelineEnds \/ GivesUp \/ OutOfTurns \/ Stuck
  <2>1. ~over /\ method' = method /\ over' = TRUE /\ Kept /\ UNCHANGED <<place, record>>
    BY <1>2, <1>e, <1>u DEF PipelineEnds, GivesUp, OutOfTurns, Stuck, Turn, Return
  <2> QED
    BY <1>p, <1>o, <2>1 DEF Kept
<1>3. ASSUME NEW name \in {"greedy", "random_baseline"}, NEW moves,
             moves \subseteq Improving(current), Descend(name, moves)
      PROVE  ~over /\ Kept /\ method' = method /\ (Moved \/ Still)
  <2>1. ~KeepsBest /\ ~over /\ method' = method /\ UNCHANGED record /\ Kept
    BY <1>3, <1>e, <1>u DEF Descend, Turn, KeepsBest
  <2>2. (over' = TRUE /\ UNCHANGED place) \/ (over' = over /\ \E m \in Improving(current) : Move(m))
    BY <1>3 DEF Descend, Return
  <2>3. ASSUME NEW m \in Improving(current), Move(m) PROVE m \in Verified(current) /\ Along(m)
    BY <1>i, <2>1, <2>3 DEF Move, Along
  <2>4. CASE over' = TRUE /\ UNCHANGED place
    BY <1>p, <2>1, <2>4
  <2>5. CASE over' = over /\ \E m \in Improving(current) : Move(m)
    <3>1. \E m \in Verified(current) : Along(m)
      BY <2>3, <2>5
    <3> QED
      BY <2>1, <2>5, <3>1
  <2> QED
    BY <2>2, <2>4, <2>5
<1>4. CASE Climb
  <2>1. KeepsBest /\ ~over /\ method' = method /\ over' = over /\ Kept
    BY <1>4, <1>e DEF Climb, Turn, KeepsBest
  <2>2. Climbable \subseteq Successors(current)
    BY DEF Climbable, Cheapest, Cheaper, Level
  <2>3. \E m \in Climbable : Goto(m[2]) /\ Remember(m[2])
    BY <1>4 DEF Climb, Move
  <2>4. \E m \in Verified(current) : Along(m)
    BY <1>v, <2>1, <2>2, <2>3 DEF Along
  <2> QED
    BY <1>o, <2>1, <2>4 DEF Kept
<1>5. CASE Restart
  <2>1. KeepsBest /\ ~over /\ method' = method /\ Kept /\ UNCHANGED record
    BY <1>5, <1>e DEF Restart, Turn, KeepsBest
  <2>2. (over' = over /\ Back) \/ (over' = TRUE /\ Stay)
    BY <1>5, <2>1 DEF Restart, Back, Return
  <2>3. CASE over' = over /\ Back
    BY <1>o, <2>1, <2>3 DEF Kept
  <2>4. CASE over' = TRUE /\ Stay
    <3>1. Still
      BY <2>1, <2>4 DEF Still
    <3> QED
      BY <1>o, <2>1, <2>4, <3>1 DEF Kept
  <2> QED
    BY <2>2, <2>3, <2>4
<1>6. CASE Anneal
  <2>1. KeepsBest /\ ~over /\ method' = method /\ over' = over /\ Kept
    BY <1>6, <1>e DEF Anneal, Turn, KeepsBest
  <2>2. PICK m \in Successors(current) :
          \/ Goto(m[2]) /\ Remember(m[2])
          \/ Stay /\ UNCHANGED record
    BY <1>6 DEF Anneal
  <2> QED
    BY <1>t, <1>v, <2>1, <2>2 DEF Along, Still, Kept
<1>7. CASE Declines \/ Unusable
  <2>1. ~over /\ method' = method /\ over' \in {TRUE, over} /\ Kept /\ UNCHANGED <<place, record>>
    BY <1>7, <1>u DEF Declines, Unusable, Asking, Turn, Return
  <2> QED
    BY <1>t, <1>p, <1>o, <2>1 DEF Kept
<1>8. ASSUME NEW m \in Offered(current), Names(m)
      PROVE  ~over /\ Kept /\ method' = method /\ (Moved \/ Still)
  <2>1. ~KeepsBest /\ ~over /\ method' = method /\ over' = over /\ UNCHANGED record /\ Kept
    BY <1>8, <1>e DEF Names, Asking, Turn, KeepsBest
  <2>2. (m \in Improving(current) /\ Move(m)) \/ UNCHANGED place
    BY <1>8 DEF Names, Taken
  <2>3. CASE m \in Improving(current) /\ Move(m)
    <3>1. m \in Verified(current) /\ Along(m)
      BY <1>i, <2>1, <2>3 DEF Move, Along
    <3> QED
      BY <2>1, <3>1
  <2> QED
    BY <1>t, <1>p, <2>1, <2>2, <2>3
<1>9. Greedy \subseteq Improving(current) /\ RandomBaseline \subseteq Improving(current)
  BY DEF Greedy, RandomBaseline, Cheapest
<1>10. Descend("greedy", Greedy) \/ Descend("random_baseline", RandomBaseline)
       => ~over /\ Kept /\ method' = method /\ (Moved \/ Still)
  BY <1>3, <1>9
<1> QED
  BY <1>o, <1>1, <1>2, <1>4, <1>5, <1>6, <1>7, <1>8, <1>10 DEF Next, Kept

\* Counters stay within their limits.
LEMMA CountersKept ==
  ASSUME TypeOK, Next, method' = method
  PROVE  /\ iterations' \in 0..MaxIterations[method]
         /\ turn' \in 1..(IF method = "fixed_pipeline" THEN Len(Order) + 1 ELSE Restarts)
         /\ sideways' \in 0..SidewaysLimit
         /\ calls' \in 0..MaxCalls /\ failures' \in 0..MaxFailures
<1> DEFINE Last == IF method = "fixed_pipeline" THEN Len(Order) + 1 ELSE Restarts
<1>l. /\ MaxIterations[method] \in Nat /\ Restarts \in Nat \ {0} /\ SidewaysLimit \in Nat
      /\ MaxCalls \in Nat /\ MaxFailures \in Nat /\ Len(Order) \in Nat
  BY LimitAssumption, OrderAssumption DEF TypeOK
<1>t. /\ iterations \in 0..MaxIterations[method] /\ turn \in 1..Last /\ sideways \in 0..SidewaysLimit
      /\ calls \in 0..MaxCalls /\ failures \in 0..MaxFailures
  BY DEF TypeOK
<1>1. iterations' \in {iterations} \/ (MayGoOn /\ iterations' = iterations + 1)
  BY DEF Next, PipelinePass, PipelineEnds, Descend, Climb, Restart, Anneal, Stuck, OutOfTurns,
         Declines, Unusable, GivesUp, Names, Move, Asking, MayAsk, place
<1>2. \/ turn' = turn
      \/ method = "fixed_pipeline" /\ turn <= Len(Order) /\ turn' = turn + 1
      \/ method = "hill_climbing" /\ turn < Restarts /\ turn' = turn + 1
  BY DEF Next, PipelinePass, PipelineEnds, Descend, Climb, Restart, Anneal, Stuck, OutOfTurns,
         Declines, Unusable, GivesUp, Names, Asking, Turn, Again, counters
<1>3. sideways' \in {sideways, 0} \/ (sideways < SidewaysLimit /\ sideways' = sideways + 1)
  <2>1. ASSUME NEW m \in Climbable
        PROVE  Cost(m[2]) < Cost(current) \/ sideways < SidewaysLimit
    BY DEF Climbable, Cheapest, Cheaper, Level
  <2>2. CASE Climb
    BY <2>1, <2>2 DEF Climb, Sideways
  <2> QED
    BY <2>2 DEF Next, PipelinePass, PipelineEnds, Descend, Restart, Anneal, Stuck, OutOfTurns,
         Declines, Unusable, GivesUp, Names, Asking, counters
<1>4. calls' = calls \/ (calls < MaxCalls /\ calls' = calls + 1)
  BY DEF Next, PipelinePass, PipelineEnds, Descend, Climb, Restart, Anneal, Stuck, OutOfTurns,
         Declines, Unusable, GivesUp, Names, Asking, MayAsk, counters
<1>5. failures' \in {failures, 0} \/ (failures < MaxFailures /\ failures' = failures + 1)
  BY DEF Next, PipelinePass, PipelineEnds, Descend, Climb, Restart, Anneal, Stuck, OutOfTurns,
         Declines, Unusable, GivesUp, Names, Asking, MayAsk, counters
<1>6. iterations' \in 0..MaxIterations[method]
  BY <1>l, <1>t, <1>1 DEF MayGoOn
<1>7. turn' \in 1..Last
  BY <1>l, <1>t, <1>2
<1>8. sideways' \in 0..SidewaysLimit
  BY <1>l, <1>t, <1>3
<1>9. calls' \in 0..MaxCalls
  BY <1>l, <1>t, <1>4
<1>10. failures' \in 0..MaxFailures
  BY <1>l, <1>t, <1>5
<1> QED
  BY <1>6, <1>7, <1>8, <1>9, <1>10

LEMMA InitInv == Init => Inv
<1> SUFFICES ASSUME Init PROVE Inv
  OBVIOUS
<1>1. TypeOK
  <2>1. EnvTypeOK
    BY GraphAssumption DEF Init, EnvInit, EnvTypeOK
  <2>2. Len(Order) \in Nat
    BY OrderAssumption
  <2>3. turn \in 1..(IF method = "fixed_pipeline" THEN Len(Order) + 1 ELSE Restarts)
    BY <2>2, LimitAssumption DEF Init
  <2>4. iterations \in 0..MaxIterations[method] /\ sideways \in 0..SidewaysLimit
        /\ calls \in 0..MaxCalls /\ failures \in 0..MaxFailures
    BY LimitAssumption DEF Init
  <2> QED
    BY <2>1, <2>3, <2>4, WalkStarts, StartAssumption DEF Init, TypeOK
<1>2. WalksAreVerified
  BY WalkStarts DEF Init, WalksAreVerified
<1>3. Settled
  BY <1>1, MovesLead, StartAssumption DEF Init, Settled, TypeOK, EnvTypeOK
<1> QED
  BY <1>1, <1>2, <1>3 DEF Inv

LEMMA StepInv == ASSUME Inv, Next PROVE Inv'
<1> USE DEF Inv
<1>1. /\ ~over /\ EnvTypeOK' /\ graph' = graph /\ method' = method /\ over' \in BOOLEAN
      /\ \/ ~over' /\ ((\E m \in Verified(current) : Along(m)) \/ Back)
         \/ Still
  BY StepShape
<1>2. /\ current \in Programs /\ best \in Programs /\ visited \subseteq Programs
      /\ walk \in Seq(Programs) /\ bestWalk \in Seq(Programs) /\ graph \in Graph
      /\ IsWalk(walk, current) /\ IsWalk(bestWalk, best)
  BY DEF TypeOK, EnvTypeOK, WalksAreVerified
<1>3. \A p \in Programs : Cost(p) \in Nat
  BY <1>2, MovesLead
<1>4. (\A p : Cost(p)' = Cost(p)) /\ (KeepsBest' <=> KeepsBest)
  BY <1>1 DEF Cost, KeepsBest
<1> DEFINE Good == /\ current' \in Programs /\ best' \in Programs /\ visited' \subseteq Programs
                   /\ walk' \in Seq(Programs) /\ bestWalk' \in Seq(Programs)
                   /\ IsWalk(walk', current') /\ IsWalk(bestWalk', best')
           Sound == /\ Start \in visited' /\ current' \in visited' /\ best' \in visited'
                    /\ Cost(best') < Cost(Start) \/ (best' = Start /\ bestWalk' = <<Start>>)
                    /\ KeepsBest => \A p \in visited' : Cost(best') <= Cost(p)
                    /\ ~KeepsBest => \/ Cost(current') < Cost(Start)
                                     \/ current' = Start /\ walk' = <<Start>>
<1>5. ASSUME NEW m \in Verified(current), Along(m) PROVE Good /\ Sound
  <2>1. m[2] \in Programs /\ Append(walk, m[2]) \in Seq(Programs) /\ IsWalk(Append(walk, m[2]), m[2])
    BY <1>2, MovesLead, WalkGoesOn
  <2>2. current' = m[2] /\ walk' = Append(walk, m[2]) /\ visited' = visited \cup {m[2]}
    BY <1>5 DEF Along, Goto
  <2>3. \/ KeepsBest /\ Cost(m[2]) < Cost(best) /\ best' = m[2] /\ bestWalk' = Append(walk, m[2])
        \/ KeepsBest /\ ~(Cost(m[2]) < Cost(best)) /\ best' = best /\ bestWalk' = bestWalk
        \/ ~KeepsBest /\ Cost(m[2]) < Cost(current) /\ best' = best /\ bestWalk' = bestWalk
    BY <1>5 DEF Along, Remember, record
  <2>4. Good
    BY <1>2, <2>1, <2>2, <2>3
  <2>5. Sound
    BY <1>2, <1>3, <2>1, <2>2, <2>3, StartAssumption DEF Settled
  <2> QED
    BY <2>4, <2>5
<1>6. ASSUME Back PROVE Good /\ Sound
  <2>1. /\ KeepsBest /\ current' = Start /\ walk' = <<Start>>
        /\ visited' = visited /\ best' = best /\ bestWalk' = bestWalk
    BY <1>6 DEF Back, record
  <2>2. Start \in visited
    BY DEF Settled
  <2>3. Good
    BY <1>2, <2>1, WalkStarts, StartAssumption
  <2>4. Sound
    BY <2>1, <2>2 DEF Settled
  <2> QED
    BY <2>3, <2>4
<1>7. ASSUME Still PROVE Good /\ Sound
  BY <1>2, <1>7 DEF Still, Stay, record, Settled
<1>8. Good /\ Sound
  BY <1>1, <1>5, <1>6, <1>7
<1>9. TypeOK'
  <2>1. TypeOK /\ method' = method
    BY <1>1
  <2>2. /\ iterations' \in 0..MaxIterations[method]
        /\ turn' \in 1..(IF method = "fixed_pipeline" THEN Len(Order) + 1 ELSE Restarts)
        /\ sideways' \in 0..SidewaysLimit
        /\ calls' \in 0..MaxCalls /\ failures' \in 0..MaxFailures
    BY <2>1, CountersKept
  <2> QED
    BY <1>1, <1>8, <2>2 DEF TypeOK
<1>10. WalksAreVerified'
  BY <1>1, <1>8 DEF WalksAreVerified, IsWalk, Verified, Offered
<1>11. Settled'
  BY <1>1, <1>8 DEF Settled, Cost, KeepsBest
<1> QED
  BY <1>9, <1>10, <1>11

LEMMA StutterInv == ASSUME Inv, UNCHANGED vars PROVE Inv'
<1>1. /\ graph' = graph /\ cache' = cache /\ exhausted' = exhausted
      /\ method' = method /\ over' = over /\ current' = current /\ walk' = walk
      /\ visited' = visited /\ iterations' = iterations /\ best' = best /\ bestWalk' = bestWalk
      /\ turn' = turn /\ sideways' = sideways /\ calls' = calls /\ failures' = failures
  BY DEF vars, env, place, record, counters
<1>2. TypeOK'
  BY <1>1 DEF Inv, TypeOK, EnvTypeOK
<1>3. WalksAreVerified'
  BY <1>1 DEF Inv, WalksAreVerified, IsWalk, Verified, Offered
<1>4. Settled'
  BY <1>1 DEF Inv, Settled, Cost, KeepsBest
<1> QED
  BY <1>2, <1>3, <1>4 DEF Inv

\* The variables of a search keep their types, and no counter passes its limit.
THEOREM SearchTyped == Spec => []TypeOK
<1>1. Inv => TypeOK
  BY DEF Inv
<1> QED
  BY <1>1, InitInv, StepInv, StutterInv, PTL DEF Spec

\* With any method and on any graph, what is returned was reached by verified
\* steps, which are those reported.
THEOREM SearchWalks == Spec => []WalksAreVerified
<1>1. Inv => WalksAreVerified
  BY DEF Inv
<1> QED
  BY <1>1, InitInv, StepInv, StutterInv, PTL DEF Spec

\* With any method and on any graph, the answer is strictly cheaper than the
\* start or is the start with no moves, and the best one kept is the best seen.
THEOREM SearchNeverDearer == Spec => []NeverDearer
<1>1. Inv => NeverDearer
  BY DEF Inv, Settled, NeverDearer, Answer, AnswerWalk
<1> QED
  BY <1>1, InitInv, StepInv, StutterInv, PTL DEF Spec

\* With any method and on any graph, the search implements VerifiedSearch.
THEOREM SearchKeepsPromise == Spec => PromiseKept
<1> DEFINE Steps == {e \in Programs \X Programs : \E m \in Verified(e[1]) : m[2] = e[2]}
           Result == IF over THEN Answer ELSE None
<1>1. Init => Promise!Init
  BY DEF Init, Promise!Init
<1>2. ASSUME Inv, Next PROVE Promise!Next
  <2>1. /\ ~over /\ graph' = graph /\ method' = method
        /\ \/ ~over' /\ ((\E m \in Verified(current) : Along(m)) \/ Back)
           \/ Still
    BY <1>2, StepShape DEF Inv
  <2>2. Steps' = Steps /\ (graph.cost)' = graph.cost /\ Result = None
    BY <2>1 DEF Verified, Offered
  <2>3. current \in Programs /\ current \in visited
    BY <1>2 DEF Inv, TypeOK, Settled
  <2>4. CASE ~over'
    <3>1. Result' = None
      BY <2>4
    <3>2. \E new \in SUBSET {e[2] : e \in {f \in Steps : f[1] \in visited}} :
            visited' = visited \cup new
      <4>1. CASE visited' = visited
        <5>1. visited' = visited \cup {}
          BY <4>1
        <5> HIDE DEF Steps
        <5> QED
          BY <5>1
      <4>2. ASSUME NEW m \in Verified(current), Along(m)
            PROVE  \E new \in SUBSET {e[2] : e \in {f \in Steps : f[1] \in visited}} :
                     visited' = visited \cup new
        <5>1. m[2] \in Programs /\ visited' = visited \cup {m[2]}
          BY <1>2, <2>3, <4>2, MovesLead DEF Inv, TypeOK, EnvTypeOK, Along, Goto
        <5>2. <<current, m[2]>> \in {f \in Steps : f[1] \in visited}
          BY <2>3, <5>1
        <5>3. <<current, m[2]>>[2] = m[2]
          OBVIOUS
        <5> HIDE DEF Steps
        <5>4. {m[2]} \in SUBSET {e[2] : e \in {f \in Steps : f[1] \in visited}}
          BY <5>2, <5>3
        <5> QED
          BY <5>1, <5>4
      <4>3. (\E m \in Verified(current) : Along(m)) \/ visited' = visited
        BY <2>1, <2>4 DEF Back, Still, Stay
      <4> QED
        BY <4>1, <4>2, <4>3
    <3>3. Promise!Learn
      <4> HIDE DEF Steps, Result
      <4> QED
        BY <2>2, <3>1, <3>2 DEF Promise!Learn, Steps, Result
    <3> QED
      BY <3>3 DEF Promise!Next
  <2>5. CASE over'
    <3>1. Still
      BY <2>1, <2>5
    <3>2. visited' = visited /\ Result' = Answer
      BY <2>1, <2>5, <3>1 DEF Still, Stay, record, Answer, KeepsBest
    <3>3. Answer \in visited /\ (Answer = Start \/ graph.cost[Answer] < graph.cost[Start])
      BY <1>2 DEF Inv, Settled, Answer, Cost
    <3>4. Promise!Answer
      BY <2>2, <3>2, <3>3 DEF Promise!Answer
    <3> QED
      BY <3>4 DEF Promise!Next
  <2> QED
    BY <2>4, <2>5
<1>3. UNCHANGED vars => UNCHANGED Promise!vars
  BY DEF vars, env, place, record, Promise!vars, Verified, Offered, Answer, KeepsBest
<1> QED
  BY <1>1, <1>2, <1>3, InitInv, StepInv, StutterInv, PTL DEF Spec, PromiseKept, Promise!Spec

\* With any method and on any graph, what is kept was reached by verified moves and
\* is cheaper than the start, or is the start.
THEOREM SearchWalksNeverDearer == Spec => []WalksNeverDearer
<1>1. WalksAreVerified /\ NeverDearer => WalksNeverDearer
  BY DEF WalksNeverDearer
<1> QED
  BY <1>1, SearchWalks, SearchNeverDearer, PTL
-----------------------------------------------------------------------------
(* Where a descent stops, and why a climb stops by itself. *)

\* A set of numbers that is not empty has a least one.
LEMMA LeastNumber ==
  ASSUME NEW S \in SUBSET Nat, S # {}
  PROVE  \E n \in S : \A k \in S : n <= k
<1> DEFINE R == OpToRel(<, Nat)
<1>1. IsWellFoundedOn(R, Nat)
  BY NatLessThanWellFounded
<1>2. R = {e \in Nat \X Nat : e[1] < e[2]}
  BY DEF OpToRel
<1> HIDE DEF R
<1>3. PICK n \in S : \A k \in S : <<k, n>> \notin R
  BY <1>1, WFMin
<1>4. \A k \in S : ~(k < n)
  BY <1>2, <1>3
<1> QED
  BY <1>4

\* The list of moves is not empty, so it has a cheapest.
LEMMA CheapestExists ==
  ASSUME graph \in Graph, NEW p \in Programs, NEW moves, moves \subseteq Offered(p), Cheapest(moves) = {}
  PROVE  moves = {}
<1> SUFFICES ASSUME moves # {} PROVE FALSE
  OBVIOUS
<1>1. \A m \in moves : Cost(m[2]) \in Nat
  BY MovesLead
<1>2. {Cost(m[2]) : m \in moves} \in SUBSET Nat /\ {Cost(m[2]) : m \in moves} # {}
  BY <1>1
<1>3. PICK least \in {Cost(m[2]) : m \in moves} : \A k \in {Cost(m[2]) : m \in moves} : least <= k
  BY <1>2, LeastNumber
<1>4. PICK m \in moves : least = Cost(m[2])
  BY <1>3
<1>5. \A n \in moves : Cost(m[2]) <= Cost(n[2])
  BY <1>3, <1>4
<1> QED
  BY <1>5 DEF Cheapest

\* A descent stops only where nothing is cheaper, unless something ran out.
StopInv == Inv /\ StopsAtLocalOptimum

LEMMA StepStop == StopInv /\ [Next]_vars => StopInv'
<1> SUFFICES ASSUME StopInv, [Next]_vars, over', method' \in {"greedy", "random_baseline"},
                    ~exhausted', MayGoOn'
             PROVE  (Cheaper(Verified(current), current))' = {}
  BY StepInv, StutterInv DEF StopInv, StopsAtLocalOptimum
<1>1. CASE UNCHANGED vars
  BY <1>1 DEF vars, env, place, StopInv, StopsAtLocalOptimum, MayGoOn, Cheaper, Verified, Offered, Cost
<1>2. CASE Next
  <2>1. ~over /\ graph' = graph /\ method' = method /\ EnvTypeOK /\ current \in Programs
    BY <1>2, StepShape DEF StopInv, Inv, TypeOK
  <2>2. PICK moves \in {Greedy, RandomBaseline} : \E m \in {"greedy", "random_baseline"} : Descend(m, moves)
    BY <1>2, <2>1 DEF Next, PipelinePass, PipelineEnds, Climb, Restart, Anneal, Stuck, OutOfTurns,
                      Declines, Unusable, GivesUp, Names, Asking, Turn
  <2>3. MayGoOn
    <3>1. CASE MayGoOn
      BY <3>1
    <3>2. CASE ~MayGoOn
      BY <2>1, <2>2, <3>2 DEF Descend, place, MayGoOn
    <3> QED
      BY <3>1, <3>2
  <2>4. Lookup(current) /\ moves = {} /\ UNCHANGED place
    BY <2>1, <2>2, <2>3 DEF Descend
  <2>5. Successors(current) = Verified(current)
    BY <2>4 DEF Lookup, Successors
  <2>6. Improving(current) = {}
    <3>1. Improving(current) \subseteq Offered(current)
      BY DEF Improving, Cheaper, Successors, Verified
    <3> QED
      BY <2>1, <2>2, <2>4, <3>1, CheapestExists DEF Greedy, RandomBaseline, EnvTypeOK
  <2> QED
    BY <2>1, <2>4, <2>5, <2>6 DEF Improving, place, Cheaper, Verified, Offered, Cost
<1> QED
  BY <1>1, <1>2

\* On any graph, greedy and its random twin return a program that no verified move
\* makes cheaper, unless the iterations or the budget ran out.
THEOREM SearchStopsAtLocalOptimum == Spec => []StopsAtLocalOptimum
<1>1. Init => StopInv
  BY InitInv DEF Init, StopInv, StopsAtLocalOptimum
<1>2. StopInv => StopsAtLocalOptimum
  BY DEF StopInv
<1> QED
  BY <1>1, <1>2, StepStop, PTL DEF Spec

\* The iterations an attempt can take: as many falls as the start has cost, each
\* with the level moves after it.
Attempt == Cost(Start) * (SidewaysLimit + 1) + SidewaysLimit

\* What the climb has used up: the attempts before this one, and in this one what
\* the cost has come down by and the level moves since.
Climbed ==
  method = "hill_climbing" =>
    /\ Cost(current) <= Cost(Start)
    /\ iterations <= (turn - 1) * Attempt
                       + (Cost(Start) - Cost(current)) * (SidewaysLimit + 1) + sideways

ClimbInv == Inv /\ Climbed

\* The sums of it, with w for a fall and its level moves.
LEMMA FallPays ==
  ASSUME NEW w \in Nat, NEW top \in Nat, NEW c \in Nat, NEW d \in Nat, c <= top, d < c
  PROVE  (top - c) * w + w <= (top - d) * w
<1>1. PICK k \in Nat : c = d + 1 + k
  BY c - d - 1 \in Nat, c = d + 1 + (c - d - 1)
<1>2. PICK j \in Nat : top = c + j
  BY top - c \in Nat, top = c + (top - c)
<1>3. j * w \in Nat /\ k * w \in Nat
  OBVIOUS
<1>4. (j + 1 + k) * w = j * w + w + k * w
  OBVIOUS
<1>5. top - c = j /\ top - d = j + 1 + k
  BY <1>1, <1>2
<1> QED
  BY <1>3, <1>4, <1>5

\* What is left of a number comes to no more than all of it.
LEMMA ShareOf ==
  ASSUME NEW w \in Nat, NEW top \in Nat, NEW c \in Nat, c <= top
  PROVE  /\ (top - c) * w <= top * w
         /\ (top - c) * w \in Nat /\ top * w \in Nat
<1>1. PICK j \in Nat : top = c + j
  BY top - c \in Nat, top = c + (top - c)
<1>2. (c + j) * w = c * w + j * w /\ c * w \in Nat /\ j * w \in Nat
  OBVIOUS
<1>3. top - c = j
  BY <1>1
<1> QED
  BY <1>1, <1>2, <1>3

LEMMA StepClimb == ClimbInv /\ [Next]_vars => ClimbInv'
<1> SUFFICES ASSUME ClimbInv, [Next]_vars, method' = "hill_climbing"
             PROVE  /\ (Cost(current) <= Cost(Start))'
                    /\ (iterations <= (turn - 1) * Attempt
                          + (Cost(Start) - Cost(current)) * (SidewaysLimit + 1) + sideways)'
  BY StepInv, StutterInv DEF ClimbInv, Climbed
<1> DEFINE w == SidewaysLimit + 1
           top == Cost(Start)
<1>1. /\ graph \in Graph /\ current \in Programs /\ top \in Nat /\ Cost(current) \in Nat
      /\ SidewaysLimit \in Nat /\ w \in Nat /\ Restarts \in Nat /\ iterations \in Nat
      /\ sideways \in 0..SidewaysLimit
  <2>1. Cost(Start) \in Nat /\ Cost(current) \in Nat
    BY MovesLead, StartAssumption DEF ClimbInv, Inv, TypeOK, EnvTypeOK
  <2>2. MaxIterations[method] \in Nat
    BY LimitAssumption DEF ClimbInv, Inv, TypeOK
  <2> QED
    BY <2>1, <2>2, LimitAssumption DEF ClimbInv, Inv, TypeOK, EnvTypeOK
<1>2. CASE UNCHANGED vars
  BY <1>2 DEF vars, env, place, counters, ClimbInv, Climbed, Cost, Attempt
<1>3. CASE Next
  <2>1. method = "hill_climbing" /\ graph' = graph
    BY <1>3, StepShape DEF ClimbInv, Inv
  <2>2. \A p : Cost(p)' = Cost(p)
    BY <2>1 DEF Cost
  <2>3. Attempt' = Attempt /\ Attempt = top * w + SidewaysLimit /\ Attempt \in Nat
    BY <1>1, <2>2 DEF Attempt
  <2>4. turn \in 1..Restarts
    BY <2>1 DEF ClimbInv, Inv, TypeOK
  <2>5. /\ Cost(current) <= top
        /\ iterations <= (turn - 1) * Attempt + (top - Cost(current)) * w + sideways
    BY <2>1 DEF ClimbInv, Climbed
  <2> HIDE DEF w, top
  <2>6. (turn - 1) * Attempt \in Nat /\ turn * Attempt = (turn - 1) * Attempt + Attempt
    BY <2>3, <2>4, <1>1
  <2>7. Climb \/ Restart \/ OutOfTurns
    BY <1>3, <2>1 DEF Next, PipelinePass, PipelineEnds, Descend, Anneal, Stuck,
                      Declines, Unusable, GivesUp, Names, Asking, Turn
  <2>8. CASE Climb
    <3>1. PICK m \in Climbable : Move(m) /\ sideways' = Sideways(m)
      BY <2>8 DEF Climb
    <3>2. /\ m \in Successors(current)
          /\ \/ Cost(m[2]) < Cost(current)
             \/ Cost(m[2]) = Cost(current)
      BY <3>1 DEF Climbable, Cheapest, Cheaper, Level
    <3>3. Cost(m[2]) \in Nat
      BY <1>1, <3>2, MovesLead
    <3>4. current' = m[2] /\ iterations' = iterations + 1 /\ turn' = turn
      BY <2>8, <3>1 DEF Move, Goto, Climb
    <3>5. CASE Cost(m[2]) < Cost(current)
      <4>1. (top - Cost(current)) * w + w <= (top - Cost(m[2])) * w
        BY <1>1, <2>5, <3>3, <3>5, FallPays
      <4>2. sideways' = 0 /\ sideways + 1 <= w
        BY <1>1, <3>1, <3>5 DEF Sideways, w
      <4>3. (top - Cost(current)) * w \in Nat /\ (top - Cost(m[2])) * w \in Nat
        BY <1>1, <2>5, <3>3, <3>5
      <4>4. iterations' <= (turn - 1) * Attempt + (top - Cost(m[2])) * w + 0
        BY <1>1, <2>5, <2>6, <3>4, <4>1, <4>2, <4>3
      <4> QED
        BY <1>1, <2>2, <2>3, <2>5, <3>3, <3>4, <3>5, <4>2, <4>4 DEF w, top
    <3>6. CASE Cost(m[2]) = Cost(current)
      <4>1. sideways' = sideways + 1
        BY <1>1, <3>1, <3>6 DEF Sideways
      <4>2. (top - Cost(current)) * w \in Nat
        BY <1>1, <2>5
      <4>3. iterations' <= (turn - 1) * Attempt + (top - Cost(m[2])) * w + sideways'
        BY <1>1, <2>5, <2>6, <3>4, <3>6, <4>1, <4>2
      <4> QED
        BY <1>1, <2>2, <2>3, <2>5, <3>4, <3>6, <4>3 DEF w, top
    <3> QED
      BY <3>2, <3>5, <3>6
  <2>9. CASE Restart
    <3>1. iterations' = iterations
      BY <2>9 DEF Restart
    <3>2. CASE turn < Restarts
      <4>1. turn' = turn + 1 /\ sideways' = 0 /\ current' = Start
        BY <2>9, <3>2 DEF Restart, Again
      <4>2. (top - Cost(current)) * w + sideways <= Attempt
        <5>1. (top - Cost(current)) * w <= top * w
          BY <1>1, <2>5, ShareOf
        <5>2. (top - Cost(current)) * w \in Nat /\ top * w \in Nat
          BY <1>1, <2>5
        <5> QED
          BY <1>1, <2>3, <5>1, <5>2
      <4>3. iterations' <= turn * Attempt
        <5>1. (top - Cost(current)) * w \in Nat
          BY <1>1, <2>5
        <5> QED
          BY <1>1, <2>3, <2>5, <2>6, <3>1, <4>2, <5>1
      <4>4. (turn' - 1) * Attempt = turn * Attempt /\ (top - top) * w = 0
        BY <1>1, <2>4, <4>1
      <4>5. turn * Attempt \in Nat
        BY <2>3, <2>6
      <4>6. iterations' <= (turn' - 1) * Attempt + (top - top) * w + sideways'
        BY <1>1, <3>1, <4>1, <4>3, <4>4, <4>5
      <4> QED
        BY <1>1, <2>2, <2>3, <4>1, <4>6 DEF w, top
    <3>3. CASE ~(turn < Restarts)
      <4>1. UNCHANGED <<current, turn, sideways>>
        BY <2>9, <3>3 DEF Restart, Stay
      <4> QED
        BY <2>2, <2>3, <2>5, <3>1, <4>1 DEF w, top
    <3> QED
      BY <3>2, <3>3
  <2>10. CASE OutOfTurns
    <3>1. UNCHANGED <<current, iterations, turn, sideways>>
      BY <2>10 DEF OutOfTurns, place, counters
    <3> QED
      BY <2>2, <2>3, <2>5, <3>1 DEF w, top
  <2> QED
    BY <2>7, <2>8, <2>9, <2>10
<1> QED
  BY <1>2, <1>3

LEMMA ClimbHolds == Spec => [](ClimbInv /\ graph \in Graphs)
<1>1. Init => ClimbInv /\ graph \in Graphs
  <2> SUFFICES ASSUME Init PROVE ClimbInv /\ graph \in Graphs
    OBVIOUS
  <2>1. Cost(Start) \in Nat
    BY InitInv, MovesLead, StartAssumption DEF Inv, TypeOK, EnvTypeOK
  <2>2. Attempt \in Nat
    BY <2>1, LimitAssumption DEF Attempt
  <2>3. (1 - 1) * Attempt = 0 /\ (Cost(Start) - Cost(Start)) * (SidewaysLimit + 1) = 0
    BY <2>1, <2>2, LimitAssumption
  <2>4. current = Start /\ iterations = 0 /\ turn = 1 /\ sideways = 0 /\ graph \in Graphs
    BY DEF Init, EnvInit
  <2>5. Climbed
    BY <2>1, <2>3, <2>4 DEF Climbed
  <2> QED
    BY <2>4, <2>5, InitInv DEF ClimbInv
<1>2. ClimbInv /\ graph \in Graphs /\ [Next]_vars => ClimbInv' /\ (graph \in Graphs)'
  <2> SUFFICES ASSUME ClimbInv, graph \in Graphs, [Next]_vars PROVE graph' = graph
    BY StepClimb
  <2>1. CASE UNCHANGED vars
    BY <2>1 DEF vars, env
  <2>2. CASE Next
    BY <2>2, StepShape DEF ClimbInv, Inv
  <2> QED
    BY <2>1, <2>2
<1> QED
  BY <1>1, <1>2, PTL DEF Spec

\* What all the attempts can take.
LEMMA ClimbBound ==
  ASSUME ClimbInv, method = "hill_climbing"
  PROVE  iterations <= Restarts * Attempt
<1> DEFINE w == SidewaysLimit + 1
           top == Cost(Start)
<1>1. /\ top \in Nat /\ Cost(current) \in Nat /\ Cost(current) <= top
      /\ w \in Nat /\ SidewaysLimit \in Nat /\ sideways \in 0..SidewaysLimit
      /\ Restarts \in Nat /\ turn \in 1..Restarts /\ iterations \in Nat
  <2>1. Cost(Start) \in Nat /\ Cost(current) \in Nat
    BY MovesLead, StartAssumption DEF ClimbInv, Inv, TypeOK, EnvTypeOK
  <2>2. MaxIterations[method] \in Nat
    BY LimitAssumption DEF ClimbInv, Inv, TypeOK
  <2> QED
    BY <2>1, <2>2, LimitAssumption DEF ClimbInv, Climbed, Inv, TypeOK
<1>2. Attempt = top * w + SidewaysLimit
  BY DEF Attempt
<1>3. iterations <= (turn - 1) * Attempt + (top - Cost(current)) * w + sideways
  BY DEF ClimbInv, Climbed
<1> HIDE DEF w, top
<1>4. (top - Cost(current)) * w <= top * w /\ (top - Cost(current)) * w \in Nat /\ top * w \in Nat
  BY <1>1, ShareOf
<1>5. (turn - 1) * Attempt \in Nat /\ turn * Attempt = (turn - 1) * Attempt + Attempt /\ Attempt \in Nat
  BY <1>1, <1>2, <1>4
<1>6. iterations <= turn * Attempt
  BY <1>1, <1>2, <1>3, <1>4, <1>5
<1>7. turn * Attempt <= Restarts * Attempt
  <2>1. turn = Restarts - (Restarts - turn) /\ Restarts - turn \in Nat /\ Restarts - turn <= Restarts
    BY <1>1
  <2> QED
    BY <1>1, <1>5, <2>1, ShareOf
<1>8. turn * Attempt \in Nat /\ Restarts * Attempt \in Nat
  BY <1>1, <1>5
<1> QED
  BY <1>1, <1>6, <1>7, <1>8

\* On any graph, hill climbing stops by itself: however many iterations it is
\* allowed, it takes no more than its attempts can, each level move being capped.
THEOREM ClimbEndsItself ==
  Spec => [](method = "hill_climbing" => iterations <= Restarts * Attempt)
<1>1. ClimbInv => (method = "hill_climbing" => iterations <= Restarts * Attempt)
  BY ClimbBound
<1> QED
  BY <1>1, ClimbHolds, PTL

\* A search by hill climbing is allowed more iterations than it can use.
Generous ==
  "hill_climbing" \in Methods =>
    \A g \in Graphs : MaxIterations["hill_climbing"] >
                        Restarts * (g.cost[Start] * (SidewaysLimit + 1) + SidewaysLimit)

\* On any graph, a descent stops only where nothing is cheaper; and a climb that is
\* allowed more iterations than it can use returns before they run out.
THEOREM SearchStopsInTime == ASSUME Generous PROVE Spec => []StopsInTime
<1>1. ClimbInv /\ graph \in Graphs => NeverWanders
  <2> SUFFICES ASSUME ClimbInv, graph \in Graphs, method = "hill_climbing" PROVE MayGoOn
    BY DEF NeverWanders
  <2>1. iterations <= Restarts * Attempt
    BY ClimbBound
  <2>2. MaxIterations[method] > Restarts * Attempt
    BY DEF Generous, Attempt, Cost, ClimbInv, Inv, TypeOK
  <2>3. iterations \in Nat /\ MaxIterations[method] \in Nat /\ Restarts * Attempt \in Nat
    <3>1. Cost(Start) \in Nat
      BY MovesLead, StartAssumption DEF ClimbInv, Inv, TypeOK, EnvTypeOK
    <3>2. Attempt \in Nat
      BY <3>1, LimitAssumption DEF Attempt
    <3> QED
      BY <3>2, LimitAssumption DEF ClimbInv, Inv, TypeOK
  <2> QED
    BY <2>1, <2>2, <2>3 DEF MayGoOn
<1> QED
  BY <1>1, ClimbHolds, SearchStopsAtLocalOptimum, PTL DEF StopsInTime
=============================================================================
