----------------------------- MODULE VerifiedSearch -----------------------------
(***************************************************************************)
(* What any search method promises: it learns programs only by verified    *)
(* steps from programs it knows, and answers with one it knows that is     *)
(* cheaper than the start, or with the start.                              *)
(***************************************************************************)
EXTENDS Naturals

CONSTANTS
  Start,
  None       \* no answer yet

VARIABLES
  cost,      \* the cost of each program
  steps,     \* the pairs of programs a verified candidate leads along
  known,
  answer

vars == <<cost, steps, known, answer>>

Init == known = {Start} /\ answer = None

Learn ==
  /\ answer = None
  /\ \E new \in SUBSET {e[2] : e \in {f \in steps : f[1] \in known}} : known' = known \cup new
  /\ UNCHANGED <<cost, steps, answer>>

Answer ==
  /\ answer = None
  /\ \E p \in known : (p = Start \/ cost[p] < cost[Start]) /\ answer' = p
  /\ UNCHANGED <<cost, steps, known>>

Next == Learn \/ Answer

Spec == Init /\ [][Next]_vars
=============================================================================
