------------------------------ MODULE JobBoard ------------------------------
(***************************************************************************)
(* What the suite queue promises, without its table, its engine or its     *)
(* clock: a board of jobs that hands each job to at most one worker at a   *)
(* time, takes an untouched job back, and never reopens a finished one.    *)
(* web/lib/suites/executor.ts:4-13 states the promise in prose.            *)
(***************************************************************************)

CONSTANTS
  Jobs,     \* the jobs posted when the board is opened
  Hands     \* whoever may work on them

VARIABLES
  phase,    \* phase[j]: "waiting", "taken" or "done"
  holder    \* holder[j]: the hands now working on j

vars == <<phase, holder>>

Phases == {"waiting", "taken", "done"}

TypeOK ==
  /\ phase \in [Jobs -> Phases]
  /\ holder \in [Jobs -> SUBSET Hands]

Init ==
  /\ phase = [j \in Jobs |-> "waiting"]
  /\ holder = [j \in Jobs |-> {}]

\* A job goes to one pair of hands, and only while it waits and nobody has it.
Take(h, j) ==
  /\ phase[j] = "waiting"
  /\ holder[j] = {}
  /\ phase' = [phase EXCEPT ![j] = "taken"]
  /\ holder' = [holder EXCEPT ![j] = {h}]

\* The holder lets go of a job: back on the board if it was still open, or
\* over with, or left where it was (the holder died).
LetGo(h, j) ==
  /\ holder[j] = {h}
  /\ holder' = [holder EXCEPT ![j] = {}]
  /\ \/ UNCHANGED phase
     \/ phase[j] = "taken" /\ phase' = [phase EXCEPT ![j] = "waiting"]
     \/ phase' = [phase EXCEPT ![j] = "done"]

\* The board writes jobs off: those nobody holds.
WriteOff(S) ==
  /\ \A j \in S : holder[j] = {} /\ phase[j] # "done"
  /\ phase' = [j \in Jobs |-> IF j \in S THEN "done" ELSE phase[j]]
  /\ UNCHANGED holder

Next ==
  \/ \E h \in Hands, j \in Jobs : Take(h, j) \/ LetGo(h, j)
  \/ \E S \in SUBSET Jobs : WriteOff(S)

Spec == Init /\ [][Next]_vars
=============================================================================
