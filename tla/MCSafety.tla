------------------------------ MODULE MCSafety ------------------------------
(***************************************************************************)
(* The optimizer (Engine) and the people of a workspace (Members), the two *)
(* parts nothing is promised of in the end.  They have no state in common: *)
(* a behaviour follows one of them, and the other has nothing to do.       *)
(***************************************************************************)
EXTENDS MCEngine, Members, TLC

VARIABLE part   \* the part that is followed

partVars == <<vars, memberVars, part>>

\* An engine that was given a text it could not read.
NoProgram ==
  /\ text = Unclosed /\ original = None /\ book = <<>>
  /\ phase = "rejected" /\ method = "" /\ current = None /\ kept = <<>>
  /\ cache = {} /\ exhausted = FALSE
  /\ stats = NoStats /\ by_kind = [k \in Catalogue |-> NoCounts]
  /\ asked = NothingAsked /\ report = NoReport

\* Where the requests may end: nobody has another.
AllAnswered == (\A r \in Requests : req[r].pc \in Outcomes) /\ UNCHANGED memberVars

SafetyInit ==
  /\ part \in {"engine", "members"}
  /\ IF part = "engine" THEN Init ELSE NoProgram
  /\ MembersInit
SafetyNext ==
  /\ UNCHANGED part
  /\ \/ part = "engine" /\ (Next \/ Finished) /\ UNCHANGED memberVars
     \/ part = "members" /\ (MembersNext \/ AllAnswered) /\ UNCHANGED vars

SafetySpec == SafetyInit /\ [][SafetyNext]_partVars

\* Requests are told apart by their names only, and so is everybody but the founder.
Alike == Permutations(Requests) \cup Permutations(Users \ {Founder})
=============================================================================
