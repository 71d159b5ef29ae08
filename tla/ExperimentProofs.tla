---------------------------- MODULE ExperimentProofs ----------------------------
(***************************************************************************)
(* Theorems about Experiment.  While no two processes have taken the lock  *)
(* at the same time, the lock of a live owner names it, whoever reads it   *)
(* sees that name, and whoever is about to unlink it has no owner to hurt. *)
(***************************************************************************)
EXTENDS Experiment, TLAPS

\* The id of a live process is a process id, and its own.
OwnPid ==
  /\ \A r \in Runs : at[r] \in Alive => pid[r] \in Pids
  /\ \A r, s \in Runs : at[r] \in Alive /\ at[s] \in Alive /\ pid[r] = pid[s] => r = s

\* While one process at a time takes the lock.
InTurn ==
  /\ \A r, s \in Runs : at[r] \in Taking /\ at[s] \in Taking => r = s
  /\ \A r, s \in Runs : at[r] \in Owning /\ at[s] \in Owning => r = s
  /\ \A r \in Runs : at[r] = "name" => lock = Unsigned(r)
  /\ \A r \in Runs : at[r] \in {"load", "work", "leave"} => lock = [by |-> r, pid |-> pid[r]]
  /\ \A r, s \in Runs : at[r] \in {"unlink", "create"} => at[s] \notin Owning
  /\ \A r, s \in Runs : at[r] = "probe" /\ at[s] \in Owning => held[r] = pid[s]

\* What the owner still has to do has no good row, and what has one has no other.
DoneOnce ==
  /\ \A c \in Cells : rows[c].good <= 1
  /\ \A r \in Runs : at[r] = "work" => \A c \in todo[r] : rows[c].good = 0

\* A cell that is not to do has a row.
Covered ==
  /\ \A r \in Runs : at[r] \in {"work", "leave"} => \A c \in Cells : Written(c) \/ c \in todo[r]
  /\ DoneMeansDone

\* A lock has its owner until one is killed.
Kept == kills = 0 /\ lock # Free => at[lock.by] \in Owning

\* Every step of every process keeps the types.
LEMMA StepTyped == BatchTypeOK /\ [BatchNext]_batchVars => BatchTypeOK'
<1> SUFFICES ASSUME BatchTypeOK, [BatchNext]_batchVars PROVE BatchTypeOK'
  OBVIOUS
<1> USE PidAssumption, KillsAssumption
    DEF BatchTypeOK, Alive, Ended, Taking, Owning, GoOn, End
<1>1. CASE UNCHANGED batchVars
  BY <1>1 DEF batchVars
<1>2. ASSUME NEW r \in Runs, NEW p \in Pids, Begin(r, p) PROVE BatchTypeOK'
  BY <1>2 DEF Begin
<1>3. ASSUME NEW r \in Runs, Open(r) PROVE BatchTypeOK'
  BY <1>3 DEF Open, Unsigned, Locks
<1>4. ASSUME NEW r \in Runs, Read(r) PROVE BatchTypeOK'
  BY <1>4 DEF Read, Locks
<1>5. ASSUME NEW r \in Runs, TakeOver(r) PROVE BatchTypeOK'
  BY <1>5 DEF TakeOver
<1>6. ASSUME NEW r \in Runs, Refuse(r) PROVE BatchTypeOK'
  BY <1>6 DEF Refuse
<1>7. ASSUME NEW r \in Runs, Unlink(r) PROVE BatchTypeOK'
  BY <1>7 DEF Unlink
<1>8. ASSUME NEW r \in Runs, Create(r) PROVE BatchTypeOK'
  BY <1>8 DEF Create, Unsigned, Locks
<1>9. ASSUME NEW r \in Runs, Name(r) PROVE BatchTypeOK'
  BY <1>9 DEF Name, Locks
<1>10. ASSUME NEW r \in Runs, Load(r) PROVE BatchTypeOK'
  BY <1>10 DEF Load
<1>11. ASSUME NEW r \in Runs, NEW c \in Cells, WriteRow(r, c) PROVE BatchTypeOK'
  <2>1. rows[c] \in [good : 0..2, bad : BOOLEAN]
    OBVIOUS
  <2>2. CASE Good(c)
    <3>1. (IF rows[c].good = 2 THEN 2 ELSE rows[c].good + 1) \in 0..2
      BY <2>1
    <3>2. [rows[c] EXCEPT !.good = IF rows[c].good = 2 THEN 2 ELSE rows[c].good + 1]
            \in [good : 0..2, bad : BOOLEAN]
      BY <2>1, <3>1, Zenon
    <3> QED
      BY <1>11, <2>2, <3>2 DEF WriteRow, Good
  <2>3. CASE Failed(c)
    BY <1>11, <2>1, <2>3 DEF WriteRow, Failed
  <2> QED
    BY <1>11, <2>2, <2>3 DEF WriteRow
<1>12. ASSUME NEW r \in Runs, Stop(r) PROVE BatchTypeOK'
  BY <1>12 DEF Stop
<1>13. ASSUME NEW r \in Runs, Leave(r) PROVE BatchTypeOK'
  BY <1>13 DEF Leave, LockAfter, Outcome
<1>14. ASSUME NEW r \in Runs, Kill(r) PROVE BatchTypeOK'
  BY <1>14 DEF Kill
<1> QED
  BY <1>1, <1>2, <1>3, <1>4, <1>5, <1>6, <1>7, <1>8, <1>9, <1>10, <1>11, <1>12, <1>13, <1>14
     DEF BatchNext, Step

LEMMA InitTyped == BatchInit => BatchTypeOK
<1> SUFFICES ASSUME BatchInit PROVE BatchTypeOK
  OBVIOUS
<1>1. kills \in 0..MaxKills
  BY KillsAssumption DEF BatchInit
<1>2. rows \in [Cells -> [good : 0..2, bad : BOOLEAN]]
  <2>1. [good |-> 0, bad |-> FALSE] \in [good : 0..2, bad : BOOLEAN]
    OBVIOUS
  <2> QED
    BY <2>1 DEF BatchInit
<1> QED
  BY <1>1, <1>2 DEF BatchInit, BatchTypeOK, Ended

\* A process id is given to one process at a time.
LEMMA StepOwnPid == BatchTypeOK /\ OwnPid /\ [BatchNext]_batchVars => OwnPid'
<1> SUFFICES ASSUME BatchTypeOK, OwnPid, [BatchNext]_batchVars PROVE OwnPid'
  OBVIOUS
<1> USE DEF BatchTypeOK, OwnPid, Alive, Ended, Taking, Owning
<1>1. CASE UNCHANGED batchVars
  BY <1>1 DEF batchVars
<1>2. ASSUME NEW r \in Runs, NEW p \in Pids, Begin(r, p) PROVE OwnPid'
  BY <1>2 DEF Begin, Live
<1>3. ASSUME NEW r \in Runs, NEW step \in Alive, at[r] \in Alive, GoOn(r, step) PROVE OwnPid'
  BY <1>3 DEF GoOn
<1>4. ASSUME NEW r \in Runs, NEW how \in Ended, End(r, how) PROVE OwnPid'
  BY <1>4 DEF End
<1>5. ASSUME NEW r \in Runs, Step(r) \/ Kill(r) PROVE OwnPid'
  <2>1. CASE Open(r) \/ TakeOver(r) \/ Unlink(r) \/ Name(r) \/ Load(r) \/ Stop(r)
    BY <2>1, <1>3 DEF Open, TakeOver, Unlink, Name, Load, Stop
  <2>2. CASE Refuse(r) \/ Leave(r) \/ Kill(r)
    BY <2>2, <1>4 DEF Refuse, Leave, Kill, Outcome
  <2>3. CASE Read(r) \/ Create(r)
    BY <2>3, <1>3, <1>4 DEF Read, Create
  <2>4. CASE \E c \in Cells : WriteRow(r, c)
    BY <2>4 DEF WriteRow
  <2> QED
    BY <1>5, <2>1, <2>2, <2>3, <2>4 DEF Step
<1> QED
  BY <1>1, <1>2, <1>5 DEF BatchNext

\* As long as nobody has begun while another was taking the lock, they take it
\* and own it in turn.
LEMMA StepInTurn ==
  BatchTypeOK /\ OwnPid /\ (~raced => InTurn) /\ [BatchNext]_batchVars => (~raced' => InTurn')
<1> SUFFICES ASSUME BatchTypeOK, OwnPid, ~raced => InTurn, [BatchNext]_batchVars, ~raced' PROVE InTurn'
  OBVIOUS
<1>0. ~raced
  BY DEF BatchNext, Step, Begin, Open, Read, TakeOver, Refuse, Unlink, Create, Name, Load,
         WriteRow, Stop, Leave, Kill, batchVars, BatchTypeOK
<1>f. \A r \in Runs : Unsigned(r) # Free /\ \A p \in Pids : [by |-> r, pid |-> p] # Free
  BY FreeAssumption DEF Unsigned
<1> USE <1>0, PidAssumption DEF BatchTypeOK, OwnPid, InTurn, Alive, Ended, Taking, Owning, Unsigned
<1>1. CASE UNCHANGED batchVars
  BY <1>1 DEF batchVars
<1>2. ASSUME NEW r \in Runs, NEW p \in Pids, Begin(r, p) PROVE InTurn'
  <2>1. /\ at'[r] = "open" /\ UNCHANGED <<lock, held>> /\ \A s \in Runs : at[s] \notin Taking
        /\ \A s \in Runs : s # r => at'[s] = at[s] /\ pid'[s] = pid[s]
    BY <1>2 DEF Begin
  <2>2. /\ \A s \in Runs : at'[s] \in Taking => s = r
        /\ \A s \in Runs : at'[s] \in Owning => s # r /\ at[s] \in Owning
        /\ \A s \in Runs : at'[s] \notin {"unlink", "create", "probe"}
    BY <2>1
  <2> QED
    BY <2>1, <2>2
<1>3. ASSUME NEW r \in Runs, Open(r) PROVE InTurn'
  BY <1>3, <1>f DEF Open, GoOn
<1>4. ASSUME NEW r \in Runs, Read(r) PROVE InTurn'
  BY <1>4, <1>f DEF Read, GoOn, End
<1>5. ASSUME NEW r \in Runs, TakeOver(r) PROVE InTurn'
  <2>1. \A s \in Runs : at[s] \notin Owning
    BY <1>5 DEF TakeOver, HolderGone, Live
  <2> QED
    BY <1>5, <2>1 DEF TakeOver, GoOn
<1>6. ASSUME NEW r \in Runs, Refuse(r) PROVE InTurn'
  BY <1>6 DEF Refuse, End
<1>7. ASSUME NEW r \in Runs, Unlink(r) PROVE InTurn'
  BY <1>7 DEF Unlink, GoOn
<1>8. ASSUME NEW r \in Runs, Create(r) PROVE InTurn'
  BY <1>8 DEF Create, GoOn, End
<1>9. ASSUME NEW r \in Runs, Name(r) PROVE InTurn'
  BY <1>9, <1>f DEF Name, GoOn
<1>10. ASSUME NEW r \in Runs, Load(r) PROVE InTurn'
  BY <1>10 DEF Load, GoOn
<1>11. ASSUME NEW r \in Runs, NEW c \in Cells, WriteRow(r, c) PROVE InTurn'
  BY <1>11 DEF WriteRow
<1>12. ASSUME NEW r \in Runs, Stop(r) PROVE InTurn'
  BY <1>12 DEF Stop, GoOn
<1>13. ASSUME NEW r \in Runs, Leave(r) PROVE InTurn'
  BY <1>13 DEF Leave, End, Outcome
<1>14. ASSUME NEW r \in Runs, Kill(r) PROVE InTurn'
  BY <1>14 DEF Kill, End
<1> QED
  BY <1>1, <1>2, <1>3, <1>4, <1>5, <1>6, <1>7, <1>8, <1>9, <1>10, <1>11, <1>12, <1>13, <1>14
     DEF BatchNext, Step

\* In turn, nothing is worked out twice.
LEMMA StepDoneOnce ==
  BatchTypeOK /\ (~raced => InTurn /\ DoneOnce) /\ [BatchNext]_batchVars => (~raced' => DoneOnce')
<1> SUFFICES ASSUME BatchTypeOK, ~raced => InTurn /\ DoneOnce, [BatchNext]_batchVars, ~raced' PROVE DoneOnce'
  OBVIOUS
<1>0. ~raced
  BY DEF BatchNext, Step, Begin, Open, Read, TakeOver, Refuse, Unlink, Create, Name, Load,
         WriteRow, Stop, Leave, Kill, batchVars, BatchTypeOK
<1> USE <1>0 DEF BatchTypeOK, DoneOnce
<1>1. CASE UNCHANGED batchVars
  BY <1>1 DEF batchVars
<1>2. ASSUME NEW r \in Runs, Load(r) PROVE DoneOnce'
  BY <1>2 DEF Load, GoOn, Completed
<1>3. ASSUME NEW r \in Runs, NEW c \in Cells, WriteRow(r, c) PROVE DoneOnce'
  <2>1. rows[c].good = 0
    BY <1>3 DEF WriteRow
  <2>2. \A d \in Cells : rows'[d].good <= 1 /\ (d # c => rows'[d].good = rows[d].good)
    BY <1>3, <2>1 DEF WriteRow, Good, Failed
  <2>3. \A s \in Runs : at'[s] = "work" => s = r
    BY <1>3 DEF WriteRow, InTurn, Owning
  <2>4. todo'[r] = todo[r] \ {c}
    BY <1>3 DEF WriteRow
  <2> QED
    BY <1>3, <2>2, <2>3, <2>4 DEF WriteRow
<1>4. ASSUME NEW r \in Runs, Leave(r) \/ Kill(r) PROVE DoneOnce'
  BY <1>4 DEF Leave, Kill, End, Outcome
<1>5. ASSUME NEW r \in Runs, NEW p \in Pids, Begin(r, p) PROVE DoneOnce'
  BY <1>5 DEF Begin
<1>6. ASSUME NEW r \in Runs,
             Open(r) \/ Read(r) \/ TakeOver(r) \/ Refuse(r) \/ Unlink(r) \/ Create(r)
               \/ Name(r) \/ Stop(r)
      PROVE  DoneOnce'
  BY <1>6 DEF Open, Read, TakeOver, Refuse, Unlink, Create, Name, Stop, GoOn, End
<1> QED
  BY <1>1, <1>2, <1>3, <1>4, <1>5, <1>6 DEF BatchNext, Step

\* A row that is written stays, and what has none is still to do.
LEMMA StepCovered == BatchTypeOK /\ Covered /\ [BatchNext]_batchVars => Covered'
<1> SUFFICES ASSUME BatchTypeOK, Covered, [BatchNext]_batchVars PROVE Covered'
  OBVIOUS
<1> USE DEF BatchTypeOK, Covered, DoneMeansDone, Written
<1>1. CASE UNCHANGED batchVars
  BY <1>1 DEF batchVars
<1>2. ASSUME NEW r \in Runs, Load(r) PROVE Covered'
  BY <1>2 DEF Load, GoOn, Completed
<1>3. ASSUME NEW r \in Runs, NEW c \in Cells, WriteRow(r, c) PROVE Covered'
  <2>1. Written(c)' /\ \A d \in Cells : Written(d) => Written(d)'
    <3>1. /\ \A d \in Cells \ {c} : rows'[d] = rows[d]
          /\ rows[c].good \in 0..2 /\ rows[c].bad \in BOOLEAN
      BY <1>3 DEF WriteRow, Good, Failed
    <3>2. CASE Good(c)
      <4>1. rows'[c].good = IF rows[c].good = 2 THEN 2 ELSE rows[c].good + 1
        BY <3>2 DEF Good
      <4>2. rows'[c].good > 0
        BY <3>1, <4>1
      <4> QED
        BY <3>1, <4>2
    <3>3. CASE Failed(c)
      <4>1. rows'[c].bad
        BY <3>3 DEF Failed
      <4> QED
        BY <3>1, <4>1
    <3> QED
      BY <1>3, <3>2, <3>3 DEF WriteRow
  <2>2. \A s \in Runs : \A d \in todo[s] : d \in todo'[s] \/ d = c
    BY <1>3 DEF WriteRow
  <2> QED
    BY <1>3, <2>1, <2>2 DEF WriteRow
<1>4. ASSUME NEW r \in Runs, Leave(r) PROVE Covered'
  BY <1>4 DEF Leave, End, Outcome
<1>5. ASSUME NEW r \in Runs, NEW p \in Pids, Begin(r, p) PROVE Covered'
  BY <1>5 DEF Begin
<1>6. ASSUME NEW r \in Runs,
             Open(r) \/ Read(r) \/ TakeOver(r) \/ Refuse(r) \/ Unlink(r) \/ Create(r)
               \/ Name(r) \/ Stop(r) \/ Kill(r)
      PROVE  Covered'
  BY <1>6 DEF Open, Read, TakeOver, Refuse, Unlink, Create, Name, Stop, Kill, GoOn, End
<1> QED
  BY <1>1, <1>2, <1>3, <1>4, <1>5, <1>6 DEF BatchNext, Step

\* Only a kill takes an owner away from its lock.
LEMMA StepKept == BatchTypeOK /\ Kept /\ [BatchNext]_batchVars => Kept'
<1> SUFFICES ASSUME BatchTypeOK, Kept, [BatchNext]_batchVars PROVE Kept'
  OBVIOUS
<1> USE DEF BatchTypeOK, Kept, Owning, Ended, Locks, Unsigned
<1>1. CASE UNCHANGED batchVars
  BY <1>1 DEF batchVars
<1>2. ASSUME NEW r \in Runs, Open(r) \/ Create(r) \/ Unlink(r) PROVE Kept'
  BY <1>2 DEF Open, Create, Unlink, GoOn, End
<1>3. ASSUME NEW r \in Runs, Name(r) PROVE Kept'
  BY <1>3 DEF Name, GoOn
<1>4. ASSUME NEW r \in Runs, Leave(r) PROVE Kept'
  BY <1>4 DEF Leave, LockAfter
<1>5. ASSUME NEW r \in Runs, Kill(r) PROVE Kept'
  BY <1>5 DEF Kill
<1>6. ASSUME NEW r \in Runs, Read(r) \/ TakeOver(r) \/ Refuse(r) \/ Load(r) \/ Stop(r)
      PROVE  Kept'
  BY <1>6 DEF Read, TakeOver, Refuse, Load, Stop, GoOn, End
<1>7. ASSUME NEW r \in Runs, NEW c \in Cells, WriteRow(r, c) PROVE Kept'
  BY <1>7 DEF WriteRow
<1>8. ASSUME NEW r \in Runs, NEW p \in Pids, Begin(r, p) PROVE Kept'
  BY <1>8 DEF Begin
<1> QED
  BY <1>1, <1>2, <1>3, <1>4, <1>5, <1>6, <1>7, <1>8 DEF BatchNext, Step
-----------------------------------------------------------------------------
Inv == BatchTypeOK /\ OwnPid /\ (~raced => InTurn /\ DoneOnce) /\ Covered /\ Kept

LEMMA Invariant == BatchSpec => []Inv
<1>1. BatchInit => Inv
  <2> SUFFICES ASSUME BatchInit PROVE Inv
    OBVIOUS
  <2>1. BatchTypeOK
    BY InitTyped
  <2>2. OwnPid /\ InTurn
    BY DEF BatchInit, OwnPid, InTurn, Alive, Taking, Owning
  <2>3. DoneOnce /\ Covered /\ Kept
    BY DEF BatchInit, DoneOnce, Covered, DoneMeansDone, Kept
  <2> QED
    BY <2>1, <2>2, <2>3 DEF Inv
<1>2. Inv /\ [BatchNext]_batchVars => Inv'
  BY StepTyped, StepOwnPid, StepInTurn, StepDoneOnce, StepCovered, StepKept DEF Inv
<1> QED
  BY <1>1, <1>2, PTL DEF BatchSpec

\* The state of the batch keeps its types, however many runs there are.
THEOREM ExperimentTyped == BatchSpec => []BatchTypeOK
<1>1. Inv => BatchTypeOK
  BY DEF Inv
<1> QED
  BY Invariant, <1>1, PTL

\* _exclusive keeps its promise to every owner, as long as no process begins
\* while another is taking the lock.
THEOREM ExperimentOwned == BatchSpec => []SoleOwner
<1>1. Inv => SoleOwner
  BY DEF Inv, InTurn, SoleOwner
<1> QED
  BY Invariant, <1>1, PTL

\* Then no cell gets two good rows, whoever is killed.
THEOREM ExperimentOnce == BatchSpec => []NothingTwice
<1>1. Inv => NothingTwice
  BY DEF Inv, DoneOnce, NothingTwice
<1> QED
  BY Invariant, <1>1, PTL

\* A run that comes to its end leaves no cell without a row, even in a race.
THEOREM ExperimentDone == BatchSpec => []DoneMeansDone
<1>1. Inv => DoneMeansDone
  BY DEF Inv, Covered
<1> QED
  BY Invariant, <1>1, PTL

\* Without a kill no lock outlives its owner, even in a race.
THEOREM ExperimentUnlocked == BatchSpec => []NoLockLeft
<1>1. Inv => NoLockLeft
  <2> SUFFICES ASSUME Inv, kills = 0, \A r \in Runs : at[r] \in Ended, lock # Free PROVE FALSE
    BY DEF NoLockLeft
  <2>1. lock.by \in Runs /\ at[lock.by] \in Owning
    BY DEF Inv, BatchTypeOK, Locks, Kept
  <2> QED
    BY <2>1 DEF Owning, Ended
<1> QED
  BY Invariant, <1>1, PTL

\* As long as no process begins while another is taking the lock, there is one owner
\* and one good row for each cell, whoever is killed.
THEOREM ExperimentOwnedAndOnce == BatchSpec => []OwnedAndOnce
<1>1. SoleOwner /\ NothingTwice => OwnedAndOnce
  BY DEF OwnedAndOnce
<1> QED
  BY <1>1, ExperimentOwned, ExperimentOnce, PTL

\* A run that comes to its end leaves no cell without a row, and without a kill no
\* lock, even in a race.
THEOREM ExperimentLeavesTruthfully == BatchSpec => []LeavesTruthfully
<1>1. DoneMeansDone /\ NoLockLeft => LeavesTruthfully
  BY DEF LeavesTruthfully
<1> QED
  BY <1>1, ExperimentDone, ExperimentUnlocked, PTL
=============================================================================
