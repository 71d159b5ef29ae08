------------------------------- MODULE Experiment -------------------------------
(***************************************************************************)
(* The batch: run_experiment of engine/autoopt/experiment.py, as often as  *)
(* somebody starts it on one output file.  A run is a process; each of its *)
(* steps is one system call on the lock file or one row appended.          *)
(*                                                                         *)
(* What a cell computes is left out: a row is good, or says that the cell  *)
(* raised.  Every run resumes (resume=True), and a row is written whole.   *)
(***************************************************************************)
EXTENDS Naturals, FiniteSets

CONSTANTS
  Runs,       \* places for a process that runs the batch; a new one may take the
              \* place of one that has ended
  Pids,       \* process ids
  Strangers,  \* process ids that other programs may have meanwhile
  Cells,      \* (program, method, budget)
  Free,       \* no lock file
  NoPid,      \* what int() cannot read: the lock file of a run that has not signed it
  MaxKills    \* bound on processes that are killed

ASSUME PidAssumption == NoPid \notin Pids /\ Strangers \subseteq Pids
ASSUME FreeAssumption == Free \notin [by : Runs, pid : Pids \cup {NoPid}]
ASSUME KillsAssumption == MaxKills \in Nat

VARIABLES
  lock,   \* the lock file: which run made it, and the pid written in it
  at,     \* at[r]: where the process is, or how it ended
  pid,    \* pid[r]: the process id of a process that has begun and not ended
  held,   \* held[r]: what it read in a lock file that was there first, until it acts on it
  todo,   \* todo[r]: cells, less those it found in the file and those it wrote
  rows,   \* rows[c]: good rows of c in the file (capped at 2), and whether it has a failure row
  kills,  \* processes killed so far
  raced   \* history: two processes were taking the lock at the same time

batchVars == <<lock, at, pid, held, todo, rows, kills, raced>>

Taking == {"open", "read", "probe", "unlink", "create", "name"}
Owning == {"name", "load", "work", "leave"}
Alive == Taking \cup Owning
Ended == {"idle", "done", "stopped", "refused", "failed", "killed"}

Locks == [by : Runs, pid : Pids \cup {NoPid}]

BatchTypeOK ==
  /\ lock \in Locks \cup {Free}
  /\ at \in [Runs -> Alive \cup Ended]
  /\ pid \in [Runs -> Pids \cup {NoPid}]
  /\ held \in [Runs -> Pids \cup {NoPid}]
  /\ todo \in [Runs -> SUBSET Cells]
  /\ rows \in [Cells -> [good : 0..2, bad : BOOLEAN]]
  /\ kills \in 0..MaxKills
  /\ raced \in BOOLEAN

BatchInit ==
  /\ lock = Free
  /\ at = [r \in Runs |-> "idle"]
  /\ pid = [r \in Runs |-> NoPid]
  /\ held = [r \in Runs |-> NoPid]
  /\ todo = [r \in Runs |-> {}]
  /\ rows = [c \in Cells |-> [good |-> 0, bad |-> FALSE]]
  /\ kills = 0
  /\ raced = FALSE
-----------------------------------------------------------------------------
GoOn(r, step) == at' = [at EXCEPT ![r] = step] /\ UNCHANGED pid

\* The process ends, and its id is free.
End(r, how) ==
  /\ at' = [at EXCEPT ![r] = how]
  /\ pid' = [pid EXCEPT ![r] = NoPid]

Live(p) == \E r \in Runs : at[r] \in Alive /\ pid[r] = p

\* A process starts, with the id of no other.
Begin(r, p) ==
  /\ at[r] \in Ended
  /\ ~Live(p)
  /\ at' = [at EXCEPT ![r] = "open"]
  /\ pid' = [pid EXCEPT ![r] = p]
  /\ raced' = (raced \/ \E s \in Runs : at[s] \in Taking)
  /\ UNCHANGED <<lock, held, todo, rows, kills>>
-----------------------------------------------------------------------------
(* _exclusive *)

Unsigned(r) == [by |-> r, pid |-> NoPid]

\* os.open with O_CREAT and O_EXCL.
Open(r) ==
  /\ at[r] = "open"
  /\ IF lock = Free THEN lock' = Unsigned(r) /\ GoOn(r, "name")
     ELSE UNCHANGED lock /\ GoOn(r, "read")
  /\ UNCHANGED <<held, todo, rows, kills, raced>>

\* read_text: raises if the file has gone meanwhile.
Read(r) ==
  /\ at[r] = "read"
  /\ IF lock = Free THEN End(r, "failed") /\ UNCHANGED held
     ELSE GoOn(r, "probe") /\ held' = [held EXCEPT ![r] = lock.pid]
  /\ UNCHANGED <<lock, todo, rows, kills, raced>>

\* Bug: a lock that names nobody is waited for.
HolderGone_Signed(p) == p # NoPid /\ ~Live(p)

\* Bug: every lock is taken for one left behind.
HolderGone_Always(p) == TRUE

\* _holder_gone.  A process finds itself alive, too.
HolderGone(p) == p = NoPid \/ ~Live(p)

\* The id belongs to a process that is no run.
StrangerHas(p) == p \in Strangers /\ ~Live(p)

TakeOver(r) ==
  /\ at[r] = "probe" /\ HolderGone(held[r])
  /\ GoOn(r, "unlink")
  /\ held' = [held EXCEPT ![r] = NoPid]
  /\ UNCHANGED <<lock, todo, rows, kills, raced>>

Refuse(r) ==
  /\ at[r] = "probe" /\ (~HolderGone(held[r]) \/ StrangerHas(held[r]))
  /\ End(r, "refused")
  /\ held' = [held EXCEPT ![r] = NoPid]
  /\ UNCHANGED <<lock, todo, rows, kills, raced>>

\* unlink takes away whatever file has the name by now.
Unlink(r) ==
  /\ at[r] = "unlink"
  /\ lock' = Free
  /\ GoOn(r, "create")
  /\ UNCHANGED <<held, todo, rows, kills, raced>>

\* The second os.open, outside the try: it raises if the file is there.
Create(r) ==
  /\ at[r] = "create"
  /\ IF lock = Free THEN lock' = Unsigned(r) /\ GoOn(r, "name")
     ELSE UNCHANGED lock /\ End(r, "failed")
  /\ UNCHANGED <<held, todo, rows, kills, raced>>

\* os.write goes to the file this process made, whether it has a name still or not.
Name(r) ==
  /\ at[r] = "name"
  /\ lock' = IF lock # Free /\ lock.by = r THEN [lock EXCEPT !.pid = pid[r]] ELSE lock
  /\ GoOn(r, "load")
  /\ UNCHANGED <<held, todo, rows, kills, raced>>

\* Bug: the lock is given back only after the last cell.
LockAfter_Success(r) == IF todo[r] = {} THEN Free ELSE lock
LockAfter(r) == Free

\* Bug: an exhausted provider ends the batch as if it were finished.
Outcome_Quiet(r) == "done"
Outcome(r) == IF todo[r] = {} THEN "done" ELSE "stopped"

\* The finally block takes away whatever file has the name.
Leave(r) ==
  /\ at[r] = "leave"
  /\ lock' = LockAfter(r)
  /\ End(r, Outcome(r))
  /\ todo' = [todo EXCEPT ![r] = {}]
  /\ UNCHANGED <<held, rows, kills, raced>>
-----------------------------------------------------------------------------
(* _run_experiment *)

\* _completed_cells: a failure row leaves node_budget blank, so its cell is not
\* among those that need not be done again.
Written(c) == rows[c].good > 0 \/ rows[c].bad

Completed == {c \in Cells : rows[c].good > 0}

Load(r) ==
  /\ at[r] = "load"
  /\ todo' = [todo EXCEPT ![r] = Cells \ Completed]
  /\ GoOn(r, "work")
  /\ UNCHANGED <<lock, held, rows, kills, raced>>

Good(c) == rows' = [rows EXCEPT ![c].good = IF @ = 2 THEN 2 ELSE @ + 1]
Failed(c) == rows' = [rows EXCEPT ![c].bad = TRUE]

\* A cell is worked out, or raises; one bad cell does not lose the batch.
WriteRow(r, c) ==
  /\ at[r] = "work" /\ c \in todo[r]
  /\ Good(c) \/ Failed(c)
  /\ todo' = [todo EXCEPT ![r] = @ \ {c}]
  /\ UNCHANGED <<lock, at, pid, held, kills, raced>>

\* The last cell is written, or no provider is left to ask.
Stop(r) ==
  /\ at[r] = "work"
  /\ GoOn(r, "leave")
  /\ UNCHANGED <<lock, held, todo, rows, kills, raced>>

Kill(r) ==
  /\ at[r] \in Alive /\ kills < MaxKills
  /\ End(r, "killed")
  /\ kills' = kills + 1
  /\ held' = [held EXCEPT ![r] = NoPid]
  /\ todo' = [todo EXCEPT ![r] = {}]
  /\ UNCHANGED <<lock, rows, raced>>
-----------------------------------------------------------------------------
Step(r) ==
  \/ Open(r) \/ Read(r) \/ TakeOver(r) \/ Refuse(r) \/ Unlink(r) \/ Create(r) \/ Name(r)
  \/ Load(r) \/ (\E c \in Cells : WriteRow(r, c)) \/ Stop(r) \/ Leave(r)

BatchNext == \E r \in Runs : Step(r) \/ Kill(r) \/ \E p \in Pids : Begin(r, p)

BatchSpec == BatchInit /\ [][BatchNext]_batchVars
-----------------------------------------------------------------------------
(* Properties *)

\* "One run per output file" (experiment.py:358), as long as no two processes
\* take the lock at the same time: whoever is killed, and wherever, the lock it
\* leaves is taken over by one process, and a live owner's is not.
SoleOwner ==
  ~raced => \A r, s \in Runs : at[r] \in Owning /\ at[s] \in Owning => r = s

\* Then no cell is worked out twice, however often the batch is killed and
\* resumed; failures excepted.
NothingTwice == ~raced => \A c \in Cells : rows[c].good <= 1

\* Even if processes race: one that comes to its end has left no cell without a
\* row, its own or another's.
DoneMeansDone == \A r \in Runs : at[r] = "done" => \A c \in Cells : Written(c)

\* Even if processes race and unlink each other's locks: unless one was killed,
\* no lock outlives the last of them.
NoLockLeft == kills = 0 /\ (\A r \in Runs : at[r] \in Ended) => lock = Free

\* Nobody owns the file, and yet the lock names a live process.
Mistaken == lock # Free /\ Live(lock.pid) /\ \A r \in Runs : at[r] \notin Owning

Finished == \A c \in Cells : Written(c)

\* One owner at a time, and so one good row for each cell.
OwnedAndOnce == SoleOwner /\ NothingTwice

\* A run that ends leaves every cell with a row, and no lock behind.
LeavesTruthfully == DoneMeansDone /\ NoLockLeft
=============================================================================
