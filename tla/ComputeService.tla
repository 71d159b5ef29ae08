--------------------------- MODULE ComputeService ---------------------------
(***************************************************************************)
(* The compute service: service/autoopt_service/streaming.py and the       *)
(* handlers of app.py that share its slots.  Each optimize request has a   *)
(* coroutine that drains an outbox and a thread that runs the engine and   *)
(* fills it; they share the stop flag and the failure list.  A step of the *)
(* coroutine is what runs between two awaits; the thread's steps are its   *)
(* uses of what is shared.                                                 *)
(***************************************************************************)
EXTENDS Naturals, FiniteSets, Sequences, SequencesExt

CONSTANTS
  Streams,    \* requests to /optimize
  Analyses,   \* requests to /analyze
  Probes,     \* requests to /ready
  Capacity,   \* AUTOOPT_MAX_CONCURRENT_REQUESTS
  QueueSize,  \* QUEUE_SIZE
  LogLength,  \* events of a complete run; the last is run_converged
  EarlyDrop   \* whether the server may drop a response it never iterated

Requests == Streams \cup Analyses \cup Probes
Done == 0
Items == 1..LogLength
Causes == {"engine", "timeout"}

ASSUME RequestAssumption ==
  Streams \cap Analyses = {} /\ Streams \cap Probes = {} /\ Analyses \cap Probes = {}
ASSUME SizeAssumption == Capacity \in Nat \ {0} /\ QueueSize \in Nat \ {0} /\ LogLength \in Nat \ {0}
ASSUME DropAssumption == EarlyDrop \in BOOLEAN

VARIABLES
  free,      \* the semaphore's counter
  answer,    \* answer[r]: what the handler of r is doing, or how it ended
  thread,    \* thread[r]: what the thread working for r is doing
  outbox,    \* outbox[r]: the queue between the thread and the coroutine
  made,      \* made[r]: events the engine of r has put out
  stopped,   \* stopped[r]: the coroutine's ThreadEvent
  late,      \* late[r]: the deadline of r has passed
  failure,   \* failure[r]: why r failed, in the order the causes were appended
  timedOut,  \* timedOut[r]: the coroutine saw the deadline
  sent,      \* sent[r]: the engine events the client was sent
  lastLine   \* lastLine[r]: the cause in the run_failed line, or "none"

run == <<outbox, made, failure>>
stream == <<stopped, timedOut, sent, lastLine>>
serviceVars == <<free, answer, thread, run, stream, late>>

Answers == {"idle", "refused", "opened", "loop", "held", "tail", "closed", "dropped", "waiting",
            "ok", "timeout"}
Threads == {"none", "running", "putting", "finally", "signing", "gone"}

\* The requests that took a slot and have not given it back.
Holders == {r \in Requests : thread[r] \in {"running", "putting", "finally"} \/ answer[r] = "opened"}

SlotsTypeOK ==
  /\ free \in 0..Capacity
  /\ answer \in [Requests -> Answers]
  /\ thread \in [Requests -> Threads]
  /\ outbox \in [Streams -> Seq(Items \cup {Done})]
  /\ \A r \in Streams : Len(outbox[r]) <= QueueSize
  /\ made \in [Streams -> 0..LogLength]
  /\ stopped \in [Streams -> BOOLEAN] /\ timedOut \in [Streams -> BOOLEAN]
  /\ late \in [Requests -> BOOLEAN]
  /\ failure \in [Streams -> Seq(Causes)]
  /\ sent \in [Streams -> Seq(Items)]
  /\ lastLine \in [Streams -> Causes \cup {"none"}]

ServiceInit ==
  /\ free = Capacity
  /\ answer = [r \in Requests |-> "idle"]
  /\ thread = [r \in Requests |-> "none"]
  /\ outbox = [r \in Streams |-> <<>>]
  /\ made = [r \in Streams |-> 0]
  /\ stopped = [r \in Streams |-> FALSE]
  /\ late = [r \in Requests |-> FALSE]
  /\ failure = [r \in Streams |-> <<>>]
  /\ timedOut = [r \in Streams |-> FALSE]
  /\ sent = [r \in Streams |-> <<>>]
  /\ lastLine = [r \in Streams |-> "none"]
-----------------------------------------------------------------------------
(* Slots *)

Answer(r, a) == answer' = [answer EXCEPT ![r] = a]
Thread(r, t) == thread' = [thread EXCEPT ![r] = t]

\* SLOTS.acquire(blocking=False), or 503.
Refuse(r) ==
  /\ answer[r] = "idle" /\ free = 0
  /\ Answer(r, "refused")
  /\ UNCHANGED <<free, thread, run, stream, late>>

OpenStream(r) ==
  /\ r \in Streams /\ answer[r] = "idle" /\ free > 0
  /\ free' = free - 1
  /\ Answer(r, "opened")
  /\ UNCHANGED <<thread, run, stream, late>>

\* analyze_source hands its work to a thread; ready runs in a thread of its own
\* and does nothing but take a slot and give it back.
StartThread(r) ==
  /\ r \in Analyses \cup Probes /\ answer[r] = "idle" /\ free > 0
  /\ free' = free - 1
  /\ Answer(r, "waiting")
  /\ Thread(r, "finally")
  /\ UNCHANGED <<run, stream, late>>

\* The thread is through: the slot is back, and an answer still awaited is sent.
Returned(r) ==
  /\ r \in Analyses \cup Probes /\ thread[r] = "finally"
  /\ free' = free + 1
  /\ Thread(r, "gone")
  /\ IF answer[r] = "waiting" THEN Answer(r, "ok") ELSE UNCHANGED answer
  /\ UNCHANGED <<run, stream, late>>

\* asyncio.wait_for gives up on an analysis; its thread goes on.
FreedByTimeout_Too(r) == 1
FreedByTimeout(r) == 0

GiveUp(r) ==
  /\ r \in Analyses /\ answer[r] = "waiting" /\ late[r]
  /\ Answer(r, "timeout")
  /\ free' = free + FreedByTimeout(r)
  /\ UNCHANGED <<thread, run, stream, late>>
-----------------------------------------------------------------------------
(* The thread of a stream *)

Fails(r, cause) ==
  /\ failure' = [failure EXCEPT ![r] = Append(@, cause)]
  /\ Thread(r, "finally")

Overdue_Never(r) == FALSE
Overdue(r) == late[r]

\* sink: the stop flag, then the deadline, then one attempt to put.
Sink(r) ==
  /\ thread[r] = "running" /\ made[r] < LogLength
  /\ \/ stopped[r] /\ Thread(r, "finally") /\ UNCHANGED failure
     \/ ~stopped[r] /\ Overdue(r) /\ Fails(r, "timeout")
     \/ ~stopped[r] /\ ~Overdue(r) /\ Thread(r, "putting") /\ UNCHANGED failure
  /\ UNCHANGED <<free, answer, outbox, made, stream, late>>

HasRoom_OneMore(r) == Len(outbox[r]) <= QueueSize
HasRoom(r) == Len(outbox[r]) < QueueSize

Put(r) ==
  /\ thread[r] = "putting" /\ HasRoom(r)
  /\ outbox' = [outbox EXCEPT ![r] = Append(@, made[r] + 1)]
  /\ made' = [made EXCEPT ![r] = @ + 1]
  /\ Thread(r, "running")
  /\ UNCHANGED <<free, answer, failure, stream, late>>

MadeWhenFull_Lost(r) == made[r] + 1
MadeWhenFull(r) == made[r]

\* queue.Full after POLL_SECONDS: round the loop of sink again, same event.
PutAgain(r) ==
  /\ thread[r] = "putting" /\ ~HasRoom(r)
  /\ made' = [made EXCEPT ![r] = MadeWhenFull(r)]
  /\ Thread(r, "running")
  /\ UNCHANGED <<free, answer, outbox, failure, stream, late>>

\* The program does not parse, or the engine raises.
EngineRaises(r) ==
  /\ r \in Streams /\ thread[r] = "running" /\ made[r] < LogLength
  /\ Fails(r, "engine")
  /\ UNCHANGED <<free, answer, outbox, made, stream, late>>

EngineReturns(r) ==
  /\ r \in Streams /\ thread[r] = "running" /\ made[r] = LogLength
  /\ Thread(r, "finally")
  /\ UNCHANGED <<free, answer, run, stream, late>>

\* on_done, then the sentinel, unless nobody is draining any more.
OnDone(r) ==
  /\ r \in Streams /\ thread[r] = "finally"
  /\ free' = free + 1
  /\ Thread(r, "signing")
  /\ UNCHANGED <<answer, run, stream, late>>

SignOff(r) ==
  /\ thread[r] = "signing"
  /\ \/ HasRoom(r) /\ ~stopped[r] /\ outbox' = [outbox EXCEPT ![r] = Append(@, Done)]
     \/ stopped[r] /\ UNCHANGED outbox
  /\ Thread(r, "gone")
  /\ UNCHANGED <<free, answer, made, failure, stream, late>>
-----------------------------------------------------------------------------
(* The coroutine of a stream *)

\* The generator is iterated for the first time: only now is there a thread.
FirstIteration(r) ==
  /\ answer[r] = "opened"
  /\ Answer(r, "loop")
  /\ Thread(r, "running")
  /\ UNCHANGED <<free, run, stream, late>>

\* One turn of the loop that finds something: the deadline, the sentinel, or an
\* event, after which the generator is suspended until the client took it.
Turn(r) ==
  /\ answer[r] = "loop"
  /\ \/ /\ late[r]
        /\ timedOut' = [timedOut EXCEPT ![r] = TRUE]
        /\ stopped' = [stopped EXCEPT ![r] = TRUE]
        /\ Answer(r, "tail")
        /\ UNCHANGED <<outbox, sent>>
     \/ /\ ~late[r] /\ outbox[r] # <<>>
        /\ outbox' = [outbox EXCEPT ![r] = Tail(@)]
        /\ IF Head(outbox[r]) = Done
           THEN Answer(r, "tail") /\ UNCHANGED sent
           ELSE Answer(r, "held") /\ sent' = [sent EXCEPT ![r] = Append(@, Head(outbox[r]))]
        /\ UNCHANGED <<timedOut, stopped>>
  /\ UNCHANGED <<free, thread, made, failure, lastLine, late>>

Taken(r) ==
  /\ answer[r] = "held"
  /\ Answer(r, "loop")
  /\ UNCHANGED <<free, thread, run, stream, late>>

\* After the loop: the first cause, if there is one, is the last line.
CausesOf_Unseen(r) == failure[r]
CausesOf_Lumped(r) == IF timedOut[r] \/ failure[r] # <<>> THEN <<"timeout">> ELSE <<>>
CausesOf(r) == IF timedOut[r] THEN Append(failure[r], "timeout") ELSE failure[r]

CloseStream(r) ==
  /\ answer[r] = "tail"
  /\ lastLine' = [lastLine EXCEPT ![r] = IF CausesOf(r) = <<>> THEN "none" ELSE Head(CausesOf(r))]
  /\ stopped' = [stopped EXCEPT ![r] = TRUE]
  /\ Answer(r, "closed")
  /\ UNCHANGED <<free, thread, run, timedOut, sent, late>>

\* The client goes away: the finally block raises the flag, if the generator
\* had begun.
Disconnect(r) ==
  /\ \/ answer[r] \in {"loop", "held"} /\ stopped' = [stopped EXCEPT ![r] = TRUE]
     \/ EarlyDrop /\ answer[r] = "opened" /\ UNCHANGED stopped
  /\ Answer(r, "dropped")
  /\ UNCHANGED <<free, thread, run, timedOut, sent, lastLine, late>>

\* REQUEST_TIMEOUT_SECONDS pass.
Expire(r) ==
  /\ r \in Streams \cup Analyses /\ ~late[r]
  /\ answer[r] \in {"opened", "loop", "held", "tail", "waiting"}
  /\ late' = [late EXCEPT ![r] = TRUE]
  /\ UNCHANGED <<free, answer, thread, run, stream>>
-----------------------------------------------------------------------------
ThreadStep(r) ==
  \/ Sink(r) \/ Put(r) \/ PutAgain(r) \/ EngineRaises(r) \/ EngineReturns(r)
  \/ OnDone(r) \/ SignOff(r) \/ Returned(r)

ServerStep(r) == FirstIteration(r) \/ Turn(r) \/ CloseStream(r) \/ GiveUp(r)

ServiceNext == \E r \in Requests :
  \/ Refuse(r) \/ OpenStream(r) \/ StartThread(r)
  \/ ThreadStep(r) \/ ServerStep(r) \/ Taken(r) \/ Disconnect(r) \/ Expire(r)

\* Threads run, the event loop turns and time passes; clients owe nothing.  A
\* call of the engine between two events is bounded (the interpreter's step
\* limit, Z3's timeout), so a running thread comes back to sink.
ServiceFairness == \A r \in Requests :
  WF_serviceVars(ThreadStep(r)) /\ WF_serviceVars(ServerStep(r)) /\ WF_serviceVars(Expire(r))
-----------------------------------------------------------------------------
(* Properties *)

\* A slot is out exactly while somebody works or is about to: no path of a
\* timeout, a disconnect or a failure gives one back twice or never, and no
\* more engines run than there are slots (app.py:54-55).
SlotsAccounted == free + Cardinality(Holders) = Capacity

\* The events that wait: what is in an outbox but for the sentinel at its end.
Waiting(box) == IF box # <<>> /\ Last(box) = Done THEN Front(box) ELSE box

\* What the client was sent and what waits in the outbox are together the log
\* the engine has put out, from its beginning, in order and without gaps, through
\* the bounded outbox and its retries (streaming.py:72-81).
LogInOrder == \A r \in Streams : sent[r] \o Waiting(outbox[r]) = [i \in 1..made[r] |-> i]

\* A stream the service ends says how the run ended: the whole log, or a
\* run_failed line (streaming.py:65-66: "as the last line of the stream").
EndsWithVerdict ==
  \A r \in Streams :
    answer[r] = "closed" => lastLine[r] # "none" \/ Len(sent[r]) = LogLength

\* The line names the cause that came first: a run that failed by itself is not
\* reported as a timeout, unless the deadline passed before anybody looked.
CauseIsTrue ==
  \A r \in Streams :
    /\ lastLine[r] = "timeout" => late[r]
    /\ lastLine[r] = "engine" => made[r] < LogLength

\* What a client reads off its stream is true: a log without gaps, its end, and the cause.
StreamIsTrue == LogInOrder /\ EndsWithVerdict /\ CauseIsTrue

\* Every slot and every queue is within its bounds, and every slot has one holder.
SlotsKept == SlotsTypeOK /\ SlotsAccounted

\* Every request gives its slot back, however long its client stalls and
\* whenever it leaves (app.py:121-125, streaming.py:96-104).
SlotsReturn == Holders = {}
=============================================================================
