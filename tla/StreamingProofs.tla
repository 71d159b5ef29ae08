---------------------------- MODULE StreamingProofs ----------------------------
(***************************************************************************)
(* Theorems about the two ends of a streamed run.  The first part is about *)
(* the compute service.  A request has a coroutine and a thread, and what  *)
(* each may be doing is tied to what the other is (Paired); from that come *)
(* the slots, and with what is in the outbox and who raised which flag     *)
(* (Flow, Judged) comes what the client reads.                             *)
(* The second part is about the route and its recorder.  It relates the    *)
(* engine, the wire and the log (RecordInv): what may be on the wire, and  *)
(* in which order, follows from where the engine is; what the log says     *)
(* follows from what was read; and the rows follow from what is stored.    *)
(***************************************************************************)
EXTENDS Streaming, FiniteSetTheorems, SequenceTheorems, WellFoundedInduction, TLAPS

\* What the coroutine and the thread of a request may be doing at the same time.
Paired(r) ==
  IF r \in Streams
  THEN /\ answer[r] \in {"idle", "refused", "opened"} => thread[r] = "none"
       /\ answer[r] \in {"loop", "held", "tail", "closed"} => thread[r] # "none"
       /\ answer[r] \notin {"waiting", "ok", "timeout"}
       /\ answer[r] = "dropped" /\ thread[r] = "none" => EarlyDrop
  ELSE /\ answer[r] \in {"idle", "refused", "waiting", "ok", "timeout"}
       /\ thread[r] \in {"none", "finally", "gone"}
       /\ answer[r] \in {"idle", "refused"} <=> thread[r] = "none"
       /\ answer[r] = "waiting" => thread[r] = "finally"

\* Requests whose response the server dropped before it was iterated: nobody returns their slot.
Leaked == {r \in Requests : answer[r] = "dropped" /\ thread[r] = "none"}
Out == Holders \cup Leaked

Pairs == /\ answer \in [Requests -> Answers] /\ thread \in [Requests -> Threads]
         /\ \A r \in Requests : Paired(r)
Slots == free \in 0..Capacity /\ IsFiniteSet(Out) /\ free + Cardinality(Out) = Capacity

\* Each step is taken for one request and moves its coroutine, its thread and the slots together.
LEMMA PairsStep == Pairs /\ [ServiceNext]_serviceVars => Pairs'
<1> SUFFICES ASSUME Pairs, [ServiceNext]_serviceVars PROVE Pairs'
  OBVIOUS
<1> USE RequestAssumption DEF Pairs, Paired, Answers, Threads, Requests
<1>1. CASE UNCHANGED serviceVars
  BY <1>1 DEF serviceVars
<1>2. CASE ServiceNext
  <2>1. PICK r \in Requests :
          \/ Refuse(r) \/ OpenStream(r) \/ StartThread(r)
          \/ ThreadStep(r) \/ ServerStep(r) \/ Taken(r) \/ Disconnect(r) \/ Expire(r)
    BY <1>2 DEF ServiceNext
  <2> USE DEF Answer, Thread
  <2>2. CASE Refuse(r) \/ OpenStream(r) \/ StartThread(r)
    BY <2>2 DEF Refuse, OpenStream, StartThread
  <2>3. CASE Sink(r) \/ Put(r) \/ PutAgain(r) \/ EngineRaises(r) \/ EngineReturns(r)
    BY <2>3 DEF Sink, Put, PutAgain, EngineRaises, EngineReturns, Fails
  <2>4. CASE OnDone(r) \/ SignOff(r) \/ Returned(r)
    BY <2>4 DEF OnDone, SignOff, Returned
  <2>5. CASE FirstIteration(r) \/ CloseStream(r) \/ GiveUp(r)
    BY <2>5 DEF FirstIteration, CloseStream, GiveUp
  <2>6. CASE Turn(r)
    BY <2>6 DEF Turn
  <2>7. CASE Taken(r) \/ Disconnect(r) \/ Expire(r)
    BY <2>7, DropAssumption DEF Taken, Disconnect, Expire
  <2> QED
    BY <2>1, <2>2, <2>3, <2>4, <2>5, <2>6, <2>7 DEF ThreadStep, ServerStep
<1> QED
  BY <1>1, <1>2

\* A slot is taken by a request that holds none, and given back by one that does.
LEMMA SlotsStep == Pairs /\ Slots /\ [ServiceNext]_serviceVars => Slots'
<1> SUFFICES ASSUME Pairs, Slots, [ServiceNext]_serviceVars PROVE Slots'
  OBVIOUS
<1>0. Pairs'
  BY PairsStep
<1> DEFINE Kept == free' = free /\ Out' = Out
<1>1. CASE Kept
  BY <1>1 DEF Slots
<1>2. ASSUME NEW r \in Requests, free > 0, free' = free - 1, r \notin Out, Out' = Out \cup {r} PROVE Slots'
  <2>1. IsFiniteSet(Out') /\ Cardinality(Out') = Cardinality(Out) + 1 /\ Cardinality(Out) \in Nat
    BY <1>2, FS_AddElement, FS_CardinalityType DEF Slots
  <2> QED
    BY <1>2, <2>1, SizeAssumption DEF Slots
<1>3. ASSUME NEW r \in Requests, free' = free + 1, r \in Out, Out' = Out \ {r} PROVE Slots'
  <2>1. IsFiniteSet(Out') /\ Cardinality(Out') = Cardinality(Out) - 1 /\ Cardinality(Out') \in Nat /\ Cardinality(Out) \in Nat
    BY <1>3, FS_RemoveElement, FS_CardinalityType DEF Slots
  <2> QED
    BY <1>3, <2>1, SizeAssumption DEF Slots
<1> USE <1>0, RequestAssumption DEF Pairs, Paired, Answers, Threads, Requests, Out, Holders, Leaked
<1>4. CASE UNCHANGED serviceVars
  <2>1. Kept
    BY <1>4 DEF serviceVars
  <2> QED
    BY <1>1, <2>1
<1>5. CASE ServiceNext
  <2>1. PICK r \in Requests :
          \/ Refuse(r) \/ OpenStream(r) \/ StartThread(r)
          \/ ThreadStep(r) \/ ServerStep(r) \/ Taken(r) \/ Disconnect(r) \/ Expire(r)
    BY <1>5 DEF ServiceNext
  <2> USE DEF Answer, Thread
  <2>2. CASE OpenStream(r) \/ StartThread(r)
    <3>1. r \notin Out /\ free > 0 /\ free' = free - 1
      BY <2>2 DEF OpenStream, StartThread
    <3>2. Out' = Out \cup {r}
      BY <2>2 DEF OpenStream, StartThread
    <3> QED
      BY <1>2, <3>1, <3>2
  <2>3. CASE OnDone(r) \/ Returned(r)
    <3>1. r \in Out /\ free' = free + 1
      BY <2>3 DEF OnDone, Returned
    <3>2. Out' = Out \ {r}
      BY <2>3 DEF OnDone, Returned
    <3> QED
      BY <1>3, <3>1, <3>2
  <2>4. CASE Refuse(r) \/ Sink(r) \/ Put(r) \/ PutAgain(r) \/ EngineRaises(r) \/ EngineReturns(r) \/ SignOff(r)
    <3>1. Kept
      BY <2>4 DEF Refuse, Sink, Put, PutAgain, EngineRaises, EngineReturns, SignOff, Fails
    <3> QED
      BY <1>1, <3>1
  <2>5. CASE FirstIteration(r) \/ Turn(r) \/ CloseStream(r) \/ GiveUp(r) \/ Taken(r) \/ Disconnect(r) \/ Expire(r)
    <3>1. free' = free
      BY <2>5 DEF FirstIteration, Turn, CloseStream, GiveUp, FreedByTimeout, Taken, Disconnect, Expire, Slots
    <3>2. \A q \in Requests : q # r => answer'[q] = answer[q] /\ thread'[q] = thread[q]
      BY <2>5 DEF FirstIteration, Turn, CloseStream, GiveUp, Taken, Disconnect, Expire
    <3>3. r \in Out <=> r \in Out'
      BY <2>5 DEF FirstIteration, Turn, CloseStream, GiveUp, Taken, Disconnect, Expire
    <3> QED
      BY <1>1, <3>1, <3>2, <3>3
  <2> QED
    BY <2>1, <2>2, <2>3, <2>4, <2>5 DEF ThreadStep, ServerStep
<1> QED
  BY <1>4, <1>5

\* What the two of a stream share has its types, and the outbox its bound.
Boxes ==
  /\ outbox \in [Streams -> Seq(Items \cup {Done})] /\ \A r \in Streams : Len(outbox[r]) <= QueueSize
  /\ made \in [Streams -> 0..LogLength]
  /\ \A r \in Streams : thread[r] = "putting" => made[r] < LogLength
Flags ==
  /\ stopped \in [Streams -> BOOLEAN] /\ timedOut \in [Streams -> BOOLEAN]
  /\ late \in [Requests -> BOOLEAN]
  /\ failure \in [Streams -> Seq(Causes)]
  /\ sent \in [Streams -> Seq(Items)]
  /\ lastLine \in [Streams -> Causes \cup {"none"}]

\* Only a stream has a thread that puts and a coroutine that takes.
LEMMA StreamsOnly ==
  ASSUME Pairs, NEW r \in Requests,
         \/ Sink(r) \/ Put(r) \/ PutAgain(r) \/ SignOff(r)
         \/ FirstIteration(r) \/ Turn(r) \/ CloseStream(r) \/ Taken(r) \/ Disconnect(r)
  PROVE  r \in Streams
BY DEF Pairs, Paired, Sink, Put, PutAgain, SignOff, FirstIteration, Turn, CloseStream, Taken, Disconnect

\* What a queue holds and a client was sent are items of the log; a queue never exceeds its bound.
LEMMA BoxesStep == Pairs /\ Boxes /\ Flags /\ [ServiceNext]_serviceVars => Boxes' /\ Flags'
<1> SUFFICES ASSUME Pairs, Boxes, Flags, [ServiceNext]_serviceVars PROVE Boxes' /\ Flags'
  OBVIOUS
<1> USE SizeAssumption DEF Boxes, Flags
<1>1. CASE UNCHANGED serviceVars
  BY <1>1 DEF serviceVars, run, stream
<1>2. CASE ServiceNext
  <2>1. PICK r \in Requests :
          \/ Refuse(r) \/ OpenStream(r) \/ StartThread(r)
          \/ ThreadStep(r) \/ ServerStep(r) \/ Taken(r) \/ Disconnect(r) \/ Expire(r)
    BY <1>2 DEF ServiceNext
  <2> USE DEF Answer, Thread, run, stream, Pairs, Requests
  <2>2. CASE Refuse(r) \/ OpenStream(r) \/ StartThread(r) \/ EngineReturns(r) \/ OnDone(r) \/ Returned(r) \/ GiveUp(r)
    BY <2>2 DEF Refuse, OpenStream, StartThread, EngineReturns, OnDone, Returned, GiveUp
  <2>3. CASE Sink(r)
    <3>1. r \in Streams /\ made[r] < LogLength
      BY <2>3, StreamsOnly DEF Sink
    <3>2. Append(failure[r], "timeout") \in Seq(Causes)
      BY <3>1 DEF Causes
    <3>3. failure' \in [Streams -> Seq(Causes)]
      BY <2>3, <3>1, <3>2 DEF Sink, Fails
    <3>4. \A q \in Streams : thread'[q] = "putting" => made'[q] < LogLength
      BY <2>3, <3>1 DEF Sink, Fails
    <3> QED
      BY <2>3, <3>3, <3>4 DEF Sink
  <2>4. CASE Put(r)
    <3>1. r \in Streams /\ made[r] \in 0..LogLength /\ made[r] < LogLength /\ Len(outbox[r]) < QueueSize
      BY <2>4, StreamsOnly DEF Put, HasRoom
    <3>2. made[r] + 1 \in Items /\ made[r] + 1 \in 0..LogLength
      BY <3>1 DEF Items
    <3>3. Append(outbox[r], made[r] + 1) \in Seq(Items \cup {Done})
      BY <3>1, <3>2
    <3>4. Len(Append(outbox[r], made[r] + 1)) <= QueueSize
      BY <3>1
    <3>5. Boxes'
      <4>1. outbox' \in [Streams -> Seq(Items \cup {Done})] /\ \A q \in Streams : Len(outbox'[q]) <= QueueSize
        BY <2>4, <3>1, <3>3, <3>4 DEF Put
      <4>2. made' \in [Streams -> 0..LogLength]
        BY <2>4, <3>1, <3>2 DEF Put
      <4>3. \A q \in Streams : thread'[q] = "putting" => made'[q] < LogLength
        BY <2>4, <3>1 DEF Put
      <4> QED
        BY <4>1, <4>2, <4>3
    <3> QED
      BY <2>4, <3>5 DEF Put
  <2>5. CASE PutAgain(r)
    <3>1. r \in Streams /\ made' = made
      BY <2>5, StreamsOnly DEF PutAgain, MadeWhenFull
    <3> QED
      BY <2>5, <3>1 DEF PutAgain
  <2>6. CASE EngineRaises(r)
    <3>1. Append(failure[r], "engine") \in Seq(Causes)
      BY <2>6 DEF EngineRaises, Causes
    <3>2. failure' \in [Streams -> Seq(Causes)]
      BY <2>6, <3>1 DEF EngineRaises, Fails
    <3> QED
      BY <2>6, <3>2 DEF EngineRaises, Fails
  <2>7. CASE SignOff(r)
    <3>1. r \in Streams /\ Append(outbox[r], Done) \in Seq(Items \cup {Done})
      BY <2>7, StreamsOnly
    <3>2. outbox' # outbox => Len(outbox[r]) < QueueSize /\ outbox' = [outbox EXCEPT ![r] = Append(@, Done)]
      BY <2>7 DEF SignOff, HasRoom
    <3>3. Len(outbox[r]) < QueueSize => Len(Append(outbox[r], Done)) <= QueueSize
      BY <3>1
    <3>4. outbox' \in [Streams -> Seq(Items \cup {Done})] /\ \A q \in Streams : Len(outbox'[q]) <= QueueSize
      BY <3>1, <3>2, <3>3
    <3> QED
      BY <2>7, <3>4 DEF SignOff
  <2>8. CASE FirstIteration(r) \/ Taken(r) \/ Disconnect(r) \/ Expire(r)
    BY <2>8, StreamsOnly DEF FirstIteration, Taken, Disconnect, Expire
  <2>9. CASE Turn(r)
    <3>1. r \in Streams
      BY <2>9, StreamsOnly
    <3>2. CASE late[r]
      BY <2>9, <3>1, <3>2 DEF Turn
    <3>3. CASE ~late[r]
      <4>1. /\ outbox[r] # <<>> /\ outbox' = [outbox EXCEPT ![r] = Tail(@)]
            /\ IF Head(outbox[r]) = Done THEN sent' = sent
               ELSE sent' = [sent EXCEPT ![r] = Append(@, Head(outbox[r]))]
        BY <2>9, <3>3 DEF Turn
      <4>2. /\ Tail(outbox[r]) \in Seq(Items \cup {Done}) /\ Len(Tail(outbox[r])) <= QueueSize
            /\ Head(outbox[r]) \in Items \cup {Done}
        BY <3>1, <4>1
      <4>3. sent' \in [Streams -> Seq(Items)]
        <5>1. Head(outbox[r]) # Done => Append(sent[r], Head(outbox[r])) \in Seq(Items)
          BY <3>1, <4>2
        <5> QED
          BY <3>1, <4>1, <5>1
      <4>4. outbox' \in [Streams -> Seq(Items \cup {Done})] /\ \A q \in Streams : Len(outbox'[q]) <= QueueSize
        BY <3>1, <4>1, <4>2
      <4> QED
        BY <2>9, <3>3, <4>3, <4>4 DEF Turn
    <3> QED
      BY <3>2, <3>3
  <2>10. CASE CloseStream(r)
    <3>1. r \in Streams /\ CausesOf(r) \in Seq(Causes)
      BY <2>10, StreamsOnly DEF CausesOf, Causes
    <3>2. lastLine' \in [Streams -> Causes \cup {"none"}]
      <4>1. CausesOf(r) # <<>> => Head(CausesOf(r)) \in Causes
        BY <3>1
      <4> QED
        BY <2>10, <3>1, <4>1 DEF CloseStream
    <3> QED
      BY <2>10, <3>1, <3>2 DEF CloseStream
  <2> QED
    BY <2>1, <2>2, <2>3, <2>4, <2>5, <2>6, <2>7, <2>8, <2>9, <2>10 DEF ThreadStep, ServerStep
<1> QED
  BY <1>1, <1>2

\* The step of a request.
Of(r) ==
  \/ Refuse(r) \/ OpenStream(r) \/ StartThread(r)
  \/ ThreadStep(r) \/ ServerStep(r) \/ Taken(r) \/ Disconnect(r) \/ Expire(r)

\* It leaves the streams of the others alone.
LEMMA Others ==
  ASSUME Pairs, Boxes, Flags, NEW r \in Requests, Of(r), NEW q \in Streams, q # r
  PROVE  /\ answer'[q] = answer[q] /\ thread'[q] = thread[q] /\ outbox'[q] = outbox[q] /\ made'[q] = made[q]
         /\ stopped'[q] = stopped[q] /\ late'[q] = late[q] /\ failure'[q] = failure[q]
         /\ timedOut'[q] = timedOut[q] /\ sent'[q] = sent[q] /\ lastLine'[q] = lastLine[q]
<1> USE DEF Pairs, Boxes, Flags, Requests, Answer, Thread, run, stream
<1>1. CASE Refuse(r) \/ OpenStream(r) \/ StartThread(r)
  BY <1>1 DEF Refuse, OpenStream, StartThread
<1>2. CASE Sink(r) \/ Put(r) \/ PutAgain(r) \/ EngineRaises(r) \/ EngineReturns(r)
  BY <1>2 DEF Sink, Put, PutAgain, EngineRaises, EngineReturns, Fails
<1>3. CASE OnDone(r) \/ SignOff(r) \/ Returned(r) \/ GiveUp(r)
  BY <1>3 DEF OnDone, SignOff, Returned, GiveUp
<1>4. CASE FirstIteration(r) \/ CloseStream(r) \/ Taken(r) \/ Disconnect(r) \/ Expire(r)
  BY <1>4 DEF FirstIteration, CloseStream, Taken, Disconnect, Expire
<1>5. CASE Turn(r)
  BY <1>5 DEF Turn
<1> QED
  BY <1>1, <1>2, <1>3, <1>4, <1>5 DEF Of, ThreadStep, ServerStep

\* Only these touch what a stream has made, waits with, was sent.
LEMMA StillSteps ==
  ASSUME Pairs, Boxes, Flags, NEW r \in Streams, Of(r)
  PROVE  \/ outbox'[r] = outbox[r] /\ made'[r] = made[r] /\ sent'[r] = sent[r] /\ (thread[r] = "gone" => thread'[r] = "gone")
         \/ Put(r) \/ SignOff(r) \/ Turn(r)
<1> USE RequestAssumption DEF Pairs, Boxes, Flags, Requests, Answer, Thread, run, stream
<1>1. CASE Refuse(r) \/ OpenStream(r) \/ StartThread(r) \/ GiveUp(r) \/ Returned(r)
  BY <1>1 DEF Refuse, OpenStream, StartThread, GiveUp, Returned, Paired
<1>2. CASE Sink(r) \/ PutAgain(r) \/ EngineRaises(r) \/ EngineReturns(r) \/ OnDone(r)
  BY <1>2 DEF Sink, PutAgain, EngineRaises, EngineReturns, Fails, OnDone, MadeWhenFull
<1>3. CASE FirstIteration(r) \/ CloseStream(r) \/ Taken(r) \/ Disconnect(r) \/ Expire(r)
  BY <1>3 DEF FirstIteration, CloseStream, Taken, Disconnect, Expire, Paired
<1> QED
  BY <1>1, <1>2, <1>3 DEF Of, ThreadStep, ServerStep

\* b counts on from n, and only its last element may be the sentinel.
Closes(b) == Len(b) > 0 /\ b[Len(b)] = Done
Counts(b, n) == \A i \in 1..Len(b) : b[i] = n + i
Boxed(b, n) == \A i \in 1..Len(b) : b[i] = n + i \/ (b[i] = Done /\ i = Len(b))

LEMMA OpenBox ==
  ASSUME NEW b \in Seq(Nat), NEW n \in Nat
  PROVE  /\ Boxed(b, n) /\ ~Closes(b) => Counts(b, n)
         /\ Counts(b, n) => Boxed(b, n) /\ ~Closes(b)
<1>1. Len(b) \in Nat
  OBVIOUS
<1> QED
  BY <1>1 DEF Boxed, Closes, Counts, Done

LEMMA CountOn ==
  ASSUME NEW b \in Seq(Nat), NEW n \in Nat, Counts(b, n)
  PROVE  LET c == Append(b, n + Len(b) + 1) IN c \in Seq(Nat) /\ Len(c) = Len(b) + 1 /\ Counts(c, n)
<1> DEFINE c == Append(b, n + Len(b) + 1)
<1>1. /\ Len(b) \in Nat /\ c \in Seq(Nat) /\ Len(c) = Len(b) + 1 /\ c[Len(b) + 1] = n + Len(b) + 1
      /\ \A i \in 1..Len(b) : c[i] = b[i]
  BY AppendProperties
<1> HIDE DEF c
<1>2. Counts(c, n)
  <2> SUFFICES ASSUME NEW i \in 1..Len(c) PROVE c[i] = n + i
    BY DEF Counts
  <2>1. CASE i = Len(b) + 1
    BY <1>1, <2>1
  <2>2. CASE i \in 1..Len(b)
    BY <1>1, <2>2 DEF Counts
  <2> QED
    BY <1>1, <2>1, <2>2
<1> QED
  BY <1>1, <1>2 DEF c

LEMMA SignedOff ==
  ASSUME NEW b \in Seq(Nat), NEW n \in Nat, Counts(b, n)
  PROVE  LET c == Append(b, Done) IN Len(c) = Len(b) + 1 /\ Boxed(c, n) /\ Closes(c)
<1> DEFINE c == Append(b, Done)
<1>1. /\ Len(b) \in Nat /\ Len(c) = Len(b) + 1 /\ c[Len(b) + 1] = Done
      /\ \A i \in 1..Len(b) : c[i] = b[i]
  BY AppendProperties DEF Done
<1> HIDE DEF c
<1>2. Boxed(c, n)
  <2> SUFFICES ASSUME NEW i \in 1..Len(c) PROVE c[i] = n + i \/ (c[i] = Done /\ i = Len(c))
    BY DEF Boxed
  <2>1. CASE i = Len(b) + 1
    BY <1>1, <2>1
  <2>2. CASE i \in 1..Len(b)
    BY <1>1, <2>2 DEF Counts
  <2> QED
    BY <1>1, <2>1, <2>2
<1>3. Closes(c)
  BY <1>1 DEF Closes
<1> QED
  BY <1>1, <1>2, <1>3 DEF c

LEMMA TakenOut ==
  ASSUME NEW b \in Seq(Nat), NEW n \in Nat, Boxed(b, n), b # <<>>
  PROVE  /\ Len(Tail(b)) = Len(b) - 1 /\ Len(b) \in Nat
         /\ Head(b) = Done => Tail(b) = <<>> /\ Len(b) = 1 /\ Closes(b)
         /\ Head(b) # Done => Head(b) = n + 1 /\ Boxed(Tail(b), n + 1) /\ (Closes(Tail(b)) <=> Closes(b))
<1> DEFINE c == Tail(b)
<1>1. /\ c \in Seq(Nat) /\ Len(b) \in Nat /\ Len(b) > 0 /\ Len(c) = Len(b) - 1
      /\ Head(b) = b[1] /\ \A i \in 1..Len(b) - 1 : c[i] = b[i + 1]
  BY HeadTailProperties
<1> HIDE DEF c
<1>2. Len(c) = 0 => c = <<>>
  BY <1>1
<1>3. b[1] = n + 1 \/ (b[1] = Done /\ 1 = Len(b))
  <2>1. 1 \in 1..Len(b)
    BY <1>1
  <2> QED
    BY <2>1 DEF Boxed
<1>4. CASE Head(b) = Done
  <2>1. b[1] # n + 1
    BY <1>1, <1>4 DEF Done
  <2>2. Len(b) = 1
    BY <1>3, <2>1
  <2> QED
    BY <1>1, <1>2, <1>4, <2>2 DEF Closes, c
<1>5. CASE Head(b) # Done
  <2>1. Head(b) = n + 1
    BY <1>1, <1>3, <1>5
  <2>2. Boxed(c, n + 1)
    <3> SUFFICES ASSUME NEW i \in 1..Len(c) PROVE c[i] = n + 1 + i \/ (c[i] = Done /\ i = Len(c))
      BY DEF Boxed
    <3>1. i \in Nat /\ i \in 1..Len(b) - 1 /\ i + 1 \in 1..Len(b)
      BY <1>1
    <3>2. c[i] = b[i + 1] /\ (b[i + 1] = n + (i + 1) \/ (b[i + 1] = Done /\ i + 1 = Len(b)))
      BY <1>1, <3>1 DEF Boxed
    <3> QED
      BY <1>1, <3>1, <3>2
  <2>3. Closes(c) <=> Closes(b)
    <3>1. CASE Len(b) = 1
      BY <1>1, <1>5, <3>1 DEF Closes
    <3>2. CASE Len(b) # 1
      <4>1. Len(c) \in 1..Len(b) - 1 /\ Len(c) + 1 = Len(b)
        BY <1>1, <3>2
      <4>2. c[Len(c)] = b[Len(b)]
        BY <1>1, <4>1
      <4> QED
        BY <1>1, <4>1, <4>2 DEF Closes
    <3> QED
      BY <3>1, <3>2
  <2> QED
    BY <1>1, <1>5, <2>1, <2>2, <2>3 DEF c
<1> QED
  BY <1>4, <1>5

\* The events that wait are those after the ones sent, and the sentinel, which
\* the thread puts last of all, is behind them.
Flow(r) ==
  /\ Counts(sent[r], 0)
  /\ Boxed(outbox[r], Len(sent[r]))
  /\ made[r] = Len(sent[r]) + (IF Closes(outbox[r]) THEN Len(outbox[r]) - 1 ELSE Len(outbox[r]))
  /\ Closes(outbox[r]) => thread[r] = "gone"

\* What a stream has made was sent or waits, in order; the end comes last, put by a thread that is gone.
LEMMA FlowStep ==
  ASSUME Pairs, Boxes, Flags, \A r \in Streams : Flow(r), [ServiceNext]_serviceVars
  PROVE  \A r \in Streams : Flow(r)'
<1> SUFFICES ASSUME NEW q \in Streams PROVE Flow(q)'
  OBVIOUS
<1>1. CASE UNCHANGED serviceVars
  BY <1>1 DEF serviceVars, run, stream, Flow, Closes, Boxed, Counts
<1>2. ASSUME NEW r \in Requests, Of(r), q # r PROVE Flow(q)'
  <2>1. thread'[q] = thread[q] /\ outbox'[q] = outbox[q] /\ made'[q] = made[q] /\ sent'[q] = sent[q]
    BY <1>2, Others
  <2> QED
    BY <2>1 DEF Flow, Closes, Boxed, Counts
<1>3. ASSUME Of(q) PROVE Flow(q)'
  <2> DEFINE b == outbox[q]
             s == sent[q]
             n == Len(sent[q])
  <2>0. q \in Requests /\ b \in Seq(Nat) /\ s \in Seq(Nat)
    <3>1. Items \subseteq Nat /\ Items \cup {Done} \subseteq Nat
      BY SizeAssumption DEF Items, Done
    <3>2. b \in Seq(Items \cup {Done}) /\ s \in Seq(Items)
      BY DEF Boxes, Flags
    <3> QED
      BY <3>1, <3>2, SeqMonotonic DEF Requests
  <2>00. n \in Nat /\ Len(b) \in Nat
    BY <2>0
  <2>1. /\ Counts(s, 0) /\ Boxed(b, n) /\ (Closes(b) => thread[q] = "gone")
        /\ made[q] = n + (IF Closes(b) THEN Len(b) - 1 ELSE Len(b))
    BY DEF Flow
  <2>2. thread[q] # "gone" => Counts(b, n) /\ made[q] = n + Len(b)
    BY <2>0, <2>00, <2>1, OpenBox
  <2>3. CASE outbox'[q] = b /\ made'[q] = made[q] /\ sent'[q] = s /\ (thread[q] = "gone" => thread'[q] = "gone")
    BY <2>1, <2>3 DEF Flow, Closes, Boxed, Counts
  <2>4. CASE Put(q)
    <3>1. outbox'[q] = Append(b, made[q] + 1) /\ made'[q] = made[q] + 1 /\ sent'[q] = s /\ thread[q] # "gone"
      BY <2>4 DEF Put, Boxes, stream
    <3> DEFINE c == Append(b, n + Len(b) + 1)
    <3>2. c \in Seq(Nat) /\ Len(c) = Len(b) + 1 /\ Counts(c, n)
      BY <2>0, <2>00, <2>2, <3>1, CountOn
    <3>3. Boxed(c, n) /\ ~Closes(c)
      BY <2>00, <3>2, OpenBox
    <3>4. made[q] + 1 = n + Len(b) + 1
      BY <2>00, <2>2, <3>1
    <3>5. outbox'[q] = c
      BY <3>1, <3>4
    <3> HIDE DEF c
    <3>6. made'[q] = n + Len(c)
      <4>1. made'[q] = n + Len(b) + 1 /\ Len(c) = Len(b) + 1
        BY <3>1, <3>2, <3>4
      <4> QED
        BY <2>00, <4>1 DEF Boxes, Flags
    <3> QED
      BY <2>1, <3>1, <3>3, <3>5, <3>6 DEF Flow, Closes, Boxed, Counts
  <2>5. CASE SignOff(q) /\ outbox'[q] # b
    <3> DEFINE c == Append(b, Done)
    <3>1. /\ made'[q] = made[q] /\ sent'[q] = s /\ thread[q] # "gone" /\ thread'[q] = "gone"
          /\ outbox'[q] = c
      BY <2>0, <2>5 DEF SignOff, Boxes, stream, Thread, Pairs
    <3>2. Len(c) = Len(b) + 1 /\ Boxed(c, n) /\ Closes(c)
      BY <2>0, <2>00, <2>2, <3>1, SignedOff
    <3> HIDE DEF c
    <3>3. made'[q] = n + (Len(c) - 1)
      <4>1. made'[q] = n + Len(b) /\ Len(c) = Len(b) + 1
        BY <2>2, <3>1, <3>2
      <4> QED
        BY <2>00, <4>1
    <3> QED
      BY <2>1, <3>1, <3>2, <3>3 DEF Flow, Closes, Boxed, Counts
  <2>6. CASE Turn(q) /\ ~late[q]
    <3>1. /\ made'[q] = made[q] /\ thread'[q] = thread[q] /\ b # <<>> /\ outbox'[q] = Tail(b)
          /\ sent'[q] = IF Head(b) = Done THEN s ELSE Append(s, Head(b))
      BY <2>0, <2>6 DEF Turn, Boxes, Flags
    <3> DEFINE c == Tail(b)
    <3>2. /\ Len(c) = Len(b) - 1
          /\ Head(b) = Done => c = <<>> /\ Len(b) = 1 /\ Closes(b)
          /\ Head(b) # Done => Head(b) = n + 1 /\ Boxed(c, n + 1) /\ (Closes(c) <=> Closes(b))
      BY <2>0, <2>00, <2>1, <3>1, TakenOut
    <3> HIDE DEF c
    <3>3. outbox'[q] = c
      BY <3>1 DEF c
    <3>4. CASE Head(b) = Done
      <4>1. c = <<>> /\ made[q] = n /\ Len(b) = 1 /\ sent'[q] = s
        <5>1. c = <<>> /\ Len(b) = 1 /\ Closes(b) /\ sent'[q] = s
          BY <3>1, <3>2, <3>4
        <5>2. made[q] = n + (1 - 1)
          BY <2>1, <5>1
        <5> QED
          BY <2>00, <5>1, <5>2
      <4>2. Boxed(<<>>, n) /\ ~Closes(<<>>) /\ Len(<<>>) = 0
        BY DEF Boxed, Closes
      <4> QED
        <5>1. made'[q] = n + 0 /\ sent'[q] = s /\ outbox'[q] = <<>>
          <6>1. n + 0 = n
            BY <2>00 DEF Flags
          <6> QED
            BY <3>1, <3>3, <4>1, <6>1
        <5> QED
          BY <2>1, <4>2, <5>1 DEF Flow, Closes, Boxed, Counts
    <3>5. CASE Head(b) # Done
      <4> DEFINE t == Append(s, n + 1)
      <4>1. sent'[q] = t
        BY <3>1, <3>2, <3>5
      <4>2. Len(t) = n + 1 /\ Counts(t, 0)
        <5>1. 0 + Len(s) + 1 = n + 1
          BY <2>00
        <5> QED
          BY <2>0, <2>1, <5>1, CountOn
      <4> HIDE DEF t
      <4>3. made'[q] = Len(t) + (IF Closes(c) THEN Len(c) - 1 ELSE Len(c))
        <5>1. made'[q] = n + (IF Closes(c) THEN Len(b) - 1 ELSE Len(b)) /\ Len(c) = Len(b) - 1
          BY <2>1, <3>1, <3>2, <3>5
        <5>2. made'[q] = (n + 1) + (IF Closes(c) THEN Len(c) - 1 ELSE Len(c))
          <6>1. n + Len(b) = n + 1 + Len(c) /\ n + (Len(b) - 1) = n + 1 + (Len(c) - 1)
            BY <2>00, <5>1 DEF Boxes, Flags
          <6> QED
            BY <5>1, <6>1
        <5> QED
          BY <4>2, <5>2
      <4>4. Counts(t, 0) /\ Boxed(c, Len(t)) /\ (Closes(c) => thread'[q] = "gone")
        BY <2>1, <3>1, <3>2, <3>5, <4>2
      <4> QED
        BY <3>3, <4>1, <4>3, <4>4 DEF Flow, Closes, Boxed, Counts
    <3> QED
      BY <3>4, <3>5
  <2>7. CASE (Turn(q) /\ late[q]) \/ (SignOff(q) /\ outbox'[q] = b)
    <3>1. outbox'[q] = b /\ made'[q] = made[q] /\ sent'[q] = s /\ (thread[q] = "gone" => thread'[q] = "gone")
      BY <2>0, <2>7 DEF Turn, SignOff, Boxes, stream, Thread, Pairs
    <3> QED
      BY <2>3, <3>1
  <2> QED
    BY <1>3, <2>3, <2>4, <2>5, <2>6, <2>7, StillSteps
<1> QED
  BY <1>1, <1>2, <1>3 DEF ServiceNext, Of

\* Who raised the flag, what the failure list can hold and when, and what the
\* coroutine knows when it closes the stream.
Judged(r) ==
  /\ answer[r] \in {"idle", "refused", "opened", "loop", "held"} => ~stopped[r] /\ ~timedOut[r]
  /\ \/ failure[r] = <<>>
     \/ failure[r] = <<"engine">> /\ made[r] < LogLength
     \/ failure[r] = <<"timeout">> /\ late[r]
  /\ failure[r] # <<>> => thread[r] \in {"finally", "signing", "gone"}
  /\ thread[r] \in {"finally", "signing", "gone"} => stopped[r] \/ failure[r] # <<>> \/ made[r] = LogLength
  /\ timedOut[r] => late[r]
  /\ answer[r] = "tail" /\ ~timedOut[r] => thread[r] = "gone" /\ outbox[r] = <<>> /\ ~stopped[r]
  /\ answer[r] # "closed" => lastLine[r] = "none"
  /\ lastLine[r] = "engine" => failure[r] = <<"engine">>
  /\ lastLine[r] = "timeout" => late[r]
  /\ answer[r] = "closed" => lastLine[r] # "none" \/ Len(sent[r]) = LogLength

\* A flag is raised for a cause, and the last line names one that is true.
LEMMA JudgedStep ==
  ASSUME Pairs, Boxes, Flags, \A r \in Streams : Flow(r), \A r \in Streams : Judged(r), [ServiceNext]_serviceVars
  PROVE  \A r \in Streams : Judged(r)'
<1> SUFFICES ASSUME NEW q \in Streams PROVE Judged(q)'
  OBVIOUS
<1>1. CASE UNCHANGED serviceVars
  BY <1>1 DEF serviceVars, run, stream, Judged
<1>2. ASSUME NEW r \in Requests, Of(r), q # r PROVE Judged(q)'
  <2>1. /\ answer'[q] = answer[q] /\ thread'[q] = thread[q] /\ outbox'[q] = outbox[q] /\ made'[q] = made[q]
        /\ stopped'[q] = stopped[q] /\ late'[q] = late[q] /\ failure'[q] = failure[q]
        /\ timedOut'[q] = timedOut[q] /\ sent'[q] = sent[q] /\ lastLine'[q] = lastLine[q]
    BY <1>2, Others
  <2> QED
    BY <2>1 DEF Judged
<1>3. ASSUME Of(q) PROVE Judged(q)'
  <2>0. Judged(q) /\ Flow(q) /\ Paired(q) /\ q \in Requests /\ Pairs'
    BY <1>3, PairsStep DEF Pairs, Requests
  <2> USE DEF Judged, Answer, Thread, run, stream
  <2>1. CASE Refuse(q) \/ OpenStream(q) \/ FirstIteration(q) \/ OnDone(q) \/ Taken(q) \/ Expire(q) \/ Disconnect(q)
    BY <2>0, <2>1 DEF Refuse, OpenStream, FirstIteration, OnDone, Taken, Expire, Disconnect, Pairs, Boxes, Flags, Paired
  <2>2. ~StartThread(q) /\ ~Returned(q) /\ ~GiveUp(q)
    BY RequestAssumption DEF StartThread, Returned, GiveUp
  <2>3. CASE Sink(q) \/ EngineRaises(q) \/ EngineReturns(q)
    <3>1. thread[q] = "running" /\ failure[q] = <<>>
      BY <2>0, <2>3 DEF Sink, EngineRaises, EngineReturns
    <3>2. \A c : Append(failure[q], c) = <<c>>
      BY <3>1
    <3> QED
      <4>1. CASE EngineReturns(q)
        BY <2>0, <3>1, <4>1 DEF EngineReturns, Pairs
      <4>2. CASE EngineRaises(q)
        <5>1. failure'[q] = <<"engine">> /\ thread'[q] = "finally"
          BY <2>0, <3>2, <4>2 DEF EngineRaises, Fails, Pairs, Flags
        <5> QED
          BY <2>0, <4>2, <5>1 DEF EngineRaises
      <4>3. CASE Sink(q) /\ (stopped[q] \/ ~Overdue(q))
        BY <2>0, <3>1, <4>3 DEF Sink, Fails, Pairs
      <4>4. CASE Sink(q) /\ ~stopped[q] /\ Overdue(q)
        <5>1. failure'[q] = <<"timeout">> /\ thread'[q] = "finally" /\ late[q]
          BY <2>0, <3>2, <4>4 DEF Sink, Overdue, Fails, Pairs, Flags
        <5> QED
          BY <2>0, <4>4, <5>1 DEF Sink
      <4> QED
        BY <2>3, <4>1, <4>2, <4>3, <4>4
  <2>4. CASE Put(q) \/ PutAgain(q)
    BY <2>0, <2>4 DEF Put, PutAgain, MadeWhenFull, Pairs, Boxes, Paired
  <2>5. CASE SignOff(q)
    BY <2>0, <2>5 DEF SignOff, Pairs, Boxes, Paired
  <2>6. CASE Turn(q) /\ late[q]
    BY <2>0, <2>6 DEF Turn, Pairs, Flags
  <2>7. CASE Turn(q) /\ ~late[q]
    <3>1. /\ outbox[q] # <<>> /\ outbox'[q] = Tail(outbox[q])
          /\ IF Head(outbox[q]) = Done THEN answer'[q] = "tail" ELSE answer'[q] = "held"
      BY <2>0, <2>7 DEF Turn, Pairs, Boxes
    <3>2. Head(outbox[q]) = Done => outbox'[q] = <<>> /\ thread[q] = "gone"
      <4>1. outbox[q] \in Seq(Nat) /\ Len(sent[q]) \in Nat
        <5>1. Items \cup {Done} \subseteq Nat
          BY SizeAssumption DEF Items, Done
        <5>2. outbox[q] \in Seq(Items \cup {Done}) /\ sent[q] \in Seq(Items)
          BY DEF Boxes, Flags
        <5> QED
          BY <5>1, <5>2, SeqMonotonic
      <4> QED
        BY <2>0, <3>1, <4>1, TakenOut DEF Flow
    <3> QED
      BY <2>0, <2>7, <3>1, <3>2 DEF Turn, Flags
  <2>8. CASE CloseStream(q)
    <3>1. answer[q] = "tail" /\ answer'[q] = "closed" /\ stopped'[q] = TRUE
      BY <2>0, <2>8 DEF CloseStream, Pairs, Flags
    <3>2. lastLine'[q] = IF CausesOf(q) = <<>> THEN "none" ELSE Head(CausesOf(q))
      BY <2>8 DEF CloseStream, Flags
    <3>3. CASE failure[q] # <<>>
      <4>1. \A c : Head(<<c>>) = c /\ Append(<<c>>, "timeout") # <<>> /\ Head(Append(<<c>>, "timeout")) = c /\ <<c>> # <<>>
        OBVIOUS
      <4>2. lastLine'[q] = failure[q][1] /\ failure[q] = <<failure[q][1]>>
        BY <2>0, <3>2, <3>3, <4>1 DEF CausesOf
      <4> QED
        BY <2>0, <2>8, <3>1, <3>3, <4>2 DEF CloseStream
    <3>4. CASE failure[q] = <<>> /\ timedOut[q]
      <4>1. lastLine'[q] = "timeout"
        BY <3>2, <3>4 DEF CausesOf
      <4> QED
        BY <2>0, <2>8, <3>1, <3>4, <4>1 DEF CloseStream
    <3>5. CASE failure[q] = <<>> /\ ~timedOut[q]
      <4>1. lastLine'[q] = "none"
        BY <3>2, <3>5 DEF CausesOf
      <4>2. made[q] = LogLength /\ outbox[q] = <<>>
        BY <2>0, <3>1, <3>5
      <4>3. ~Closes(<<>>) /\ Len(<<>>) = 0 /\ Len(sent[q]) + 0 = Len(sent[q])
        <5>1. Len(sent[q]) \in Nat
          BY DEF Flags
        <5> QED
          BY <5>1 DEF Closes, Flags
      <4>4. Len(sent[q]) = LogLength
        BY <2>0, <4>2, <4>3 DEF Flow
      <4> QED
        BY <2>0, <2>8, <3>1, <3>5, <4>1, <4>4 DEF CloseStream
    <3> QED
      BY <3>3, <3>4, <3>5
  <2> QED
    BY <1>3, <2>1, <2>2, <2>3, <2>4, <2>5, <2>6, <2>7, <2>8 DEF Of, ThreadStep, ServerStep
<1> QED
  BY <1>1, <1>2, <1>3 DEF ServiceNext, Of

\* What was sent and what waits are the log as far as it goes.
LEMMA InOrder ==
  ASSUME NEW s \in Seq(Nat), NEW b \in Seq(Nat), NEW m,
         Counts(s, 0), Boxed(b, Len(s)), m = Len(s) + (IF Closes(b) THEN Len(b) - 1 ELSE Len(b))
  PROVE  s \o Waiting(b) = [i \in 1..m |-> i]
<1> DEFINE c == Waiting(b)
           n == Len(s)
<1>0. n \in Nat /\ Len(b) \in Nat
  OBVIOUS
<1>1. c \in Seq(Nat) /\ Len(c) = (IF Closes(b) THEN Len(b) - 1 ELSE Len(b)) /\ \A i \in 1..Len(c) : c[i] = n + i
  <2>1. CASE Closes(b)
    <3>1. c = SubSeq(b, 1, Len(b) - 1) /\ Len(b) - 1 \in Nat /\ Len(b) > 0
      BY <1>0, <2>1 DEF Closes, Waiting, Last, Front
    <3>2. c \in Seq(Nat) /\ Len(c) = Len(b) - 1 /\ \A i \in 1..Len(b) - 1 : c[i] = b[i]
      <4>1. 1 \in Int /\ Len(b) - 1 \in Int /\ \A i \in 1..Len(b) - 1 : b[i] \in Nat
        BY <1>0
      <4>2. /\ c \in Seq(Nat) /\ Len(c) = IF 1 <= Len(b) - 1 THEN Len(b) - 1 - 1 + 1 ELSE 0
            /\ \A i \in 1..Len(b) - 1 - 1 + 1 : c[i] = b[1 + i - 1]
        BY <3>1, <4>1, SubSeqProperties
      <4> HIDE DEF c
      <4>3. 1..Len(b) - 1 - 1 + 1 = 1..Len(b) - 1 /\ \A i \in 1..Len(b) - 1 : 1 + i - 1 = i
        BY <1>0
      <4> QED
        <5>1. Len(c) = Len(b) - 1
          <6>1. Len(b) > 0 /\ Len(c) = IF 1 <= Len(b) - 1 THEN Len(b) - 1 - 1 + 1 ELSE 0
            BY <3>1, <4>2
          <6>2. \A k \in Nat : k > 0 => (IF 1 <= k - 1 THEN k - 1 - 1 + 1 ELSE 0) = k - 1
            OBVIOUS
          <6> QED
            BY <1>0, <6>1, <6>2
        <5>2. ASSUME NEW i \in 1..Len(b) - 1 PROVE c[i] = b[i]
          BY <4>2, <4>3
        <5> QED
          BY <4>2, <5>1, <5>2
    <3>3. \A i \in 1..Len(b) - 1 : b[i] = n + i
      BY <1>0, <3>1 DEF Boxed
    <3> HIDE DEF c
    <3> QED
      BY <2>1, <3>2, <3>3
  <2>2. CASE ~Closes(b)
    <3>1. c = b
      BY <1>0, <2>2 DEF Closes, Waiting, Last
    <3>2. Counts(b, n)
      BY <1>0, <2>2, OpenBox
    <3> HIDE DEF c
    <3> QED
      BY <2>2, <3>1, <3>2 DEF Counts
  <2> QED
    BY <2>1, <2>2
<1> HIDE DEF c
<1>2. Len(c) \in Nat /\ m = n + Len(c) /\ m \in Nat
  BY <1>0, <1>1
<1>3. /\ s \o c \in Seq(Nat) /\ Len(s \o c) = m
      /\ \A i \in 1..m : (s \o c)[i] = IF i <= n THEN s[i] ELSE c[i - n]
  BY <1>0, <1>1, <1>2, ConcatProperties
<1>4. \A i \in 1..m : (s \o c)[i] = i
  <2> SUFFICES ASSUME NEW i \in 1..m PROVE (s \o c)[i] = i
    OBVIOUS
  <2>1. CASE i <= n
    BY <1>0, <1>2, <1>3, <2>1 DEF Counts
  <2>2. CASE ~(i <= n)
    <3>1. i - n \in 1..Len(c) /\ n + (i - n) = i
      BY <1>0, <1>2, <2>2
    <3> QED
      BY <1>1, <1>3, <2>2, <3>1
  <2> QED
    BY <2>1, <2>2
<1>5. s \o c = [i \in 1..m |-> i]
  <2> DEFINE t == [i \in 1..m |-> i]
  <2>1. t \in Seq(Nat) /\ Len(t) = m /\ \A i \in 1..m : t[i] = i
    BY <1>2
  <2> HIDE DEF t
  <2>2. s \o c = t
    BY <1>3, <1>4, <2>1, SeqEqual
  <2> QED
    BY <2>2 DEF t
<1> QED
  BY <1>5 DEF c
-----------------------------------------------------------------------------
(* The theorems *)

ServiceInv ==
  Pairs /\ Slots /\ Boxes /\ Flags /\ (\A r \in Streams : Flow(r)) /\ (\A r \in Streams : Judged(r))

LEMMA ServiceInvHolds == Spec => []ServiceInv
<1>1. StreamInit => ServiceInv
  <2> SUFFICES ASSUME ServiceInit PROVE ServiceInv
    BY DEF StreamInit
  <2> USE DEF ServiceInit
  <2>1. Pairs
    BY DEF Pairs, Paired, Answers, Threads, Requests
  <2>2. Slots
    <3>1. Out = {}
      BY DEF Out, Holders, Leaked, Requests
    <3> QED
      BY <3>1, FS_EmptySet, SizeAssumption DEF Slots
  <2>3. Boxes /\ Flags
    BY SizeAssumption DEF Boxes, Flags, Requests
  <2>4. ASSUME NEW r \in Streams PROVE Flow(r) /\ Judged(r)
    <3>1. /\ outbox[r] = <<>> /\ sent[r] = <<>> /\ failure[r] = <<>> /\ made[r] = 0 /\ lastLine[r] = "none"
          /\ ~stopped[r] /\ ~timedOut[r] /\ answer[r] = "idle" /\ thread[r] = "none"
      BY DEF Requests
    <3>2. Len(<<>>) = 0 /\ ~Closes(<<>>) /\ Counts(<<>>, 0) /\ Boxed(<<>>, 0) /\ 0 = 0 + 0
      BY DEF Closes, Counts, Boxed
    <3>3. Flow(r)
      BY <3>1, <3>2 DEF Flow
    <3> QED
      BY <3>1, <3>3 DEF Judged
  <2> QED
    BY <2>1, <2>2, <2>3, <2>4 DEF ServiceInv
<1>2. ServiceInv /\ [StreamNext]_streamVars => ServiceInv'
  <2> SUFFICES ASSUME ServiceInv, [StreamNext]_streamVars PROVE ServiceInv'
    OBVIOUS
  <2>1. [ServiceNext]_serviceVars
    BY DEF StreamNext, streamVars
  <2> QED
    BY <2>1, PairsStep, SlotsStep, BoxesStep, FlowStep, JudgedStep DEF ServiceInv
<1> QED
  BY <1>1, <1>2, PTL DEF Spec

\* With a server that may drop a response it never began, too, a slot is at one
\* request's, back, or leaked by exactly such a drop (app.py, acquire_slot).
THEOREM SlotsAreCounted == Spec => [](free + Cardinality(Holders \cup Leaked) = Capacity)
<1>1. ServiceInv => free + Cardinality(Holders \cup Leaked) = Capacity
  BY DEF ServiceInv, Slots, Out
<1> QED
  BY <1>1, ServiceInvHolds, PTL

\* A server that iterates every response it opens loses no slot and hands none
\* out twice; every queue stays within its bound.
THEOREM SlotsAreKept == ASSUME ~EarlyDrop PROVE Spec => []SlotsKept
<1>1. ASSUME ServiceInv PROVE SlotsKept
  <2>1. SlotsTypeOK
    BY <1>1 DEF ServiceInv, SlotsTypeOK, Slots, Pairs, Boxes, Flags
  <2>2. Out = Holders
    BY <1>1 DEF ServiceInv, Pairs, Paired, Out, Leaked
  <2> QED
    BY <1>1, <2>1, <2>2 DEF ServiceInv, Slots, SlotsKept, SlotsAccounted
<1> QED
  BY <1>1, ServiceInvHolds, PTL

\* What a client reads is the log without gaps, its end, and the true cause,
\* for any number of requests, any queue and any log.
THEOREM StreamsAreTrue == Spec => []StreamIsTrue
<1>1. ASSUME ServiceInv PROVE StreamIsTrue
  <2> SUFFICES ASSUME NEW r \in Streams
               PROVE  /\ sent[r] \o Waiting(outbox[r]) = [i \in 1..made[r] |-> i]
                      /\ answer[r] = "closed" => lastLine[r] # "none" \/ Len(sent[r]) = LogLength
                      /\ lastLine[r] = "timeout" => late[r]
                      /\ lastLine[r] = "engine" => made[r] < LogLength
    BY DEF StreamIsTrue, LogInOrder, EndsWithVerdict, CauseIsTrue
  <2>1. Flow(r) /\ Judged(r) /\ Boxes /\ Flags
    BY <1>1 DEF ServiceInv
  <2>2. sent[r] \in Seq(Nat) /\ outbox[r] \in Seq(Nat)
    <3>1. Items \subseteq Nat /\ Items \cup {Done} \subseteq Nat
      BY SizeAssumption DEF Items, Done
    <3> QED
      BY <2>1, <3>1, SeqMonotonic DEF Boxes, Flags
  <2>3. sent[r] \o Waiting(outbox[r]) = [i \in 1..made[r] |-> i]
    BY <2>1, <2>2, InOrder DEF Flow
  <2>4. <<"engine">> # <<>> /\ <<"engine">> # <<"timeout">>
    OBVIOUS
  <2> QED
    BY <2>1, <2>3, <2>4 DEF Judged
<1> QED
  BY <1>1, ServiceInvHolds, PTL

-----------------------------------------------------------------------------
(***************************************************************************)
(* The route and its recorder.  A log is folded one event at a time, and   *)
(* each event says how the run stands, opens a step, marks the open one or *)
(* decides the last (Folded); what settles therefore settles at the end.   *)
(***************************************************************************)
\* One number after the other: what holds of 0 and of each next one holds of all.
LEMMA OneByOne ==
  ASSUME NEW P, 0 \in P, \A n \in Nat : n \in P => n + 1 \in P
  PROVE  Nat \subseteq P
<1> SUFFICES ASSUME NEW m \in Nat, m \notin P PROVE FALSE
  OBVIOUS
<1> DEFINE S == {n \in Nat : n \notin P}
           R == OpToRel(<, Nat)
<1>1. IsWellFoundedOn(R, Nat)
  BY NatLessThanWellFounded
<1>2. R = {e \in Nat \X Nat : e[1] < e[2]}
  BY DEF OpToRel
<1> HIDE DEF R
<1>3. S \subseteq Nat /\ m \in S
  OBVIOUS
<1> HIDE DEF S
<1>4. PICK n \in S : \A k \in S : <<k, n>> \notin R
  BY <1>1, <1>3, WFMin
<1>5. n \in Nat /\ n \notin P /\ \A k \in Nat : k < n => k \in P
  BY <1>2, <1>3, <1>4 DEF S
<1>6. n # 0 /\ n - 1 \in Nat /\ n - 1 < n /\ n - 1 + 1 = n
  BY <1>5
<1> QED
  BY <1>5, <1>6

\* A sieve of a sequence: what is kept of each beginning of it.
Sifts(f, s, K, m) ==
  f = [i \in 0 .. m |-> IF i = 0 THEN <<>> ELSE IF s[i] \in K THEN Append(f[i - 1], s[i]) ELSE f[i - 1]]

LEMMA SiftsAt ==
  ASSUME NEW s, NEW K, NEW m, NEW f, Sifts(f, s, K, m), NEW i \in 0 .. m
  PROVE  f[i] = IF i = 0 THEN <<>> ELSE IF s[i] \in K THEN Append(f[i - 1], s[i]) ELSE f[i - 1]
  BY DEF Sifts

\* There is a sieve of every sequence, by one number after the other.
LEMMA SieveExists ==
  ASSUME NEW T, NEW s \in Seq(T), NEW K, NEW S, S = T \cap K, NEW m \in Nat, m <= Len(s)
  PROVE  \E f \in [0 .. m -> Seq(S)] : Sifts(f, s, K, m) /\ \A i \in 0 .. m : Len(f[i]) <= i
<1> DEFINE Has(n) == \E f \in [0 .. n -> Seq(S)] : Sifts(f, s, K, n) /\ \A i \in 0 .. n : Len(f[i]) <= i
           P == {n \in Nat : n <= Len(s) => Has(n)}
<1>1. Has(0)
  <2> DEFINE f == [i \in 0 .. 0 |-> <<>>]
  <2>1. f \in [0 .. 0 -> Seq(S)] /\ Sifts(f, s, K, 0) /\ \A i \in 0 .. 0 : Len(f[i]) <= i
    BY DEF Sifts
  <2> QED
    BY <2>1
<1>2. ASSUME NEW n \in Nat, Has(n), n + 1 <= Len(s) PROVE Has(n + 1)
  <2>1. n + 1 \in 1 .. Len(s) /\ Len(s) \in Nat
    BY <1>2, LenProperties
  <2>2. PICK f \in [0 .. n -> Seq(S)] : Sifts(f, s, K, n) /\ \A i \in 0 .. n : Len(f[i]) <= i
    BY <1>2
  <2>3. s[n + 1] \in T
    BY <2>1, ElementOfSeq
  <2>4. PICK z \in Seq(S) :
          (z = IF s[n + 1] \in K THEN Append(f[n], s[n + 1]) ELSE f[n]) /\ Len(z) <= n + 1
    <3>1. PICK y : y = f[n]
      OBVIOUS
    <3>2. y \in Seq(S) /\ Len(y) <= n /\ Len(y) \in Nat
      <4>1. n \in 0 .. n
        OBVIOUS
      <4> QED
        BY <2>2, <3>1, <4>1, LenProperties
    <3>3. CASE s[n + 1] \in K
      <4>1. PICK x \in S : x = s[n + 1]
        BY <2>3, <3>3
      <4>2. PICK w : w = Append(y, x)
        OBVIOUS
      <4>3. w \in Seq(S) /\ Len(w) = Len(y) + 1
        BY <3>2, <4>1, <4>2, AppendProperties
      <4>4. Len(w) <= n + 1
        BY <3>2, <4>3
      <4> QED
        BY <3>1, <3>3, <4>1, <4>2, <4>3, <4>4
    <3>4. CASE s[n + 1] \notin K
      BY <3>1, <3>2, <3>4
    <3> QED
      BY <3>3, <3>4
  <2> DEFINE g == [i \in 0 .. n + 1 |-> IF i = n + 1 THEN z ELSE f[i]]
  <2>5. /\ g \in [0 .. n + 1 -> Seq(S)] /\ g[n + 1] = z
        /\ \A i \in 0 .. n : i # n + 1 /\ i \in 0 .. n + 1 /\ g[i] = f[i]
    <3>1. n + 1 \in 0 .. n + 1 /\ \A i \in 0 .. n : i # n + 1 /\ i \in 0 .. n + 1
      OBVIOUS
    <3>2. \A i \in 0 .. n + 1 : i # n + 1 => i \in 0 .. n
      OBVIOUS
    <3>3. \A i \in 0 .. n + 1 : (IF i = n + 1 THEN z ELSE f[i]) \in Seq(S)
      BY <2>2, <2>4, <3>2
    <3>4. g \in [0 .. n + 1 -> Seq(S)]
      BY <3>3
    <3> QED
      BY <3>1, <3>4
  <2> HIDE DEF g
  <2>6. ASSUME NEW i \in 0 .. n + 1
        PROVE  /\ g[i] = IF i = 0 THEN <<>> ELSE IF s[i] \in K THEN Append(g[i - 1], s[i]) ELSE g[i - 1]
               /\ Len(g[i]) <= i
    <3>1. CASE i = n + 1
      <4>1. i # 0 /\ i - 1 = n /\ n \in 0 .. n
        BY <3>1
      <4>2. g[i] = z /\ g[i - 1] = f[n] /\ s[i] = s[n + 1]
        BY <2>5, <3>1, <4>1
      <4>3. Len(g[i]) <= i
        BY <2>4, <3>1, <4>2
      <4> QED
        BY <2>4, <4>1, <4>2, <4>3
    <3>2. CASE i \in 0 .. n
      <4>1. g[i] = f[i]
        BY <2>5, <3>2
      <4>2. f[i] = IF i = 0 THEN <<>> ELSE IF s[i] \in K THEN Append(f[i - 1], s[i]) ELSE f[i - 1]
        <5>1. CASE i = 0
          BY <2>2, <3>2, <5>1 DEF Sifts
        <5>2. CASE i # 0
          BY <2>2, <3>2, <5>2 DEF Sifts
        <5> QED
          BY <5>1, <5>2
      <4>3. Len(g[i]) <= i
        BY <2>2, <3>2, <4>1
      <4>4. i # 0 => i - 1 \in 0 .. n
        BY <3>2
      <4>5. i # 0 => g[i - 1] = f[i - 1]
        BY <2>5, <4>4
      <4> QED
        BY <4>1, <4>2, <4>3, <4>5
    <3> QED
      BY <3>1, <3>2
  <2>7. Sifts(g, s, K, n + 1)
    BY <2>5, <2>6 DEF Sifts
  <2> QED
    BY <2>5, <2>6, <2>7
<1> HIDE DEF Has
<1>3. 0 \in P
  BY <1>1
<1>4. ASSUME NEW n \in Nat, n \in P PROVE n + 1 \in P
  <2>1. n + 1 <= Len(s) => Has(n + 1)
    BY <1>2, <1>4, LenProperties
  <2> QED
    BY <2>1
<1>5. m \in P
  BY <1>3, <1>4, OneByOne
<1> QED
  BY <1>5 DEF Has

\* And only one.
LEMMA SievesAgree ==
  ASSUME NEW s, NEW t, NEW K, NEW a \in Nat, NEW b \in Nat, NEW m \in Nat, m <= a, m <= b,
         \A i \in 1 .. m : s[i] = t[i],
         NEW f, Sifts(f, s, K, a), NEW g, Sifts(g, t, K, b)
  PROVE  f[m] = g[m]
<1> DEFINE P == {n \in Nat : n <= m => f[n] = g[n]}
<1>1. 0 \in P
  <2>1. 0 \in 0 .. a /\ 0 \in 0 .. b
    OBVIOUS
  <2> QED
    BY <2>1, SiftsAt
<1>2. ASSUME NEW n \in Nat, n \in P PROVE n + 1 \in P
  <2> SUFFICES ASSUME n + 1 <= m PROVE f[n + 1] = g[n + 1]
    OBVIOUS
  <2>1. PICK k \in Nat : k = n + 1
    OBVIOUS
  <2>2. n <= m /\ k \in 0 .. a /\ k \in 0 .. b /\ k # 0 /\ k - 1 = n /\ k \in 1 .. m
    BY <2>1
  <2>3. f[k] = IF s[k] \in K THEN Append(f[n], s[k]) ELSE f[n]
    BY <2>2, SiftsAt
  <2>4. g[k] = IF t[k] \in K THEN Append(g[n], t[k]) ELSE g[n]
    BY <2>2, SiftsAt
  <2>5. f[n] = g[n] /\ s[k] = t[k]
    BY <1>2, <2>2
  <2> QED
    BY <2>1, <2>3, <2>4, <2>5
<1> HIDE DEF P
<1>3. m \in P
  BY <1>1, <1>2, OneByOne
<1> QED
  BY <1>3 DEF P

LEMMA OnlySieve ==
  ASSUME NEW T, NEW s \in Seq(T), NEW K
  PROVE  \E f : Sifts(f, s, K, Len(s)) /\ Only(s, K) = f[Len(s)]
<1>1. Len(s) \in Nat /\ Len(s) <= Len(s)
  BY LenProperties
<1>2. \E f : Sifts(f, s, K, Len(s))
  BY <1>1, SieveExists
<1> QED
  BY <1>2 DEF Sifts, Only

\* What is kept of a sequence: nothing of none, and one more of one that is longer by a thing to keep.
LEMMA OnlyTyped ==
  ASSUME NEW T, NEW s \in Seq(T), NEW K
  PROVE  Only(s, K) \in Seq(T \cap K) /\ Len(Only(s, K)) <= Len(s)
<1>s. PICK S : S = T \cap K
  OBVIOUS
<1>1. Len(s) \in Nat /\ Len(s) <= Len(s)
  BY LenProperties
<1>2. PICK f : Sifts(f, s, K, Len(s)) /\ Only(s, K) = f[Len(s)]
  BY OnlySieve
<1>3. PICK g \in [0 .. Len(s) -> Seq(S)] : Sifts(g, s, K, Len(s)) /\ \A i \in 0 .. Len(s) : Len(g[i]) <= i
  BY <1>1, <1>s, SieveExists
<1>4. f[Len(s)] = g[Len(s)]
  BY <1>1, <1>2, <1>3, SievesAgree
<1> QED
  BY <1>s, <1>1, <1>2, <1>3, <1>4

LEMMA OnlyNone ==
  ASSUME NEW K
  PROVE  Only(<<>>, K) = <<>>
<1>1. <<>> \in Seq({}) /\ Len(<<>>) = 0 /\ 0 \in 0 .. 0
  OBVIOUS
<1>2. PICK f : Sifts(f, <<>>, K, 0) /\ Only(<<>>, K) = f[0]
  BY <1>1, OnlySieve
<1> QED
  BY <1>1, <1>2, SiftsAt

LEMMA OnlyNext ==
  ASSUME NEW T, NEW s \in Seq(T), NEW t \in Seq(T), NEW K, Len(t) = Len(s) + 1, \A i \in 1 .. Len(s) : t[i] = s[i]
  PROVE  Only(t, K) = IF t[Len(t)] \in K THEN Append(Only(s, K), t[Len(t)]) ELSE Only(s, K)
<1>1. PICK n \in Nat : n = Len(s)
  BY LenProperties
<1>2. PICK k \in Nat : k = n + 1
  OBVIOUS
<1>3. k = Len(t) /\ k \in 0 .. k /\ k # 0 /\ k - 1 = n /\ n <= k /\ n <= n
  BY <1>1, <1>2
<1>4. PICK f : Sifts(f, s, K, n) /\ Only(s, K) = f[n]
  BY <1>1, OnlySieve
<1>5. PICK g : Sifts(g, t, K, k) /\ Only(t, K) = g[k]
  BY <1>3, OnlySieve
<1>6. \A i \in 1 .. n : s[i] = t[i]
  BY <1>1
<1>7. f[n] = g[n]
  BY <1>1, <1>2, <1>3, <1>4, <1>5, <1>6, SievesAgree
<1>8. g[k] = IF t[k] \in K THEN Append(g[n], t[k]) ELSE g[n]
  BY <1>3, <1>5, SiftsAt
<1> QED
  BY <1>3, <1>4, <1>5, <1>7, <1>8

\* A log as it is folded: its acceptances are a number.
Logs == [steps : Seq(Steps), open : BOOLEAN, status : {"streaming", "converged", "failed"}, accepted : Nat,
         final : BOOLEAN]

\* r is s and x; r is s with x for its last.
Grows(s, r, x) ==
  r \in Seq(Steps) /\ Len(r) = Len(s) + 1 /\ r[Len(r)] = x /\ \A i \in 1 .. Len(s) : r[i] = s[i]
Turns(s, r, x) ==
  r \in Seq(Steps) /\ s # <<>> /\ Len(r) = Len(s) /\ r[Len(r)] = x /\ \A i \in 1 .. Len(s) - 1 : r[i] = s[i]

NewStep(e) == [kind |-> e.kind, site |-> e.site, at |-> e.at, proposed |-> FALSE,
              verified |-> FALSE, cost |-> FALSE, outcome |-> "none"]

LEMMA StepsTyped ==
  ASSUME NEW e \in Events
  PROVE  /\ NewStep(e) \in Steps
         /\ NewStep(e).outcome = "none" /\ ~NewStep(e).proposed /\ ~NewStep(e).cost
  BY DEF NewStep, Steps, Events

LEMMA StepMarked ==
  ASSUME NEW s \in Steps
  PROVE  /\ [s EXCEPT !["proposed"] = TRUE] \in Steps
         /\ [s EXCEPT !["verified"] = TRUE] \in Steps
         /\ [s EXCEPT !["cost"] = TRUE] \in Steps
         /\ \A o \in {"accepted", "rejected"} : [s EXCEPT !["outcome"] = o] \in Steps
  BY DEF Steps

LEMMA BeginIs ==
  ASSUME NEW t \in Logs, NEW e \in Events
  PROVE  LET u == Begin(t, e) IN
         /\ u \in Logs /\ u.open = TRUE /\ u.status = t.status /\ u.final = t.final /\ u.accepted = t.accepted
         /\ Grows(t.steps, u.steps, NewStep(e))
<1> DEFINE u == Begin(t, e)
<1>1. u = [t EXCEPT !.open = TRUE, !.steps = Append(t.steps, NewStep(e))]
  BY DEF Begin, NewStep
<1>2. t.steps \in Seq(Steps) /\ NewStep(e) \in Steps
  BY StepsTyped DEF Logs
<1>3. PICK r : r = Append(t.steps, NewStep(e))
  OBVIOUS
<1>4. r \in Seq(Steps) /\ Len(r) = Len(t.steps) + 1 /\ r[Len(r)] = NewStep(e) /\ \A i \in 1 .. Len(t.steps) : r[i] = t.steps[i]
  BY <1>2, <1>3, AppendProperties
<1>5. u = [t EXCEPT !.open = TRUE, !.steps = r]
  BY <1>1, <1>3
<1> HIDE DEF u
<1>6. u \in Logs /\ u.open = TRUE /\ u.status = t.status /\ u.final = t.final /\ u.accepted = t.accepted /\ u.steps = r
  BY <1>4, <1>5 DEF Logs
<1> QED
  BY <1>4, <1>6 DEF Grows, u

LEMMA OnLastIs ==
  ASSUME NEW t \in Logs, t.steps # <<>>, NEW f, NEW v, NEW x \in Steps, x = [t.steps[Len(t.steps)] EXCEPT ![f] = v]
  PROVE  LET u == OnLast(t, f, v) IN
         /\ u \in Logs /\ u.open = t.open /\ u.status = t.status /\ u.final = t.final /\ u.accepted = t.accepted
         /\ Turns(t.steps, u.steps, x)
<1> DEFINE u == OnLast(t, f, v)
<1>1. t.steps \in Seq(Steps)
  BY DEF Logs
<1>2. PICK n \in Nat : n = Len(t.steps) /\ n \in 1 .. n
  BY <1>1, LenProperties, EmptySeq
<1>3. PICK r : r = [t.steps EXCEPT ![n] = x]
  OBVIOUS
<1>4. u = [t EXCEPT !.steps = r]
  BY <1>2, <1>3 DEF OnLast
<1>5. r \in Seq(Steps) /\ Len(r) = n /\ r[n] = x /\ \A i \in 1 .. n - 1 : r[i] = t.steps[i]
  <2>1. t.steps \in [1 .. n -> Steps]
    BY <1>1, <1>2, LenProperties
  <2>2. r \in [1 .. n -> Steps] /\ r[n] = x /\ \A i \in 1 .. n - 1 : r[i] = t.steps[i]
    BY <2>1, <1>2, <1>3
  <2> QED
    BY <2>2, SeqDef
<1> HIDE DEF u
<1>6. u \in Logs /\ u.open = t.open /\ u.status = t.status /\ u.final = t.final /\ u.accepted = t.accepted /\ u.steps = r
  BY <1>4, <1>5 DEF Logs
<1> QED
  BY <1>1, <1>2, <1>5, <1>6 DEF Turns, u

LEMMA LastIs ==
  ASSUME NEW t \in Logs, t.steps # <<>>
  PROVE  Last(t.steps) = t.steps[Len(t.steps)] /\ Last(t.steps) \in Steps /\ Len(t.steps) \in Nat \ {0}
<1>1. t.steps \in Seq(Steps)
  BY DEF Logs
<1>2. Len(t.steps) \in Nat \ {0} /\ Len(t.steps) \in 1 .. Len(t.steps)
  BY <1>1, EmptySeq, LenProperties
<1> QED
  BY <1>1, <1>2, ElementOfSeq DEF Last

\* What an event does to a log: it says how the run stands, opens a step, marks the open one, or decides.
Speaks(t, u, e) ==
  e.is \in {"run_started", "verification_result", "cost_evaluated", "run_converged", "run_failed"} /\ u.steps = t.steps /\ u.open = t.open /\ u.accepted = t.accepted
Opens(t, u, e) ==
  /\ e.is \in {"opportunity_found", "candidate_proposed"} /\ u.open /\ u.accepted = t.accepted
  /\ \E x \in Steps : /\ Grows(t.steps, u.steps, x) /\ x.outcome = "none" /\ ~x.cost
                      /\ (x.proposed <=> e.is = "candidate_proposed")
Marks(t, u, e) ==
  /\ e.is \in {"candidate_proposed", "verification_result", "cost_evaluated"} /\ t.open /\ u.open /\ u.accepted = t.accepted
  /\ \E x \in Steps : /\ Turns(t.steps, u.steps, x) /\ x.outcome = Last(t.steps).outcome
                      /\ (x.proposed <=> Last(t.steps).proposed \/ e.is = "candidate_proposed")
                      /\ (x.cost <=> Last(t.steps).cost \/ e.is = "cost_evaluated")
Decides(t, u, e) ==
  /\ e.is = "decision" /\ ~u.open /\ u.accepted = IF e.yes THEN t.accepted + 1 ELSE t.accepted
  /\ \E x \in Steps :
       /\ x.outcome = IF e.yes THEN "accepted" ELSE "rejected"
       /\ \/ t.open /\ Turns(t.steps, u.steps, x) /\ (x.proposed <=> Last(t.steps).proposed) /\ (x.cost <=> Last(t.steps).cost)
          \/ Grows(t.steps, u.steps, x) /\ ~x.proposed /\ ~x.cost

OpenIsLast(t) == t.open => t.steps # <<>> /\ Last(t.steps).outcome = "none"

LEMMA MarkIs ==
  ASSUME NEW t \in Logs, t.steps # <<>>, NEW f \in {"proposed", "verified", "cost"}
  PROVE  LET u == OnLast(t, f, TRUE) s == Last(t.steps) IN
         /\ u \in Logs /\ u.open = t.open /\ u.status = t.status /\ u.final = t.final /\ u.accepted = t.accepted
         /\ \E x \in Steps : /\ Turns(t.steps, u.steps, x) /\ x.outcome = s.outcome
                             /\ (x.proposed <=> s.proposed \/ f = "proposed") /\ (x.cost <=> s.cost \/ f = "cost")
<1>1. PICK s \in Steps : s = t.steps[Len(t.steps)] /\ s = Last(t.steps)
  BY LastIs
<1>2. PICK x : x = [s EXCEPT ![f] = TRUE]
  OBVIOUS
<1>3. x \in Steps
  BY <1>2, StepMarked
<1>4. x.outcome = s.outcome /\ (x.proposed <=> s.proposed \/ f = "proposed") /\ (x.cost <=> s.cost \/ f = "cost")
  BY <1>2 DEF Steps
<1>5. x = [t.steps[Len(t.steps)] EXCEPT ![f] = TRUE]
  BY <1>1, <1>2
<1>6. PICK u : u = OnLast(t, f, TRUE)
  OBVIOUS
<1>7. u \in Logs /\ u.open = t.open /\ u.status = t.status /\ u.final = t.final /\ u.accepted = t.accepted /\ Turns(t.steps, u.steps, x)
  BY <1>3, <1>5, <1>6, OnLastIs
<1>8. \E y \in Steps : /\ Turns(t.steps, u.steps, y) /\ y.outcome = s.outcome
                      /\ (y.proposed <=> s.proposed \/ f = "proposed") /\ (y.cost <=> s.cost \/ f = "cost")
  BY <1>3, <1>4, <1>7
<1> QED
  BY <1>1, <1>6, <1>7, <1>8

Folded(t, u, e) ==
  /\ u \in Logs
  /\ u.status = CASE e.is = "run_converged" -> "converged" [] e.is = "run_failed" -> "failed" [] OTHER -> t.status
  /\ u.final <=> t.final \/ e.is = "run_converged"
  /\ Speaks(t, u, e) \/ Opens(t, u, e) \/ Marks(t, u, e) \/ Decides(t, u, e)

\* Each event tells how the run stands, opens a step, marks the open one or decides the last.
LEMMA FoldIs ==
  ASSUME NEW t \in Logs, NEW e \in Events, OpenIsLast(t)
  PROVE  Folded(t, FoldEvent(t, e), e)
<1>1. PICK u : u = FoldEvent(t, e)
  OBVIOUS
<1> SUFFICES Folded(t, u, e)
  BY <1>1
<1>e. e.is \in EventKinds /\ e.yes \in BOOLEAN
  BY DEF Events
<1>2. CASE e.is = "opportunity_found"
  <2>1. u = Begin(t, e)
    BY <1>1, <1>2 DEF FoldEvent
  <2>2. u \in Logs /\ u.open = TRUE /\ u.status = t.status /\ u.final = t.final /\ u.accepted = t.accepted /\ Grows(t.steps, u.steps, NewStep(e))
    BY <2>1, BeginIs
  <2>3. Opens(t, u, e)
    BY <1>2, <2>2, StepsTyped DEF Opens
  <2> QED
    BY <1>2, <2>2, <2>3 DEF Folded
<1>3. CASE e.is = "candidate_proposed"
  <2>1. CASE t.open /\ ~Last(t.steps).proposed
    <3>1. u = OnLast(t, "proposed", TRUE)
      BY <1>1, <1>3, <2>1 DEF FoldEvent
    <3>2. t.steps # <<>>
      BY <2>1 DEF OpenIsLast
    <3>3. u \in Logs /\ u.open = t.open /\ u.status = t.status /\ u.final = t.final /\ u.accepted = t.accepted
      BY <3>1, <3>2, MarkIs
    <3>4. PICK x \in Steps : /\ Turns(t.steps, u.steps, x) /\ x.outcome = Last(t.steps).outcome
                            /\ x.proposed /\ (x.cost <=> Last(t.steps).cost)
      BY <3>1, <3>2, MarkIs
    <3>5. Marks(t, u, e)
      BY <1>3, <2>1, <3>3, <3>4 DEF Marks
    <3> QED
      BY <1>3, <3>3, <3>5 DEF Folded
  <2>2. CASE ~(t.open /\ ~Last(t.steps).proposed)
    <3>1. PICK b : b = Begin(t, e)
      OBVIOUS
    <3>2. b \in Logs /\ b.open = TRUE /\ b.status = t.status /\ b.final = t.final /\ b.accepted = t.accepted /\ Grows(t.steps, b.steps, NewStep(e))
      BY <3>1, BeginIs
    <3>3. u = OnLast(b, "proposed", TRUE)
      BY <1>1, <1>3, <2>2, <3>1 DEF FoldEvent
    <3>4. Len(b.steps) = Len(t.steps) + 1 /\ b.steps # <<>> /\ Last(b.steps) = NewStep(e)
      <4>1. t.steps \in Seq(Steps) /\ b.steps \in Seq(Steps)
        BY <3>2 DEF Logs
      <4>2. Len(t.steps) \in Nat /\ Len(b.steps) = Len(t.steps) + 1
        BY <3>2, <4>1, LenProperties DEF Grows
      <4>3. b.steps # <<>>
        BY <4>1, <4>2, EmptySeq
      <4> QED
        BY <3>2, <4>2, <4>3, LastIs DEF Grows
    <3>f. ~Last(b.steps).cost /\ Last(b.steps).outcome = "none"
      BY <3>4, StepsTyped
    <3>5. PICK x \in Steps : Turns(b.steps, u.steps, x) /\ x.outcome = "none" /\ x.proposed /\ ~x.cost
      <4>1. PICK x \in Steps : /\ Turns(b.steps, u.steps, x) /\ x.outcome = Last(b.steps).outcome
                              /\ x.proposed /\ (x.cost <=> Last(b.steps).cost)
        BY <3>2, <3>3, <3>4, MarkIs
      <4> QED
        BY <4>1, <3>f
    <3>6. u \in Logs /\ u.open = TRUE /\ u.status = t.status /\ u.final = t.final /\ u.accepted = t.accepted
      BY <3>2, <3>3, <3>4, MarkIs
    <3>7. Grows(t.steps, u.steps, x)
      BY <3>2, <3>4, <3>5, LenProperties DEF Grows, Turns, Logs
    <3>8. Opens(t, u, e)
      BY <1>3, <3>5, <3>6, <3>7 DEF Opens
    <3> QED
      BY <1>3, <3>6, <3>8 DEF Folded
  <2> QED
    BY <2>1, <2>2
<1>4. CASE e.is = "verification_result" \/ e.is = "cost_evaluated"
  <2>1. CASE t.open
    <3>1. PICK f \in {"verified", "cost"} : u = OnLast(t, f, TRUE) /\ (f = "cost" <=> e.is = "cost_evaluated")
      <4>1. CASE e.is = "verification_result"
        BY <1>1, <2>1, <4>1 DEF FoldEvent
      <4>2. CASE e.is = "cost_evaluated"
        BY <1>1, <2>1, <4>2 DEF FoldEvent
      <4> QED
        BY <1>4, <4>1, <4>2
    <3>2. t.steps # <<>>
      BY <2>1 DEF OpenIsLast
    <3>f. f \in {"proposed", "verified", "cost"}
      OBVIOUS
    <3>3. u \in Logs /\ u.open = t.open /\ u.status = t.status /\ u.final = t.final /\ u.accepted = t.accepted
      BY <3>1, <3>2, <3>f, MarkIs
    <3>4. PICK x \in Steps : /\ Turns(t.steps, u.steps, x) /\ x.outcome = Last(t.steps).outcome
                            /\ (x.proposed <=> Last(t.steps).proposed \/ f = "proposed")
                            /\ (x.cost <=> Last(t.steps).cost \/ f = "cost")
      BY <3>1, <3>2, MarkIs
    <3>5. Marks(t, u, e)
      BY <1>4, <2>1, <3>1, <3>3, <3>4 DEF Marks
    <3> QED
      BY <1>4, <3>3, <3>5 DEF Folded
  <2>2. CASE ~t.open
    <3>1. u = t
      BY <1>1, <1>4, <2>2 DEF FoldEvent
    <3> QED
      BY <1>4, <3>1 DEF Folded, Speaks
  <2> QED
    BY <2>1, <2>2
<1>5. CASE e.is \in {"run_started", "run_converged", "run_failed"}
  <2>1. u = CASE e.is = "run_converged" -> [t EXCEPT !.status = "converged", !.final = TRUE]
              [] e.is = "run_failed" -> [t EXCEPT !.status = "failed"] [] OTHER -> t
    BY <1>1, <1>5 DEF FoldEvent
  <2>2. u \in Logs /\ u.open = t.open /\ u.accepted = t.accepted /\ u.steps = t.steps
    BY <1>5, <2>1 DEF Logs
  <2>3. u.status = CASE e.is = "run_converged" -> "converged" [] e.is = "run_failed" -> "failed" [] OTHER -> t.status
    BY <1>5, <2>1 DEF Logs
  <2>4. u.final <=> t.final \/ e.is = "run_converged"
    BY <1>5, <2>1 DEF Logs
  <2> QED
    BY <1>5, <2>2, <2>3, <2>4 DEF Folded, Speaks
<1>6. CASE e.is = "decision"
  <2>1. PICK o \in {"accepted", "rejected"} : o = IF e.yes THEN "accepted" ELSE "rejected"
    OBVIOUS
  <2>2. PICK b : b = IF Belongs(t, e) THEN t ELSE Begin(t, e)
    OBVIOUS
  <2>3. b \in Logs /\ b.status = t.status /\ b.final = t.final /\ b.accepted = t.accepted /\ b.steps # <<>>
    <3>1. CASE Belongs(t, e)
      BY <2>2, <3>1 DEF Belongs, OpenIsLast
    <3>2. CASE ~Belongs(t, e)
      <4>1. b \in Logs /\ b.status = t.status /\ b.final = t.final /\ b.accepted = t.accepted /\ Grows(t.steps, b.steps, NewStep(e))
        BY <2>2, <3>2, BeginIs
      <4>2. t.steps \in Seq(Steps) /\ b.steps \in Seq(Steps)
        BY <4>1 DEF Logs
      <4>3. Len(t.steps) \in Nat /\ Len(b.steps) = Len(t.steps) + 1
        BY <4>1, <4>2, LenProperties DEF Grows
      <4> QED
        BY <4>1, <4>2, <4>3, EmptySeq
    <3> QED
      BY <3>1, <3>2
  <2>4. PICK x : x = [b.steps[Len(b.steps)] EXCEPT !["outcome"] = o]
    OBVIOUS
  <2>5. PICK s \in Steps : s = Last(b.steps) /\ s = b.steps[Len(b.steps)]
    BY <2>3, LastIs
  <2>6. x \in Steps /\ x.outcome = o /\ (x.proposed <=> s.proposed) /\ (x.cost <=> s.cost)
    <3>1. x = [s EXCEPT !["outcome"] = o]
      BY <2>4, <2>5
    <3>2. x \in Steps
      BY <3>1, StepMarked
    <3> QED
      BY <3>1, <3>2 DEF Steps
  <2>7. PICK v : v = OnLast(b, "outcome", o)
    OBVIOUS
  <2>8. v \in Logs /\ v.status = t.status /\ v.final = t.final /\ v.accepted = t.accepted /\ Turns(b.steps, v.steps, x)
    BY <2>3, <2>4, <2>6, <2>7, OnLastIs
  <2>9. u = [v EXCEPT !.open = FALSE, !.accepted = IF e.yes THEN @ + 1 ELSE @]
    BY <1>1, <1>6, <2>1, <2>2, <2>7 DEF FoldEvent, Decide
  <2>10. u \in Logs /\ ~u.open /\ u.status = t.status /\ u.final = t.final /\ u.steps = v.steps /\ u.accepted = IF e.yes THEN t.accepted + 1 ELSE t.accepted
    <3>1. PICK c \in Nat : c = IF e.yes THEN t.accepted + 1 ELSE t.accepted
      BY <1>e DEF Logs
    <3>2. u = [v EXCEPT !.open = FALSE, !.accepted = c]
      BY <2>8, <2>9, <3>1 DEF Logs
    <3> QED
      BY <2>8, <3>1, <3>2 DEF Logs
  <2>11. \/ t.open /\ Turns(t.steps, u.steps, x) /\ (x.proposed <=> Last(t.steps).proposed) /\ (x.cost <=> Last(t.steps).cost)
         \/ Grows(t.steps, u.steps, x) /\ ~x.proposed /\ ~x.cost
    <3>1. CASE Belongs(t, e)
      <4>1. t.open /\ b = t
        BY <2>2, <3>1 DEF Belongs
      <4> QED
        BY <4>1, <2>5, <2>6, <2>8, <2>10
    <3>2. CASE ~Belongs(t, e)
      <4>1. Grows(t.steps, b.steps, NewStep(e)) /\ b.steps \in Seq(Steps) /\ t.steps \in Seq(Steps)
        BY <2>2, <2>3, <3>2, BeginIs DEF Logs
      <4>2. s = NewStep(e)
        BY <2>5, <4>1 DEF Grows
      <4>3. Grows(t.steps, u.steps, x)
        BY <2>8, <2>10, <4>1, LenProperties DEF Grows, Turns
      <4> QED
        BY <2>6, <4>2, <4>3, StepsTyped
    <3> QED
      BY <3>1, <3>2
  <2>12. Decides(t, u, e)
    BY <1>6, <2>1, <2>6, <2>10, <2>11 DEF Decides
  <2> QED
    BY <1>6, <2>10, <2>12 DEF Folded
<1> QED
  BY <1>e, <1>2, <1>3, <1>4, <1>5, <1>6 DEF EventKinds

LEMMA OnlyGrows ==
  ASSUME NEW s \in Seq(Steps), NEW r, NEW x, NEW K, Grows(s, r, x)
  PROVE  Only(r, K) = IF x \in K THEN Append(Only(s, K), x) ELSE Only(s, K)
  BY OnlyNext DEF Grows

LEMMA OnlyTurns ==
  ASSUME NEW s \in Seq(Steps), NEW r, NEW x, NEW K, Turns(s, r, x), s[Len(s)] \notin K
  PROVE  Only(r, K) = IF x \in K THEN Append(Only(s, K), x) ELSE Only(s, K)
<1>1. PICK n \in Nat : n = Len(s) /\ n # 0
  BY LenProperties, EmptySeq DEF Turns
<1>2. PICK m \in Nat : m + 1 = n
  BY <1>1
<1>3. PICK p : p = SubSeq(s, 1, m)
  OBVIOUS
<1>4. p \in Seq(Steps) /\ Len(p) = m /\ \A i \in 1 .. m : p[i] = s[i]
  BY <1>1, <1>2, <1>3, SubSeqProperties, LenProperties
<1>5. \A i \in 1 .. m : r[i] = p[i]
  BY <1>1, <1>2, <1>4 DEF Turns
<1>6. r \in Seq(Steps) /\ Len(r) = n /\ r[n] = x
  BY <1>1 DEF Turns
<1>7. Only(s, K) = Only(p, K)
  BY <1>1, <1>2, <1>4, OnlyNext
<1> QED
  BY <1>1, <1>2, <1>4, <1>5, <1>6, <1>7, OnlyNext

\* A log is settled one decision at a time, at its end.
LEMMA SettledIs ==
  ASSUME NEW t \in Logs, NEW e \in Events, OpenIsLast(t), NEW u, Folded(t, u, e)
  PROVE  /\ Settled(t) \in Seq(Decided) /\ Settled(u) \in Seq(Decided)
         /\ e.is # "decision" => Settled(u) = Settled(t)
         /\ e.is = "decision" => \E x \in Decided : Settled(u) = Append(Settled(t), x)
<1>1. t.steps \in Seq(Steps) /\ u.steps \in Seq(Steps)
  BY DEF Folded, Logs
<1>2. Settled(t) \in Seq(Decided) /\ Settled(u) \in Seq(Decided)
  <2>1. Steps \cap Decided = Decided
    BY DEF Decided
  <2> QED
    BY <1>1, <2>1, OnlyTyped DEF Settled
<1>3. t.open => t.steps[Len(t.steps)] \notin Decided /\ Last(t.steps).outcome = "none"
  BY LastIs DEF OpenIsLast, Decided
<1>4. CASE Speaks(t, u, e)
  BY <1>2, <1>4 DEF Speaks, Settled
<1>5. CASE Opens(t, u, e)
  <2>1. PICK x \in Steps : Grows(t.steps, u.steps, x) /\ x.outcome = "none"
    BY <1>5 DEF Opens
  <2>2. x \notin Decided /\ e.is # "decision"
    BY <1>5, <2>1 DEF Opens, Decided
  <2> QED
    BY <1>1, <1>2, <2>1, <2>2, OnlyGrows DEF Settled
<1>6. CASE Marks(t, u, e)
  <2>1. PICK x \in Steps : Turns(t.steps, u.steps, x) /\ x.outcome = Last(t.steps).outcome
    BY <1>6 DEF Marks
  <2>2. x \notin Decided /\ e.is # "decision" /\ t.steps[Len(t.steps)] \notin Decided
    BY <1>3, <1>6, <2>1 DEF Marks, Decided
  <2> QED
    BY <1>1, <1>2, <2>1, <2>2, OnlyTurns DEF Settled
<1>7. CASE Decides(t, u, e)
  <2>1. PICK x \in Steps :
          /\ x.outcome = IF e.yes THEN "accepted" ELSE "rejected"
          /\ (t.open /\ Turns(t.steps, u.steps, x)) \/ Grows(t.steps, u.steps, x)
    BY <1>7 DEF Decides
  <2>2. x \in Decided /\ e.is = "decision"
    <3>1. x.outcome # "none"
      BY <2>1
    <3> QED
      BY <1>7, <3>1 DEF Decides, Decided
  <2>3. Settled(u) = Append(Settled(t), x)
    BY <1>1, <1>3, <2>1, <2>2, OnlyGrows, OnlyTurns DEF Settled
  <2> QED
    BY <1>2, <2>2, <2>3
<1> QED
  BY <1>4, <1>5, <1>6, <1>7 DEF Folded

Row == [kind : Kinds, site : Sites, accepted : BOOLEAN]

\* The rows of some steps: one for each that is measured.
LEMMA RowTyped ==
  ASSUME NEW s \in Measured
  PROVE  RowOf(s) \in Row
  BY DEF Measured, Decided, Steps, RowOf, Row

LEMMA RowsTyped ==
  ASSUME NEW s \in Seq(Steps)
  PROVE  /\ RowsOf(s) \in Seq(Row) /\ Len(RowsOf(s)) = Len(Only(s, Measured))
         /\ \A i \in 1 .. Len(RowsOf(s)) : RowsOf(s)[i] = RowOf(Only(s, Measured)[i])
<1>1. PICK m : m = Only(s, Measured)
  OBVIOUS
<1>2. m \in Seq(Measured)
  <2>1. Steps \cap Measured = Measured
    BY DEF Measured, Decided
  <2> QED
    BY <1>1, <2>1, OnlyTyped
<1>3. PICK n \in Nat : n = Len(m) /\ m \in [1 .. n -> Measured] /\ DOMAIN m = 1 .. n
  BY <1>2, LenProperties
<1>4. PICK r : r = [i \in 1 .. n |-> RowOf(m[i])]
  OBVIOUS
<1>5. r = RowsOf(s)
  BY <1>1, <1>3, <1>4 DEF RowsOf
<1>6. r \in [1 .. n -> Row]
  BY <1>3, <1>4, RowTyped
<1>7. r \in Seq(Row) /\ Len(r) = n
  BY <1>6, SeqDef
<1> QED
  BY <1>1, <1>3, <1>4, <1>5, <1>7

LEMMA RowsNone == RowsOf(<<>>) = <<>>
<1>1. <<>> \in Seq(Steps)
  OBVIOUS
<1>2. RowsOf(<<>>) \in Seq(Row) /\ Len(RowsOf(<<>>)) = 0
  <2>1. Only(<<>>, Measured) = <<>>
    BY OnlyNone
  <2> QED
    BY <1>1, <2>1, RowsTyped
<1> QED
  BY <1>2, EmptySeq

LEMMA RowsNext ==
  ASSUME NEW s \in Seq(Steps), NEW x \in Steps
  PROVE  RowsOf(Append(s, x)) = IF x \in Measured THEN Append(RowsOf(s), RowOf(x)) ELSE RowsOf(s)
<1>1. PICK t : t = Append(s, x)
  OBVIOUS
<1>2. t \in Seq(Steps) /\ Len(t) = Len(s) + 1 /\ t[Len(t)] = x /\ \A i \in 1 .. Len(s) : t[i] = s[i]
  BY <1>1, AppendProperties
<1>3. Only(t, Measured) = IF x \in Measured THEN Append(Only(s, Measured), x) ELSE Only(s, Measured)
  BY <1>2, OnlyNext
<1>4. CASE x \notin Measured
  BY <1>1, <1>3, <1>4 DEF RowsOf
<1>5. CASE x \in Measured
  <2>1. PICK m \in Seq(Measured) : m = Only(s, Measured)
    <3>1. Steps \cap Measured = Measured
      BY DEF Measured, Decided
    <3> QED
      BY <3>1, OnlyTyped
  <2>2. PICK k : k = Append(m, x)
    OBVIOUS
  <2>k. k = Only(t, Measured)
    BY <1>3, <1>5, <2>1, <2>2
  <2>3. PICK n \in Nat : n = Len(m)
    BY LenProperties
  <2>a. PICK M : M = Measured
    OBVIOUS
  <2>4. k \in Seq(Measured) /\ Len(k) = n + 1 /\ k[n + 1] = x /\ \A i \in 1 .. n : k[i] = m[i]
    <3>1. m \in Seq(M) /\ x \in M
      BY <1>5, <2>1, <2>a
    <3>2. k \in Seq(M) /\ Len(k) = n + 1 /\ k[n + 1] = x /\ \A i \in 1 .. n : k[i] = m[i]
      BY <3>1, <2>2, <2>3, AppendProperties
    <3> QED
      BY <3>2, <2>a
  <2>5. PICK a \in Seq(Row) : a = RowsOf(s) /\ Len(a) = n /\ \A i \in 1 .. n : a[i] = RowOf(m[i])
    BY <2>1, <2>3, RowsTyped
  <2>6. PICK b \in Seq(Row) : b = RowsOf(t) /\ Len(b) = n + 1 /\ \A i \in 1 .. n + 1 : b[i] = RowOf(k[i])
    BY <1>2, <2>k, <2>3, <2>4, RowsTyped
  <2>7. PICK c : c = Append(a, RowOf(x))
    OBVIOUS
  <2>8. c \in Seq(Row) /\ Len(c) = n + 1 /\ c[n + 1] = RowOf(x) /\ \A i \in 1 .. n : c[i] = a[i]
    BY <1>5, <2>5, <2>7, RowTyped, AppendProperties
  <2>9. \A i \in 1 .. n + 1 : b[i] = c[i]
    <3> SUFFICES ASSUME NEW i \in 1 .. n + 1 PROVE b[i] = c[i]
      OBVIOUS
    <3>1. CASE i = n + 1
      BY <2>3, <2>4, <2>6, <2>8, <3>1
    <3>2. CASE i \in 1 .. n
      BY <2>3, <2>4, <2>5, <2>6, <2>8, <3>2
    <3> QED
      BY <2>3, <3>1, <3>2
  <2>10. b = c
    BY <2>3, <2>6, <2>8, <2>9, SeqEqual
  <2> QED
    BY <1>1, <1>5, <2>5, <2>6, <2>7, <2>10
<1> QED
  BY <1>4, <1>5

\* The steps of a log that were accepted are counted in it; a price is that of a proposal, and
\* a log that reads converged has its final listing.
Acceptances(t) == {i \in 1 .. Len(t.steps) : t.steps[i].outcome = "accepted"}
LogTrue(t) ==
  /\ OpenIsLast(t)
  /\ IsFiniteSet(Acceptances(t)) /\ Cardinality(Acceptances(t)) = t.accepted
  /\ \A i \in 1 .. Len(t.steps) : t.steps[i].cost => t.steps[i].proposed
  /\ t.status = "converged" => t.final

\* What an event may say at this point of a log.
Fits(t, e) == e.is = "cost_evaluated" /\ t.open => Last(t.steps).proposed

\* An event that fits keeps a log true.
LEMMA LogStep ==
  ASSUME NEW t \in Logs, LogTrue(t), NEW e \in Events, Fits(t, e), NEW u, Folded(t, u, e)
  PROVE  LogTrue(u)
<1>1. t.steps \in Seq(Steps) /\ u.steps \in Seq(Steps) /\ t.accepted \in Nat
  BY DEF Folded, Logs
<1>2. PICK n \in Nat : n = Len(t.steps)
  BY <1>1, LenProperties
<1>3. t.open => n # 0 /\ Last(t.steps) = t.steps[n] /\ t.steps[n].outcome = "none"
  BY <1>2, LastIs DEF LogTrue, OpenIsLast
<1>5. u.status = "converged" => u.final
  BY DEF Folded, LogTrue
<1>4. CASE Speaks(t, u, e)
  BY <1>4, <1>5 DEF Speaks, LogTrue, OpenIsLast, Acceptances
\* Nothing is taken, or the last step is.
<1>6. ASSUME NEW k \in Nat, Len(u.steps) = k, k \in {n, n + 1}, k # 0,
             \A i \in 1 .. k - 1 : u.steps[i] = t.steps[i], k = n => t.steps[n].outcome = "none",
             u.accepted = IF u.steps[k].outcome = "accepted" THEN t.accepted + 1 ELSE t.accepted,
             u.open => u.steps[k].outcome = "none",
             u.steps[k].cost => u.steps[k].proposed
      PROVE  LogTrue(u)
  <2>1. Acceptances(t) \subseteq 1 .. k - 1
    BY <1>2, <1>6 DEF Acceptances
  <2>2. Acceptances(u) = IF u.steps[k].outcome = "accepted" THEN Acceptances(t) \cup {k} ELSE Acceptances(t)
    BY <1>2, <1>6, <2>1 DEF Acceptances
  <2>3. k \notin Acceptances(t)
    BY <1>6, <2>1
  <2>4. IsFiniteSet(Acceptances(u)) /\ Cardinality(Acceptances(u)) = u.accepted
    <3>1. PICK T : T = Acceptances(t)
      OBVIOUS
    <3>2. IsFiniteSet(T) /\ Cardinality(T) = t.accepted /\ k \notin T
      BY <2>3, <3>1 DEF LogTrue
    <3>3. IsFiniteSet(T \cup {k}) /\ Cardinality(T \cup {k}) = t.accepted + 1
      BY <3>2, FS_AddElement
    <3>4. Acceptances(u) = IF u.steps[k].outcome = "accepted" THEN T \cup {k} ELSE T
      BY <2>2, <3>1
    <3> QED
      BY <1>6, <3>2, <3>3, <3>4
  <2>5. OpenIsLast(u)
    <3>1. u.steps # <<>>
      BY <1>1, <1>6, EmptySeq
    <3>2. u \in Logs
      BY DEF Folded
    <3> QED
      BY <1>6, <3>1, <3>2, LastIs DEF OpenIsLast
  <2>6. \A i \in 1 .. k : u.steps[i].cost => u.steps[i].proposed
    <3> SUFFICES ASSUME NEW i \in 1 .. k, i # k PROVE u.steps[i].cost => u.steps[i].proposed
      BY <1>6
    <3>1. i \in 1 .. k - 1 /\ i \in 1 .. n
      BY <1>6
    <3> QED
      BY <1>2, <1>6, <3>1 DEF LogTrue
  <2> QED
    BY <1>5, <1>6, <2>4, <2>5, <2>6 DEF LogTrue
<1>7. CASE Opens(t, u, e)
  <2>1. PICK x \in Steps : /\ Grows(t.steps, u.steps, x) /\ x.outcome = "none" /\ ~x.cost
                          /\ (x.proposed <=> e.is = "candidate_proposed")
    BY <1>7 DEF Opens
  <2>2. Len(u.steps) = n + 1 /\ u.steps[n + 1] = x /\ \A i \in 1 .. n + 1 - 1 : u.steps[i] = t.steps[i]
    BY <1>2, <2>1 DEF Grows
  <2> QED
    BY <1>6, <1>7, <2>1, <2>2 DEF Opens, Fits
<1>8. CASE Marks(t, u, e)
  <2>1. PICK x \in Steps : /\ Turns(t.steps, u.steps, x) /\ x.outcome = Last(t.steps).outcome
                          /\ (x.proposed <=> Last(t.steps).proposed \/ e.is = "candidate_proposed")
                          /\ (x.cost <=> Last(t.steps).cost \/ e.is = "cost_evaluated")
    BY <1>8 DEF Marks
  <2>2. Len(u.steps) = n /\ n # 0 /\ u.steps[n] = x /\ \A i \in 1 .. n - 1 : u.steps[i] = t.steps[i]
    BY <1>2, <1>3, <1>8, <2>1 DEF Turns, Marks
  <2>3. x.cost => x.proposed
    BY <1>2, <1>3, <1>8, <2>1, <2>2 DEF Marks, Fits, LogTrue
  <2> QED
    BY <1>3, <1>6, <1>8, <2>1, <2>2, <2>3 DEF Marks, Fits
<1>9. CASE Decides(t, u, e)
  <2>1. PICK x \in Steps :
          /\ x.outcome = IF e.yes THEN "accepted" ELSE "rejected"
          /\ \/ t.open /\ Turns(t.steps, u.steps, x) /\ (x.proposed <=> Last(t.steps).proposed) /\ (x.cost <=> Last(t.steps).cost)
             \/ Grows(t.steps, u.steps, x) /\ ~x.proposed /\ ~x.cost
    BY <1>9 DEF Decides
  <2>2. u.accepted = IF x.outcome = "accepted" THEN t.accepted + 1 ELSE t.accepted
    BY <1>9, <2>1 DEF Decides
  <2>3. CASE t.open /\ Turns(t.steps, u.steps, x) /\ (x.proposed <=> Last(t.steps).proposed) /\ (x.cost <=> Last(t.steps).cost)
    <3>1. Len(u.steps) = n /\ n # 0 /\ u.steps[n] = x /\ \A i \in 1 .. n - 1 : u.steps[i] = t.steps[i]
      BY <1>2, <1>3, <2>3 DEF Turns
    <3>2. x.cost => x.proposed
      BY <1>2, <1>3, <2>3, <3>1 DEF LogTrue
    <3> QED
      BY <1>3, <1>6, <1>9, <2>2, <2>3, <3>1, <3>2 DEF Decides
  <2>4. CASE Grows(t.steps, u.steps, x) /\ ~x.proposed /\ ~x.cost
    <3>1. Len(u.steps) = n + 1 /\ u.steps[n + 1] = x /\ \A i \in 1 .. n + 1 - 1 : u.steps[i] = t.steps[i]
      BY <1>2, <2>4 DEF Grows
    <3> QED
      BY <1>6, <1>9, <2>2, <2>4, <3>1 DEF Decides
  <2> QED
    BY <2>1, <2>3, <2>4
<1> QED
  BY <1>4, <1>7, <1>8, <1>9 DEF Folded

\* A step as it is drawn.
LEMMA RowIs ==
  ASSUME NEW t \in Logs, LogTrue(t), NEW i \in 1 .. Len(t.steps)
  PROVE  LET r == StepRow(t, i) IN
         /\ r.badge = "accepted" <=> i \in Acceptances(t)
         /\ r.badge = "in progress" => ~r.settled /\ t.status = "streaming"
         /\ ~r.settled => r.badge = "in progress"
         /\ r.cost = "counted" => r.listing = "applied"
<1>1. PICK s \in Steps : s = t.steps[i]
  BY ElementOfSeq DEF Logs
<1>2. PICK r : r = StepRow(t, i)
  OBVIOUS
<1>3. /\ r.badge = (IF s.outcome = "none" THEN Unsettled(t) ELSE s.outcome)
      /\ r.cost = (IF ~s.cost THEN "none" ELSE IF Applied(s) THEN "counted" ELSE "grey")
      /\ r.listing = (IF ~s.proposed THEN "none" ELSE IF Applied(s) THEN "applied" ELSE "proposed")
  BY <1>1, <1>2 DEF StepRow, Badge, CostDelta
<1>4. r.settled <=> s.outcome # "none" \/ t.status # "streaming"
  BY <1>1, <1>2 DEF StepRow
<1>5. Unsettled(t) = (IF t.status = "streaming" THEN "in progress" ELSE IF t.status = "failed" THEN "interrupted" ELSE "evaluated candidate")
  BY DEF Unsettled
<1>6. s.outcome \in {"none", "accepted", "rejected"}
  BY DEF Steps
<1>7. s.cost => s.proposed
  BY <1>1 DEF LogTrue
<1>9. r.badge = "accepted" <=> i \in Acceptances(t)
  BY <1>1, <1>3, <1>5, <1>6 DEF Acceptances
<1>10. (r.badge = "in progress" => ~r.settled /\ t.status = "streaming") /\ (~r.settled => r.badge = "in progress")
  BY <1>3, <1>4, <1>5, <1>6
<1>11. r.cost = "counted" => r.listing = "applied"
  BY <1>3, <1>7
<1> QED
  BY <1>2, <1>9, <1>10, <1>11

\* What whoever watches a true log sees belongs together.
LEMMA PageIs ==
  ASSUME NEW t \in Logs, LogTrue(t)
  PROVE  LET sheet == Report("RUNNING", t) drawn == sheet.rows IN
         /\ Cardinality({i \in DOMAIN drawn : drawn[i].badge = "accepted"}) = sheet.verdict.accepted
         /\ sheet.verdict.says = "running" <=> sheet.progress[1] \in {"waiting", "running"}
         /\ sheet.verdict.accepted = t.accepted /\ (sheet.after <=> t.final)
         /\ sheet.verdict.costIs = "after" => sheet.after
         /\ \A i \in DOMAIN drawn :
              /\ drawn[i].badge = "in progress" => ~drawn[i].settled /\ sheet.verdict.says = "running"
              /\ ~drawn[i].settled => drawn[i].badge = "in progress"
              /\ drawn[i].cost = "counted" => drawn[i].listing = "applied"
<1>1. PICK sheet : sheet = Report("RUNNING", t)
  OBVIOUS
<1>2. PICK drawn : drawn = [i \in 1 .. Len(t.steps) |-> StepRow(t, i)]
  OBVIOUS
<1>3. DOMAIN t.steps = 1 .. Len(t.steps)
  BY LenProperties DEF Logs
<1>4. sheet.rows = drawn /\ sheet.verdict = Verdict(t) /\ sheet.progress = Progress(t) /\ (sheet.after <=> t.final)
  BY <1>1, <1>2, <1>3 DEF Report
<1>5. t.status \in {"streaming", "converged", "failed"}
  BY DEF Logs
<1>6. Verdict(t).accepted = t.accepted /\ Verdict(t).says = (IF t.status = "streaming" THEN "running" ELSE t.status)
  BY DEF Verdict
<1>7. Progress(t)[1] = (IF t.status = "failed" THEN "failed after" ELSE IF t.status = "converged" THEN "finished"
                        ELSE IF t.steps = <<>> THEN "waiting" ELSE "running")
  BY DEF Progress
<1>8. {i \in DOMAIN drawn : drawn[i].badge = "accepted"} = Acceptances(t)
  BY <1>2, RowIs DEF Acceptances
<1>9. Cardinality({i \in DOMAIN drawn : drawn[i].badge = "accepted"}) = Verdict(t).accepted
  BY <1>6, <1>8 DEF LogTrue
<1>10. Verdict(t).says = "running" <=> Progress(t)[1] \in {"waiting", "running"}
  BY <1>5, <1>6, <1>7
<1>11. ASSUME NEW i \in DOMAIN drawn
       PROVE  /\ drawn[i].badge = "in progress" => ~drawn[i].settled /\ Verdict(t).says = "running"
              /\ ~drawn[i].settled => drawn[i].badge = "in progress"
              /\ drawn[i].cost = "counted" => drawn[i].listing = "applied"
  <2>1. i \in 1 .. Len(t.steps) /\ drawn[i] = StepRow(t, i)
    BY <1>2
  <2> QED
    BY <1>6, <2>1, RowIs
<1>12. sheet.verdict.accepted = t.accepted
  BY <1>4, <1>6
<1>13. sheet.verdict.costIs = "after" => sheet.after
  <2>1. Verdict(t).costIs = IF t.status = "converged" THEN "after" ELSE "so far"
    BY DEF Verdict
  <2>2. t.status = "converged" => t.final
    BY DEF LogTrue
  <2> QED
    BY <1>4, <2>1, <2>2
<1> QED
  BY <1>1, <1>4, <1>9, <1>10, <1>11, <1>12, <1>13

\* In what order events are on the wire: a check is of what was just proposed, a price of what was just checked.
Ordered(log) ==
  \A i \in 1 .. Len(log) : i > 1 =>
    /\ log[i].is = "verification_result" => log[i - 1].is = "candidate_proposed"
    /\ log[i].is = "cost_evaluated" => log[i - 1].is = "verification_result"

\* Nothing on the wire is accepted, or the end of a search.
Undecided(log) ==
  \A i \in 1 .. Len(log) : log[i].is # "run_converged" /\ (log[i].is = "decision" => ~log[i].yes)

LEMMA EventTyped ==
  ASSUME NEW is \in EventKinds, NEW c, c.kind \in Kinds, c.site \in Sites \cup {NoSite}, NEW at \in 0 .. MaxMoves, NEW yes \in BOOLEAN
  PROVE  Event(is, c, at, yes) \in Events /\ Event(is, c, at, yes).is = is /\ (Event(is, c, at, yes).yes <=> yes)
  BY DEF Event, Events

LEMMA MarkTyped ==
  ASSUME NEW is \in EventKinds
  PROVE  Mark(is) \in Events /\ Mark(is).is = is
<1>1. Plain.kind \in Kinds /\ Plain.site = NoSite
  BY SiteAssumption DEF Plain
<1>2. 0 \in 0 .. MaxMoves /\ FALSE \in BOOLEAN
  BY BoundAssumption
<1> QED
  BY <1>1, <1>2, EventTyped DEF Mark

\* What the engine emits of a candidate is in order, and accepts nothing.
LEMMA BurstIs ==
  ASSUME NEW c \in Candidates, NEW result \in Results, nodes \in 0 .. MaxMoves
  PROVE  LET b == Burst(c, result) IN b \in Seq(Events) /\ b # <<>> /\ b[1].is = "opportunity_found" /\ Ordered(b) /\ Undecided(b)
<1>1. c.kind \in Kinds /\ c.site \in Sites
  BY DEF Candidates
<1>2. [c EXCEPT !.site = NoSite].kind \in Kinds /\ [c EXCEPT !.site = NoSite].site = NoSite
  BY DEF Candidates
<1>3. PICK no \in Events : no = Event("decision", [c EXCEPT !.site = NoSite], nodes, FALSE) /\ no.is = "decision" /\ ~no.yes
  BY <1>2, EventTyped DEF EventKinds
<1>4. PICK f \in Events : f = Event("opportunity_found", c, nodes, FALSE) /\ f.is = "opportunity_found"
  BY <1>1, EventTyped DEF EventKinds
<1>5. PICK p \in Events : p = Event("candidate_proposed", c, nodes, FALSE) /\ p.is = "candidate_proposed"
  BY <1>1, EventTyped DEF EventKinds
<1>6. PICK v \in Events : v = Event("verification_result", c, nodes, result # "refuted") /\ v.is = "verification_result"
  BY <1>1, EventTyped DEF EventKinds
<1>7. PICK d \in Events : d = Event("cost_evaluated", c, nodes, FALSE) /\ d.is = "cost_evaluated"
  BY <1>1, EventTyped DEF EventKinds
<1>8. PICK h \in Events : h = Event("cost_evaluated", c, nodes, TRUE) /\ h.is = "cost_evaluated"
  BY <1>1, EventTyped DEF EventKinds
<1>9. /\ f.is # "run_converged" /\ f.is # "decision" /\ f.is # "verification_result" /\ f.is # "cost_evaluated"
      /\ p.is # "run_converged" /\ p.is # "decision" /\ p.is # "verification_result" /\ p.is # "cost_evaluated"
      /\ v.is # "run_converged" /\ v.is # "decision" /\ v.is # "cost_evaluated"
      /\ d.is # "run_converged" /\ d.is # "decision" /\ d.is # "verification_result"
      /\ h.is # "run_converged" /\ h.is # "decision" /\ h.is # "verification_result"
      /\ no.is # "run_converged" /\ no.is # "verification_result" /\ no.is # "cost_evaluated"
  BY <1>3, <1>4, <1>5, <1>6, <1>7, <1>8
<1>10. CASE result = "refuted"
  <2>1. Burst(c, result) = <<f, p, v>> \o <<no>>
    BY <1>3, <1>4, <1>5, <1>6, <1>10 DEF Burst
  <2>2. PICK b : b = <<f, p, v>> \o <<no>>
    OBVIOUS
  <2>3. b \in Seq(Events) /\ Len(b) = 4 /\ b[1] = f /\ b[2] = p /\ b[3] = v /\ b[4] = no
    BY <2>2
  <2>4. \A i \in 1 .. 4 : i = 1 \/ i = 2 \/ i = 3 \/ i = 4
    OBVIOUS
  <2>5. Ordered(b)
    <3> SUFFICES ASSUME NEW i \in 1 .. 4, i > 1
                 PROVE  /\ b[i].is = "verification_result" => b[i - 1].is = "candidate_proposed"
                        /\ b[i].is = "cost_evaluated" => b[i - 1].is = "verification_result"
      BY <2>3 DEF Ordered
    <3>1. (i = 2 /\ i - 1 = 1) \/ (i = 3 /\ i - 1 = 2) \/ (i = 4 /\ i - 1 = 3)
      OBVIOUS
    <3>2. CASE i = 2
      BY <1>3, <1>5, <1>6, <1>9, <2>3, <3>1, <3>2
    <3>3. CASE i = 3
      BY <1>3, <1>5, <1>6, <1>9, <2>3, <3>1, <3>3
    <3>4. CASE i = 4
      BY <1>3, <1>5, <1>6, <1>9, <2>3, <3>1, <3>4
    <3> QED
      BY <3>1, <3>2, <3>3, <3>4
  <2>6. Undecided(b)
    BY <1>3, <1>9, <2>3, <2>4 DEF Undecided
  <2>7. b # <<>>
    <3>1. PICK n \in Nat : n = Len(b) /\ n # 0
      BY <2>3
    <3>2. b \in Seq(Events)
      BY <2>3
    <3>3. b # <<>>
      BY <3>1, <3>2, EmptySeq
    <3> QED
      BY <3>3
  <2>8. Burst(c, result) = b
    BY <2>1, <2>2
  <2> QED
    BY <1>4, <2>3, <2>5, <2>6, <2>7, <2>8
<1>11. CASE result = "dearer"
  <2>1. Burst(c, result) = <<f, p, v>> \o <<d, no>>
    BY <1>3, <1>4, <1>5, <1>6, <1>7, <1>11 DEF Burst
  <2>2. PICK b : b = <<f, p, v>> \o <<d, no>>
    OBVIOUS
  <2>3. b \in Seq(Events) /\ Len(b) = 5 /\ b[1] = f /\ b[2] = p /\ b[3] = v /\ b[4] = d /\ b[5] = no
    BY <2>2
  <2>4. \A i \in 1 .. 5 : i = 1 \/ i = 2 \/ i = 3 \/ i = 4 \/ i = 5
    OBVIOUS
  <2>5. Ordered(b)
    <3> SUFFICES ASSUME NEW i \in 1 .. 5, i > 1
                 PROVE  /\ b[i].is = "verification_result" => b[i - 1].is = "candidate_proposed"
                        /\ b[i].is = "cost_evaluated" => b[i - 1].is = "verification_result"
      BY <2>3 DEF Ordered
    <3>1. (i = 2 /\ i - 1 = 1) \/ (i = 3 /\ i - 1 = 2) \/ (i = 4 /\ i - 1 = 3) \/ (i = 5 /\ i - 1 = 4)
      OBVIOUS
    <3>2. CASE i = 2
      BY <1>3, <1>5, <1>6, <1>9, <2>3, <3>1, <3>2
    <3>3. CASE i = 3
      BY <1>3, <1>5, <1>6, <1>9, <2>3, <3>1, <3>3
    <3>4. CASE i = 4
      BY <1>3, <1>5, <1>6, <1>9, <2>3, <3>1, <3>4
    <3>5. CASE i = 5
      BY <1>3, <1>5, <1>6, <1>9, <2>3, <3>1, <3>5
    <3> QED
      BY <3>1, <3>2, <3>3, <3>4, <3>5
  <2>6. Undecided(b)
    BY <1>3, <1>9, <2>3, <2>4 DEF Undecided
  <2>7. b # <<>>
    <3>1. PICK n \in Nat : n = Len(b) /\ n # 0
      BY <2>3
    <3>2. b \in Seq(Events)
      BY <2>3
    <3>3. b # <<>>
      BY <3>1, <3>2, EmptySeq
    <3> QED
      BY <3>3
  <2>8. Burst(c, result) = b
    BY <2>1, <2>2
  <2> QED
    BY <1>4, <2>3, <2>5, <2>6, <2>7, <2>8
<1>12. CASE result = "cheaper"
  <2>1. Burst(c, result) = <<f, p, v>> \o <<h>>
    BY <1>4, <1>5, <1>6, <1>8, <1>12 DEF Burst
  <2>2. PICK b : b = <<f, p, v>> \o <<h>>
    OBVIOUS
  <2>3. b \in Seq(Events) /\ Len(b) = 4 /\ b[1] = f /\ b[2] = p /\ b[3] = v /\ b[4] = h
    BY <2>2
  <2>4. \A i \in 1 .. 4 : i = 1 \/ i = 2 \/ i = 3 \/ i = 4
    OBVIOUS
  <2>5. Ordered(b)
    <3> SUFFICES ASSUME NEW i \in 1 .. 4, i > 1
                 PROVE  /\ b[i].is = "verification_result" => b[i - 1].is = "candidate_proposed"
                        /\ b[i].is = "cost_evaluated" => b[i - 1].is = "verification_result"
      BY <2>3 DEF Ordered
    <3>1. (i = 2 /\ i - 1 = 1) \/ (i = 3 /\ i - 1 = 2) \/ (i = 4 /\ i - 1 = 3)
      OBVIOUS
    <3>2. CASE i = 2
      BY <1>3, <1>5, <1>6, <1>9, <2>3, <3>1, <3>2
    <3>3. CASE i = 3
      BY <1>3, <1>5, <1>6, <1>9, <2>3, <3>1, <3>3
    <3>4. CASE i = 4
      BY <1>3, <1>5, <1>6, <1>9, <2>3, <3>1, <3>4
    <3> QED
      BY <3>1, <3>2, <3>3, <3>4
  <2>6. Undecided(b)
    BY <1>9, <2>3, <2>4 DEF Undecided
  <2>7. b # <<>>
    <3>1. PICK n \in Nat : n = Len(b) /\ n # 0
      BY <2>3
    <3>2. b \in Seq(Events)
      BY <2>3
    <3>3. b # <<>>
      BY <3>1, <3>2, EmptySeq
    <3> QED
      BY <3>3
  <2>8. Burst(c, result) = b
    BY <2>1, <2>2
  <2> QED
    BY <1>4, <2>3, <2>5, <2>6, <2>7, <2>8
<1> QED
  BY <1>10, <1>11, <1>12 DEF Results

\* The engine: a program is expanded as long as a move is left for it.
EngineTrue ==
  /\ engine \in {"start", "expand", "choose", "ended"}
  /\ nodes \in 0 .. MaxMoves /\ found \in 0 .. MaxFound /\ better \subseteq Candidates
  /\ moves \in Seq(Candidates) /\ Len(moves) <= MaxMoves
  /\ engine = "start" => nodes = 0 /\ moves = <<>>
  /\ engine = "expand" => nodes = Len(moves) /\ nodes < MaxMoves
  /\ engine = "choose" => better = {} \/ nodes = Len(moves) + 1
  /\ engine \in {"start", "choose"} => wire = <<>>

\* The end of a log on the wire: what of the moves is still to be reported, then the convergence.
Closing ==
  /\ wire # <<>> /\ wire[Len(wire)].is = "run_converged"
  /\ \A i \in 1 .. Len(wire) - 1 : wire[i].is = "decision" /\ wire[i].yes
  /\ trace.accepted + Len(wire) = Len(moves) + 1
Reading == web \in {"read", "append", "rows"}

WireTrue ==
  /\ wire \in Seq(Events) /\ Ordered(wire)
  /\ wire # <<>> /\ wire[1].is \in {"verification_result", "cost_evaluated"} /\ trace.open => Last(trace.steps).proposed
  /\ engine # "ended" => trace.accepted = 0 /\ Undecided(wire)
  /\ engine = "ended" => wire = <<>> \/ (Len(wire) = 1 /\ wire[1].is = "run_failed") \/ Closing
  /\ trace.final => engine = "ended" /\ trace.accepted = Len(moves) /\ ~Closing
  /\ trace.accepted <= Len(moves)
  /\ Reading /\ engine = "ended" /\ wire = <<>> => trace.status # "streaming"

StoreTrue ==
  /\ trace \in Logs /\ stored \in Logs /\ LogTrue(trace) /\ LogTrue(stored)
  /\ last \in Events /\ web \in WebSteps /\ left \in BOOLEAN /\ dbErrors \in 0 .. MaxDbErrors /\ lost \in 0 .. dbErrors
  /\ web \in {"read", "rows"} => stored = trace
  /\ web = "append" => trace = FoldEvent(stored, last)
  /\ web = "appendFailure" => last.is = "run_failed" /\ (dbErrors = 0 => trace = FoldEvent(stored, last))
  /\ web \in {"finish", "over"} /\ dbErrors = 0 => stored = trace /\ (trace.status = "streaming" => left)
  /\ status \in {"RUNNING", "SUCCEEDED", "FAILED", "ABANDONED"}
  /\ web = "over" /\ dbErrors = 0 => status = FinalStatus(stored.status)
  /\ stored.accepted <= trace.accepted
  /\ stored.final => engine = "ended" /\ stored.accepted = Len(moves)

RowsTrue ==
  /\ fresh \in Seq(Row) /\ rows \in Seq(Row)
  /\ written \in 0 .. Len(trace.steps)
  /\ web # "rows" => web = "dead" \/ fresh = <<>>
  /\ web \in {"read", "append"} => rows = RowsOf(Settled(stored))
  /\ web = "rows" => rows \o fresh = RowsOf(Settled(stored))
  /\ Reading => written = Len(Settled(stored))
  /\ IsPrefix(rows, RowsOf(Settled(stored)))

\* The route and the recorder leave the engine alone, and take from the wire only.
Idle == UNCHANGED engineVars /\ (wire' = wire \/ wire' = <<>> \/ (wire # <<>> /\ wire' = Tail(wire)))

LEMMA RouteIdle ==
  ASSUME Read \/ Appended \/ RowsWritten \/ StreamEnds \/ Finish \/ ReadThrows \/ DbFails \/ Leave \/ Die
  PROVE  Idle
BY DEF Idle, Read, Appended, RowsWritten, StreamEnds, Finish, ReadThrows, DbFails, Leave, Die, Engine, Catch, webVars

LEMMA EngineHolds == EngineTrue /\ Next => EngineTrue'
<1> SUFFICES ASSUME EngineTrue, Next PROVE EngineTrue'
  OBVIOUS
<1> USE BoundAssumption
<1>1. CASE Idle
  BY <1>1 DEF Idle, engineVars, EngineTrue
<1>2. CASE Start
  BY <1>2, EmptySeq DEF Start, Emit, EngineTrue
<1>3. CASE Expanded
  BY <1>3, LenProperties DEF Expanded, EngineTrue
<1>4. CASE Settle
  BY <1>4 DEF Settle, EngineTrue
<1>5. ASSUME NEW c \in Candidates, Take(c) PROVE EngineTrue'
  <2>1. moves' \in Seq(Candidates) /\ Len(moves') = Len(moves) + 1 /\ Len(moves) \in Nat
    BY <1>5, AppendProperties, LenProperties DEF Take, EngineTrue
  <2>2. nodes = Len(moves) + 1 /\ nodes <= MaxMoves
    BY <1>5 DEF Take, EngineTrue
  <2>3. engine' = IF Len(moves) + 1 < MaxMoves THEN "expand" ELSE "choose"
    BY <1>5 DEF Take, MovesLeft
  <2>4. better' = {} /\ found' = 0 /\ nodes' = nodes /\ wire' = wire /\ wire = <<>>
    BY <1>5 DEF Take, EngineTrue
  <2> QED
    BY <2>1, <2>2, <2>3, <2>4 DEF EngineTrue
<1>6. ASSUME NEW c \in Candidates, NEW r \in Results, Propose(c, r) PROVE EngineTrue'
  <2>1. better' \subseteq Candidates
    BY <1>6 DEF Propose, EngineTrue
  <2> QED
    BY <1>6, <2>1 DEF Propose, EngineTrue
<1>7. CASE ServiceFails
  BY <1>7 DEF ServiceFails, EngineTrue
<1> QED
  BY <1>1, <1>2, <1>3, <1>4, <1>5, <1>6, <1>7, RouteIdle DEF Next, EngineStep, RouteStep

\* What whoever reads an event learns of the log.
LEMMA Told ==
  ASSUME NEW t \in Logs, NEW e \in Events, NEW u, Folded(t, u, e)
  PROVE  /\ e.is = "candidate_proposed" => Last(u.steps).proposed
         /\ e.is = "verification_result" /\ u.open => t.open /\ (Last(t.steps).proposed => Last(u.steps).proposed)
         /\ u.accepted = IF e.is = "decision" /\ e.yes THEN t.accepted + 1 ELSE t.accepted
<1>1. u \in Logs /\ u.steps \in Seq(Steps) /\ t.steps \in Seq(Steps)
  BY DEF Folded, Logs
<1>2. ASSUME NEW x, Grows(t.steps, u.steps, x) \/ Turns(t.steps, u.steps, x) PROVE Last(u.steps) = x
  <2>1. u.steps # <<>>
    BY <1>1, <1>2, LenProperties, EmptySeq DEF Grows, Turns
  <2>2. Last(u.steps) = u.steps[Len(u.steps)]
    BY <1>1, <2>1, LastIs
  <2> QED
    BY <1>2, <2>2 DEF Grows, Turns
<1>3. CASE Speaks(t, u, e)
  BY <1>3 DEF Speaks
<1>4. CASE Opens(t, u, e)
  <2>1. PICK x \in Steps : Grows(t.steps, u.steps, x) /\ (x.proposed <=> e.is = "candidate_proposed")
    BY <1>4 DEF Opens
  <2>2. Last(u.steps) = x
    BY <1>2, <2>1
  <2> QED
    BY <1>4, <2>1, <2>2 DEF Opens
<1>5. CASE Marks(t, u, e)
  <2>1. PICK x \in Steps : Turns(t.steps, u.steps, x) /\ (x.proposed <=> Last(t.steps).proposed \/ e.is = "candidate_proposed")
    BY <1>5 DEF Marks
  <2>2. Last(u.steps) = x
    BY <1>2, <2>1
  <2> QED
    BY <1>5, <2>1, <2>2 DEF Marks
<1>6. CASE Decides(t, u, e)
  BY <1>6 DEF Decides
<1> QED
  BY <1>3, <1>4, <1>5, <1>6 DEF Folded

LEMMA Rest ==
  ASSUME NEW s \in Seq(Events), s # <<>>
  PROVE  /\ Head(s) = s[1] /\ s[1] \in Events /\ Tail(s) \in Seq(Events)
         /\ Len(s) \in Nat \ {0} /\ Len(Tail(s)) = Len(s) - 1
         /\ \A i \in 1 .. Len(s) - 1 : Tail(s)[i] = s[i + 1]
<1>1. Len(s) \in Nat \ {0}
  BY EmptySeq
<1>2. 1 \in 1 .. Len(s)
  BY <1>1
<1> QED
  BY <1>1, <1>2, ElementOfSeq, HeadTailProperties

\* An event is read: what is left on the wire fits the log it was folded into.
LEMMA ReadHolds == EngineTrue /\ WireTrue /\ StoreTrue /\ Read => WireTrue'
<1> SUFFICES ASSUME EngineTrue, WireTrue, StoreTrue, Read PROVE WireTrue'
  OBVIOUS
<1>1. PICK s \in Seq(Events) : s = wire /\ s # <<>>
  BY DEF WireTrue, Read
<1>2. PICK n \in Nat : n + 1 = Len(s)
  BY <1>1, Rest
<1>3. PICK e \in Events : e = s[1] /\ e = Head(s)
  BY <1>1, Rest
<1>4. PICK w \in Seq(Events) : w = Tail(s) /\ Len(w) = n /\ \A i \in 1 .. n : w[i] = s[i + 1]
  <2>1. Len(s) - 1 = n
    BY <1>1, <1>2
  <2> QED
    BY <1>1, <2>1, Rest
<1>5. wire' = w /\ last' = e /\ trace' = FoldEvent(trace, e) /\ engine' = engine /\ moves' = moves
  BY <1>1, <1>3, <1>4 DEF Read, Push, Engine, engineVars
<1>6. PICK t \in Logs : t = trace /\ LogTrue(t)
  BY DEF StoreTrue
<1>7. PICK u : u = FoldEvent(t, e)
  OBVIOUS
<1>8. Folded(t, u, e)
  BY <1>6, <1>7, FoldIs DEF LogTrue
<1>9. u = trace'
  BY <1>5, <1>6, <1>7
<1>10. /\ e.is = "candidate_proposed" => Last(u.steps).proposed
       /\ e.is = "verification_result" /\ u.open => t.open /\ (Last(t.steps).proposed => Last(u.steps).proposed)
       /\ u.accepted = IF e.is = "decision" /\ e.yes THEN t.accepted + 1 ELSE t.accepted
  BY <1>8, Told
<1>11. u.status = CASE e.is = "run_converged" -> "converged" [] e.is = "run_failed" -> "failed" [] OTHER -> t.status
  BY <1>8 DEF Folded
<1>18. u.final <=> t.final \/ e.is = "run_converged"
  BY <1>8 DEF Folded
<1>12. t.accepted \in Nat /\ moves \in Seq(Candidates) /\ Len(moves) \in Nat
  BY LenProperties DEF Logs, EngineTrue
<1>13. w \in Seq(Events) /\ Ordered(w)
  <2> SUFFICES ASSUME NEW i \in 1 .. n, i > 1
               PROVE  /\ w[i].is = "verification_result" => w[i - 1].is = "candidate_proposed"
                      /\ w[i].is = "cost_evaluated" => w[i - 1].is = "verification_result"
    BY <1>4 DEF Ordered
  <2>1. PICK j \in 1 .. n + 1 : j = i + 1 /\ j > 1 /\ j - 1 = i /\ i - 1 + 1 = i /\ i - 1 \in 1 .. n
    OBVIOUS
  <2>2. w[i] = s[j] /\ w[i - 1] = s[j - 1]
    BY <1>4, <2>1
  <2> QED
    BY <1>1, <1>2, <2>1, <2>2 DEF WireTrue, Ordered
<1>14. w # <<>> /\ w[1].is \in {"verification_result", "cost_evaluated"} /\ u.open => Last(u.steps).proposed
  <2> SUFFICES ASSUME w # <<>>, w[1].is \in {"verification_result", "cost_evaluated"}, u.open PROVE Last(u.steps).proposed
    OBVIOUS
  <2>1. n # 0 /\ w[1] = s[2] /\ 2 \in 1 .. Len(s) /\ 2 > 1 /\ 2 - 1 = 1
    <3>1. n # 0
      BY <1>4, EmptySeq
    <3> QED
      BY <1>2, <1>4, <3>1
  <2>2. /\ s[2].is = "verification_result" => s[1].is = "candidate_proposed"
        /\ s[2].is = "cost_evaluated" => s[1].is = "verification_result"
    BY <1>1, <2>1 DEF WireTrue, Ordered
  <2>3. CASE e.is = "candidate_proposed"
    BY <1>10, <2>3
  <2>4. CASE e.is = "verification_result"
    BY <1>1, <1>3, <1>6, <1>10, <2>4 DEF WireTrue
  <2> QED
    BY <1>3, <2>1, <2>2, <2>3, <2>4
<1>15. engine # "ended" => u.accepted = 0 /\ Undecided(w) /\ ~u.final
  <2> SUFFICES ASSUME engine # "ended" PROVE u.accepted = 0 /\ Undecided(w) /\ ~u.final
    OBVIOUS
  <2>1. t.accepted = 0 /\ Undecided(s) /\ ~t.final
    BY <1>1, <1>6 DEF WireTrue
  <2>2. e.is # "run_converged" /\ (e.is = "decision" => ~e.yes)
    BY <1>2, <1>3, <2>1 DEF Undecided
  <2>3. Undecided(w)
    <3> SUFFICES ASSUME NEW i \in 1 .. n PROVE w[i].is # "run_converged" /\ (w[i].is = "decision" => ~w[i].yes)
      BY <1>4 DEF Undecided
    <3>1. i + 1 \in 1 .. Len(s) /\ w[i] = s[i + 1]
      BY <1>2, <1>4
    <3> QED
      BY <2>1, <3>1 DEF Undecided
  <2>4. ~u.final
    BY <1>18, <2>1, <2>2
  <2> QED
    BY <1>10, <2>1, <2>2, <2>3, <2>4
<1>16. ASSUME engine = "ended"
       PROVE  /\ w = <<>> \/ (Len(w) = 1 /\ w[1].is = "run_failed") \/ Closing'
              /\ u.final => u.accepted = Len(moves) /\ ~Closing'
              /\ u.accepted <= Len(moves)
              /\ w = <<>> => u.status # "streaming"
  <2>1. CASE n + 1 = 1 /\ s[1].is = "run_failed"
    <3>1. n = 0
      BY <2>1
    <3>2. w = <<>>
      BY <1>4, <3>1, EmptySeq
    <3>3. u.status = "failed" /\ u.accepted = t.accepted /\ (u.final <=> t.final)
      BY <1>3, <1>10, <1>11, <1>18, <2>1
    <3>4. ~Closing'
      BY <1>5, <3>2 DEF Closing
    <3> QED
      BY <1>6, <3>2, <3>3, <3>4 DEF WireTrue
  <2>2. CASE Closing
    <3>1. /\ s[n + 1].is = "run_converged" /\ t.accepted + n = Len(moves)
          /\ \A i \in 1 .. n : s[i].is = "decision" /\ s[i].yes
      <4>1. Len(wire) = n + 1 /\ wire = s /\ trace = t
        BY <1>1, <1>2, <1>6
      <4>2. /\ wire[Len(wire)].is = "run_converged" /\ trace.accepted + Len(wire) = Len(moves) + 1
            /\ \A i \in 1 .. Len(wire) - 1 : wire[i].is = "decision" /\ wire[i].yes
        BY <2>2 DEF Closing
      <4>3. n + 1 - 1 = n
        OBVIOUS
      <4> QED
        BY <1>12, <4>1, <4>2, <4>3
    <3>2. CASE n = 0
      <4>1. w = <<>>
        BY <1>4, <3>2, EmptySeq
      <4>2. e.is = "run_converged"
        BY <1>3, <3>1, <3>2
      <4>3. u.status = "converged" /\ u.accepted = t.accepted /\ u.accepted = Len(moves)
        BY <1>10, <1>11, <1>12, <3>1, <3>2, <4>2
      <4>4. ~Closing'
        BY <1>5, <4>1 DEF Closing
      <4> QED
        BY <1>12, <4>1, <4>3, <4>4
    <3>3. CASE n # 0
      <4>1. e.is = "decision" /\ e.yes
        <5>1. 1 \in 1 .. n
          BY <3>3
        <5> QED
          BY <1>3, <3>1, <5>1
      <4>2. u.accepted = t.accepted + 1 /\ (u.final <=> t.final)
        BY <1>10, <1>18, <4>1
      <4>3. w # <<>> /\ w[Len(w)].is = "run_converged"
        <5>0. n \in 1 .. n /\ Len(w) = n
          BY <1>2, <1>4, <3>3
        <5>1. w[n] = s[n + 1]
          BY <1>4, <5>0
        <5>2. w # <<>>
          BY <3>3, <5>0, EmptySeq
        <5> QED
          BY <3>1, <5>0, <5>1, <5>2
      <4>4. \A i \in 1 .. Len(w) - 1 : w[i].is = "decision" /\ w[i].yes
        <5> SUFFICES ASSUME NEW i \in 1 .. n - 1 PROVE w[i].is = "decision" /\ w[i].yes
          BY <1>4
        <5>1. i \in 1 .. n /\ i + 1 \in 1 .. n /\ w[i] = s[i + 1]
          BY <1>4
        <5> QED
          BY <3>1, <5>1
      <4>5. u.accepted + Len(w) = Len(moves) + 1
        <5>1. t.accepted \in Nat /\ Len(moves) \in Nat /\ Len(w) = n
          BY <1>4, <1>12
        <5>2. t.accepted + n = Len(moves) /\ u.accepted = t.accepted + 1
          BY <3>1, <4>2
        <5> QED
          BY <5>1, <5>2
      <4>6. Closing'
        <5>1. wire' = w /\ trace' = u /\ moves' = moves
          BY <1>5, <1>9
        <5> QED
          BY <4>3, <4>4, <4>5, <5>1 DEF Closing
      <4>7. ~t.final
        BY <1>6, <2>2, <1>16 DEF WireTrue
      <4>8. u.accepted <= Len(moves)
        BY <1>4, <1>12, <3>3, <4>2, <4>5
      <4> QED
        BY <4>2, <4>3, <4>6, <4>7, <4>8
    <3> QED
      BY <3>2, <3>3
  <2> QED
    BY <1>1, <1>2, <1>16, <2>1, <2>2 DEF WireTrue
<1>17. u.accepted <= Len(moves)
  BY <1>12, <1>15, <1>16
<1> QED
  BY <1>5, <1>9, <1>13, <1>14, <1>15, <1>16, <1>17 DEF WireTrue

\* A log of one event.
LEMMA OneEvent ==
  ASSUME NEW e \in Events
  PROVE  /\ <<e>> \in Seq(Events) /\ Len(<<e>>) = 1 /\ <<e>>[1] = e /\ <<e>> # <<>>
         /\ Ordered(<<e>>)
         /\ e.is # "run_converged" /\ e.is # "decision" => Undecided(<<e>>)
<1>1. PICK b : b = <<e>>
  OBVIOUS
<1>2. b \in Seq(Events) /\ Len(b) = 1 /\ b[1] = e /\ b # <<>>
  BY <1>1
<1>3. Ordered(b)
  BY <1>2 DEF Ordered
<1>4. e.is # "run_converged" /\ e.is # "decision" => Undecided(b)
  BY <1>2 DEF Undecided
<1> QED
  BY <1>1, <1>2, <1>3, <1>4

\* The reader stays where the wire, the log and the engine stay.
LEMMA WireStill ==
  ASSUME WireTrue, UNCHANGED <<wire, trace, engine, moves>>, Reading' => Reading
  PROVE  WireTrue'
BY DEF WireTrue, Closing

\* The wire breaks, and the log takes note or not.
LEMMA WireBroken ==
  ASSUME WireTrue, StoreTrue, EngineTrue, wire' = <<>>, UNCHANGED <<engine, moves>>, ~Reading',
         trace' = trace \/ trace' = FoldEvent(trace, Mark("run_failed"))
  PROVE  WireTrue'
<1>1. PICK t \in Logs : t = trace /\ LogTrue(t)
  BY DEF StoreTrue
<1>2. PICK e \in Events : e = Mark("run_failed") /\ e.is = "run_failed"
  BY MarkTyped DEF EventKinds
<1>3. Folded(t, FoldEvent(t, e), e)
  BY <1>1, FoldIs DEF LogTrue
<1>4. PICK u : u = FoldEvent(t, e)
  OBVIOUS
<1>5. u.accepted = t.accepted /\ u.status = "failed" /\ (u.final <=> t.final)
  BY <1>2, <1>3, <1>4, Told DEF Folded
<1>6. trace' = t \/ trace' = u
  BY <1>1, <1>2, <1>4
<1>7. PICK w \in Seq(Events) : w = <<>> /\ Len(w) = 0
  BY EmptySeq
<1>8. Ordered(w) /\ Undecided(w)
  BY <1>7 DEF Ordered, Undecided
<1>9. ~Closing'
  BY DEF Closing
<1> QED
  BY <1>1, <1>5, <1>6, <1>7, <1>8, <1>9 DEF WireTrue

LEMMA SettleHolds == EngineTrue /\ WireTrue /\ StoreTrue /\ Settle => WireTrue'
<1> SUFFICES ASSUME EngineTrue, WireTrue, StoreTrue, Settle PROVE WireTrue'
  OBVIOUS
<1>1. PICK m \in Nat : m = Len(moves) /\ m \in 0 .. MaxMoves /\ DOMAIN moves = 1 .. m
  BY LenProperties, BoundAssumption DEF EngineTrue
<1>2. ASSUME NEW i \in 1 .. m PROVE Accepted(moves[i]) \in Events /\ Accepted(moves[i]).is = "decision" /\ Accepted(moves[i]).yes
  <2>1. PICK c \in Candidates : c = moves[i]
    BY <1>1, ElementOfSeq DEF EngineTrue
  <2>2. c.kind \in Kinds /\ c.site \in Sites
    BY DEF Candidates
  <2>3. Event("decision", c, m, TRUE) \in Events /\ Event("decision", c, m, TRUE).is = "decision" /\ Event("decision", c, m, TRUE).yes
    BY <1>1, <2>2, EventTyped DEF EventKinds
  <2> QED
    BY <1>1, <2>1, <2>3 DEF Accepted
<1>3. PICK a : a = [i \in 1 .. m |-> Accepted(moves[i])]
  OBVIOUS
<1>4. a \in Seq(Events) /\ Len(a) = m
  <2>1. a \in [1 .. m -> Events]
    BY <1>2, <1>3
  <2> QED
    BY <2>1, SeqDef
<1>5. PICK e \in Events : e = Mark("run_converged") /\ e.is = "run_converged"
  BY MarkTyped DEF EventKinds
<1>6. PICK b \in Seq(Events) : b = <<e>> /\ Len(b) = 1 /\ b[1] = e
  BY OneEvent
<1>7. PICK w : w = a \o b
  OBVIOUS
<1>8. wire' = w /\ wire = <<>> /\ engine' = "ended" /\ engine = "choose" /\ moves' = moves /\ trace' = trace
  BY <1>1, <1>3, <1>5, <1>6, <1>7 DEF Settle, Emit, Reported, Untouched, webVars
<1>9. w \in Seq(Events) /\ Len(w) = m + 1 /\ \A i \in 1 .. m + 1 : w[i] = IF i <= m THEN a[i] ELSE b[i - m]
  BY <1>1, <1>4, <1>6, <1>7, ConcatProperties
<1>10. w[m + 1] = e /\ w # <<>>
  <2>1. m + 1 \in 1 .. m + 1 /\ ~(m + 1 <= m) /\ m + 1 - m = 1 /\ m + 1 # 0
    BY <1>1
  <2>2. w[m + 1] = e
    BY <1>6, <1>9, <2>1
  <2>3. Len(w) # 0
    BY <1>9, <2>1
  <2> QED
    BY <2>2, <2>3, EmptySeq
<1>11. ASSUME NEW i \in 1 .. m PROVE w[i].is = "decision" /\ w[i].yes
  <2>1. i \in 1 .. m + 1 /\ i <= m
    BY <1>1
  <2>2. w[i] = a[i]
    BY <1>9, <2>1
  <2> QED
    BY <1>2, <1>3, <2>2
<1>12. ASSUME NEW i \in 1 .. m + 1 PROVE w[i].is \in {"decision", "run_converged"}
  <2>1. i \in 1 .. m \/ i = m + 1
    BY <1>1
  <2> QED
    BY <1>5, <1>10, <1>11, <2>1
<1>13. Ordered(w)
  BY <1>9, <1>12 DEF Ordered
<1>14. trace.accepted = 0 /\ ~trace.final
  BY <1>8 DEF WireTrue
<1>15. Closing'
  <2>1. Len(w) - 1 = m /\ 0 + Len(w) = m + 1
    BY <1>1, <1>9
  <2>2. w # <<>> /\ w[Len(w)].is = "run_converged" /\ \A i \in 1 .. Len(w) - 1 : w[i].is = "decision" /\ w[i].yes
    BY <1>5, <1>9, <1>10, <1>11, <2>1
  <2> QED
    BY <1>1, <1>8, <1>14, <2>1, <2>2 DEF Closing
<1>16. w[1].is \in {"decision", "run_converged"}
  BY <1>1, <1>12
<1>17. trace.accepted <= Len(moves)
  BY <1>1, <1>14
<1> QED
  BY <1>8, <1>9, <1>10, <1>13, <1>14, <1>15, <1>16, <1>17 DEF WireTrue

LEMMA EmitHolds ==
  ASSUME EngineTrue, WireTrue, NEW log \in Seq(Events), log # <<>>, wire' = log, Ordered(log), UNCHANGED <<moves, trace>>,
         log[1].is \notin {"verification_result", "cost_evaluated"},
         \/ engine # "ended" /\ engine' # "ended" /\ Undecided(log)
         \/ engine' = "ended" /\ Len(log) = 1 /\ log[1].is = "run_failed"
  PROVE  WireTrue'
<1>1. CASE engine # "ended" /\ engine' # "ended" /\ Undecided(log)
  <2>1. ~trace.final /\ trace.accepted = 0
    BY <1>1 DEF WireTrue
  <2> QED
    BY <1>1, <2>1 DEF WireTrue
<1>2. CASE engine' = "ended" /\ Len(log) = 1 /\ log[1].is = "run_failed"
  <2>1. ~Closing'
    BY <1>2 DEF Closing
  <2>2. trace.final => trace.accepted = Len(moves)
    BY DEF WireTrue
  <2> QED
    BY <1>2, <2>1, <2>2 DEF WireTrue
<1> QED
  BY <1>1, <1>2

LEMMA WireHolds == EngineTrue /\ WireTrue /\ StoreTrue /\ Next => WireTrue'
<1> SUFFICES ASSUME EngineTrue, WireTrue, StoreTrue, Next PROVE WireTrue'
  OBVIOUS
<1>1. CASE Start
  <2>1. PICK e \in Events : e = Mark("run_started") /\ e.is = "run_started"
    BY MarkTyped DEF EventKinds
  <2>2. PICK b \in Seq(Events) : b = <<e>> /\ Len(b) = 1 /\ b[1] = e /\ b # <<>> /\ Ordered(b) /\ Undecided(b)
    BY <2>1, OneEvent
  <2>3. wire' = b /\ engine = "start" /\ engine' = "expand" /\ UNCHANGED <<moves, trace>>
    BY <1>1, <2>1, <2>2 DEF Start, Emit, Untouched, webVars
  <2> QED
    BY <2>1, <2>2, <2>3, EmitHolds
<1>2. CASE ServiceFails
  <2>1. PICK e \in Events : e = Mark("run_failed") /\ e.is = "run_failed"
    BY MarkTyped DEF EventKinds
  <2>2. PICK b \in Seq(Events) : b = <<e>> /\ Len(b) = 1 /\ b[1] = e /\ b # <<>> /\ Ordered(b)
    BY OneEvent
  <2>3. wire' = b /\ engine' = "ended" /\ UNCHANGED <<moves, trace>>
    BY <1>2, <2>1, <2>2 DEF ServiceFails, Emit, Untouched, webVars
  <2> QED
    BY <2>1, <2>2, <2>3, EmitHolds
<1>3. ASSUME NEW c \in Candidates, NEW r \in Results, Propose(c, r) PROVE WireTrue'
  <2>1. nodes \in 0 .. MaxMoves
    BY DEF EngineTrue
  <2>2. PICK b \in Seq(Events) : b = Burst(c, r) /\ b # <<>> /\ b[1].is = "opportunity_found" /\ Ordered(b) /\ Undecided(b)
    BY <2>1, BurstIs
  <2>3. wire' = b /\ engine = "expand" /\ engine' = "expand" /\ UNCHANGED <<moves, trace>>
    BY <1>3, <2>2 DEF Propose, Emit, Untouched, webVars
  <2> QED
    BY <2>2, <2>3, EmitHolds
<1>4. CASE Expanded
  <2>1. wire' = wire /\ wire = <<>> /\ engine # "ended" /\ engine' # "ended" /\ UNCHANGED <<moves, trace>>
    BY <1>4 DEF Expanded, Untouched, webVars
  <2>2. ~Closing'
    BY <2>1 DEF Closing
  <2> QED
    BY <2>1, <2>2 DEF WireTrue
<1>5. ASSUME NEW c \in Candidates, Take(c) PROVE WireTrue'
  <2>1. wire' = wire /\ wire = <<>> /\ engine # "ended" /\ engine' # "ended" /\ trace' = trace
    BY <1>5 DEF Take, Untouched, webVars, EngineTrue
  <2>2. Len(moves') \in Nat /\ trace.accepted = 0
    <3>1. moves' \in Seq(Candidates)
      BY <1>5, AppendProperties DEF Take, EngineTrue
    <3> QED
      BY <2>1, <3>1, LenProperties DEF WireTrue
  <2> QED
    BY <2>1, <2>2 DEF WireTrue
<1>6. CASE Leave \/ Die \/ Appended \/ RowsWritten \/ StreamEnds \/ Finish
  <2>1. UNCHANGED <<wire, trace, engine, moves>>
    BY <1>6 DEF Leave, Die, Appended, RowsWritten, StreamEnds, Finish, Engine, engineVars, webVars
  <2>2. Reading' => Reading
    <3>1. CASE Leave \/ Die \/ RowsWritten \/ StreamEnds \/ Finish
      BY <3>1 DEF Leave, Die, RowsWritten, StreamEnds, Finish, Reading, webVars
    <3>2. CASE Appended
      <4>1. web = "append" \/ (web = "appendFailure" /\ web' = "finish")
        BY <3>2 DEF Appended
      <4> QED
        BY <4>1 DEF Reading
    <3> QED
      BY <1>6, <3>1, <3>2
  <2> QED
    BY <2>1, <2>2, WireStill
<1>7. CASE ReadThrows \/ DbFails
  <2>1. wire' = <<>> /\ UNCHANGED <<engine, moves>>
    BY <1>7 DEF ReadThrows, DbFails, Engine, engineVars
  <2>2. ~Reading'
    BY <1>7 DEF ReadThrows, DbFails, Catch, AfterLeaving, Reading
  <2>3. trace' = trace \/ trace' = FoldEvent(trace, Mark("run_failed"))
    BY <1>7 DEF ReadThrows, DbFails, Catch, Push
  <2> QED
    BY <2>1, <2>2, <2>3, WireBroken
<1> QED
  BY <1>1, <1>2, <1>3, <1>4, <1>5, <1>6, <1>7, SettleHolds, ReadHolds DEF Next, EngineStep, RouteStep

\* A failure is one more event of a log, and says only how it stands.
LEMMA Failed ==
  ASSUME NEW t \in Logs, LogTrue(t), NEW e \in Events, e.is = "run_failed"
  PROVE  LET u == FoldEvent(t, e) IN u \in Logs /\ LogTrue(u) /\ u.accepted = t.accepted /\ u.status = "failed" /\ (u.final <=> t.final)
<1>1. PICK u : u = FoldEvent(t, e)
  OBVIOUS
<1>2. Folded(t, u, e)
  BY <1>1, FoldIs DEF LogTrue
<1>3. LogTrue(u)
  BY <1>2, LogStep DEF Fits
<1>4. u.accepted = t.accepted
  BY <1>2, Told
<1>5. u \in Logs /\ u.status = "failed" /\ (u.final <=> t.final)
  BY <1>2 DEF Folded
<1> QED
  BY <1>1, <1>3, <1>4, <1>5

LEMMA FinalTyped ==
  ASSUME NEW t \in Logs
  PROVE  FinalStatus(t.status) \in {"RUNNING", "SUCCEEDED", "FAILED", "ABANDONED"}
BY DEF FinalStatus

\* The wire's next event fits the log.
LEMMA HeadFits == EngineTrue /\ WireTrue /\ StoreTrue /\ wire # <<>> => Fits(trace, wire[1])
<1> SUFFICES ASSUME EngineTrue, WireTrue, StoreTrue, wire # <<>> PROVE Fits(trace, wire[1])
  OBVIOUS
<1> QED
  BY DEF WireTrue, Fits

\* What the route and its recorder leave alone.
LEMMA StoreStill ==
  ASSUME StoreTrue, UNCHANGED <<trace, stored, last, left, dbErrors, lost, status>>, web' = web \/ web' = "dead",
         (engine' = engine /\ moves' = moves) \/ engine # "ended" \/ (engine' = "ended" /\ moves' = moves)
  PROVE  StoreTrue'
<1>1. web' \in WebSteps
  BY DEF StoreTrue, WebSteps
<1>2. stored.final => engine' = "ended" /\ stored.accepted = Len(moves')
  BY DEF StoreTrue
<1> QED
  BY <1>1, <1>2 DEF StoreTrue

LEMMA ReadStored == EngineTrue /\ WireTrue /\ StoreTrue /\ Read => StoreTrue'
<1> SUFFICES ASSUME EngineTrue, WireTrue, StoreTrue, Read PROVE StoreTrue'
  OBVIOUS
<1>1. PICK e \in Events : e = wire[1] /\ e = Head(wire)
  BY Rest DEF WireTrue, Read
<1>2. PICK t \in Logs : t = trace /\ LogTrue(t)
  BY DEF StoreTrue
<1>3. PICK u : u = FoldEvent(t, e)
  OBVIOUS
<1>4. Folded(t, u, e)
  BY <1>2, <1>3, FoldIs DEF LogTrue
<1>5. Fits(t, e)
  BY <1>1, <1>2, HeadFits DEF Read
<1>6. LogTrue(u) /\ u \in Logs
  BY <1>2, <1>4, <1>5, LogStep DEF Folded
<1>7. t.accepted <= u.accepted
  BY <1>2, <1>4, Told DEF Logs
<1>8. trace' = u /\ last' = e /\ web' = "append" /\ web = "read" /\ stored = trace
  BY <1>1, <1>2, <1>3 DEF Read, Push, StoreTrue
<1>9. UNCHANGED <<stored, lost, status, left, dbErrors, engine, moves>>
  BY DEF Read, Engine, engineVars
<1> QED
  BY <1>2, <1>3, <1>6, <1>7, <1>8, <1>9 DEF StoreTrue, WebSteps

LEMMA AppendedStored == EngineTrue /\ WireTrue /\ StoreTrue /\ Appended => StoreTrue'
<1> SUFFICES ASSUME EngineTrue, WireTrue, StoreTrue, Appended PROVE StoreTrue'
  OBVIOUS
<1>1. UNCHANGED <<trace, last, lost, status, left, dbErrors, engine, moves>>
  BY DEF Appended, Engine, engineVars
<1>2. stored' = FoldEvent(stored, last) /\ web \in {"append", "appendFailure"}
  BY DEF Appended
<1>3. CASE web = "append"
  <2>1. web' \in {"read", "rows"}
    BY <1>3 DEF Appended
  <2>2. stored' = trace /\ trace' = trace
    BY <1>1, <1>2, <1>3 DEF StoreTrue
  <2>3. trace.final => engine = "ended" /\ trace.accepted = Len(moves)
    BY DEF WireTrue
  <2>4. trace.accepted <= trace.accepted
    BY DEF StoreTrue, Logs
  <2> QED
    BY <1>1, <2>1, <2>2, <2>3, <2>4 DEF StoreTrue, WebSteps
<1>4. CASE web = "appendFailure"
  <2>1. web' = "finish"
    BY <1>4 DEF Appended
  <2>2. PICK u : u = stored'
    OBVIOUS
  <2>3. u \in Logs /\ LogTrue(u) /\ u.accepted = stored.accepted /\ u.status = "failed" /\ (u.final <=> stored.final)
    BY <1>2, <1>4, <2>2, Failed DEF StoreTrue
  <2>4. dbErrors = 0 => trace = u
    BY <1>2, <1>4, <2>2 DEF StoreTrue
  <2> QED
    BY <1>1, <2>1, <2>2, <2>3, <2>4 DEF StoreTrue, WebSteps
<1> QED
  BY <1>2, <1>3, <1>4

\* The catch block: the failure is one more event, or the reader has left.
LEMMA CatchStored ==
  ASSUME StoreTrue, Catch, dbErrors' \in 0 .. MaxDbErrors, lost' \in 0 .. dbErrors',
         dbErrors' = 0 => dbErrors = 0 /\ web \in {"read", "rows"},
         UNCHANGED <<stored, status, left, engine, moves>>
  PROVE  StoreTrue'
<1>1. CASE left
  <2>1. web' = "finish" /\ trace' = trace /\ last' = last
    BY <1>1 DEF Catch, AfterLeaving
  <2> QED
    BY <1>1, <2>1 DEF StoreTrue, WebSteps
<1>2. CASE ~left
  <2>1. PICK e \in Events : e = Mark("run_failed") /\ e.is = "run_failed"
    BY MarkTyped DEF EventKinds
  <2>2. PICK u : u = FoldEvent(trace, e)
    OBVIOUS
  <2>3. web' = "appendFailure" /\ trace' = u /\ last' = e
    BY <1>2, <2>1, <2>2 DEF Catch, Push
  <2>4. u \in Logs /\ LogTrue(u) /\ u.accepted = trace.accepted
    BY <2>1, <2>2, Failed DEF StoreTrue
  <2>5. dbErrors' = 0 => u = FoldEvent(stored, e)
    BY <2>2 DEF StoreTrue
  <2> QED
    BY <2>1, <2>3, <2>4, <2>5 DEF StoreTrue, WebSteps
<1> QED
  BY <1>1, <1>2 DEF StoreTrue

LEMMA StoreHolds == EngineTrue /\ WireTrue /\ StoreTrue /\ Next => StoreTrue'
<1> SUFFICES ASSUME EngineTrue, WireTrue, StoreTrue, Next PROVE StoreTrue'
  OBVIOUS
<1>1. CASE EngineStep \/ ServiceFails
  <2>1. UNCHANGED <<trace, stored, last, left, dbErrors, lost, status, web>>
    BY <1>1 DEF EngineStep, Start, Expanded, Settle, Take, Propose, ServiceFails, Untouched, webVars
  <2>2. engine # "ended" \/ (engine' = "ended" /\ moves' = moves)
    BY <1>1 DEF EngineStep, Start, Expanded, Settle, Take, Propose, ServiceFails
  <2> QED
    BY <2>1, <2>2, StoreStill
<1>2. CASE Die
  <2>1. UNCHANGED <<trace, stored, last, left, dbErrors, lost, status, engine, moves>> /\ web' = "dead"
    BY <1>2 DEF Die, Engine, engineVars
  <2> QED
    BY <2>1, StoreStill
<1>3. CASE Leave
  <2>1. UNCHANGED <<trace, stored, last, dbErrors, lost, status, web, engine, moves>> /\ left' = TRUE
    BY <1>3 DEF Leave, Engine, engineVars, webVars
  <2>2. left' \in BOOLEAN /\ left'
    BY <2>1
  <2>3. web = "append" => trace' = FoldEvent(stored', last')
    BY <2>1 DEF StoreTrue
  <2>4. web = "appendFailure" => last'.is = "run_failed" /\ (dbErrors' = 0 => trace' = FoldEvent(stored', last'))
    BY <2>1 DEF StoreTrue
  <2> QED
    BY <2>1, <2>2, <2>3, <2>4 DEF StoreTrue
<1>4. CASE StreamEnds
  <2>1. UNCHANGED <<trace, stored, last, dbErrors, left, lost, status, engine, moves>> /\ web' = "finish" /\ web = "read"
    BY <1>4 DEF StreamEnds, Engine, engineVars
  <2>2. trace.status # "streaming"
    BY <1>4 DEF StreamEnds, WireTrue, Reading
  <2> QED
    BY <2>1, <2>2 DEF StoreTrue, WebSteps
<1>5. CASE Finish
  <2>1. UNCHANGED <<trace, stored, last, dbErrors, left, lost, engine, moves>> /\ web' = "over" /\ web = "finish"
    BY <1>5 DEF Finish, Engine, engineVars
  <2>2. status' = FinalStatus(trace.status) /\ status' \in {"RUNNING", "SUCCEEDED", "FAILED", "ABANDONED"}
    BY <1>5, FinalTyped DEF Finish, Outcome, StoreTrue
  <2> QED
    BY <2>1, <2>2 DEF StoreTrue, WebSteps
<1>6. CASE RowsWritten
  <2>1. UNCHANGED <<trace, stored, last, dbErrors, left, lost, status, engine, moves>> /\ web' = "read" /\ web = "rows"
    BY <1>6 DEF RowsWritten, Engine, engineVars
  <2> QED
    BY <2>1 DEF StoreTrue, WebSteps
<1>7. CASE ReadThrows
  <2>1. Catch /\ web = "read" /\ UNCHANGED <<stored, status, left, engine, moves, dbErrors, lost>>
    BY <1>7 DEF ReadThrows, Engine, engineVars
  <2> QED
    BY <2>1, CatchStored DEF StoreTrue
<1>8. CASE DbFails
  <2>1. /\ UNCHANGED <<stored, status, left, engine, moves>> /\ dbErrors < MaxDbErrors /\ dbErrors' = dbErrors + 1
        /\ lost' = lost + 1 \/ lost' = lost
    BY <1>8 DEF DbFails, Engine, engineVars
  <2>2. dbErrors' \in 0 .. MaxDbErrors /\ lost' \in 0 .. dbErrors' /\ dbErrors' # 0
    BY <2>1, BoundAssumption DEF StoreTrue
  <2>3. CASE Catch
    BY <2>1, <2>2, <2>3, CatchStored
  <2>4. CASE web' \in {"finish", "over"} /\ UNCHANGED <<last, trace>>
    BY <2>1, <2>2, <2>4 DEF StoreTrue, WebSteps
  <2> QED
    BY <1>8, <2>3, <2>4 DEF DbFails
<1> QED
  BY <1>1, <1>2, <1>3, <1>4, <1>5, <1>6, <1>7, <1>8, ReadStored, AppendedStored DEF Next, RouteStep

LEMMA PrefixSelf ==
  ASSUME NEW T, NEW s \in Seq(T)
  PROVE  IsPrefix(s, s)
BY LenProperties DEF IsPrefix

LEMMA PrefixOf ==
  ASSUME NEW T, NEW s \in Seq(T), NEW c \in Seq(T), Len(s) <= Len(c), \A i \in 1 .. Len(s) : c[i] = s[i]
  PROVE  IsPrefix(s, c)
<1>1. PICK n \in Nat : n = Len(s)
  BY LenProperties
<1>2. ASSUME NEW i \in 1 .. n PROVE s[i] \in T /\ c[i] \in T
  <2>1. s[i] \in T
    BY <1>1, ElementOfSeq
  <2> QED
    BY <1>1, <2>1
<1>3. PICK p : p = SubSeq(s, 1, n)
  OBVIOUS
<1>4. p \in Seq(T) /\ Len(p) = n /\ \A i \in 1 .. n : p[i] = s[i]
  BY <1>1, <1>2, <1>3, SubSeqProperties
<1>5. PICK q : q = SubSeq(c, 1, n)
  OBVIOUS
<1>6. q \in Seq(T) /\ Len(q) = n /\ \A i \in 1 .. n : q[i] = c[i]
  BY <1>1, <1>2, <1>5, SubSeqProperties
<1>7. p = q
  <2>1. \A i \in 1 .. n : p[i] = q[i]
    BY <1>1, <1>4, <1>6
  <2> QED
    BY <1>4, <1>6, <2>1, SeqEqual
<1> QED
  BY <1>1, <1>3, <1>5, <1>7 DEF IsPrefix

LEMMA PrefixConcat ==
  ASSUME NEW T, NEW s \in Seq(T), NEW r \in Seq(T)
  PROVE  IsPrefix(s, s \o r)
<1>1. Len(s) \in Nat /\ Len(r) \in Nat
  BY LenProperties
<1>2. PICK c : c = s \o r
  OBVIOUS
<1>3. c \in Seq(T) /\ Len(c) = Len(s) + Len(r)
  BY <1>2, ConcatProperties
<1>4. ASSUME NEW i \in 1 .. Len(s) PROVE c[i] = s[i]
  <2>1. i \in 1 .. Len(s) + Len(r) /\ i <= Len(s)
    BY <1>1
  <2> QED
    BY <1>2, <2>1, ConcatProperties
<1>5. Len(s) <= Len(c)
  BY <1>1, <1>3
<1> QED
  BY <1>2, <1>3, <1>4, <1>5, PrefixOf

LEMMA PrefixAppend ==
  ASSUME NEW T, NEW s \in Seq(T), NEW x \in T
  PROVE  IsPrefix(s, Append(s, x))
<1>1. Len(s) \in Nat
  BY LenProperties
<1>2. PICK c : c = Append(s, x)
  OBVIOUS
<1>3. c \in Seq(T) /\ Len(c) = Len(s) + 1 /\ \A i \in 1 .. Len(s) : c[i] = s[i]
  BY <1>2, AppendProperties
<1>4. Len(s) <= Len(c)
  BY <1>1, <1>3
<1> QED
  BY <1>2, <1>3, <1>4, PrefixOf

\* The rows of what settled since, and those of what had: together the rows of all.
LEMMA NewRows ==
  ASSUME NEW s \in Seq(Decided), NEW x \in Decided, NEW all, all = Append(s, x), written = Len(s)
  PROVE  RowsOf(all) = RowsOf(s) \o RowsOf(Unwritten(all)) /\ RowsOf(Unwritten(all)) \in Seq(Row)
<1>1. PICK D : D = Decided
  OBVIOUS
<1>2. s \in Seq(D) /\ x \in D
  BY <1>1
<1>3. all \in Seq(D) /\ Len(all) = Len(s) + 1 /\ all[Len(s) + 1] = x /\ Len(s) \in Nat
  BY <1>2, AppendProperties, LenProperties
<1>4. PICK n \in Nat : n = Len(s) + 1 /\ n = Len(all) /\ n >= 1
  BY <1>3
<1>5. PICK y \in Seq(D) : y = SubSeq(all, n, n) /\ Len(y) = 1 /\ y[1] = x
  <2>1. PICK y : y = SubSeq(all, n, n)
    OBVIOUS
  <2>2. y \in Seq(D) /\ Len(y) = n - n + 1 /\ \A i \in 1 .. n - n + 1 : y[i] = all[n + i - 1]
    BY <1>3, <1>4, <2>1, SubSeqProperties
  <2>3. n - n + 1 = 1 /\ n + 1 - 1 = n /\ 1 \in 1 .. 1
    BY <1>4
  <2> QED
    BY <1>3, <1>4, <2>1, <2>2, <2>3
<1>6. Unwritten(all) = y
  BY <1>4, <1>5 DEF Unwritten
<1>7. Decided \subseteq Steps
  BY DEF Decided
<1>8. s \in Seq(Steps) /\ x \in Steps
  BY <1>7, SeqMonotonic
<1>9. PICK one : one = Append(<<>>, x)
  OBVIOUS
<1>10. one = y
  <2>1. one \in Seq(D) /\ Len(one) = 1 /\ one[1] = x
    <3>1. <<>> \in Seq(D) /\ Len(<<>>) = 0
      OBVIOUS
    <3> QED
      BY <1>2, <1>9, <3>1, AppendProperties
  <2>2. PICK n1 \in Nat : n1 = 1
    OBVIOUS
  <2>3. \A i \in 1 .. n1 : i = 1
    BY <2>2
  <2>4. Len(one) = n1 /\ Len(y) = n1 /\ \A i \in 1 .. n1 : one[i] = y[i]
    BY <1>5, <2>1, <2>2, <2>3
  <2> QED
    BY <1>5, <2>1, <2>4, SeqEqual
<1>11. PICK r \in Seq(Row) : r = RowsOf(s)
  BY <1>8, RowsTyped
<1>12. RowsOf(all) = IF x \in Measured THEN Append(r, RowOf(x)) ELSE r
  BY <1>8, <1>11, RowsNext
<1>13. RowsOf(y) = IF x \in Measured THEN Append(<<>>, RowOf(x)) ELSE <<>>
  <2>1. PICK none \in Seq(Steps) : none = <<>>
    BY EmptySeq
  <2>2. RowsOf(Append(none, x)) = IF x \in Measured THEN Append(RowsOf(none), RowOf(x)) ELSE RowsOf(none)
    BY <1>8, <2>1, RowsNext
  <2>3. RowsOf(none) = <<>> /\ Append(none, x) = y
    BY <1>9, <1>10, <2>1, RowsNone
  <2> QED
    BY <2>2, <2>3
<1>14. CASE x \in Measured
  <2>1. PICK w \in Row : w = RowOf(x)
    BY <1>14, RowTyped
  <2>2. Append(<<>>, w) \in Seq(Row) /\ r \o Append(<<>>, w) = Append(r, w)
    BY <1>11, <2>1
  <2> QED
    BY <1>6, <1>11, <1>12, <1>13, <1>14, <2>1, <2>2
<1>15. CASE x \notin Measured
  <2>1. <<>> \in Seq(Row) /\ r \o <<>> = r
    BY <1>11, ConcatEmptySeq
  <2> QED
    BY <1>6, <1>11, <1>12, <1>13, <1>15, <2>1
<1> QED
  BY <1>14, <1>15

LEMMA Longer ==
  ASSUME NEW t \in Logs, NEW u, NEW e, Folded(t, u, e)
  PROVE  Len(t.steps) \in Nat /\ Len(u.steps) \in Nat /\ Len(t.steps) <= Len(u.steps)
<1>1. t.steps \in Seq(Steps) /\ u.steps \in Seq(Steps)
  BY DEF Folded, Logs
<1>2. Len(t.steps) \in Nat /\ Len(u.steps) \in Nat
  BY <1>1, LenProperties
<1>3. Len(u.steps) = Len(t.steps) \/ Len(u.steps) = Len(t.steps) + 1
  <2>1. u.steps = t.steps \/ \E x : Grows(t.steps, u.steps, x) \/ Turns(t.steps, u.steps, x)
    BY DEF Folded, Speaks, Opens, Marks, Decides
  <2> QED
    BY <2>1 DEF Grows, Turns
<1> QED
  BY <1>2, <1>3

LEMMA RowsStill ==
  ASSUME RowsTrue, UNCHANGED <<trace, stored, written, rows, fresh>>,
         web' = web \/ web' = "dead" \/ (web' \in {"finish", "over"} /\ web \notin {"rows", "dead"})
  PROVE  RowsTrue'
<1>1. fresh' = fresh /\ rows' = rows /\ trace' = trace /\ stored' = stored /\ written' = written
  OBVIOUS
<1> QED
  BY <1>1 DEF RowsTrue, Reading

\* A log only ever gets longer, so what is counted as written stays below its length.
LEMMA RowsBroken ==
  ASSUME RowsTrue, StoreTrue, UNCHANGED <<stored, written, rows>>, fresh' = <<>>, web' \in {"append", "appendFailure", "finish", "over"},
         NEW e \in Events, trace' = trace \/ trace' = FoldEvent(trace, e),
         web' = "append" => web = "read"
  PROVE  RowsTrue'
<1>1. written \in 0 .. Len(trace'.steps)
  <2>1. CASE trace' = trace
    BY <2>1 DEF RowsTrue
  <2>2. CASE trace' = FoldEvent(trace, e)
    <3>1. PICK u : u = FoldEvent(trace, e)
      OBVIOUS
    <3>2. Folded(trace, u, e)
      BY <3>1, FoldIs DEF StoreTrue, LogTrue
    <3>3. Len(trace.steps) \in Nat /\ Len(u.steps) \in Nat /\ Len(trace.steps) <= Len(u.steps)
      BY <3>2, Longer DEF StoreTrue
    <3> QED
      BY <2>2, <3>1, <3>3 DEF RowsTrue
  <2> QED
    BY <2>1, <2>2
<1>2. <<>> \in Seq(Row)
  OBVIOUS
<1> QED
  BY <1>1, <1>2 DEF RowsTrue, Reading

LEMMA AppendedRows == EngineTrue /\ StoreTrue /\ RowsTrue /\ Appended => RowsTrue'
<1> SUFFICES ASSUME EngineTrue, StoreTrue, RowsTrue, Appended PROVE RowsTrue'
  OBVIOUS
<1>1. PICK t \in Logs : t = stored /\ LogTrue(t)
  BY DEF StoreTrue
<1>2. PICK e \in Events : e = last
  BY DEF StoreTrue
<1>3. PICK u : u = FoldEvent(t, e)
  OBVIOUS
<1>4. Folded(t, u, e)
  BY <1>1, <1>3, FoldIs DEF LogTrue
<1>5. /\ Settled(t) \in Seq(Decided) /\ Settled(u) \in Seq(Decided)
      /\ e.is # "decision" => Settled(u) = Settled(t)
      /\ e.is = "decision" => \E x \in Decided : Settled(u) = Append(Settled(t), x)
  BY <1>1, <1>4, SettledIs DEF LogTrue
<1>6. stored' = u /\ trace' = trace /\ rows' = rows /\ web \in {"append", "appendFailure"}
  BY <1>1, <1>2, <1>3 DEF Appended
<1>7. CASE web = "appendFailure"
  <2>1. e.is = "run_failed"
    BY <1>2, <1>7 DEF StoreTrue
  <2>2. written' = written /\ fresh' = fresh /\ web' = "finish"
    BY <1>2, <1>7, <2>1 DEF Appended
  <2>3. Settled(u) = Settled(t)
    BY <1>5, <2>1
  <2>4. fresh = <<>> /\ IsPrefix(rows, RowsOf(Settled(u)))
    BY <1>1, <1>7, <2>3 DEF RowsTrue
  <2> QED
    BY <1>6, <2>2, <2>4 DEF RowsTrue, Reading
<1>8. CASE web = "append" /\ e.is # "decision"
  <2>1. written' = written /\ fresh' = fresh /\ fresh = <<>>
    BY <1>2, <1>8 DEF Appended, RowsTrue
  <2>2. web' = "read"
    BY <1>8, <2>1 DEF Appended
  <2>3. rows = RowsOf(Settled(u)) /\ written = Len(Settled(u)) /\ IsPrefix(rows, RowsOf(Settled(u)))
    BY <1>1, <1>5, <1>8 DEF RowsTrue, Reading
  <2> QED
    BY <1>6, <2>1, <2>2, <2>3 DEF RowsTrue, Reading
<1>9. CASE web = "append" /\ e.is = "decision"
  <2>1. PICK s \in Seq(Decided) : s = Settled(t)
    BY <1>5
  <2>2. PICK x \in Decided : Settled(u) = Append(s, x)
    BY <1>5, <1>9, <2>1
  <2>3. PICK all \in Seq(Decided) : all = Settled(u) /\ all = Append(s, x)
    BY <1>5, <2>2
  <2>4. rows = RowsOf(s) /\ written = Len(s)
    BY <1>1, <1>9, <2>1 DEF RowsTrue, Reading
  <2>5. RowsOf(all) = RowsOf(s) \o RowsOf(Unwritten(all)) /\ RowsOf(Unwritten(all)) \in Seq(Row)
    BY <2>3, <2>4, NewRows
  <2>6. PICK f \in Seq(Row) : f = RowsOf(Unwritten(all))
    BY <2>5
  <2>7. trace = u
    BY <1>1, <1>2, <1>3, <1>9 DEF StoreTrue
  <2>8. written' = Len(all) /\ fresh' = f
    BY <1>2, <1>9, <2>3, <2>6, <2>7 DEF Appended
  <2>9. web' = IF f # <<>> THEN "rows" ELSE "read"
    BY <1>9, <2>8 DEF Appended
  <2>10. rows \in Seq(Row) /\ RowsOf(all) = rows \o f
    BY <2>4, <2>5, <2>6 DEF RowsTrue
  <2>11. IsPrefix(rows, RowsOf(all))
    BY <2>10, PrefixConcat
  <2>12. Len(all) \in 0 .. Len(trace.steps)
    <3>1. u.steps \in Seq(Steps)
      BY <1>4 DEF Folded, Logs
    <3>2. Len(all) \in Nat /\ Len(u.steps) \in Nat
      BY <3>1, LenProperties
    <3>3. Len(all) <= Len(u.steps)
      BY <2>3, <3>1, OnlyTyped DEF Settled
    <3> QED
      BY <2>7, <3>2, <3>3
  <2>13. CASE f = <<>>
    <3>1. web' = "read" /\ rows = RowsOf(all)
      BY <2>9, <2>10, <2>13, ConcatEmptySeq
    <3> QED
      BY <1>6, <2>3, <2>8, <2>10, <2>11, <2>12, <2>13, <3>1 DEF RowsTrue, Reading
  <2>14. CASE f # <<>>
    <3>1. web' = "rows"
      BY <2>9, <2>14
    <3> QED
      BY <1>6, <2>3, <2>8, <2>10, <2>11, <2>12, <2>14, <3>1 DEF RowsTrue, Reading
  <2> QED
    BY <2>13, <2>14
<1> QED
  BY <1>6, <1>7, <1>8, <1>9

LEMMA RowsHold == EngineTrue /\ WireTrue /\ StoreTrue /\ RowsTrue /\ Next => RowsTrue'
<1> SUFFICES ASSUME EngineTrue, WireTrue, StoreTrue, RowsTrue, Next PROVE RowsTrue'
  OBVIOUS
<1>1. CASE EngineStep \/ ServiceFails
  <2>1. UNCHANGED <<trace, stored, written, rows, fresh, web>>
    BY <1>1 DEF EngineStep, Start, Expanded, Settle, Take, Propose, ServiceFails, Untouched, webVars
  <2> QED
    BY <2>1, RowsStill
<1>2. CASE Die \/ Leave \/ StreamEnds \/ Finish
  <2>1. UNCHANGED <<trace, stored, written, rows, fresh>>
    BY <1>2 DEF Die, Leave, StreamEnds, Finish, webVars
  <2>2. web' = web \/ web' = "dead" \/ (web' \in {"finish", "over"} /\ web \notin {"rows", "dead"})
    BY <1>2 DEF Die, Leave, StreamEnds, Finish, webVars
  <2> QED
    BY <2>1, <2>2, RowsStill
<1>3. CASE RowsWritten
  <2>1. UNCHANGED <<trace, stored, written>> /\ web = "rows" /\ web' = "read"
    BY <1>3 DEF RowsWritten
  <2>2. PICK r \in Seq(Row) : r = RowsOf(Settled(stored)) /\ r = rows \o fresh
    <3>1. rows \in Seq(Row) /\ fresh \in Seq(Row) /\ rows \o fresh = RowsOf(Settled(stored))
      BY <2>1 DEF RowsTrue
    <3>2. rows \o fresh \in Seq(Row)
      BY <3>1, ConcatProperties
    <3> QED
      BY <3>1, <3>2
  <2>3. rows' = r /\ fresh' = <<>> /\ <<>> \in Seq(Row)
    BY <1>3, <2>2 DEF RowsWritten
  <2>4. IsPrefix(r, r)
    BY <2>2, PrefixSelf
  <2> QED
    BY <2>1, <2>2, <2>3, <2>4 DEF RowsTrue, Reading
<1>4. CASE Read
  <2>1. PICK e \in Events : e = Head(wire)
    BY <1>4, Rest DEF WireTrue, Read
  <2>2. UNCHANGED <<stored, written, rows>> /\ web = "read" /\ web' = "append" /\ trace' = FoldEvent(trace, e) /\ fresh' = <<>>
    BY <1>4, <2>1 DEF Read, Push, RowsTrue
  <2> QED
    BY <2>1, <2>2, RowsBroken
<1>5. CASE ReadThrows \/ DbFails
  <2>1. PICK e \in Events : e = Mark("run_failed")
    BY MarkTyped DEF EventKinds
  <2>2. UNCHANGED <<stored, written, rows>>
    BY <1>5 DEF ReadThrows, DbFails
  <2>3. web' \in {"appendFailure", "finish", "over"} /\ fresh' = <<>>
    BY <1>5 DEF ReadThrows, DbFails, Catch, AfterLeaving, RowsTrue
  <2>4. trace' = trace \/ trace' = FoldEvent(trace, e)
    BY <1>5, <2>1 DEF ReadThrows, DbFails, Catch, Push
  <2> QED
    BY <2>1, <2>2, <2>3, <2>4, RowsBroken
<1> QED
  BY <1>1, <1>2, <1>3, <1>4, <1>5, AppendedRows DEF Next, RouteStep

RecordInv == EngineTrue /\ WireTrue /\ StoreTrue /\ RowsTrue

LEMMA RecordStarts ==
  ASSUME Blank, (engine = "start" /\ web = "read") \/ (engine = "ended" /\ web = "dead")
  PROVE  RecordInv
<1>1. <<>> \in Seq(Steps) /\ <<>> \in Seq(Row) /\ <<>> \in Seq(Events) /\ <<>> \in Seq(Candidates) /\ Len(<<>>) = 0
  OBVIOUS
<1>2. PICK e \in Events : e = Mark("run_started")
  BY MarkTyped DEF EventKinds
<1>3. PICK t : t = EmptyTrace
  OBVIOUS
<1>4. t \in Logs /\ t.steps = <<>> /\ ~t.open /\ t.status = "streaming" /\ ~t.final /\ t.accepted = 0 /\ Len(t.steps) = 0
  BY <1>1, <1>3 DEF EmptyTrace, Logs
<1>5. LogTrue(t)
  <2>1. Acceptances(t) = {}
    BY <1>4 DEF Acceptances
  <2> QED
    BY <1>4, <2>1, FS_EmptySet DEF LogTrue, OpenIsLast
<1>6. Settled(t) = <<>> /\ RowsOf(Settled(t)) = <<>>
  BY <1>4, OnlyNone, RowsNone DEF Settled
<1>7. EngineTrue
  BY <1>1, BoundAssumption DEF Blank, EngineTrue
<1>8. WireTrue
  <2>1. wire \in Seq(Events) /\ Ordered(wire) /\ Undecided(wire)
    BY <1>1 DEF Blank, Ordered, Undecided
  <2>2. Len(moves) = 0
    BY <1>1 DEF Blank
  <2> QED
    BY <1>3, <1>4, <2>1, <2>2 DEF Blank, WireTrue, Reading
<1>9. StoreTrue
  <2>1. /\ trace = t /\ stored = t /\ last = e /\ dbErrors = 0 /\ lost = 0 /\ status = "RUNNING"
        /\ left \in BOOLEAN /\ web \in {"read", "dead"}
    BY <1>2, <1>3 DEF Blank
  <2>2. 0 \in 0 .. MaxDbErrors /\ 0 \in 0 .. 0 /\ t.accepted <= t.accepted
    BY <1>4, BoundAssumption
  <2> QED
    BY <1>2, <1>4, <1>5, <2>1, <2>2 DEF StoreTrue, WebSteps
<1>10. RowsTrue
  <2>1. IsPrefix(<<>>, <<>>)
    BY <1>1, PrefixSelf
  <2> QED
    BY <1>1, <1>3, <1>4, <1>6, <2>1 DEF Blank, RowsTrue, Reading
<1> QED
  BY <1>7, <1>8, <1>9, <1>10 DEF RecordInv

LEMMA RecordStutters == RecordInv /\ UNCHANGED vars => RecordInv'
<1> SUFFICES ASSUME RecordInv, UNCHANGED vars PROVE RecordInv'
  OBVIOUS
<1>1. /\ engine' = engine /\ nodes' = nodes /\ found' = found /\ better' = better /\ moves' = moves /\ wire' = wire
      /\ web' = web /\ last' = last /\ trace' = trace /\ stored' = stored /\ lost' = lost /\ fresh' = fresh
      /\ written' = written /\ rows' = rows /\ status' = status /\ left' = left /\ dbErrors' = dbErrors
  BY DEF vars, engineVars, webVars
<1>2. EngineTrue'
  BY <1>1 DEF RecordInv, EngineTrue
<1>3. WireTrue'
  BY <1>1 DEF RecordInv, WireTrue, Closing, Reading
<1>4. StoreTrue'
  BY <1>1, StoreStill DEF RecordInv
<1>5. RowsTrue'
  BY <1>1, RowsStill DEF RecordInv
<1> QED
  BY <1>2, <1>3, <1>4, <1>5 DEF RecordInv

LEMMA RecordInvHolds == Spec => []RecordInv
<1>1. StreamInit => RecordInv
  BY RecordStarts DEF StreamInit, Init, NoRun
<1>2. RecordInv /\ [StreamNext]_streamVars => RecordInv'
  <2> SUFFICES ASSUME RecordInv, [StreamNext]_streamVars PROVE RecordInv'
    OBVIOUS
  <2>1. CASE Next
    BY <2>1, EngineHolds, WireHolds, StoreHolds, RowsHold DEF RecordInv
  <2>2. CASE UNCHANGED vars
    BY <2>2, RecordStutters
  <2> QED
    BY <2>1, <2>2 DEF StreamNext, streamVars
<1> QED
  BY <1>1, <1>2, PTL DEF Spec

\* What is true of a run's record follows.
LEMMA RecordFollows == RecordInv => RecordIsTrue
<1> SUFFICES ASSUME RecordInv PROVE RecordIsTrue
  OBVIOUS
<1> USE DEF RecordInv
<1>1. TypeOK
  <2>1. stored.accepted \in 0 .. MaxMoves /\ trace.accepted \in 0 .. MaxMoves
    <3>1. stored.accepted \in Nat /\ trace.accepted \in Nat
      BY DEF StoreTrue, Logs
    <3>2. Len(moves) \in Nat /\ Len(moves) <= MaxMoves /\ trace.accepted <= Len(moves) /\ stored.accepted <= trace.accepted
      BY LenProperties DEF EngineTrue, WireTrue, StoreTrue
    <3> QED
      BY <3>1, <3>2, BoundAssumption
  <2>2. stored \in Traces /\ trace \in Traces
    BY <2>1 DEF StoreTrue, Logs, Traces
  <2>3. fresh \in Seq([kind : Kinds, site : Sites, accepted : BOOLEAN]) /\ rows \in Seq([kind : Kinds, site : Sites, accepted : BOOLEAN])
    BY DEF RowsTrue, Row
  <2>4. lost \in 0 .. MaxDbErrors /\ nodes \in 0 .. MaxMoves + 1
    BY BoundAssumption DEF StoreTrue, EngineTrue
  <2> QED
    BY <2>2, <2>3, <2>4 DEF TypeOK, EngineTrue, WireTrue, StoreTrue, RowsTrue
<1>2. RowsMatchLog
  BY DEF RowsMatchLog, RowsTrue
<1>3. web = "over" /\ dbErrors = 0 =>
        /\ stored.status \in {"streaming", "converged", "failed"}
        /\ status = IF stored.status = "converged" THEN "SUCCEEDED" ELSE IF stored.status = "failed" THEN "FAILED" ELSE "ABANDONED"
        /\ stored.status = "streaming" => left
  BY DEF StoreTrue, FinalStatus, Logs
<1>4. EndsTruthfully
  <2> SUFFICES ASSUME web = "over", dbErrors = 0
               PROVE  /\ status = FinalStatus(stored.status) /\ (status = "ABANDONED" => left)
                      /\ OutputMatch = "checked" <=> stored.final
    BY DEF EndsTruthfully
  <2>1. status = FinalStatus(stored.status) /\ (status = "ABANDONED" => left) /\ stored = trace
    BY <1>3 DEF StoreTrue
  <2>2. status # "RUNNING"
    BY <1>3
  <2>3. OutputMatch = "checked" <=> stored.final
    BY <2>1, <2>2 DEF OutputMatch
  <2> QED
    BY <2>1, <2>3
<1>8. ASSUME NEW t \in {trace, stored}
      PROVE  t \in Logs /\ LogTrue(t) /\ (t.status = "converged" => t.final) /\ (t.final => t.accepted = Len(moves))
  <2>1. t \in Logs /\ LogTrue(t) /\ (t.final => t.accepted = Len(moves))
    BY DEF StoreTrue, WireTrue
  <2>2. t.status = "converged" => t.final
    BY <2>1 DEF LogTrue
  <2> QED
    BY <2>1, <2>2
<1>5. CountsAgree
  BY <1>8 DEF CountsAgree
<1>6. web = "over" /\ dbErrors = 0 =>
        LET sheet == Report(status, stored) IN
        /\ sheet.note = "abandoned" <=> sheet.verdict.says = "running"
        /\ sheet.note = "failed" <=> sheet.verdict.says = "failed"
        /\ sheet.note = "none" => sheet.after
  <2> SUFFICES ASSUME web = "over", dbErrors = 0
               PROVE  LET sheet == Report(status, stored) IN
                      /\ sheet.note = "abandoned" <=> sheet.verdict.says = "running"
                      /\ sheet.note = "failed" <=> sheet.verdict.says = "failed"
                      /\ sheet.note = "none" => sheet.after
    OBVIOUS
  <2>1. PICK sheet : sheet = Report(status, stored)
    OBVIOUS
  <2>2. sheet.note = Note(status) /\ sheet.verdict = Verdict(stored)
    BY <2>1 DEF Report
  <2>3. (sheet.after <=> stored.final) /\ (stored.status = "converged" => stored.final)
    BY <2>1 DEF Report, StoreTrue, LogTrue
  <2>4. sheet.verdict.says = IF stored.status = "streaming" THEN "running" ELSE stored.status
    <3>1. Verdict(stored).says = IF stored.status = "streaming" THEN "running" ELSE stored.status
      BY DEF Verdict
    <3> QED
      BY <2>2, <3>1
  <2>5. Note(status) = IF status = "ABANDONED" THEN "abandoned" ELSE IF status = "FAILED" THEN "failed" ELSE "none"
    BY DEF Note
  <2> QED
    BY <1>3, <2>1, <2>2, <2>3, <2>4, <2>5
<1>9. ASSUME NEW t \in {trace, stored}
      PROVE  LET page == Report("RUNNING", t) drawn == page.rows IN
             /\ Cardinality({i \in DOMAIN drawn : drawn[i].badge = "accepted"}) = page.verdict.accepted
             /\ page.after => page.verdict.accepted = Len(moves)
             /\ page.verdict.says = "running" <=> page.progress[1] \in {"waiting", "running"}
             /\ page.verdict.costIs = "after" => page.after
             /\ \A i \in DOMAIN drawn :
                  /\ drawn[i].badge = "in progress" => ~drawn[i].settled /\ page.verdict.says = "running"
                  /\ ~drawn[i].settled => drawn[i].badge = "in progress"
                  /\ drawn[i].cost = "counted" => drawn[i].listing = "applied"
  <2>1. PICK page : page = Report("RUNNING", t)
    OBVIOUS
  <2>2. t \in Logs /\ LogTrue(t) /\ (t.final => t.accepted = Len(moves))
    BY <1>8
  <2>3. page.after => page.verdict.accepted = Len(moves)
    BY <2>1, <2>2, PageIs
  <2> QED
    BY <2>1, <2>2, <2>3, PageIs
<1>7. ReportTells
  BY <1>6, <1>9 DEF ReportTells
<1> QED
  BY <1>1, <1>2, <1>4, <1>5, <1>7 DEF RecordIsTrue, RecordHolds

\* Whatever the engine finds, whichever statement fails, whoever leaves or dies: the rows of a run are
\* those its stored log calls for, its final status is what that log says, and the page drawn of it
\* agrees with both (src/web/lib/actions/runs.ts, record and finish; src/web/lib/trace.ts, foldTrace).
THEOREM RecordsAreTrue == Spec => []RecordIsTrue
BY RecordInvHolds, RecordFollows, PTL

\* A step of either end folds one event into the log, or none.
LEMMA SettlesAtTail == RecordInv /\ [StreamNext]_streamVars => IsPrefix(Settled(trace), Settled(trace'))
<1> SUFFICES ASSUME RecordInv, [StreamNext]_streamVars PROVE IsPrefix(Settled(trace), Settled(trace'))
  OBVIOUS
<1>1. PICK t \in Logs : t = trace /\ LogTrue(t)
  BY DEF RecordInv, StoreTrue
<1>2. Settled(t) \in Seq(Decided)
  <2>1. Mark("run_failed") \in Events
    BY MarkTyped DEF EventKinds
  <2>2. Folded(t, FoldEvent(t, Mark("run_failed")), Mark("run_failed"))
    BY <1>1, <2>1, FoldIs DEF LogTrue
  <2> QED
    BY <1>1, <2>1, <2>2, SettledIs DEF LogTrue
<1>3. CASE trace' = trace
  BY <1>1, <1>2, <1>3, PrefixSelf
<1>4. ASSUME NEW e \in Events, trace' = FoldEvent(trace, e) PROVE IsPrefix(Settled(trace), Settled(trace'))
  <2>1. PICK u : u = FoldEvent(t, e)
    OBVIOUS
  <2>2. Folded(t, u, e)
    BY <1>1, <2>1, FoldIs DEF LogTrue
  <2>3. Settled(u) = Settled(t) \/ \E x \in Decided : Settled(u) = Append(Settled(t), x)
    BY <1>1, <2>2, SettledIs DEF LogTrue
  <2>4. IsPrefix(Settled(t), Settled(u))
    BY <1>2, <2>3, PrefixSelf, PrefixAppend
  <2> QED
    BY <1>1, <1>4, <2>1, <2>4
<1>5. CASE UNCHANGED vars
  BY <1>3, <1>5 DEF vars, webVars
<1>6. CASE Next
  <2>1. CASE Read
    <3>1. Head(wire) \in Events
      BY <2>1, Rest DEF Read, RecordInv, WireTrue
    <3> QED
      BY <1>4, <2>1, <3>1 DEF Read, Push
  <2>2. CASE ReadThrows \/ DbFails
    <3>1. Mark("run_failed") \in Events
      BY MarkTyped DEF EventKinds
    <3>2. trace' = trace \/ trace' = FoldEvent(trace, Mark("run_failed"))
      BY <2>2 DEF ReadThrows, DbFails, Catch, Push
    <3> QED
      BY <1>3, <1>4, <3>1, <3>2
  <2>3. CASE EngineStep \/ ServiceFails
    <3>1. trace' = trace
      BY <2>3 DEF EngineStep, Start, Expanded, Settle, Take, Propose, ServiceFails, Untouched, webVars
    <3> QED
      BY <1>3, <3>1
  <2>4. CASE Appended \/ RowsWritten \/ StreamEnds \/ Finish \/ Leave \/ Die
    <3>1. trace' = trace
      BY <2>4 DEF Appended, RowsWritten, StreamEnds, Finish, Leave, Die, webVars
    <3> QED
      BY <1>3, <3>1
  <2> QED
    BY <1>6, <2>1, <2>2, <2>3, <2>4 DEF Next, RouteStep
<1> QED
  BY <1>5, <1>6 DEF StreamNext, streamVars

\* "Steps settle in the order they were opened, so the ones not yet written are always the tail of that
\* list" (src/web/lib/actions/runs.ts:242): what had settled is a prefix of what has, after any event.
THEOREM SettledStaysAtTail == Spec => SettledAtTail
<1>1. RecordInv /\ [StreamNext]_streamVars => [IsPrefix(Settled(trace), Settled(trace'))]_trace
  BY SettlesAtTail
<1> QED
  BY <1>1, RecordInvHolds, PTL DEF Spec, SettledAtTail
=============================================================================
