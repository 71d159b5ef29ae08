------------------------------- MODULE LlmPass -------------------------------
(* The supervisor of the pass over the corpus with a language model           *)
(* (scripts/llm_pass.py), its workers (experiment.py, cli.py) and the         *)
(* playground that shares their cache.  The supervisor shares what is missing *)
(* between one worker per key, waits for them, folds their files into one and *)
(* starts over; it may be killed anywhere, its workers with it or not.        *)
EXTENDS Integers, Sequences, FiniteSets, SequencesExt

(* Asking a language model (llm/provider.py): a chain of providers, each      *)
(* tried a few times, and a cache of what was answered.  A response is what   *)
(* one request comes back with: "text", "overlong" (the model ran past its    *)
(* output budget), "blip" (worth waiting out: a refusal, a timeout) or        *)
(* "broken" (any other failure).                                              *)
CONSTANT MaxAttempts        \* MAX_ATTEMPTS

ASSUME ProvidersAssumption == MaxAttempts \in Nat \ {0}

Transient == {"blip"}
Response == {"text", "overlong", "blip", "broken"}
Series == [1 .. MaxAttempts -> Response]            \* what the requests of one call would get
Refusals == [k \in 1 .. MaxAttempts |-> "blip"]

\* The response that settles a call: the first that is not transient, or the last.
Settles(series, k) == k = MaxAttempts \/ series[k] \notin Transient
WithRetries(series) ==
  series[CHOOSE k \in 1 .. MaxAttempts : Settles(series, k) /\ \A j \in 1 .. k - 1 : ~Settles(series, j)]

\* The cache holds <<namespace, prompt, provider>>; the namespace is the model and the
\* prompt variant of the provider a chain starts with.
Namespace(chain) == Head(chain)
CacheKey_PromptOnly(chain, prompt) == <<"", prompt>>       \* mutant: the question alone
CacheKey(chain, prompt) == <<Namespace(chain), prompt>>
Entry(cache, at) == {e \in cache : <<e[1], e[2]>> = at}
Stored(cache, at, by) == (cache \ Entry(cache, at)) \cup {<<at[1], at[2], by>>}

\* complete(): served from the cache, or by the first permitted provider that does not
\* fail; a generation that is too long is the result of the call, not a failure of the
\* provider; the stub that answers when all failed is never stored.
Completion(result, by, cache) == [result |-> result, by |-> by, cache |-> cache]
Complete(chain, fallback, cache, prompt, series) ==
  LET at == CacheKey(chain, prompt)
      hit == Entry(cache, at)
      permitted == IF fallback THEN 1 .. Len(chain) ELSE 1 .. Len(chain) \cap {1}
      Outcome(k) == WithRetries(series[chain[k]])
      served == {k \in permitted : Outcome(k) \in {"text", "overlong"}}
      first == CHOOSE k \in served : \A j \in served : k <= j
  IN IF hit # {} THEN Completion("text", (CHOOSE e \in hit : TRUE)[3], cache)
     ELSE IF served = {} THEN IF fallback THEN Completion("text", "stub", cache)
                              ELSE Completion("exhausted", "", cache)
     ELSE IF Outcome(first) = "overlong" THEN Completion("overlong", chain[first], cache)
     ELSE Completion("text", chain[first], Stored(cache, at, chain[first]))

-----------------------------------------------------------------------------
(* The supervisor, its workers and their files.                              *)
CONSTANTS
  Programs,          \* the corpus, in order
  Keys,              \* every key there will be, in order
  KeyCounts,         \* how many of them the file of keys may list
  DeadKeys,          \* keys that are never given allowance again
  BatchChain,        \* providers of a worker, which never falls back
  PlayChain,         \* providers of the playground, which does
  Played,            \* the programs it asks about
  BarrenLimit,
  MaxKills, MaxFaults

\* No program is twice in the corpus.  The playground leads with another model than the
\* worker, or has no other to fall back to (build_chain, start_worker): what it falls back to
\* is cached as an answer of the model it leads with.
ASSUME LlmPassAssumption ==
  /\ {Programs, Keys, BatchChain, PlayChain} \subseteq Seq(STRING)
  /\ BatchChain # <<>> /\ PlayChain # <<>> /\ "" \notin Range(Programs)
  /\ \A i, j \in DOMAIN Programs : Programs[i] = Programs[j] => i = j
  /\ Head(PlayChain) = Head(BatchChain) => Range(PlayChain) = {Head(BatchChain)}
  /\ KeyCounts \subseteq 1 .. Len(Keys) /\ KeyCounts # {}
  /\ DeadKeys \subseteq Range(Keys) /\ Played \subseteq Range(Programs)
  /\ {BarrenLimit, MaxKills, MaxFaults} \subseteq Nat

Out == -1                                   \* the combined file; the others are the shards
Files == {Out} \cup 0 .. Len(Keys) - 1

VARIABLES
  reaps,      \* whether batches of a supervisor that is gone can be found and stopped
  nkeys,      \* the keys the file lists
  allow,      \* per key: it has allowance left
  cache,      \* what was answered
  files,      \* the rows of every file: [p, by, ok]
  workers,    \* per file: the worker that writes it
  sup,        \* the supervisor
  used        \* kills and faults so far

vars == <<reaps, nkeys, allow, cache, files, workers, sup, used>>

NoRow == [p |-> "", by |-> "", ok |-> FALSE]
Idle == [list |-> <<>>, key |-> "", row |-> NoRow]
Off(stuck) == [at |-> "off", before |-> 0, codes |-> <<>>, barren |-> 0, stuck |-> stuck,
               rotation |-> 0, rows |-> <<>>, next |-> "loop"]

Init ==
  /\ reaps \in BOOLEAN /\ nkeys \in KeyCounts
  /\ allow = [k \in Range(Keys) |-> TRUE]
  /\ cache = {} /\ files = [f \in Files |-> <<>>]
  /\ workers = [f \in Files |-> Idle] /\ sup = Off(FALSE)
  /\ used = [kills |-> 0, faults |-> 0]

\* What the variables hold, with every index a step may use: a batch's codes are of files the
\* keys have, and whoever has a row in hand has the program it is of at the head of the list.
Row == [p : Range(Programs), by : Range(BatchChain) \cup {""}, ok : BOOLEAN]
LlmPassTypeOK ==
  /\ reaps \in BOOLEAN /\ nkeys \in KeyCounts /\ allow \in [Range(Keys) -> BOOLEAN]
  /\ cache \subseteq (Range(PlayChain) \cup Range(BatchChain)) \X Range(Programs) \X Range(PlayChain \o BatchChain)
  /\ files \in [Files -> Seq(Row)]
  /\ \A f \in Files :
       LET w == workers[f] IN
       \/ w = Idle
       \/ /\ w \in [list : Seq(Range(Programs)), key : Range(Keys), row : Row \cup {NoRow}]
          /\ w.row # NoRow => w.list # <<>> /\ w.row.p = Head(w.list)
  /\ sup.at \in {"off", "loop", "running", "wait", "fold", "write", "done"} /\ sup.next \in {"loop", "wait", "done"}
  /\ sup.before \in 0 .. Len(Programs) /\ sup.barren \in 0 .. BarrenLimit /\ sup.rotation \in 0 .. nkeys - 1
  /\ sup.stuck \in BOOLEAN /\ sup.rows \in Seq(Row)
  /\ DOMAIN sup.codes \subseteq Files /\ Range(sup.codes) \subseteq {"running", "quota", "clean", "error"}
  /\ used \in [kills : 0 .. MaxKills, faults : 0 .. MaxFaults]

\* What stands at the given places of a list, in order.
Picked(list, places) ==
  [n \in 1 .. Cardinality(places) |-> list[CHOOSE k \in places : Cardinality({j \in places : j < k}) = n - 1]]

ProgramsIn(rows) == {rows[k].p : k \in DOMAIN rows}
Good(rows) == {rows[k].p : k \in {j \in DOMAIN rows : rows[j].ok}}
Listed == 0 .. nkeys - 1
Combined == {Out} \cup Listed
Answered == UNION {ProgramsIn(files[f]) : f \in Combined}
Missing(list, done) == Picked(list, {k \in DOMAIN list : list[k] \notin done})

\* share_out: every n-th of what is still missing.
ShareOut_Whole(pending, n) == [i \in 0 .. n - 1 |-> pending]   \* mutant: everyone gets all of it
ShareOut(pending, n) == [i \in 0 .. n - 1 |-> Picked(pending, {j \in DOMAIN pending : (j - 1) % n = i})]

----------------------------------------------------------------------------
(* The supervisor.                                                            *)
Start ==
  /\ sup.at = "off"
  /\ workers' = IF reaps THEN [f \in Files |-> Idle] ELSE workers
  /\ sup' = [Off(FALSE) EXCEPT !.at = "loop"]
  /\ UNCHANGED <<reaps, nkeys, allow, cache, files, used>>

\* A worker that finds its file held by another is an error; one with nothing to do is
\* not started.  What it has rows for already it skips.
Turn_Fixed(i) == Keys[i + 1]                                  \* mutant: a worker keeps its key
Turn(i) == Keys[((i + sup.rotation) % nkeys) + 1]
StartBatch ==
  /\ sup.at = "loop" /\ Cardinality(Answered) < Len(Programs)
  /\ LET plan == ShareOut(Missing(Programs, Answered), nkeys)
         List(f) == IF nkeys = 1 THEN Programs ELSE plan[f]
         started == IF nkeys = 1 THEN {Out} ELSE {i \in Listed : plan[i] # <<>>}
         Fresh(f) == [list |-> Missing(List(f), Good(files[f])),
                      key |-> Turn(IF f = Out THEN 0 ELSE f), row |-> NoRow]
     IN /\ workers' = [f \in Files |-> IF f \in started /\ workers[f] = Idle THEN Fresh(f) ELSE workers[f]]
        /\ sup' = [sup EXCEPT !.at = "running", !.before = Cardinality(Answered), !.rotation = (@ + 1) % nkeys,
                              !.codes = [f \in started |-> IF workers[f] = Idle THEN "running" ELSE "error"]]
  /\ UNCHANGED <<reaps, nkeys, allow, cache, files, used>>

BatchOver ==
  /\ sup.at = "running"
  /\ \A f \in DOMAIN sup.codes : sup.codes[f] # "running"
  /\ LET gained == Cardinality(Answered) > sup.before
         clean == \A f \in DOMAIN sup.codes : sup.codes[f] # "error"
         spent == \A f \in DOMAIN sup.codes : sup.codes[f] = "quota"
         barren == IF gained THEN 0 ELSE IF sup.barren < BarrenLimit THEN sup.barren + 1 ELSE BarrenLimit
     IN sup' = [sup EXCEPT !.at = IF gained THEN "fold" ELSE "wait",
                           !.next = IF gained /\ clean /\ ~spent THEN "loop" ELSE "wait",
                           !.barren = barren,
                           !.stuck = ~gained /\ (@ \/ barren >= BarrenLimit)]
  /\ UNCHANGED <<reaps, nkeys, allow, cache, files, workers, used>>

WakeUp ==
  /\ sup.at = "wait" /\ sup' = [sup EXCEPT !.at = "loop"]
  /\ UNCHANGED <<reaps, nkeys, allow, cache, files, workers, used>>

CorpusComplete ==
  /\ sup.at = "loop" /\ Cardinality(Answered) >= Len(Programs)
  /\ sup' = [sup EXCEPT !.at = "fold", !.next = "done"]
  /\ UNCHANGED <<reaps, nkeys, allow, cache, files, workers, used>>

\* combine_shards: the rows of the combined file and, shard by shard, those of programs
\* not seen yet, in the order of the corpus.  The file is opened for writing, which
\* empties it, and written.
Places == UNION {{<<f, k>> : k \in DOMAIN files[f]} : f \in Combined}
RowAt(a) == files[a[1]][a[2]]
Earlier(a, b) == a[1] < b[1] \/ (a[1] = b[1] /\ a[2] < b[2])
Kept_Unseen == Places                                       \* mutant: nothing is looked for
Kept == {a \in Places : a[1] = Out \/ \A b \in Places : Earlier(b, a) => RowAt(b).p # RowAt(a).p}
Before(r, s) == \E i, j \in DOMAIN Programs : i < j /\ Programs[i] = r.p /\ Programs[j] = s.p
Ahead(a, b) == Before(RowAt(a), RowAt(b)) \/ (RowAt(a).p = RowAt(b).p /\ Earlier(a, b))
Merged ==
  [n \in 1 .. Cardinality(Kept) |-> RowAt(CHOOSE a \in Kept : Cardinality({b \in Kept : Ahead(b, a)}) = n - 1)]
Folds == nkeys >= 2 /\ \E a \in Kept : a[1] # Out

\* Mutant: what was merged is taken from the shards.
FoldOpen_Moves ==
  /\ sup.at = "fold"
  /\ IF Folds THEN /\ sup' = [sup EXCEPT !.at = "write", !.rows = Merged]
                   /\ files' = [f \in Files |-> <<>>]
     ELSE sup' = [sup EXCEPT !.at = sup.next] /\ UNCHANGED files
  /\ UNCHANGED <<reaps, nkeys, allow, cache, workers, used>>

FoldOpen ==
  /\ sup.at = "fold"
  /\ IF Folds THEN /\ sup' = [sup EXCEPT !.at = "write", !.rows = Merged]
                   /\ files' = [files EXCEPT ![Out] = <<>>]
     ELSE sup' = [sup EXCEPT !.at = sup.next] /\ UNCHANGED files
  /\ UNCHANGED <<reaps, nkeys, allow, cache, workers, used>>

FoldWrite ==
  /\ sup.at = "write"
  /\ files' = [files EXCEPT ![Out] = sup.rows]
  /\ sup' = [sup EXCEPT !.at = sup.next, !.rows = <<>>]
  /\ UNCHANGED <<reaps, nkeys, allow, cache, workers, used>>

----------------------------------------------------------------------------
(* A worker.                                                                  *)
Ends(f, code) ==
  /\ workers' = [workers EXCEPT ![f] = Idle]
  /\ sup' = IF sup.at = "running" /\ f \in DOMAIN sup.codes /\ sup.codes[f] = "running"
            THEN [sup EXCEPT !.codes[f] = code] ELSE sup

\* The program at the head of the list is put to the model, unless the engine fails on it.
\* A key without allowance is refused at every attempt; one with allowance may have spent
\* it by the answer.  The worker stops when its provider fails.
Ask(f) ==
  /\ workers[f].list # <<>> /\ workers[f].row = NoRow
  /\ LET p == Head(workers[f].list)
         key == workers[f].key
         hit == Entry(cache, CacheKey(BatchChain, p)) # {}
         Written(by, ok) == /\ workers' = [workers EXCEPT ![f].row = [p |-> p, by |-> by, ok |-> ok]]
                            /\ UNCHANGED sup
     IN \/ \E s \in IF allow[key] THEN Series ELSE {Refusals} :
             LET c == Complete(BatchChain, FALSE, cache, p, [x \in {Head(BatchChain)} |-> s])
                 fault == c.result = "exhausted" /\ allow[key]
             IN /\ fault => used.faults < MaxFaults
                /\ used' = IF fault THEN [used EXCEPT !.faults = @ + 1] ELSE used
                /\ cache' = c.cache
                /\ IF c.result = "exhausted" THEN Ends(f, "quota") ELSE Written(c.by, TRUE)
                /\ \E left \in IF hit \/ c.result = "exhausted" THEN {allow[key]} ELSE BOOLEAN :
                     allow' = [allow EXCEPT ![key] = left]
        \/ /\ used.faults < MaxFaults /\ used' = [used EXCEPT !.faults = @ + 1]
           /\ Written("", FALSE) /\ UNCHANGED <<cache, allow>>
  /\ UNCHANGED <<reaps, nkeys, files>>

WriteRow(f) ==
  /\ workers[f].row # NoRow
  /\ files' = [files EXCEPT ![f] = Append(@, workers[f].row)]
  /\ workers' = [workers EXCEPT ![f].row = NoRow, ![f].list = Tail(@)]
  /\ UNCHANGED <<reaps, nkeys, allow, cache, sup, used>>

Finish(f) ==
  /\ workers[f] # Idle /\ workers[f].list = <<>> /\ Ends(f, "clean")
  /\ UNCHANGED <<reaps, nkeys, allow, cache, files, used>>

\* It crashes, or hangs until the supervisor kills it for its time.
Crash(f) ==
  /\ workers[f] # Idle /\ used.faults < MaxFaults
  /\ used' = [used EXCEPT !.faults = @ + 1] /\ Ends(f, "error")
  /\ UNCHANGED <<reaps, nkeys, allow, cache, files>>

----------------------------------------------------------------------------
(* Everything else.                                                           *)
Refill(k) ==
  /\ ~allow[k] /\ k \notin DeadKeys /\ allow' = [allow EXCEPT ![k] = TRUE]
  /\ UNCHANGED <<reaps, nkeys, cache, files, workers, sup, used>>

Playground ==
  /\ \E p \in Played : \E s \in [Range(PlayChain) -> {Refusals, [Refusals EXCEPT ![MaxAttempts] = "text"]}] :
       cache' = Complete(PlayChain, TRUE, cache, p, s).cache
  /\ UNCHANGED <<reaps, nkeys, allow, files, workers, sup, used>>

\* The supervisor is killed; its workers go on without it unless the machine went down.
Kill ==
  /\ sup.at \notin {"off", "done"} /\ used.kills < MaxKills
  /\ used' = [used EXCEPT !.kills = @ + 1] /\ sup' = Off(sup.stuck)
  /\ \E w \in {workers, [f \in Files |-> Idle]} : workers' = w
  /\ UNCHANGED <<reaps, nkeys, allow, cache, files>>

Supervisor == Start \/ StartBatch \/ BatchOver \/ WakeUp \/ CorpusComplete \/ FoldOpen \/ FoldWrite
Worker(f) == Ask(f) \/ WriteRow(f) \/ Finish(f)
Next == \/ Supervisor \/ Kill \/ Playground
        \/ \E f \in Files : Worker(f) \/ Crash(f)
        \/ \E k \in Range(Keys) : Refill(k)

\* The supervisor and its workers go on while the machine runs, and a key that is not dead
\* is given allowance again.
Spec == /\ Init /\ [][Next]_vars
        /\ WF_vars(Supervisor)
        /\ \A f \in Files : WF_vars(Worker(f))
        /\ \A k \in Range(Keys) : WF_vars(Refill(k))

----------------------------------------------------------------------------
\* llm_pass.py:9 "nothing is lost and nothing is repeated", as long as the number of keys
\* stays what it was: a program once answered stays answered over any kill, also one in the
\* middle of the rewriting of the combined file,
NothingLost == [][Answered \subseteq Answered']_vars

\* and where the batches of a supervisor that was killed can be stopped, no two rows were
\* worked out for one program (share_out, reap_orphans).
Times(p, f) == Cardinality({k \in DOMAIN files[f] : files[f][k].p = p /\ files[f][k].ok})
NothingRepeated ==
  reaps =>
    \A p \in Range(Programs) :
      IF nkeys = 1 THEN Times(p, Out) <= 1
      ELSE \A f, g \in Listed : Times(p, f) + (IF f = g THEN 0 ELSE Times(p, g)) <= 1

\* A pass that stops because the corpus is complete leaves one file with one row for each
\* program, and nothing that says it is stuck (combine_shards, mark_stuck).
CompleteMeansFolded ==
  sup.at = "done" =>
    /\ ProgramsIn(files[Out]) = Range(Programs)
    /\ nkeys >= 2 => Len(files[Out]) = Len(Programs)
    /\ reaps => ~sup.stuck

\* Every row is the answer of the one model the pass is of, whatever else shares the cache
\* and however far it fell back (provider.py: "a dataset where some rows came from one model
\* and the rest from another cannot be reported as one method").
OneModel ==
  \A f \in Files : \A k \in DOMAIN files[f] : files[f][k].ok => files[f][k].by = Head(BatchChain)

\* The corpus can be reported: one good row for each program, of one model; and the types.
CorpusIsTrue == LlmPassTypeOK /\ NothingRepeated /\ CompleteMeansFolded /\ OneModel

\* The pass completes as long as one of its keys works, whichever of them is dead: the keys
\* take turns at the shards (supervise).
Completes == (\E i \in Listed : Keys[i + 1] \notin DeadKeys) => <>(sup.at = "done")
=============================================================================
