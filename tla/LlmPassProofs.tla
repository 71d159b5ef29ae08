----------------------------- MODULE LlmPassProofs -----------------------------
(* Theorems about LlmPass, for every corpus, every number of keys and any      *)
(* kills and faults.  What the combined file has, the shards have too          *)
(* (Backed): it can be emptied and written anew.  Nobody works on what another *)
(* has in hand or what was worked out before (Apart), because only a           *)
(* supervisor that has stopped the batches of others starts one (Quiet).       *)
EXTENDS LlmPass, FiniteSetTheorems, SequenceTheorems, WellFoundedInduction, TLAPS

\* The files somebody writes, what the shards have, and rows of which none is of the
\* program of another.
Writers == IF nkeys = 1 THEN {Out} ELSE Listed
Sharded == UNION {ProgramsIn(files[f]) : f \in Listed}
Once(rows) == \A i, j \in DOMAIN rows : rows[i].p = rows[j].p => i = j
Distinct(list) == \A i, j \in DOMAIN list : list[i] = list[j] => i = j

Codes == {"running", "quota", "clean", "error"}
SupTyped ==
  /\ sup = [at |-> sup.at, before |-> sup.before, codes |-> sup.codes, barren |-> sup.barren,
            stuck |-> sup.stuck, rotation |-> sup.rotation, rows |-> sup.rows, next |-> sup.next]
  /\ sup.codes \in [DOMAIN sup.codes -> Codes]
Typed == LlmPassTypeOK /\ SupTyped /\ workers = [f \in Files |-> workers[f]]

\* Only the files that somebody writes have rows, and the combined one.
InPlace ==
  \A f \in Files : /\ workers[f] # Idle => f \in Writers
                   /\ files[f] # <<>> => f \in {Out} \cup Writers

\* With several keys, what was folded came from the shards, once for each program, and stays there.
Backed ==
  /\ nkeys >= 2 => ProgramsIn(files[Out]) \subseteq Sharded /\ Once(files[Out])
  /\ sup.at = "write" => nkeys >= 2 /\ ProgramsIn(sup.rows) \subseteq Sharded /\ Once(sup.rows)

\* From the moment the corpus is found complete.
Whole ==
  /\ sup.next = "done" /\ sup.at \in {"fold", "write"} => Answered = Range(Programs)
  /\ sup.next = "done" /\ sup.at = "write" => ProgramsIn(sup.rows) = Range(Programs)
  /\ sup.at = "done" => ProgramsIn(files[Out]) = Range(Programs)

\* A supervisor that stops the batches of others knows whoever is at work.
Quiet ==
  reaps =>
    \A f \in Files : workers[f] # Idle =>
      /\ sup.at \in {"off", "running"}
      /\ sup.at = "running" => f \in DOMAIN sup.codes /\ sup.codes[f] = "running"

\* It is not stuck with a corpus that is complete.
Unstuck ==
  /\ sup.at = "running" => sup.before < Len(Programs)
  /\ reaps /\ sup.stuck =>
       /\ sup.at \in {"off", "loop", "wait", "running"}
       /\ sup.at \in {"loop", "wait"} => Cardinality(Answered) < Len(Programs)

\* What is to be done is to be done once, by one worker, and was not done before.
Apart ==
  /\ \A f \in Files : Distinct(workers[f].list)
  /\ reaps =>
       \A f, g \in Writers :
         /\ f # g => Range(workers[f].list) \cap Range(workers[g].list) = {}
         /\ Range(workers[f].list) \cap Good(files[g]) = {}
         /\ \A k \in DOMAIN files[f], j \in DOMAIN files[g] :
              /\ files[f][k].ok /\ files[g][j].ok /\ files[f][k].p = files[g][j].p
              => f = g /\ k = j

\* Whatever is in the cache under the model of the batch was said by that model.
ByTheModel(rows) == \A k \in DOMAIN rows : rows[k].ok => rows[k].by = Head(BatchChain)
SaidByIt(entries) == \A e \in entries : e[1] = Head(BatchChain) => e[3] = Head(BatchChain)
OneVoice ==
  /\ \A f \in Files : /\ ByTheModel(files[f])
                      /\ workers[f].row.ok => workers[f].row.by = Head(BatchChain)
  /\ ByTheModel(sup.rows) /\ SaidByIt(cache)

PassInv == Typed /\ InPlace /\ Backed /\ Whole /\ Quiet /\ Unstuck /\ Apart /\ OneVoice

-----------------------------------------------------------------------------
(* Sets in order, and what stands at some places of a list. *)

\* A set of numbers that is not empty has a least one.
LEMMA LeastNumber ==
  ASSUME NEW S \in SUBSET Nat, S # {}
  PROVE  \E n \in S : \A k \in S : n <= k
<1> DEFINE R == OpToRel(<, Nat)
<1>1. IsWellFoundedOn(R, Nat)
  BY NatLessThanWellFounded
<1>2. R = {e \in Nat \X Nat : e[1] < e[2]}
  BY DEF OpToRel
<1> HIDE DEF R
<1>3. PICK n \in S : \A k \in S : <<k, n>> \notin R
  BY <1>1, WFMin
<1>4. \A k \in S : ~(k < n)
  BY <1>2, <1>3
<1> QED
  BY <1>4

\* The members of a finite set that comes in an order R: each has so many before it, no two
\* as many, and any number below that of the members is that of one.
StrictOrder(R, S) ==
  /\ \A a \in S : <<a, a>> \notin R
  /\ \A a, b, c \in S : <<a, b>> \in R /\ <<b, c>> \in R => <<a, c>> \in R
  /\ \A a, b \in S : a = b \/ <<a, b>> \in R \/ <<b, a>> \in R
Rank(R, S) == [a \in S |-> Cardinality({b \in S : <<b, a>> \in R})]

LEMMA EveryRank ==
  ASSUME NEW S, IsFiniteSet(S), NEW R, StrictOrder(R, S)
  PROVE  /\ Cardinality(S) \in Nat
         /\ Rank(R, S) \in [S -> 0 .. Cardinality(S) - 1]
         /\ \A a, b \in S : Rank(R, S)[a] = Rank(R, S)[b] => a = b
         /\ \A n \in 0 .. Cardinality(S) - 1 : \E a \in S : Rank(R, S)[a] = n
<1> DEFINE Under(a) == {b \in S : <<b, a>> \in R}
           c == Cardinality(S)
           rank == Rank(R, S)
<1>1. c \in Nat
  BY FS_CardinalityType
<1>2. ASSUME NEW a \in S PROVE IsFiniteSet(Under(a)) /\ Cardinality(Under(a)) \in 0 .. c - 1
  <2>1. Under(a) \in SUBSET S /\ a \notin Under(a)
    BY DEF StrictOrder
  <2>2. IsFiniteSet(Under(a)) /\ Cardinality(Under(a)) <= c /\ Cardinality(Under(a)) # c
    BY <2>1, FS_Subset
  <2>3. Cardinality(Under(a)) \in Nat
    BY <2>2, FS_CardinalityType
  <2> QED
    BY <1>1, <2>2, <2>3
<1>3. ASSUME NEW a \in S, NEW b \in S, <<a, b>> \in R PROVE Cardinality(Under(a)) < Cardinality(Under(b))
  <2>1. Under(a) \in SUBSET Under(b) /\ a \in Under(b) /\ a \notin Under(a)
    BY <1>3 DEF StrictOrder
  <2>2. Cardinality(Under(a)) <= Cardinality(Under(b)) /\ Cardinality(Under(a)) # Cardinality(Under(b))
    BY <1>2, <2>1, FS_Subset
  <2> QED
    BY <1>1, <1>2, <2>2
<1>4. rank \in [S -> 0 .. c - 1] /\ \A a \in S : rank[a] = Cardinality(Under(a))
  BY <1>2 DEF Rank
<1>5. ASSUME NEW a \in S, NEW b \in S, rank[a] = rank[b] PROVE a = b
  <2>1. ~(Cardinality(Under(a)) < Cardinality(Under(b))) /\ ~(Cardinality(Under(b)) < Cardinality(Under(a)))
    BY <1>1, <1>2, <1>4, <1>5
  <2> QED
    BY <1>3, <2>1 DEF StrictOrder
<1>6. rank \in Injection(S, 0 .. c - 1)
  BY <1>4, <1>5 DEF Injection, IsInjective
<1>7. IsFiniteSet(0 .. c - 1) /\ Cardinality(0 .. c - 1) = c
  BY <1>1, FS_Interval
<1>8. rank \in Surjection(S, 0 .. c - 1)
  BY <1>6, <1>7, FS_Injection
<1>9. \A n \in 0 .. c - 1 : \E a \in S : rank[a] = n
  BY <1>8 DEF Surjection
<1> QED
  BY <1>1, <1>4, <1>5, <1>9

\* The n-th member of a finite set.
Nth(R, S) == [n \in 1 .. Cardinality(S) |-> CHOOSE a \in S : Cardinality({b \in S : <<b, a>> \in R}) = n - 1]

LEMMA EachOnce ==
  ASSUME NEW S, IsFiniteSet(S), NEW R, StrictOrder(R, S)
  PROVE  /\ Cardinality(S) \in Nat
         /\ Nth(R, S) \in [1 .. Cardinality(S) -> S]
         /\ \A m, n \in 1 .. Cardinality(S) : Nth(R, S)[m] = Nth(R, S)[n] => m = n
         /\ \A a \in S : \E n \in 1 .. Cardinality(S) : Nth(R, S)[n] = a
<1> DEFINE c == Cardinality(S)
           nth == Nth(R, S)
           rank == Rank(R, S)
<1>1. c \in Nat /\ rank \in [S -> 0 .. c - 1] /\ \A a, b \in S : rank[a] = rank[b] => a = b
  BY EveryRank
<1>2. \A n \in 0 .. c - 1 : \E a \in S : rank[a] = n
  BY EveryRank
<1>3. \A a \in S : rank[a] = Cardinality({b \in S : <<b, a>> \in R})
  BY DEF Rank
<1>4. ASSUME NEW n \in 1 .. c PROVE nth[n] \in S /\ rank[nth[n]] = n - 1
  <2>1. nth[n] = CHOOSE a \in S : Cardinality({b \in S : <<b, a>> \in R}) = n - 1
    BY DEF Nth
  <2>2. \E a \in S : Cardinality({b \in S : <<b, a>> \in R}) = n - 1
    BY <1>1, <1>2, <1>3
  <2>3. nth[n] \in S /\ Cardinality({b \in S : <<b, nth[n]>> \in R}) = n - 1
    BY <2>1, <2>2
  <2> QED
    BY <1>3, <2>3
<1>5. nth \in [1 .. c -> S]
  BY <1>4 DEF Nth
<1> HIDE DEF nth, rank
<1>6. \A m, n \in 1 .. c : nth[m] = nth[n] => m = n
  BY <1>1, <1>4
<1>7. ASSUME NEW a \in S PROVE \E n \in 1 .. c : nth[n] = a
  <2>1. rank[a] + 1 \in 1 .. c /\ rank[a] \in 0 .. c - 1
    BY <1>1
  <2>2. rank[nth[rank[a] + 1]] = rank[a] + 1 - 1 /\ nth[rank[a] + 1] \in S
    BY <1>4, <2>1
  <2>3. rank[nth[rank[a] + 1]] = rank[a]
    BY <2>1, <2>2
  <2> QED
    BY <1>1, <2>1, <2>2, <2>3
<1> QED
  BY <1>1, <1>5, <1>6, <1>7 DEF nth

\* Numbers come in their order.
LEMMA NumbersInOrder ==
  ASSUME NEW S \in SUBSET Nat
  PROVE  StrictOrder({e \in S \X S : e[1] < e[2]}, S)
BY DEF StrictOrder

\* What is picked from a list stands in it, at places of its own, and nothing is left out.
LEMMA PickedIs ==
  ASSUME NEW T, NEW list \in Seq(T), NEW places \in SUBSET DOMAIN list
  PROVE  /\ Picked(list, places) \in Seq(T)
         /\ Range(Picked(list, places)) = {list[k] : k \in places}
         /\ Distinct(list) => Distinct(Picked(list, places))
<1> DEFINE R == {e \in places \X places : e[1] < e[2]}
           c == Cardinality(places)
           nth == Nth(R, places)
           some == Picked(list, places)
<1>1. DOMAIN list = 1 .. Len(list) /\ Len(list) \in Nat /\ places \in SUBSET Nat
  OBVIOUS
<1>2. IsFiniteSet(places)
  <2>1. IsFiniteSet(1 .. Len(list))
    BY <1>1, FS_Interval
  <2>2. places \in SUBSET (1 .. Len(list))
    BY <1>1
  <2> QED
    BY <2>1, <2>2, FS_Subset
<1>3. StrictOrder(R, places)
  BY <1>1, NumbersInOrder
<1>4. c \in Nat /\ nth \in [1 .. c -> places]
  BY <1>2, <1>3, EachOnce
<1>5. \A m, n \in 1 .. c : nth[m] = nth[n] => m = n
  BY <1>2, <1>3, EachOnce
<1>6. \A k \in places : \E n \in 1 .. c : nth[n] = k
  BY <1>2, <1>3, EachOnce
<1>7. some = [n \in 1 .. c |-> list[nth[n]]]
  <2>1. \A n \in 1 .. c : nth[n] = CHOOSE k \in places : Cardinality({j \in places : <<j, k>> \in R}) = n - 1
    BY DEF Nth
  <2>2. \A k \in places : {j \in places : j < k} = {j \in places : <<j, k>> \in R}
    OBVIOUS
  <2> DEFINE place(n) == CHOOSE k \in places : Cardinality({j \in places : j < k}) = n - 1
  <2>3. \A n \in 1 .. c : place(n) = nth[n]
    BY <2>1, <2>2
  <2>4. some = [n \in 1 .. c |-> list[place(n)]]
    BY DEF Picked
  <2> HIDE DEF some, nth, R, place
  <2> QED
    BY <2>3, <2>4
<1> HIDE DEF nth, some, R
<1>8. \A n \in 1 .. c : list[nth[n]] \in T
  BY <1>1, <1>4
<1>9. some \in Seq(T) /\ DOMAIN some = 1 .. c
  BY <1>4, <1>7, <1>8
<1>10. Range(some) = {list[k] : k \in places}
  BY <1>4, <1>6, <1>7, <1>9 DEF Range
<1>11. ASSUME Distinct(list) PROVE Distinct(some)
  <2>1. \A m, n \in 1 .. c : list[nth[m]] = list[nth[n]] => nth[m] = nth[n]
    BY <1>4, <1>11 DEF Distinct
  <2> QED
    BY <1>5, <1>7, <1>9, <2>1 DEF Distinct
<1> QED
  BY <1>9, <1>10, <1>11 DEF some

-----------------------------------------------------------------------------
(* The corpus and the files. *)

\* The place of a program in the corpus.
At(p) == CHOOSE i \in DOMAIN Programs : Programs[i] = p

LEMMA CorpusIs ==
  /\ Programs \in Seq(STRING) /\ Len(Programs) \in Nat /\ DOMAIN Programs = 1 .. Len(Programs)
  /\ \A p \in Range(Programs) : At(p) \in DOMAIN Programs /\ Programs[At(p)] = p
  /\ \A i \in DOMAIN Programs : Programs[i] \in Range(Programs) /\ At(Programs[i]) = i
  /\ IsFiniteSet(Range(Programs)) /\ Cardinality(Range(Programs)) = Len(Programs)
<1> DEFINE n == Len(Programs)
<1>0. Programs \in Seq(STRING)
  BY LlmPassAssumption
<1>1. Programs \in Seq(STRING) /\ n \in Nat /\ DOMAIN Programs = 1 .. n
  BY <1>0
<1>2. \A p \in Range(Programs) : At(p) \in DOMAIN Programs /\ Programs[At(p)] = p
  BY DEF At, Range
<1>3. \A i \in DOMAIN Programs : Programs[i] \in Range(Programs)
  BY DEF Range
<1>4. \A i \in DOMAIN Programs : At(Programs[i]) = i
  BY <1>2, <1>3, LlmPassAssumption
<1> DEFINE f == [i \in 1 .. n |-> Programs[i]]
<1>5. f \in Surjection(1 .. n, Range(Programs))
  BY <1>1, <1>3 DEF Surjection, Range
<1>6. f \in Injection(1 .. n, Range(Programs))
  BY <1>1, <1>3, LlmPassAssumption DEF Injection, IsInjective
<1>7. IsFiniteSet(1 .. n) /\ Cardinality(1 .. n) = n
  BY <1>1, FS_Interval
<1> HIDE DEF f
<1>8. IsFiniteSet(Range(Programs)) /\ Cardinality(Range(Programs)) = n
  BY <1>5, <1>6, <1>7, FS_Surjection
<1> QED
  BY <1>1, <1>2, <1>3, <1>4, <1>8

\* The files in play are some of the files, and each holds rows.
LEMMA FilesAre ==
  ASSUME LlmPassTypeOK
  PROVE  /\ nkeys \in Nat \ {0} /\ nkeys <= Len(Keys) /\ Len(Keys) \in Nat /\ Keys \in Seq(STRING)
         /\ Listed \subseteq Nat /\ Out \notin Listed /\ Writers \subseteq Combined
         /\ Combined \subseteq Files /\ Combined \subseteq Int /\ IsFiniteSet(Combined)
         /\ \A f \in Files : /\ files[f] \in Seq(Row) /\ DOMAIN files[f] \subseteq Nat
                             /\ \A k \in DOMAIN files[f] : files[f][k] \in Row /\ files[f][k].p \in Range(Programs)
<1>1. nkeys \in 1 .. Len(Keys) /\ Keys \in Seq(STRING)
  BY LlmPassAssumption DEF LlmPassTypeOK
<1>2. Len(Keys) \in Nat
  BY <1>1
<1>3. Listed \subseteq Nat /\ Out \notin Listed /\ Combined \subseteq Files /\ Combined \subseteq Int
  BY <1>1, <1>2 DEF Listed, Combined, Files, Out
<1>4. IsFiniteSet(Listed)
  BY <1>1, <1>2, FS_Interval DEF Listed
<1>5. IsFiniteSet(Combined)
  BY <1>4, FS_Singleton, FS_Union DEF Combined
<1>6. ASSUME NEW f \in Files
      PROVE  /\ files[f] \in Seq(Row) /\ DOMAIN files[f] \subseteq Nat
             /\ \A k \in DOMAIN files[f] : files[f][k] \in Row /\ files[f][k].p \in Range(Programs)
  <2>1. files[f] \in Seq(Row)
    BY DEF LlmPassTypeOK
  <2>2. \A k \in DOMAIN files[f] : files[f][k] \in Row
    BY <2>1
  <2>3. \A r \in Row : r.p \in Range(Programs)
    BY DEF Row
  <2> QED
    BY <2>1, <2>2, <2>3
<1> QED
  BY <1>1, <1>2, <1>3, <1>5, <1>6 DEF Writers, Combined

\* A place in a file and the row that stands there.
LEMMA PlacesAre ==
  ASSUME LlmPassTypeOK
  PROVE  /\ IsFiniteSet(Places)
         /\ \A a \in Places : /\ a = <<a[1], a[2]>> /\ a[1] \in Combined /\ a[1] \in Int
                              /\ a[2] \in DOMAIN files[a[1]] /\ a[2] \in Nat
                              /\ RowAt(a) \in Row /\ RowAt(a).p \in Range(Programs)
         /\ \A f \in Combined : \A k \in DOMAIN files[f] : <<f, k>> \in Places /\ RowAt(<<f, k>>) = files[f][k]
         /\ Answered = {RowAt(a).p : a \in Places}
<1> DEFINE of(f) == {<<f, k>> : k \in DOMAIN files[f]}
<1>1. \A f \in Combined : DOMAIN files[f] = 1 .. Len(files[f]) /\ Len(files[f]) \in Nat
  BY FilesAre
<1>2. ASSUME NEW f \in Combined PROVE IsFiniteSet(of(f))
  <2>1. IsFiniteSet(1 .. Len(files[f]))
    BY <1>1, FS_Interval
  <2>2. IsFiniteSet({f} \X DOMAIN files[f])
    BY <1>1, <2>1, FS_Singleton, FS_Product
  <2>3. of(f) \in SUBSET ({f} \X DOMAIN files[f])
    OBVIOUS
  <2> QED
    BY <2>2, <2>3, FS_Subset
<1>3. IsFiniteSet({of(f) : f \in Combined})
  <2>1. IsFiniteSet(Combined)
    BY FilesAre
  <2>2. [f \in Combined |-> of(f)] \in Surjection(Combined, {of(f) : f \in Combined})
    BY DEF Surjection
  <2> HIDE DEF of
  <2> QED
    BY <2>1, <2>2, FS_Surjection
<1>4. IsFiniteSet(UNION {of(f) : f \in Combined})
  <2>1. \A T \in {of(f) : f \in Combined} : IsFiniteSet(T)
    BY <1>2
  <2> HIDE DEF of
  <2> QED
    BY <1>3, <2>1, FS_UNION
<1>5. \A a \in Places : /\ a = <<a[1], a[2]>> /\ a[1] \in Combined /\ a[2] \in DOMAIN files[a[1]]
  BY DEF Places
<1>6. \A f \in Combined : \A k \in DOMAIN files[f] : <<f, k>> \in Places
  BY DEF Places
<1>7. Answered = {RowAt(a).p : a \in Places}
  <2>1. ASSUME NEW p \in Answered PROVE p \in {RowAt(a).p : a \in Places}
    <3>1. PICK f \in Combined : p \in ProgramsIn(files[f])
      BY DEF Answered
    <3>2. PICK k \in DOMAIN files[f] : p = files[f][k].p
      BY <3>1 DEF ProgramsIn
    <3>3. <<f, k>> \in Places /\ RowAt(<<f, k>>).p = p
      BY <1>6, <3>2 DEF RowAt
    <3> QED
      BY <3>3
  <2>2. ASSUME NEW a \in Places PROVE RowAt(a).p \in Answered
    <3>1. RowAt(a).p \in ProgramsIn(files[a[1]])
      BY <1>5 DEF ProgramsIn, RowAt
    <3> QED
      BY <1>5, <3>1 DEF Answered
  <2> QED
    BY <2>1, <2>2
<1> QED
  BY <1>4, <1>5, <1>6, <1>7, FilesAre DEF Places, RowAt

\* What was answered is of the corpus, and is all of it as soon as it is as many.
LEMMA AnsweredIs ==
  ASSUME LlmPassTypeOK
  PROVE  /\ Answered \subseteq Range(Programs) /\ Cardinality(Answered) \in 0 .. Len(Programs)
         /\ Cardinality(Answered) >= Len(Programs) => Answered = Range(Programs)
<1>1. Answered \in SUBSET Range(Programs)
  BY PlacesAre
<1>2. Cardinality(Answered) <= Len(Programs) /\ IsFiniteSet(Answered)
  BY <1>1, CorpusIs, FS_Subset
<1>3. Cardinality(Answered) \in Nat
  BY <1>2, FS_CardinalityType
<1>4. ASSUME Cardinality(Answered) >= Len(Programs) PROVE Answered = Range(Programs)
  <2>1. Cardinality(Range(Programs)) = Cardinality(Answered)
    BY <1>2, <1>3, <1>4, CorpusIs
  <2> QED
    BY <1>1, <2>1, CorpusIs, FS_Subset
<1> QED
  BY <1>1, <1>2, <1>3, <1>4, CorpusIs

-----------------------------------------------------------------------------
(* What is folded. *)

\* The rows that are kept come in one order: by program and, of one program, as they were read.
LEMMA AheadOrders ==
  ASSUME LlmPassTypeOK
  PROVE  StrictOrder({e \in Kept \X Kept : Ahead(e[1], e[2])}, Kept)
<1> DEFINE R == {e \in Kept \X Kept : Ahead(e[1], e[2])}
           i(a) == At(RowAt(a).p)
<1>1. \A a \in Kept : a = <<a[1], a[2]>> /\ a[1] \in Int /\ a[2] \in Int /\ RowAt(a).p \in Range(Programs)
  BY PlacesAre DEF Kept
<1>2. \A a \in Kept : i(a) \in Nat
  BY <1>1, CorpusIs
<1>3. \A a, b \in Kept : Before(RowAt(a), RowAt(b)) <=> i(a) < i(b)
  BY <1>1, CorpusIs DEF Before
<1>4. \A a, b \in Kept : RowAt(a).p = RowAt(b).p <=> i(a) = i(b)
  BY <1>1, CorpusIs
<1>5. \A a, b \in Kept : <<a, b>> \in R <=> i(a) < i(b) \/ (i(a) = i(b) /\ Earlier(a, b))
  BY <1>3, <1>4 DEF Ahead
<1> HIDE DEF R, i
<1>6. \A a \in Kept : <<a, a>> \notin R
  BY <1>1, <1>2, <1>5 DEF Earlier
<1>7. ASSUME NEW a \in Kept, NEW b \in Kept, NEW c \in Kept, <<a, b>> \in R, <<b, c>> \in R PROVE <<a, c>> \in R
  <2>1. i(a) \in Nat /\ i(b) \in Nat /\ i(c) \in Nat
    BY <1>2
  <2>2. a[1] \in Int /\ b[1] \in Int /\ c[1] \in Int /\ a[2] \in Int /\ b[2] \in Int /\ c[2] \in Int
    BY <1>1
  <2>3. Earlier(a, b) /\ Earlier(b, c) => Earlier(a, c)
    BY <2>2 DEF Earlier
  <2> QED
    BY <1>5, <1>7, <2>1, <2>3
<1>8. ASSUME NEW a \in Kept, NEW b \in Kept PROVE a = b \/ <<a, b>> \in R \/ <<b, a>> \in R
  <2>1. i(a) \in Nat /\ i(b) \in Nat
    BY <1>2
  <2>2. a = b \/ Earlier(a, b) \/ Earlier(b, a)
    BY <1>1 DEF Earlier
  <2> QED
    BY <1>5, <2>1, <2>2
<1>9. StrictOrder(R, Kept)
  BY <1>6, <1>7, <1>8 DEF StrictOrder
<1> QED
  BY <1>9 DEF R

\* Of the places of one program there is a first.
LEMMA FirstPlace ==
  ASSUME LlmPassTypeOK, NEW p \in Answered
  PROVE  \E a \in Kept : RowAt(a).p = p
<1> DEFINE Of == {a \in Places : RowAt(a).p = p}
<1>1. Of # {} /\ \A a \in Of : a = <<a[1], a[2]>> /\ a[1] \in Combined /\ a[1] \in Int /\ a[2] \in Nat
  BY PlacesAre
<1> DEFINE F == {a[1] + 1 : a \in Of}
<1>2. F \in SUBSET Nat /\ F # {}
  <2>1. \A f \in Combined : f + 1 \in Nat
    BY FilesAre DEF Combined, Out
  <2> QED
    BY <1>1, <2>1
<1>3. PICK n \in F : \A m \in F : n <= m
  BY <1>2, LeastNumber
<1> DEFINE G == {a[2] : a \in {b \in Of : b[1] + 1 = n}}
<1>4. G \in SUBSET Nat /\ G # {}
  BY <1>1, <1>3
<1>5. PICK k \in G : \A m \in G : k <= m
  BY <1>4, LeastNumber
<1>6. PICK a \in Of : a[1] + 1 = n /\ a[2] = k
  BY <1>5
<1>7. \A b \in Of : ~Earlier(b, a)
  <2> SUFFICES ASSUME NEW b \in Of, Earlier(b, a) PROVE FALSE
    OBVIOUS
  <2>1. a[1] \in Int /\ b[1] \in Int /\ a[2] \in Nat /\ b[2] \in Nat
    BY <1>1
  <2>2. n <= b[1] + 1
    BY <1>3
  <2>3. b[1] + 1 = n => k <= b[2]
    BY <1>5
  <2> QED
    BY <1>6, <2>1, <2>2, <2>3 DEF Earlier
<1>8. a \in Places /\ RowAt(a).p = p /\ \A b \in Places : Earlier(b, a) => RowAt(b).p # RowAt(a).p
  BY <1>6, <1>7
<1> QED
  BY <1>8 DEF Kept

\* The merged rows: of every program that was answered, and, if the combined file had one for
\* each of its own, one for each; none but what is in the files.
LEMMA MergedIs ==
  ASSUME LlmPassTypeOK
  PROVE  /\ Merged \in Seq(Row) /\ ProgramsIn(Merged) = Answered
         /\ Once(files[Out]) => Once(Merged)
         /\ (\A f \in Files : ByTheModel(files[f])) => ByTheModel(Merged)
         /\ (\A a \in Kept : a[1] = Out) => Answered = ProgramsIn(files[Out])
<1> DEFINE R == {e \in Kept \X Kept : Ahead(e[1], e[2])}
           c == Cardinality(Kept)
           nth == Nth(R, Kept)
<1>1. IsFiniteSet(Kept) /\ StrictOrder(R, Kept)
  <2>1. IsFiniteSet(Places) /\ Kept \in SUBSET Places
    BY PlacesAre DEF Kept
  <2> QED
    BY <2>1, FS_Subset, AheadOrders
<1>2. c \in Nat /\ nth \in [1 .. c -> Kept]
  BY <1>1, EachOnce
<1>3. \A m, n \in 1 .. c : nth[m] = nth[n] => m = n
  BY <1>1, EachOnce
<1>4. \A a \in Kept : \E n \in 1 .. c : nth[n] = a
  BY <1>1, EachOnce
<1>5. Merged = [n \in 1 .. c |-> RowAt(nth[n])]
  <2>1. \A n \in 1 .. c : nth[n] = CHOOSE a \in Kept : Cardinality({b \in Kept : <<b, a>> \in R}) = n - 1
    BY DEF Nth
  <2>2. \A a \in Kept : {b \in Kept : Ahead(b, a)} = {b \in Kept : <<b, a>> \in R}
    OBVIOUS
  <2> DEFINE place(n) == CHOOSE a \in Kept : Cardinality({b \in Kept : Ahead(b, a)}) = n - 1
  <2>3. \A n \in 1 .. c : place(n) = nth[n]
    BY <2>1, <2>2
  <2>4. Merged = [n \in 1 .. c |-> RowAt(place(n))]
    BY DEF Merged
  <2> HIDE DEF nth, R, place
  <2> QED
    BY <2>3, <2>4
<1> HIDE DEF nth, R
<1>6. \A a \in Kept : a \in Places /\ RowAt(a) \in Row
  BY PlacesAre DEF Kept
<1>7. Merged \in Seq(Row) /\ DOMAIN Merged = 1 .. c /\ \A n \in 1 .. c : Merged[n] = RowAt(nth[n])
  BY <1>2, <1>5, <1>6
<1>8. ProgramsIn(Merged) = {RowAt(a).p : a \in Kept}
  BY <1>2, <1>4, <1>7 DEF ProgramsIn
<1>9. {RowAt(a).p : a \in Kept} = Answered
  BY <1>6, PlacesAre, FirstPlace
<1>10. ASSUME Once(files[Out]) PROVE Once(Merged)
  <2>1. ASSUME NEW a \in Kept, NEW b \in Kept, RowAt(a).p = RowAt(b).p PROVE a = b
    <3>1. /\ a = <<a[1], a[2]>> /\ a[1] \in Combined /\ a[1] \in Int /\ a[2] \in Nat /\ a[2] \in DOMAIN files[a[1]]
          /\ b = <<b[1], b[2]>> /\ b[1] \in Combined /\ b[1] \in Int /\ b[2] \in Nat /\ b[2] \in DOMAIN files[b[1]]
      BY <1>6, PlacesAre
    <3>2. CASE a[1] = Out /\ b[1] = Out
      <4>1. a[2] = b[2]
        BY <1>10, <2>1, <3>1, <3>2 DEF Once, RowAt
      <4> QED
        BY <3>1, <3>2, <4>1
    <3>3. CASE ~(a[1] = Out /\ b[1] = Out)
      <4>1. a[1] # Out => ~Earlier(b, a)
        BY <1>6, <2>1 DEF Kept
      <4>2. b[1] # Out => ~Earlier(a, b)
        BY <1>6, <2>1 DEF Kept
      <4>3. \A f \in Combined : f = Out \/ Out < f
        BY FilesAre DEF Combined, Out
      <4>4. ~Earlier(a, b) /\ ~Earlier(b, a)
        BY <3>1, <3>3, <4>1, <4>2, <4>3 DEF Earlier
      <4> QED
        BY <3>1, <4>4 DEF Earlier
    <3> QED
      BY <3>2, <3>3
  <2>2. \A m, n \in 1 .. c : Merged[m].p = Merged[n].p => nth[m] = nth[n]
    BY <1>2, <1>7, <2>1
  <2> QED
    BY <1>3, <1>7, <2>2 DEF Once
<1>11. ASSUME \A f \in Files : ByTheModel(files[f]) PROVE ByTheModel(Merged)
  <2>1. \A a \in Kept : a[1] \in Files /\ a[2] \in DOMAIN files[a[1]] /\ RowAt(a) = files[a[1]][a[2]]
    BY <1>6, PlacesAre, FilesAre DEF RowAt
  <2>2. \A a \in Kept : RowAt(a).ok => RowAt(a).by = Head(BatchChain)
    BY <1>11, <2>1 DEF ByTheModel
  <2> QED
    BY <1>2, <1>7, <2>2 DEF ByTheModel
<1>12. ASSUME \A a \in Kept : a[1] = Out PROVE Answered = ProgramsIn(files[Out])
  <2>1. \A a \in Kept : a[2] \in DOMAIN files[Out] /\ RowAt(a) = files[Out][a[2]]
    BY <1>6, <1>12, PlacesAre DEF RowAt
  <2>2. Answered \subseteq ProgramsIn(files[Out])
    BY <1>9, <2>1 DEF ProgramsIn
  <2>3. ProgramsIn(files[Out]) \subseteq Answered
    BY DEF Answered, Combined
  <2> QED
    BY <2>2, <2>3
<1> QED
  BY <1>7, <1>8, <1>9, <1>10, <1>11, <1>12

-----------------------------------------------------------------------------
(* What is answered, and what is handed out. *)

Asked == (Range(PlayChain) \cup Range(BatchChain)) \X Range(Programs) \X Range(PlayChain \o BatchChain)

LEMMA ChainsAre ==
  /\ Len(BatchChain) \in Nat \ {0} /\ BatchChain[1] = Head(BatchChain) /\ Head(BatchChain) \in Range(BatchChain)
  /\ Len(PlayChain) \in Nat \ {0} /\ Head(PlayChain) \in Range(PlayChain)
  /\ \A k \in 1 .. Len(PlayChain) : PlayChain[k] \in Range(PlayChain)
  /\ Range(BatchChain) \subseteq Range(PlayChain \o BatchChain)
  /\ Range(PlayChain) \subseteq Range(PlayChain \o BatchChain)
<1>1. BatchChain \in Seq(STRING) /\ PlayChain \in Seq(STRING) /\ BatchChain # <<>> /\ PlayChain # <<>>
  BY LlmPassAssumption
<1>2. Len(BatchChain) \in Nat \ {0} /\ Len(PlayChain) \in Nat \ {0}
  BY <1>1
<1>3. BatchChain[1] = Head(BatchChain) /\ PlayChain[1] = Head(PlayChain)
  BY <1>1
<1>4. DOMAIN BatchChain = 1 .. Len(BatchChain) /\ DOMAIN PlayChain = 1 .. Len(PlayChain)
  BY <1>1
<1> DEFINE both == PlayChain \o BatchChain
<1>5. /\ DOMAIN both = 1 .. Len(PlayChain) + Len(BatchChain)
      /\ \A k \in 1 .. Len(PlayChain) : both[k] = PlayChain[k]
      /\ \A k \in 1 .. Len(BatchChain) : both[Len(PlayChain) + k] = BatchChain[k]
  BY <1>1
<1> HIDE DEF both
<1>6. ASSUME NEW k \in 1 .. Len(BatchChain) PROVE BatchChain[k] \in Range(both)
  <2>1. Len(PlayChain) + k \in DOMAIN both /\ both[Len(PlayChain) + k] = BatchChain[k]
    BY <1>2, <1>5
  <2> QED
    BY <2>1 DEF Range
<1>7. ASSUME NEW k \in 1 .. Len(PlayChain) PROVE PlayChain[k] \in Range(both)
  <2>1. k \in DOMAIN both /\ both[k] = PlayChain[k]
    BY <1>2, <1>5
  <2> QED
    BY <2>1 DEF Range
<1>8. Range(BatchChain) \subseteq Range(both) /\ Range(PlayChain) \subseteq Range(both)
  BY <1>4, <1>6, <1>7 DEF Range
<1>9. \A k \in 1 .. Len(PlayChain) : PlayChain[k] \in Range(PlayChain)
  BY <1>4 DEF Range
<1>10. Head(BatchChain) \in Range(BatchChain) /\ Head(PlayChain) \in Range(PlayChain)
  <2>1. 1 \in DOMAIN BatchChain /\ 1 \in DOMAIN PlayChain
    BY <1>2, <1>4
  <2> QED
    BY <1>3, <2>1 DEF Range
<1> QED
  BY <1>2, <1>3, <1>8, <1>9, <1>10 DEF both

\* What is stored stays typed, and true of the model of the batch.
LEMMA StoredIs ==
  ASSUME NEW before, before \subseteq Asked, SaidByIt(before),
         NEW chain, chain \in {BatchChain, PlayChain}, NEW p \in Range(Programs), NEW by \in Range(chain),
         Head(chain) = Head(BatchChain) => by = Head(BatchChain)
  PROVE  /\ Stored(before, CacheKey(chain, p), by) \subseteq Asked
         /\ SaidByIt(Stored(before, CacheKey(chain, p), by))
<1>1. CacheKey(chain, p) = <<Head(chain), p>>
  BY DEF CacheKey, Namespace
<1>2. Stored(before, CacheKey(chain, p), by) \subseteq before \cup {<<Head(chain), p, by>>}
  BY <1>1 DEF Stored
<1>3. <<Head(chain), p, by>> \in Asked
  BY ChainsAre DEF Asked
<1> QED
  BY <1>2, <1>3 DEF SaidByIt

\* A worker's question: what comes back was said by the model of the batch.
LEMMA BatchAnswer ==
  ASSUME NEW before, before \subseteq Asked, SaidByIt(before), NEW p \in Range(Programs), NEW series
  PROVE  /\ Complete(BatchChain, FALSE, before, p, series).cache \subseteq Asked
         /\ SaidByIt(Complete(BatchChain, FALSE, before, p, series).cache)
         /\ Complete(BatchChain, FALSE, before, p, series).result # "exhausted" =>
              Complete(BatchChain, FALSE, before, p, series).by = Head(BatchChain)
<1> DEFINE at == CacheKey(BatchChain, p)
           hit == Entry(before, at)
           Outcome(k) == WithRetries(series[BatchChain[k]])
           served == {k \in 1 .. Len(BatchChain) \cap {1} : Outcome(k) \in {"text", "overlong"}}
           first == CHOOSE k \in served : \A j \in served : k <= j
           c == Complete(BatchChain, FALSE, before, p, series)
<1>1. c = IF hit # {} THEN Completion("text", (CHOOSE e \in hit : TRUE)[3], before)
          ELSE IF served = {} THEN Completion("exhausted", "", before)
          ELSE IF Outcome(first) = "overlong" THEN Completion("overlong", BatchChain[first], before)
          ELSE Completion("text", BatchChain[first], Stored(before, at, BatchChain[first]))
  BY DEF Complete
<1>2. CASE hit # {}
  <2>1. PICK e \in hit : e = CHOOSE x \in hit : TRUE
    BY <1>2
  <2>2. e \in before /\ e[1] = Head(BatchChain)
    BY <2>1 DEF Entry, CacheKey, Namespace
  <2> HIDE DEF hit, served, first, Outcome, c
  <2>3. c = Completion("text", e[3], before) /\ e[3] = Head(BatchChain)
    BY <1>1, <1>2, <2>1, <2>2 DEF SaidByIt
  <2>4. c.cache = before /\ c.by = Head(BatchChain)
    BY <2>3 DEF Completion
  <2> QED
    BY <2>4 DEF c
<1>3. CASE hit = {} /\ served = {}
  <2> HIDE DEF hit, served, first, Outcome, c
  <2>1. c = Completion("exhausted", "", before)
    BY <1>1, <1>3
  <2>2. c.cache = before /\ c.result = "exhausted"
    BY <2>1 DEF Completion
  <2> QED
    BY <2>2 DEF c
<1>4. CASE hit = {} /\ served # {}
  <2>1. served = {1}
    BY <1>4
  <2>2. first = 1
    BY <2>1
  <2>3. BatchChain[first] = Head(BatchChain) /\ Head(BatchChain) \in Range(BatchChain)
    BY <2>2, ChainsAre
  <2> HIDE DEF served, first, Outcome, c
  <2>4. \/ c = Completion("overlong", Head(BatchChain), before)
        \/ c = Completion("text", Head(BatchChain), Stored(before, at, Head(BatchChain)))
    BY <1>1, <1>4, <2>3
  <2>5. Stored(before, at, Head(BatchChain)) \subseteq Asked /\ SaidByIt(Stored(before, at, Head(BatchChain)))
    BY <2>3, StoredIs
  <2>6. c.by = Head(BatchChain) /\ c.cache \in {before, Stored(before, at, Head(BatchChain))}
    BY <2>4 DEF Completion
  <2> QED
    BY <2>5, <2>6 DEF c
<1> QED
  BY <1>2, <1>3, <1>4

\* A question of the playground leaves a cache that is as true as it was.
LEMMA PlayAnswer ==
  ASSUME NEW before, before \subseteq Asked, SaidByIt(before), NEW p \in Range(Programs), NEW series
  PROVE  /\ Complete(PlayChain, TRUE, before, p, series).cache \subseteq Asked
         /\ SaidByIt(Complete(PlayChain, TRUE, before, p, series).cache)
<1> DEFINE at == CacheKey(PlayChain, p)
           hit == Entry(before, at)
           Outcome(k) == WithRetries(series[PlayChain[k]])
           served == {k \in 1 .. Len(PlayChain) : Outcome(k) \in {"text", "overlong"}}
           first == CHOOSE k \in served : \A j \in served : k <= j
           c == Complete(PlayChain, TRUE, before, p, series)
<1>1. c = IF hit # {} THEN Completion("text", (CHOOSE e \in hit : TRUE)[3], before)
          ELSE IF served = {} THEN Completion("text", "stub", before)
          ELSE IF Outcome(first) = "overlong" THEN Completion("overlong", PlayChain[first], before)
          ELSE Completion("text", PlayChain[first], Stored(before, at, PlayChain[first]))
  BY DEF Complete
<1>2. CASE served = {}
  <2> HIDE DEF hit, served, first, Outcome, c
  <2>1. c.cache = before
    BY <1>1, <1>2 DEF Completion
  <2> QED
    BY <2>1 DEF c
<1>3. CASE served # {}
  <2>1. served \in SUBSET Nat
    BY ChainsAre
  <2>2. \E k \in served : \A j \in served : k <= j
    BY <1>3, <2>1, LeastNumber
  <2>3. first \in served
    BY <2>2
  <2>4. PlayChain[first] \in Range(PlayChain)
    BY <2>3, ChainsAre
  <2>5. Head(PlayChain) = Head(BatchChain) => PlayChain[first] = Head(BatchChain)
    BY <2>4, LlmPassAssumption
  <2> HIDE DEF served, first, Outcome, c
  <2>6. Stored(before, at, PlayChain[first]) \subseteq Asked /\ SaidByIt(Stored(before, at, PlayChain[first]))
    BY <2>4, <2>5, StoredIs
  <2>7. c.cache \in {before, Stored(before, at, PlayChain[first])}
    BY <1>1 DEF Completion
  <2> QED
    BY <2>6, <2>7 DEF c
<1> QED
  BY <1>2, <1>3

\* What a worker that starts is given to do.
Share(f) == IF nkeys = 1 THEN Programs ELSE ShareOut(Missing(Programs, Answered), nkeys)[f]
Todo(f) == Missing(Share(f), Good(files[f]))

\* It is of the corpus, each program once and none that was done; what two are given is apart
\* and, with several keys, was not answered by anybody.
LEMMA HandedOut ==
  ASSUME LlmPassTypeOK
  PROVE  /\ \A f \in Writers : /\ Todo(f) \in Seq(Range(Programs)) /\ Distinct(Todo(f))
                               /\ Range(Todo(f)) \cap Good(files[f]) = {}
                               /\ nkeys # 1 => Range(Todo(f)) \cap Answered = {}
         /\ \A f, g \in Writers : f # g => Range(Todo(f)) \cap Range(Todo(g)) = {}
<1> DEFINE pending == Missing(Programs, Answered)
           Of(f) == {j \in DOMAIN pending : (j - 1) % nkeys = f}
<1>1. Programs \in Seq(Range(Programs)) /\ Distinct(Programs)
  <2>1. Programs \in Seq(STRING) /\ \A k \in 1 .. Len(Programs) : Programs[k] \in Range(Programs)
    BY CorpusIs
  <2>2. Distinct(Programs)
    BY LlmPassAssumption DEF Distinct
  <2> QED
    BY <2>1, <2>2
<1>2. ASSUME NEW list \in Seq(Range(Programs)), NEW done
      PROVE  /\ Missing(list, done) \in Seq(Range(Programs))
             /\ Range(Missing(list, done)) = Range(list) \ done
             /\ Distinct(list) => Distinct(Missing(list, done))
  <2> DEFINE places == {k \in DOMAIN list : list[k] \notin done}
  <2>1. places \in SUBSET DOMAIN list
    OBVIOUS
  <2>2. Missing(list, done) = Picked(list, places)
    BY DEF Missing
  <2>3. {list[k] : k \in places} = Range(list) \ done
    BY DEF Range
  <2> HIDE DEF places
  <2> QED
    BY <2>1, <2>2, <2>3, PickedIs
<1>3. pending \in Seq(Range(Programs)) /\ Range(pending) \cap Answered = {} /\ Distinct(pending)
  BY <1>1, <1>2
<1> HIDE DEF pending
<1>4. ASSUME nkeys # 1, NEW f \in Writers
      PROVE  /\ Share(f) \in Seq(Range(Programs)) /\ Distinct(Share(f))
             /\ Range(Share(f)) = {pending[k] : k \in Of(f)}
  <2>1. Of(f) \in SUBSET DOMAIN pending
    OBVIOUS
  <2>2. Share(f) = Picked(pending, Of(f))
    BY <1>4 DEF Share, ShareOut, Writers, Listed, pending
  <2> HIDE DEF Of
  <2> QED
    BY <1>3, <2>1, <2>2, PickedIs
<1>5. ASSUME NEW f \in Writers PROVE Share(f) \in Seq(Range(Programs)) /\ Distinct(Share(f))
  <2>1. CASE nkeys = 1
    BY <1>1, <2>1 DEF Share
  <2>2. CASE nkeys # 1
    BY <1>4, <2>2
  <2> QED
    BY <2>1, <2>2
<1>6. \A f \in Writers : Todo(f) \in Seq(Range(Programs)) /\ Distinct(Todo(f)) /\ Range(Todo(f)) = Range(Share(f)) \ Good(files[f])
  BY <1>2, <1>5 DEF Todo
<1>7. ASSUME NEW f \in Writers, nkeys # 1 PROVE Range(Todo(f)) \cap Answered = {}
  <2>1. {pending[k] : k \in Of(f)} \subseteq Range(pending)
    BY DEF Range
  <2>2. Range(Share(f)) \subseteq Range(pending)
    BY <1>4, <1>7, <2>1
  <2> QED
    BY <1>3, <1>6, <2>2
<1>8. ASSUME NEW f \in Writers, NEW g \in Writers, f # g PROVE Range(Todo(f)) \cap Range(Todo(g)) = {}
  <2>1. nkeys # 1
    BY <1>8 DEF Writers
  <2>2. Of(f) \cap Of(g) = {}
    BY <1>8
  <2>3. \A j \in Of(f), k \in Of(g) : pending[j] # pending[k]
    BY <1>3, <2>2 DEF Distinct
  <2>4. Range(Share(f)) = {pending[k] : k \in Of(f)} /\ Range(Share(g)) = {pending[k] : k \in Of(g)}
    BY <1>4, <2>1
  <2> HIDE DEF Of
  <2>5. Range(Share(f)) \cap Range(Share(g)) = {}
    BY <2>3, <2>4
  <2> QED
    BY <1>6, <2>5
<1> QED
  BY <1>6, <1>7, <1>8

-----------------------------------------------------------------------------
(* What a step does to the files, the workers and the supervisor. *)

Begins(f) == [list |-> Todo(f), key |-> Turn(IF f = Out THEN 0 ELSE f), row |-> NoRow]
Starts(started) ==
  /\ sup.at = "loop" /\ Cardinality(Answered) < Len(Programs)
  /\ workers' = [f \in Files |-> IF f \in started /\ workers[f] = Idle THEN Begins(f) ELSE workers[f]]
  /\ sup' = [sup EXCEPT !.at = "running", !.before = Cardinality(Answered), !.rotation = (@ + 1) % nkeys,
                        !.codes = [f \in started |-> IF workers[f] = Idle THEN "running" ELSE "error"]]
  /\ UNCHANGED <<reaps, nkeys, allow, cache, files, used>>

LEMMA StartBatchIs ==
  ASSUME LlmPassTypeOK, StartBatch
  PROVE  \E started \in SUBSET Writers : Starts(started)
<1> DEFINE plan == ShareOut(Missing(Programs, Answered), nkeys)
           started == IF nkeys = 1 THEN {Out} ELSE {i \in Listed : plan[i] # <<>>}
<1>1. started \in SUBSET Writers
  BY DEF Writers
<1>2. \A f : Begins(f) = [list |-> Missing(IF nkeys = 1 THEN Programs ELSE plan[f], Good(files[f])),
                          key |-> Turn(IF f = Out THEN 0 ELSE f), row |-> NoRow]
  BY DEF Begins, Todo, Share
<1>3. Starts(started)
  BY <1>2 DEF Starts, StartBatch
<1> QED
  BY <1>1, <1>3

\* A row is worked out and in hand.
Drafts(f, r) ==
  /\ workers[f].list # <<>> /\ workers[f].row = NoRow
  /\ r \in Row /\ r # NoRow /\ r.p = Head(workers[f].list) /\ (r.ok => r.by = Head(BatchChain))
  /\ workers' = [workers EXCEPT ![f].row = r] /\ UNCHANGED sup

LEMMA WorkerIs ==
  ASSUME LlmPassTypeOK, NEW f \in Files
  PROVE  /\ workers[f].list \in Seq(Range(Programs)) /\ workers[f].row \in Row \cup {NoRow}
         /\ workers[f].list # <<>> => workers[f].key \in Range(Keys) /\ Head(workers[f].list) \in Range(Programs)
         /\ workers[f].row # NoRow => workers[f].row \in Row /\ workers[f].list # <<>> /\ workers[f].row.p = Head(workers[f].list)
         /\ workers[f] # Idle => /\ workers[f] \in [list : Seq(Range(Programs)), key : Range(Keys), row : Row \cup {NoRow}]
                                 /\ workers[f] = [list |-> workers[f].list, key |-> workers[f].key, row |-> workers[f].row]
         /\ workers[f] = Idle => workers[f].list = <<>> /\ workers[f].row = NoRow
<1>1. CASE workers[f] = Idle
  <2>1. Idle.list = <<>> /\ Idle.row = NoRow
    BY DEF Idle
  <2>2. <<>> \in Seq(Range(Programs))
    OBVIOUS
  <2> QED
    BY <1>1, <2>1, <2>2
<1>2. CASE workers[f] # Idle
  <2>1. workers[f] \in [list : Seq(Range(Programs)), key : Range(Keys), row : Row \cup {NoRow}]
    BY <1>2 DEF LlmPassTypeOK
  <2>2. workers[f].row # NoRow => workers[f].list # <<>> /\ workers[f].row.p = Head(workers[f].list)
    BY <1>2 DEF LlmPassTypeOK
  <2>3. workers[f].list # <<>> => Head(workers[f].list) \in Range(Programs)
    BY <2>1
  <2> QED
    BY <1>2, <2>1, <2>2, <2>3
<1> QED
  BY <1>1, <1>2

\* One more fault, or one more kill, is still within the bounds.
LEMMA WithinBounds ==
  ASSUME LlmPassTypeOK
  PROVE  /\ used.faults < MaxFaults => [used EXCEPT !.faults = @ + 1] \in [kills : 0 .. MaxKills, faults : 0 .. MaxFaults]
         /\ used.kills < MaxKills => [used EXCEPT !.kills = @ + 1] \in [kills : 0 .. MaxKills, faults : 0 .. MaxFaults]
<1>1. used \in [kills : 0 .. MaxKills, faults : 0 .. MaxFaults] /\ MaxFaults \in Nat /\ MaxKills \in Nat
  BY LlmPassAssumption DEF LlmPassTypeOK
<1> QED
  BY <1>1

LEMMA AskIs ==
  ASSUME LlmPassTypeOK, SaidByIt(cache), NEW f \in Files, Ask(f)
  PROVE  /\ UNCHANGED <<reaps, nkeys, files>>
         /\ cache' \subseteq Asked /\ SaidByIt(cache')
         /\ allow' \in [Range(Keys) -> BOOLEAN] /\ used' \in [kills : 0 .. MaxKills, faults : 0 .. MaxFaults]
         /\ Ends(f, "quota") \/ \E r : Drafts(f, r)
<1> DEFINE p == Head(workers[f].list)
           key == workers[f].key
           hit == Entry(cache, CacheKey(BatchChain, p)) # {}
           c(s) == Complete(BatchChain, FALSE, cache, p, [x \in {Head(BatchChain)} |-> s])
           r(by, ok) == [p |-> p, by |-> by, ok |-> ok]
           Written(by, ok) == workers' = [workers EXCEPT ![f].row = r(by, ok)] /\ UNCHANGED sup
<1>1. p \in Range(Programs) /\ key \in Range(Keys) /\ workers[f].list # <<>> /\ workers[f].row = NoRow
  BY WorkerIs DEF Ask
<1>2. cache \subseteq Asked /\ allow \in [Range(Keys) -> BOOLEAN] /\ used \in [kills : 0 .. MaxKills, faults : 0 .. MaxFaults]
  BY DEF LlmPassTypeOK, Asked
<1>3. \A s : /\ c(s).cache \subseteq Asked /\ SaidByIt(c(s).cache)
             /\ c(s).result # "exhausted" => c(s).by = Head(BatchChain)
  <2> TAKE s
  <2>1. p \in Range(Programs) /\ cache \subseteq Asked
    BY <1>1, <1>2
  <2> QED
    BY <2>1, BatchAnswer
<1>4. ASSUME NEW by \in Range(BatchChain) \cup {""}, NEW ok \in BOOLEAN, ok => by = Head(BatchChain), Written(by, ok)
      PROVE  \E x : Drafts(f, x)
  <2>1. r(by, ok) \in Row
    BY <1>1 DEF Row
  <2>2. r(by, ok) # NoRow
    BY <1>1, LlmPassAssumption DEF NoRow
  <2>3. Drafts(f, r(by, ok))
    BY <1>1, <1>4, <2>1, <2>2 DEF Drafts
  <2> QED
    BY <2>3
<1>5. UNCHANGED <<reaps, nkeys, files>>
  BY DEF Ask
<1>6. CASE \E s \in IF allow[key] THEN Series ELSE {Refusals} :
             LET fault == c(s).result = "exhausted" /\ allow[key]
             IN /\ fault => used.faults < MaxFaults
                /\ used' = IF fault THEN [used EXCEPT !.faults = @ + 1] ELSE used
                /\ cache' = c(s).cache
                /\ IF c(s).result = "exhausted" THEN Ends(f, "quota") ELSE Written(c(s).by, TRUE)
                /\ \E left \in IF hit \/ c(s).result = "exhausted" THEN {allow[key]} ELSE BOOLEAN :
                     allow' = [allow EXCEPT ![key] = left]
  <2>1. PICK s : LET fault == c(s).result = "exhausted" /\ allow[key]
             IN /\ fault => used.faults < MaxFaults
                /\ used' = IF fault THEN [used EXCEPT !.faults = @ + 1] ELSE used
                /\ cache' = c(s).cache
                /\ IF c(s).result = "exhausted" THEN Ends(f, "quota") ELSE Written(c(s).by, TRUE)
                /\ \E left \in IF hit \/ c(s).result = "exhausted" THEN {allow[key]} ELSE BOOLEAN :
                     allow' = [allow EXCEPT ![key] = left]
    BY <1>6
  <2> HIDE DEF c, hit, Written, p
  <2>2. cache' \subseteq Asked /\ SaidByIt(cache')
    BY <1>3, <2>1
  <2>3. allow' \in [Range(Keys) -> BOOLEAN]
    BY <1>1, <1>2, <2>1
  <2>4. used' \in [kills : 0 .. MaxKills, faults : 0 .. MaxFaults]
    BY <1>2, <2>1, WithinBounds
  <2>5. CASE c(s).result = "exhausted"
    BY <1>5, <2>1, <2>2, <2>3, <2>4, <2>5
  <2>6. CASE c(s).result # "exhausted"
    <3>1. c(s).by = Head(BatchChain) /\ Written(c(s).by, TRUE)
      BY <1>3, <2>1, <2>6
    <3>2. c(s).by \in Range(BatchChain) \cup {""}
      BY <3>1, ChainsAre
    <3>3. \E x : Drafts(f, x)
      BY <1>4, <3>1, <3>2
    <3> QED
      BY <1>5, <2>2, <2>3, <2>4, <3>3
  <2> QED
    BY <2>5, <2>6
<1>7. CASE /\ used.faults < MaxFaults /\ used' = [used EXCEPT !.faults = @ + 1]
           /\ Written("", FALSE) /\ UNCHANGED <<cache, allow>>
  <2> HIDE DEF c, hit, Written, p
  <2>1. used' \in [kills : 0 .. MaxKills, faults : 0 .. MaxFaults]
    BY <1>7, WithinBounds
  <2>2. \E x : Drafts(f, x)
    BY <1>4, <1>7
  <2> QED
    BY <1>2, <1>5, <1>7, <2>1, <2>2
<1>8. \/ \E s \in IF allow[key] THEN Series ELSE {Refusals} :
             LET fault == c(s).result = "exhausted" /\ allow[key]
             IN /\ fault => used.faults < MaxFaults
                /\ used' = IF fault THEN [used EXCEPT !.faults = @ + 1] ELSE used
                /\ cache' = c(s).cache
                /\ IF c(s).result = "exhausted" THEN Ends(f, "quota") ELSE Written(c(s).by, TRUE)
                /\ \E left \in IF hit \/ c(s).result = "exhausted" THEN {allow[key]} ELSE BOOLEAN :
                     allow' = [allow EXCEPT ![key] = left]
      \/ /\ used.faults < MaxFaults /\ used' = [used EXCEPT !.faults = @ + 1]
         /\ Written("", FALSE) /\ UNCHANGED <<cache, allow>>
  BY DEF Ask
<1> QED
  BY <1>6, <1>7, <1>8

\* The steps, by what they do to the three.
LEMMA StepIs ==
  ASSUME LlmPassTypeOK, SaidByIt(cache), Next
  PROVE  /\ UNCHANGED <<reaps, nkeys>>
         /\ \/ Start
            \/ \E started \in SUBSET Writers : Starts(started)
            \/ BatchOver \/ WakeUp \/ CorpusComplete \/ FoldOpen \/ FoldWrite \/ Kill
            \/ \E f \in Files : \/ UNCHANGED files /\ \E code \in {"quota", "clean", "error"} : Ends(f, code)
                                \/ UNCHANGED files /\ \E r : Drafts(f, r)
                                \/ WriteRow(f)
            \/ UNCHANGED <<files, workers, sup>>
<1>1. CASE Supervisor
  <2>1. UNCHANGED <<reaps, nkeys>>
    BY <1>1 DEF Supervisor, Start, StartBatch, BatchOver, WakeUp, CorpusComplete, FoldOpen, FoldWrite
  <2> QED
    BY <1>1, <2>1, StartBatchIs DEF Supervisor
<1>2. CASE Kill
  BY <1>2 DEF Kill
<1>3. CASE Playground \/ \E k \in Range(Keys) : Refill(k)
  BY <1>3 DEF Playground, Refill
<1>4. ASSUME NEW f \in Files, Worker(f) \/ Crash(f)
      PROVE  /\ UNCHANGED <<reaps, nkeys>>
             /\ \/ UNCHANGED files /\ \E code \in {"quota", "clean", "error"} : Ends(f, code)
                \/ UNCHANGED files /\ \E r : Drafts(f, r)
                \/ WriteRow(f)
  <2>1. CASE Ask(f)
    BY <2>1, AskIs
  <2>2. CASE WriteRow(f)
    BY <2>2 DEF WriteRow
  <2>3. CASE Finish(f)
    BY <2>3 DEF Finish
  <2>4. CASE Crash(f)
    BY <2>4 DEF Crash
  <2> QED
    BY <1>4, <2>1, <2>2, <2>3, <2>4 DEF Worker
<1> QED
  BY <1>1, <1>2, <1>3, <1>4 DEF Next

-----------------------------------------------------------------------------
(* Types. *)

LEMMA InitTyped == Init => Typed
<1> SUFFICES ASSUME Init PROVE Typed
  OBVIOUS
<1>1. MaxKills \in Nat /\ MaxFaults \in Nat /\ BarrenLimit \in Nat /\ KeyCounts \subseteq 1 .. Len(Keys)
  BY LlmPassAssumption
<1>2. Keys \in Seq(STRING)
  BY LlmPassAssumption
<1>3. nkeys \in Nat \ {0}
  BY <1>1, <1>2 DEF Init
<1>4. Len(Programs) \in Nat
  BY CorpusIs
<1>5. /\ sup.at = "off" /\ sup.before = 0 /\ sup.codes = <<>> /\ sup.barren = 0 /\ sup.stuck = FALSE
      /\ sup.rotation = 0 /\ sup.rows = <<>> /\ sup.next = "loop"
  BY DEF Init, Off
<1>6. SupTyped
  <2>1. sup.codes \in [DOMAIN sup.codes -> Codes]
    BY <1>5
  <2> QED
    BY <1>5, <2>1 DEF Init, Off, SupTyped
<1>7. DOMAIN sup.codes \subseteq Files /\ Range(sup.codes) \subseteq {"running", "quota", "clean", "error"}
  <2>1. DOMAIN sup.codes = {}
    BY <1>5
  <2> QED
    BY <2>1 DEF Range
<1>8. \A f \in Files : workers[f] = Idle
  BY DEF Init
<1>9. files \in [Files -> Seq(Row)]
  BY DEF Init
<1>10. sup.rows \in Seq(Row)
  BY <1>5
<1>11. reaps \in BOOLEAN /\ nkeys \in KeyCounts /\ allow \in [Range(Keys) -> BOOLEAN] /\ cache = {}
  BY DEF Init
<1>12. used \in [kills : 0 .. MaxKills, faults : 0 .. MaxFaults]
  BY <1>1 DEF Init
<1>13. sup.before \in 0 .. Len(Programs) /\ sup.barren \in 0 .. BarrenLimit /\ sup.rotation \in 0 .. nkeys - 1
  BY <1>1, <1>3, <1>4, <1>5
<1>15. workers = [f \in Files |-> workers[f]]
  BY DEF Init
<1>14. LlmPassTypeOK
  BY <1>5, <1>7, <1>8, <1>9, <1>10, <1>11, <1>12, <1>13 DEF LlmPassTypeOK
<1> QED
  BY <1>6, <1>14, <1>15 DEF Typed

LEMMA AroundTyped ==
  ASSUME Typed, SaidByIt(cache), Next
  PROVE  /\ allow' \in [Range(Keys) -> BOOLEAN] /\ cache' \subseteq Asked /\ SaidByIt(cache')
         /\ used' \in [kills : 0 .. MaxKills, faults : 0 .. MaxFaults]
<1>1. LlmPassTypeOK /\ allow \in [Range(Keys) -> BOOLEAN] /\ cache \subseteq Asked
      /\ used \in [kills : 0 .. MaxKills, faults : 0 .. MaxFaults]
  BY DEF Typed, LlmPassTypeOK, Asked
<1>2. CASE UNCHANGED <<allow, cache, used>>
  BY <1>1, <1>2
<1>3. CASE Supervisor
  BY <1>2, <1>3 DEF Supervisor, Start, StartBatch, BatchOver, WakeUp, CorpusComplete, FoldOpen, FoldWrite
<1>4. CASE Kill
  BY <1>1, <1>4, WithinBounds DEF Kill
<1>5. CASE Playground
  <2>1. PICK p \in Played : \E s \in [Range(PlayChain) -> {Refusals, [Refusals EXCEPT ![MaxAttempts] = "text"]}] :
          cache' = Complete(PlayChain, TRUE, cache, p, s).cache
    BY <1>5 DEF Playground
  <2>2. PICK s : cache' = Complete(PlayChain, TRUE, cache, p, s).cache
    BY <2>1
  <2>3. p \in Range(Programs)
    BY LlmPassAssumption
  <2>4. cache' \subseteq Asked /\ SaidByIt(cache')
    BY <1>1, <2>2, <2>3, PlayAnswer
  <2> QED
    BY <1>1, <1>5, <2>4 DEF Playground
<1>6. ASSUME NEW f \in Files, Worker(f) \/ Crash(f)
      PROVE  /\ allow' \in [Range(Keys) -> BOOLEAN] /\ cache' \subseteq Asked /\ SaidByIt(cache')
             /\ used' \in [kills : 0 .. MaxKills, faults : 0 .. MaxFaults]
  <2>1. CASE Ask(f)
    BY <1>1, <2>1, AskIs
  <2>2. CASE WriteRow(f) \/ Finish(f)
    BY <1>2, <2>2 DEF WriteRow, Finish
  <2>3. CASE Crash(f)
    BY <1>1, <2>3, WithinBounds DEF Crash
  <2> QED
    BY <1>6, <2>1, <2>2, <2>3 DEF Worker
<1>7. ASSUME NEW k \in Range(Keys), Refill(k) PROVE allow' \in [Range(Keys) -> BOOLEAN] /\ UNCHANGED <<cache, used>>
  BY <1>1, <1>7 DEF Refill
<1> QED
  BY <1>1, <1>3, <1>4, <1>5, <1>6, <1>7 DEF Next

LEMMA FilesTyped ==
  ASSUME Typed, SaidByIt(cache), Next
  PROVE  files' \in [Files -> Seq(Row)]
<1>1. LlmPassTypeOK /\ files \in [Files -> Seq(Row)] /\ sup.rows \in Seq(Row)
  BY DEF Typed, LlmPassTypeOK
<1>2. CASE UNCHANGED files
  BY <1>1, <1>2
<1>3. CASE FoldOpen \/ FoldWrite
  <2>1. files' = files \/ files' = [files EXCEPT ![Out] = <<>>] \/ files' = [files EXCEPT ![Out] = sup.rows]
    BY <1>3 DEF FoldOpen, FoldWrite
  <2>2. <<>> \in Seq(Row)
    OBVIOUS
  <2> QED
    BY <1>1, <2>1, <2>2
<1>4. ASSUME NEW f \in Files, WriteRow(f) PROVE files' \in [Files -> Seq(Row)]
  <2>1. workers[f].row \in Row
    BY <1>1, <1>4, WorkerIs DEF WriteRow
  <2>2. Append(files[f], workers[f].row) \in Seq(Row)
    BY <1>1, <2>1
  <2> QED
    BY <1>1, <1>4, <2>2 DEF WriteRow
<1> QED
  BY <1>1, <1>2, <1>3, <1>4, StepIs DEF Start, Starts, BatchOver, WakeUp, CorpusComplete, Kill

\* What LlmPassTypeOK says of one worker.
AWorker(w) ==
  \/ w = Idle
  \/ /\ w \in [list : Seq(Range(Programs)), key : Range(Keys), row : Row \cup {NoRow}]
     /\ w.row # NoRow => w.list # <<>> /\ w.row.p = Head(w.list)

LEMMA WorkersTyped ==
  ASSUME Typed, SaidByIt(cache), Next
  PROVE  \A f \in Files : AWorker(workers'[f])
<1>1. LlmPassTypeOK /\ \A f \in Files : AWorker(workers[f])
  BY DEF Typed, LlmPassTypeOK, AWorker
<1> SUFFICES ASSUME NEW g \in Files PROVE AWorker(workers'[g])
  OBVIOUS
<1>2. CASE workers'[g] \in {workers[g], Idle}
  BY <1>1, <1>2 DEF AWorker
<1>3. ASSUME NEW started \in SUBSET Writers, Starts(started), workers'[g] # workers[g] PROVE AWorker(workers'[g])
  <2>1. g \in Writers /\ workers'[g] = Begins(g)
    BY <1>3 DEF Starts
  <2>2. Todo(g) \in Seq(Range(Programs))
    BY <1>1, <2>1, HandedOut
  <2>3. Turn(IF g = Out THEN 0 ELSE g) \in Range(Keys)
    <3>1. nkeys \in Nat \ {0} /\ nkeys <= Len(Keys) /\ Keys \in Seq(STRING) /\ sup.rotation \in Int
      BY <1>1, FilesAre DEF LlmPassTypeOK
    <3>2. (IF g = Out THEN 0 ELSE g) \in Int
      BY <1>1, <2>1, FilesAre
    <3>3. ((IF g = Out THEN 0 ELSE g) + sup.rotation) % nkeys \in 0 .. nkeys - 1
      BY <3>1, <3>2
    <3>4. (((IF g = Out THEN 0 ELSE g) + sup.rotation) % nkeys) + 1 \in DOMAIN Keys
      BY <3>1, <3>3
    <3> QED
      BY <3>4 DEF Turn, Range
  <2> QED
    BY <2>1, <2>2, <2>3 DEF Begins, AWorker
<1>4. ASSUME NEW f \in Files, NEW r, Drafts(f, r), workers'[g] # workers[g] PROVE AWorker(workers'[g])
  <2>1. f = g /\ workers'[g] = [workers[g] EXCEPT !.row = r]
    BY <1>4 DEF Drafts, LlmPassTypeOK
  <2>2. workers[g] = [list |-> workers[g].list, key |-> workers[g].key, row |-> workers[g].row]
    BY <1>1, <1>4, <2>1, WorkerIs DEF Drafts
  <2>3. workers'[g] = [list |-> workers[g].list, key |-> workers[g].key, row |-> r]
    BY <2>1, <2>2
  <2>4. workers[g].list \in Seq(Range(Programs)) /\ workers[g].key \in Range(Keys)
    BY <1>1, <1>4, <2>1, WorkerIs DEF Drafts
  <2> QED
    BY <1>4, <2>1, <2>3, <2>4 DEF Drafts, AWorker
<1>5. ASSUME NEW f \in Files, WriteRow(f), workers'[g] # workers[g] PROVE AWorker(workers'[g])
  <2>1. f = g /\ workers'[g] = [workers[g] EXCEPT !.row = NoRow, !.list = Tail(@)]
    BY <1>1, <1>5 DEF WriteRow, Typed
  <2>2. workers[g] = [list |-> workers[g].list, key |-> workers[g].key, row |-> workers[g].row]
    BY <1>1, <1>5, <2>1, WorkerIs DEF WriteRow
  <2>3. workers'[g] = [list |-> Tail(workers[g].list), key |-> workers[g].key, row |-> NoRow]
    BY <2>1, <2>2
  <2>4. workers[g].list \in Seq(Range(Programs)) /\ workers[g].list # <<>> /\ workers[g].key \in Range(Keys)
    BY <1>1, <1>5, <2>1, WorkerIs DEF WriteRow
  <2>5. Tail(workers[g].list) \in Seq(Range(Programs))
    BY <2>4
  <2> QED
    BY <2>3, <2>4, <2>5 DEF AWorker
<1>6. ASSUME NEW f \in Files, NEW code, Ends(f, code) PROVE workers'[g] \in {workers[g], Idle}
  BY <1>6 DEF Ends
<1>7. CASE Start \/ Kill \/ BatchOver \/ WakeUp \/ CorpusComplete \/ FoldOpen \/ FoldWrite
  BY <1>2, <1>7 DEF Start, Kill, BatchOver, WakeUp, CorpusComplete, FoldOpen, FoldWrite
<1> QED
  BY <1>1, <1>2, <1>3, <1>4, <1>5, <1>6, <1>7, StepIs

\* The fields of the supervisor.
SupFields ==
  /\ SupTyped
  /\ sup.at \in {"off", "loop", "running", "wait", "fold", "write", "done"} /\ sup.next \in {"loop", "wait", "done"}
  /\ sup.before \in 0 .. Len(Programs) /\ sup.barren \in 0 .. BarrenLimit /\ sup.rotation \in 0 .. nkeys - 1
  /\ sup.stuck \in BOOLEAN /\ sup.rows \in Seq(Row) /\ DOMAIN sup.codes \subseteq Files

LEMMA SupOff ==
  ASSUME LlmPassTypeOK, UNCHANGED nkeys, NEW stuck \in BOOLEAN, NEW at \in {"off", "loop"},
         sup' = [Off(stuck) EXCEPT !.at = at]
  PROVE  SupFields'
<1>1. sup' = [at |-> at, before |-> 0, codes |-> <<>>, barren |-> 0, stuck |-> stuck,
              rotation |-> 0, rows |-> <<>>, next |-> "loop"]
  BY DEF Off
<1>2. nkeys \in Nat \ {0} /\ Len(Programs) \in Nat /\ BarrenLimit \in Nat
  BY FilesAre, CorpusIs, LlmPassAssumption
<1>3. <<>> \in Seq(Row) /\ DOMAIN <<>> = {} /\ <<>> \in [{} -> Codes]
  OBVIOUS
<1>4. /\ sup'.at = at /\ sup'.before = 0 /\ sup'.codes = <<>> /\ sup'.barren = 0 /\ sup'.stuck = stuck
      /\ sup'.rotation = 0 /\ sup'.rows = <<>> /\ sup'.next = "loop"
  BY <1>1
<1>5. sup'.codes \in [DOMAIN sup'.codes -> Codes] /\ DOMAIN sup'.codes \subseteq Files /\ sup'.rows \in Seq(Row)
  BY <1>3, <1>4
<1>6. SupTyped'
  BY <1>1, <1>4, <1>5 DEF SupTyped
<1> QED
  BY <1>2, <1>4, <1>5, <1>6 DEF SupFields

LEMMA SupTypedHolds ==
  ASSUME Typed, SaidByIt(cache), Next
  PROVE  SupFields'
<1>1. LlmPassTypeOK /\ SupFields
  BY DEF Typed, LlmPassTypeOK, SupFields
<1>2. UNCHANGED nkeys
  BY <1>1, StepIs
<1>3. nkeys \in Nat \ {0} /\ Len(Programs) \in Nat /\ BarrenLimit \in Nat
  BY <1>1, FilesAre, CorpusIs, LlmPassAssumption
<1>4. CASE UNCHANGED sup
  BY <1>1, <1>2, <1>4 DEF SupFields, SupTyped
<1>5. CASE Start
  <2>1. sup' = [Off(FALSE) EXCEPT !.at = "loop"]
    BY <1>5 DEF Start
  <2> QED
    BY <1>1, <1>2, <2>1, SupOff
<1>6. CASE Kill
  <2>1. sup' = [Off(sup.stuck) EXCEPT !.at = "off"] /\ sup.stuck \in BOOLEAN
    BY <1>1, <1>6 DEF Kill, SupFields, Off
  <2> QED
    BY <1>1, <1>2, <2>1, SupOff
<1>7. ASSUME NEW started \in SUBSET Writers, Starts(started) PROVE SupFields'
  <2> DEFINE codes == [f \in started |-> IF workers[f] = Idle THEN "running" ELSE "error"]
  <2>1. sup' = [sup EXCEPT !.at = "running", !.before = Cardinality(Answered), !.rotation = (@ + 1) % nkeys, !.codes = codes]
    BY <1>7 DEF Starts
  <2>2. codes \in [DOMAIN codes -> Codes] /\ DOMAIN codes \subseteq Files
    BY <1>1, FilesAre DEF Codes
  <2>3. Cardinality(Answered) \in 0 .. Len(Programs)
    BY <1>1, AnsweredIs
  <2>4. (sup.rotation + 1) % nkeys \in 0 .. nkeys - 1
    BY <1>1, <1>3 DEF SupFields
  <2> HIDE DEF codes
  <2>5. sup' = [at |-> "running", before |-> Cardinality(Answered), codes |-> codes, barren |-> sup.barren,
                stuck |-> sup.stuck, rotation |-> (sup.rotation + 1) % nkeys, rows |-> sup.rows, next |-> sup.next]
    BY <1>1, <2>1 DEF SupFields, SupTyped
  <2> QED
    BY <1>1, <1>2, <2>2, <2>3, <2>4, <2>5 DEF SupFields, SupTyped
<1>8. CASE BatchOver
  <2>1. PICK at \in {"fold", "wait"}, next \in {"loop", "wait"}, barren \in 0 .. BarrenLimit, stuck \in BOOLEAN :
          sup' = [sup EXCEPT !.at = at, !.next = next, !.barren = barren, !.stuck = stuck]
    <3> DEFINE gained == Cardinality(Answered) > sup.before
               clean == \A f \in DOMAIN sup.codes : sup.codes[f] # "error"
               spent == \A f \in DOMAIN sup.codes : sup.codes[f] = "quota"
               barren == IF gained THEN 0 ELSE IF sup.barren < BarrenLimit THEN sup.barren + 1 ELSE BarrenLimit
               stuck == ~gained /\ (sup.stuck \/ barren >= BarrenLimit)
    <3>1. sup' = [sup EXCEPT !.at = IF gained THEN "fold" ELSE "wait",
                             !.next = IF gained /\ clean /\ ~spent THEN "loop" ELSE "wait",
                             !.barren = barren, !.stuck = stuck]
      BY <1>8 DEF BatchOver
    <3>2. barren \in 0 .. BarrenLimit
      BY <1>1, <1>3 DEF SupFields
    <3>3. stuck \in BOOLEAN
      OBVIOUS
    <3>4. (IF gained THEN "fold" ELSE "wait") \in {"fold", "wait"}
          /\ (IF gained /\ clean /\ ~spent THEN "loop" ELSE "wait") \in {"loop", "wait"}
      OBVIOUS
    <3> HIDE DEF gained, clean, spent, barren, stuck
    <3> QED
      BY <3>1, <3>2, <3>3, <3>4
  <2>2. sup' = [at |-> at, before |-> sup.before, codes |-> sup.codes, barren |-> barren,
                stuck |-> stuck, rotation |-> sup.rotation, rows |-> sup.rows, next |-> next]
    BY <1>1, <2>1 DEF SupFields, SupTyped
  <2> QED
    BY <1>1, <1>2, <2>2 DEF SupFields, SupTyped
<1>9. CASE WakeUp \/ CorpusComplete \/ FoldOpen \/ FoldWrite
  <2>1. Merged \in Seq(Row)
    BY <1>1, MergedIs
  <2>2. \E at \in {"off", "loop", "running", "wait", "fold", "write", "done"}, next \in {sup.next, "done"},
           rows \in {sup.rows, Merged, <<>>} : sup' = [sup EXCEPT !.at = at, !.next = next, !.rows = rows]
    <3>1. CASE WakeUp
      <4>1. sup' = [sup EXCEPT !.at = "loop", !.next = sup.next, !.rows = sup.rows]
        BY <1>1, <3>1 DEF WakeUp, SupFields, SupTyped
      <4> QED
        BY <4>1
    <3>2. CASE CorpusComplete
      <4>1. sup' = [sup EXCEPT !.at = "fold", !.next = "done", !.rows = sup.rows]
        BY <1>1, <3>2 DEF CorpusComplete, SupFields, SupTyped
      <4> QED
        BY <4>1
    <3>3. CASE FoldOpen
      <4>1. \/ sup' = [sup EXCEPT !.at = "write", !.next = sup.next, !.rows = Merged]
            \/ sup' = [sup EXCEPT !.at = sup.next, !.next = sup.next, !.rows = sup.rows]
        BY <1>1, <3>3 DEF FoldOpen, SupFields, SupTyped
      <4> QED
        BY <1>1, <4>1 DEF SupFields
    <3>4. CASE FoldWrite
      <4>1. sup' = [sup EXCEPT !.at = sup.next, !.next = sup.next, !.rows = <<>>]
        BY <1>1, <3>4 DEF FoldWrite, SupFields, SupTyped
      <4> QED
        BY <1>1, <4>1 DEF SupFields
    <3> QED
      BY <1>9, <3>1, <3>2, <3>3, <3>4
  <2>3. PICK at \in {"off", "loop", "running", "wait", "fold", "write", "done"}, next \in {sup.next, "done"},
             rows \in {sup.rows, Merged, <<>>} : sup' = [sup EXCEPT !.at = at, !.next = next, !.rows = rows]
    BY <2>2
  <2>4. rows \in Seq(Row)
    <3>1. sup.rows \in Seq(Row) /\ <<>> \in Seq(Row)
      BY <1>1 DEF SupFields
    <3> QED
      BY <2>1, <2>3, <3>1
  <2>5. sup' = [at |-> at, before |-> sup.before, codes |-> sup.codes, barren |-> sup.barren,
                stuck |-> sup.stuck, rotation |-> sup.rotation, rows |-> rows, next |-> next]
    BY <1>1, <2>3 DEF SupFields, SupTyped
  <2> QED
    BY <1>1, <1>2, <2>4, <2>5 DEF SupFields, SupTyped
<1>10. ASSUME NEW f, NEW code \in {"quota", "clean", "error"}, Ends(f, code), sup' # sup PROVE SupFields'
  <2> DEFINE codes == [sup.codes EXCEPT ![f] = code]
  <2>1. sup' = [sup EXCEPT !.codes = codes]
    BY <1>10 DEF Ends
  <2>2. DOMAIN codes = DOMAIN sup.codes /\ codes \in [DOMAIN codes -> Codes]
    BY <1>1 DEF Codes, SupFields, SupTyped
  <2> HIDE DEF codes
  <2>3. sup' = [at |-> sup.at, before |-> sup.before, codes |-> codes, barren |-> sup.barren,
                stuck |-> sup.stuck, rotation |-> sup.rotation, rows |-> sup.rows, next |-> sup.next]
    BY <1>1, <2>1 DEF SupFields, SupTyped
  <2> QED
    BY <1>1, <1>2, <2>2, <2>3 DEF SupFields, SupTyped
<1>11. ASSUME NEW f, WriteRow(f) \/ \E r : Drafts(f, r) PROVE UNCHANGED sup
  BY <1>11 DEF WriteRow, Drafts
<1> QED
  BY <1>1, <1>4, <1>5, <1>6, <1>7, <1>8, <1>9, <1>10, <1>11, StepIs

LEMMA TypedHolds ==
  ASSUME Typed, SaidByIt(cache), Next
  PROVE  Typed'
<1>1. reaps' \in BOOLEAN /\ nkeys' \in KeyCounts
  BY StepIs DEF Typed, LlmPassTypeOK
<1>2. Range(sup'.codes) \subseteq {"running", "quota", "clean", "error"}
  BY SupTypedHolds DEF SupFields, SupTyped, Codes, Range
<1>3. LlmPassTypeOK'
  BY <1>1, <1>2, AroundTyped, FilesTyped, WorkersTyped, SupTypedHolds
     DEF LlmPassTypeOK, SupFields, AWorker, Asked
<1>4. workers' = [f \in Files |-> workers'[f]]
  <2>1. LlmPassTypeOK /\ workers = [f \in Files |-> workers[f]]
    BY DEF Typed
  <2>2. \/ workers' \in {workers, [f \in Files |-> Idle]}
        \/ \E started \in SUBSET Writers : workers' = [f \in Files |-> IF f \in started /\ workers[f] = Idle THEN Begins(f) ELSE workers[f]]
        \/ \E f \in Files : \/ workers' = [workers EXCEPT ![f] = Idle]
                            \/ workers' = [workers EXCEPT ![f].row = NoRow, ![f].list = Tail(@)]
                            \/ \E r : workers' = [workers EXCEPT ![f].row = r]
    BY <2>1, StepIs DEF Start, Starts, BatchOver, WakeUp, CorpusComplete, FoldOpen, FoldWrite, Kill, Ends, Drafts, WriteRow
  <2> QED
    BY <2>1, <2>2
<1> QED
  BY <1>3, <1>4, SupTypedHolds DEF Typed, SupFields

-----------------------------------------------------------------------------
(* The invariant, part by part. *)

\* What each step does to the supervisor.
LEMMA SupSteps ==
  ASSUME Typed
  PROVE  /\ Start => sup'.at = "loop" /\ sup'.stuck = FALSE /\ sup'.next = "loop" /\ sup'.rows = <<>>
         /\ Kill => sup'.at = "off" /\ sup'.next = "loop" /\ sup'.rows = <<>>
         /\ \A started : Starts(started) =>
              /\ sup.at = "loop" /\ sup'.at = "running" /\ sup'.before = Cardinality(Answered)
              /\ sup'.next = sup.next /\ sup'.stuck = sup.stuck /\ sup'.rows = sup.rows
              /\ sup'.codes = [f \in started |-> IF workers[f] = Idle THEN "running" ELSE "error"]
         /\ BatchOver => /\ sup'.at \in {"fold", "wait"} /\ sup'.next \in {"loop", "wait"} /\ sup'.rows = sup.rows
                         /\ sup'.stuck => sup'.at = "wait" /\ ~(Cardinality(Answered) > sup.before)
         /\ WakeUp => /\ sup.at = "wait" /\ sup'.at = "loop"
                      /\ sup'.next = sup.next /\ sup'.stuck = sup.stuck /\ sup'.rows = sup.rows
         /\ CorpusComplete => /\ sup.at = "loop" /\ sup'.at = "fold" /\ sup'.next = "done"
                              /\ sup'.stuck = sup.stuck /\ sup'.rows = sup.rows
         /\ FoldOpen => /\ sup.at = "fold" /\ sup'.next = sup.next /\ sup'.stuck = sup.stuck
                        /\ IF Folds THEN sup'.at = "write" /\ sup'.rows = Merged ELSE sup'.at = sup.next /\ sup'.rows = sup.rows
         /\ FoldWrite => /\ sup.at = "write" /\ sup'.at = sup.next /\ sup'.next = sup.next
                         /\ sup'.stuck = sup.stuck /\ sup'.rows = <<>>
         /\ \A f, code : Ends(f, code) =>
              /\ sup'.at = sup.at /\ sup'.next = sup.next /\ sup'.before = sup.before
              /\ sup'.stuck = sup.stuck /\ sup'.rows = sup.rows
              /\ sup'.codes = sup.codes \/ sup'.codes = [sup.codes EXCEPT ![f] = code]
<1>1. sup = [at |-> sup.at, before |-> sup.before, codes |-> sup.codes, barren |-> sup.barren,
             stuck |-> sup.stuck, rotation |-> sup.rotation, rows |-> sup.rows, next |-> sup.next]
  BY DEF Typed, SupTyped
<1>2. /\ Start => sup'.at = "loop" /\ sup'.stuck = FALSE /\ sup'.next = "loop" /\ sup'.rows = <<>>
      /\ Kill => sup'.at = "off" /\ sup'.next = "loop" /\ sup'.rows = <<>>
  BY DEF Start, Kill, Off
<1>3. ASSUME NEW started, Starts(started)
      PROVE  /\ sup.at = "loop" /\ sup'.at = "running" /\ sup'.before = Cardinality(Answered)
             /\ sup'.next = sup.next /\ sup'.stuck = sup.stuck /\ sup'.rows = sup.rows
             /\ sup'.codes = [f \in started |-> IF workers[f] = Idle THEN "running" ELSE "error"]
  BY <1>1, <1>3 DEF Starts
<1>4. ASSUME BatchOver
      PROVE  /\ sup'.at \in {"fold", "wait"} /\ sup'.next \in {"loop", "wait"} /\ sup'.rows = sup.rows
             /\ sup'.stuck => sup'.at = "wait" /\ ~(Cardinality(Answered) > sup.before)
  <2> DEFINE gained == Cardinality(Answered) > sup.before
             clean == \A f \in DOMAIN sup.codes : sup.codes[f] # "error"
             spent == \A f \in DOMAIN sup.codes : sup.codes[f] = "quota"
             barren == IF gained THEN 0 ELSE IF sup.barren < BarrenLimit THEN sup.barren + 1 ELSE BarrenLimit
             long == sup.stuck \/ barren >= BarrenLimit
  <2>1. sup' = [sup EXCEPT !.at = IF gained THEN "fold" ELSE "wait",
                           !.next = IF gained /\ clean /\ ~spent THEN "loop" ELSE "wait",
                           !.barren = barren, !.stuck = ~gained /\ long]
    BY <1>4 DEF BatchOver
  <2> HIDE DEF gained, clean, spent, barren, long
  <2>2. /\ sup'.at = (IF gained THEN "fold" ELSE "wait") /\ sup'.rows = sup.rows
        /\ sup'.next = (IF gained /\ clean /\ ~spent THEN "loop" ELSE "wait") /\ sup'.stuck = (~gained /\ long)
    BY <1>1, <2>1
  <2> QED
    BY <2>2 DEF gained
<1>5. /\ WakeUp => /\ sup.at = "wait" /\ sup'.at = "loop"
                   /\ sup'.next = sup.next /\ sup'.stuck = sup.stuck /\ sup'.rows = sup.rows
      /\ CorpusComplete => /\ sup.at = "loop" /\ sup'.at = "fold" /\ sup'.next = "done"
                           /\ sup'.stuck = sup.stuck /\ sup'.rows = sup.rows
  BY <1>1 DEF WakeUp, CorpusComplete
<1>6. /\ FoldOpen => /\ sup.at = "fold" /\ sup'.next = sup.next /\ sup'.stuck = sup.stuck
                     /\ IF Folds THEN sup'.at = "write" /\ sup'.rows = Merged ELSE sup'.at = sup.next /\ sup'.rows = sup.rows
      /\ FoldWrite => /\ sup.at = "write" /\ sup'.at = sup.next /\ sup'.next = sup.next
                      /\ sup'.stuck = sup.stuck /\ sup'.rows = <<>>
  BY <1>1 DEF FoldOpen, FoldWrite
<1>7. ASSUME NEW f, NEW code, Ends(f, code)
      PROVE  /\ sup'.at = sup.at /\ sup'.next = sup.next /\ sup'.before = sup.before
             /\ sup'.stuck = sup.stuck /\ sup'.rows = sup.rows
             /\ sup'.codes = sup.codes \/ sup'.codes = [sup.codes EXCEPT ![f] = code]
  BY <1>1, <1>7 DEF Ends
<1> QED
  BY <1>2, <1>3, <1>4, <1>5, <1>6, <1>7

\* What each step does to the files.
LEMMA FileSteps ==
  ASSUME PassInv, Next
  PROVE  /\ nkeys' = nkeys /\ reaps' = reaps /\ Writers' = Writers /\ Listed' = Listed /\ Combined' = Combined
         /\ \/ UNCHANGED files
            \/ /\ nkeys >= 2 /\ sup.at \in {"fold", "write"} /\ UNCHANGED workers
               /\ \E rows \in {<<>>, sup.rows} : files' = [files EXCEPT ![Out] = rows]
               /\ sup.at = "fold" => FoldOpen /\ Folds /\ files'[Out] = <<>>
               /\ sup.at = "write" => FoldWrite /\ files'[Out] = sup.rows
            \/ \E f \in Writers : /\ WriteRow(f) /\ workers[f] # Idle /\ workers[f].row \in Row
                                  /\ workers[f].list # <<>> /\ workers[f].row.p = Head(workers[f].list)
                                  /\ files' = [files EXCEPT ![f] = Append(files[f], workers[f].row)]
<1>1. Typed /\ LlmPassTypeOK /\ SaidByIt(cache) /\ InPlace /\ Backed /\ files \in [Files -> Seq(Row)]
  BY DEF PassInv, Typed, OneVoice, LlmPassTypeOK
<1>2. nkeys' = nkeys /\ reaps' = reaps
  BY <1>1, StepIs
<1>3. Writers' = Writers /\ Listed' = Listed /\ Combined' = Combined
  BY <1>2 DEF Writers, Listed, Combined
<1>4. Out \in Files
  BY DEF Files
<1>5. CASE FoldOpen
  BY <1>1, <1>2, <1>3, <1>4, <1>5 DEF FoldOpen, Folds
<1>6. CASE FoldWrite
  <2>1. sup.at = "write" /\ nkeys >= 2 /\ files' = [files EXCEPT ![Out] = sup.rows] /\ UNCHANGED workers
    BY <1>1, <1>6 DEF FoldWrite, Backed
  <2>2. files'[Out] = sup.rows
    BY <1>1, <1>4, <2>1
  <2> QED
    BY <1>2, <1>3, <1>6, <2>1, <2>2
<1>7. ASSUME NEW f \in Files, WriteRow(f)
      PROVE  /\ f \in Writers /\ workers[f] # Idle /\ workers[f].row \in Row
             /\ workers[f].list # <<>> /\ workers[f].row.p = Head(workers[f].list)
             /\ files' = [files EXCEPT ![f] = Append(files[f], workers[f].row)]
  <2>1. workers[f].row # NoRow /\ files' = [files EXCEPT ![f] = Append(files[f], workers[f].row)]
    BY <1>7 DEF WriteRow
  <2> QED
    BY <1>1, <2>1, WorkerIs DEF InPlace
<1>8. CASE \E f \in Files : WriteRow(f)
  BY <1>2, <1>3, <1>7, <1>8
<1>9. CASE UNCHANGED files
  BY <1>2, <1>3, <1>9
<1>10. \/ UNCHANGED files \/ FoldOpen \/ FoldWrite \/ \E f \in Files : WriteRow(f)
  BY <1>1, StepIs DEF Start, Starts, BatchOver, WakeUp, CorpusComplete, Kill
<1> QED
  BY <1>5, <1>6, <1>8, <1>9, <1>10

\* A row more.
LEMMA RowMore ==
  ASSUME NEW T, NEW rows \in Seq(T), NEW r \in T
  PROVE  /\ Append(rows, r) \in Seq(T) /\ DOMAIN Append(rows, r) = DOMAIN rows \cup {Len(rows) + 1}
         /\ Len(rows) + 1 \notin DOMAIN rows /\ Append(rows, r)[Len(rows) + 1] = r
         /\ \A k \in DOMAIN rows : Append(rows, r)[k] = rows[k]
         /\ ProgramsIn(Append(rows, r)) = ProgramsIn(rows) \cup {r.p}
         /\ Good(Append(rows, r)) = Good(rows) \cup (IF r.ok THEN {r.p} ELSE {})
<1> DEFINE more == Append(rows, r)
           n == Len(rows) + 1
<1>1. /\ more \in Seq(T) /\ DOMAIN more = DOMAIN rows \cup {n} /\ n \notin DOMAIN rows /\ more[n] = r
      /\ \A k \in DOMAIN rows : more[k] = rows[k]
  OBVIOUS
<1> HIDE DEF more, n
<1>2. ProgramsIn(more) = ProgramsIn(rows) \cup {r.p}
  BY <1>1 DEF ProgramsIn
<1>3. Good(more) = Good(rows) \cup (IF r.ok THEN {r.p} ELSE {})
  BY <1>1 DEF Good
<1> QED
  BY <1>1, <1>2, <1>3 DEF more, n

\* What each step does to one worker.
LEMMA WorkerSteps ==
  ASSUME PassInv, Next, NEW f \in Files
  PROVE  \/ workers'[f] = workers[f]
         \/ workers'[f] = Idle
         \/ \E started \in SUBSET Writers :
              /\ Starts(started) /\ f \in started /\ workers[f] = Idle /\ workers'[f] = Begins(f)
         \/ \E r : /\ Drafts(f, r) /\ workers[f] # Idle /\ UNCHANGED <<sup, files>>
                   /\ workers'[f].list = workers[f].list /\ workers'[f].row = r
         \/ /\ WriteRow(f) /\ workers[f] # Idle /\ UNCHANGED sup
            /\ workers'[f].list = Tail(workers[f].list) /\ workers'[f].row = NoRow
<1>1. Typed /\ LlmPassTypeOK /\ SaidByIt(cache) /\ workers = [g \in Files |-> workers[g]]
  BY DEF PassInv, Typed, OneVoice
<1>2. CASE Start \/ Kill \/ BatchOver \/ WakeUp \/ CorpusComplete \/ FoldOpen \/ FoldWrite
  BY <1>2 DEF Start, Kill, BatchOver, WakeUp, CorpusComplete, FoldOpen, FoldWrite
<1>3. ASSUME NEW started \in SUBSET Writers, Starts(started)
      PROVE  workers'[f] = workers[f] \/ (f \in started /\ workers[f] = Idle /\ workers'[f] = Begins(f))
  BY <1>3 DEF Starts
<1>4. ASSUME NEW g \in Files, NEW code, Ends(g, code)
      PROVE  workers'[f] = workers[f] \/ workers'[f] = Idle
  BY <1>1, <1>4 DEF Ends
<1>5. ASSUME NEW g \in Files, NEW r, Drafts(g, r), UNCHANGED files, workers'[f] # workers[f]
      PROVE  /\ f = g /\ workers[f] # Idle /\ UNCHANGED sup
             /\ workers'[f].list = workers[f].list /\ workers'[f].row = r
  <2>1. f = g /\ workers'[f] = [workers[f] EXCEPT !.row = r]
    BY <1>1, <1>5 DEF Drafts
  <2>2. workers[f] = [list |-> workers[f].list, key |-> workers[f].key, row |-> workers[f].row] /\ workers[f] # Idle
    BY <1>1, <1>5, <2>1, WorkerIs DEF Drafts
  <2>3. workers'[f].list = workers[f].list /\ workers'[f].row = r
    BY <2>1, <2>2
  <2> QED
    BY <1>5, <2>1, <2>2, <2>3 DEF Drafts
<1>6. ASSUME NEW g \in Files, WriteRow(g), workers'[f] # workers[f]
      PROVE  /\ f = g /\ workers[f] # Idle /\ UNCHANGED sup
             /\ workers'[f].list = Tail(workers[f].list) /\ workers'[f].row = NoRow
  <2>1. f = g /\ workers'[f] = [workers[f] EXCEPT !.row = NoRow, !.list = Tail(@)]
    BY <1>1, <1>6 DEF WriteRow
  <2>2. workers[f] = [list |-> workers[f].list, key |-> workers[f].key, row |-> workers[f].row] /\ workers[f] # Idle
    BY <1>1, <1>6, <2>1, WorkerIs DEF WriteRow
  <2>3. workers'[f].list = Tail(workers[f].list) /\ workers'[f].row = NoRow
    BY <2>1, <2>2
  <2> QED
    BY <1>6, <2>1, <2>2, <2>3 DEF WriteRow
<1> QED
  BY <1>1, <1>2, <1>3, <1>4, <1>5, <1>6, StepIs

\* What was answered, by the number of keys.
LEMMA AnsweredOf ==
  ASSUME PassInv
  PROVE  /\ nkeys >= 2 => Answered = Sharded
         /\ nkeys = 1 => Answered = ProgramsIn(files[Out])
<1>1. LlmPassTypeOK /\ InPlace /\ Backed
  BY DEF PassInv, Typed
<1>2. Answered = ProgramsIn(files[Out]) \cup Sharded
  BY DEF Answered, Sharded, Combined
<1>3. ASSUME nkeys = 1 PROVE Sharded = {}
  <2>1. Listed = {0} /\ 0 \in Files /\ Out # 0
    BY <1>1, <1>3, FilesAre DEF Listed, Combined, Out
  <2>2. files[0] = <<>>
    BY <1>1, <1>3, <2>1 DEF InPlace, Writers
  <2>3. ProgramsIn(files[0]) = {}
    BY <2>2 DEF ProgramsIn
  <2> QED
    BY <2>1, <2>3 DEF Sharded
<1> QED
  BY <1>1, <1>2, <1>3 DEF Backed

\* Whatever the shards have they keep, and with one key so does the combined file.
LEMMA ShardsGrow ==
  ASSUME PassInv, Next
  PROVE  /\ \A f \in Writers : ProgramsIn(files[f]) \subseteq ProgramsIn(files'[f])
         /\ nkeys >= 2 => Sharded \subseteq Sharded'
         /\ Answered \subseteq Answered'
<1>1. LlmPassTypeOK /\ files \in [Files -> Seq(Row)]
  BY DEF PassInv, Typed, LlmPassTypeOK
<1>2. Writers \subseteq Files /\ Out \notin Listed
  BY <1>1, FilesAre
<1>3. ASSUME NEW f \in Writers PROVE ProgramsIn(files[f]) \subseteq ProgramsIn(files'[f])
  <2>1. CASE UNCHANGED files
    BY <2>1
  <2>2. CASE nkeys >= 2 /\ \E rows \in {<<>>, sup.rows} : files' = [files EXCEPT ![Out] = rows]
    <3>1. f # Out
      BY <1>2, <2>2 DEF Writers
    <3> QED
      BY <1>1, <1>2, <2>2, <3>1
  <2>3. ASSUME NEW g \in Writers, workers[g].row \in Row, files' = [files EXCEPT ![g] = Append(files[g], workers[g].row)]
        PROVE  ProgramsIn(files[f]) \subseteq ProgramsIn(files'[f])
    <3>1. ProgramsIn(files[g]) \subseteq ProgramsIn(Append(files[g], workers[g].row))
      <4>1. files[g] \in Seq(Row)
        BY <1>1, <1>2
      <4> QED
        BY <2>3, <4>1, RowMore
    <3> QED
      BY <1>1, <1>2, <2>3, <3>1
  <2> QED
    BY <2>1, <2>2, <2>3, FileSteps
<1>4. ASSUME nkeys >= 2 PROVE Sharded \subseteq Sharded'
  <2>1. Writers = Listed /\ Listed' = Listed
    BY <1>4, FileSteps DEF Writers
  <2> QED
    BY <1>3, <2>1 DEF Sharded
<1>5. Answered \subseteq Answered'
  <2>1. Answered' = ProgramsIn(files'[Out]) \cup Sharded'
    BY DEF Answered, Sharded, Combined
  <2>2. CASE nkeys >= 2
    BY <1>4, <2>1, <2>2, AnsweredOf
  <2>3. CASE nkeys = 1
    BY <1>3, <2>1, <2>3, AnsweredOf DEF Writers
  <2> QED
    BY <1>1, <2>2, <2>3, FilesAre
<1> QED
  BY <1>3, <1>4, <1>5

\* How the supervisor comes to hold merged rows, and how it comes to be done.
LEMMA SupWrites ==
  ASSUME PassInv, Next, sup'.at = "write"
  PROVE  /\ sup'.next = sup.next
         /\ \/ sup.at = "write" /\ sup'.rows = sup.rows
            \/ sup.at = "fold" /\ nkeys >= 2 /\ sup'.rows = Merged
<1>1. Typed /\ LlmPassTypeOK /\ SaidByIt(cache) /\ sup.next \in {"loop", "wait", "done"}
  BY DEF PassInv, Typed, OneVoice, LlmPassTypeOK
<1>2. CASE FoldOpen
  BY <1>1, <1>2, SupSteps DEF Folds
<1>3. CASE Start \/ Kill \/ BatchOver \/ WakeUp \/ CorpusComplete \/ FoldWrite \/ \E started \in SUBSET Writers : Starts(started)
  BY <1>1, <1>3, SupSteps
<1>4. ASSUME NEW f \in Files, NEW code, Ends(f, code)
      PROVE  sup'.at = sup.at /\ sup'.next = sup.next /\ sup'.rows = sup.rows
  BY <1>1, <1>4, SupSteps
<1>5. ASSUME NEW f \in Files, WriteRow(f) \/ \E r : Drafts(f, r)
      PROVE  UNCHANGED sup
  BY <1>5 DEF WriteRow, Drafts
<1> QED
  BY <1>1, <1>2, <1>3, <1>4, <1>5, StepIs

LEMMA SupEnds ==
  ASSUME PassInv, Next, sup'.at = "done"
  PROVE  \/ sup.at = "done"
         \/ sup.at = "fold" /\ sup.next = "done" /\ ~Folds /\ UNCHANGED files
         \/ sup.at = "write" /\ sup.next = "done" /\ files'[Out] = sup.rows
<1>1. Typed /\ LlmPassTypeOK /\ SaidByIt(cache) /\ files \in [Files -> Seq(Row)] /\ Out \in Files
  BY DEF PassInv, Typed, OneVoice, LlmPassTypeOK, Files
<1>2. CASE FoldOpen
  <2>1. sup.at = "fold" /\ sup.next = "done" /\ ~Folds
    BY <1>1, <1>2, SupSteps
  <2> QED
    BY <1>2, <2>1 DEF FoldOpen
<1>3. CASE FoldWrite
  <2>1. sup.at = "write" /\ sup.next = "done"
    BY <1>1, <1>3, SupSteps
  <2> QED
    BY <1>1, <1>3, <2>1 DEF FoldWrite
<1>4. CASE Start \/ Kill \/ BatchOver \/ WakeUp \/ CorpusComplete \/ \E started \in SUBSET Writers : Starts(started)
  BY <1>1, <1>4, SupSteps
<1>5. ASSUME NEW f \in Files, NEW code, Ends(f, code)
      PROVE  sup'.at = sup.at
  BY <1>1, <1>5, SupSteps
<1>6. ASSUME NEW f \in Files, WriteRow(f) \/ \E r : Drafts(f, r)
      PROVE  UNCHANGED sup
  BY <1>6 DEF WriteRow, Drafts
<1> QED
  BY <1>1, <1>2, <1>3, <1>4, <1>5, <1>6, StepIs

LEMMA InPlaceHolds ==
  ASSUME PassInv, Next
  PROVE  InPlace'
<1>1. LlmPassTypeOK /\ InPlace /\ files \in [Files -> Seq(Row)] /\ Writers \subseteq Files /\ Writers' = Writers
  BY FilesAre, FileSteps DEF PassInv, Typed, LlmPassTypeOK
<1> SUFFICES ASSUME NEW f \in Files
             PROVE  /\ workers'[f] # Idle => f \in Writers
                    /\ files'[f] # <<>> => f \in {Out} \cup Writers
  BY <1>1 DEF InPlace
<1>2. workers'[f] # Idle => f \in Writers
  BY <1>1, WorkerSteps DEF InPlace
<1>3. files'[f] # <<>> => f \in {Out} \cup Writers
  BY <1>1, FileSteps DEF InPlace
<1> QED
  BY <1>2, <1>3

LEMMA BackedHolds ==
  ASSUME PassInv, Next
  PROVE  Backed'
<1>1. /\ LlmPassTypeOK /\ Backed /\ files \in [Files -> Seq(Row)] /\ Out \in Files /\ Out \notin Listed
      /\ nkeys' = nkeys /\ Listed' = Listed
  BY FilesAre, FileSteps DEF PassInv, Typed, LlmPassTypeOK, Files
<1>2. ASSUME nkeys >= 2 PROVE ProgramsIn(files'[Out]) \subseteq Sharded' /\ Once(files'[Out])
  <2>1. files'[Out] \in {files[Out], <<>>} \/ (sup.at = "write" /\ files'[Out] = sup.rows)
    <3>1. \A f \in Writers : f # Out
      BY <1>1, <1>2 DEF Writers
    <3> QED
      BY <1>1, <3>1, FileSteps
  <2>2. ProgramsIn(<<>>) = {} /\ Once(<<>>)
    BY DEF ProgramsIn, Once
  <2>3. Sharded \subseteq Sharded'
    BY <1>2, ShardsGrow
  <2> QED
    BY <1>1, <1>2, <2>1, <2>2, <2>3 DEF Backed
<1>3. ASSUME sup'.at = "write" PROVE nkeys >= 2 /\ ProgramsIn(sup'.rows) \subseteq Sharded' /\ Once(sup'.rows)
  <2>1. CASE sup.at = "write" /\ sup'.rows = sup.rows
    BY <1>1, <2>1, ShardsGrow DEF Backed
  <2>2. CASE sup.at = "fold" /\ nkeys >= 2 /\ sup'.rows = Merged
    <3>1. ProgramsIn(Merged) = Sharded /\ Once(Merged)
      BY <1>1, <2>2, MergedIs, AnsweredOf DEF Backed
    <3> QED
      BY <2>2, <3>1, ShardsGrow
  <2> QED
    BY <1>3, <2>1, <2>2, SupWrites
<1> QED
  BY <1>1, <1>2, <1>3 DEF Backed

LEMMA StillOfTheCorpus ==
  ASSUME PassInv, Next
  PROVE  /\ Answered' \subseteq Range(Programs)
         /\ \A f \in Files : ProgramsIn(files'[f]) \subseteq Range(Programs)
<1>1. files' \in [Files -> Seq(Row)] /\ Combined' \subseteq Files
  BY FilesTyped, FilesAre, FileSteps DEF PassInv, Typed, OneVoice
<1>2. ASSUME NEW f \in Files PROVE ProgramsIn(files'[f]) \subseteq Range(Programs)
  <2>1. files'[f] \in Seq(Row)
    BY <1>1
  <2>2. \A k \in DOMAIN files'[f] : files'[f][k] \in Row
    BY <2>1
  <2>3. \A r \in Row : r.p \in Range(Programs)
    BY DEF Row
  <2> QED
    BY <2>2, <2>3 DEF ProgramsIn
<1> QED
  BY <1>1, <1>2 DEF Answered

LEMMA WholeHolds ==
  ASSUME PassInv, Next
  PROVE  Whole'
<1>1. /\ Typed /\ LlmPassTypeOK /\ SaidByIt(cache) /\ Whole /\ Backed
      /\ files \in [Files -> Seq(Row)] /\ Out \in Files
  BY DEF PassInv, Typed, OneVoice, LlmPassTypeOK, Files
<1>2. ASSUME sup'.next = "done", sup'.at \in {"fold", "write"} PROVE Answered' = Range(Programs)
  <2>1. Answered = Range(Programs)
    <3>1. CASE CorpusComplete
      <4>1. Cardinality(Answered) >= Len(Programs)
        BY <3>1 DEF CorpusComplete
      <4> QED
        BY <1>1, <4>1, AnsweredIs
    <3>2. CASE Start \/ Kill \/ BatchOver \/ WakeUp \/ FoldOpen \/ FoldWrite \/ \E started \in SUBSET Writers : Starts(started)
      <4>1. sup.next = "done" /\ sup.at \in {"fold", "write"}
        BY <1>1, <1>2, <3>2, SupSteps
      <4> QED
        BY <1>1, <4>1 DEF Whole
    <3>3. ASSUME NEW f \in Files, NEW code, Ends(f, code) PROVE sup'.at = sup.at /\ sup'.next = sup.next
      BY <1>1, <3>3, SupSteps
    <3>4. ASSUME NEW f \in Files, WriteRow(f) \/ \E r : Drafts(f, r) PROVE UNCHANGED sup
      BY <3>4 DEF WriteRow, Drafts
    <3> QED
      BY <1>1, <1>2, <3>1, <3>2, <3>3, <3>4, StepIs DEF Whole
  <2> QED
    BY <2>1, ShardsGrow, StillOfTheCorpus
<1>3. ASSUME sup'.next = "done", sup'.at = "write" PROVE ProgramsIn(sup'.rows) = Range(Programs)
  <2>1. CASE sup.at = "write" /\ sup'.rows = sup.rows
    BY <1>1, <1>3, <2>1, SupWrites DEF Whole
  <2>2. CASE sup.at = "fold" /\ sup'.rows = Merged
    <3>1. Answered = Range(Programs)
      BY <1>1, <1>3, <2>2, SupWrites DEF Whole
    <3> QED
      BY <1>1, <2>2, <3>1, MergedIs
  <2> QED
    BY <1>3, <2>1, <2>2, SupWrites
<1>4. ASSUME sup'.at = "done" PROVE ProgramsIn(files'[Out]) = Range(Programs)
  <2>1. CASE sup.at = "done"
    <3>1. ProgramsIn(files[Out]) = Range(Programs)
      BY <1>1, <2>1 DEF Whole
    <3>2. files'[Out] = files[Out] \/ Out \in Writers
      BY <1>1, <2>1, FileSteps
    <3>3. ProgramsIn(files[Out]) \subseteq ProgramsIn(files'[Out])
      BY <3>2, ShardsGrow
    <3> QED
      BY <1>1, <3>1, <3>3, StillOfTheCorpus
  <2>2. CASE sup.at = "fold" /\ sup.next = "done" /\ ~Folds /\ UNCHANGED files
    <3>1. Answered = Range(Programs)
      BY <1>1, <2>2 DEF Whole
    <3>2. nkeys = 1 \/ \A a \in Kept : a[1] = Out
      BY <1>1, <2>2, FilesAre DEF Folds
    <3> QED
      BY <1>1, <2>2, <3>1, <3>2, AnsweredOf, MergedIs
  <2>3. CASE sup.at = "write" /\ sup.next = "done" /\ files'[Out] = sup.rows
    BY <1>1, <2>3 DEF Whole
  <2> QED
    BY <1>4, <2>1, <2>2, <2>3, SupEnds
<1> QED
  BY <1>2, <1>3, <1>4 DEF Whole

LEMMA QuietHolds ==
  ASSUME PassInv, Next
  PROVE  Quiet'
<1>1. Typed /\ LlmPassTypeOK /\ SaidByIt(cache) /\ Quiet /\ reaps' = reaps /\ workers = [g \in Files |-> workers[g]]
  BY FileSteps DEF PassInv, Typed, OneVoice
<1> SUFFICES ASSUME reaps, NEW f \in Files, workers'[f] # Idle
             PROVE  /\ sup'.at \in {"off", "running"}
                    /\ sup'.at = "running" => f \in DOMAIN sup'.codes /\ sup'.codes[f] = "running"
  BY <1>1 DEF Quiet
<1>2. CASE workers[f] # Idle
  <2>1. /\ sup.at \in {"off", "running"}
        /\ sup.at = "running" => f \in DOMAIN sup.codes /\ sup.codes[f] = "running"
    BY <1>1, <1>2 DEF Quiet
  <2>2. ~Start
    BY DEF Start
  <2>3. \A started \in SUBSET Writers : ~Starts(started)
    BY <2>1 DEF Starts
  <2>4. ~BatchOver /\ ~WakeUp /\ ~CorpusComplete /\ ~FoldOpen /\ ~FoldWrite
    BY <2>1 DEF BatchOver, WakeUp, CorpusComplete, FoldOpen, FoldWrite
  <2>5. Kill => sup'.at = "off"
    BY <1>1, SupSteps
  <2>6. ASSUME NEW g \in Files, NEW code, Ends(g, code)
        PROVE  sup'.at = sup.at /\ (f \in DOMAIN sup.codes => f \in DOMAIN sup'.codes /\ sup'.codes[f] = sup.codes[f])
    <3>1. g # f
      BY <1>1, <2>6 DEF Ends
    <3>2. sup'.codes = sup.codes \/ sup'.codes = [sup.codes EXCEPT ![g] = code]
      BY <1>1, <2>6 DEF Ends, Typed, SupTyped
    <3>3. sup'.at = sup.at
      BY <1>1, <2>6, SupSteps
    <3> QED
      BY <3>1, <3>2, <3>3
  <2>7. ASSUME NEW g \in Files, WriteRow(g) \/ \E r : Drafts(g, r) PROVE UNCHANGED sup
    BY <2>7 DEF WriteRow, Drafts
  <2> QED
    BY <1>1, <2>1, <2>2, <2>3, <2>4, <2>5, <2>6, <2>7, StepIs
<1>3. CASE workers[f] = Idle
  <2>1. PICK started \in SUBSET Writers : Starts(started) /\ f \in started
    BY <1>3, WorkerSteps
  <2>2. sup'.at = "running" /\ sup'.codes = [g \in started |-> IF workers[g] = Idle THEN "running" ELSE "error"]
    BY <1>1, <2>1, SupSteps
  <2> QED
    BY <1>3, <2>1, <2>2
<1> QED
  BY <1>2, <1>3

LEMMA UnstuckHolds ==
  ASSUME PassInv, Next
  PROVE  Unstuck'
<1>1. /\ Typed /\ LlmPassTypeOK /\ SaidByIt(cache) /\ Quiet /\ Unstuck /\ reaps' = reaps
      /\ Cardinality(Answered) \in Nat /\ Len(Programs) \in Nat /\ sup.before \in Nat
  <2>1. sup.before \in 0 .. Len(Programs) /\ Len(Programs) \in Nat
    BY CorpusIs DEF PassInv, Typed, LlmPassTypeOK
  <2>2. LlmPassTypeOK
    BY DEF PassInv, Typed
  <2> QED
    BY <2>1, <2>2, AnsweredIs, CorpusIs, FileSteps DEF PassInv, OneVoice
<1>2. UNCHANGED files => Answered' = Answered
  BY FileSteps DEF Answered
<1>3. CASE Start \/ Kill
  BY <1>1, <1>3, SupSteps DEF Unstuck
<1>4. ASSUME NEW started \in SUBSET Writers, Starts(started) PROVE Unstuck'
  <2>1. sup'.at = "running" /\ sup'.before < Len(Programs)
    BY <1>1, <1>4, SupSteps DEF Starts
  <2> QED
    BY <2>1 DEF Unstuck
<1>5. CASE BatchOver
  <2>1. sup.at = "running" /\ UNCHANGED files
    BY <1>5 DEF BatchOver
  <2>2. sup'.at \in {"fold", "wait"} /\ (sup'.stuck => sup'.at = "wait" /\ ~(Cardinality(Answered) > sup.before))
    BY <1>1, <1>5, SupSteps
  <2>3. sup'.stuck => Cardinality(Answered) < Len(Programs)
    BY <1>1, <2>1, <2>2 DEF Unstuck
  <2> QED
    BY <1>2, <2>1, <2>2, <2>3 DEF Unstuck
<1>6. CASE WakeUp
  <2>1. sup.at = "wait" /\ sup'.at = "loop" /\ sup'.stuck = sup.stuck /\ UNCHANGED files
    BY <1>1, <1>6, SupSteps DEF WakeUp
  <2> QED
    BY <1>1, <1>2, <2>1 DEF Unstuck
<1>7. CASE CorpusComplete
  <2>1. sup.at = "loop" /\ sup'.at = "fold" /\ sup'.stuck = sup.stuck /\ Cardinality(Answered) >= Len(Programs)
    BY <1>1, <1>7, SupSteps DEF CorpusComplete
  <2>2. ~(reaps /\ sup.stuck)
    BY <1>1, <2>1 DEF Unstuck
  <2> QED
    BY <1>1, <2>1, <2>2 DEF Unstuck
<1>8. CASE FoldOpen \/ FoldWrite
  <2>1. sup.at \in {"fold", "write"} /\ sup'.stuck = sup.stuck /\ sup'.at # "running"
    BY <1>1, <1>8, SupSteps DEF LlmPassTypeOK
  <2> QED
    BY <1>1, <2>1 DEF Unstuck
<1>9. ASSUME NEW f \in Files, NEW code, Ends(f, code), UNCHANGED files PROVE Unstuck'
  <2>1. sup'.at = sup.at /\ sup'.before = sup.before /\ sup'.stuck = sup.stuck
    BY <1>1, <1>9, SupSteps
  <2> QED
    BY <1>1, <1>2, <1>9, <2>1 DEF Unstuck
<1>10. ASSUME UNCHANGED <<files, sup>> PROVE Unstuck'
  BY <1>1, <1>2, <1>10 DEF Unstuck
<1>11. ASSUME NEW f \in Files, WriteRow(f) PROVE Unstuck'
  <2>1. UNCHANGED sup /\ workers[f] # Idle
    BY <1>1, <1>11, WorkerIs DEF WriteRow
  <2>2. reaps => sup.at \in {"off", "running"}
    BY <1>1, <2>1 DEF Quiet
  <2> QED
    BY <1>1, <2>1, <2>2 DEF Unstuck
<1>12. ASSUME NEW f \in Files, NEW r, Drafts(f, r), UNCHANGED files PROVE Unstuck'
  BY <1>10, <1>12 DEF Drafts
<1> QED
  BY <1>1, <1>3, <1>4, <1>5, <1>6, <1>7, <1>8, <1>9, <1>10, <1>11, <1>12, StepIs

\* What is left to do when the head of a list was done.
LEMMA LessToDo ==
  ASSUME NEW T, NEW list \in Seq(T), list # <<>>, Distinct(list)
  PROVE  /\ Distinct(Tail(list)) /\ Range(Tail(list)) \subseteq Range(list)
         /\ Head(list) \in Range(list) /\ Head(list) \notin Range(Tail(list))
<1> DEFINE rest == Tail(list)
<1>1. Len(list) \in Nat \ {0} /\ DOMAIN list = 1 .. Len(list) /\ Head(list) = list[1]
  OBVIOUS
<1>2. DOMAIN rest = 1 .. Len(list) - 1 /\ \A k \in DOMAIN rest : rest[k] = list[k + 1]
  BY <1>1
<1> HIDE DEF rest
<1>3. \A k \in DOMAIN rest : k + 1 \in DOMAIN list /\ k + 1 # 1
  BY <1>1, <1>2
<1>4. Distinct(rest)
  <2>1. \A i, j \in DOMAIN rest : i + 1 = j + 1 => i = j
    BY <1>1, <1>2
  <2> QED
    BY <1>2, <1>3, <2>1 DEF Distinct
<1>5. Range(rest) \subseteq Range(list)
  BY <1>2, <1>3 DEF Range
<1>6. Head(list) \in Range(list) /\ 1 \in DOMAIN list
  BY <1>1 DEF Range
<1>7. Head(list) \notin Range(rest)
  BY <1>1, <1>2, <1>3, <1>6 DEF Range, Distinct
<1> QED
  BY <1>4, <1>5, <1>6, <1>7 DEF rest

LEMMA NothingToDo == Idle.list = <<>> /\ Distinct(<<>>) /\ Range(<<>>) = {}
<1>1. Idle.list = <<>>
  BY DEF Idle
<1>2. DOMAIN <<>> = {}
  OBVIOUS
<1>3. Distinct(<<>>)
  BY <1>2 DEF Distinct
<1>4. Range(<<>>) = {}
  BY <1>2 DEF Range
<1> QED
  BY <1>1, <1>3, <1>4

\* What Apart says of two of those who write, with the lists and the rows given.
Parted(f, g, mine, theirs, rows, others) ==
  /\ f # g => Range(mine) \cap Range(theirs) = {}
  /\ Range(mine) \cap Good(others) = {}
  /\ \A k \in DOMAIN rows, j \in DOMAIN others :
       rows[k].ok /\ others[j].ok /\ rows[k].p = others[j].p => f = g /\ k = j

LEMMA ApartIs ==
  Apart <=> /\ \A f \in Files : Distinct(workers[f].list)
            /\ reaps => \A f, g \in Writers :
                          Parted(f, g, workers[f].list, workers[g].list, files[f], files[g])
BY DEF Apart, Parted

\* As long as nobody starts and nobody writes, lists only get shorter.
LEMMA StillApart ==
  ASSUME PassInv, Next, UNCHANGED workers \/ \A f \in Files : workers'[f] = Idle \/ workers'[f].list = workers[f].list,
         \A f \in Writers : files'[f] = files[f]
  PROVE  Apart'
<1>1. LlmPassTypeOK /\ Apart /\ reaps' = reaps /\ Writers' = Writers /\ Writers \subseteq Files
  BY FilesAre, FileSteps DEF PassInv, Typed
<1>2. Idle.list = <<>> /\ Distinct(<<>>) /\ Range(<<>>) = {}
  BY NothingToDo
<1>3. \A f \in Files : workers'[f].list \in {workers[f].list, <<>>}
  BY <1>2
<1>4. \A f \in Files : Distinct(workers'[f].list) /\ Range(workers'[f].list) \subseteq Range(workers[f].list)
  BY <1>1, <1>2, <1>3 DEF Apart
<1>5. ASSUME reaps, NEW f \in Writers, NEW g \in Writers
      PROVE  Parted(f, g, workers'[f].list, workers'[g].list, files'[f], files'[g])
  <2>1. Parted(f, g, workers[f].list, workers[g].list, files[f], files[g])
    BY <1>1, <1>5, ApartIs
  <2>2. Range(workers'[f].list) \subseteq Range(workers[f].list) /\ Range(workers'[g].list) \subseteq Range(workers[g].list)
    BY <1>1, <1>4
  <2> QED
    BY <2>1, <2>2 DEF Parted
<1>6. /\ \A f \in Files : Distinct(workers'[f].list)
      /\ reaps' => \A f, g \in Writers' :
                     Parted(f, g, workers'[f].list, workers'[g].list, files'[f], files'[g])
  BY <1>1, <1>4, <1>5
<1> QED
  BY <1>6 DEF Apart, Parted

LEMMA ApartHolds ==
  ASSUME PassInv, Next
  PROVE  Apart'
<1>1. /\ Typed /\ LlmPassTypeOK /\ SaidByIt(cache) /\ Quiet /\ Apart /\ files \in [Files -> Seq(Row)]
      /\ reaps' = reaps /\ Writers' = Writers /\ Writers \subseteq Files /\ workers = [g \in Files |-> workers[g]]
      /\ Writers \subseteq Combined
  BY FilesAre, FileSteps DEF PassInv, Typed, OneVoice, LlmPassTypeOK
<1>2. CASE UNCHANGED <<files, workers>>
  BY <1>2, StillApart
<1>3. CASE Start \/ Kill
  BY <1>3, StillApart DEF Start, Kill
<1>4. CASE FoldOpen \/ FoldWrite
  <2>1. UNCHANGED workers
    BY <1>4 DEF FoldOpen, FoldWrite
  <2>2. UNCHANGED files \/ (nkeys >= 2 /\ \E rows \in {<<>>, sup.rows} : files' = [files EXCEPT ![Out] = rows])
    BY <1>1, <1>4 DEF FoldOpen, FoldWrite, Folds, PassInv, Backed
  <2>3. nkeys >= 2 => Out \notin Writers
    BY <1>1, FilesAre DEF Writers
  <2>4. \A f \in Writers : files'[f] = files[f]
    BY <1>1, <2>2, <2>3
  <2> QED
    BY <2>1, <2>4, StillApart
<1>5. ASSUME NEW h \in Files, NEW code, Ends(h, code), UNCHANGED files PROVE Apart'
  BY <1>1, <1>5, StillApart DEF Ends
<1>6. ASSUME NEW h \in Files, NEW r, Drafts(h, r), UNCHANGED files PROVE Apart'
  <2>1. ASSUME NEW f \in Files PROVE workers'[f].list = workers[f].list
    <3>1. CASE f # h
      BY <1>1, <1>6, <3>1 DEF Drafts
    <3>2. CASE f = h
      <4>1. workers[f] = [list |-> workers[f].list, key |-> workers[f].key, row |-> workers[f].row]
        BY <1>1, <1>6, <3>2, WorkerIs DEF Drafts
      <4>2. workers'[f] = [workers[f] EXCEPT !.row = r]
        BY <1>1, <1>6, <3>2 DEF Drafts
      <4> QED
        BY <4>1, <4>2
    <3> QED
      BY <3>1, <3>2
  <2> QED
    BY <1>6, <2>1, StillApart
<1>7. ASSUME NEW started \in SUBSET Writers, Starts(started) PROVE Apart'
  <2>1. sup.at = "loop" /\ UNCHANGED files
    BY <1>7 DEF Starts
  <2>2. Idle.list = <<>> /\ Range(<<>>) = {}
    BY NothingToDo
  <2>3. \A f \in Files : workers'[f] = workers[f] \/ (f \in started /\ workers'[f].list = Todo(f))
    BY <1>7 DEF Starts, Begins
  <2>4. \A f \in Files : Distinct(workers'[f].list)
    BY <1>1, <2>3, HandedOut DEF Apart
  <2>5. ASSUME reaps, NEW f \in Writers, NEW g \in Writers
        PROVE  Parted(f, g, workers'[f].list, workers'[g].list, files'[f], files'[g])
    <3>1. \A x \in Files : workers[x] = Idle
      BY <1>1, <2>1, <2>5 DEF Quiet
    <3>2. \A x \in Files : workers'[x].list = <<>> \/ (x \in started /\ workers'[x].list = Todo(x))
      BY <2>2, <2>3, <3>1
    <3>3. \A x \in Writers : Range(workers'[x].list) \subseteq Range(Todo(x))
      BY <1>1, <2>2, <3>2
    <3>4. f # g => Range(Todo(f)) \cap Range(Todo(g)) = {}
      BY <1>1, HandedOut
    <3>5. Range(Todo(f)) \cap Good(files[g]) = {}
      <4>1. CASE f = g
        BY <1>1, <4>1, HandedOut
      <4>2. CASE f # g
        <5>1. nkeys # 1
          BY <4>2 DEF Writers
        <5>2. Good(files[g]) \subseteq Answered
          BY <1>1 DEF Good, Answered, ProgramsIn
        <5> QED
          BY <1>1, <5>1, <5>2, HandedOut
      <4> QED
        BY <4>1, <4>2
    <3>6. Parted(f, g, workers[f].list, workers[g].list, files[f], files[g])
      BY <1>1, <2>5, ApartIs
    <3> QED
      BY <2>1, <3>3, <3>4, <3>5, <3>6 DEF Parted
  <2>6. /\ \A f \in Files : Distinct(workers'[f].list)
        /\ reaps' => \A f, g \in Writers' :
                       Parted(f, g, workers'[f].list, workers'[g].list, files'[f], files'[g])
    BY <1>1, <2>4, <2>5
  <2> QED
    BY <2>6 DEF Apart, Parted
<1>8. ASSUME NEW h \in Files, WriteRow(h) PROVE Apart'
  <2> DEFINE r == workers[h].row
             list == workers[h].list
             n == Len(files[h]) + 1
  <2>1. /\ r \in Row /\ list \in Seq(Range(Programs)) /\ list # <<>> /\ r.p = Head(list)
        /\ files[h] \in Seq(Row) /\ files' = [files EXCEPT ![h] = Append(files[h], r)]
        /\ workers' = [workers EXCEPT ![h].row = NoRow, ![h].list = Tail(@)]
        /\ workers[h] = [list |-> list, key |-> workers[h].key, row |-> r]
    BY <1>1, <1>8, WorkerIs DEF WriteRow
  <2>2. workers'[h].list = Tail(list) /\ \A f \in Files : f # h => workers'[f] = workers[f]
    <3>1. workers'[h] = [workers[h] EXCEPT !.row = NoRow, !.list = Tail(@)]
      BY <1>1, <2>1
    <3> QED
      BY <1>1, <2>1, <3>1
  <2>3. files'[h] = Append(files[h], r) /\ \A f \in Files : f # h => files'[f] = files[f]
    BY <1>1, <2>1
  <2>4. /\ DOMAIN files'[h] = DOMAIN files[h] \cup {n} /\ n \notin DOMAIN files[h] /\ files'[h][n] = r
        /\ \A k \in DOMAIN files[h] : files'[h][k] = files[h][k]
        /\ Good(files'[h]) \subseteq Good(files[h]) \cup {r.p}
    BY <2>1, <2>3, RowMore
  <2>5. /\ Distinct(Tail(list)) /\ Range(Tail(list)) \subseteq Range(list)
        /\ r.p \in Range(list) /\ r.p \notin Range(Tail(list))
    <3>1. Distinct(list)
      BY <1>1 DEF Apart
    <3> QED
      BY <2>1, <3>1, LessToDo
  <2> HIDE DEF r, list, n
  <2>6. \A f \in Files : Distinct(workers'[f].list)
    BY <1>1, <2>2, <2>5 DEF Apart
  <2>7. ASSUME reaps, NEW f \in Writers, NEW g \in Writers
        PROVE  Parted(f, g, workers'[f].list, workers'[g].list, files'[f], files'[g])
    <3>1. \A x, y \in Writers : Parted(x, y, workers[x].list, workers[y].list, files[x], files[y])
      BY <1>1, <2>7, ApartIs
    <3>2. \A x \in Writers : Range(workers'[x].list) \subseteq Range(workers[x].list)
      BY <1>1, <2>2, <2>5 DEF list
    <3>3. f # g => Range(workers'[f].list) \cap Range(workers'[g].list) = {}
      BY <3>1, <3>2 DEF Parted
    <3>4. Range(workers'[f].list) \cap Good(files'[g]) = {}
      <4>1. Range(workers[f].list) \cap Good(files[g]) = {}
        BY <3>1 DEF Parted
      <4>2. CASE g # h
        BY <1>1, <2>3, <3>2, <4>1, <4>2
      <4>3. CASE g = h /\ f = h
        BY <1>1, <2>2, <2>4, <2>5, <3>2, <4>1, <4>3
      <4>4. CASE g = h /\ f # h
        <5>1. Range(workers[f].list) \cap Range(workers[g].list) = {}
          BY <3>1, <4>4 DEF Parted
        <5>2. r.p \notin Range(workers[f].list)
          BY <2>5, <4>4, <5>1 DEF list
        <5> QED
          BY <2>4, <3>2, <4>1, <4>4, <5>2
      <4> QED
        BY <4>2, <4>3, <4>4
    <3>5. ASSUME NEW x \in Writers, NEW j \in DOMAIN files[x], files[x][j].ok, h \in Writers PROVE files[x][j].p # r.p
      <4>1. files[x][j].p \in Good(files[x])
        BY <3>5 DEF Good
      <4>2. Range(workers[h].list) \cap Good(files[x]) = {}
        BY <3>1, <3>5 DEF Parted
      <4> QED
        BY <2>5, <4>1, <4>2 DEF list
    <3>6. ASSUME NEW k \in DOMAIN files'[f], NEW j \in DOMAIN files'[g],
                 files'[f][k].ok, files'[g][j].ok, files'[f][k].p = files'[g][j].p
          PROVE  f = g /\ k = j
      <4>1. \/ f = h /\ k = n /\ files'[f][k] = r
            \/ k \in DOMAIN files[f] /\ files'[f][k] = files[f][k]
        BY <1>1, <2>3, <2>4
      <4>2. \/ g = h /\ j = n /\ files'[g][j] = r
            \/ j \in DOMAIN files[g] /\ files'[g][j] = files[g][j]
        BY <1>1, <2>3, <2>4
      <4>3. CASE k \in DOMAIN files[f] /\ files'[f][k] = files[f][k] /\ j \in DOMAIN files[g] /\ files'[g][j] = files[g][j]
        BY <3>1, <3>6, <4>3 DEF Parted
      <4>4. CASE f = h /\ k = n /\ files'[f][k] = r /\ j \in DOMAIN files[g] /\ files'[g][j] = files[g][j]
        BY <3>5, <3>6, <4>4
      <4>5. CASE g = h /\ j = n /\ files'[g][j] = r /\ k \in DOMAIN files[f] /\ files'[f][k] = files[f][k]
        BY <3>5, <3>6, <4>5
      <4> QED
        BY <4>1, <4>2, <4>3, <4>4, <4>5
    <3> QED
      BY <3>3, <3>4, <3>6 DEF Parted
  <2>8. /\ \A f \in Files : Distinct(workers'[f].list)
        /\ reaps' => \A f, g \in Writers' :
                       Parted(f, g, workers'[f].list, workers'[g].list, files'[f], files'[g])
    BY <1>1, <2>6, <2>7
  <2> QED
    BY <2>8 DEF Apart, Parted
<1>9. CASE BatchOver \/ WakeUp \/ CorpusComplete
  BY <1>2, <1>9 DEF BatchOver, WakeUp, CorpusComplete
<1> QED
  BY <1>1, <1>2, <1>3, <1>4, <1>5, <1>6, <1>7, <1>8, <1>9, StepIs

LEMMA OneVoiceHolds ==
  ASSUME PassInv, Next
  PROVE  OneVoice'
<1>1. /\ Typed /\ LlmPassTypeOK /\ SaidByIt(cache) /\ OneVoice /\ files \in [Files -> Seq(Row)]
      /\ Out \in Files /\ Writers \subseteq Files
  BY FilesAre DEF PassInv, Typed, OneVoice, LlmPassTypeOK, Files
<1>2. SaidByIt(cache')
  BY <1>1, AroundTyped
<1>3. ByTheModel(<<>>)
  BY DEF ByTheModel
<1>4. ASSUME NEW f \in Files PROVE ByTheModel(files'[f])
  <2>1. CASE UNCHANGED files
    BY <1>1, <2>1 DEF OneVoice
  <2>2. CASE \E rows \in {<<>>, sup.rows} : files' = [files EXCEPT ![Out] = rows]
    BY <1>1, <1>3, <2>2 DEF OneVoice
  <2>3. ASSUME NEW g \in Writers, workers[g].row \in Row, files' = [files EXCEPT ![g] = Append(files[g], workers[g].row)]
        PROVE  ByTheModel(files'[f])
    <3> DEFINE r == workers[g].row
    <3>1. files[g] \in Seq(Row) /\ ByTheModel(files[g]) /\ ByTheModel(files[f]) /\ (r.ok => r.by = Head(BatchChain))
      BY <1>1 DEF OneVoice
    <3>2. ByTheModel(Append(files[g], r))
      <4>1. /\ DOMAIN Append(files[g], r) = DOMAIN files[g] \cup {Len(files[g]) + 1}
            /\ Append(files[g], r)[Len(files[g]) + 1] = r
            /\ \A k \in DOMAIN files[g] : Append(files[g], r)[k] = files[g][k]
        BY <2>3, <3>1, RowMore
      <4> QED
        BY <3>1, <4>1 DEF ByTheModel
    <3> QED
      BY <1>1, <2>3, <3>1, <3>2
  <2> QED
    BY <2>1, <2>2, <2>3, FileSteps
<1>5. ASSUME NEW f \in Files PROVE workers'[f].row.ok => workers'[f].row.by = Head(BatchChain)
  <2>1. NoRow.ok = FALSE /\ Idle.row = NoRow
    BY DEF NoRow, Idle
  <2>2. \A x : Begins(x).row = NoRow
    BY DEF Begins
  <2>3. \A r : Drafts(f, r) => (r.ok => r.by = Head(BatchChain))
    BY DEF Drafts
  <2>4. workers[f].row.ok => workers[f].row.by = Head(BatchChain)
    BY <1>1 DEF OneVoice
  <2>5. \/ workers'[f] = workers[f] \/ workers'[f].row = NoRow
        \/ \E r : Drafts(f, r) /\ workers'[f].row = r
    BY <2>1, <2>2, WorkerSteps
  <2> QED
    BY <2>1, <2>3, <2>4, <2>5
<1>6. ByTheModel(sup'.rows)
  <2>1. ByTheModel(Merged) /\ ByTheModel(sup.rows)
    BY <1>1, MergedIs DEF OneVoice
  <2>2. CASE Start \/ Kill \/ BatchOver \/ WakeUp \/ CorpusComplete \/ FoldOpen \/ FoldWrite \/ \E started \in SUBSET Writers : Starts(started)
    <3>1. sup'.rows \in {sup.rows, Merged, <<>>}
      BY <1>1, <2>2, SupSteps
    <3> QED
      BY <1>3, <2>1, <3>1
  <2>3. ASSUME NEW f \in Files, NEW code, Ends(f, code) PROVE sup'.rows = sup.rows
    BY <1>1, <2>3, SupSteps
  <2>4. ASSUME NEW f \in Files, WriteRow(f) \/ \E r : Drafts(f, r) PROVE UNCHANGED sup
    BY <2>4 DEF WriteRow, Drafts
  <2> QED
    BY <1>1, <2>1, <2>2, <2>3, <2>4, StepIs
<1> QED
  BY <1>2, <1>4, <1>5, <1>6 DEF OneVoice

LEMMA InitPass == Init => PassInv
<1> SUFFICES ASSUME Init PROVE PassInv
  OBVIOUS
<1>1. Typed
  BY InitTyped
<1>2. /\ sup.at = "off" /\ sup.stuck = FALSE /\ sup.rows = <<>> /\ sup.next = "loop"
      /\ \A f \in Files : files[f] = <<>> /\ workers[f] = Idle
      /\ cache = {}
  BY DEF Init, Off
<1>3. DOMAIN <<>> = {} /\ Out \in Files /\ Writers \subseteq Files
  BY <1>1, FilesAre DEF Typed, Files
<1>4. InPlace
  BY <1>2 DEF InPlace
<1>5. Backed
  <2>1. ProgramsIn(files[Out]) = {} /\ Once(files[Out])
    BY <1>2, <1>3 DEF ProgramsIn, Once
  <2> QED
    BY <1>2, <2>1 DEF Backed
<1>6. Whole /\ Quiet /\ Unstuck
  BY <1>2 DEF Whole, Quiet, Unstuck
<1>7. Apart
  <2>1. \A f \in Files : Distinct(workers[f].list)
    BY <1>2, NothingToDo
  <2>2. \A f, g \in Writers : Parted(f, g, workers[f].list, workers[g].list, files[f], files[g])
    <3>1. \A f \in Writers : files[f] = <<>> /\ Range(workers[f].list) = {}
      BY <1>2, <1>3, NothingToDo
    <3> QED
      BY <1>3, <3>1 DEF Parted
  <2> QED
    BY <2>1, <2>2, ApartIs
<1>8. OneVoice
  <2>1. ByTheModel(<<>>) /\ SaidByIt({})
    BY <1>3 DEF ByTheModel, SaidByIt
  <2>2. Idle.row.ok = FALSE
    BY DEF Idle, NoRow
  <2> QED
    BY <1>2, <2>1, <2>2 DEF OneVoice
<1> QED
  BY <1>1, <1>4, <1>5, <1>6, <1>7, <1>8 DEF PassInv

LEMMA PassStep == PassInv /\ [Next]_vars => PassInv'
<1> SUFFICES ASSUME PassInv, [Next]_vars PROVE PassInv'
  OBVIOUS
<1>1. CASE Next
  <2>1. Typed'
    BY <1>1, TypedHolds DEF PassInv, OneVoice
  <2> QED
    BY <1>1, <2>1, InPlaceHolds, BackedHolds, WholeHolds, QuietHolds, UnstuckHolds, ApartHolds, OneVoiceHolds DEF PassInv
<1>2. CASE UNCHANGED vars
  <2>1. /\ reaps' = reaps /\ nkeys' = nkeys /\ allow' = allow /\ cache' = cache /\ files' = files
        /\ workers' = workers /\ sup' = sup /\ used' = used
    BY <1>2 DEF vars
  <2>2. Writers' = Writers /\ Sharded' = Sharded /\ Answered' = Answered
    BY <2>1 DEF Writers, Sharded, Answered, Listed, Combined
  <2>3. Typed'
    BY <2>1 DEF PassInv, Typed, LlmPassTypeOK, SupTyped
  <2>4. InPlace' /\ Backed' /\ Whole'
    BY <2>1, <2>2 DEF PassInv, InPlace, Backed, Whole
  <2>5. Quiet' /\ Unstuck'
    BY <2>1, <2>2 DEF PassInv, Quiet, Unstuck
  <2>6. Apart' /\ OneVoice'
    BY <2>1, <2>2 DEF PassInv, Apart, OneVoice
  <2> QED
    BY <2>3, <2>4, <2>5, <2>6 DEF PassInv
<1> QED
  BY <1>1, <1>2

-----------------------------------------------------------------------------
(* What follows. *)

\* Of what is all the same there is at most one.
LEMMA AtMostOne ==
  ASSUME NEW S, \A a, b \in S : a = b
  PROVE  Cardinality(S) \in {0, 1} /\ (S = {} => Cardinality(S) = 0)
<1>1. CASE S = {}
  BY <1>1, FS_EmptySet
<1>2. CASE S # {}
  <2>1. PICK a \in S : S = {a}
    BY <1>2
  <2> QED
    BY <1>2, <2>1, FS_Singleton
<1> QED
  BY <1>1, <1>2

LEMMA NobodyRepeats == PassInv => NothingRepeated
<1> SUFFICES ASSUME PassInv, reaps, NEW p \in Range(Programs)
             PROVE  IF nkeys = 1 THEN Times(p, Out) <= 1
                    ELSE \A f, g \in Listed : Times(p, f) + (IF f = g THEN 0 ELSE Times(p, g)) <= 1
  BY DEF NothingRepeated
<1> DEFINE Of(f) == {k \in DOMAIN files[f] : files[f][k].p = p /\ files[f][k].ok}
<1>1. \A f, g \in Writers : \A k \in Of(f), j \in Of(g) : f = g /\ k = j
  BY DEF PassInv, Apart
<1>2. \A f : Times(p, f) = Cardinality(Of(f))
  BY DEF Times
<1> HIDE DEF Of
<1>3. ASSUME NEW f \in Writers PROVE Times(p, f) \in {0, 1} /\ (Of(f) = {} => Times(p, f) = 0)
  <2>1. \A k, j \in Of(f) : k = j
    BY <1>1
  <2> QED
    BY <1>2, <2>1, AtMostOne
<1>4. ASSUME NEW f \in Writers, NEW g \in Writers, f # g PROVE Times(p, f) = 0 \/ Times(p, g) = 0
  <2>1. Of(f) = {} \/ Of(g) = {}
    BY <1>1, <1>4
  <2> QED
    BY <1>3, <2>1
<1>5. CASE nkeys = 1
  <2>1. Times(p, Out) \in {0, 1}
    BY <1>3, <1>5 DEF Writers
  <2> QED
    BY <1>5, <2>1
<1>6. ASSUME nkeys # 1, NEW f \in Listed, NEW g \in Listed
      PROVE  Times(p, f) + (IF f = g THEN 0 ELSE Times(p, g)) <= 1
  <2>1. f \in Writers /\ g \in Writers
    BY <1>6 DEF Writers
  <2>2. Times(p, f) \in {0, 1} /\ Times(p, g) \in {0, 1} /\ (f # g => Times(p, f) = 0 \/ Times(p, g) = 0)
    BY <1>3, <1>4, <2>1
  <2> QED
    BY <2>2
<1> QED
  BY <1>5, <1>6

\* A list that has each program once is as long as it has programs.
LEMMA OnceEach ==
  ASSUME NEW T, NEW rows \in Seq(T), Once(rows)
  PROVE  Len(rows) = Cardinality(ProgramsIn(rows))
<1> DEFINE n == Len(rows)
           f == [k \in 1 .. n |-> rows[k].p]
<1>1. n \in Nat /\ DOMAIN rows = 1 .. n
  OBVIOUS
<1>2. f \in Surjection(1 .. n, ProgramsIn(rows)) /\ f \in Injection(1 .. n, ProgramsIn(rows))
  <2>1. \A k \in 1 .. n : f[k] \in ProgramsIn(rows)
    BY <1>1 DEF ProgramsIn
  <2>2. \A i, j \in 1 .. n : f[i] = f[j] => i = j
    BY <1>1 DEF Once
  <2>3. \A p \in ProgramsIn(rows) : \E k \in 1 .. n : f[k] = p
    BY <1>1 DEF ProgramsIn
  <2> QED
    BY <2>1, <2>2, <2>3 DEF Surjection, Injection, IsInjective
<1>3. IsFiniteSet(1 .. n) /\ Cardinality(1 .. n) = n
  BY <1>1, FS_Interval
<1> HIDE DEF f
<1> QED
  BY <1>2, <1>3, FS_Surjection

LEMMA DoneIsWhole == PassInv => CompleteMeansFolded
<1> SUFFICES ASSUME PassInv, sup.at = "done"
             PROVE  /\ ProgramsIn(files[Out]) = Range(Programs)
                    /\ nkeys >= 2 => Len(files[Out]) = Len(Programs)
                    /\ reaps => ~sup.stuck
  BY DEF CompleteMeansFolded
<1>1. ProgramsIn(files[Out]) = Range(Programs)
  BY DEF PassInv, Whole
<1>2. ASSUME nkeys >= 2 PROVE Len(files[Out]) = Len(Programs)
  <2>1. files[Out] \in Seq(Row) /\ Once(files[Out])
    BY <1>2 DEF PassInv, Typed, LlmPassTypeOK, Files, Backed
  <2>2. Len(files[Out]) = Cardinality(Range(Programs))
    BY <1>1, <2>1, OnceEach
  <2> QED
    BY <2>2, CorpusIs
<1>3. reaps => ~sup.stuck
  BY DEF PassInv, Unstuck
<1> QED
  BY <1>1, <1>2, <1>3

-----------------------------------------------------------------------------
\* The strengthened invariant holds in every state of the pass: what the combined file has the
\* shards have, and nobody is at work whom a supervisor that stops others does not know of.
THEOREM PassHolds == Spec => []PassInv
<1>1. Init => PassInv
  BY InitPass
<1>2. PassInv /\ [Next]_vars => PassInv'
  BY PassStep
<1> QED
  BY <1>1, <1>2, PTL DEF Spec

\* The corpus can be reported (CorpusIsTrue, llm_pass.py:9): for every corpus, every number of
\* keys and any kills, no two rows were worked out for one program where stray batches are
\* stopped, a pass that is done left every program once in the combined file, and every good
\* row was said by the model the pass is of.
THEOREM CorpusTrue == Spec => []CorpusIsTrue
<1>1. PassInv => CorpusIsTrue
  <2>1. PassInv => LlmPassTypeOK
    BY DEF PassInv, Typed
  <2>2. PassInv => OneModel
    BY DEF PassInv, OneVoice, ByTheModel, OneModel
  <2> QED
    BY <2>1, <2>2, NobodyRepeats, DoneIsWhole DEF CorpusIsTrue
<1> QED
  BY <1>1, PassHolds, PTL

\* A program once answered stays answered (NothingLost, llm_pass.py:9), over any kill, also
\* one between the emptying of the combined file and the writing of it (combine_shards).
THEOREM NoAnswerLost == Spec => NothingLost
<1>1. PassInv /\ [Next]_vars => [Answered \subseteq Answered']_vars
  <2> SUFFICES ASSUME PassInv, Next PROVE Answered \subseteq Answered'
    OBVIOUS
  <2> QED
    BY ShardsGrow
<1> QED
  BY <1>1, PassHolds, PTL DEF Spec, NothingLost

=============================================================================
