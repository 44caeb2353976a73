--------------------------- MODULE FineTuneProofs ---------------------------
(***************************************************************************)
(* Proofs about FineTune, for any number of ranks and any data set: the    *)
(* barrier behind the map of rank 0 and before that of the others makes    *)
(* one cache, complete before anybody else reads it.                       *)
(***************************************************************************)
EXTENDS FineTune, FiniteSetTheorems, SequenceTheorems, TLAPS

\* Tokenised examples of this data set.
Data == {Tokenized(raw[i]) : i \in DOMAIN raw}

\* The cache is a beginning of the tokenised data, and all of it once in place.
CacheIsPrefix ==
    /\ cache \in Seq(Data) /\ Len(cache) <= Len(raw)
    /\ \A i \in 1 .. Len(cache) : cache[i] = Tokenized(raw[i])
    /\ cache_complete => Len(cache) = Len(raw)

\* Behind its map a rank has the cache; the others pass the barrier behind that
\* of rank 0.
Behind(r) == pc[r] \in {"show", "train", "done"} \/ (r = 0 /\ pc[r] = "barrier")

BarrierOrders ==
    /\ \A r \in Ranks \ {0} : pc[r] = "map" => cache_complete
    /\ \A r \in Ranks : Behind(r) => cache_complete /\ train_dataset[r] = cache

IInv ==
    /\ raw \in Seq(Examples)
    /\ pc \in [Ranks -> {"map", "barrier", "show", "train", "done", "failed"}]
    /\ train_dataset \in [Ranks -> Seq(Data)]
    /\ writers \subseteq {0}
    /\ CacheIsPrefix
    /\ BarrierOrders

LEMMA InitIInv == Init => IInv
<1> SUFFICES ASSUME Init PROVE IInv
  OBVIOUS
<1>1. raw \in Seq(Examples)
  BY TuneAssumption DEF Init
<1>2. cache \in Seq(Data) /\ Len(cache) = 0
  BY DEF Init
<1>3. train_dataset \in [Ranks -> Seq(Data)]
  BY DEF Init
<1>4. Len(raw) \in Nat
  BY <1>1
<1>5. CacheIsPrefix
  BY <1>2, <1>4 DEF Init, CacheIsPrefix
<1>6. BarrierOrders
  <2>1. 0 \in Ranks
    BY TuneAssumption DEF Ranks
  <2>. QED  BY <2>1 DEF Init, BarrierOrders, Behind
<1>. QED  BY <1>1, <1>3, <1>5, <1>6 DEF Init, IInv

(* Appending the next tokenised example keeps the cache a prefix. *)
LEMMA MapKeepsPrefix ==
    ASSUME IInv, NEW r \in Ranks, MapExample(r)
    PROVE  CacheIsPrefix'
<1>1. /\ raw \in Seq(Examples) /\ cache \in Seq(Data) /\ Len(cache) <= Len(raw)
      /\ \A i \in 1 .. Len(cache) : cache[i] = Tokenized(raw[i])
  BY DEF IInv, CacheIsPrefix
<1>2. raw' = raw /\ Len(cache) < Len(raw) /\ cache_complete = FALSE /\ cache_complete' = FALSE
  BY DEF MapExample, IInv
<1>3. Data' = Data
  BY <1>2 DEF Data
<1> DEFINE next == Tokenized(raw[Len(cache) + 1])
<1>4. next \in Data /\ cache' = Append(cache, next)
  BY <1>1, <1>2 DEF Data, MapExample
<1> HIDE DEF next
<1>5. cache' \in Seq(Data) /\ Len(cache') = Len(cache) + 1
  BY <1>1, <1>4
<1>6. \A i \in 1 .. Len(cache') : cache'[i] = Tokenized(raw[i])
  <2> SUFFICES ASSUME NEW i \in 1 .. Len(cache')
               PROVE  cache'[i] = Tokenized(raw[i])
    OBVIOUS
  <2>1. CASE i <= Len(cache)
    BY <1>1, <1>4, <1>5, <2>1
  <2>2. CASE i = Len(cache) + 1
    BY <1>1, <1>4, <2>2 DEF next
  <2>. QED  BY <1>1, <1>5, <2>1, <2>2
<1>7. Len(cache') <= Len(raw)
  BY <1>1, <1>2, <1>5
<1>. QED  BY <1>2, <1>3, <1>5, <1>6, <1>7 DEF CacheIsPrefix

LEMMA NextIInv == IInv /\ [Next]_vars => IInv'
<1> SUFFICES ASSUME IInv, [Next]_vars PROVE IInv'
  OBVIOUS
<1> USE DEF IInv
<1>1. ASSUME NEW r \in Ranks, MapExample(r)
      PROVE  IInv'
  <2>1. ~cache_complete /\ pc[r] = "map" /\ UNCHANGED <<raw, pc, cache_complete, train_dataset>>
    BY <1>1 DEF MapExample
  <2>2. r = 0
    BY <2>1 DEF BarrierOrders
  <2>3. writers' \subseteq {0}
    BY <1>1, <2>2 DEF MapExample
  <2>4. \A q \in Ranks : ~Behind(q)
    BY <2>1 DEF BarrierOrders
  <2>5. BarrierOrders'
    BY <2>1, <2>4 DEF BarrierOrders, Behind
  <2>6. CacheIsPrefix'
    BY <1>1, MapKeepsPrefix
  <2>. QED  BY <2>1, <2>3, <2>5, <2>6 DEF Data
<1>2. ASSUME NEW r \in Ranks, MapEnds(r)
      PROVE  IInv'
  <2>1. /\ pc[r] = "map" /\ Len(cache) = Len(raw) /\ cache_complete'
        /\ train_dataset' = [train_dataset EXCEPT ![r] = cache]
        /\ pc' = [pc EXCEPT ![r] = IF r = 0 THEN "barrier" ELSE "train"]
        /\ UNCHANGED <<raw, cache, writers>>
    BY <1>2 DEF MapEnds, Goto, AfterMap
  <2>2. CacheIsPrefix'
    BY <2>1 DEF CacheIsPrefix, Data
  <2>3. train_dataset' \in [Ranks -> Seq(Data)]
    BY <2>1 DEF CacheIsPrefix
  <2>4. BarrierOrders'
    BY <2>1 DEF BarrierOrders, Behind
  <2>. QED  BY <2>1, <2>2, <2>3, <2>4 DEF Data
<1>3. CASE Barrier
  <2>1. /\ \A r \in Ranks : pc[r] = "barrier"
        /\ pc' = [r \in Ranks |-> IF r = 0 THEN "show" ELSE "map"]
        /\ UNCHANGED <<raw, cache, cache_complete, writers, train_dataset>>
    BY <1>3 DEF Barrier
  <2>2. 0 \in Ranks
    BY TuneAssumption DEF Ranks
  <2>3. cache_complete /\ train_dataset[0] = cache
    BY <2>1, <2>2 DEF BarrierOrders, Behind
  <2>4. BarrierOrders'
    BY <2>1, <2>3 DEF BarrierOrders, Behind
  <2>. QED  BY <2>1, <2>4 DEF CacheIsPrefix, Data
<1>4. CASE Show
  <2>1. /\ pc[0] = "show"
        /\ pc' = [pc EXCEPT ![0] = "train"] \/ pc' = [pc EXCEPT ![0] = "failed"]
        /\ UNCHANGED <<raw, cache, cache_complete, writers, train_dataset>>
    BY <1>4 DEF Show, Goto
  <2>2. BarrierOrders'
    BY <2>1 DEF BarrierOrders, Behind
  <2>. QED  BY <2>1, <2>2 DEF CacheIsPrefix, Data
<1>5. CASE Train
  <2>1. /\ \A r \in Ranks : pc[r] = "train"
        /\ pc' = [r \in Ranks |-> "done"]
        /\ UNCHANGED <<raw, cache, cache_complete, writers, train_dataset>>
    BY <1>5 DEF Train
  <2>2. BarrierOrders'
    BY <2>1 DEF BarrierOrders, Behind
  <2>. QED  BY <2>1, <2>2 DEF CacheIsPrefix, Data
<1>6. ASSUME NEW r \in Ranks, Fail(r)
      PROVE  IInv'
  <2>1. /\ pc' = [pc EXCEPT ![r] = "failed"]
        /\ UNCHANGED <<raw, cache, cache_complete, writers, train_dataset>>
    BY <1>6 DEF Fail, Goto
  <2>2. BarrierOrders'
    BY <2>1 DEF BarrierOrders, Behind
  <2>. QED  BY <2>1, <2>2 DEF CacheIsPrefix, Data
<1>7. CASE LauncherKills
  <2>1. /\ pc' = [r \in Ranks |-> "failed"]
        /\ UNCHANGED <<raw, cache, cache_complete, writers, train_dataset>>
    BY <1>7 DEF LauncherKills
  <2>2. BarrierOrders'
    BY <2>1 DEF BarrierOrders, Behind
  <2>. QED  BY <2>1, <2>2 DEF CacheIsPrefix, Data
<1>8. CASE UNCHANGED vars
  <2>1. UNCHANGED <<raw, pc, cache, cache_complete, writers, train_dataset>>
    BY <1>8 DEF vars
  <2>. QED  BY <2>1 DEF CacheIsPrefix, BarrierOrders, Behind, Data
<1>. QED
  BY <1>1, <1>2, <1>3, <1>4, <1>5, <1>6, <1>7, <1>8 DEF Next, Rank, Over

(* The cache is rank 0's alone, and every rank that trains has the whole of the data. *)
THEOREM RanksShareCache == Spec => []OneCache
<1>1. IInv => OneCache
  <2> SUFFICES ASSUME IInv, NEW r \in Ranks, pc[r] \in {"train", "done"}
               PROVE  train_dataset[r] = [i \in DOMAIN raw |-> Tokenized(raw[i])]
    BY DEF OneCache, IInv
  <2>1. /\ raw \in Seq(Examples) /\ cache \in Seq(Data) /\ Len(cache) = Len(raw)
        /\ \A i \in 1 .. Len(cache) : cache[i] = Tokenized(raw[i])
        /\ train_dataset[r] = cache
    BY DEF IInv, CacheIsPrefix, BarrierOrders, Behind
  <2>2. DOMAIN raw = 1 .. Len(cache) /\ cache = [i \in 1 .. Len(cache) |-> cache[i]]
    BY <2>1
  <2>. QED  BY <2>1, <2>2
<1>. QED  BY <1>1, InitIInv, NextIInv, PTL DEF Spec

-----------------------------------------------------------------------------
(* The width of a batch *)

(* A nonempty set of numbers has a least one: the intervals from 0 to its members are
   well-founded by inclusion. *)
LEMMA LeastNumber ==
    ASSUME NEW T \in SUBSET Nat, T # {}
    PROVE  \E m \in T : \A n \in T : m <= n
<1> DEFINE Below == {0 .. n : n \in T}
<1>1. Below \subseteq FiniteSubsetsOf(Nat) /\ Below # {}
  <2>1. ASSUME NEW n \in T PROVE 0 .. n \in FiniteSubsetsOf(Nat)
    <3>1. IsFiniteSet(0 .. n) /\ 0 .. n \subseteq Nat
      BY FS_Interval
    <3>. QED  BY <3>1 DEF FiniteSubsetsOf
  <2>. QED  BY <2>1
<1>2. IsWellFoundedOn(StrictSubsetOrdering(Nat), FiniteSubsetsOf(Nat))
  BY FS_StrictSubsetOrderingWellFounded
<1>3. PICK B \in Below : \A C \in Below : <<C, B>> \notin StrictSubsetOrdering(Nat)
  <2> HIDE DEF Below
  <2>. QED  BY <1>1, <1>2, WFMin
<1>4. PICK m \in T : B = 0 .. m
  OBVIOUS
<1>5. ASSUME NEW n \in T, n < m PROVE FALSE
  <2>1. 0 .. n \in Below /\ 0 .. n \subseteq 0 .. m /\ m \in 0 .. m /\ m \notin 0 .. n
    BY <1>5
  <2>2. <<0 .. n, 0 .. m>> \in StrictSubsetOrdering(Nat)
    BY <2>1 DEF StrictSubsetOrdering
  <2>. QED  BY <1>3, <1>4, <2>1, <2>2
<1>. QED  BY <1>5

LEMMA MaxOfBounded ==
    ASSUME NEW S \in SUBSET Nat, S # {}, NEW b \in Nat, \A x \in S : x <= b
    PROVE  Max(S) \in S /\ \A x \in S : x <= Max(S)
<1> DEFINE T == {b - x : x \in S}
<1>1. T \in SUBSET Nat /\ T # {}
  <2>1. \A x \in S : b - x \in Nat
    OBVIOUS
  <2>. QED  BY <2>1
<1>2. PICK m \in T : \A n \in T : m <= n
  <2> HIDE DEF T
  <2>. QED  BY <1>1, LeastNumber
<1>3. PICK x \in S : m = b - x
  OBVIOUS
<1>4. \A y \in S : x >= y
  BY <1>2, <1>3
<1>. QED  BY <1>4 DEF Max

LEMMA MinOfTwo ==
    ASSUME NEW a \in Nat, NEW b \in Nat
    PROVE  Min({a, b}) = IF a <= b THEN a ELSE b
<1>1. \E x \in {a, b} : \A y \in {a, b} : x <= y
  OBVIOUS
<1>. QED  BY <1>1 DEF Min

-----------------------------------------------------------------------------
(* Tokens of an example *)

Tokens == {"s", "pad", "m", "t", "EOT"}
Answer == {"t", "EOT", "pad"}

LEMMA TruncateShape ==
    ASSUME NEW S, NEW tokens \in Seq(S)
    PROVE  /\ Truncate(tokens) \in Seq(S)
           /\ Len(Truncate(tokens)) = IF Len(tokens) <= ModelMaxLength THEN Len(tokens) ELSE ModelMaxLength
           /\ \A p \in 1 .. Len(Truncate(tokens)) : Truncate(tokens)[p] = tokens[p]
<1>1. Len(tokens) \in Nat /\ ModelMaxLength \in Nat
  BY TuneAssumption
<1>2. Min({Len(tokens), ModelMaxLength}) = IF Len(tokens) <= ModelMaxLength THEN Len(tokens) ELSE ModelMaxLength
  BY <1>1, MinOfTwo
<1> DEFINE n == Min({Len(tokens), ModelMaxLength})
<1>3. n \in Nat /\ n <= Len(tokens) /\ Truncate(tokens) = SubSeq(tokens, 1, n)
  BY <1>1, <1>2 DEF Truncate
<1> HIDE DEF n
<1>4. \A p \in 1 .. n : tokens[p] \in S
  BY <1>1, <1>3, ElementOfSeq
<1>5. /\ SubSeq(tokens, 1, n) \in Seq(S) /\ Len(SubSeq(tokens, 1, n)) = n
      /\ \A p \in 1 .. n : SubSeq(tokens, 1, n)[p] = tokens[p]
  BY <1>3, <1>4, SubSeqProperties
<1>. QED  BY <1>2, <1>3, <1>5 DEF n

(* In a prompt followed by an answer, the answer is behind the prompt. *)
LEMMA AnswerBehind ==
    ASSUME NEW prompt \in Seq(Tokens), NEW answer \in Seq(Answer), NEW P, NEW T,
           \A i \in 1 .. Len(prompt) : prompt[i] \in P,
           \A i \in 1 .. Len(answer) : answer[i] \in T
    PROVE  /\ prompt \o answer \in Seq(Tokens)
           /\ Len(prompt \o answer) = Len(prompt) + Len(answer)
           /\ \A p \in 1 .. Len(prompt \o answer) :
                IF p > Len(prompt) THEN (prompt \o answer)[p] \in T ELSE (prompt \o answer)[p] \in P
<1> DEFINE whole == prompt \o answer
<1>1. Len(prompt) \in Nat /\ Len(answer) \in Nat /\ answer \in Seq(Tokens)
  BY SeqMonotonic DEF Tokens, Answer
<1>2. /\ whole \in Seq(Tokens) /\ Len(whole) = Len(prompt) + Len(answer)
      /\ \A p \in 1 .. Len(prompt) + Len(answer) :
           whole[p] = IF p <= Len(prompt) THEN prompt[p] ELSE answer[p - Len(prompt)]
  BY <1>1, ConcatProperties
<1> HIDE DEF whole
<1>3. ASSUME NEW p \in 1 .. Len(whole) PROVE IF p > Len(prompt) THEN whole[p] \in T ELSE whole[p] \in P
  <2>1. CASE p <= Len(prompt)
    BY <1>1, <1>2, <2>1
  <2>2. CASE ~(p <= Len(prompt))
    <3>1. p - Len(prompt) \in 1 .. Len(answer)
      BY <1>1, <1>2, <2>2
    <3>. QED  BY <1>1, <1>2, <2>2, <3>1
  <2>. QED  BY <2>1, <2>2
<1>. QED  BY <1>2, <1>3 DEF whole

(* The answer's tokens are those behind as many as the prompt has, merged or not, and
   each of them is one of the answer's. *)
LEMMA AnswerFollows ==
    ASSUME NEW e \in Examples
    PROVE  /\ InputIds(e) \in Seq(Tokens) /\ Len(InputIds(e)) \in 1 .. ModelMaxLength
           /\ \A p \in 1 .. Len(InputIds(e)) :
                IF p > Len(e.source) THEN InputIds(e)[p] \in Range(e.target)
                ELSE InputIds(e)[p] \in Range(e.source) \union {"m"}
<1> DEFINE source == e.source
           target == e.target
           n == Len(source)
           P == Range(source) \union {"m"}
           T == Range(target)
           whole == IF e.merges THEN Front(source) \o <<"m">> \o Tail(target) ELSE source \o target
<1>1. /\ source \in Seq({"s", "pad"}) /\ source # <<>> /\ n \in Nat \ {0}
      /\ target \in Seq(Answer) /\ target # <<>> /\ Len(target) \in Nat \ {0}
  BY TuneAssumption DEF Examples, Answer
<1>2. source \in Seq(Tokens) /\ target \in Seq(Tokens)
  BY <1>1, SeqMonotonic DEF Tokens, Answer
<1>3. /\ \A i \in 1 .. n : source[i] \in P
      /\ \A i \in 1 .. Len(target) : target[i] \in T
  BY <1>1 DEF Range
<1>4. InputIds(e) = Truncate(whole)
  BY DEF InputIds
<1> HIDE DEF source, target, n, whole, T
<1>5. /\ whole \in Seq(Tokens) /\ Len(whole) \in Nat \ {0}
      /\ \A p \in 1 .. Len(whole) : IF p > n THEN whole[p] \in T ELSE whole[p] \in P
  <2>1. CASE e.merges
    <3> DEFINE front == Front(source)
               begun == front \o <<"m">>
               rest  == Tail(target)
    <3>1. /\ front \in Seq(Tokens) /\ Len(front) = n - 1
          /\ \A i \in 1 .. n - 1 : front[i] = source[i]
      <4>1. front = SubSeq(source, 1, n - 1) /\ n - 1 \in Nat
        BY <1>1 DEF Front, n
      <4>2. \A i \in 1 .. n - 1 : source[i] \in Tokens
        BY <1>1, <1>2, ElementOfSeq DEF n
      <4> HIDE DEF front
      <4>. QED  BY <1>1, <4>1, <4>2, SubSeqProperties
    <3>2. /\ rest \in Seq(Answer) /\ Len(rest) = Len(target) - 1
          /\ \A i \in 1 .. Len(rest) : rest[i] \in T
      <4>1. /\ rest \in Seq(Answer) /\ Len(rest) = Len(target) - 1
            /\ \A i \in 1 .. Len(rest) : rest[i] = target[i + 1]
        BY <1>1, HeadTailProperties
      <4>2. \A i \in 1 .. Len(rest) : i + 1 \in 1 .. Len(target)
        BY <1>1, <4>1
      <4> HIDE DEF rest
      <4>. QED  BY <1>3, <4>1, <4>2
    <3>3. /\ begun \in Seq(Tokens) /\ Len(begun) = n
          /\ \A i \in 1 .. n : begun[i] \in P
      <4> HIDE DEF front
      <4>1. <<"m">> \in Seq(Tokens) /\ Len(<<"m">>) = 1 /\ <<"m">>[1] = "m"
        BY DEF Tokens
      <4>2. /\ begun \in Seq(Tokens) /\ Len(begun) = n - 1 + 1
            /\ \A i \in 1 .. n - 1 + 1 : begun[i] = IF i <= n - 1 THEN front[i] ELSE <<"m">>[i - (n - 1)]
        BY <3>1, <4>1, ConcatProperties
      <4> HIDE DEF begun
      <4>3. \A i \in 1 .. n : i <= n - 1 \/ i - (n - 1) = 1
        BY <1>1
      <4>4. \A i \in 1 .. n : begun[i] \in {source[i], "m"}
        BY <1>1, <3>1, <4>1, <4>2, <4>3
      <4>5. \A i \in 1 .. n : begun[i] \in P
        BY <1>3, <4>4
      <4>. QED  BY <1>1, <4>2, <4>5
    <3>4. whole = begun \o rest
      BY <2>1 DEF whole
    <3> HIDE DEF front, begun, rest, P
    <3>5. /\ begun \o rest \in Seq(Tokens) /\ Len(begun \o rest) = n + Len(rest)
          /\ \A p \in 1 .. Len(begun \o rest) :
               IF p > n THEN (begun \o rest)[p] \in T ELSE (begun \o rest)[p] \in P
      BY <3>2, <3>3, AnswerBehind
    <3>. QED  BY <1>1, <3>2, <3>4, <3>5
  <2>2. CASE ~e.merges
    <3> HIDE DEF P
    <3>1. whole = source \o target
      BY <2>2 DEF whole
    <3>2. /\ source \o target \in Seq(Tokens) /\ Len(source \o target) = n + Len(target)
          /\ \A p \in 1 .. Len(source \o target) :
               IF p > n THEN (source \o target)[p] \in T ELSE (source \o target)[p] \in P
      BY <1>1, <1>2, <1>3, AnswerBehind DEF n
    <3>. QED  BY <1>1, <3>1, <3>2
  <2>. QED  BY <2>1, <2>2
<1>6. /\ Truncate(whole) \in Seq(Tokens)
      /\ Len(Truncate(whole)) = IF Len(whole) <= ModelMaxLength THEN Len(whole) ELSE ModelMaxLength
      /\ \A p \in 1 .. Len(Truncate(whole)) : Truncate(whole)[p] = whole[p]
  BY <1>5, TruncateShape
<1>7. Len(Truncate(whole)) \in 1 .. ModelMaxLength /\ Len(Truncate(whole)) <= Len(whole)
  BY <1>5, <1>6, TuneAssumption
<1>8. \A p \in 1 .. Len(Truncate(whole)) :
         IF p > n THEN Truncate(whole)[p] \in T ELSE Truncate(whole)[p] \in P
  BY <1>5, <1>6, <1>7
<1>. QED  BY <1>4, <1>6, <1>7, <1>8 DEF n, source, target, T

(* A prompt without the padding token is counted as it is, up to the truncation. *)
LEMMA PromptIsCounted ==
    ASSUME NEW e \in Examples, "pad" \notin Range(e.source)
    PROVE  SourceLen(e) = IF Len(e.source) <= ModelMaxLength THEN Len(e.source) ELSE ModelMaxLength
<1> DEFINE ids == Truncate(e.source)
<1>1. e.source \in Seq({"s", "pad"})
  BY TuneAssumption DEF Examples
<1>2. /\ ids \in Seq({"s", "pad"}) /\ DOMAIN ids = 1 .. Len(ids) /\ Len(ids) \in Nat
      /\ Len(ids) = IF Len(e.source) <= ModelMaxLength THEN Len(e.source) ELSE ModelMaxLength
      /\ \A p \in 1 .. Len(ids) : ids[p] = e.source[p] /\ p \in DOMAIN e.source
  BY <1>1, TruncateShape, TuneAssumption
<1>3. \A p \in 1 .. Len(ids) : ids[p] # "pad"
  BY <1>2 DEF Range
<1>4. {i \in DOMAIN ids : ids[i] # "pad"} = 1 .. Len(ids)
  BY <1>2, <1>3
<1>5. Cardinality(1 .. Len(ids)) = Len(ids)
  BY <1>2, FS_Interval
<1>. QED  BY <1>2, <1>4, <1>5 DEF SourceLen

(* Whatever the lengths, the truncation and the padding: in no batch a token of a prompt
   is learned, nor is one of an answer left out, unless the prompt contains the padding
   token's text; and all of these tokens are attended to but for those of that text in
   an answer. *)
THEOREM AnswersAreLearned == Spec => []OnlyAnswerLearned
<1>1. IInv /\ OneCache => OnlyAnswerLearned
  <2> SUFFICES ASSUME IInv, OneCache, NEW r \in Ranks, pc[r] = "train",
                      NEW i \in DOMAIN Collate(train_dataset[r]), "pad" \notin Range(raw[i].source),
                      NEW p \in DOMAIN Collate(train_dataset[r])[i].labels
               PROVE  LET batch  == Collate(train_dataset[r])
                          token  == batch[i].input_ids[p]
                          answer == p <= Len(InputIds(raw[i])) /\ token \in {"t", "EOT", "pad"}
                      IN  /\ (batch[i].labels[p] # Ignore) <=> answer
                          /\ answer /\ ~batch[i].attention_mask[p] =>
                               token = "pad" /\ "pad" \in Range(raw[i].target)
    BY DEF OnlyAnswerLearned
  <2> DEFINE data  == train_dataset[r]
             width == Max({Len(data[j].input_ids) : j \in DOMAIN data})
             ids   == InputIds(raw[i])
  <2>1. /\ data = [j \in DOMAIN raw |-> Tokenized(raw[j])]
        /\ \A j \in DOMAIN raw : raw[j] \in Examples
    BY DEF OneCache, IInv
  <2>2. DOMAIN Collate(data) = DOMAIN raw /\ i \in DOMAIN raw
    BY <2>1 DEF Collate
  <2>3. \A j \in DOMAIN raw : data[j].input_ids = InputIds(raw[j]) /\ data[j].labels = Labels(raw[j])
    BY <2>1 DEF Tokenized
  <2>4. width \in Nat
    <3> DEFINE S == {Len(data[j].input_ids) : j \in DOMAIN data}
    <3>1. \A j \in DOMAIN raw : Len(data[j].input_ids) \in 1 .. ModelMaxLength
      BY <2>1, <2>3, AnswerFollows
    <3>2. S \in SUBSET Nat /\ S # {} /\ \A x \in S : x <= ModelMaxLength
      <4>1. DOMAIN data = DOMAIN raw
        BY <2>1
      <4> HIDE DEF data
      <4>2. \A j \in DOMAIN data : Len(data[j].input_ids) \in Nat /\ Len(data[j].input_ids) <= ModelMaxLength
        BY <3>1, <4>1, TuneAssumption
      <4>. QED  BY <2>2, <4>1, <4>2
    <3> HIDE DEF S
    <3>3. Max(S) \in S
      BY <3>2, MaxOfBounded, TuneAssumption
    <3>. QED  BY <3>2, <3>3 DEF S
  <2> HIDE DEF width
  <2>5. /\ Collate(data)[i].input_ids = Padded(ids, width, "pad")
        /\ Collate(data)[i].labels = Padded(Labels(raw[i]), width, Ignore)
        /\ Collate(data)[i].attention_mask = [q \in 1 .. width |-> Padded(ids, width, "pad")[q] # "pad"]
    BY <2>1, <2>2, <2>3 DEF Collate, width
  <2>6. p \in 1 .. width
    BY <2>5 DEF Padded
  <2>7. /\ ids \in Seq(Tokens) /\ Len(ids) \in 1 .. ModelMaxLength /\ DOMAIN ids = 1 .. Len(ids)
        /\ \A q \in 1 .. Len(ids) :
             IF q > Len(raw[i].source) THEN ids[q] \in Range(raw[i].target)
             ELSE ids[q] \in Range(raw[i].source) \union {"m"}
    <3>1. raw[i] \in Examples
      BY <2>1, <2>2
    <3>. QED  BY <3>1, AnswerFollows
  <2>8. /\ Len(Labels(raw[i])) = Len(ids)
        /\ \A q \in 1 .. Len(ids) : Labels(raw[i])[q] = IF q <= SourceLen(raw[i]) THEN Ignore ELSE ids[q]
    BY <2>7 DEF Labels
  <2>9. /\ Len(raw[i].source) \in Nat
        /\ SourceLen(raw[i]) = IF Len(raw[i].source) <= ModelMaxLength THEN Len(raw[i].source) ELSE ModelMaxLength
    BY <2>1, <2>2, PromptIsCounted, TuneAssumption DEF Examples
  <2>10. /\ Range(raw[i].target) \subseteq Answer
         /\ \A x \in Range(raw[i].source) \union {"m"} : x \notin Answer
    <3>1. raw[i].source \in Seq({"s", "pad"}) /\ raw[i].target \in Seq(Answer)
      BY <2>1, <2>2, TuneAssumption DEF Examples, Answer
    <3>2. Range(raw[i].source) \subseteq {"s", "pad"} /\ Range(raw[i].target) \subseteq Answer
      BY <3>1 DEF Range
    <3>. QED  BY <3>2 DEF Answer
  <2>11. \A q \in 1 .. Len(ids) : ids[q] \in Answer <=> q > Len(raw[i].source)
    BY <2>7, <2>10
  <2>12. \A q \in 1 .. Len(ids) : (Labels(raw[i])[q] # Ignore) <=> ids[q] \in Answer
    <3> SUFFICES ASSUME NEW q \in 1 .. Len(ids)
                 PROVE  (Labels(raw[i])[q] # Ignore) <=> ids[q] \in Answer
      OBVIOUS
    <3>1. q > Len(raw[i].source) <=> q > SourceLen(raw[i])
      BY <2>7, <2>9, TuneAssumption
    <3>2. ids[q] # Ignore
      BY <2>7, TuneAssumption DEF Tokens
    <3>. QED  BY <2>7, <2>8, <2>9, <2>11, <3>1, <3>2, TuneAssumption
  <2> HIDE DEF ids
  <2>13. CASE p <= Len(ids)
    <3>1. /\ Collate(data)[i].input_ids[p] = ids[p] /\ Collate(data)[i].labels[p] = Labels(raw[i])[p]
          /\ Collate(data)[i].attention_mask[p] = (ids[p] # "pad")
      BY <2>5, <2>6, <2>8, <2>13 DEF Padded
    <3>2. p \in 1 .. Len(ids)
      BY <2>4, <2>6, <2>7, <2>13
    <3>3. (Labels(raw[i])[p] # Ignore) <=> ids[p] \in {"t", "EOT", "pad"}
      BY <2>12, <3>2 DEF Answer
    <3>4. ids[p] = "pad" => "pad" \in Range(raw[i].target)
      BY <2>7, <3>2
    <3>5. (Collate(data)[i].labels[p] # Ignore) <=> Collate(data)[i].input_ids[p] \in {"t", "EOT", "pad"}
      BY <3>1, <3>3
    <3>6. ~Collate(data)[i].attention_mask[p] => Collate(data)[i].input_ids[p] = "pad"
      BY <3>1, Zenon
    <3>7. Collate(data)[i].input_ids[p] = "pad" => "pad" \in Range(raw[i].target)
      BY <3>1, <3>4
    <3>. QED  BY <2>13, <3>5, <3>6, <3>7, Zenon DEF ids
  <2>14. CASE ~(p <= Len(ids))
    <3>1. Collate(data)[i].labels[p] = Ignore
      BY <2>5, <2>6, <2>8, <2>14 DEF Padded
    <3>. QED  BY <2>14, <3>1 DEF ids
  <2>. QED  BY <2>13, <2>14
<1>. QED  BY <1>1, InitIInv, NextIInv, RanksShareCache, PTL DEF Spec
=============================================================================
