--------------------------- MODULE PalMathProofs ---------------------------
(***************************************************************************)
(* Proofs about PalMath, for any number of samples, ranks, workers and     *)
(* runs: whatever a program does to the pool, predictions stay with their  *)
(* samples, and what is graded is every sample once.                       *)
(***************************************************************************)
EXTENDS PalMath, FiniteSetTheorems, SequenceTheorems, TLAPS

\* A prediction is empty, or the answer of the sample's own program.
Own(pred, s) == pred # Empty => pred = s /\ program[s] = "answers"

\* Only programs that answer end with a result.
PoolTells ==
    /\ program \in [Samples -> Programs]
    /\ task \in [Samples -> {"submitted", "ended", "no answer", "expired"}]
    /\ \A s \in Samples : task[s] = "ended" => program[s] = "answers"

\* What a rank has collected is of the beginning of its shard.
CollectedInOrder ==
    /\ world_size \in Nat \ {0}
    /\ DOMAIN all_exec_results = Ranks
    /\ \A r \in Ranks :
         /\ all_exec_results[r] \in Seq(Samples \union {Empty})
         /\ \A i \in DOMAIN all_exec_results[r] : Own(all_exec_results[r][i], Shard(r)[i])

IInv == PoolTells /\ CollectedInOrder /\ PredictionIsOwn

-----------------------------------------------------------------------------
(* Shards *)

LEMMA TimesQuotient ==
    ASSUME NEW x \in Nat, NEW w \in Nat \ {0}, NEW i \in 1 .. (x \div w)
    PROVE  (i - 1) * w <= x - w
<1> DEFINE q == x \div w
<1>1. q \in Nat /\ q * w <= x
  OBVIOUS
<1>2. i \in Nat /\ 1 <= i /\ i <= q
  BY <1>1
<1> HIDE DEF q
<1>3. PICK d \in Nat : q = i + d
  <2>1. q - i \in Nat /\ q = i + (q - i)
    BY <1>1, <1>2
  <2>. QED  BY <2>1
<1>4. q * w = i * w + d * w /\ d * w >= 0 /\ i * w = (i - 1) * w + w
  BY <1>2, <1>3
<1>. QED  BY <1>1, <1>2, <1>4

(* A rank's shard consists of samples. *)
LEMMA ShardOfSamples ==
    ASSUME world_size \in Nat \ {0}, NEW r \in Ranks
    PROVE  /\ Len(Shard(r)) \in Nat
           /\ \A i \in 1 .. Len(Shard(r)) : Shard(r)[i] \in Samples
<1> DEFINE x == NSamples + world_size - 1 - r
           n == x \div world_size
<1>1. x \in Nat /\ r \in Nat /\ r < world_size /\ NSamples \in Nat
  BY PalAssumption DEF Ranks
<1>2. n \in Nat
  BY <1>1
<1>3. Len(Shard(r)) = n /\ \A i \in 1 .. n : Shard(r)[i] = r + (i - 1) * world_size
  BY <1>2 DEF Shard
<1>4. ASSUME NEW i \in 1 .. n PROVE r + (i - 1) * world_size \in Samples
  <2>1. (i - 1) * world_size <= x - world_size
    BY <1>1, TimesQuotient
  <2>2. (i - 1) * world_size \in Nat
    BY <1>2
  <2>. QED  BY <1>1, <2>1, <2>2 DEF Samples
<1>. QED  BY <1>2, <1>3, <1>4

(* While the number of ranks stays, so do the shards. *)
LEMMA ShardsStay ==
    ASSUME world_size' = world_size
    PROVE  Ranks' = Ranks /\ \A r : Shard(r)' = Shard(r)
BY DEF Ranks, Shard

-----------------------------------------------------------------------------
(* The invariant *)

LEMMA IInvInit == Init => IInv
<1> SUFFICES ASSUME Init PROVE IInv
  OBVIOUS
<1>1. PoolTells /\ PredictionIsOwn
  BY DEF Init, PoolTells, PredictionIsOwn
<1>2. CollectedInOrder
  BY PalAssumption DEF Init, CollectedInOrder, Own
<1>. QED  BY <1>1, <1>2 DEF IInv

(* Steps that leave the predictions alone. *)
LEMMA PredictionsStay ==
    ASSUME IInv, UNCHANGED <<inputs, world_size, all_exec_results, files>>
    PROVE  CollectedInOrder' /\ PredictionIsOwn'
<1>1. Ranks' = Ranks /\ (\A r : Shard(r)' = Shard(r)) /\ program' = program
  BY ShardsStay DEF inputs
<1>2. CollectedInOrder'
  BY <1>1 DEF IInv, CollectedInOrder, Own
<1>3. PredictionIsOwn'
  BY <1>1 DEF IInv, PredictionIsOwn
<1>. QED  BY <1>2, <1>3

LEMMA LaunchStep == IInv /\ Launch => IInv'
<1> SUFFICES ASSUME IInv, Launch PROVE IInv'
  OBVIOUS
<1>1. PICK w \in WorldSizes : Fresh(w)
  BY DEF Launch
<1>2. /\ w \in Nat \ {0} /\ world_size' = w
      /\ all_exec_results' = [r \in 0 .. w - 1 |-> <<>>]
      /\ task' = [s \in Samples |-> "submitted"]
      /\ UNCHANGED <<program, files>>
  BY <1>1, PalAssumption DEF Fresh, Launch, inputs
<1>3. PoolTells' /\ PredictionIsOwn'
  BY <1>2 DEF IInv, PoolTells, PredictionIsOwn
<1>4. CollectedInOrder'
  BY <1>2 DEF CollectedInOrder, Own, Ranks
<1>. QED  BY <1>3, <1>4 DEF IInv

LEMMA TaskStep ==
    ASSUME IInv, NEW s \in Samples, EndTask(s) \/ NoAnswer(s)
    PROVE  IInv'
<1>1. UNCHANGED <<inputs, world_size, all_exec_results, files>>
  BY DEF EndTask, NoAnswer, PoolOnly
<1>2. PoolTells'
  BY <1>1 DEF EndTask, NoAnswer, IInv, PoolTells, Programs, inputs
<1>. QED  BY <1>1, <1>2, PredictionsStay DEF IInv

LEMMA ResultStep == ASSUME IInv, NEW r \in Ranks, NextResult(r) PROVE IInv'
<1> DEFINE got == all_exec_results[r]
           i == Len(got) + 1
           s == Shard(r)[i]
<1>1. UNCHANGED <<inputs, world_size, task, files>>
  BY DEF NextResult, RankOnly
<1>2. PoolTells' /\ PredictionIsOwn'
  BY <1>1 DEF IInv, PoolTells, PredictionIsOwn, inputs
<1>3. CASE all_exec_results' = all_exec_results
  BY <1>1, <1>2, <1>3, PredictionsStay DEF IInv
<1>4. CASE all_exec_results' = [all_exec_results EXCEPT ![r] = Append(@, Prediction(s))]
  <2>1. got \in Seq(Samples \union {Empty}) /\ i \in 1 .. Len(Shard(r))
    <3>1. got \in Seq(Samples \union {Empty}) /\ i <= Len(Shard(r))
      BY DEF IInv, CollectedInOrder, NextResult
    <3>2. Len(Shard(r)) \in Nat
      BY ShardOfSamples DEF IInv, CollectedInOrder
    <3>. QED  BY <3>1, <3>2
  <2>2. s \in Samples
    BY <2>1, ShardOfSamples DEF IInv, CollectedInOrder
  <2> HIDE DEF s
  <2>3. Prediction(s) \in Samples \union {Empty} /\ Own(Prediction(s), s)
    BY <2>2 DEF Prediction, Own, IInv, PoolTells
  <2>4. all_exec_results'[r] = Append(got, Prediction(s)) /\ DOMAIN all_exec_results' = Ranks
    BY <1>4 DEF IInv, CollectedInOrder
  <2>5. /\ all_exec_results'[r] \in Seq(Samples \union {Empty})
        /\ DOMAIN all_exec_results'[r] = DOMAIN got \union {i}
        /\ all_exec_results'[r][i] = Prediction(s)
        /\ \A j \in DOMAIN got : all_exec_results'[r][j] = got[j]
    BY <2>1, <2>3, <2>4
  <2>6. ASSUME NEW o \in Ranks, o # r PROVE all_exec_results'[o] = all_exec_results[o]
    BY <1>4, <2>6 DEF IInv, CollectedInOrder
  <2>7. /\ Ranks' = Ranks /\ program' = program
        /\ \A o \in Ranks : Shard(o)' = Shard(o)
    BY <1>1, ShardsStay DEF inputs
  <2>8. ASSUME NEW o \in Ranks
        PROVE  /\ all_exec_results'[o] \in Seq(Samples \union {Empty})
               /\ \A j \in DOMAIN all_exec_results'[o] : Own(all_exec_results'[o][j], Shard(o)[j])
    <3>1. CASE o # r
      BY <2>6, <3>1 DEF IInv, CollectedInOrder
    <3>2. CASE o = r
      <4>1. \A j \in DOMAIN got : Own(got[j], Shard(r)[j])
        BY DEF IInv, CollectedInOrder
      <4>. QED  BY <2>3, <2>5, <3>2, <4>1 DEF s
    <3>. QED  BY <3>1, <3>2
  <2>9. CollectedInOrder'
    BY <1>1, <2>4, <2>7, <2>8 DEF IInv, CollectedInOrder, Own
  <2>. QED  BY <1>2, <2>9 DEF IInv
<1>. QED  BY <1>3, <1>4 DEF NextResult

LEMMA OpenStep == ASSUME IInv, NEW r \in Ranks, OpenFile(r) PROVE IInv'
<1>1. /\ UNCHANGED <<inputs, world_size, task, all_exec_results>>
      /\ files' = [f \in DOMAIN files \ {OutFile(r)} |-> files[f]]
  BY DEF OpenFile, RankOnly
<1>2. Ranks' = Ranks /\ (\A o : Shard(o)' = Shard(o)) /\ program' = program
  BY <1>1, ShardsStay DEF inputs
<1>3. PoolTells'
  BY <1>1, <1>2 DEF IInv, PoolTells
<1>4. all_exec_results' = all_exec_results /\ world_size' = world_size
  BY <1>1
<1>5. CollectedInOrder'
  BY <1>2, <1>4 DEF IInv, CollectedInOrder, Own
<1>6. \A f \in DOMAIN files' : f \in DOMAIN files /\ files'[f] = files[f]
  BY <1>1
<1>7. PredictionIsOwn'
  BY <1>2, <1>6 DEF IInv, PredictionIsOwn
<1>. QED  BY <1>3, <1>5, <1>7 DEF IInv

LEMMA SaveStep == ASSUME IInv, NEW r \in Ranks, Save(r) PROVE IInv'
<1>1. /\ UNCHANGED <<inputs, world_size, task, all_exec_results>>
      /\ files' = [f \in DOMAIN files \union {OutFile(r)} |->
                     IF f = OutFile(r) THEN Records(r) ELSE files[f]]
  BY DEF Save, RankOnly
<1>2. PoolTells' /\ CollectedInOrder'
  <2>1. Ranks' = Ranks /\ (\A o : Shard(o)' = Shard(o)) /\ program' = program
    BY <1>1, ShardsStay DEF inputs
  <2>2. PoolTells'
    BY <1>1, <2>1 DEF IInv, PoolTells
  <2>3. all_exec_results' = all_exec_results /\ world_size' = world_size
    BY <1>1
  <2>4. CollectedInOrder'
    BY <2>1, <2>3 DEF IInv, CollectedInOrder, Own
  <2>. QED  BY <2>2, <2>4
<1>3. ASSUME NEW i \in DOMAIN Records(r)
      PROVE  Records(r)[i].pred # Empty =>
               /\ Records(r)[i].pred = Records(r)[i].sample
               /\ program[Records(r)[i].sample] = "answers"
  <2>1. /\ i \in DOMAIN all_exec_results[r]
        /\ Records(r)[i] = [sample |-> Shard(r)[i], pred |-> all_exec_results[r][i], job |-> job]
    BY DEF Records, Results, IInv, CollectedInOrder
  <2>. QED  BY <2>1 DEF IInv, CollectedInOrder, Own
<1>4. PredictionIsOwn'
  <2> SUFFICES ASSUME NEW f \in DOMAIN files', NEW i \in DOMAIN files'[f]
               PROVE  files'[f][i].pred # Empty =>
                        /\ files'[f][i].pred = files'[f][i].sample
                        /\ program'[files'[f][i].sample] = "answers"
    BY DEF PredictionIsOwn
  <2>1. program' = program
    BY <1>1 DEF inputs
  <2>2. CASE f = OutFile(r)
    <3>1. files'[f] = Records(r)
      BY <1>1, <2>2
    <3>. QED  BY <1>3, <2>1, <3>1
  <2>3. CASE f # OutFile(r)
    <3>1. f \in DOMAIN files /\ files'[f] = files[f]
      BY <1>1, <2>3
    <3>. QED  BY <2>1, <3>1 DEF IInv, PredictionIsOwn
  <2>. QED  BY <2>2, <2>3
<1>. QED  BY <1>2, <1>4 DEF IInv

LEMMA IInvNext == IInv /\ [Next]_vars => IInv'
<1> SUFFICES ASSUME IInv, [Next]_vars PROVE IInv'
  OBVIOUS
<1>1. ASSUME UNCHANGED <<inputs, world_size, task, all_exec_results, files>> PROVE IInv'
  <2>1. PoolTells'
    BY <1>1 DEF IInv, PoolTells, inputs
  <2>. QED  BY <1>1, <2>1, PredictionsStay DEF IInv
<1>2. ASSUME NEW r \in Ranks, Leave(r) \/ Die(r) PROVE IInv'
  BY <1>1, <1>2 DEF Leave, Die, RankOnly
<1>3. ASSUME Load \/ Grade \/ Answer \/ JoinReturns PROVE IInv'
  BY <1>1, <1>3 DEF Load, Grade, Answer, JoinReturns, EvalOnly, rank_vars
<1>4. ASSUME Over \/ UNCHANGED vars PROVE IInv'
  BY <1>1, <1>4 DEF Over, vars, rank_vars
<1>. QED
  BY <1>2, <1>3, <1>4, LaunchStep, TaskStep, ResultStep, OpenStep, SaveStep DEF Next, Rank

-----------------------------------------------------------------------------
(* A timeout, an exception or a dead process on the pool moves no prediction to
   another sample, in any file of any run. *)
THEOREM PredictionsAreOwn == Spec => []PredictionIsOwn
<1>1. IInv => PredictionIsOwn
  BY DEF IInv
<1>. QED  BY <1>1, IInvInit, IInvNext, PTL DEF Spec

-----------------------------------------------------------------------------
(* Induction, and what FlattenSeq makes of a list of lists *)

(* A nonempty set of numbers has a least one: the intervals from 0 to its members are
   well-founded by inclusion. *)
LEMMA LeastNumber ==
    ASSUME NEW T \in SUBSET Nat, T # {}
    PROVE  \E m \in T : \A n \in T : m <= n
<1> DEFINE Below == {0 .. n : n \in T}
<1>1. Below \subseteq FiniteSubsetsOf(Nat) /\ Below # {}
  <2>1. ASSUME NEW n \in T PROVE 0 .. n \in FiniteSubsetsOf(Nat)
    <3>1. IsFiniteSet(0 .. n) /\ 0 .. n \subseteq Nat
      BY FS_Interval
    <3>. QED  BY <3>1 DEF FiniteSubsetsOf
  <2>. QED  BY <2>1
<1>2. IsWellFoundedOn(StrictSubsetOrdering(Nat), FiniteSubsetsOf(Nat))
  BY FS_StrictSubsetOrderingWellFounded
<1>3. PICK B \in Below : \A C \in Below : <<C, B>> \notin StrictSubsetOrdering(Nat)
  <2> HIDE DEF Below
  <2>. QED  BY <1>1, <1>2, WFMin
<1>4. PICK m \in T : B = 0 .. m
  OBVIOUS
<1>5. ASSUME NEW n \in T, n < m PROVE FALSE
  <2>1. 0 .. n \in Below /\ 0 .. n \subseteq 0 .. m /\ m \in 0 .. m /\ m \notin 0 .. n
    BY <1>5
  <2>2. <<0 .. n, 0 .. m>> \in StrictSubsetOrdering(Nat)
    BY <2>1 DEF StrictSubsetOrdering
  <2>. QED  BY <1>3, <1>4, <2>1, <2>2
<1>. QED  BY <1>5

LEMMA Induction ==
    ASSUME NEW T, 0 \in T, \A n \in Nat : n \in T => n + 1 \in T
    PROVE  Nat \subseteq T
<1> SUFFICES ASSUME Nat \ T # {} PROVE FALSE
  OBVIOUS
<1>1. PICK m \in Nat \ T : \A n \in Nat \ T : m <= n
  BY LeastNumber
<1>2. m - 1 \in Nat /\ m = (m - 1) + 1
  BY <1>1
<1>3. m - 1 \in T
  BY <1>1, <1>2
<1>. QED  BY <1>1, <1>2, <1>3

(* The recursive definition of FlattenSeq has a value, list by list. *)
LEMMA FlattenUnfolds ==
    ASSUME NEW parts, Len(parts) \in Nat \ {0}
    PROVE  \E f : /\ FlattenSeq(parts) = f[Len(parts)]
                  /\ f[1] = parts[1]
                  /\ \A i \in 2 .. Len(parts) : f[i] = f[i - 1] \o parts[i]
<1> DEFINE Unfolds(g, n) == g = [i \in 1 .. n |-> IF i = 1 THEN parts[i] ELSE g[i-1] \o parts[i]]
           T == {n \in Nat : \E g : Unfolds(g, n)}
<1>1. 0 \in T
  <2>1. Unfolds([i \in 1 .. 0 |-> 0], 0)
    OBVIOUS
  <2>. QED  BY <2>1
<1>2. ASSUME NEW n \in Nat, n \in T PROVE n + 1 \in T
  <2>1. PICK g : Unfolds(g, n)
    BY <1>2
  <2> DEFINE last == IF n = 0 THEN parts[1] ELSE g[n] \o parts[n + 1]
             h == [i \in 1 .. n + 1 |-> IF i = n + 1 THEN last ELSE g[i]]
  <2>2. ASSUME NEW i \in 1 .. n + 1
        PROVE  h[i] = IF i = 1 THEN parts[i] ELSE h[i-1] \o parts[i]
    <3>1. CASE i = n + 1
      <4>1. CASE n = 0
        BY <3>1, <4>1
      <4>2. CASE n # 0
        <5>1. i # 1 /\ i - 1 = n /\ n \in 1 .. n + 1 /\ n # n + 1
          BY <3>1, <4>2
        <5>2. h[i] = last /\ h[n] = g[n]
          <6> HIDE DEF last
          <6>. QED  BY <3>1, <5>1
        <5>3. last = g[n] \o parts[n + 1]
          BY <4>2
        <5> HIDE DEF h, last
        <5>. QED  BY <3>1, <5>1, <5>2, <5>3
      <4>. QED  BY <4>1, <4>2
    <3>2. CASE i # n + 1
      <4>1. i \in 1 .. n /\ h[i] = g[i]
        BY <3>2
      <4>2. g[i] = IF i = 1 THEN parts[i] ELSE g[i-1] \o parts[i]
        BY <2>1, <4>1
      <4>3. i # 1 => h[i - 1] = g[i - 1]
        BY <4>1
      <4>. QED  BY <4>1, <4>2, <4>3
    <3>. QED  BY <3>1, <3>2
  <2>3. h = [i \in 1 .. n + 1 |-> h[i]]
    OBVIOUS
  <2> HIDE DEF h
  <2>4. Unfolds(h, n + 1)
    BY <2>2, <2>3
  <2> HIDE DEF Unfolds
  <2>5. n + 1 \in Nat
    OBVIOUS
  <2>. QED  BY <2>4, <2>5
<1>3. \E g : Unfolds(g, Len(parts))
  <2>1. Nat \subseteq T
    <3> HIDE DEF T
    <3>. QED  BY <1>1, <1>2, Induction
  <2>. QED  BY <2>1
<1> DEFINE f == CHOOSE g : g = [i \in 1 .. Len(parts) |-> IF i = 1 THEN parts[i] ELSE g[i-1] \o parts[i]]
<1>4. Unfolds(f, Len(parts))
  BY <1>3
<1>5. FlattenSeq(parts) = f[Len(parts)]
  BY DEF FlattenSeq
<1> HIDE DEF f
<1>6. f[1] = parts[1] /\ \A i \in 2 .. Len(parts) : f[i] = f[i - 1] \o parts[i]
  <2>1. \A i \in 1 .. Len(parts) : f[i] = IF i = 1 THEN parts[i] ELSE f[i-1] \o parts[i]
    BY <1>4
  <2>2. 1 \in 1 .. Len(parts) /\ \A i \in 2 .. Len(parts) : i \in 1 .. Len(parts) /\ i # 1
    OBVIOUS
  <2>. QED  BY <2>1, <2>2
<1>. QED  BY <1>5, <1>6

\* c has the entries of a and those of b and no others.
Joins(a, b, c) ==
    /\ Len(c) = Len(a) + Len(b)
    /\ \A i \in 1 .. Len(c) : \/ \E j \in 1 .. Len(a) : c[i] = a[j]
                              \/ \E j \in 1 .. Len(b) : c[i] = b[j]
    /\ \A j \in 1 .. Len(a) : \E i \in 1 .. Len(c) : c[i] = a[j]
    /\ \A j \in 1 .. Len(b) : \E i \in 1 .. Len(c) : c[i] = b[j]

LEMMA ConcatEntries ==
    ASSUME NEW S, NEW a \in Seq(S), NEW b \in Seq(S)
    PROVE  a \o b \in Seq(S) /\ Joins(a, b, a \o b)
<1> DEFINE c == a \o b
<1>1. /\ c \in Seq(S) /\ Len(c) = Len(a) + Len(b) /\ Len(a) \in Nat /\ Len(b) \in Nat
      /\ \A i \in 1 .. Len(a) + Len(b) : c[i] = IF i <= Len(a) THEN a[i] ELSE b[i - Len(a)]
  BY ConcatProperties
<1> HIDE DEF c
<1>2. ASSUME NEW i \in 1 .. Len(c)
      PROVE  (\E j \in 1 .. Len(a) : c[i] = a[j]) \/ \E j \in 1 .. Len(b) : c[i] = b[j]
  <2>1. CASE i <= Len(a)
    <3>1. i \in 1 .. Len(a) /\ c[i] = a[i]
      BY <1>1, <2>1
    <3>. QED  BY <3>1
  <2>2. CASE ~(i <= Len(a))
    <3>1. i - Len(a) \in 1 .. Len(b) /\ c[i] = b[i - Len(a)]
      BY <1>1, <2>2
    <3>. QED  BY <3>1
  <2>. QED  BY <2>1, <2>2
<1>3. ASSUME NEW j \in 1 .. Len(a) PROVE \E i \in 1 .. Len(c) : c[i] = a[j]
  <2>1. j \in 1 .. Len(c) /\ c[j] = a[j]
    BY <1>1
  <2>. QED  BY <2>1
<1>4. ASSUME NEW j \in 1 .. Len(b) PROVE \E i \in 1 .. Len(c) : c[i] = b[j]
  <2>1. Len(a) + j \in 1 .. Len(c) /\ ~(Len(a) + j <= Len(a)) /\ Len(a) + j - Len(a) = j
    BY <1>1
  <2>2. c[Len(a) + j] = b[j]
    BY <1>1, <2>1
  <2>. QED  BY <2>1, <2>2
<1>. QED  BY <1>1, <1>2, <1>3, <1>4 DEF c, Joins

\* m has the entries of the lists and no others.
Flattens(parts, m) ==
    /\ \A i \in 1 .. Len(m) : \E k \in DOMAIN parts : \E j \in 1 .. Len(parts[k]) : m[i] = parts[k][j]
    /\ \A k \in DOMAIN parts : \A j \in 1 .. Len(parts[k]) : \E i \in 1 .. Len(m) : m[i] = parts[k][j]

(* Flattened lists have that, and together their lengths: begun[k] is how long the
   first k of them are. *)
LEMMA FlattenEntries ==
    ASSUME NEW S, NEW n \in Nat \ {0}, NEW parts \in [1 .. n -> Seq(S)],
           NEW begun \in [0 .. n -> Nat], begun[0] = 0,
           \A k \in 1 .. n : begun[k] = begun[k - 1] + Len(parts[k])
    PROVE  /\ FlattenSeq(parts) \in Seq(S) /\ Len(FlattenSeq(parts)) = begun[n]
           /\ Flattens(parts, FlattenSeq(parts))
<1>1. Len(parts) = n
  OBVIOUS
<1>2. PICK f : /\ FlattenSeq(parts) = f[n] /\ f[1] = parts[1]
               /\ \A i \in 2 .. n : f[i] = f[i - 1] \o parts[i]
  BY <1>1, FlattenUnfolds
<1> DEFINE Comes(k)  == \A i \in 1 .. begun[k] : \E l \in 1 .. k : \E j \in 1 .. Len(parts[l]) : f[k][i] = parts[l][j]
           Stays(k)  == \A l \in 1 .. k : \A j \in 1 .. Len(parts[l]) : \E i \in 1 .. begun[k] : f[k][i] = parts[l][j]
           Whole(k)  == f[k] \in Seq(S) /\ Len(f[k]) = begun[k] /\ Comes(k) /\ Stays(k)
           T == {k \in Nat : k = 0 \/ k > n \/ Whole(k)}
<1>3. \A k \in 1 .. n : parts[k] \in Seq(S) /\ Len(parts[k]) \in Nat
  OBVIOUS
<1>4. ASSUME 1 \in 1 .. n PROVE Whole(1)
  <2>1. begun[1] = Len(parts[1])
    <3>1. begun[1] = begun[0] + Len(parts[1])
      OBVIOUS
    <3>. QED  BY <1>3, <3>1
  <2>2. f[1] \in Seq(S) /\ Len(f[1]) = begun[1]
    BY <1>2, <1>3, <2>1
  <2>3. Comes(1) /\ Stays(1)
    BY <1>2, <2>1
  <2>. QED  BY <2>2, <2>3
<1>5. ASSUME NEW k \in 1 .. n, NEW m \in 2 .. n, m = k + 1, Whole(k) PROVE Whole(m)
  <2> HIDE DEF Comes, Stays, Whole
  <2>0. f[k] \in Seq(S) /\ Len(f[k]) = begun[k] /\ Comes(k) /\ Stays(k)
    BY <1>5 DEF Whole
  <2>1. f[m] = f[k] \o parts[m] /\ m - 1 = k /\ m \in 1 .. n /\ parts[m] \in Seq(S)
    <3>1. m - 1 = k /\ m \in 1 .. n
      BY <1>5
    <3>2. parts[m] \in Seq(S)
      BY <1>3, <3>1
    <3>. QED  BY <1>2, <3>1, <3>2
  <2>2. begun[m] = begun[k] + Len(parts[m])
    BY <2>1
  <2>3. \A l \in 1 .. m : l \in 1 .. k \/ l = m
    BY <1>5
  <2>4. m \in 1 .. m /\ \A l \in 1 .. k : l \in 1 .. m
    BY <1>5
  <2>5. f[m] \in Seq(S) /\ Joins(f[k], parts[m], f[m])
    <3>1. f[k] \in Seq(S) /\ parts[m] \in Seq(S)
      BY <2>0, <2>1
    <3>2. f[k] \o parts[m] \in Seq(S) /\ Joins(f[k], parts[m], f[k] \o parts[m])
      BY <3>1, ConcatEntries, Zenon
    <3>3. f[m] = f[k] \o parts[m]
      BY <2>1
    <3>. QED  BY <3>2, <3>3, Zenon
  <2>6. Len(f[m]) = begun[m]
    BY <2>0, <2>2, <2>5 DEF Joins
  <2>7. \A i \in 1 .. begun[m] : \/ \E j \in 1 .. begun[k] : f[m][i] = f[k][j]
                                 \/ \E j \in 1 .. Len(parts[m]) : f[m][i] = parts[m][j]
    BY <2>0, <2>5, <2>6 DEF Joins
  <2>8. /\ \A j \in 1 .. begun[k] : \E i \in 1 .. begun[m] : f[m][i] = f[k][j]
        /\ \A j \in 1 .. Len(parts[m]) : \E i \in 1 .. begun[m] : f[m][i] = parts[m][j]
    BY <2>0, <2>5, <2>6 DEF Joins
  <2>9. Comes(m)
    <3> SUFFICES ASSUME NEW i \in 1 .. begun[m]
                 PROVE  \E l \in 1 .. m : \E j \in 1 .. Len(parts[l]) : f[m][i] = parts[l][j]
      BY DEF Comes
    <3>1. CASE \E j \in 1 .. begun[k] : f[m][i] = f[k][j]
      <4>1. PICK j \in 1 .. begun[k] : f[m][i] = f[k][j]
        BY <3>1
      <4>2. PICK l \in 1 .. k : \E p \in 1 .. Len(parts[l]) : f[k][j] = parts[l][p]
        BY <2>0 DEF Comes
      <4>. QED  BY <2>4, <4>1, <4>2
    <3>2. CASE \E j \in 1 .. Len(parts[m]) : f[m][i] = parts[m][j]
      BY <2>4, <3>2
    <3>. QED  BY <2>7, <3>1, <3>2
  <2>10. Stays(m)
    <3> SUFFICES ASSUME NEW l \in 1 .. m, NEW j \in 1 .. Len(parts[l])
                 PROVE  \E i \in 1 .. begun[m] : f[m][i] = parts[l][j]
      BY DEF Stays
    <3>1. CASE l \in 1 .. k
      <4>1. PICK i \in 1 .. begun[k] : f[k][i] = parts[l][j]
        BY <2>0, <3>1 DEF Stays
      <4>. QED  BY <2>8, <4>1
    <3>2. CASE l = m
      BY <2>8, <3>2
    <3>. QED  BY <2>3, <3>1, <3>2
  <2>. QED  BY <2>5, <2>6, <2>9, <2>10 DEF Whole
<1> HIDE DEF Whole
<1>6. ASSUME NEW k \in Nat, k \in T PROVE k + 1 \in T
  <2>1. k = 0 \/ k > n \/ Whole(k)
    BY <1>6
  <2>2. k + 1 \in Nat
    OBVIOUS
  <2>3. k + 1 > n \/ Whole(k + 1)
    <3>1. CASE k = 0 \/ k > n
      BY <1>4, <3>1
    <3>2. CASE k # 0 /\ ~(k > n)
      <4>1. k + 1 > n \/ (k \in 1 .. n /\ k + 1 \in 2 .. n)
        BY <3>2
      <4>. QED  BY <1>5, <2>1, <3>2, <4>1
    <3>. QED  BY <3>1, <3>2
  <2>. QED  BY <2>2, <2>3
<1>7. Whole(n)
  <2>1. 0 \in T
    OBVIOUS
  <2>2. n \in T
    <3> HIDE DEF T
    <3>. QED  BY <1>6, <2>1, Induction
  <2>. QED  BY <2>2
<1>8. f[n] \in Seq(S) /\ Len(f[n]) = begun[n] /\ Comes(n) /\ Stays(n)
  BY <1>7 DEF Whole
<1>9. DOMAIN parts = 1 .. n
  OBVIOUS
<1>10. Flattens(parts, f[n])
  <2> DEFINE m == f[n]
  <2>1. \A i \in 1 .. Len(m) : \E k \in 1 .. n : \E j \in 1 .. Len(parts[k]) : m[i] = parts[k][j]
    BY <1>8
  <2>2. \A k \in 1 .. n : \A j \in 1 .. Len(parts[k]) : \E i \in 1 .. Len(m) : m[i] = parts[k][j]
    BY <1>8
  <2> HIDE DEF m
  <2>3. Flattens(parts, m)
    BY <1>9, <2>1, <2>2, Zenon DEF Flattens
  <2>. QED  BY <2>3 DEF m
<1>. QED  BY <1>2, <1>8, <1>10

-----------------------------------------------------------------------------
(* What the files of one world size hold together *)

\* len(samples) of the rank's part
ShardLen(w, r) == (NSamples + w - 1 - r) \div w

Entry == [sample : Samples, pred : Samples \union {Empty}, job : Nat]

\* The records of a whole part.
Whole(w, r, recs) ==
    /\ recs \in Seq(Entry) /\ Len(recs) = ShardLen(w, r)
    /\ \A i \in 1 .. Len(recs) : recs[i].sample = r + (i - 1) * w

LEMMA QuotientIs ==
    ASSUME NEW w \in Nat \ {0}, NEW a \in Nat, NEW b \in 0 .. w - 1
    PROVE  (a * w + b) \div w = a
<1> DEFINE q == (a * w + b) \div w
<1>1. a * w \in Nat
  OBVIOUS
<1>2. q \in Nat /\ q * w <= a * w + b /\ a * w + b < q * w + w
  BY <1>1
<1> HIDE DEF q
<1>3. CASE q < a
  <2>1. PICK d \in Nat : a = q + 1 + d
    <3>1. a - q - 1 \in Nat /\ a = q + 1 + (a - q - 1)
      BY <1>2, <1>3
    <3>. QED  BY <3>1
  <2>2. a * w = q * w + w + d * w /\ d * w >= 0
    BY <1>2, <2>1
  <2>. QED  BY <1>2, <2>2
<1>4. CASE q > a
  <2>1. PICK d \in Nat : q = a + 1 + d
    <3>1. q - a - 1 \in Nat /\ q = a + 1 + (q - a - 1)
      BY <1>2, <1>4
    <3>. QED  BY <3>1
  <2>2. q * w = a * w + w + d * w /\ d * w >= 0
    BY <1>2, <2>1
  <2>. QED  BY <1>2, <2>2
<1>. QED  BY <1>2, <1>3, <1>4 DEF q

LEMMA QuotientAtLeast ==
    ASSUME NEW w \in Nat \ {0}, NEW i \in Nat, NEW x \in Nat, i * w <= x
    PROVE  i <= x \div w
<1> DEFINE q == x \div w
<1>1. q \in Nat /\ x < q * w + w
  OBVIOUS
<1> HIDE DEF q
<1>2. ASSUME i > q PROVE FALSE
  <2>1. PICK d \in Nat : i = q + 1 + d
    <3>1. i - q - 1 \in Nat /\ i = q + 1 + (i - q - 1)
      BY <1>1, <1>2
    <3>. QED  BY <3>1
  <2>2. i * w = q * w + w + d * w /\ d * w >= 0
    BY <1>1, <2>1
  <2>. QED  BY <1>1, <2>2
<1>. QED  BY <1>1, <1>2 DEF q

(* The samples that are left over when the ranks have the same number go to the first
   of them. *)
LEMMA LengthOfShard ==
    ASSUME NEW w \in Nat \ {0}, NEW r \in 0 .. w - 1
    PROVE  ShardLen(w, r) = NSamples \div w + (IF r < NSamples % w THEN 1 ELSE 0)
<1> DEFINE q == NSamples \div w
           m == NSamples % w
<1>1. q \in Nat /\ m \in 0 .. w - 1 /\ NSamples = q * w + m /\ q * w \in Nat /\ r \in Nat
  BY PalAssumption
<1> HIDE DEF q, m
<1>2. CASE r < m
  <2>1. m - 1 - r \in 0 .. w - 1 /\ q + 1 \in Nat
    BY <1>1, <1>2
  <2>2. NSamples + w - 1 - r = (q + 1) * w + (m - 1 - r)
    <3>1. (q + 1) * w = q * w + w
      BY <1>1
    <3>. QED  BY <1>1, <3>1
  <2>3. ShardLen(w, r) = q + 1
    <3>1. ((q + 1) * w + (m - 1 - r)) \div w = q + 1
      BY <2>1, QuotientIs
    <3>. QED  BY <2>2, <3>1 DEF ShardLen
  <2>. QED  BY <1>2, <2>3 DEF q, m
<1>3. CASE ~(r < m)
  <2>1. m + w - 1 - r \in 0 .. w - 1
    BY <1>1, <1>3
  <2>2. NSamples + w - 1 - r = q * w + (m + w - 1 - r)
    BY <1>1
  <2>3. ShardLen(w, r) = q
    <3>1. (q * w + (m + w - 1 - r)) \div w = q
      BY <1>1, <2>1, QuotientIs
    <3>. QED  BY <2>2, <3>1 DEF ShardLen
  <2>4. NSamples \div w + 0 = q
    BY <1>1 DEF q
  <2>. QED  BY <1>3, <2>3, <2>4 DEF m
<1>. QED  BY <1>2, <1>3

(* The parts of a world size have as many samples as there are ... *)
LEMMA PartsHaveLength ==
    ASSUME NEW w \in Nat \ {0}
    PROVE  \E begun \in [0 .. w -> Nat] :
             /\ begun[0] = 0 /\ begun[w] = NSamples
             /\ \A k \in 1 .. w : begun[k] = begun[k - 1] + ShardLen(w, k - 1)
<1> DEFINE q == NSamples \div w
           m == NSamples % w
           begun == [k \in 0 .. w |-> k * q + (IF k < m THEN k ELSE m)]
<1>1. q \in Nat /\ m \in 0 .. w - 1 /\ NSamples = q * w + m /\ m \in Nat
  BY PalAssumption
<1>0. \A r \in 0 .. w - 1 : ShardLen(w, r) = q + (IF r < m THEN 1 ELSE 0)
  BY LengthOfShard
<1> HIDE DEF q, m
<1>2. begun \in [0 .. w -> Nat]
  <2>1. ASSUME NEW k \in 0 .. w PROVE k * q + (IF k < m THEN k ELSE m) \in Nat
    <3>1. k * q \in Nat /\ k \in Nat
      BY <1>1
    <3>. QED  BY <1>1, <3>1
  <2>. QED  BY <2>1
<1>3. begun[0] = 0
  <2>1. 0 * q = 0 /\ 0 \in 0 .. w
    BY <1>1
  <2>. QED  BY <1>1, <2>1
<1>4. begun[w] = NSamples
  <2>1. w * q = q * w /\ q * w \in Nat /\ w \in 0 .. w
    BY <1>1
  <2>. QED  BY <1>1, <2>1
<1>5. ASSUME NEW k \in 1 .. w PROVE begun[k] = begun[k - 1] + ShardLen(w, k - 1)
  <2>1. k - 1 \in 0 .. w - 1 /\ k - 1 \in 0 .. w /\ k \in 0 .. w /\ k \in Nat /\ k - 1 \in Nat
    OBVIOUS
  <2>2. ShardLen(w, k - 1) = q + (IF k - 1 < m THEN 1 ELSE 0)
    BY <1>0, <2>1
  <2>3. k * q = (k - 1) * q + q /\ (k - 1) * q \in Nat
    BY <1>1, <2>1
  <2>4. begun[k] = k * q + (IF k < m THEN k ELSE m)
    BY <2>1
  <2>5. begun[k - 1] = (k - 1) * q + (IF k - 1 < m THEN k - 1 ELSE m)
    BY <2>1
  <2> HIDE DEF begun
  <2>. QED  BY <1>1, <2>1, <2>2, <2>3, <2>4, <2>5
<1> HIDE DEF begun
<1>. QED  BY <1>2, <1>3, <1>4, <1>5

(* ... none but samples, and every sample. *)
LEMMA EntryIsSample ==
    ASSUME NEW w \in Nat \ {0}, NEW r \in 0 .. w - 1, NEW i \in 1 .. ShardLen(w, r)
    PROVE  r + (i - 1) * w \in Samples
<1> DEFINE x == NSamples + w - 1 - r
<1>1. x \in Nat /\ r \in Nat /\ r < w /\ NSamples \in Nat /\ x \div w \in Nat
  BY PalAssumption
<1>2. (i - 1) * w <= x - w
  BY <1>1, TimesQuotient DEF ShardLen
<1>3. i \in Nat \ {0}
  BY <1>1 DEF ShardLen
<1>4. (i - 1) * w \in Nat
  BY <1>3
<1>. QED  BY <1>1, <1>2, <1>4 DEF Samples

LEMMA SampleHasEntry ==
    ASSUME NEW w \in Nat \ {0}, NEW s \in Samples
    PROVE  \E r \in 0 .. w - 1 : \E i \in 1 .. ShardLen(w, r) : r + (i - 1) * w = s
<1> DEFINE q == s \div w
           r == s % w
           x == NSamples + w - 1 - r
<1>1. NSamples \in Nat \ {0} /\ s \in Nat /\ s < NSamples
  BY PalAssumption DEF Samples
<1>2. q \in Nat /\ r \in 0 .. w - 1 /\ s = q * w + r
  BY <1>1
<1> HIDE DEF q, r
<1>3. (q + 1) * w = q * w + w /\ q * w \in Nat
  BY <1>2
<1>4. x \in Nat /\ (q + 1) * w <= x
  BY <1>1, <1>2, <1>3
<1>5. q + 1 <= ShardLen(w, r) /\ ShardLen(w, r) \in Nat
  <2> HIDE DEF x
  <2>1. q + 1 \in Nat
    BY <1>2
  <2>2. q + 1 <= x \div w /\ x \div w \in Nat
    BY <1>4, <2>1, QuotientAtLeast
  <2>. QED  BY <2>2 DEF ShardLen, x
<1>6. q + 1 \in 1 .. ShardLen(w, r) /\ r + ((q + 1) - 1) * w = s
  BY <1>2, <1>3, <1>5
<1>. QED  BY <1>2, <1>6

\* Every sample once, in any order.
EveryOnce(m) ==
    /\ m \in Seq(Entry) /\ Len(m) = NSamples
    /\ {m[i].sample : i \in DOMAIN m} = Samples

(* The files of all ranks of a world size, one behind the other, have that. *)
LEMMA MergedWhole ==
    ASSUME NEW w \in Nat \ {0}, NEW parts \in [1 .. w -> Seq(Entry)],
           \A k \in 1 .. w : Whole(w, k - 1, parts[k])
    PROVE  EveryOnce(FlattenSeq(parts)) /\ Flattens(parts, FlattenSeq(parts))
<1>1. PICK begun \in [0 .. w -> Nat] :
        /\ begun[0] = 0 /\ begun[w] = NSamples
        /\ \A k \in 1 .. w : begun[k] = begun[k - 1] + ShardLen(w, k - 1)
  BY PartsHaveLength
<1>2. \A k \in 1 .. w : begun[k] = begun[k - 1] + Len(parts[k])
  BY <1>1 DEF Whole
<1> DEFINE m == FlattenSeq(parts)
<1>3. /\ m \in Seq(Entry) /\ Len(m) = begun[w] /\ Flattens(parts, m)
      /\ \A i \in 1 .. begun[w] : \E k \in 1 .. w : \E j \in 1 .. Len(parts[k]) : m[i] = parts[k][j]
      /\ \A k \in 1 .. w : \A j \in 1 .. Len(parts[k]) : \E i \in 1 .. begun[w] : m[i] = parts[k][j]
  <2>1. begun[0] = 0 /\ begun \in [0 .. w -> Nat]
    BY <1>1
  <2>2. /\ FlattenSeq(parts) \in Seq(Entry) /\ Len(FlattenSeq(parts)) = begun[w]
        /\ Flattens(parts, FlattenSeq(parts))
    BY <1>2, <2>1, FlattenEntries
  <2>3. DOMAIN parts = 1 .. w
    OBVIOUS
  <2>. QED  BY <2>2, <2>3 DEF Flattens
<1> HIDE DEF m
<1>4. DOMAIN m = 1 .. begun[w]
  BY <1>3
<1>5. ASSUME NEW i \in DOMAIN m PROVE m[i].sample \in Samples
  <2>1. PICK k \in 1 .. w : \E j \in 1 .. Len(parts[k]) : m[i] = parts[k][j]
    BY <1>3, <1>4
  <2>2. PICK j \in 1 .. Len(parts[k]) : m[i] = parts[k][j]
    BY <2>1
  <2>3. k - 1 \in 0 .. w - 1
    OBVIOUS
  <2>4. m[i].sample = (k - 1) + (j - 1) * w /\ j \in 1 .. ShardLen(w, k - 1)
    BY <2>2 DEF Whole
  <2>. QED  BY <2>3, <2>4, EntryIsSample
<1>6. ASSUME NEW s \in Samples PROVE \E i \in DOMAIN m : m[i].sample = s
  <2>1. PICK r \in 0 .. w - 1 : \E i \in 1 .. ShardLen(w, r) : r + (i - 1) * w = s
    BY SampleHasEntry
  <2>2. PICK j \in 1 .. ShardLen(w, r) : r + (j - 1) * w = s
    BY <2>1
  <2>3. r + 1 \in 1 .. w /\ (r + 1) - 1 = r
    OBVIOUS
  <2>4. Whole(w, r, parts[r + 1])
    BY <2>3
  <2>5. j \in 1 .. Len(parts[r + 1]) /\ parts[r + 1][j].sample = s
    BY <2>2, <2>4 DEF Whole
  <2>6. PICK i \in 1 .. begun[w] : m[i] = parts[r + 1][j]
    BY <1>3, <2>3, <2>5
  <2>. QED  BY <1>4, <2>5, <2>6
<1>7. {m[i].sample : i \in DOMAIN m} = Samples
  BY <1>5, <1>6
<1>8. EveryOnce(m) /\ Flattens(parts, m)
  BY <1>1, <1>3, <1>7 DEF EveryOnce
<1>. QED  BY <1>8 DEF m

-----------------------------------------------------------------------------
(* What is graded *)

\* Every result file that lies about, of whatever run, is that of a whole part.
FilesWhole ==
    \A f \in DOMAIN files :
        f[1] \in Nat \ {0} /\ f[2] \in 0 .. f[1] - 1 /\ Whole(f[1], f[2], files[f])

\* The file of a rank that saved is of this run.
RanksSaved ==
    /\ job \in Nat /\ DOMAIN pc = Ranks
    /\ \A r \in Ranks :
         pc[r] = "done" => /\ OutFile(r) \in DOMAIN files
                           /\ \A i \in DOMAIN files[OutFile(r)] : files[OutFile(r)][i].job = job

\* The script waits for its ranks.
EvalAfter == eval # "idle" => RanksEnded

FilesInv == FilesWhole /\ RanksSaved /\ EvalAfter /\ MergedOnce

\* A rank opens its file when it has a result of every sample of its part.
SavesAll == \A r \in Ranks : pc[r] = "save" => Len(all_exec_results[r]) = Len(Shard(r))

MInv == IInv /\ FilesInv /\ SavesAll

LEMMA FilesInit == Init => FilesInv
<1> SUFFICES ASSUME Init PROVE FilesInv
  OBVIOUS
<1>1. FilesWhole /\ EvalAfter /\ MergedOnce
  BY DEF Init, FilesWhole, EvalAfter, MergedOnce
<1>2. RanksSaved
  BY DEF Init, RanksSaved
<1>. QED  BY <1>1, <1>2 DEF FilesInv

(* Steps of the pools, of the grader's process. *)
LEMMA FilesStay ==
    ASSUME FilesInv, UNCHANGED <<job, world_size, pc, files, eval, merged>>
    PROVE  FilesInv'
<1>1. Ranks' = Ranks /\ \A r : OutFile(r)' = OutFile(r)
  BY DEF Ranks, OutFile
<1>2. FilesWhole'
  BY DEF FilesInv, FilesWhole
<1>3. RanksSaved'
  BY <1>1 DEF FilesInv, RanksSaved
<1>4. EvalAfter' /\ MergedOnce'
  BY <1>1 DEF FilesInv, EvalAfter, RanksEnded, MergedOnce
<1>. QED  BY <1>2, <1>3, <1>4 DEF FilesInv

(* While a rank has something to do, there is no evaluation. *)
LEMMA RankBusy ==
    ASSUME FilesInv, NEW r \in Ranks, pc[r] \in {"execute", "save", "leave"}
    PROVE  eval = "idle"
BY DEF FilesInv, EvalAfter, RanksEnded

(* Steps of a rank that leave the files alone. *)
LEMMA RankFiles ==
    ASSUME FilesInv, NEW r \in Ranks, NextResult(r) \/ Leave(r) \/ Die(r)
    PROVE  FilesInv'
<1>1. eval = "idle" /\ UNCHANGED <<job, world_size, files, eval, merged>>
  BY RankBusy DEF NextResult, Leave, Die, RankOnly, eval_vars
<1>2. pc' = pc \/ pc' = [pc EXCEPT ![r] = "leave"] \/ pc' = [pc EXCEPT ![r] = "exited"]
  BY DEF NextResult, Leave, Die
<1>3. Ranks' = Ranks /\ \A o : OutFile(o)' = OutFile(o)
  BY <1>1 DEF Ranks, OutFile
<1>4. DOMAIN pc' = Ranks /\ \A o \in Ranks : pc'[o] = "done" => pc[o] = "done"
  BY <1>2 DEF FilesInv, RanksSaved
<1>5. FilesWhole'
  BY <1>1 DEF FilesInv, FilesWhole
<1>6. RanksSaved'
  BY <1>1, <1>3, <1>4 DEF FilesInv, RanksSaved
<1>7. EvalAfter' /\ MergedOnce'
  BY <1>1 DEF EvalAfter, MergedOnce
<1>. QED  BY <1>5, <1>6, <1>7 DEF FilesInv

(* What a rank saves is its whole part. *)
LEMMA RecordsWhole ==
    ASSUME MInv, NEW r \in Ranks, Len(all_exec_results[r]) = Len(Shard(r))
    PROVE  /\ Whole(world_size, r, Records(r))
           /\ \A i \in DOMAIN Records(r) : Records(r)[i].job = job
<1> DEFINE got == all_exec_results[r]
           n == Len(Shard(r))
<1>1. world_size \in Nat \ {0} /\ got \in Seq(Samples \union {Empty}) /\ job \in Nat
  BY DEF MInv, IInv, CollectedInOrder, FilesInv, RanksSaved
<1>2. n \in Nat /\ Len(got) = n /\ \A i \in 1 .. n : Shard(r)[i] \in Samples
  BY <1>1, ShardOfSamples
<1>3. n = ShardLen(world_size, r) /\ \A i \in 1 .. n : Shard(r)[i] = r + (i - 1) * world_size
  <2>1. ShardLen(world_size, r) \in Nat
    BY <1>1, PalAssumption DEF ShardLen, Ranks
  <2>. QED  BY <2>1 DEF Shard, ShardLen
<1>4. \A i \in 1 .. n : got[i] \in Samples \union {Empty}
  BY <1>1, <1>2
<1>5. Records(r) = [i \in 1 .. n |-> [sample |-> Shard(r)[i], pred |-> got[i], job |-> job]]
  BY <1>2 DEF Records, Results
<1> HIDE DEF got, n
<1>6. \A i \in 1 .. n : [sample |-> Shard(r)[i], pred |-> got[i], job |-> job] \in Entry
  BY <1>1, <1>2, <1>4 DEF Entry
<1>7. Records(r) \in Seq(Entry) /\ Len(Records(r)) = n
  BY <1>2, <1>5, <1>6
<1>8. \A i \in 1 .. n : Records(r)[i].sample = r + (i - 1) * world_size /\ Records(r)[i].job = job
  BY <1>3, <1>5
<1>. QED  BY <1>3, <1>5, <1>7, <1>8 DEF Whole

(* The file of an earlier run is gone before this run's is whole. *)
LEMMA OpenFiles == ASSUME MInv, NEW r \in Ranks, OpenFile(r) PROVE FilesInv'
<1>1. /\ eval = "idle" /\ pc[r] = "execute" /\ UNCHANGED <<job, world_size, eval, merged>>
      /\ pc' = [pc EXCEPT ![r] = "save"]
      /\ files' = [f \in DOMAIN files \ {OutFile(r)} |-> files[f]]
  BY RankBusy DEF OpenFile, RankOnly, eval_vars, MInv
<1>2. Ranks' = Ranks /\ \A o : OutFile(o)' = OutFile(o)
  BY <1>1 DEF Ranks, OutFile
<1>3. \A f \in DOMAIN files' : f \in DOMAIN files /\ files'[f] = files[f]
  BY <1>1
<1>4. FilesWhole'
  BY <1>3 DEF MInv, FilesInv, FilesWhole, Whole, ShardLen, Entry, Samples
<1>5. RanksSaved'
  <2>1. job' \in Nat /\ DOMAIN pc' = Ranks'
    BY <1>1, <1>2 DEF MInv, FilesInv, RanksSaved
  <2> SUFFICES ASSUME NEW o \in Ranks, pc'[o] = "done"
               PROVE  /\ OutFile(o) \in DOMAIN files'
                      /\ \A i \in DOMAIN files'[OutFile(o)] : files'[OutFile(o)][i].job = job
    BY <1>1, <1>2, <2>1 DEF RanksSaved
  <2>2. o # r /\ pc[o] = "done"
    BY <1>1 DEF MInv, FilesInv, RanksSaved
  <2>3. OutFile(o) \in DOMAIN files /\ OutFile(o) # OutFile(r)
    BY <2>2 DEF OutFile, MInv, FilesInv, RanksSaved
  <2>4. OutFile(o) \in DOMAIN files' /\ files'[OutFile(o)] = files[OutFile(o)]
    BY <1>1, <2>3
  <2>. QED  BY <2>2, <2>4 DEF MInv, FilesInv, RanksSaved
<1>6. EvalAfter' /\ MergedOnce'
  BY <1>1 DEF EvalAfter, MergedOnce
<1>. QED  BY <1>4, <1>5, <1>6 DEF FilesInv

LEMMA SaveFiles == ASSUME MInv, NEW r \in Ranks, Save(r) PROVE FilesInv'
<1>1. /\ eval = "idle" /\ UNCHANGED <<job, world_size, eval, merged>>
      /\ pc' = [pc EXCEPT ![r] = "done"]
      /\ files' = [f \in DOMAIN files \union {OutFile(r)} |->
                     IF f = OutFile(r) THEN Records(r) ELSE files[f]]
  BY RankBusy DEF Save, RankOnly, eval_vars, MInv
<1>2. /\ Whole(world_size, r, Records(r))
      /\ \A i \in DOMAIN Records(r) : Records(r)[i].job = job
  BY RecordsWhole DEF Save, MInv, SavesAll
<1>3. Ranks' = Ranks /\ \A o : OutFile(o)' = OutFile(o)
  BY <1>1 DEF Ranks, OutFile
<1>4. /\ OutFile(r)[1] = world_size /\ OutFile(r)[2] = r /\ world_size \in Nat \ {0}
      /\ \A o \in Ranks : o # r => OutFile(o) # OutFile(r)
  BY DEF OutFile, MInv, IInv, CollectedInOrder
<1>5. FilesWhole'
  <2> SUFFICES ASSUME NEW f \in DOMAIN files'
               PROVE  f[1] \in Nat \ {0} /\ f[2] \in 0 .. f[1] - 1 /\ Whole(f[1], f[2], files'[f])
    BY DEF FilesWhole, Whole, ShardLen, Entry, Samples
  <2>1. CASE f = OutFile(r)
    <3>1. files'[f] = Records(r)
      BY <1>1, <2>1
    <3>. QED  BY <1>2, <1>4, <2>1, <3>1 DEF Ranks
  <2>2. CASE f # OutFile(r)
    <3>1. f \in DOMAIN files /\ files'[f] = files[f]
      BY <1>1, <2>2
    <3>. QED  BY <3>1 DEF MInv, FilesInv, FilesWhole
  <2>. QED  BY <2>1, <2>2
<1>6. RanksSaved'
  <2>1. job' \in Nat /\ DOMAIN pc' = Ranks'
    BY <1>1, <1>3 DEF MInv, FilesInv, RanksSaved
  <2> SUFFICES ASSUME NEW o \in Ranks, pc'[o] = "done"
               PROVE  /\ OutFile(o) \in DOMAIN files'
                      /\ \A i \in DOMAIN files'[OutFile(o)] : files'[OutFile(o)][i].job = job
    BY <1>1, <1>3, <2>1 DEF RanksSaved
  <2>2. CASE o = r
    <3>1. OutFile(o) \in DOMAIN files' /\ files'[OutFile(o)] = Records(r)
      BY <1>1, <2>2
    <3>. QED  BY <1>2, <3>1
  <2>3. CASE o # r
    <3>1. pc[o] = "done"
      BY <1>1, <2>3 DEF MInv, FilesInv, RanksSaved
    <3>2. OutFile(o) \in DOMAIN files
      BY <3>1 DEF MInv, FilesInv, RanksSaved
    <3>3. OutFile(o) \in DOMAIN files' /\ files'[OutFile(o)] = files[OutFile(o)]
      BY <1>1, <1>4, <2>3, <3>2
    <3>. QED  BY <3>1, <3>3 DEF MInv, FilesInv, RanksSaved
  <2>. QED  BY <2>2, <2>3
<1>7. EvalAfter' /\ MergedOnce'
  BY <1>1 DEF EvalAfter, MergedOnce
<1>. QED  BY <1>5, <1>6, <1>7 DEF FilesInv

LEMMA LaunchFiles == ASSUME FilesInv, Launch PROVE FilesInv'
<1>1. PICK w \in WorldSizes : Fresh(w)
  BY DEF Launch
<1>2. /\ world_size' = w /\ pc' = [r \in 0 .. w - 1 |-> "execute"] /\ eval' = "idle"
      /\ job' = job + 1 /\ files' = files
  BY <1>1 DEF Fresh, Launch
<1>3. Ranks' = 0 .. w - 1
  BY <1>2 DEF Ranks
<1>4. FilesWhole' /\ EvalAfter' /\ MergedOnce'
  BY <1>2 DEF FilesInv, FilesWhole, EvalAfter, MergedOnce
<1>5. RanksSaved'
  BY <1>2, <1>3 DEF FilesInv, RanksSaved
<1>. QED  BY <1>4, <1>5 DEF FilesInv

(* What --do_eval loads is every sample once. *)
LEMMA LoadFiles == ASSUME MInv, Load PROVE FilesInv'
<1>1. /\ RanksEnded /\ UNCHANGED <<job, world_size, pc, files>>
  BY DEF Load, EvalOnly, rank_vars
<1>2. Ranks' = Ranks /\ \A r : OutFile(r)' = OutFile(r)
  BY <1>1 DEF Ranks, OutFile
<1>3. FilesWhole' /\ RanksSaved' /\ EvalAfter'
  <2>1. FilesWhole'
    BY <1>1 DEF MInv, FilesInv, FilesWhole
  <2>2. RanksSaved'
    BY <1>1, <1>2 DEF MInv, FilesInv, RanksSaved
  <2>3. EvalAfter'
    BY <1>1, <1>2 DEF EvalAfter, RanksEnded
  <2>. QED  BY <2>1, <2>2, <2>3
<1>4. CASE eval' = "failed"
  BY <1>3, <1>4 DEF FilesInv, MergedOnce
<1>5. CASE eval' # "failed"
  <2> DEFINE parts == [i \in 1 .. world_size |-> files[OutFile(i - 1)]]
  <2>1. merged' = FlattenSeq(parts) /\ \A r \in Ranks : OutFile(r) \in DOMAIN files
    BY <1>5 DEF Load
  <2>2. world_size \in Nat \ {0}
    BY DEF MInv, IInv, CollectedInOrder
  <2>3. ASSUME NEW k \in 1 .. world_size
        PROVE  /\ k - 1 \in Ranks /\ parts[k] = files[OutFile(k - 1)]
               /\ parts[k] \in Seq(Entry) /\ Whole(world_size, k - 1, parts[k])
    <3>1. k - 1 \in Ranks /\ parts[k] = files[OutFile(k - 1)]
      BY <2>2 DEF Ranks
    <3>2. Whole(OutFile(k - 1)[1], OutFile(k - 1)[2], files[OutFile(k - 1)])
      BY <2>1, <3>1 DEF MInv, FilesInv, FilesWhole
    <3>3. OutFile(k - 1)[1] = world_size /\ OutFile(k - 1)[2] = k - 1
      BY DEF OutFile
    <3>4. Whole(world_size, k - 1, parts[k])
      BY <3>1, <3>2, <3>3
    <3>. QED  BY <3>1, <3>4 DEF Whole
  <2>4. parts \in [1 .. world_size -> Seq(Entry)]
    BY <2>3
  <2> HIDE DEF parts
  <2>5. EveryOnce(merged') /\ Flattens(parts, merged')
    <3>1. \A k \in 1 .. world_size : Whole(world_size, k - 1, parts[k])
      BY <2>3
    <3>. QED  BY <2>1, <2>2, <2>4, <3>1, MergedWhole
  <2>6. ASSUME \A r \in Ranks : pc[r] = "done", NEW i \in DOMAIN merged'
        PROVE  merged'[i].job = job
    <3>0. DOMAIN merged' = 1 .. Len(merged') /\ DOMAIN parts = 1 .. world_size
      BY <2>4, <2>5 DEF EveryOnce
    <3>1. PICK k \in 1 .. world_size : \E j \in 1 .. Len(parts[k]) : merged'[i] = parts[k][j]
      BY <2>5, <3>0 DEF Flattens
    <3>2. PICK j \in 1 .. Len(parts[k]) : merged'[i] = parts[k][j]
      BY <3>1
    <3>3. DOMAIN parts[k] = 1 .. Len(parts[k])
      BY <2>3
    <3>4. \A l \in DOMAIN files[OutFile(k - 1)] : files[OutFile(k - 1)][l].job = job
      BY <2>3, <2>6 DEF MInv, FilesInv, RanksSaved
    <3>. QED  BY <2>3, <3>2, <3>3, <3>4
  <2>7. MergedOnce'
    BY <1>1, <1>2, <2>5, <2>6 DEF MergedOnce, Samples, EveryOnce
  <2>. QED  BY <1>3, <2>7 DEF FilesInv
<1>. QED  BY <1>4, <1>5

(* Grading changes neither what was loaded nor the files. *)
LEMMA GradeFiles == ASSUME FilesInv, Grade \/ JoinReturns PROVE FilesInv'
<1>1. /\ eval \in {"grade", "join"}
      /\ UNCHANGED <<job, world_size, pc, files, merged>>
  BY DEF Grade, JoinReturns, EvalOnly, rank_vars
<1>2. Ranks' = Ranks /\ \A r : OutFile(r)' = OutFile(r)
  BY <1>1 DEF Ranks, OutFile
<1>3. FilesWhole'
  BY <1>1 DEF FilesInv, FilesWhole
<1>4. RanksSaved'
  BY <1>1, <1>2 DEF FilesInv, RanksSaved
<1>5. RanksEnded /\ EvalAfter'
  BY <1>1, <1>2 DEF FilesInv, EvalAfter, RanksEnded
<1>6. MergedOnce'
  BY <1>1, <1>2 DEF FilesInv, MergedOnce, Samples
<1>. QED  BY <1>3, <1>4, <1>5, <1>6 DEF FilesInv

LEMMA FilesNext == MInv /\ [Next]_vars => FilesInv'
<1> SUFFICES ASSUME MInv, [Next]_vars PROVE FilesInv'
  OBVIOUS
<1>1. FilesInv
  BY DEF MInv
<1>2. ASSUME NEW s \in Samples, EndTask(s) \/ NoAnswer(s) PROVE FilesInv'
  BY <1>1, <1>2, FilesStay DEF EndTask, NoAnswer, PoolOnly, eval_vars
<1>3. ASSUME Answer PROVE FilesInv'
  BY <1>1, <1>3, FilesStay DEF Answer, EvalOnly, rank_vars
<1>4. ASSUME Over \/ UNCHANGED vars PROVE FilesInv'
  BY <1>1, <1>4, FilesStay DEF Over, vars, rank_vars, eval_vars
<1>. QED
  BY <1>1, <1>2, <1>3, <1>4, LaunchFiles, RankFiles, OpenFiles, SaveFiles, LoadFiles, GradeFiles DEF Next, Rank

(* Only a rank with all its results comes to its file. *)
LEMMA SavesStep ==
    ASSUME SavesAll, world_size' = world_size,
           \A r \in Ranks : pc'[r] = "save" =>
               \/ pc[r] = "save" /\ all_exec_results'[r] = all_exec_results[r]
               \/ Len(all_exec_results'[r]) = Len(Shard(r))
    PROVE  SavesAll'
BY ShardsStay DEF SavesAll

LEMMA SavesNext == MInv /\ [Next]_vars => SavesAll'
<1> SUFFICES ASSUME MInv, [Next]_vars PROVE SavesAll'
  OBVIOUS
<1>0. SavesAll /\ DOMAIN pc = Ranks /\ DOMAIN all_exec_results = Ranks
  BY DEF MInv, FilesInv, RanksSaved, IInv, CollectedInOrder
<1>1. ASSUME Launch PROVE SavesAll'
  BY <1>1 DEF Launch, Fresh, SavesAll, Ranks
<1>2. ASSUME NEW r \in Ranks, Rank(r) \/ Die(r) PROVE SavesAll'
  <2>1. CASE NextResult(r)
    BY <1>0, <2>1, SavesStep DEF NextResult, RankOnly
  <2>2. CASE Leave(r) \/ Die(r) \/ Save(r)
    BY <1>0, <2>2, SavesStep DEF Leave, Die, Save, RankOnly
  <2>3. CASE OpenFile(r)
    <3>1. \A o \in Ranks : pc'[o] = "save" =>
            \/ pc[o] = "save" /\ all_exec_results'[o] = all_exec_results[o]
            \/ Len(all_exec_results'[o]) = Len(Shard(o))
      BY <1>0, <2>3 DEF OpenFile
    <3>. QED  BY <1>0, <2>3, <3>1, SavesStep DEF OpenFile, RankOnly
  <2>. QED  BY <1>2, <2>1, <2>2, <2>3 DEF Rank
<1>3. ASSUME UNCHANGED <<pc, world_size, all_exec_results>> PROVE SavesAll'
  BY <1>0, <1>3, SavesStep
<1>4. ASSUME NEW s \in Samples, EndTask(s) \/ NoAnswer(s) PROVE SavesAll'
  BY <1>3, <1>4 DEF EndTask, NoAnswer, PoolOnly
<1>5. ASSUME Load \/ Grade \/ Answer \/ JoinReturns PROVE SavesAll'
  BY <1>3, <1>5 DEF Load, Grade, Answer, JoinReturns, EvalOnly, rank_vars
<1>6. ASSUME Over \/ UNCHANGED vars PROVE SavesAll'
  BY <1>3, <1>6 DEF Over, vars, rank_vars
<1>. QED  BY <1>1, <1>2, <1>4, <1>5, <1>6 DEF Next

(* What is graded is every sample once, whatever ranks failed and whatever files earlier
   runs of the script with other numbers of ranks have left; and if all ranks of this
   run have saved, nothing of an earlier run is graded. *)
THEOREM GradedOnce == Spec => []MergedOnce
<1>0. Init => SavesAll
  BY DEF Init, SavesAll
<1>1. Init => MInv
  BY <1>0, IInvInit, FilesInit DEF MInv
<1>2. MInv /\ [Next]_vars => MInv'
  BY IInvNext, FilesNext, SavesNext DEF MInv
<1>3. MInv => MergedOnce
  BY DEF MInv, FilesInv
<1>. QED  BY <1>1, <1>2, <1>3, PTL DEF Spec
=============================================================================
