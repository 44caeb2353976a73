--------------------------- MODULE EvalPoolProofs ---------------------------
(***************************************************************************)
(* Proofs about EvalPool, for any number of samples, problems and workers  *)
(* and any order in which the calls complete: none outlives the            *)
(* evaluation, each is scored once, and each record has the code of its    *)
(* own sample unless the file numbers samples itself, and the score is the *)
(* share of draws with a passing sample.  In this it keeps what Evaluation *)
(* promises, and raises only for a reason.  Then about LeetCode: the       *)
(* script is such an evaluation, and its statistics are the score's.       *)
(***************************************************************************)
EXTENDS LeetCode, FiniteSetTheorems, TLAPS

Ended == {"returned", "raised"}

\* The inputs, which nothing changes.
Inputs ==
    /\ task \in Seq(Tasks) /\ problems \subseteq Tasks
    /\ given \in [Samples -> GivenIds \union {Absent}]

\* A sample that was handed to the pool waits, runs or has been judged.
InPool(s) == s \in running \/ (\E i \in DOMAIN queue : queue[i] = s) \/ verdict[s] # "none"

PoolHolds ==
    /\ position \in Nat /\ position <= N
    /\ verdict \in [Samples -> {"none", "passed", "failed", "raised"}]
    /\ queue \in Seq(1 .. position) /\ running \subseteq 1 .. position
    /\ \A s \in 1 .. position : InPool(s)
    /\ \A s \in Samples : verdict[s] # "none" => s <= position

\* Results are of samples that were judged, of each one at most.
ResultsOnce ==
    /\ results \in Seq(Samples)
    /\ \A i \in DOMAIN results : verdict[results[i]] # "none"
    /\ \A i, j \in DOMAIN results : results[i] = results[j] => i = j

\* What the Counter knows of the samples submitted.
Counts ==
    /\ completion_id \in [Tasks -> Nat] /\ id \in [Samples -> Nat]
    /\ \A s \in 1 .. position : task[s] \in problems
    /\ \A t \in Tasks : completion_id[t] > 0 => \E s \in 1 .. position : task[s] = t
    /\ \A s \in 1 .. position : given[s] = Absent => id[s] < completion_id[task[s]]
    /\ \A s, u \in 1 .. position :
         s # u /\ task[s] = task[u] /\ given[s] = Absent /\ given[u] = Absent => id[s] # id[u]

\* Under a task and an id the table has a sample that was submitted with both.
Table ==
    /\ keeps_samples /\ ~test_groundtruth =>
         \A s \in 1 .. position : <<task[s], id[s]>> \in DOMAIN id2samples
    /\ \A key \in DOMAIN id2samples :
         /\ id2samples[key] \in 1 .. position
         /\ key = <<task[id2samples[key]], id[id2samples[key]]>>

Records ==
    /\ sample_with_results \in Seq([of : Samples, generation : Samples])
    /\ RecordsOwn

\* What the stages of the main thread are behind.
MainKnows ==
    /\ main \in {"submit", "collect", "unwind"} \union Ended
    /\ main = "collect" => position = N
    /\ main = "submit" => ~evaluate_pass_at_k
    /\ evaluate_pass_at_k => \A t \in problems : SamplesOf(t) # {}

IInv == /\ Inputs /\ PoolHolds /\ ResultsOnce /\ Counts /\ Table /\ Records /\ MainKnows
        /\ NothingLeft /\ ScoreCountsAll

-----------------------------------------------------------------------------
(* Lists without repetition *)

(* A list of as many different numbers as there are has them all. *)
LEMMA ListIsPermutation ==
    ASSUME NEW n \in Nat, NEW f \in [1 .. n -> 1 .. n],
           \A i, j \in 1 .. n : f[i] = f[j] => i = j
    PROVE  \A s \in 1 .. n : \E i \in 1 .. n : f[i] = s
<1>1. IsFiniteSet(1 .. n)
  BY FS_Interval
<1>2. f \in Injection(1 .. n, 1 .. n)
  BY DEF Injection, IsInjective
<1>3. f \in Surjection(1 .. n, 1 .. n)
  BY <1>1, <1>2, FS_Injection
<1>. QED  BY <1>3 DEF Surjection

(* The entries of such a list that satisfy a condition are as many as the numbers that do. *)
LEMMA CountThroughList ==
    ASSUME NEW n \in Nat, NEW f \in [1 .. n -> 1 .. n],
           \A i, j \in 1 .. n : f[i] = f[j] => i = j,
           NEW S \in SUBSET (1 .. n)
    PROVE  Cardinality({i \in 1 .. n : f[i] \in S}) = Cardinality(S)
<1> DEFINE T == {i \in 1 .. n : f[i] \in S}
           g == [i \in T |-> f[i]]
<1>1. IsFiniteSet(T)
  BY FS_Interval, FS_Subset
<1>2. g \in Injection(T, S)
  BY DEF Injection, IsInjective
<1>3. g \in Surjection(T, S)
  <2>1. ASSUME NEW s \in S PROVE \E i \in T : g[i] = s
    <3>1. PICK i \in 1 .. n : f[i] = s
      BY ListIsPermutation
    <3>. QED  BY <3>1
  <2>2. g \in [T -> S]
    OBVIOUS
  <2>. QED  BY <2>1, <2>2 DEF Surjection
<1>4. ExistsBijection(T, S)
  BY <1>2, <1>3 DEF ExistsBijection, Bijection
<1>. QED  BY <1>1, <1>4, FS_Bijection

-----------------------------------------------------------------------------
(* The invariant *)

LEMMA IInvInit == Init => IInv
<1> SUFFICES ASSUME Init PROVE IInv
  OBVIOUS
<1>1. problems \subseteq Tasks /\ IsFiniteSet(problems) /\ Cardinality(problems) \in Nat
  BY PoolAssumption, FS_Subset, FS_CardinalityType DEF Init
<1>2. \E n \in Nat : task \in [1 .. n -> Tasks] /\ given \in [1 .. n -> GivenIds \union {Absent}]
  <2>1. CASE test_groundtruth
    BY <1>1, <2>1 DEF Init, Samples
  <2>2. CASE ~test_groundtruth
    BY <2>2, PoolAssumption DEF Init
  <2>. QED  BY <2>1, <2>2
<1>3. Inputs /\ N \in Nat /\ Samples = 1 .. N
  BY <1>1, <1>2 DEF Inputs, Samples, N
<1>4. PoolHolds /\ ResultsOnce
  BY <1>3 DEF Init, PoolHolds, ResultsOnce
<1>5. Counts /\ Table /\ Records
  BY <1>3 DEF Init, Counts, Table, Records, RecordsOwn
<1>6. MainKnows /\ NothingLeft /\ ScoreCountsAll
  BY DEF Init, MainKnows, NothingLeft, ScoreCountsAll, Ended
<1>. QED  BY <1>3, <1>4, <1>5, <1>6 DEF IInv

(* What never changes, in the form the steps use. *)
LEMMA Shape ==
    ASSUME Inputs
    PROVE  /\ N \in Nat /\ Samples = 1 .. N
           /\ \A s \in Samples : task[s] \in Tasks
           /\ \A s \in Samples : given[s] \in Nat \union {Absent}
<1>1. \A s \in Samples : given[s] \in GivenIds \union {Absent}
  BY DEF Inputs
<1>2. \A s \in Samples : given[s] \in Nat \union {Absent}
  BY <1>1, PoolAssumption, Zenon
<1>. QED  BY <1>2 DEF Inputs, N, Samples

(* Inputs stay, and with them all that is defined from them. *)
LEMMA InputsStay ==
    ASSUME Inputs, UNCHANGED input
    PROVE  Inputs' /\ N' = N /\ Samples' = Samples
BY DEF Inputs, input, N, Samples

LEMMA SubmitStep == IInv /\ Submit => IInv'
<1> SUFFICES ASSUME IInv, Submit PROVE IInv'
  OBVIOUS
<1> DEFINE s == position + 1
           key == <<task[s], CompletionId(s)>>
<1>1. /\ Inputs /\ UNCHANGED input /\ main = "submit" /\ main' = "submit"
      /\ UNCHANGED <<running, verdict, results, sample_with_results, evaluate_pass_at_k, pass_at_k>>
  BY DEF IInv, Submit, MainOnly
<1>2. /\ Inputs' /\ N' = N /\ Samples' = Samples /\ N \in Nat /\ Samples = 1 .. N
      /\ \A u \in Samples : task[u] \in Tasks /\ given[u] \in Nat \union {Absent}
  BY <1>1, InputsStay, Shape
<1>3. /\ position \in Nat /\ s \in Samples /\ position' = s /\ task[s] \in problems
      /\ task' = task /\ problems' = problems /\ given' = given
      /\ 1 .. s = (1 .. position) \union {s} /\ s \notin 1 .. position
  BY <1>1, <1>2 DEF IInv, PoolHolds, Submit, input
<1>4. PoolHolds'
  <2>1. /\ queue \in Seq(1 .. position) /\ queue' = Append(queue, s)
        /\ running \subseteq 1 .. position /\ verdict \in [Samples -> {"none", "passed", "failed", "raised"}]
        /\ \A u \in 1 .. position : InPool(u)
        /\ \A u \in Samples : verdict[u] # "none" => u <= position
    BY DEF IInv, PoolHolds, Submit
  <2>2. queue' \in Seq(1 .. s) /\ queue'[Len(queue) + 1] = s /\ Len(queue') = Len(queue) + 1
        /\ \A i \in DOMAIN queue : i \in DOMAIN queue' /\ queue'[i] = queue[i]
    BY <1>3, <2>1
  <2>3. \A u \in 1 .. s : InPool(u)'
    BY <1>1, <1>3, <2>1, <2>2 DEF InPool
  <2>. QED  BY <1>1, <1>2, <1>3, <2>1, <2>2, <2>3 DEF PoolHolds
<1>5. ResultsOnce'
  BY <1>1, <1>2 DEF IInv, ResultsOnce
<1>6. /\ id' = [id EXCEPT ![s] = CompletionId(s)]
      /\ completion_id' = [completion_id EXCEPT ![task[s]] = @ + 1]
      /\ completion_id \in [Tasks -> Nat] /\ id \in [Samples -> Nat]
      /\ task[s] \in Tasks /\ CompletionId(s) \in Nat
      /\ given[s] = Absent => CompletionId(s) = completion_id[task[s]]
  BY <1>2, <1>3 DEF IInv, Counts, Submit, CompletionId
<1>7. Counts'
  <2>1. completion_id' \in [Tasks -> Nat] /\ id' \in [Samples -> Nat]
    <3> DEFINE c == completion_id[task[s]] + 1
    <3>1. c \in Nat /\ completion_id' = [completion_id EXCEPT ![task[s]] = c]
      BY <1>6
    <3> HIDE DEF c
    <3>2. completion_id' \in [Tasks -> Nat]
      BY <1>6, <3>1
    <3>3. id' \in [Samples -> Nat]
      BY <1>6
    <3>. QED  BY <3>2, <3>3
  <2>2. \A u \in 1 .. s : task[u] \in problems
    BY <1>3 DEF IInv, Counts
  <2>3. \A t \in Tasks : completion_id'[t] > 0 => \E u \in 1 .. s : task[u] = t
    BY <1>3, <1>6 DEF IInv, Counts
  <2>4. ASSUME NEW u \in 1 .. s, given[u] = Absent PROVE id'[u] < completion_id'[task[u]]
    <3>1. CASE u = s
      BY <1>3, <1>6, <2>4, <3>1
    <3>2. CASE u \in 1 .. position
      <4>1. id[u] < completion_id[task[u]] /\ task[u] \in Tasks /\ u \in Samples /\ u # s
        BY <1>2, <1>3, <2>4, <3>2 DEF IInv, Counts
      <4>2. id'[u] = id[u] /\ completion_id'[task[u]] >= completion_id[task[u]]
        BY <1>6, <4>1
      <4>. QED  BY <1>6, <2>1, <4>1, <4>2
    <3>. QED  BY <1>3, <3>1, <3>2
  <2>5. ASSUME NEW u \in 1 .. s, NEW w \in 1 .. s, u # w, task[u] = task[w],
               given[u] = Absent, given[w] = Absent
        PROVE  id'[u] # id'[w]
    <3>1. \A x \in 1 .. position : x \in Samples /\ id'[x] = id[x] /\ id[x] \in Nat
      BY <1>2, <1>3, <1>6
    <3>2. ASSUME NEW x \in 1 .. position, task[x] = task[s], given[x] = Absent, given[s] = Absent
          PROVE  id'[x] # id'[s]
      <4>1. id[x] < completion_id[task[s]]
        BY <3>2 DEF IInv, Counts
      <4>2. id'[s] = completion_id[task[s]] /\ completion_id[task[s]] \in Nat
        BY <1>3, <1>6, <3>2
      <4>. QED  BY <3>1, <4>1, <4>2
    <3>. QED  BY <1>3, <2>5, <3>1, <3>2 DEF IInv, Counts
  <2>. QED  BY <1>2, <1>3, <2>1, <2>2, <2>3, <2>4, <2>5 DEF Counts
<1>8. Table'
  <2>1. \A u \in 1 .. position : id'[u] = id[u] /\ u \in Samples
    BY <1>2, <1>3, <1>6
  <2>2. id'[s] = CompletionId(s)
    BY <1>3, <1>6
  <2>3. keeps_samples' = keeps_samples /\ test_groundtruth' = test_groundtruth
    BY <1>1 DEF input
  <2>4. CASE keeps_samples /\ ~test_groundtruth
    <3>1. /\ DOMAIN id2samples' = {key} \union DOMAIN id2samples
          /\ \A k \in {key} \union DOMAIN id2samples :
               id2samples'[k] = IF k = key THEN s ELSE id2samples[k]
      BY <2>4 DEF Submit
    <3>2. \A u \in 1 .. s : <<task[u], id'[u]>> \in DOMAIN id2samples'
      BY <1>3, <2>1, <2>2, <2>4, <3>1 DEF IInv, Table
    <3>3. ASSUME NEW k \in DOMAIN id2samples'
          PROVE  id2samples'[k] \in 1 .. s /\ k = <<task[id2samples'[k]], id'[id2samples'[k]]>>
      <4>1. CASE k = key
        BY <1>3, <2>2, <3>1, <4>1
      <4>2. CASE k # key
        <5>1. /\ k \in DOMAIN id2samples /\ id2samples'[k] = id2samples[k]
              /\ id2samples[k] \in 1 .. position
              /\ k = <<task[id2samples[k]], id[id2samples[k]]>>
          BY <3>1, <3>3, <4>2 DEF IInv, Table
        <5>. QED  BY <1>3, <2>1, <5>1
      <4>. QED  BY <4>1, <4>2
    <3>. QED  BY <1>3, <2>3, <3>2, <3>3 DEF Table
  <2>5. CASE ~(keeps_samples /\ ~test_groundtruth)
    <3>1. id2samples' = id2samples
      BY <2>5 DEF Submit
    <3>. QED  BY <1>3, <2>1, <2>3, <2>5, <3>1 DEF IInv, Table
  <2>. QED  BY <2>4, <2>5
<1>9. Records'
  BY <1>1, <1>2, <1>3 DEF IInv, Records, RecordsOwn
<1>10. MainKnows'
  BY <1>1, <1>3 DEF IInv, MainKnows, Ended
<1>11. NothingLeft' /\ ScoreCountsAll'
  BY <1>1 DEF NothingLeft, ScoreCountsAll
<1>. QED  BY <1>2, <1>4, <1>5, <1>7, <1>8, <1>9, <1>10, <1>11 DEF IInv

(* A step that leaves samples, ids and records alone keeps what is said of them. *)
LEMMA RestStays ==
    ASSUME IInv, UNCHANGED <<input, position, completion_id, id, id2samples, sample_with_results>>
    PROVE  Inputs' /\ Counts' /\ Table' /\ Records' /\ N' = N /\ Samples' = Samples
<1>1. Inputs' /\ N' = N /\ Samples' = Samples
  BY InputsStay DEF IInv
<1>2. Counts' /\ Table' /\ Records'
  BY <1>1 DEF IInv, Counts, Table, Records, RecordsOwn, input
<1>. QED  BY <1>1, <1>2

(* A step that leaves the pool and the results alone. *)
LEMMA PoolStays ==
    ASSUME IInv, UNCHANGED <<input, position, pool, results>>
    PROVE  PoolHolds' /\ ResultsOnce'
BY InputsStay DEF IInv, PoolHolds, ResultsOnce, InPool, pool

LEMMA LeaveLoop == IInv /\ (SubmitFails \/ AllSubmitted) => IInv'
<1> SUFFICES ASSUME IInv, SubmitFails \/ AllSubmitted PROVE IInv'
  OBVIOUS
<1>1. /\ UNCHANGED <<input, position, completion_id, id, id2samples, sample_with_results>>
      /\ UNCHANGED <<pool, results, pass_at_k>> /\ main' \in {"unwind", "collect"}
  BY DEF SubmitFails, AllSubmitted, MainOnly, pool
<1>2. Inputs' /\ Counts' /\ Table' /\ Records' /\ N' = N /\ Samples' = Samples
  BY <1>1, RestStays
<1>3. PoolHolds' /\ ResultsOnce'
  BY <1>1, PoolStays
<1>4. MainKnows'
  <2>1. CASE SubmitFails
    BY <2>1, <1>2 DEF SubmitFails, IInv, MainKnows, Ended, MainOnly, input, SamplesOf
  <2>2. CASE AllSubmitted
    <3>1. /\ main' = "collect" /\ position' = N' /\ problems' = problems /\ task' = task
          /\ evaluate_pass_at_k' = CoversProblems
      BY <2>2, <1>2 DEF AllSubmitted, MainOnly, input
    <3>2. N \in Nat /\ Samples = 1 .. N /\ position = N
      BY <2>2, Shape DEF IInv, AllSubmitted
    <3>3. Counted \subseteq problems
      BY <3>2, Shape DEF Counted, IInv, Counts
    <3>4. IsFiniteSet(problems)
      BY PoolAssumption, FS_Subset DEF IInv, Inputs
    <3>5. ASSUME CoversProblems PROVE \A t \in problems : SamplesOf(t) # {}
      <4>1. Counted = problems
        BY <3>3, <3>4, <3>5, FS_Subset DEF CoversProblems
      <4>2. \A t \in Counted : \E s \in Samples : task[s] = t
        BY <3>2 DEF Counted, IInv, Counts
      <4>. QED  BY <4>1, <4>2 DEF SamplesOf
    <3>6. evaluate_pass_at_k' => \A t \in problems : SamplesOf(t)' # {}
      BY <1>2, <3>1, <3>5 DEF SamplesOf
    <3>. QED  BY <3>1, <3>6 DEF MainKnows
  <2>. QED  BY <2>1, <2>2
<1>5. NothingLeft' /\ ScoreCountsAll'
  BY <1>1 DEF NothingLeft, ScoreCountsAll
<1>. QED  BY <1>2, <1>3, <1>4, <1>5 DEF IInv

(* The table has, for a sample without a given id, nobody else's code. *)
LEMMA TableTrue ==
    ASSUME IInv, keeps_samples, ~test_groundtruth, NEW s \in 1 .. position
    PROVE  LET g == id2samples[<<task[s], id[s]>>]
           IN  /\ g \in Samples
               /\ g # s => /\ task[g] = task[s]
                           /\ given[g] # Absent \/ given[s] # Absent
<1> DEFINE g == id2samples[<<task[s], id[s]>>]
<1>1. g \in 1 .. position /\ <<task[s], id[s]>> = <<task[g], id[g]>>
  BY DEF IInv, Table
<1>2. 1 .. position \subseteq Samples
  BY Shape DEF IInv, PoolHolds
<1>3. task[g] = task[s] /\ id[g] = id[s]
  BY <1>1
<1> HIDE DEF g
<1>4. g # s => given[g] # Absent \/ given[s] # Absent
  BY <1>1, <1>3 DEF IInv, Counts
<1>. QED  BY <1>1, <1>2, <1>3, <1>4 DEF g

LEMMA CollectStep == ASSUME IInv, NEW s \in Samples, Collect(s) PROVE IInv'
<1>1. /\ UNCHANGED <<input, position, completion_id, id, id2samples, pool, evaluate_pass_at_k>>
      /\ main = "collect" /\ main' \in {"collect", "unwind"}
      /\ s \notin Collected /\ verdict[s] # "none"
      /\ results' = results \/ results' = Append(results, s)
  BY DEF Collect, MainOnly, pool, Ready
<1>2. /\ Inputs /\ Inputs' /\ N' = N /\ Samples' = Samples /\ Counts'
      /\ N \in Nat /\ Samples = 1 .. N /\ s \in 1 .. position
  BY <1>1, InputsStay, Shape DEF IInv, Counts, PoolHolds, input
<1>3. PoolHolds' /\ Table'
  BY <1>1, <1>2 DEF IInv, PoolHolds, InPool, Table, pool, input
<1>4. ResultsOnce'
  <2>1. CASE results' = results
    BY <1>1, <1>2, <2>1 DEF IInv, ResultsOnce, pool
  <2>2. CASE results' = Append(results, s)
    <3>1. /\ results \in Seq(Samples) /\ Len(results) \in Nat
          /\ \A i \in DOMAIN results : verdict[results[i]] # "none" /\ results[i] # s
          /\ \A i, j \in DOMAIN results : results[i] = results[j] => i = j
      BY <1>1 DEF IInv, ResultsOnce, Collected
    <3>2. /\ results' \in Seq(Samples) /\ results'[Len(results) + 1] = s
          /\ DOMAIN results' = DOMAIN results \union {Len(results) + 1}
          /\ \A i \in DOMAIN results : results'[i] = results[i]
      BY <2>2, <3>1
    <3>. QED  BY <1>1, <1>2, <3>1, <3>2 DEF ResultsOnce, pool
  <2>. QED  BY <1>1, <2>1, <2>2
<1>5. Records'
  <2>1. CASE sample_with_results' = sample_with_results
    BY <1>1, <1>2, <2>1 DEF IInv, Records, RecordsOwn, input
  <2>2. CASE sample_with_results' # sample_with_results
    <3> DEFINE g == id2samples[<<task[s], id[s]>>]
               r == [of |-> s, generation |-> g]
    <3>1. /\ keeps_samples /\ ~test_groundtruth
          /\ sample_with_results' = Append(sample_with_results, r)
      BY <2>2 DEF Collect
    <3>2. /\ g \in Samples
          /\ g # s => task[g] = task[s] /\ (given[g] # Absent \/ given[s] # Absent)
      BY <1>2, <3>1, TableTrue
    <3> HIDE DEF g
    <3>3. r \in [of : Samples, generation : Samples]
      BY <3>2
    <3>4. /\ sample_with_results \in Seq([of : Samples, generation : Samples])
          /\ RecordsOwn
      BY DEF IInv, Records
    <3> HIDE DEF r
    <3>5. /\ sample_with_results' \in Seq([of : Samples, generation : Samples])
          /\ DOMAIN sample_with_results' = DOMAIN sample_with_results \union {Len(sample_with_results) + 1}
          /\ sample_with_results'[Len(sample_with_results) + 1] = r
          /\ \A i \in DOMAIN sample_with_results : sample_with_results'[i] = sample_with_results[i]
      BY <3>1, <3>3, <3>4
    <3>6. r.of = s /\ r.generation = g
      BY DEF r
    <3>7. task' = task /\ given' = given
      BY <1>1 DEF input
    <3>8. RecordsOwn'
      BY <3>2, <3>4, <3>5, <3>6, <3>7 DEF RecordsOwn
    <3>. QED  BY <1>2, <3>5, <3>8 DEF Records
  <2>. QED  BY <2>1, <2>2
<1>6. MainKnows'
  BY <1>1, <1>2 DEF IInv, MainKnows, Ended, SamplesOf, input
<1>7. NothingLeft' /\ ScoreCountsAll'
  BY <1>1 DEF NothingLeft, ScoreCountsAll
<1>. QED  BY <1>2, <1>3, <1>4, <1>5, <1>6, <1>7 DEF IInv

(* Once as many results are collected as there are samples, they are all of them. *)
LEMMA AllAreCollected ==
    ASSUME IInv, AllCollected
    PROVE  /\ position = N
           /\ \A s \in Samples : verdict[s] # "none"
           /\ \A t \in Tasks : Total(t) = Cardinality(SamplesOf(t))
           /\ evaluate_pass_at_k => Scored = problems
<1>1. /\ N \in Nat /\ Samples = 1 .. N /\ position = N /\ Len(results) = N
      /\ results \in [1 .. N -> 1 .. N] /\ DOMAIN results = 1 .. N
      /\ \A i \in 1 .. N : verdict[results[i]] # "none"
      /\ \A i, j \in 1 .. N : results[i] = results[j] => i = j
  <2>1. N \in Nat /\ Samples = 1 .. N
    BY Shape DEF IInv
  <2>2. position = N /\ Len(results) = N
    BY DEF IInv, AllCollected, MainKnows
  <2>3. /\ results \in Seq(1 .. N)
        /\ \A i \in DOMAIN results : verdict[results[i]] # "none"
        /\ \A i, j \in DOMAIN results : results[i] = results[j] => i = j
    BY <2>1 DEF IInv, ResultsOnce
  <2>4. results \in [1 .. N -> 1 .. N] /\ DOMAIN results = 1 .. N
    BY <2>1, <2>2, <2>3
  <2>. QED  BY <2>1, <2>2, <2>3, <2>4
<1>2. \A s \in 1 .. N : \E i \in 1 .. N : results[i] = s
  BY <1>1, ListIsPermutation
<1>3. \A s \in Samples : verdict[s] # "none"
  BY <1>1, <1>2
<1>4. ASSUME NEW t \in Tasks PROVE Total(t) = Cardinality(SamplesOf(t))
  <2>1. SamplesOf(t) \subseteq 1 .. N
    BY <1>1 DEF SamplesOf
  <2>2. Cardinality({i \in 1 .. N : results[i] \in SamplesOf(t)}) = Cardinality(SamplesOf(t))
    BY <1>1, <2>1, CountThroughList
  <2>3. {i \in 1 .. N : results[i] \in SamplesOf(t)} = {i \in DOMAIN results : task[results[i]] = t}
    BY <1>1 DEF SamplesOf
  <2>. QED  BY <2>2, <2>3 DEF Total
<1>5. ASSUME evaluate_pass_at_k PROVE Scored = problems
  <2>1. Scored \subseteq problems
    BY <1>1 DEF Scored, IInv, Counts
  <2>2. ASSUME NEW t \in problems PROVE t \in Scored
    <3>1. PICK s \in Samples : task[s] = t
      BY <1>5 DEF IInv, MainKnows, SamplesOf
    <3>2. PICK i \in 1 .. N : results[i] = s
      BY <1>1, <1>2
    <3>. QED  BY <1>1, <3>1, <3>2 DEF Scored
  <2>. QED  BY <2>1, <2>2
<1>. QED  BY <1>1, <1>3, <1>4, <1>5

LEMMA ScoreStep == IInv /\ Score => IInv'
<1> SUFFICES ASSUME IInv, Score PROVE IInv'
  OBVIOUS
<1>1. /\ UNCHANGED <<input, position, completion_id, id, id2samples, sample_with_results>>
      /\ UNCHANGED <<pool, results, evaluate_pass_at_k>>
      /\ main' = IF evaluate_pass_at_k THEN "returned" ELSE "raised"
      /\ AllCollected
  BY DEF Score, MainOnly, pool
<1>2. Inputs' /\ Counts' /\ Table' /\ Records' /\ N' = N /\ Samples' = Samples
  BY <1>1, RestStays
<1>3. PoolHolds' /\ ResultsOnce'
  BY <1>1, PoolStays
<1>4. MainKnows'
  BY <1>1, <1>2 DEF IInv, MainKnows, Ended, SamplesOf, input
<1>5. NothingLeft'
  BY <1>1, AllAreCollected, Shape DEF IInv, NothingLeft, pool
<1>6. ScoreCountsAll'
  <2> SUFFICES ASSUME evaluate_pass_at_k PROVE ScoreCountsAll'
    BY <1>1 DEF ScoreCountsAll
  <2>1. /\ task' = task /\ problems' = problems /\ results' = results
        /\ \A t \in Tasks : Total(t)' = Total(t) /\ SamplesOf(t)' = SamplesOf(t)
    BY <1>1, <1>2 DEF input, Total, SamplesOf
  <2>2. \A t \in problems : SamplesOf(t) # {}
    BY DEF IInv, MainKnows
  <2>3. DOMAIN pass_at_k' = {k \in Ks : \A t \in Scored : Total(t) >= k}
    BY DEF Score
  <2>4. Scored = problems /\ \A t \in Tasks : Total(t) = Cardinality(SamplesOf(t))
    BY <1>1, AllAreCollected
  <2>5. problems \subseteq Tasks
    BY DEF IInv, Inputs
  <2>6. DOMAIN pass_at_k' = {k \in Ks : \A t \in problems : Cardinality(SamplesOf(t)) >= k}
    BY <2>3, <2>4, <2>5
  <2>. QED  BY <2>1, <2>2, <2>4, <2>5, <2>6 DEF ScoreCountsAll
<1>. QED  BY <1>2, <1>3, <1>4, <1>5, <1>6 DEF IInv

LEMMA UnwindStep == IInv /\ Unwind => IInv'
<1> SUFFICES ASSUME IInv, Unwind PROVE IInv'
  OBVIOUS
<1>1. /\ UNCHANGED <<input, position, completion_id, id, id2samples, sample_with_results>>
      /\ UNCHANGED <<pool, results, evaluate_pass_at_k>> /\ main' = "raised"
      /\ queue = <<>> /\ running = {}
  BY DEF Unwind, MainOnly, pool
<1>2. Inputs' /\ Counts' /\ Table' /\ Records' /\ N' = N /\ Samples' = Samples
  BY <1>1, RestStays
<1>3. PoolHolds' /\ ResultsOnce'
  BY <1>1, PoolStays
<1>4. MainKnows'
  BY <1>1, <1>2 DEF IInv, MainKnows, Ended, SamplesOf, input
<1>5. NothingLeft'
  BY <1>1 DEF IInv, PoolHolds, InPool, NothingLeft, pool
<1>6. ScoreCountsAll'
  BY <1>1 DEF ScoreCountsAll
<1>. QED  BY <1>2, <1>3, <1>4, <1>5, <1>6 DEF IInv

(* The pool's own steps judge samples; what main knows stays. *)
LEMMA PoolStep ==
    ASSUME IInv, PoolOnly, PoolHolds', \A s \in Samples : verdict[s] # "none" => verdict'[s] # "none"
    PROVE  IInv'
<1>1. /\ UNCHANGED <<input, position, completion_id, id, id2samples, sample_with_results>>
      /\ UNCHANGED <<results, main, evaluate_pass_at_k, pass_at_k>>
  BY DEF PoolOnly
<1>2. Inputs' /\ Counts' /\ Table' /\ Records' /\ N' = N /\ Samples' = Samples
  BY <1>1, RestStays
<1>3. ResultsOnce'
  BY <1>1, <1>2 DEF IInv, ResultsOnce
<1>4. MainKnows'
  BY <1>1, <1>2 DEF IInv, MainKnows, SamplesOf, input
<1>5. NothingLeft'
  <2>1. 1 .. position \subseteq Samples
    BY Shape DEF IInv, PoolHolds
  <2>. QED  BY <1>1, <2>1 DEF IInv, NothingLeft
<1>6. ScoreCountsAll'
  BY <1>1, <1>2 DEF IInv, ScoreCountsAll, Total, SamplesOf, input
<1>. QED  BY <1>2, <1>3, <1>4, <1>5, <1>6 DEF IInv

LEMMA StartStep == IInv /\ Start => IInv'
<1> SUFFICES ASSUME IInv, Start PROVE IInv'
  OBVIOUS
<1>1. /\ queue # <<>> /\ queue' = Tail(queue) /\ running' = running \union {Head(queue)}
      /\ PoolOnly /\ verdict' = verdict
  BY DEF Start
<1>2. /\ position' = position /\ N' = N /\ Samples' = Samples
  BY <1>1, InputsStay DEF PoolOnly, IInv
<1>3. /\ queue \in Seq(1 .. position) /\ Head(queue) = queue[1] /\ Head(queue) \in 1 .. position
      /\ queue' \in Seq(1 .. position)
      /\ \A i \in DOMAIN queue : i # 1 => i - 1 \in DOMAIN queue' /\ queue'[i - 1] = queue[i]
  BY <1>1 DEF IInv, PoolHolds
<1>4. \A s \in 1 .. position : InPool(s)'
  <2> SUFFICES ASSUME NEW s \in 1 .. position PROVE InPool(s)'
    OBVIOUS
  <2>1. InPool(s)
    BY DEF IInv, PoolHolds
  <2>. QED  BY <1>1, <1>3, <2>1 DEF InPool
<1>5. PoolHolds'
  BY <1>1, <1>2, <1>3, <1>4 DEF IInv, PoolHolds
<1>. QED  BY <1>1, <1>5, PoolStep

LEMMA FinishStep == ASSUME IInv, NEW s \in Samples, Finish(s) PROVE IInv'
<1>1. PICK v \in {"passed", "failed", "raised"} : verdict' = [verdict EXCEPT ![s] = v]
  BY DEF Finish
<1>2. /\ s \in running /\ running' = running \ {s} /\ queue' = queue /\ PoolOnly
  BY DEF Finish
<1>3. /\ position' = position /\ N' = N /\ Samples' = Samples
  BY <1>2, InputsStay DEF PoolOnly, IInv
<1>4. /\ verdict \in [Samples -> {"none", "passed", "failed", "raised"}]
      /\ verdict'[s] # "none" /\ \A u \in Samples : u # s => verdict'[u] = verdict[u]
      /\ verdict' \in [Samples -> {"none", "passed", "failed", "raised"}]
  BY <1>1 DEF IInv, PoolHolds
<1>5. 1 .. position \subseteq Samples /\ s \in 1 .. position
  BY <1>2, Shape DEF IInv, PoolHolds
<1>6. \A u \in 1 .. position : InPool(u)'
  BY <1>2, <1>4, <1>5 DEF IInv, PoolHolds, InPool
<1>7. PoolHolds'
  BY <1>2, <1>3, <1>4, <1>5, <1>6 DEF IInv, PoolHolds
<1>. QED  BY <1>2, <1>4, <1>7, PoolStep

LEMMA IInvNext == IInv /\ [Next]_vars => IInv'
<1> SUFFICES ASSUME IInv, [Next]_vars PROVE IInv'
  OBVIOUS
<1>1. ASSUME UNCHANGED vars PROVE IInv'
  <2>1. UNCHANGED <<input, position, completion_id, id, id2samples, sample_with_results,
                    pool, results, main, evaluate_pass_at_k, pass_at_k>>
    BY <1>1 DEF vars
  <2>2. PoolHolds'
    BY <2>1, PoolStays
  <2>. QED  BY <2>1, <2>2, PoolStep DEF PoolOnly, pool
<1>. QED
  BY <1>1, SubmitStep, LeaveLoop, CollectStep, ScoreStep, UnwindStep, StartStep, FinishStep
  DEF Next, Main, Over

LEMMA InvariantHolds == Init /\ [][Next]_vars => []IInv
BY IInvInit, IInvNext, PTL

-----------------------------------------------------------------------------
(* The script around the evaluation *)

(* A step of the script is a step of the evaluation or leaves it alone. *)
LEMMA ScriptStep == [ScriptNext]_all_vars => [Next]_vars
<1>1. ASSUME Evaluate(Next) PROVE Next
  BY <1>1 DEF Evaluate
<1>2. ASSUME Extract \/ BadRow \/ Count \/ Report \/ Propagate \/ Finished \/ UNCHANGED all_vars
      PROVE  UNCHANGED vars
  BY <1>2 DEF Extract, BadRow, Count, Report, Propagate, Finished, all_vars
<1>. QED  BY <1>1, <1>2 DEF ScriptNext

LEMMA ScriptKeepsIInv == ScriptSpec => []IInv
<1>1. ScriptInit => Init
  BY DEF ScriptInit
<1>. QED  BY <1>1, ScriptStep, InvariantHolds, PTL DEF ScriptSpec

\* The statistics are those of the samples.
StatsTrue ==
    \A d \in Difficulties :
        LET own == {s \in Samples : Difficulty(task[s]) = d}
        IN  /\ hardness_results[d].total = Cardinality(own)
            /\ hardness_results[d].correct = Cardinality({s \in own : verdict[s] = "passed"})

\* The records are of the results, in their order, and the file has them all when
\* the evaluation has returned.
ScriptInv ==
    /\ script \in {"none", "extract", "evaluate", "print", "done", "failed", "rejected"}
    /\ script # "none" => keeps_samples /\ ~test_groundtruth /\ problems = Tasks
    /\ script = "extract" => main = "submit"
    /\ keeps_samples /\ ~test_groundtruth =>
         /\ Len(sample_with_results) = Len(results)
         /\ \A i \in DOMAIN results : sample_with_results[i].of = results[i]
    /\ main = "returned" => Len(results) = N
    /\ script = "evaluate" /\ main = "returned" => result_file = sample_with_results
    /\ script \in {"print", "done"} => main = "returned" /\ StatsTrue
    /\ script = "failed" => main = "raised"

LEMMA ScriptInvInit == ScriptInit => ScriptInv
BY DEF ScriptInit, Init, ScriptInv

LEMMA EvaluateStep == IInv /\ IInv' /\ ScriptInv /\ Evaluate(Next) => ScriptInv'
<1> SUFFICES ASSUME IInv, IInv', ScriptInv, Evaluate(Next) PROVE ScriptInv'
  OBVIOUS
<1>1. /\ Next /\ script \in {"none", "evaluate"} /\ script' = script
      /\ result_file' = IF script = "evaluate" /\ AllCollected THEN sample_with_results
                        ELSE result_file
  BY DEF Evaluate
<1>2. UNCHANGED input
  BY <1>1 DEF Next, Main, Submit, SubmitFails, AllSubmitted, Collect, Score, Unwind, MainOnly,
              Start, Finish, PoolOnly, Over, vars
<1>3. /\ N' = N /\ keeps_samples' = keeps_samples /\ test_groundtruth' = test_groundtruth
      /\ problems' = problems
  BY <1>2, InputsStay DEF input, IInv
<1>4. /\ results \in Seq(Samples)
      /\ sample_with_results \in Seq([of : Samples, generation : Samples])
  BY DEF IInv, ResultsOnce, Records
<1>5. ASSUME NEW s \in Samples, Collect(s) PROVE ScriptInv'
  <2>1. main = "collect" /\ main' \in {"collect", "unwind"}
    BY <1>5 DEF Collect
  <2>2. ASSUME keeps_samples, ~test_groundtruth
        PROVE  /\ Len(sample_with_results') = Len(results')
               /\ \A i \in DOMAIN results' : sample_with_results'[i].of = results'[i]
    <3>1. CASE verdict[s] = "raised"
      BY <1>5, <2>2, <3>1 DEF Collect, ScriptInv
    <3>2. CASE verdict[s] # "raised"
      <4> DEFINE r == [of |-> s, generation |-> id2samples[<<task[s], id[s]>>]]
      <4>1. results' = Append(results, s) /\ sample_with_results' = Append(sample_with_results, r)
        BY <1>5, <2>2, <3>2 DEF Collect
      <4>2. r.of = s
        OBVIOUS
      <4> HIDE DEF r
      <4>3. /\ Len(sample_with_results) = Len(results)
            /\ \A i \in DOMAIN results : sample_with_results[i].of = results[i]
        BY <2>2 DEF ScriptInv
      <4>. QED  BY <1>4, <4>1, <4>2, <4>3
    <3>. QED  BY <3>1, <3>2
  <2>. QED  BY <1>1, <1>3, <2>1, <2>2 DEF ScriptInv
<1>6. CASE Score
  <2>1. AllCollected /\ results' = results /\ sample_with_results' = sample_with_results
    BY <1>6 DEF Score
  <2>. QED  BY <1>1, <1>3, <2>1 DEF ScriptInv, AllCollected
<1>7. ASSUME UNCHANGED <<results, sample_with_results>>,
             main' = "returned" => main = "returned"
      PROVE  ScriptInv'
  BY <1>1, <1>3, <1>7 DEF ScriptInv, AllCollected
<1>8. CASE Submit \/ SubmitFails \/ AllSubmitted \/ Unwind
  BY <1>7, <1>8 DEF Submit, SubmitFails, AllSubmitted, Unwind
<1>9. ASSUME Start \/ (\E s \in Samples : Finish(s)) \/ Over PROVE ScriptInv'
  BY <1>7, <1>9 DEF Start, Finish, PoolOnly, Over, vars
<1>. QED  BY <1>1, <1>5, <1>6, <1>8, <1>9 DEF Next, Main

(* The records of a difficulty are as many as its samples. *)
LEMMA CountStep == IInv /\ ScriptInv /\ Count => StatsTrue'
<1> SUFFICES ASSUME IInv, ScriptInv, Count, NEW d \in Difficulties
             PROVE  LET own == {s \in Samples : Difficulty(task[s]) = d}
                    IN  /\ hardness_results'[d].total = Cardinality(own)
                        /\ hardness_results'[d].correct =
                             Cardinality({s \in own : verdict[s] = "passed"})
  BY DEF StatsTrue, Count, vars, input, pool, Samples
<1> DEFINE own  == {s \in Samples : Difficulty(task[s]) = d}
           good == {s \in own : verdict[s] = "passed"}
<1>1. N \in Nat /\ Samples = 1 .. N
  BY Shape DEF IInv
<1>2. /\ script = "evaluate" /\ main = "returned"
      /\ hardness_results'[d] =
           [total |-> Cardinality(CountOf(d)),
            correct |-> Cardinality({i \in CountOf(d) : Passed(result_file[i])})]
  BY DEF Count
<1>3. /\ Len(results) = N /\ result_file = sample_with_results
      /\ Len(sample_with_results) = Len(results)
      /\ \A i \in DOMAIN results : sample_with_results[i].of = results[i]
  BY <1>2 DEF ScriptInv
<1>4. /\ results \in Seq(1 .. N)
      /\ \A i, j \in DOMAIN results : results[i] = results[j] => i = j
      /\ sample_with_results \in Seq([of : Samples, generation : Samples])
  BY <1>1 DEF IInv, ResultsOnce, Records
<1>5. /\ results \in [1 .. N -> 1 .. N] /\ DOMAIN results = 1 .. N /\ DOMAIN result_file = 1 .. N
  BY <1>1, <1>3, <1>4
<1>6. CountOf(d) = {i \in 1 .. N : results[i] \in own}
  BY <1>1, <1>3, <1>5 DEF CountOf
<1>7. {i \in CountOf(d) : Passed(result_file[i])} = {i \in 1 .. N : results[i] \in good}
  BY <1>3, <1>5, <1>6 DEF Passed
<1>8. own \subseteq 1 .. N /\ good \subseteq 1 .. N
  BY <1>1
<1> HIDE DEF own, good
<1>9. ASSUME NEW S \in SUBSET (1 .. N)
      PROVE  Cardinality({i \in 1 .. N : results[i] \in S}) = Cardinality(S)
  <2>1. N \in Nat
    BY <1>1
  <2>2. results \in [1 .. N -> 1 .. N]
    BY <1>5
  <2>3. \A i, j \in 1 .. N : results[i] = results[j] => i = j
    BY <1>4, <1>5
  <2>. QED  BY <2>1, <2>2, <2>3, CountThroughList
<1>10. /\ hardness_results'[d].total = Cardinality(CountOf(d))
       /\ hardness_results'[d].correct = Cardinality({i \in CountOf(d) : Passed(result_file[i])})
  BY <1>2
<1>11. hardness_results'[d].total = Cardinality(own) /\ hardness_results'[d].correct = Cardinality(good)
  <2>1. /\ Cardinality({i \in 1 .. N : results[i] \in own}) = Cardinality(own)
        /\ Cardinality({i \in 1 .. N : results[i] \in good}) = Cardinality(good)
    BY <1>8, <1>9
  <2>. QED  BY <1>6, <1>7, <1>10, <2>1
<1>. QED  BY <1>11 DEF own, good

(* Once there is a score, no difficulty is empty. *)
LEMMA BothCounted ==
    ASSUME IInv, ScriptInv, script = "print", NEW d \in Difficulties
    PROVE  hardness_results[d].total > 0
<1> DEFINE own == {s \in Samples : Difficulty(task[s]) = d}
<1>1. PICK t \in Tasks : Difficulty(t) = d
  BY HardAssumption DEF Difficulties, Difficulty
<1>2. SamplesOf(t) # {}
  BY DEF IInv, ScoreCountsAll, ScriptInv
<1>3. own # {}
  BY <1>1, <1>2 DEF SamplesOf
<1>4. IsFiniteSet(own)
  <2>1. N \in Nat /\ Samples = 1 .. N
    BY Shape DEF IInv
  <2>2. IsFiniteSet(Samples) /\ own \subseteq Samples
    BY <2>1, FS_Interval
  <2>. QED  BY <2>2, FS_Subset
<1>5. hardness_results[d].total = Cardinality(own)
  BY DEF ScriptInv, StatsTrue
<1> HIDE DEF own
<1>. QED  BY <1>3, <1>4, <1>5, FS_EmptySet, FS_CardinalityType

LEMMA ScriptInvNext == IInv /\ IInv' /\ ScriptInv /\ [ScriptNext]_all_vars => ScriptInv'
<1> SUFFICES ASSUME IInv, IInv', ScriptInv, [ScriptNext]_all_vars PROVE ScriptInv'
  OBVIOUS
<1>1. ASSUME UNCHANGED vars
      PROVE  /\ UNCHANGED <<main, keeps_samples, test_groundtruth, problems, task, verdict,
                            results, sample_with_results>>
             /\ N' = N /\ Samples' = Samples
  BY <1>1 DEF vars, input, pool, N, Samples
<1>2. CASE Extract \/ BadRow
  <2>1. script = "extract" /\ script' \in {"evaluate", "rejected"} /\ UNCHANGED vars
    BY <1>2 DEF Extract, BadRow
  <2>. QED  BY <1>1, <2>1 DEF ScriptInv
<1>3. CASE Count
  <2>1. script = "evaluate" /\ script' = "print" /\ main = "returned" /\ UNCHANGED vars
    BY <1>3 DEF Count
  <2>2. StatsTrue'
    BY <1>3, CountStep
  <2>. QED  BY <1>1, <2>1, <2>2 DEF ScriptInv
<1>4. CASE Report
  <2>1. script = "print" /\ UNCHANGED <<vars, hardness_results>>
    BY <1>4 DEF Report
  <2>2. script' = "done"
    BY <1>4, <2>1, BothCounted DEF Report
  <2>. QED  BY <1>1, <2>1, <2>2 DEF ScriptInv, StatsTrue
<1>5. CASE Propagate
  <2>1. script = "evaluate" /\ script' = "failed" /\ main = "raised" /\ UNCHANGED vars
    BY <1>5 DEF Propagate
  <2>. QED  BY <1>1, <2>1 DEF ScriptInv
<1>6. CASE Finished \/ UNCHANGED all_vars
  <2>1. UNCHANGED <<vars, script, result_file, hardness_results>>
    BY <1>6 DEF Finished, all_vars, script_vars
  <2>2. StatsTrue => StatsTrue'
    BY <1>1, <2>1 DEF StatsTrue
  <2>. QED  BY <1>1, <2>1, <2>2 DEF ScriptInv
<1>. QED  BY <1>2, <1>3, <1>4, <1>5, <1>6, EvaluateStep DEF ScriptNext

-----------------------------------------------------------------------------
(* Induction over finite sets, and the folds of PassAtK *)

(* A nonempty set of numbers has a least one: the intervals from 0 to its members are
   well-founded by inclusion. *)
LEMMA LeastNumber ==
    ASSUME NEW T \in SUBSET Nat, T # {}
    PROVE  \E m \in T : \A n \in T : m <= n
<1> DEFINE Below == {0 .. n : n \in T}
<1>1. Below \subseteq FiniteSubsetsOf(Nat) /\ Below # {}
  <2>1. ASSUME NEW n \in T PROVE 0 .. n \in FiniteSubsetsOf(Nat)
    <3>1. IsFiniteSet(0 .. n) /\ 0 .. n \subseteq Nat
      BY FS_Interval
    <3>. QED  BY <3>1 DEF FiniteSubsetsOf
  <2>. QED  BY <2>1
<1>2. IsWellFoundedOn(StrictSubsetOrdering(Nat), FiniteSubsetsOf(Nat))
  BY FS_StrictSubsetOrderingWellFounded
<1>3. PICK B \in Below : \A C \in Below : <<C, B>> \notin StrictSubsetOrdering(Nat)
  <2> HIDE DEF Below
  <2>. QED  BY <1>1, <1>2, WFMin
<1>4. PICK m \in T : B = 0 .. m
  OBVIOUS
<1>5. ASSUME NEW n \in T, n < m PROVE FALSE
  <2>1. 0 .. n \in Below /\ 0 .. n \subseteq 0 .. m /\ m \in 0 .. m /\ m \notin 0 .. n
    BY <1>5
  <2>2. <<0 .. n, 0 .. m>> \in StrictSubsetOrdering(Nat)
    BY <2>1 DEF StrictSubsetOrdering
  <2>. QED  BY <1>3, <1>4, <2>1, <2>2
<1>. QED  BY <1>5

LEMMA Induction ==
    ASSUME NEW T, 0 \in T, \A n \in Nat : n \in T => n + 1 \in T
    PROVE  Nat \subseteq T
<1> SUFFICES ASSUME Nat \ T # {} PROVE FALSE
  OBVIOUS
<1>1. PICK m \in Nat \ T : \A n \in Nat \ T : m <= n
  BY LeastNumber
<1>2. m - 1 \in Nat /\ m = (m - 1) + 1
  BY <1>1
<1>3. m - 1 \in T
  BY <1>1, <1>2
<1>. QED  BY <1>1, <1>2, <1>3

\* The element that a fold takes first.
First(T) == CHOOSE t \in T : TRUE

(* What holds of a set if it holds of the set without any one of its elements holds of
   every finite set. *)
LEMMA SetInduction ==
    ASSUME NEW S, IsFiniteSet(S), NEW C,
           \A T \in SUBSET S : (\A t \in T : T \ {t} \in C) => T \in C
    PROVE  SUBSET S \subseteq C
<1> DEFINE P == {n \in Nat : \A T \in SUBSET S : Cardinality(T) = n => T \in C}
<1>1. \A T \in SUBSET S : IsFiniteSet(T) /\ Cardinality(T) \in Nat /\ (Cardinality(T) = 0 <=> T = {})
  BY FS_Subset, FS_CardinalityType, FS_EmptySet
<1>2. 0 \in P
  BY <1>1
<1>3. ASSUME NEW n \in Nat, n \in P PROVE n + 1 \in P
  <2> SUFFICES ASSUME NEW T \in SUBSET S, Cardinality(T) = n + 1, NEW t \in T PROVE T \ {t} \in C
    OBVIOUS
  <2>1. T \ {t} \in SUBSET S /\ Cardinality(T \ {t}) = n
    <3>1. IsFiniteSet(T) /\ T \ {t} \in SUBSET S
      BY <1>1
    <3>2. Cardinality(T \ {t}) = Cardinality(T) - 1
      BY <3>1, FS_RemoveElement
    <3>. QED  BY <3>1, <3>2
  <2>. QED  BY <1>3, <2>1
<1>4. Nat \subseteq P
  <2> HIDE DEF P
  <2>. QED  BY <1>2, <1>3, Induction
<1>. QED  BY <1>1, <1>4

(* A product has a value. *)
LEMMA ProductUnfolds ==
    ASSUME NEW S, IsFiniteSet(S)
    PROVE  \E f : /\ ProductSet(S) = f[S] /\ f[{}] = 1
                  /\ \A T \in SUBSET S : T # {} => f[T] = First(T) * f[T \ {First(T)}]
<1> DEFINE Body(g, T) == IF T = {} THEN 1 ELSE First(T) * g[T \ {First(T)}]
           Unfolds(g, n) == \A T \in SUBSET S : Cardinality(T) <= n => g[T] = Body(g, T)
           P == {n \in Nat : \E g : g = [T \in SUBSET S |-> g[T]] /\ Unfolds(g, n)}
<1>1. \A T \in SUBSET S : IsFiniteSet(T) /\ Cardinality(T) \in Nat /\ Cardinality(T) <= Cardinality(S) /\ (Cardinality(T) = 0 <=> T = {})
  BY FS_Subset, FS_CardinalityType, FS_EmptySet
<1>2. ASSUME NEW T \in SUBSET S, T # {}
      PROVE  T \ {First(T)} \in SUBSET S /\ Cardinality(T \ {First(T)}) = Cardinality(T) - 1
  BY <1>1, <1>2, FS_RemoveElement DEF First
<1>3. 0 \in P
  <2> DEFINE g == [T \in SUBSET S |-> 1]
  <2>1. g = [T \in SUBSET S |-> g[T]]
    OBVIOUS
  <2>2. Unfolds(g, 0)
    BY <1>1
  <2>. QED  BY <2>1, <2>2
<1>4. ASSUME NEW n \in Nat, n \in P PROVE n + 1 \in P
  <2>1. PICK g : g = [T \in SUBSET S |-> g[T]] /\ Unfolds(g, n)
    BY <1>4
  <2> DEFINE h == [T \in SUBSET S |-> Body(g, T)]
  <2>2. \A T \in SUBSET S : Cardinality(T) <= n => h[T] = g[T]
    BY <2>1
  <2>3. \A T \in SUBSET S : h[T] = Body(g, T)
    OBVIOUS
  <2>4. h = [T \in SUBSET S |-> h[T]]
    OBVIOUS
  <2> HIDE DEF h
  <2>5. Unfolds(h, n + 1)
    <3> SUFFICES ASSUME NEW T \in SUBSET S, Cardinality(T) <= n + 1 PROVE h[T] = Body(h, T)
      OBVIOUS
    <3>1. CASE T = {}
      BY <2>3, <3>1
    <3>2. CASE T # {}
      <4>1. T \ {First(T)} \in SUBSET S /\ Cardinality(T \ {First(T)}) <= n
        BY <1>1, <1>2, <3>2
      <4>2. h[T \ {First(T)}] = g[T \ {First(T)}]
        BY <2>2, <4>1
      <4>. QED  BY <2>3, <3>2, <4>2
    <3>. QED  BY <3>1, <3>2
  <2> HIDE DEF Unfolds
  <2>6. n + 1 \in Nat
    OBVIOUS
  <2>. QED  BY <2>4, <2>5, <2>6
<1>5. Cardinality(S) \in P
  <2>1. Cardinality(S) \in Nat
    BY FS_CardinalityType
  <2> HIDE DEF P
  <2>. QED  BY <1>3, <1>4, <2>1, Induction
<1> DEFINE Whole(g) == g = [T \in SUBSET S |-> IF T = {} THEN 1
                              ELSE LET x == CHOOSE x \in T : TRUE IN x * g[T \ {x}]]
           f == CHOOSE g : Whole(g)
<1>6. PICK g : g = [T \in SUBSET S |-> g[T]] /\ Unfolds(g, Cardinality(S))
  BY <1>5
<1>7. \A T \in SUBSET S : g[T] = Body(g, T)
  BY <1>1, <1>6
<1>8. Whole(g)
  BY <1>6, <1>7 DEF First
<1>9. Whole(f)
  <2> HIDE DEF Whole
  <2>. QED  BY <1>8
<1>10. ProductSet(S) = f[S]
  BY DEF ProductSet, FoldSet, MapThenFoldSet
<1> HIDE DEF f
<1>11. f[{}] = 1 /\ \A T \in SUBSET S : T # {} => f[T] = First(T) * f[T \ {First(T)}]
  BY <1>9 DEF First
<1>. QED  BY <1>10, <1>11

(* Each fold is a step and the fold of the rest. *)
LEMMA ProductStep ==
    ASSUME NEW S, IsFiniteSet(S)
    PROVE  /\ S = {} => ProductSet(S) = 1
           /\ S # {} => ProductSet(S) = First(S) * ProductSet(S \ {First(S)})
<1>1. PICK f : /\ ProductSet(S) = f[S] /\ f[{}] = 1
               /\ \A T \in SUBSET S : T # {} => f[T] = First(T) * f[T \ {First(T)}]
  BY ProductUnfolds
<1>2. ASSUME S # {} PROVE ProductSet(S \ {First(S)}) = f[S \ {First(S)}]
  <2> DEFINE R == S \ {First(S)}
  <2>0. IsFiniteSet(R) /\ R \in SUBSET S
    BY FS_RemoveElement
  <2> HIDE DEF R
  <2>1. PICK g : /\ ProductSet(R) = g[R] /\ g[{}] = 1
                 /\ \A T \in SUBSET R : T # {} => g[T] = First(T) * g[T \ {First(T)}]
    BY <2>0, ProductUnfolds
  <2> DEFINE C == {T \in SUBSET R : f[T] = g[T]}
  <2>2. ASSUME NEW T \in SUBSET R, \A t \in T : T \ {t} \in C PROVE T \in C
    <3>1. CASE T = {}
      BY <1>1, <2>1, <3>1
    <3>2. CASE T # {}
      <4>1. First(T) \in T
        BY <3>2 DEF First
      <4>2. f[T \ {First(T)}] = g[T \ {First(T)}]
        BY <2>2, <4>1
      <4>. QED  BY <1>1, <2>0, <2>1, <3>2, <4>2
    <3>. QED  BY <3>1, <3>2
  <2>3. R \in C
    <3> HIDE DEF C
    <3>. QED  BY <2>0, <2>2, SetInduction
  <2>. QED  BY <2>1, <2>3 DEF R
<1>. QED  BY <1>1, <1>2

LEMMA ProductIsInt ==
    ASSUME NEW S \in SUBSET Int, IsFiniteSet(S)
    PROVE  ProductSet(S) \in Int
<1> DEFINE C == {T \in SUBSET S : ProductSet(T) \in Int}
<1>1. ASSUME NEW T \in SUBSET S, \A t \in T : T \ {t} \in C PROVE T \in C
  <2>1. IsFiniteSet(T)
    BY FS_Subset
  <2>2. CASE T = {}
    <3>1. ProductSet(T) = 1
      BY <2>1, <2>2, ProductStep
    <3>. QED  BY <3>1
  <2>3. CASE T # {}
    <3>1. First(T) \in T
      BY <2>3 DEF First
    <3>2. ProductSet(T \ {First(T)}) \in Int /\ First(T) \in Int
      BY <1>1, <3>1
    <3>3. ProductSet(T) = First(T) * ProductSet(T \ {First(T)})
      BY <2>1, <2>3, ProductStep
    <3>. QED  BY <3>2, <3>3
  <2>. QED  BY <2>2, <2>3
<1> HIDE DEF C
<1>2. S \in C
  BY <1>1, SetInduction
<1>. QED  BY <1>2 DEF C

(* A product may be taken in any order. *)
LEMMA ProductTakes ==
    ASSUME NEW S \in SUBSET Int, IsFiniteSet(S), NEW s \in S
    PROVE  ProductSet(S) = s * ProductSet(S \ {s})
<1> DEFINE C == {T \in SUBSET S : \A y \in T : ProductSet(T) = y * ProductSet(T \ {y})}
<1>1. ASSUME NEW T \in SUBSET S, \A t \in T : T \ {t} \in C PROVE T \in C
  <2> SUFFICES ASSUME NEW y \in T PROVE ProductSet(T) = y * ProductSet(T \ {y})
    OBVIOUS
  <2> DEFINE x == First(T)
             both == ProductSet((T \ {x}) \ {y})
  <2>1. x \in T /\ x \in Int /\ y \in Int
    BY DEF First
  <2>2. ProductSet(T) = x * ProductSet(T \ {x})
    BY FS_Subset, ProductStep
  <2> HIDE DEF x
  <2>3. CASE x = y
    BY <2>2, <2>3
  <2>4. CASE x # y
    <3>1. ProductSet(T \ {x}) = y * both
      BY <1>1, <2>1, <2>4
    <3>2. ProductSet(T \ {y}) = x * both
      <4>1. (T \ {y}) \ {x} = (T \ {x}) \ {y}
        OBVIOUS
      <4>. QED  BY <1>1, <2>1, <2>4, <4>1
    <3>3. both \in Int
      <4>1. IsFiniteSet((T \ {x}) \ {y}) /\ (T \ {x}) \ {y} \in SUBSET Int
        BY FS_Subset
      <4>. QED  BY <4>1, ProductIsInt
    <3> HIDE DEF both
    <3>4. x * (y * both) = y * (x * both)
      BY <2>1, <3>3
    <3>. QED  BY <2>2, <3>1, <3>2, <3>4
  <2>. QED  BY <2>3, <2>4
<1> HIDE DEF C
<1>2. S \in C
  BY <1>1, SetInduction
<1>. QED  BY <1>2 DEF C

\* The sum of which Mean is a fraction.
Sum(S, estimate) ==
    MapThenFoldSet(Plus, Fraction(0, 1), LAMBDA s : estimate[s], LAMBDA T : CHOOSE t \in T : TRUE, S)

\* f has the sums over the subsets of S.
SumsUp(S, estimate, f) ==
    /\ Sum(S, estimate) = f[S] /\ f[{}] = Fraction(0, 1)
    /\ \A T \in SUBSET S : T # {} => f[T] = Plus(estimate[First(T)], f[T \ {First(T)}])

(* A sum of fractions has a value. *)
LEMMA SumUnfolds ==
    ASSUME NEW S, IsFiniteSet(S), NEW estimate
    PROVE  \E f : SumsUp(S, estimate, f)
<1> DEFINE Body(g, T) == IF T = {} THEN Fraction(0, 1) ELSE Plus(estimate[First(T)], g[T \ {First(T)}])
           Unfolds(g, n) == \A T \in SUBSET S : Cardinality(T) <= n => g[T] = Body(g, T)
           P == {n \in Nat : \E g : g = [T \in SUBSET S |-> g[T]] /\ Unfolds(g, n)}
<1>1. \A T \in SUBSET S : IsFiniteSet(T) /\ Cardinality(T) \in Nat /\ Cardinality(T) <= Cardinality(S) /\ (Cardinality(T) = 0 <=> T = {})
  BY FS_Subset, FS_CardinalityType, FS_EmptySet
<1>2. ASSUME NEW T \in SUBSET S, T # {}
      PROVE  T \ {First(T)} \in SUBSET S /\ Cardinality(T \ {First(T)}) = Cardinality(T) - 1
  BY <1>1, <1>2, FS_RemoveElement DEF First
<1>3. 0 \in P
  <2> DEFINE g == [T \in SUBSET S |-> Fraction(0, 1)]
  <2>1. g = [T \in SUBSET S |-> g[T]]
    OBVIOUS
  <2>2. Unfolds(g, 0)
    BY <1>1
  <2>. QED  BY <2>1, <2>2
<1>4. ASSUME NEW n \in Nat, n \in P PROVE n + 1 \in P
  <2>1. PICK g : g = [T \in SUBSET S |-> g[T]] /\ Unfolds(g, n)
    BY <1>4
  <2> DEFINE h == [T \in SUBSET S |-> Body(g, T)]
  <2>2. \A T \in SUBSET S : Cardinality(T) <= n => h[T] = g[T]
    BY <2>1
  <2>3. \A T \in SUBSET S : h[T] = Body(g, T)
    OBVIOUS
  <2>4. h = [T \in SUBSET S |-> h[T]]
    OBVIOUS
  <2> HIDE DEF h
  <2>5. Unfolds(h, n + 1)
    <3> SUFFICES ASSUME NEW T \in SUBSET S, Cardinality(T) <= n + 1 PROVE h[T] = Body(h, T)
      OBVIOUS
    <3>1. CASE T = {}
      BY <2>3, <3>1
    <3>2. CASE T # {}
      <4>1. T \ {First(T)} \in SUBSET S /\ Cardinality(T \ {First(T)}) <= n
        BY <1>1, <1>2, <3>2
      <4>2. h[T \ {First(T)}] = g[T \ {First(T)}]
        BY <2>2, <4>1
      <4>. QED  BY <2>3, <3>2, <4>2
    <3>. QED  BY <3>1, <3>2
  <2> HIDE DEF Unfolds
  <2>6. n + 1 \in Nat
    OBVIOUS
  <2>. QED  BY <2>4, <2>5, <2>6
<1>5. Cardinality(S) \in P
  <2>1. Cardinality(S) \in Nat
    BY FS_CardinalityType
  <2> HIDE DEF P
  <2>. QED  BY <1>3, <1>4, <2>1, Induction
<1> DEFINE Whole(g) == g = [T \in SUBSET S |-> IF T = {} THEN Fraction(0, 1)
                              ELSE LET x == CHOOSE x \in T : TRUE IN Plus(estimate[x], g[T \ {x}])]
           f == CHOOSE g : Whole(g)
<1>6. PICK g : g = [T \in SUBSET S |-> g[T]] /\ Unfolds(g, Cardinality(S))
  BY <1>5
<1>7. \A T \in SUBSET S : g[T] = Body(g, T)
  BY <1>1, <1>6
<1>8. Whole(g)
  BY <1>6, <1>7 DEF First
<1>9. Whole(f)
  <2> HIDE DEF Whole
  <2>. QED  BY <1>8
<1>10. Sum(S, estimate) = f[S]
  BY DEF Sum, MapThenFoldSet
<1> HIDE DEF f
<1>11. f[{}] = Fraction(0, 1) /\ \A T \in SUBSET S : T # {} => f[T] = Plus(estimate[First(T)], f[T \ {First(T)}])
  BY <1>9 DEF First
<1>. QED  BY <1>10, <1>11 DEF SumsUp

Fractions == [num : Int, den : Int]

LEMMA PlusEqual ==
    ASSUME NEW a \in Fractions, NEW b \in Fractions, NEW c \in Fractions, NEW d \in Fractions,
           Equal(a, b), Equal(c, d)
    PROVE  Plus(a, c) \in Fractions /\ Plus(b, d) \in Fractions /\ Equal(Plus(a, c), Plus(b, d))
<1>1. \A p, q, t, u \in Int : (p * q) * (t * u) = (p * t) * (q * u) /\ p * q \in Int /\ (p * q) * (t * u) = (p * u) * (t * q)
  <2> TAKE p, q, t, u \in Int
  <2>. QED  OBVIOUS
<1>2. /\ a.num \in Int /\ a.den \in Int /\ b.num \in Int /\ b.den \in Int
      /\ c.num \in Int /\ c.den \in Int /\ d.num \in Int /\ d.den \in Int
  BY DEF Fractions
<1>3. a.num * b.den = b.num * a.den /\ c.num * d.den = d.num * c.den
  BY DEF Equal
<1>4. (a.num * c.den) * (b.den * d.den) = (b.num * d.den) * (a.den * c.den)
  <2>1. (a.num * c.den) * (b.den * d.den) = (a.num * b.den) * (c.den * d.den)
    BY <1>1, <1>2
  <2>2. (b.num * d.den) * (a.den * c.den) = (b.num * a.den) * (c.den * d.den)
    <3>1. (b.num * d.den) * (a.den * c.den) = (b.num * a.den) * (d.den * c.den)
      BY <1>1, <1>2
    <3>2. d.den * c.den = c.den * d.den
      BY <1>2
    <3>. QED  BY <3>1, <3>2
  <2>. QED  BY <1>3, <2>1, <2>2
<1>5. (c.num * a.den) * (b.den * d.den) = (d.num * b.den) * (a.den * c.den)
  <2>1. (c.num * a.den) * (b.den * d.den) = (c.num * d.den) * (b.den * a.den)
    BY <1>1, <1>2
  <2>2. (d.num * b.den) * (a.den * c.den) = (d.num * c.den) * (a.den * b.den)
    BY <1>1, <1>2
  <2>3. a.den * b.den = b.den * a.den
    BY <1>2
  <2>. QED  BY <1>3, <2>1, <2>2, <2>3
<1>6. \A p, q, t \in Int : (p + q) * t = p * t + q * t
  OBVIOUS
<1>7. /\ a.num * c.den \in Int /\ c.num * a.den \in Int /\ b.den * d.den \in Int
      /\ b.num * d.den \in Int /\ d.num * b.den \in Int /\ a.den * c.den \in Int
  BY <1>2
<1>8. (a.num * c.den + c.num * a.den) * (b.den * d.den) = (b.num * d.den + d.num * b.den) * (a.den * c.den)
  <2>1. (a.num * c.den + c.num * a.den) * (b.den * d.den) = (a.num * c.den) * (b.den * d.den) + (c.num * a.den) * (b.den * d.den)
    BY <1>6, <1>7
  <2>2. (b.num * d.den + d.num * b.den) * (a.den * c.den) = (b.num * d.den) * (a.den * c.den) + (d.num * b.den) * (a.den * c.den)
    BY <1>6, <1>7
  <2>. QED  BY <1>4, <1>5, <2>1, <2>2
<1>. QED  BY <1>7, <1>8 DEF Plus, Fraction, Fractions, Equal

(* The fractions of which a mean is taken may be replaced by others of the same value. *)
LEMMA SumsEqual ==
    ASSUME NEW S, IsFiniteSet(S), NEW e, NEW d,
           \A s \in S : e[s] \in Fractions /\ d[s] \in Fractions /\ Equal(e[s], d[s])
    PROVE  Sum(S, e) \in Fractions /\ Sum(S, d) \in Fractions /\ Equal(Sum(S, e), Sum(S, d))
<1>1. PICK f : SumsUp(S, e, f)
  BY SumUnfolds
<1>2. PICK g : SumsUp(S, d, g)
  BY SumUnfolds
<1> DEFINE C == {T \in SUBSET S : f[T] \in Fractions /\ g[T] \in Fractions /\ Equal(f[T], g[T])}
<1>3. ASSUME NEW T \in SUBSET S, \A t \in T : T \ {t} \in C PROVE T \in C
  <2>1. CASE T = {}
    <3>1. Fraction(0, 1) \in Fractions /\ Equal(Fraction(0, 1), Fraction(0, 1))
      BY DEF Fraction, Fractions, Equal
    <3>. QED  BY <1>1, <1>2, <2>1, <3>1 DEF SumsUp
  <2>2. CASE T # {}
    <3> DEFINE x == First(T)
    <3>1. x \in T
      BY <2>2 DEF First
    <3>2. f[T] = Plus(e[x], f[T \ {x}]) /\ g[T] = Plus(d[x], g[T \ {x}])
      BY <1>1, <1>2, <2>2 DEF SumsUp
    <3>3. f[T \ {x}] \in Fractions /\ g[T \ {x}] \in Fractions /\ Equal(f[T \ {x}], g[T \ {x}])
      BY <1>3, <3>1
    <3> HIDE DEF x
    <3>4. f[T] \in Fractions /\ g[T] \in Fractions /\ Equal(f[T], g[T])
      BY <3>1, <3>2, <3>3, PlusEqual
    <3>. QED  BY <3>4
  <2>. QED  BY <2>1, <2>2
<1> HIDE DEF C
<1>4. S \in C
  BY <1>3, SetInduction
<1>. QED  BY <1>1, <1>2, <1>4 DEF C, SumsUp

LEMMA MeansEqual ==
    ASSUME NEW S, IsFiniteSet(S), NEW e, NEW d,
           \A s \in S : e[s] \in Fractions /\ d[s] \in Fractions /\ Equal(e[s], d[s])
    PROVE  Equal(Mean(S, e), Mean(S, d))
<1> DEFINE a == Sum(S, e)
           b == Sum(S, d)
           n == Cardinality(S)
<1>1. /\ a \in Fractions /\ b \in Fractions /\ Equal(a, b) /\ n \in Nat
      /\ Mean(S, e) = Fraction(a.num, a.den * n) /\ Mean(S, d) = Fraction(b.num, b.den * n)
  <2>1. Mean(S, e) = Fraction(a.num, a.den * n) /\ Mean(S, d) = Fraction(b.num, b.den * n)
    BY DEF Mean, Sum
  <2>2. n \in Nat
    BY FS_CardinalityType
  <2>. QED  BY <2>1, <2>2, SumsEqual
<1> HIDE DEF a, b, n
<1>2. a.num \in Int /\ a.den \in Int /\ b.num \in Int /\ b.den \in Int /\ a.num * b.den = b.num * a.den
  BY <1>1 DEF Fractions, Equal
<1>3. a.num * (b.den * n) = b.num * (a.den * n)
  <2>1. a.num * (b.den * n) = (a.num * b.den) * n /\ b.num * (a.den * n) = (b.num * a.den) * n
    BY <1>1, <1>2
  <2>. QED  BY <1>2, <2>1
<1>. QED  BY <1>1, <1>3 DEF Equal, Fraction

-----------------------------------------------------------------------------
(* Draws *)

Comb(k, X) == Cardinality(kSubset(k, X))

LEMMA DrawsFinite ==
    ASSUME NEW X, IsFiniteSet(X), NEW k
    PROVE  IsFiniteSet(kSubset(k, X)) /\ Comb(k, X) \in Nat
<1>1. IsFiniteSet(SUBSET X) /\ kSubset(k, X) \subseteq SUBSET X
  BY FS_SUBSET DEF kSubset
<1>2. IsFiniteSet(kSubset(k, X))
  BY <1>1, FS_Subset
<1>. QED  BY <1>2, FS_CardinalityType DEF Comb

(* A draw has an element or it has not. *)
LEMMA DrawsSplit ==
    ASSUME NEW X, IsFiniteSet(X), NEW e \in X, NEW k \in Nat \ {0}
    PROVE  Comb(k, X) = Comb(k, X \ {e}) + Comb(k - 1, X \ {e})
<1> DEFINE Y == X \ {e}
           A == kSubset(k, Y)
           D == kSubset(k - 1, Y)
           f == [s \in D |-> s \union {e}]
           B == {s \union {e} : s \in D}
<1>1. /\ \A s \in SUBSET X : IsFiniteSet(s) /\ Cardinality(s) \in Nat
      /\ Y \subseteq X /\ IsFiniteSet(Y) /\ e \notin Y
  BY FS_Subset, FS_CardinalityType
<1>2. IsFiniteSet(A) /\ IsFiniteSet(D)
  BY <1>1, DrawsFinite
<1>3. f \in Bijection(D, B)
  <2>1. \A s, t \in D : s \union {e} = t \union {e} => s = t
    <3>1. \A s \in D : s \subseteq Y /\ e \notin s
      BY DEF kSubset
    <3>. QED  BY <3>1
  <2>2. f \in Injection(D, B)
    BY <2>1 DEF Injection, IsInjective
  <2>3. f \in Surjection(D, B)
    BY DEF Surjection
  <2>. QED  BY <2>2, <2>3 DEF Bijection
<1>4. IsFiniteSet(B) /\ Cardinality(B) = Cardinality(D)
  BY <1>2, <1>3, FS_Bijection DEF ExistsBijection
<1>5. A \cap B = {}
  BY DEF kSubset
<1>6. kSubset(k, X) = A \union B
  <2>1. ASSUME NEW s \in kSubset(k, X) PROVE s \in A \union B
    <3>1. s \in SUBSET X /\ Cardinality(s) = k
      BY DEF kSubset
    <3>2. CASE e \notin s
      BY <3>1, <3>2 DEF kSubset
    <3>3. CASE e \in s
      <4>1. IsFiniteSet(s)
        BY <1>1, <3>1
      <4>2. Cardinality(s \ {e}) = k - 1
        BY <3>1, <3>3, <4>1, FS_RemoveElement
      <4>3. s \ {e} \in D /\ s = (s \ {e}) \union {e}
        BY <3>1, <3>3, <4>2 DEF kSubset
      <4>. QED  BY <4>3
    <3>. QED  BY <3>2, <3>3
  <2>2. A \subseteq kSubset(k, X)
    BY DEF kSubset
  <2>3. ASSUME NEW s \in D PROVE s \union {e} \in kSubset(k, X)
    <3>1. s \in SUBSET Y /\ Cardinality(s) = k - 1 /\ e \notin s
      BY DEF kSubset
    <3>2. IsFiniteSet(s)
      BY <1>1, <3>1
    <3>3. Cardinality(s \union {e}) = (k - 1) + 1
      BY <3>1, <3>2, FS_AddElement
    <3>4. s \union {e} \in SUBSET X /\ Cardinality(s \union {e}) = k
      BY <3>1, <3>3
    <3>. QED  BY <3>4 DEF kSubset
  <2>. QED  BY <2>1, <2>2, <2>3
<1>7. Cardinality(A \union B) = Cardinality(A) + Cardinality(B) - Cardinality(A \cap B)
  <2> HIDE DEF A, B
  <2>. QED  BY <1>2, <1>4, FS_Union
<1>8. Cardinality(A \union B) = Cardinality(A) + Cardinality(D)
  <2>1. Cardinality(A \cap B) = 0 /\ Cardinality(A) \in Nat /\ Cardinality(D) \in Nat
    BY <1>2, <1>5, FS_EmptySet, FS_CardinalityType
  <2> HIDE DEF A, B, D
  <2>. QED  BY <1>4, <1>7, <2>1
<1>. QED  BY <1>6, <1>8 DEF Comb

LEMMA DrawsOfNone ==
    ASSUME NEW X, IsFiniteSet(X)
    PROVE  Comb(0, X) = 1
<1>1. \A s \in SUBSET X : Cardinality(s) = 0 <=> s = {}
  BY FS_Subset, FS_EmptySet
<1>2. kSubset(0, X) = {{}}
  BY <1>1 DEF kSubset
<1>. QED  BY <1>2, FS_Singleton DEF Comb

LEMMA DrawsTooLarge ==
    ASSUME NEW X, IsFiniteSet(X), NEW k \in Nat, k > Cardinality(X)
    PROVE  Comb(k, X) = 0
<1>1. \A s \in SUBSET X : Cardinality(s) <= Cardinality(X) /\ Cardinality(s) \in Nat
  BY FS_Subset, FS_CardinalityType
<1>2. Cardinality(X) \in Nat
  BY FS_CardinalityType
<1>3. kSubset(k, X) = {}
  BY <1>1, <1>2 DEF kSubset
<1>. QED  BY <1>3, FS_EmptySet DEF Comb

(* The draws of one size from those of the size below. *)
LEMMA DrawsGrow ==
    ASSUME NEW S, IsFiniteSet(S), NEW size \in Nat \ {0}
    PROVE  size * Comb(size, S) = (Cardinality(S) - size + 1) * Comb(size - 1, S)
<1> DEFINE C == {T \in SUBSET S : \A k \in Nat \ {0} :
                   k * Comb(k, T) = (Cardinality(T) - k + 1) * Comb(k - 1, T)}
<1>1. ASSUME NEW T \in SUBSET S, \A t \in T : T \ {t} \in C PROVE T \in C
  <2> SUFFICES ASSUME NEW k \in Nat \ {0}
               PROVE  k * Comb(k, T) = (Cardinality(T) - k + 1) * Comb(k - 1, T)
    OBVIOUS
  <2>1. CASE T = {}
    <3>1. IsFiniteSet(T) /\ Cardinality(T) = 0 /\ Comb(0, T) = 1
      BY <2>1, FS_EmptySet, DrawsOfNone
    <3>2. Comb(k, T) = 0
      BY <3>1, DrawsTooLarge
    <3>3. k # 1 => Comb(k - 1, T) = 0
      BY <3>1, DrawsTooLarge
    <3>. QED  BY <3>1, <3>2, <3>3
  <2>2. CASE T # {}
    <3> DEFINE t == First(T)
               Y == T \ {t}
               n == Cardinality(Y)
               a == Comb(k, Y)
               b == Comb(k - 1, Y)
               c == Comb(k - 2, Y)
    <3>1. t \in T
      BY <2>2 DEF First
    <3>2. IsFiniteSet(T) /\ IsFiniteSet(Y) /\ n \in Nat /\ Cardinality(T) = n + 1
      BY <3>1, FS_Subset, FS_CardinalityType, FS_RemoveElement
    <3>3. a \in Nat /\ b \in Nat /\ c \in Nat
      BY <3>2, DrawsFinite
    <3>4. Comb(k, T) = a + b
      BY <3>1, <3>2, DrawsSplit
    <3>5. k * a = (n - k + 1) * b
      BY <1>1, <3>1
    <3>6. CASE k = 1
      <4>1. Comb(k - 1, T) = 1 /\ b = 1
        BY <3>2, <3>6, DrawsOfNone
      <4> HIDE DEF n, a, b
      <4>. QED  BY <3>2, <3>3, <3>4, <3>5, <3>6, <4>1
    <3>7. CASE k # 1
      <4>1. k - 1 \in Nat \ {0} /\ (k - 1) - 1 = k - 2
        BY <3>7
      <4>2. Comb(k - 1, T) = b + c
        <5>1. Comb(k - 1, T) = Comb(k - 1, Y) + Comb((k - 1) - 1, Y)
          BY <3>1, <3>2, <4>1, DrawsSplit
        <5>. QED  BY <4>1, <5>1
      <4>3. (k - 1) * b = (n - k + 2) * c
        <5>1. (k - 1) * Comb(k - 1, Y) = (n - (k - 1) + 1) * Comb((k - 1) - 1, Y)
          BY <1>1, <3>1, <4>1
        <5>2. n - (k - 1) + 1 = n - k + 2
          BY <3>2
        <5>. QED  BY <4>1, <5>1, <5>2
      <4> HIDE DEF n, a, b, c
      <4>4. k * (a + b) = k * a + k * b
        BY <3>3
      <4>5. (n - k + 2) * (b + c) = (n - k + 2) * b + (n - k + 2) * c
        BY <3>2, <3>3
      <4>6. (n - k + 1) * b + k * b = (n + 1) * b
        BY <3>2, <3>3
      <4>7. (n - k + 2) * b + (k - 1) * b = (n + 1) * b
        BY <3>2, <3>3
      <4>8. k * (a + b) = (n - k + 2) * (b + c)
        BY <3>5, <4>3, <4>4, <4>5, <4>6, <4>7
      <4>9. (n + 1) - k + 1 = n - k + 2
        BY <3>2
      <4>. QED  BY <3>2, <3>4, <4>2, <4>8, <4>9
    <3>. QED  BY <3>6, <3>7
  <2>. QED  BY <2>1, <2>2
<1> HIDE DEF C
<1>2. S \in C
  BY <1>1, SetInduction
<1>. QED  BY <1>2 DEF C

(* The share of the draws that do without one element. *)
LEMMA DrawsWithout ==
    ASSUME NEW X, IsFiniteSet(X), NEW e \in X, NEW k \in Nat \ {0}
    PROVE  Cardinality(X) * Comb(k, X \ {e}) = (Cardinality(X) - k) * Comb(k, X)
<1> DEFINE Y == X \ {e}
           m == Cardinality(X)
           a == Comb(k, Y)
           b == Comb(k - 1, Y)
<1>1. IsFiniteSet(Y) /\ m \in Nat /\ Cardinality(Y) = m - 1
  BY FS_RemoveElement, FS_CardinalityType
<1>2. a \in Nat /\ b \in Nat
  BY <1>1, DrawsFinite
<1>3. Comb(k, X) = a + b
  BY DrawsSplit
<1>4. k * a = (m - k) * b
  <2>1. k * a = ((m - 1) - k + 1) * b
    BY <1>1, DrawsGrow
  <2>2. (m - 1) - k + 1 = m - k
    BY <1>1
  <2>. QED  BY <2>1, <2>2
<1> HIDE DEF m, a, b
<1>5. (m - k) * (a + b) = (m - k) * a + (m - k) * b
  BY <1>1, <1>2
<1>6. (m - k) * a + k * a = m * a
  BY <1>1, <1>2
<1>7. m * a = (m - k) * Comb(k, X)
  BY <1>3, <1>4, <1>5, <1>6
<1>. QED  BY <1>7 DEF m, a

-----------------------------------------------------------------------------
(* The estimate *)

LEMMA FactorsShare ==
    ASSUME NEW n \in Nat, NEW k \in Nat \ {0}, NEW c \in Nat, c + k <= n
    PROVE  ProductSet((n - c + 1 - k) .. (n - k)) * Comb(k, 1 .. n)
             = Comb(k, (c + 1) .. n) * ProductSet((n - c + 1) .. n)
<1> DEFINE Claim(d) == ProductSet((n - d + 1 - k) .. (n - k)) * Comb(k, 1 .. n)
                         = Comb(k, (d + 1) .. n) * ProductSet((n - d + 1) .. n)
           P == {d \in Nat : d + k <= n => Claim(d)}
<1>1. 0 \in P
  <2>1. (n - 0 + 1 - k) .. (n - k) = {} /\ (n - 0 + 1) .. n = {} /\ (0 + 1) .. n = 1 .. n
    OBVIOUS
  <2>2. ProductSet({}) = 1
    BY FS_EmptySet, ProductStep
  <2>3. Comb(k, 1 .. n) \in Nat
    BY FS_Interval, DrawsFinite
  <2>4. Claim(0)
    BY <2>1, <2>2, <2>3
  <2>. QED  BY <2>4
<1>2. ASSUME NEW d \in Nat, d \in P PROVE d + 1 \in P
  <2> SUFFICES ASSUME d + 1 + k <= n PROVE Claim(d + 1)
    OBVIOUS
  <2> DEFINE m   == n - d
             F   == (n - d + 1) .. n
             FF  == (n - (d + 1) + 1) .. n
             G   == (n - d + 1 - k) .. (n - k)
             GG  == (n - (d + 1) + 1 - k) .. (n - k)
             X   == (d + 1) .. n
             XX  == (d + 1 + 1) .. n
             all == Comb(k, 1 .. n)
  <2>1. Claim(d)
    BY <1>2
  <2>2. m \in FF /\ FF \ {m} = F /\ m - k \in GG /\ GG \ {m - k} = G /\ d + 1 \in X /\ X \ {d + 1} = XX
    OBVIOUS
  <2>3. /\ IsFiniteSet(F) /\ IsFiniteSet(FF) /\ IsFiniteSet(G) /\ IsFiniteSet(GG)
        /\ IsFiniteSet(X) /\ IsFiniteSet(XX) /\ Cardinality(X) = m /\ m \in Nat
    <3>1. \A a, b \in Int : IsFiniteSet(a .. b)
      BY FS_Interval
    <3>2. Cardinality(X) = n - (d + 1) + 1
      BY FS_Interval
    <3>. QED  BY <3>1, <3>2
  <2>4. F \subseteq Int /\ FF \subseteq Int /\ G \subseteq Int /\ GG \subseteq Int
    OBVIOUS
  <2>5. all \in Nat
    BY FS_Interval, DrawsFinite
  <2>6. /\ ProductSet(F) * Comb(k, X) = Comb(k, X) * ProductSet(F)
        /\ ProductSet(G) * all = Comb(k, X) * ProductSet(F)
    <3>1. ProductSet(F) \in Int /\ Comb(k, X) \in Int
      BY <2>3, <2>4, ProductIsInt, DrawsFinite
    <3>. QED  BY <2>1, <3>1
  <2> HIDE DEF F, FF, G, GG, X, XX, all
  <2>7. ProductSet(FF) = m * ProductSet(F) /\ ProductSet(GG) = (m - k) * ProductSet(G)
    BY <2>2, <2>3, <2>4, ProductTakes
  <2>8. m * Comb(k, XX) = (m - k) * Comb(k, X)
    BY <2>2, <2>3, DrawsWithout
  <2>9. ProductSet(F) \in Int /\ ProductSet(G) \in Int /\ Comb(k, X) \in Int /\ Comb(k, XX) \in Int /\ m \in Int /\ m - k \in Int
    BY <2>3, <2>4, ProductIsInt, DrawsFinite
  <2>10. ((m - k) * ProductSet(G)) * all = Comb(k, XX) * (m * ProductSet(F))
    <3> DEFINE f == ProductSet(F)
               g == ProductSet(G)
               x == Comb(k, X)
               y == Comb(k, XX)
               l == m - k
    <3>1. f \in Int /\ g \in Int /\ x \in Int /\ y \in Int /\ m \in Int /\ l \in Int /\ all \in Int
      BY <2>5, <2>9
    <3>2. g * all = x * f /\ m * y = l * x
      BY <2>6, <2>8
    <3> HIDE DEF f, g, x, y, l, m
    <3>3. (l * g) * all = l * (g * all) /\ l * (x * f) = (l * x) * f /\ y * (m * f) = (m * y) * f
      BY <3>1
    <3>4. (l * g) * all = y * (m * f)
      BY <3>2, <3>3
    <3>. QED  BY <3>4 DEF f, g, x, y, l
  <2>11. ProductSet(GG) * all = Comb(k, XX) * ProductSet(FF)
    BY <2>7, <2>10
  <2>. QED  BY <2>11 DEF FF, GG, XX, all
<1>3. c \in P
  <2> HIDE DEF P
  <2>. QED  BY <1>1, <1>2, Induction
<1>. QED  BY <1>3

(* The draws that contain one of the first c are those that are not taken from the
   others. *)
LEMMA DrawsThatHit ==
    ASSUME NEW n \in Nat, NEW k \in Nat, NEW c \in 0 .. n
    PROVE  Cardinality({S \in kSubset(k, 1 .. n) : S \intersect (1 .. c) # {}})
             = Comb(k, 1 .. n) - Comb(k, (c + 1) .. n)
<1> DEFINE all  == kSubset(k, 1 .. n)
           miss == kSubset(k, (c + 1) .. n)
           hit  == {S \in all : S \intersect (1 .. c) # {}}
<1>1. IsFiniteSet(all)
  BY FS_Interval, DrawsFinite
<1>2. hit = all \ miss /\ all \cap miss = miss
  <2>1. \A S \in SUBSET (1 .. n) : S \intersect (1 .. c) = {} <=> S \in SUBSET ((c + 1) .. n)
    OBVIOUS
  <2>2. (c + 1) .. n \subseteq 1 .. n
    OBVIOUS
  <2>. QED  BY <2>1, <2>2 DEF kSubset
<1> HIDE DEF all, miss, hit
<1>3. Cardinality(hit) = Cardinality(all) - Cardinality(miss)
  BY <1>1, <1>2, FS_Difference
<1>. QED  BY <1>3 DEF all, miss, hit, Comb

(* The estimate, a product of fractions, is the share of the draws that contain a
   completion that passed. *)
LEMMA EstimatorIsShare ==
    ASSUME NEW n \in Nat, NEW c \in 0 .. n, NEW k \in Nat \ {0}
    PROVE  /\ Estimator(n, c, k) \in Fractions /\ ShareOfDraws(n, c, k) \in Fractions
           /\ Equal(Estimator(n, c, k), ShareOfDraws(n, c, k))
<1> DEFINE total == Comb(k, 1 .. n)
           none  == Comb(k, (c + 1) .. n)
           den   == ProductSet((n - c + 1) .. n)
           num   == ProductSet((n - c + 1 - k) .. (n - k))
<1>1. \A a, b \in Int : IsFiniteSet(a .. b)
  BY FS_Interval
<1>2. total \in Nat /\ none \in Nat
  BY <1>1, DrawsFinite
<1>3. ShareOfDraws(n, c, k) = Fraction(total - none, total)
  BY DrawsThatHit DEF ShareOfDraws, Comb
<1>4. CASE n - c < k
  <2>1. none = 0
    <3>1. Cardinality((c + 1) .. n) = IF c + 1 > n THEN 0 ELSE n - (c + 1) + 1
      BY FS_Interval
    <3>2. Cardinality((c + 1) .. n) < k
      BY <1>4, <3>1
    <3>. QED  BY <1>1, <3>2, DrawsTooLarge
  <2>2. Estimator(n, c, k) = Fraction(1, 1)
    BY <1>4 DEF Estimator
  <2> HIDE DEF total, none
  <2>. QED  BY <1>2, <1>3, <2>1, <2>2 DEF Fraction, Fractions, Equal
<1>5. CASE ~(n - c < k)
  <2>1. {i - k : i \in Factors(n, c)} = (n - c + 1 - k) .. (n - k)
    <3>1. \A j \in (n - c + 1 - k) .. (n - k) : j + k \in Factors(n, c) /\ j = (j + k) - k
      BY DEF Factors
    <3>2. \A i \in Factors(n, c) : i - k \in (n - c + 1 - k) .. (n - k)
      BY DEF Factors
    <3>. QED  BY <3>1, <3>2
  <2>2. Estimator(n, c, k) = Fraction(den - num, den)
    BY <1>5, <2>1 DEF Estimator, Factors
  <2>3. num * total = none * den
    <3>1. c \in Nat /\ c + k <= n
      BY <1>5
    <3>. QED  BY <3>1, FactorsShare
  <2>4. den \in Int /\ num \in Int
    <3>1. (n - c + 1) .. n \subseteq Int /\ (n - c + 1 - k) .. (n - k) \subseteq Int
      OBVIOUS
    <3>. QED  BY <1>1, <3>1, ProductIsInt
  <2> HIDE DEF total, none, den, num
  <2>5. (den - num) * total = den * total - num * total /\ (total - none) * den = total * den - none * den /\ den * total = total * den
    BY <1>2, <2>4
  <2>. QED  BY <1>2, <1>3, <2>2, <2>3, <2>4, <2>5 DEF Fraction, Fractions, Equal
<1>. QED  BY <1>4, <1>5

-----------------------------------------------------------------------------
(* The score *)

\* No call runs twice, or waits once it runs or was judged.
JudgedOnce ==
    /\ \A s \in running : verdict[s] = "none"
    /\ \A i \in DOMAIN queue : verdict[queue[i]] = "none" /\ queue[i] \notin running
    /\ \A i, j \in DOMAIN queue : queue[i] = queue[j] => i = j

ScoreInv == JudgedOnce /\ ScoreIsShareOfDraws

LEMMA ScoreInvInit == Init => ScoreInv
BY DEF Init, ScoreInv, JudgedOnce, ScoreIsShareOfDraws

(* Steps of the main thread other than a submission leave the pool alone. *)
LEMMA PoolUntouched ==
    ASSUME ScoreInv, UNCHANGED <<input, pool>>,
           main' = "returned" => main = "returned" /\ pass_at_k' = pass_at_k
    PROVE  ScoreInv'
<1>1. JudgedOnce'
  BY DEF ScoreInv, JudgedOnce, pool
<1>2. ScoreIsShareOfDraws'
  BY DEF ScoreInv, ScoreIsShareOfDraws, SamplesOf, PassedOf, Samples, input, pool
<1>. QED  BY <1>1, <1>2 DEF ScoreInv

LEMMA SubmitScore == ASSUME IInv, ScoreInv, Submit PROVE ScoreInv'
<1> DEFINE s == position + 1
<1>1. /\ main' = "submit" /\ running' = running /\ verdict' = verdict /\ queue' = Append(queue, s)
  BY DEF Submit, MainOnly
<1>2. /\ queue \in Seq(1 .. position) /\ running \subseteq 1 .. position /\ position \in Nat
      /\ s \in Samples /\ \A u \in Samples : verdict[u] # "none" => u <= position
      /\ verdict \in [Samples -> {"none", "passed", "failed", "raised"}]
  <2>1. s \in Samples
    BY Shape DEF IInv, PoolHolds, Submit
  <2>. QED  BY <2>1 DEF IInv, PoolHolds
<1>3. verdict[s] = "none" /\ s \notin running /\ \A i \in DOMAIN queue : queue[i] # s
  BY <1>2
<1>4. /\ DOMAIN queue' = DOMAIN queue \union {Len(queue) + 1} /\ Len(queue) + 1 \notin DOMAIN queue
      /\ queue'[Len(queue) + 1] = s /\ \A i \in DOMAIN queue : queue'[i] = queue[i]
  BY <1>1, <1>2
<1> HIDE DEF s
<1>5. JudgedOnce'
  BY <1>1, <1>3, <1>4 DEF ScoreInv, JudgedOnce
<1>. QED  BY <1>1, <1>5 DEF ScoreInv, ScoreIsShareOfDraws

LEMMA StartScore == ASSUME IInv, ScoreInv, Start PROVE ScoreInv'
<1>1. /\ queue # <<>> /\ queue' = Tail(queue) /\ running' = running \union {Head(queue)}
      /\ verdict' = verdict /\ UNCHANGED <<input, main, pass_at_k>>
  BY DEF Start, PoolOnly
<1>2. queue \in Seq(1 .. position)
  BY DEF IInv, PoolHolds
<1>3. /\ Head(queue) = queue[1] /\ 1 \in DOMAIN queue
      /\ \A i \in DOMAIN queue' : i + 1 \in DOMAIN queue /\ i + 1 # 1 /\ queue'[i] = queue[i + 1]
      /\ \A i, j \in DOMAIN queue' : i + 1 = j + 1 => i = j
  BY <1>1, <1>2
<1>4. JudgedOnce'
  BY <1>1, <1>3 DEF ScoreInv, JudgedOnce
<1>5. ScoreIsShareOfDraws'
  BY <1>1 DEF ScoreInv, ScoreIsShareOfDraws, SamplesOf, PassedOf, Samples, input
<1>. QED  BY <1>4, <1>5 DEF ScoreInv

(* Behind the score no call is left that could end. *)
LEMMA FinishScore == ASSUME IInv, ScoreInv, NEW s \in Samples, Finish(s) PROVE ScoreInv'
<1>1. PICK v \in {"passed", "failed", "raised"} : verdict' = [verdict EXCEPT ![s] = v]
  BY DEF Finish
<1>2. s \in running /\ running' = running \ {s} /\ queue' = queue /\ main' = main
  BY DEF Finish, PoolOnly
<1>3. \A u : u # s => verdict'[u] = verdict[u]
  BY <1>1 DEF IInv, PoolHolds
<1>4. JudgedOnce'
  BY <1>2, <1>3 DEF ScoreInv, JudgedOnce
<1>5. main # "returned"
  BY <1>2 DEF ScoreInv, JudgedOnce, IInv, PoolHolds, NothingLeft
<1>. QED  BY <1>2, <1>4, <1>5 DEF ScoreInv, ScoreIsShareOfDraws

(* The counts the score is taken from are those of the samples. *)
LEMMA CorrectOfSamples ==
    ASSUME IInv, AllCollected, NEW t \in Tasks
    PROVE  Correct(t) = Cardinality(PassedOf(t))
<1>1. /\ N \in Nat /\ Samples = 1 .. N /\ results \in Seq(1 .. N) /\ Len(results) = N
      /\ \A i, j \in DOMAIN results : results[i] = results[j] => i = j
  BY Shape DEF IInv, AllCollected, ResultsOnce
<1>2. results \in [1 .. N -> 1 .. N] /\ DOMAIN results = 1 .. N
  BY <1>1
<1>3. PassedOf(t) \subseteq 1 .. N
  BY <1>1 DEF PassedOf, SamplesOf
<1>4. Cardinality({i \in 1 .. N : results[i] \in PassedOf(t)}) = Cardinality(PassedOf(t))
  <2>1. N \in Nat /\ results \in [1 .. N -> 1 .. N] /\ PassedOf(t) \in SUBSET (1 .. N)
    BY <1>1, <1>2, <1>3
  <2>2. \A i, j \in 1 .. N : results[i] = results[j] => i = j
    BY <1>1, <1>2
  <2> DEFINE S == PassedOf(t)
  <2>3. S \in SUBSET (1 .. N)
    BY <2>1
  <2> HIDE DEF S
  <2>4. Cardinality({i \in 1 .. N : results[i] \in S}) = Cardinality(S)
    BY <2>1, <2>2, <2>3, CountThroughList
  <2>. QED  BY <2>4 DEF S
<1>5. {i \in 1 .. N : results[i] \in PassedOf(t)}
        = {i \in DOMAIN results : task[results[i]] = t /\ verdict[results[i]] = "passed"}
  BY <1>1, <1>2 DEF PassedOf, SamplesOf
<1>. QED  BY <1>4, <1>5 DEF Correct

LEMMA ScoreScore == ASSUME IInv, ScoreInv, Score PROVE ScoreInv'
<1>1. /\ UNCHANGED <<input, pool>> /\ AllCollected
      /\ main' = IF evaluate_pass_at_k THEN "returned" ELSE "raised"
  BY DEF Score, MainOnly, pool
<1>2. JudgedOnce'
  BY <1>1 DEF ScoreInv, JudgedOnce, pool
<1>3. CASE ~evaluate_pass_at_k
  BY <1>1, <1>2, <1>3 DEF ScoreInv, ScoreIsShareOfDraws
<1>4. CASE evaluate_pass_at_k
  <2>1. /\ problems' = problems /\ \A t : SamplesOf(t)' = SamplesOf(t) /\ PassedOf(t)' = PassedOf(t)
    BY <1>1 DEF input, pool, SamplesOf, PassedOf, Samples
  <2>2. Scored = problems /\ \A t \in problems : t \in Tasks /\ Total(t) = Cardinality(SamplesOf(t))
    BY <1>1, <1>4, AllAreCollected DEF IInv, Inputs
  <2>3. IsFiniteSet(problems)
    BY PoolAssumption, FS_Subset DEF IInv, Inputs
  <2>4. ASSUME NEW k \in DOMAIN pass_at_k'
        PROVE  Equal(pass_at_k'[k],
                     Mean(problems, [t \in problems |-> ShareOfDraws(Cardinality(SamplesOf(t)),
                                                                     Cardinality(PassedOf(t)), k)]))
    <3> DEFINE e == [t \in problems |-> Estimator(Total(t), Correct(t), k)]
               d == [t \in problems |-> ShareOfDraws(Cardinality(SamplesOf(t)), Cardinality(PassedOf(t)), k)]
    <3>1. k \in Ks /\ pass_at_k'[k] = Mean(problems, e)
      <4>1. pass_at_k' = [l \in {l \in Ks : \A t \in Scored : Total(t) >= l} |->
                            Mean(Scored, [t \in Scored |-> Estimator(Total(t), Correct(t), l)])]
        BY <1>4 DEF Score
      <4>. QED  BY <2>2, <4>1
    <3>2. k \in Nat \ {0}
      BY <3>1, PoolAssumption
    <3>3. ASSUME NEW t \in problems
          PROVE  e[t] \in Fractions /\ d[t] \in Fractions /\ Equal(e[t], d[t])
      <4>1. Total(t) = Cardinality(SamplesOf(t)) /\ Correct(t) = Cardinality(PassedOf(t))
        BY <1>1, <2>2, CorrectOfSamples
      <4>2. IsFiniteSet(SamplesOf(t)) /\ PassedOf(t) \in SUBSET SamplesOf(t)
        <5>1. N \in Nat /\ Samples = 1 .. N
          BY Shape DEF IInv
        <5>2. IsFiniteSet(Samples) /\ SamplesOf(t) \in SUBSET Samples
          BY <5>1, FS_Interval DEF SamplesOf
        <5>. QED  BY <5>2, FS_Subset DEF PassedOf
      <4>3. Total(t) \in Nat /\ Correct(t) \in 0 .. Total(t)
        BY <4>1, <4>2, FS_CardinalityType, FS_Subset
      <4>4. e[t] = Estimator(Total(t), Correct(t), k) /\ d[t] = ShareOfDraws(Total(t), Correct(t), k)
        BY <4>1
      <4> HIDE DEF e, d
      <4>. QED  BY <3>2, <4>3, <4>4, EstimatorIsShare
    <3> HIDE DEF e, d
    <3>4. Equal(Mean(problems, e), Mean(problems, d))
      BY <2>3, <3>3, MeansEqual
    <3>. QED  BY <3>1, <3>4 DEF d
  <2>5. ScoreIsShareOfDraws'
    BY <2>1, <2>4 DEF ScoreIsShareOfDraws
  <2>. QED  BY <1>2, <2>5 DEF ScoreInv
<1>. QED  BY <1>3, <1>4

LEMMA ScoreInvNext == IInv /\ ScoreInv /\ [Next]_vars => ScoreInv'
<1> SUFFICES ASSUME IInv, ScoreInv, [Next]_vars PROVE ScoreInv'
  OBVIOUS
<1>1. ASSUME SubmitFails \/ AllSubmitted \/ Unwind \/ (\E s \in Samples : Collect(s)) PROVE ScoreInv'
  <2>1. UNCHANGED <<input, pool>> /\ main' # "returned"
    BY <1>1 DEF SubmitFails, AllSubmitted, Unwind, Collect, MainOnly, pool
  <2>. QED  BY <2>1, PoolUntouched
<1>2. ASSUME Over \/ UNCHANGED vars PROVE ScoreInv'
  BY <1>2, PoolUntouched DEF Over, vars
<1>. QED
  BY <1>1, <1>2, SubmitScore, StartScore, FinishScore, ScoreScore DEF Next, Main

LEMMA ScoreInvHolds == Init /\ [][Next]_vars => []ScoreInv
<1>1. Init /\ [][Next]_vars => []IInv
  BY InvariantHolds
<1>. QED  BY <1>1, ScoreInvInit, ScoreInvNext, PTL

-----------------------------------------------------------------------------
(* What the evaluation promises *)

\* A sample that raised or has no problem, or results that match no sample.
Wrong == \/ \E s \in Samples : verdict[s] = "raised" \/ task[s] \notin problems
         \/ keeps_samples /\ test_groundtruth

\* What is behind an exception: the loop is left for something that is wrong, and there
\* is no score for a problem that no sample counted.
Reasons ==
    /\ \A s \in 1 .. position : completion_id[task[s]] > 0
    /\ \A i \in DOMAIN results : verdict[results[i]] \in {"passed", "failed"}
    /\ main = "unwind" => Wrong
    /\ (main = "collect" /\ ~evaluate_pass_at_k) => \E t \in problems : SamplesOf(t) = {}

LEMMA ReasonsInit == Init => Reasons
BY DEF Init, Reasons

(* What is wrong stays so while verdicts that were given stay. *)
LEMMA WrongStays ==
    ASSUME UNCHANGED input, \A s \in Samples : verdict[s] = "raised" => verdict'[s] = "raised"
    PROVE  (Wrong => Wrong') /\ Samples' = Samples /\ \A t : SamplesOf(t)' = SamplesOf(t)
BY DEF Wrong, input, Samples, SamplesOf

LEMMA SubmitReasons == ASSUME IInv, Reasons, Submit PROVE Reasons'
<1> DEFINE s == position + 1
<1>1. /\ UNCHANGED <<input, verdict, results, main>> /\ main = "submit" /\ position' = s
      /\ completion_id' = [completion_id EXCEPT ![task[s]] = @ + 1]
  BY DEF Submit, MainOnly
<1>2. /\ position \in Nat /\ completion_id \in [Tasks -> Nat] /\ \A u \in 1 .. s : task[u] \in Tasks
  <2>1. N \in Nat /\ Samples = 1 .. N /\ \A u \in Samples : task[u] \in Tasks
    BY Shape DEF IInv
  <2>2. position \in Nat /\ position < N
    BY DEF IInv, PoolHolds, Submit
  <2>. QED  BY <2>1, <2>2 DEF IInv, Counts
<1>3. ASSUME NEW u \in 1 .. s PROVE completion_id'[task[u]] > 0
  <2>1. s \in 1 .. s
    BY <1>2
  <2>2. task[s] \in Tasks /\ task[u] \in Tasks
    BY <1>2, <2>1
  <2>3. completion_id[task[s]] \in Nat /\ completion_id[task[u]] \in Nat
    BY <1>2, <2>2
  <2>4. CASE task[u] = task[s]
    <3>1. completion_id'[task[u]] = completion_id[task[s]] + 1
      BY <1>1, <1>2, <2>2, <2>4
    <3>. QED  BY <2>3, <3>1
  <2>5. CASE task[u] # task[s]
    <3>1. u # s /\ u \in 1 .. position
      BY <1>2, <2>5
    <3>2. completion_id[task[u]] > 0
      BY <3>1 DEF Reasons
    <3>3. completion_id'[task[u]] = completion_id[task[u]]
      BY <1>1, <1>2, <2>2, <2>5
    <3>. QED  BY <3>2, <3>3
  <2>. QED  BY <2>4, <2>5
<1>4. task' = task
  BY <1>1 DEF input
<1> HIDE DEF s
<1>. QED  BY <1>1, <1>3, <1>4 DEF Reasons

(* A task that no sample was counted for is a problem without samples. *)
LEMMA LeaveLoopReasons == ASSUME IInv, Reasons, SubmitFails \/ AllSubmitted PROVE Reasons'
<1>1. UNCHANGED <<input, verdict, results, position, completion_id>>
  BY DEF SubmitFails, AllSubmitted, MainOnly
<1>2. (Wrong => Wrong') /\ \A t : SamplesOf(t)' = SamplesOf(t)
  BY <1>1, WrongStays
<1>3. (\A s \in 1 .. position' : completion_id'[task'[s]] > 0)
      /\ \A i \in DOMAIN results' : verdict'[results'[i]] \in {"passed", "failed"}
  BY <1>1 DEF Reasons, input
<1>4. N \in Nat /\ Samples = 1 .. N /\ position \in Nat /\ position <= N
  BY Shape DEF IInv, PoolHolds
<1>5. CASE SubmitFails
  <2>1. position + 1 \in Samples /\ task[position + 1] \notin problems /\ main' = "unwind"
    BY <1>4, <1>5 DEF SubmitFails
  <2>2. Wrong
    BY <2>1 DEF Wrong
  <2>. QED  BY <1>2, <1>3, <2>1, <2>2 DEF Reasons
<1>6. CASE AllSubmitted
  <2>1. main' = "collect" /\ position = N /\ evaluate_pass_at_k' = CoversProblems /\ problems' = problems
    BY <1>1, <1>6 DEF AllSubmitted, input
  <2>2. ASSUME ~CoversProblems PROVE \E t \in problems : SamplesOf(t) = {}
    <3>1. Counted # problems
      BY <2>2 DEF CoversProblems
    <3>2. Counted \subseteq problems
      BY <1>4, <2>1 DEF Counted, IInv, Counts
    <3>3. PICK t \in problems : t \notin Counted
      BY <3>1, <3>2
    <3>4. t \in Tasks /\ ~(completion_id[t] > 0)
      BY <3>3 DEF IInv, Inputs, Counted
    <3>5. SamplesOf(t) = {}
      BY <1>4, <2>1, <3>4 DEF Reasons, SamplesOf
    <3>. QED  BY <3>5
  <2>3. ~evaluate_pass_at_k' => \E t \in problems' : SamplesOf(t)' = {}
    BY <1>2, <2>1, <2>2
  <2>. QED  BY <1>3, <2>1, <2>3 DEF Reasons
<1>. QED  BY <1>5, <1>6

LEMMA CollectReasons == ASSUME IInv, Reasons, NEW s \in Samples, Collect(s) PROVE Reasons'
<1>1. /\ UNCHANGED <<input, verdict, position, completion_id, evaluate_pass_at_k>>
      /\ main = "collect" /\ s \in Ready
  BY DEF Collect, MainOnly
<1>2. (Wrong => Wrong') /\ \A t : SamplesOf(t)' = SamplesOf(t)
  BY <1>1, WrongStays
<1>3. \A u \in 1 .. position' : completion_id'[task'[u]] > 0
  BY <1>1 DEF Reasons, input
<1>4. problems' = problems /\ ((main' = "collect" /\ ~evaluate_pass_at_k') => \E t \in problems' : SamplesOf(t)' = {})
  BY <1>1, <1>2 DEF Reasons, input
<1>5. CASE verdict[s] = "raised"
  <2>1. Wrong /\ main' = "unwind" /\ results' = results
    BY <1>5 DEF Wrong, Collect
  <2>. QED  BY <1>1, <1>2, <1>3, <1>4, <2>1 DEF Reasons
<1>6. CASE verdict[s] # "raised"
  <2>1. verdict[s] \in {"passed", "failed"}
    BY <1>1, <1>6 DEF Ready, IInv, PoolHolds
  <2>2. results' = Append(results, s) /\ results \in Seq(Samples)
    BY <1>6 DEF Collect, IInv, ResultsOnce
  <2>3. \A i \in DOMAIN results' : verdict'[results'[i]] \in {"passed", "failed"}
    BY <1>1, <2>1, <2>2 DEF Reasons
  <2>4. main' = "unwind" => Wrong
    BY <1>1, <1>6 DEF Collect, Wrong
  <2>. QED  BY <1>2, <1>3, <1>4, <2>3, <2>4 DEF Reasons
<1>. QED  BY <1>5, <1>6

(* A call that ends was not collected and had not raised. *)
LEMMA FinishReasons == ASSUME IInv, ScoreInv, Reasons, NEW s \in Samples, Finish(s) PROVE Reasons'
<1>1. PICK v \in {"passed", "failed", "raised"} : verdict' = [verdict EXCEPT ![s] = v]
  BY DEF Finish
<1>2. UNCHANGED <<input, main, results, position, completion_id, evaluate_pass_at_k>> /\ verdict[s] = "none"
  BY DEF Finish, PoolOnly, ScoreInv, JudgedOnce
<1>3. \A u : u # s => verdict'[u] = verdict[u]
  BY <1>1 DEF IInv, PoolHolds
<1>4. (Wrong => Wrong') /\ \A t : SamplesOf(t)' = SamplesOf(t)
  BY <1>2, <1>3, WrongStays
<1>5. \A i \in DOMAIN results' : verdict'[results'[i]] \in {"passed", "failed"}
  BY <1>2, <1>3 DEF Reasons
<1>. QED  BY <1>2, <1>4, <1>5 DEF Reasons, input

LEMMA ReasonsNext == IInv /\ ScoreInv /\ Reasons /\ [Next]_vars => Reasons'
<1> SUFFICES ASSUME IInv, ScoreInv, Reasons, [Next]_vars PROVE Reasons'
  OBVIOUS
<1>1. ASSUME Score \/ Unwind PROVE Reasons'
  <2>1. UNCHANGED <<input, verdict, results, position, completion_id>> /\ main' \in Ended
    BY <1>1 DEF Score, Unwind, MainOnly, Ended
  <2>. QED  BY <2>1 DEF Reasons, Ended, input
<1>2. ASSUME Start \/ Over \/ UNCHANGED vars PROVE Reasons'
  <2>1. UNCHANGED <<input, verdict, results, position, completion_id, main, evaluate_pass_at_k>>
    BY <1>2 DEF Start, PoolOnly, Over, vars, pool
  <2>2. (Wrong => Wrong') /\ \A t : SamplesOf(t)' = SamplesOf(t)
    BY <2>1, WrongStays
  <2>. QED  BY <2>1, <2>2 DEF Reasons, input
<1>. QED
  BY <1>1, <1>2, SubmitReasons, LeaveLoopReasons, CollectReasons, FinishReasons DEF Next, Main

(* The counters and sets of samples are the same seen from outside. *)
LEMMA OutsideView ==
    /\ Promise!Samples = Samples
    /\ \A t : Promise!SamplesOf(t) = SamplesOf(t) /\ Promise!PassedOf(t) = PassedOf(t)
BY DEF Promise!Samples, Samples, Promise!SamplesOf, SamplesOf, Promise!PassedOf, PassedOf

LEMMA SameCardinality == \A S : Promise!Cardinality(S) = Cardinality(S)
BY DEF Promise!Cardinality, Cardinality

LEMMA InitPromised == Init => Promise!Init
BY DEF Init, Promise!Init, Promise!Samples, Samples, Outcome

(* Whoever leaves the pool and the score alone and does not end has done nothing. *)
LEMMA StutterPromised ==
    ASSUME UNCHANGED <<input, verdict, pass_at_k>>, Outcome' = Outcome
    PROVE  UNCHANGED Promise!vars
BY DEF Promise!vars, input

LEMMA FinishPromised == ASSUME IInv, ScoreInv, NEW s \in Samples, Finish(s) PROVE Promise!Judge(s)
<1>1. \E v \in {"passed", "failed", "raised"} : verdict' = [verdict EXCEPT ![s] = v]
  BY DEF Finish
<1>2. s \in running /\ UNCHANGED <<input, main, pass_at_k>>
  BY DEF Finish, PoolOnly
<1>3. verdict[s] = "none" /\ s \in 1 .. position /\ task[s] \in problems
  BY <1>2 DEF ScoreInv, JudgedOnce, IInv, PoolHolds, Counts
<1>4. Outcome = "open"
  BY <1>3 DEF IInv, NothingLeft, Outcome
<1>5. Outcome' = Outcome
  BY <1>2 DEF Outcome
<1>. QED  BY <1>1, <1>2, <1>3, <1>4, <1>5 DEF Promise!Judge, input

LEMMA UnwindPromised == ASSUME Reasons, Unwind PROVE Promise!Raise
<1>1. UNCHANGED <<input, verdict, pass_at_k>> /\ Outcome = "open" /\ Outcome' = "raised"
  BY DEF Unwind, MainOnly, Outcome
<1>2. Wrong
  BY DEF Reasons, Unwind
<1>3. Promise!Reason
  BY <1>2, OutsideView DEF Wrong, Promise!Reason
<1>. QED  BY <1>1, <1>3 DEF Promise!Raise, input

LEMMA ScorePromised ==
    ASSUME IInv, IInv', ScoreInv', Reasons, Score
    PROVE  Promise!Return \/ Promise!Raise
<1>1. /\ UNCHANGED <<input, verdict>> /\ AllCollected /\ Outcome = "open"
      /\ main' = IF evaluate_pass_at_k THEN "returned" ELSE "raised"
  BY DEF Score, MainOnly, AllCollected, Outcome
<1>2. /\ task' = task /\ problems' = problems
      /\ \A t : SamplesOf(t)' = SamplesOf(t) /\ PassedOf(t)' = PassedOf(t)
  BY <1>1 DEF input, SamplesOf, PassedOf, Samples
<1>3. CASE ~evaluate_pass_at_k
  <2>1. Outcome' = "raised" /\ pass_at_k' = pass_at_k
    BY <1>1, <1>3 DEF Score, Outcome
  <2>2. \E t \in problems : SamplesOf(t) = {}
    BY <1>1, <1>3 DEF Reasons, AllCollected
  <2>3. Promise!Reason
    BY <2>2, OutsideView DEF Promise!Reason
  <2>. QED  BY <1>1, <2>1, <2>3 DEF Promise!Raise, input
<1>4. CASE evaluate_pass_at_k
  <2>1. main' = "returned" /\ Outcome' = "returned"
    BY <1>1, <1>4 DEF Outcome
  <2>2. \A s \in Samples : task[s] \in problems /\ verdict[s] \in {"passed", "failed"}
    <3>1. /\ N \in Nat /\ Samples = 1 .. N /\ results \in Seq(1 .. N) /\ Len(results) = N /\ position = N
          /\ \A i, j \in DOMAIN results : results[i] = results[j] => i = j
      BY <1>1, AllAreCollected, Shape DEF IInv, AllCollected, ResultsOnce
    <3>2. /\ N \in Nat /\ results \in [1 .. N -> 1 .. N] /\ DOMAIN results = 1 .. N
          /\ \A i, j \in 1 .. N : results[i] = results[j] => i = j
      BY <3>1
    <3>3. \A s \in 1 .. N : \E i \in 1 .. N : results[i] = s
      BY <3>2, ListIsPermutation
    <3>4. \A s \in 1 .. N : task[s] \in problems
      BY <3>1 DEF IInv, Counts
    <3>. QED  BY <3>1, <3>2, <3>3, <3>4 DEF Reasons
  <2>3. /\ \A t \in problems : SamplesOf(t) # {}
        /\ DOMAIN pass_at_k' = {k \in Ks : \A t \in problems : Cardinality(SamplesOf(t)) >= k}
    BY <1>2, <2>1 DEF IInv, ScoreCountsAll
  <2> DEFINE S == [t \in problems |-> SamplesOf(t)]
             P == [t \in problems |-> PassedOf(t)]
  <2>4. ASSUME NEW k \in DOMAIN pass_at_k' PROVE IsMeanShare(pass_at_k'[k], S, P, k)
    <3>1. Equal(pass_at_k'[k],
                Mean(problems, [t \in problems |-> ShareOfDraws(Cardinality(SamplesOf(t)),
                                                                Cardinality(PassedOf(t)), k)]))
      BY <1>2, <2>1 DEF ScoreInv, ScoreIsShareOfDraws
    <3>2. DOMAIN S = problems /\ \A t \in problems : S[t] = SamplesOf(t) /\ P[t] = PassedOf(t)
      OBVIOUS
    <3> HIDE DEF S, P
    <3>3. [t \in DOMAIN S |-> ShareOfDraws(Cardinality(S[t]), Cardinality(P[t]), k)]
            = [t \in problems |-> ShareOfDraws(Cardinality(SamplesOf(t)), Cardinality(PassedOf(t)), k)]
      BY <3>2
    <3>. QED  BY <3>1, <3>2, <3>3 DEF IsMeanShare
  <2>5. /\ [t \in problems |-> Promise!SamplesOf(t)] = S
        /\ [t \in problems |-> Promise!PassedOf(t)] = P
    BY OutsideView
  <2>6. /\ \A s \in Promise!Samples : task[s] \in problems /\ verdict[s] \in {"passed", "failed"}
        /\ \A t \in problems : Promise!SamplesOf(t) # {}
        /\ DOMAIN pass_at_k' = {k \in Ks : \A t \in problems : Promise!Cardinality(Promise!SamplesOf(t)) >= k}
    BY <2>2, <2>3, OutsideView, SameCardinality
  <2>7. \A k \in DOMAIN pass_at_k' :
          IsMeanShare(pass_at_k'[k], [t \in problems |-> Promise!SamplesOf(t)],
                      [t \in problems |-> Promise!PassedOf(t)], k)
    <3> HIDE DEF S, P
    <3>. QED  BY <2>4, <2>5
  <2>8. UNCHANGED <<problems, task, keeps_samples /\ test_groundtruth, verdict>>
    BY <1>1 DEF input
  <2> HIDE DEF S, P
  <2>9. Promise!Return
    BY <1>1, <2>1, <2>6, <2>7, <2>8 DEF Promise!Return
  <2>. QED  BY <2>9
<1>. QED  BY <1>3, <1>4

LEMMA StepPromised ==
    IInv /\ IInv' /\ ScoreInv /\ ScoreInv' /\ Reasons /\ [Next]_vars => [Promise!Next]_(Promise!vars)
<1> SUFFICES ASSUME IInv, IInv', ScoreInv, ScoreInv', Reasons, [Next]_vars
             PROVE  [Promise!Next]_(Promise!vars)
  OBVIOUS
<1>1. ASSUME SubmitFails \/ AllSubmitted \/ Submit \/ Start \/ (\E s \in Samples : Collect(s))
      PROVE  UNCHANGED Promise!vars
  <2>1. UNCHANGED <<input, verdict, pass_at_k>>
    BY <1>1 DEF SubmitFails, AllSubmitted, Submit, Start, Collect, MainOnly, PoolOnly
  <2>2. Outcome' = Outcome
    BY <1>1 DEF SubmitFails, AllSubmitted, Submit, Start, Collect, PoolOnly, Outcome
  <2>. QED  BY <2>1, <2>2, StutterPromised
<1>2. ASSUME Over \/ UNCHANGED vars PROVE UNCHANGED Promise!vars
  <2>1. UNCHANGED <<input, verdict, pass_at_k>> /\ Outcome' = Outcome
    BY <1>2 DEF Over, vars, pool, Outcome
  <2>. QED  BY <2>1, StutterPromised
<1>3. ASSUME NEW s \in Samples, Finish(s) PROVE Promise!Next
  <2>1. Promise!Judge(s) /\ s \in Promise!Samples
    BY <1>3, FinishPromised, OutsideView
  <2>. QED  BY <2>1 DEF Promise!Next
<1>4. ASSUME Unwind PROVE Promise!Next
  BY <1>4, UnwindPromised DEF Promise!Next
<1>5. ASSUME Score PROVE Promise!Next
  BY <1>5, ScorePromised DEF Promise!Next
<1>. QED  BY <1>1, <1>2, <1>3, <1>4, <1>5 DEF Next, Main

-----------------------------------------------------------------------------
(* Theorems *)

(* The LeetCode script is an evaluation: what holds of every evaluation holds of it. *)
THEOREM ScriptIsEvaluation == ScriptSpec => Init /\ [][Next]_vars
<1>1. ScriptInit => Init
  BY DEF ScriptInit
<1>. QED  BY <1>1, ScriptStep, PTL DEF ScriptSpec

(* Every call handed to the pool has ended when the evaluation has, by return or by
   exception. *)
THEOREM NoCallOutlives == (Spec => []NothingLeft) /\ (ScriptSpec => []NothingLeft)
<1>1. IInv => NothingLeft
  BY DEF IInv
<1>. QED  BY <1>1, InvariantHolds, ScriptKeepsIInv, PTL DEF Spec

(* A score counts every sample of every problem, once, whatever the order in which
   the calls completed. *)
THEOREM EachScoredOnce == (Spec => []ScoreCountsAll) /\ (ScriptSpec => []ScoreCountsAll)
<1>1. IInv => ScoreCountsAll
  BY DEF IInv
<1>. QED  BY <1>1, InvariantHolds, ScriptKeepsIInv, PTL DEF Spec

(* A record written back has its own sample's code, unless the file numbers samples. *)
THEOREM RecordsHaveOwnCode == (Spec => []RecordsOwn) /\ (ScriptSpec => []RecordsOwn)
<1>1. IInv => RecordsOwn
  BY DEF IInv, Records
<1>. QED  BY <1>1, InvariantHolds, ScriptKeepsIInv, PTL DEF Spec

(* The script's statistics by difficulty are those of the score, and it fails only
   with the evaluation. *)
THEOREM DifficultiesAgree == ScriptSpec => []StatsAgree
<1>1. ScriptInv => StatsAgree
  BY DEF ScriptInv, StatsTrue, StatsAgree
<1>. QED  BY <1>1, ScriptInvInit, ScriptInvNext, ScriptKeepsIInv, PTL DEF ScriptSpec

(* pass@k is the mean, over the whole problem file, of the share of the draws of k
   completions that contain one that passed: for any numbers of completions and of
   those that passed, the product of fractions the code computes has that value. *)
THEOREM ScoreIsTrue == (Spec => []ScoreIsShareOfDraws) /\ (ScriptSpec => []ScoreIsShareOfDraws)
<1>1. ScoreInv => ScoreIsShareOfDraws
  BY DEF ScoreInv
<1>2. ScriptInit => Init
  BY DEF ScriptInit
<1>. QED  BY <1>1, <1>2, ScoreInvHolds, ScriptStep, PTL DEF Spec, ScriptSpec

(* The evaluation keeps what it promises its caller, and so does the script's: each sample
   is judged once and before the end; the score is that of all the verdicts; and an
   exception has a reason the caller can find. *)
THEOREM PromiseIsKept == (Spec => ImplementsEvaluation) /\ (ScriptSpec => ImplementsEvaluation)
<1>1. Init /\ [][Next]_vars => ImplementsEvaluation
  <2>1. Init /\ [][Next]_vars => []IInv /\ []ScoreInv
    BY InvariantHolds, ScoreInvHolds, PTL
  <2>. QED  BY <2>1, ReasonsInit, ReasonsNext, InitPromised, StepPromised, PTL
            DEF ImplementsEvaluation, Promise!Spec
<1>2. ScriptInit => Init
  BY DEF ScriptInit
<1>. QED  BY <1>1, <1>2, ScriptStep, PTL DEF Spec, ScriptSpec
=============================================================================
