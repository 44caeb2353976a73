------------------------------ MODULE EvalPool ------------------------------
(***************************************************************************)
(* evaluate_functional_correctness in human_eval/evaluation.py: the main   *)
(* thread turns samples into calls of check_correctness on a thread pool,  *)
(* collects the results in the order they complete and computes the score. *)
(* The LeetCode copy of the file (keeps_samples) also writes every sample   *)
(* back with its result.                                                   *)
(*                                                                         *)
(* The content of a sample is its number; check_correctness is any verdict *)
(* or an exception (a worker that cannot start its processes).             *)
(***************************************************************************)
EXTENDS PassAtK, Sequences

CONSTANTS
    MaxSamples,     \* bound: samples in the file
    Tasks,          \* task ids that samples may name
    GivenIds,       \* completion_id values that samples may carry
    Absent,         \* a sample without completion_id
    Workers,        \* n_workers
    Ks              \* the argument k

ASSUME PoolAssumption ==
    /\ MaxSamples \in Nat /\ Workers \in Nat \ {0}
    /\ IsFiniteSet(Tasks)
    /\ GivenIds \subseteq Nat /\ Absent \notin GivenIds /\ Ks \subseteq Nat \ {0}

VARIABLES
    keeps_samples,      \* input: whether this is the LeetCode copy
    test_groundtruth,   \* input: one sample per problem, none read
    problems,           \* input: task ids of the problem file
    task, given,        \* input: task_id of each sample, the id it carries
    main,               \* where the main thread is
    position,           \* samples submitted
    completion_id,      \* Counter: samples submitted of each task
    id,                 \* completion id of each sample submitted
    id2samples,         \* LeetCode: the sample last submitted under a task and id
    queue, running,     \* of the thread pool
    verdict,            \* of each future
    results,            \* samples in the order their results were collected
    sample_with_results,            \* LeetCode: [of, generation] of each record
    evaluate_pass_at_k,
    pass_at_k           \* the score returned: a fraction for some values of k

input == <<keeps_samples, test_groundtruth, problems, task, given>>
pool  == <<queue, running, verdict>>
vars  == <<input, main, position, completion_id, id, id2samples, pool, results,
           sample_with_results, evaluate_pass_at_k, pass_at_k>>

Samples == DOMAIN task
N       == Len(task)
Keys    == Tasks \X Nat

Init ==
    /\ keeps_samples \in BOOLEAN /\ test_groundtruth \in BOOLEAN
    /\ problems \in SUBSET Tasks \ {{}}
    /\ IF test_groundtruth
       THEN /\ task \in [1 .. Cardinality(problems) -> problems]
            /\ {task[s] : s \in Samples} = problems
            /\ given = [s \in Samples |-> Absent]
       ELSE \E n \in 1 .. MaxSamples :
              /\ task \in [1 .. n -> Tasks]
              /\ given \in [1 .. n -> GivenIds \union {Absent}]
    /\ main = "submit" /\ position = 0
    /\ completion_id = [t \in Tasks |-> 0]
    /\ id = [s \in Samples |-> 0]
    /\ id2samples = <<>>
    /\ queue = <<>> /\ running = {} /\ verdict = [s \in Samples |-> "none"]
    /\ results = <<>> /\ sample_with_results = <<>>
    /\ evaluate_pass_at_k = FALSE /\ pass_at_k = <<>>

-----------------------------------------------------------------------------
(* The main thread *)

MainOnly == UNCHANGED <<input, running, verdict>>

\* Defect: samples are not counted.
SameId(s) == IF given[s] = Absent THEN 0 ELSE given[s]

CompletionId(s) == IF given[s] = Absent THEN completion_id[task[s]] ELSE given[s]

\* process_humaneval_test looks the task up; then the call is handed to the pool.
Submit ==
    LET s == position + 1
    IN  /\ main = "submit" /\ position < N
        /\ task[s] \in problems
        /\ position' = s
        /\ id' = [id EXCEPT ![s] = CompletionId(s)]
        /\ completion_id' = [completion_id EXCEPT ![task[s]] = @ + 1]
        /\ id2samples' =
             IF keeps_samples /\ ~test_groundtruth
             THEN [key \in {<<task[s], CompletionId(s)>>} \union DOMAIN id2samples |->
                     IF key = <<task[s], CompletionId(s)>> THEN s ELSE id2samples[key]]
             ELSE id2samples
        /\ queue' = Append(queue, s)
        /\ MainOnly
        /\ UNCHANGED <<main, results, sample_with_results, evaluate_pass_at_k, pass_at_k>>

\* A task that the problem file lacks is a KeyError.
SubmitFails ==
    /\ main = "submit" /\ position < N
    /\ task[position + 1] \notin problems
    /\ main' = "unwind"
    /\ MainOnly
    /\ UNCHANGED <<position, completion_id, id, id2samples, queue, results,
                   sample_with_results, evaluate_pass_at_k, pass_at_k>>

\* The Counter has a key for each task that was submitted.
Counted == {t \in Tasks : completion_id[t] > 0}

CoversProblems == Cardinality(Counted) = Cardinality(problems)

AllSubmitted ==
    /\ main = "submit" /\ position = N
    /\ evaluate_pass_at_k' = CoversProblems
    /\ main' = "collect"
    /\ MainOnly
    /\ UNCHANGED <<position, completion_id, id, id2samples, queue, results,
                   sample_with_results, pass_at_k>>

Collected == {results[i] : i \in DOMAIN results}
Ready     == {s \in Samples : verdict[s] # "none"} \ Collected

\* as_completed yields any future that is done; result() raises what the call
\* raised.  In the ground truth branch id2samples was never assigned.
Collect(s) ==
    /\ main = "collect" /\ s \in Ready
    /\ IF verdict[s] = "raised"
       THEN main' = "unwind" /\ UNCHANGED <<results, sample_with_results>>
       ELSE /\ results' = Append(results, s)
            /\ IF ~keeps_samples THEN UNCHANGED <<main, sample_with_results>>
               ELSE IF test_groundtruth THEN main' = "unwind" /\ UNCHANGED sample_with_results
               ELSE /\ sample_with_results' =
                         Append(sample_with_results,
                                [of |-> s, generation |-> id2samples[<<task[s], id[s]>>]])
                    /\ UNCHANGED main
    /\ MainOnly
    /\ UNCHANGED <<position, completion_id, id, id2samples, queue, evaluate_pass_at_k, pass_at_k>>

\* Defect: the last result is not waited for.
AllButOne == main = "collect" /\ Len(results) + 1 >= N

AllCollected == main = "collect" /\ Len(results) = N

Total(t)   == Cardinality({i \in DOMAIN results : task[results[i]] = t})
Correct(t) == Cardinality({i \in DOMAIN results :
                             task[results[i]] = t /\ verdict[results[i]] = "passed"})
Scored     == {task[results[i]] : i \in DOMAIN results}

\* Without a score, return pass_at_k raises UnboundLocalError.
Score ==
    /\ AllCollected
    /\ pass_at_k' = IF evaluate_pass_at_k
                    THEN [k \in {k \in Ks : \A t \in Scored : Total(t) >= k} |->
                            Mean(Scored, [t \in Scored |-> Estimator(Total(t), Correct(t), k)])]
                    ELSE pass_at_k
    /\ main' = IF evaluate_pass_at_k THEN "returned" ELSE "raised"
    /\ MainOnly
    /\ UNCHANGED <<position, completion_id, id, id2samples, queue, results,
                   sample_with_results, evaluate_pass_at_k>>

\* Defect: leaving the with block does not wait for the pool.
UnwindNow ==
    /\ main = "unwind"
    /\ main' = "raised"
    /\ MainOnly
    /\ UNCHANGED <<position, completion_id, id, id2samples, queue, results,
                   sample_with_results, evaluate_pass_at_k, pass_at_k>>

\* Defect: an exception leads back into the loop.
UnwindRetries ==
    /\ main = "unwind"
    /\ queue = <<>> /\ running = {}
    /\ main' = "submit"
    /\ MainOnly
    /\ UNCHANGED <<position, completion_id, id, id2samples, queue, results,
                   sample_with_results, evaluate_pass_at_k, pass_at_k>>

\* An exception leaves the with block when every call submitted has ended.
Unwind ==
    /\ main = "unwind"
    /\ queue = <<>> /\ running = {}
    /\ main' = "raised"
    /\ MainOnly
    /\ UNCHANGED <<position, completion_id, id, id2samples, queue, results,
                   sample_with_results, evaluate_pass_at_k, pass_at_k>>

Main == \/ Submit \/ SubmitFails \/ AllSubmitted \/ Score \/ Unwind
        \/ \E s \in Samples : Collect(s)

-----------------------------------------------------------------------------
(* The thread pool *)

PoolOnly == UNCHANGED <<input, main, position, completion_id, id, id2samples, results,
                        sample_with_results, evaluate_pass_at_k, pass_at_k>>

Start ==
    /\ queue # <<>> /\ Cardinality(running) < Workers
    /\ running' = running \union {Head(queue)}
    /\ queue' = Tail(queue)
    /\ PoolOnly /\ UNCHANGED verdict

Finish(s) ==
    /\ s \in running
    /\ running' = running \ {s}
    /\ \E v \in {"passed", "failed", "raised"} : verdict' = [verdict EXCEPT ![s] = v]
    /\ PoolOnly /\ UNCHANGED queue

Over == main \in {"returned", "raised"} /\ UNCHANGED vars

Next == Main \/ Start \/ (\E s \in Samples : Finish(s)) \/ Over

\* The threads run, and check_correctness returns (CallReturns).
Fairness == WF_vars(Main) /\ WF_vars(Start) /\ WF_vars(\E s \in Samples : Finish(s))

Spec == Init /\ [][Next]_vars /\ Fairness

-----------------------------------------------------------------------------
(* Properties *)

SamplesOf(t) == {s \in Samples : task[s] = t}
PassedOf(t)  == {s \in SamplesOf(t) : verdict[s] = "passed"}

\* Whatever the order of completion, what is scored is each sample of each problem,
\* once, and there is a score for every k that all problems have samples for.
ScoreCountsAll ==
    main = "returned" =>
        /\ \A t \in Tasks : Total(t) = Cardinality(SamplesOf(t))
        /\ \A t \in problems : SamplesOf(t) # {}
        /\ DOMAIN pass_at_k = {k \in Ks : \A t \in problems : Cardinality(SamplesOf(t)) >= k}

\* pass@k is the mean over the whole problem file of the share of the draws of k
\* completions that contain one that passed.
ScoreIsShareOfDraws ==
    main = "returned" =>
        \A k \in DOMAIN pass_at_k :
            Equal(pass_at_k[k],
                  Mean(problems, [t \in problems |-> ShareOfDraws(Cardinality(SamplesOf(t)),
                                                                  Cardinality(PassedOf(t)), k)]))

\* A record written back shows another sample's code only if the file numbered
\* samples itself.
RecordsOwn ==
    \A i \in DOMAIN sample_with_results :
        LET r == sample_with_results[i]
        IN  r.generation # r.of =>
                /\ task[r.generation] = task[r.of]
                /\ given[r.generation] # Absent \/ given[r.of] # Absent

\* However the function ends, by return or by exception, no call outlives it: every
\* sample that was handed to the pool has been judged.
NothingLeft ==
    main \in {"returned", "raised"} => \A s \in 1 .. position : verdict[s] # "none"

\* "Evaluates the functional correctness of a model": unless a sample names an
\* unknown task or a call raises, the evaluation returns its score.
CleanRunReturns ==
    main = "raised" => \/ \E s \in Samples : verdict[s] = "raised"
                       \/ \E s \in Samples : task[s] \notin problems

\* How the evaluation ended, as its caller sees it.
Outcome == IF main \in {"returned", "raised"} THEN main ELSE "open"

\* The mean over the problems of the share of draws with a sample that passed.
IsMeanShare(value, samples, passed, k) ==
    Equal(value, Mean(DOMAIN samples, [t \in DOMAIN samples |->
                    ShareOfDraws(Cardinality(samples[t]), Cardinality(passed[t]), k)]))

Promise == INSTANCE Evaluation
           WITH IsScore <- IsMeanShare, unmatched <- keeps_samples /\ test_groundtruth,
                outcome <- Outcome, score <- pass_at_k

\* The thread pool, the counters and the order of completion keep what Evaluation
\* promises: no verdict comes twice or after the end, the score is that of all verdicts,
\* and an exception has a reason among those the caller can find.
ImplementsEvaluation == Promise!Spec
=============================================================================
