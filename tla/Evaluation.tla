----------------------------- MODULE Evaluation -----------------------------
(***************************************************************************)
(* What evaluate_functional_correctness promises its caller, without       *)
(* threads, queues, counters or an order of completion: each sample gets   *)
(* one verdict while the evaluation is open; it returns, with the score of *)
(* those verdicts, only when all samples have one and each problem has     *)
(* samples, and raises only for a reason that the caller can find in what  *)
(* he gave it or in a call that raised.                                    *)
(***************************************************************************)
EXTENDS Naturals, FiniteSets

CONSTANTS
    Ks,                 \* the values of k asked for
    IsScore(_, _, _, _) \* value, samples and passed samples by problem, k

VARIABLES
    problems, task,     \* inputs: task ids of the problem file, task of each sample
    unmatched,          \* input: results have no sample they could be written back to
    verdict,            \* of each sample, "none" before it is judged
    outcome,            \* "open", "returned" or "raised"
    score               \* a value for some values of k

vars == <<problems, task, unmatched, verdict, outcome, score>>

Samples      == DOMAIN task
SamplesOf(t) == {s \in Samples : task[s] = t}
PassedOf(t)  == {s \in SamplesOf(t) : verdict[s] = "passed"}

Init ==
    /\ verdict = [s \in Samples |-> "none"]
    /\ outcome = "open" /\ score = <<>>

Judge(s) ==
    /\ outcome = "open"
    /\ task[s] \in problems /\ verdict[s] = "none"
    /\ \E v \in {"passed", "failed", "raised"} : verdict' = [verdict EXCEPT ![s] = v]
    /\ UNCHANGED <<problems, task, unmatched, outcome, score>>

Return ==
    /\ outcome = "open"
    /\ \A s \in Samples : task[s] \in problems /\ verdict[s] \in {"passed", "failed"}
    /\ \A t \in problems : SamplesOf(t) # {}
    /\ outcome' = "returned"
    /\ DOMAIN score' = {k \in Ks : \A t \in problems : Cardinality(SamplesOf(t)) >= k}
    /\ \A k \in DOMAIN score' :
         IsScore(score'[k], [t \in problems |-> SamplesOf(t)], [t \in problems |-> PassedOf(t)], k)
    /\ UNCHANGED <<problems, task, unmatched, verdict>>

\* A sample that raised or that no problem is there for, a problem without samples, or
\* no way to match results to samples.
Reason ==
    \/ \E s \in Samples : verdict[s] = "raised" \/ task[s] \notin problems
    \/ \E t \in problems : SamplesOf(t) = {}
    \/ unmatched

Raise ==
    /\ outcome = "open" /\ Reason
    /\ outcome' = "raised"
    /\ UNCHANGED <<problems, task, unmatched, verdict, score>>

Next == Return \/ Raise \/ \E s \in Samples : Judge(s)

Spec == Init /\ [][Next]_vars
=============================================================================
