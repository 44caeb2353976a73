------------------------------ MODULE LeetCode ------------------------------
(***************************************************************************)
(* LeetCode/evaluate_leetcode.py around evaluate_functional_correctness:   *)
(* evaluate_main writes the samples with their extracted code to           *)
(* result_path, lets the evaluation read them there and write its records  *)
(* over them, reads these back and counts them by difficulty.              *)
(***************************************************************************)
EXTENDS EvalPool

CONSTANT Hard       \* tasks of difficulty "Hard"; the others are "Easy"

ASSUME HardAssumption == Hard \subseteq Tasks /\ Hard # {} /\ Hard # Tasks

VARIABLES
    script,             \* where evaluate_main is; "none" if it is not the caller
    result_file,        \* the records at result_path
    hardness_results    \* totals and numbers of correct samples by difficulty

script_vars == <<script, result_file, hardness_results>>
all_vars    == <<vars, script_vars>>

Difficulties == {"Easy", "Hard"}
Difficulty(t) == IF t \in Hard THEN "Hard" ELSE "Easy"

\* The script evaluates samples, never the ground truth, on the whole data set.
ScriptInit ==
    /\ Init
    /\ script \in {"none", "extract"}
    /\ script = "extract" => keeps_samples /\ ~test_groundtruth /\ problems = Tasks
    /\ result_file = <<>>
    /\ hardness_results = [d \in Difficulties |-> [total |-> 0, correct |-> 0]]

\* Every sample gets a task_id and a generation, by extraction or as it is.
Extract ==
    /\ script = "extract"
    /\ result_file' = [s \in Samples |-> [of |-> s, generation |-> s]]
    /\ script' = "evaluate"
    /\ UNCHANGED <<vars, hardness_results>>

\* A row without a task_id and without an index below the number of problems, or
\* without an output and without a response: a KeyError or an IndexError, before
\* result_path is opened.
BadRow ==
    /\ script = "extract"
    /\ script' = "rejected"
    /\ UNCHANGED <<vars, result_file, hardness_results>>

\* evaluate_functional_correctness, which writes result_path before it returns, or
\* raises because there is no score to return.
Evaluate(Step) ==
    /\ script \in {"none", "evaluate"}
    /\ Step
    /\ result_file' = IF script = "evaluate" /\ AllCollected THEN sample_with_results
                      ELSE result_file
    /\ UNCHANGED <<script, hardness_results>>

Passed(r) == verdict[r.of] = "passed"

\* Defect: the file is taken to be in the order of the samples.
CountInOrder(d) == {i \in DOMAIN result_file : Difficulty(task[i]) = d}

\* Records of a difficulty.
CountOf(d) == {i \in DOMAIN result_file : Difficulty(task[result_file[i].of]) = d}

\* hardness_results[hardness] += 1; hardness_results[hardness + "_correct"] += passed
Count ==
    /\ script = "evaluate" /\ main = "returned"
    /\ hardness_results' =
         [d \in Difficulties |->
            [total |-> Cardinality(CountOf(d)),
             correct |-> Cardinality({i \in CountOf(d) : Passed(result_file[i])})]]
    /\ script' = "print"
    /\ UNCHANGED <<vars, result_file>>

\* The share of each difficulty is a ZeroDivisionError if it has no record.
Report ==
    /\ script = "print"
    /\ script' = IF \A d \in Difficulties : hardness_results[d].total > 0
                 THEN "done" ELSE "failed"
    /\ UNCHANGED <<vars, result_file, hardness_results>>

\* The evaluation's exception is the script's.
Propagate ==
    /\ script = "evaluate" /\ main = "raised"
    /\ script' = "failed"
    /\ UNCHANGED <<vars, result_file, hardness_results>>

Finished == script \in {"done", "failed", "rejected"} /\ UNCHANGED all_vars

ScriptNext ==
    \/ Extract \/ BadRow \/ Evaluate(Next)
    \/ Count \/ Report \/ Propagate \/ Finished

ScriptSpec ==
    /\ ScriptInit /\ [][ScriptNext]_all_vars
    /\ WF_all_vars(Evaluate(Main)) /\ WF_all_vars(Evaluate(Start))
    /\ WF_all_vars(Evaluate(\E s \in Samples : Finish(s)))
    /\ WF_all_vars(Extract \/ BadRow \/ Count \/ Report \/ Propagate)

-----------------------------------------------------------------------------
(* Properties *)

\* The accuracies by difficulty are those of the score: each sample is counted under
\* its own task with its own verdict, and no difficulty is empty once there is a
\* score.
StatsAgree ==
    /\ script = "done" =>
         \A d \in Difficulties :
            LET own == {s \in Samples : Difficulty(task[s]) = d}
            IN  /\ hardness_results[d].total = Cardinality(own)
                /\ hardness_results[d].correct =
                     Cardinality({s \in own : verdict[s] = "passed"})
    /\ script = "failed" => main = "raised"

\* The evaluation, and the script around it, come to an end.
ScriptEnds ==
    <>(script \in {"done", "failed", "rejected"} \/ (script = "none" /\ main \in {"returned", "raised"}))
=============================================================================
