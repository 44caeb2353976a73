------------------------------ MODULE PalMath ------------------------------
(***************************************************************************)
(* The PAL-Math evaluation.  The README's script starts one process of     *)
(* run.py --do_inference per rank, each of which generates programs for    *)
(* its part of the samples, executes them on a process pool                *)
(* (utils/python_executor.py) and saves samples with their predictions to  *)
(* a file; it waits for all of them and runs run.py --do_eval, which       *)
(* merges the files and grades (utils/grader.py).  The script may be run   *)
(* again, with another number of ranks, over the files of earlier runs.    *)
(*                                                                         *)
(* Generation is greedy, so that a sample has one program; a prediction is *)
(* the number of the sample whose program computed it, or Empty.           *)
(***************************************************************************)
EXTENDS Naturals, Sequences, FiniteSets, SequencesExt

CONSTANTS
    NSamples,       \* samples of the data set
    WorldSizes,     \* --world_size of a run
    Runs,           \* bound: runs of the script
    Workers,        \* cpu_count(): size of a rank's pool
    Right,          \* samples whose programs, if they give an answer, give the right one
    Listed,         \* samples whose answers are lists or tuples
    Empty           \* the prediction ''

ASSUME PalAssumption ==
    /\ NSamples \in Nat \ {0} /\ WorldSizes \subseteq Nat \ {0}
    /\ Runs \in Nat \ {0} /\ Workers \in Nat \ {0}
    /\ Right \subseteq 0 .. NSamples - 1 /\ Listed \subseteq 0 .. NSamples - 1

VARIABLES
    program,        \* what each sample's program does
    use_timeout,    \* timeout of math_equal, which run.py leaves at False
    job, world_size,
    pc,             \* where each rank is
    task,           \* state of each sample's program on its rank's pool
    all_exec_results,       \* predictions each rank has collected
    files,          \* content of the result files that hold any, by name
    eval,           \* where --do_eval is
    merged, scores, \* the samples it loaded, and their scores so far
    grader          \* the process of call_with_timeout

inputs    == <<program, use_timeout>>
rank_vars == <<pc, task, all_exec_results, files>>
eval_vars == <<eval, merged, scores, grader>>
vars      == <<inputs, job, world_size, rank_vars, eval_vars>>

Samples == 0 .. NSamples - 1
Ranks   == 0 .. world_size - 1

\* A program answers, does not (no block with solution(), an exception, an answer
\* that cannot be pickled, no end), or takes its process down.
Programs == {"answers", "no answer", "dies"}

\* [sample for i, sample in enumerate(samples) if i % world_size == rank]
Shard(r) == [i \in 1 .. (NSamples + world_size - 1 - r) \div world_size |-> r + (i - 1) * world_size]
RankOf(s) == s % world_size

Fresh(w) ==
    /\ world_size' = w
    /\ pc' = [r \in 0 .. w - 1 |-> "execute"]
    /\ task' = [s \in Samples |-> "submitted"]
    /\ all_exec_results' = [r \in 0 .. w - 1 |-> <<>>]
    /\ eval' = "idle" /\ merged' = <<>> /\ scores' = <<>> /\ grader' = "none"

Init ==
    /\ program \in [Samples -> Programs] /\ use_timeout \in BOOLEAN
    /\ job = 1 /\ world_size \in WorldSizes
    /\ pc = [r \in Ranks |-> "execute"]
    /\ task = [s \in Samples |-> "submitted"]
    /\ all_exec_results = [r \in Ranks |-> <<>>]
    /\ files = <<>>
    /\ eval = "idle" /\ merged = <<>> /\ scores = <<>> /\ grader = "none"

RanksEnded == \A r \in Ranks : pc[r] \in {"done", "exited"}

\* The script is run again.
Launch ==
    /\ RanksEnded /\ eval \in {"scored", "failed", "hangs", "stuck"}
    /\ job < Runs /\ job' = job + 1
    /\ \E w \in WorldSizes : Fresh(w)
    /\ UNCHANGED <<inputs, files>>

-----------------------------------------------------------------------------
(* The pool of a rank *)

PoolOnly == UNCHANGED <<inputs, job, world_size, pc, all_exec_results, files, eval_vars>>

\* Programs are started in the order of the samples, when a worker is free.
Running(s) ==
    /\ pc[RankOf(s)] \in {"execute", "leave"} /\ task[s] = "submitted"
    /\ Cardinality({o \in 0 .. s - 1 : RankOf(o) = RankOf(s) /\ task[o] = "submitted"}) < Workers

EndTask(s) ==
    /\ Running(s) /\ program[s] # "no answer"
    /\ task' = [task EXCEPT ![s] = IF program[s] = "dies" THEN "expired" ELSE "ended"]
    /\ PoolOnly

\* Any program may be too slow: the alarm inside the worker or an exception there
\* returns '', the timeout of pool.map kills the worker and is a TimeoutError.
NoAnswer(s) ==
    /\ Running(s)
    /\ task' = [task EXCEPT ![s] = "no answer"]
    /\ PoolOnly

-----------------------------------------------------------------------------
(* A rank *)

RankOnly == UNCHANGED <<inputs, job, world_size, task, eval_vars>>

\* The result of execute(), or ('', "Timeout Error").
Prediction(s) == IF task[s] = "ended" THEN s ELSE Empty

\* next(iterator), in the order of the samples: a TimeoutError is an empty answer,
\* any other exception leaves the program.
NextResult(r) ==
    LET i == Len(all_exec_results[r]) + 1
    IN  /\ pc[r] = "execute" /\ i <= Len(Shard(r))
        /\ task[Shard(r)[i]] \in {"ended", "no answer", "expired"}
        /\ IF task[Shard(r)[i]] = "expired"
           THEN pc' = [pc EXCEPT ![r] = "leave"] /\ UNCHANGED all_exec_results
           ELSE /\ all_exec_results' = [all_exec_results EXCEPT ![r] =
                                          Append(@, Prediction(Shard(r)[i]))]
                /\ UNCHANGED pc
        /\ RankOnly /\ UNCHANGED files

\* Behind exit(), the pool's context manager waits for the programs that were
\* submitted.
Leave(r) ==
    /\ pc[r] = "leave"
    /\ \A s \in Samples : RankOf(s) = r => task[s] # "submitted"
    /\ pc' = [pc EXCEPT ![r] = "exited"]
    /\ RankOnly /\ UNCHANGED <<all_exec_results, files>>

\* Defect: only the programs that gave an answer have a result.
AnswersOnly(r) == SelectSeq(all_exec_results[r], LAMBDA p : p # Empty)

Results(r) == all_exec_results[r]

\* zip(results, outputs, samples)
Records(r) == [i \in 1 .. Len(Results(r)) |->
                 [sample |-> Shard(r)[i], pred |-> Results(r)[i], job |-> job]]

\* Defect: the name has no world size.
NameOfRank(r) == <<0, r>>

\* world_size_{world_size}_rank_{rank}.json
OutFile(r) == <<world_size, r>>

\* open(..., "w") empties the file of an earlier run; until the dump is complete,
\* json.load raises on it as eval does on a file that is missing.
OpenFile(r) ==
    /\ pc[r] = "execute" /\ Len(all_exec_results[r]) = Len(Shard(r))
    /\ files' = [f \in DOMAIN files \ {OutFile(r)} |-> files[f]]
    /\ pc' = [pc EXCEPT ![r] = "save"]
    /\ RankOnly /\ UNCHANGED all_exec_results

Save(r) ==
    /\ pc[r] = "save"
    /\ files' = [f \in DOMAIN files \union {OutFile(r)} |->
                   IF f = OutFile(r) THEN Records(r) ELSE files[f]]
    /\ pc' = [pc EXCEPT ![r] = "done"]
    /\ RankOnly /\ UNCHANGED all_exec_results

\* A rank dies anywhere (out of memory), or because its pool has no worker.
Die(r) ==
    /\ pc[r] \in {"execute", "save"}
    /\ pc' = [pc EXCEPT ![r] = "exited"]
    /\ RankOnly /\ UNCHANGED <<all_exec_results, files>>

-----------------------------------------------------------------------------
(* --do_eval *)

EvalOnly == UNCHANGED <<inputs, job, world_size, rank_vars>>

\* A file that is missing and one that was opened only both raise.
Load ==
    /\ eval = "idle" /\ RanksEnded
    /\ IF \A r \in Ranks : OutFile(r) \in DOMAIN files
       THEN /\ merged' = FlattenSeq([i \in 1 .. world_size |-> files[OutFile(i - 1)]])
            /\ eval' = "grade"
       ELSE eval' = "failed" /\ UNCHANGED merged
    /\ EvalOnly /\ UNCHANGED <<scores, grader>>

\* math_equal, where numbers, text or sympy tell.
Equal(x) == x.pred = x.sample /\ x.sample \in Right

Score(e) == scores' = Append(scores, e)
Current  == merged[Len(scores) + 1]

\* simplify runs without limit in this process: without a timeout, and in any case for
\* the parts of two lists, to whose comparison math_equal does not pass it on.
Unlimited(x) == ~use_timeout \/ (x.sample \in Listed /\ x.pred # Empty)

Grade ==
    /\ eval = "grade"
    /\ IF Len(scores) = Len(merged)
       THEN eval' = "scored" /\ UNCHANGED <<scores, grader>>
       ELSE \/ Score(Equal(Current)) /\ UNCHANGED <<eval, grader>>
            \* sympy's simplify may take for ever, in this process or another
            \/ /\ Unlimited(Current) /\ eval' = "hangs"
               /\ UNCHANGED <<scores, grader>>
            \/ /\ use_timeout /\ eval' = "join" /\ grader' = "running"
               /\ UNCHANGED scores
    /\ EvalOnly /\ UNCHANGED merged

\* symbolic_equal_process puts its result, or ends without.
Answer ==
    /\ grader = "running"
    /\ grader' \in {"answered", "died"}
    /\ EvalOnly /\ UNCHANGED <<eval, merged, scores>>

\* Defect: join without a timeout.
JoinForever ==
    /\ eval = "join" /\ grader = "answered"
    /\ Score(Equal(Current)) /\ grader' = "none" /\ eval' = "grade"
    /\ EvalOnly /\ UNCHANGED merged

\* process.join(timeout): a process that still lives is terminated, of the others
\* the result is read, for which get() waits for ever if there is none.
JoinReturns ==
    /\ eval = "join"
    /\ \/ /\ grader = "running"
          /\ Score(FALSE) /\ grader' = "none" /\ eval' = "grade"
       \/ /\ grader = "answered"
          /\ Score(Equal(Current)) /\ grader' = "none" /\ eval' = "grade"
       \/ /\ grader = "died"
          /\ eval' = "stuck" /\ UNCHANGED <<scores, grader>>
    /\ EvalOnly /\ UNCHANGED merged

Over == eval \in {"scored", "failed", "hangs", "stuck"} /\ job = Runs /\ UNCHANGED vars

Rank(r) == NextResult(r) \/ Leave(r) \/ OpenFile(r) \/ Save(r)

Next == \/ Launch
        \/ \E s \in Samples : EndTask(s) \/ NoAnswer(s)
        \/ \E r \in Ranks : Rank(r) \/ Die(r)
        \/ Load \/ Grade \/ Answer \/ JoinReturns
        \/ Over

\* Pools give programs up, ranks and the evaluation go on; programs and the
\* grader's process need not.
Fairness ==
    /\ WF_vars(\E s \in Samples : NoAnswer(s)) /\ WF_vars(\E r \in Ranks : Rank(r))
    /\ WF_vars(Load) /\ WF_vars(Grade) /\ WF_vars(JoinReturns)

Spec == Init /\ [][Next]_vars /\ Fairness

-----------------------------------------------------------------------------
(* Properties *)

\* Every prediction in a file is that of the sample's own program, whatever programs
\* before it on the pool hung or raised.
PredictionIsOwn ==
    \A f \in DOMAIN files : \A i \in DOMAIN files[f] :
        LET x == files[f][i]
        IN  x.pred # Empty => x.pred = x.sample /\ program[x.sample] = "answers"

\* "Merge": what is graded is every sample once, although ranks fail and files of
\* runs with other world sizes lie about; of this run only, if all its ranks saved.
MergedOnce ==
    eval \in {"grade", "join", "scored"} =>
        /\ Len(merged) = NSamples
        /\ {merged[i].sample : i \in DOMAIN merged} = Samples
        /\ (\A r \in Ranks : pc[r] = "done") => \A i \in DOMAIN merged : merged[i].job = job

\* Every run of the script gives a score or an error, although programs hang; but it
\* hangs itself in an unlimited comparison, which a timeout of the grader avoids only
\* when no parts of lists are compared, or waits for a process that died.
RunEnds ==
    eval = "idle" ~> \/ eval \in {"scored", "failed"}
                     \/ eval = "hangs" /\ Unlimited(Current)
                     \/ eval = "stuck" /\ grader = "died"
=============================================================================
