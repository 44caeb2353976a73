------------------------------ MODULE DistEval ------------------------------
(***************************************************************************)
(* The distributed evaluation of HumanEval/humaneval.py and MBPP/mbpp.py.  *)
(* Every rank generates completions for its part of the prompts into a log *)
(* of its own; behind a barrier the local main process merges the logs,    *)
(* removes them and evaluates the merged file.  eval_model may be called   *)
(* again by the same processes, and the job may be launched again over the *)
(* files that a failed one left.                                           *)
(*                                                                         *)
(* A record stands for <<job, index>>, where job counts the evaluations    *)
(* begun, so that an old record can be told from a new one.  One machine,  *)
(* as in test_config.yaml, and rank 0 its local main process.              *)
(***************************************************************************)
EXTENDS Naturals, Sequences, FiniteSets, Functions

CONSTANTS
    Size,           \* num_processes
    Prompts,        \* nprompt
    NSample,        \* n_sample
    BatchSize,
    Jobs,           \* bound: evaluations
    NoFile

ASSUME DistAssumption ==
    /\ Size \in Nat \ {0} /\ Prompts \in Nat /\ NSample \in Nat \ {0}
    /\ BatchSize \in Nat \ {0} /\ Jobs \in Nat \ {0}
    /\ NoFile \notin Seq(Nat \X Nat)

VARIABLES
    benchmark,      \* "HumanEval" or "MBPP"
    pc,             \* where each rank is
    job,            \* evaluation each rank is in
    generated,      \* indices each rank has written in this evaluation
    log,            \* each rank's log, a sequence of records, or NoFile
    final,          \* the merged file, or NoFile
    merged,         \* logs merged by the local main process
    waiting,        \* ranks waiting at a barrier
    scored          \* records of the last file evaluated

vars == <<benchmark, pc, job, generated, log, final, merged, waiting, scored>>

Ranks == 0 .. Size - 1

\* Defect: the remainder goes to nobody.
FloorSplit(r) == [first |-> r * (Prompts \div Size), count |-> Prompts \div Size]

\* np.array_split: the first Prompts % Size parts have one element more.
Split(r) ==
    LET q == Prompts \div Size
        m == Prompts % Size
    IN  IF r < m THEN [first |-> r * (q + 1), count |-> q + 1]
                 ELSE [first |-> m * (q + 1) + (r - m) * q, count |-> q]

\* [x * n_sample + j for x in prompt_indices for j in range(n_sample)]
Indices(r) == [i \in 1 .. Split(r).count * NSample |-> Split(r).first * NSample + i - 1]

Init ==
    /\ benchmark \in {"HumanEval", "MBPP"}
    /\ pc = [r \in Ranks |-> "open"] /\ job = [r \in Ranks |-> 1]
    /\ generated = [r \in Ranks |-> 0]
    /\ log = [r \in Ranks |-> NoFile] /\ final = NoFile /\ merged = 0
    /\ waiting = {} /\ scored = <<>>

Goto(r, l) == pc' = [pc EXCEPT ![r] = l]

\* tmpfile = open(log_file, "w")
Open(r) ==
    /\ pc[r] = "open"
    /\ log' = [log EXCEPT ![r] = <<>>]
    /\ generated' = [generated EXCEPT ![r] = 0]
    /\ Goto(r, "generate")
    /\ UNCHANGED <<benchmark, job, final, merged, waiting, scored>>

Smaller(a, b) == IF a < b THEN a ELSE b

\* One batch.  A log that was removed meanwhile takes the records with it.
Generate(r) ==
    LET from == generated[r]
        to   == Smaller(from + BatchSize, Len(Indices(r)))
    IN  /\ pc[r] = "generate" /\ from < Len(Indices(r))
        /\ generated' = [generated EXCEPT ![r] = to]
        /\ log' = IF log[r] = NoFile THEN log
                  ELSE [log EXCEPT ![r] =
                          @ \o [i \in 1 .. to - from |-> <<job[r], Indices(r)[from + i]>>]]
        /\ UNCHANGED <<benchmark, pc, job, final, merged, waiting, scored>>

\* Defect: no barrier before the logs are merged.
CloseEarly(r) ==
    /\ pc[r] = "generate" /\ generated[r] = Len(Indices(r))
    /\ Goto(r, IF r = 0 THEN "merge" ELSE "leave")
    /\ UNCHANGED <<benchmark, job, generated, log, final, merged, waiting, scored>>

\* tmpfile.close(); wait_for_everyone()
Close(r) ==
    /\ pc[r] = "generate" /\ generated[r] = Len(Indices(r))
    /\ Goto(r, "barrier") /\ waiting' = waiting \union {r}
    /\ UNCHANGED <<benchmark, job, generated, log, final, merged, scored>>

\* Defect: no barrier after the score.
NoBarrier == "end"

\* MBPP has no barrier there.
AfterScore == IF benchmark = "HumanEval" THEN "barrier2" ELSE "end"

\* A barrier opens when every rank has come to it.  Behind the first, only the
\* local main process has something to do.
Barrier ==
    /\ waiting = Ranks
    /\ pc' = [r \in Ranks |-> IF pc[r] = "barrier2" THEN "end"
                              ELSE IF r = 0 THEN "merge" ELSE AfterScore]
    /\ waiting' = {r \in Ranks : pc'[r] = "barrier2"}
    /\ UNCHANGED <<benchmark, job, generated, log, final, merged, scored>>

\* logfile = open(logfilepath, "w")
OpenFinal ==
    /\ pc[0] = "merge"
    /\ final' = <<>> /\ merged' = 0
    /\ Goto(0, "copy")
    /\ UNCHANGED <<benchmark, job, generated, log, waiting, scored>>

\* logfile.write(open(tmplogfile).read()...); os.remove(tmplogfile)
MergeLog ==
    /\ pc[0] = "copy" /\ merged < Size
    /\ IF log[merged] = NoFile
       THEN Goto(0, "failed") /\ UNCHANGED <<log, final, merged>>
       ELSE /\ final' = final \o log[merged]
            /\ log' = [log EXCEPT ![merged] = NoFile]
            /\ merged' = merged + 1
            /\ UNCHANGED pc
    /\ UNCHANGED <<benchmark, job, generated, waiting, scored>>

\* Defect: the local main process does not come to the second barrier.
EvaluateOnly ==
    /\ pc[0] = "copy" /\ merged = Size
    /\ scored' = final /\ final' = NoFile
    /\ Goto(0, "end")
    /\ UNCHANGED <<benchmark, job, generated, log, merged, waiting>>

\* evaluate_functional_correctness(...); os.remove(logfilepath)
Evaluate ==
    /\ pc[0] = "copy" /\ merged = Size
    /\ scored' = final /\ final' = NoFile
    /\ Goto(0, AfterScore)
    /\ waiting' = IF AfterScore = "barrier2" THEN waiting \union {0} ELSE waiting
    /\ UNCHANGED <<benchmark, job, generated, log, merged>>

\* eval_model returns.  HumanEval's barrier behind the score lets the same processes
\* call it again at once, which is modelled although both eval_pal.py call it once.
\* MBPP has no such barrier, and for MBPP nothing but the one call is modelled.
Return(r) ==
    /\ pc[r] = "end"
    /\ IF benchmark = "HumanEval" /\ job[r] < Jobs
       THEN Goto(r, "open") /\ job' = [job EXCEPT ![r] = @ + 1]
       ELSE Goto(r, "done") /\ UNCHANGED job
    /\ UNCHANGED <<benchmark, generated, log, final, merged, waiting, scored>>

\* A rank dies (out of memory, a score without the pass@k asked for); the logs
\* stay as they are.
Fail(r) ==
    /\ pc[r] \notin {"end", "done", "failed"}
    /\ Goto(r, "failed") /\ waiting' = waiting \ {r}
    /\ UNCHANGED <<benchmark, job, generated, log, final, merged, scored>>

\* accelerate launch ends all processes when one failed; the job is started again,
\* then or when it is done.
Relaunch ==
    /\ (\E r \in Ranks : pc[r] = "failed") \/ (\A r \in Ranks : pc[r] = "done")
    /\ \E j \in 2 .. Jobs :
         /\ \A r \in Ranks : job[r] < j
         /\ job' = [r \in Ranks |-> j]
    /\ pc' = [r \in Ranks |-> "open"] /\ waiting' = {}
    /\ UNCHANGED <<benchmark, generated, log, final, merged, scored>>

Stopped == /\ \A r \in Ranks : pc[r] \in {"done", "failed"} \/ r \in waiting
           /\ waiting # Ranks
           /\ UNCHANGED vars

Rank(r) == Open(r) \/ Generate(r) \/ Close(r) \/ Return(r)
LocalMain == OpenFinal \/ MergeLog \/ Evaluate

Next == \/ \E r \in Ranks : Rank(r) \/ Fail(r)
        \/ Barrier \/ LocalMain \/ Relaunch \/ Stopped

\* Generation and merging go on, and barriers open; failures need not happen.
Fairness == /\ \A r \in Ranks : WF_vars(Rank(r))
            /\ WF_vars(Barrier) /\ WF_vars(LocalMain)

Spec == Init /\ [][Next]_vars /\ Fairness

-----------------------------------------------------------------------------
(* Properties *)

\* "calculate the final score of pass@k": what is scored is every sample of every
\* prompt, once, generated by this evaluation, whatever earlier ones left.
ScoredOnce ==
    scored # <<>> =>
        /\ Len(scored) = Prompts * NSample
        /\ \E j \in 1 .. Jobs : Range(scored) = {j} \X (0 .. Prompts * NSample - 1)

\* The merge never finds a log missing, although it removes them one by one and a
\* job that failed may have left any of them.
LogsAreThere ==
    pc[0] = "copy" => \A r \in merged .. Size - 1 : log[r] # NoFile

\* Generation of the next evaluation never runs into the merge of this one: what
\* HumanEval's second barrier is for.  MBPP, without it, has no next evaluation.
MergeUndisturbed ==
    pc[0] \in {"merge", "copy"} => \A r \in Ranks : job[r] = job[0]

\* An evaluation in which nothing fails comes to its end on every rank.
Ends == <>(\A r \in Ranks : pc[r] = "done") \/ <>(\E r \in Ranks : pc[r] = "failed")
=============================================================================
