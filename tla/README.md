# TLA+ models of DeepSeek-RafCoder

The repository joins an evaluation suite for code models (DeepSeek-Coder's
`Evaluation/`, `finetune/`, `demo/`) with a small native runtime (`core/`,
`Rmr/`, `android/`).  This directory holds TLA+ modules for the parts of it
whose behaviour is hard to test, the TLC configurations that check them on small
instances, and proofs, checked by TLAPS, that hold for every instance.

`PROJECT.json` maps every definition to the lines it models and lists the runs,
the mutants (a plausible bug for each property, which the run must detect), the
hazards and the theorems.

- [1. The system](#1-the-system)
- [2. The modules](#2-the-modules)
- [3. What the runs check](#3-what-the-runs-check)
- [4. Bounds](#4-bounds)
- [5. Fairness](#5-fairness)
- [6. Proofs](#6-proofs)
- [7. Disagreements found](#7-disagreements-found)
- [8. Not modelled](#8-not-modelled)
- [9. Plan](#9-plan)

## 1. The system

How the parts call each other:

```
eval_pal.py -> HumanEval / MBPP .eval_model          one process per GPU, logs, barriers
                 -> prompts, generation, cut of the text
                 -> evaluate_functional_correctness  main thread + thread pool
                      -> process_humaneval_test      completion -> test program
                      -> check_correctness           caller, child, manager processes
                           -> unsafe_execute         directory, compiler, program
evaluate_leetcode.py, eval_instruct.py -> extraction -> evaluate_functional_correctness
PAL-Math run.py -> PythonExecutor (process pool), grader (processes), rank files
finetune_deepseekcoder.py                            ranks, barrier, cache

Android native-lib -> sensor runtime                 ring buffer, batches, debug frame
core/sector, verb_seed, arch;  Rmr: GeoLM, BBS, bit stack, torus, audit log
demo, scripts, governance                            stand alone
```

| Component | State | Operations | What is hard | Correct when |
|---|---|---|---|---|
| Sensor runtime (`core/sensor_runtime.c`) | ring indices, samples in the caller's memory, sticky flags, moving averages, last debug frame | init, push, process, snapshot | wrap-around, overflow, batches cut short, corrupted samples, the zero sentinel of timestamps, a frame nobody wrote | every sample is accounted for, kept and hashed in order; flags tell the losses |
| `check_correctness` (`human_eval/execution.py`) | the manager's list, the child and its stage, timers | start, join, kill, read; per language compile, run, judge, clean up | three processes; limits inside limits; a kill that races with a verdict; retries; exceptions nobody catches | "passed" is earned; the verdict read is the first posted; every call returns |
| Working directories and the rust crate (same file) | directories by random name, sources, programs; one `src/bin/<task>.rs` and one log per task | makedirs, chdir, write, compile, run, rmtree; rename, cargo | concurrent calls that draw one name; samples that share one source; killed calls | a call that shares nothing is right; a collision spoils only those who collide; directories are reclaimed |
| `evaluate_functional_correctness` (`human_eval/evaluation.py`) | futures, counters, results, score | submit, collect, score | order of completion, calls that raise, ids given and counted, problems without samples | the score counts each sample once; no call outlives the evaluation |
| pass@k (same file) | totals per problem | estimate, mean | the ends of a product | equals the share of draws with a correct completion |
| LeetCode script (`evaluate_leetcode.py`) | the result file, counts by difficulty | extract, evaluate, count, report | the result file is input and output, rewritten in another order | the statistics are those of the score |
| Distributed evaluation (`humaneval.py`, `mbpp.py`) | one log per rank, the merged file, barriers | generate, barrier, merge, evaluate | one rank deletes the files of the others; ranks fail; files of failed jobs stay | each prompt is scored once, with what this job generated |
| Prompts, generation, extraction (`mbpp.py`, `utils/utils.py`, `eval_instruct.py`, `vllm_inference.py`) | the rows of a batch, their text, their program | few-shot prompt, stop, cut, extract, add tests | one row's stop word stops all; closing lines that the text, the cut and the tests may all bring | the function the model wrote is in the program, whole and once, and the tests outside it |
| PAL-Math (`run.py`, `python_executor.py`, `grader.py`) | rank files, process pool, grader process | execute, save, merge, grade | timeouts of three kinds, a queue read after a join, files of earlier runs | predictions stay with their samples; each is graded once; each run ends |
| Fine-tuning (`finetune_deepseekcoder.py`) | dataset cache, ranks at a barrier, labels | tokenise, map, show, train | rank 0 first; a rank that fails; prompts tokenised alone and in place | one cache, seen by all; only answers are learned; no rank waits for ever |
| Sector, verb seed (`core/`) | hash, averages, last values | fold | truncating averages, zero as "not initialised" | averages stay in range |
| GeoLM (`Rmr/geolm.c`, `geolm_raf.c`) | arena, model, vocabulary, session, saved file | train, generate, save, load | arena exhaustion, partial files | a load gives what was saved or fails |
| BBS (`Rmr/vectras_bbs.c`) | post table | post, list, read | full table, seeding twice | no post overwritten |
| Audit log (`Rmr/rafaelia_audit.rs`) | log file, its archive | append, rotate | several threads and processes | no entry lost but by rotation |
| Demo | generation thread, token queue | chat | a consumer that times out | the stream ends |
| Scripts, governance | downloaded jar, staged files | download, check | downloads cut short, index and working tree differ | what is used is what was checked |

## 2. The modules

Each module's state has the names of the code's fields and locals; each handler
is one action, split only where another process, thread or signal can act in
between.  `MC*` modules are what TLC runs; the constants are in the `.cfg`
files.  Definitions commented "Defect" are the mutants' and belong to no
specification.

**LossyQueue, SensorRuntime.**  `SensorRuntime` is `core/sensor_runtime.c`:
`Init`/`RuntimeInit` are `raf_sensor_runtime_init` (the first call and any
later one), `PushQ16` is `raf_sensor_push_q16`, and `raf_sensor_process` is
`ProcessEnter`, then `SkipSample` or `AccumulateSample` for each iteration of
its loop, then `ProcessEmpty` or `ProcessCommit`.  The loop is split because the
samples lie in memory of the caller, which `CorruptSlot` may overwrite at any
moment; the calls themselves never overlap, as the code has no lock and one
caller.  CRC-32 is a bit: does the witness still match?  Comparing it and using
the sample are one step, so a slot is never corrupted between the two.  The metric and the
entropy proxy are any value the clamps let through.  `LossyQueue` is what the
ring promises: a bounded FIFO which drops its oldest entry; the refinement
mapping takes the ring's content, `seq` and `dropped`.

**CheckCorrectness.**  One call of `check_correctness`.  Three processes: the
caller (`JoinReturns`, `CheckResult`, `AppendTimedOut`, `ReadResult`,
`ReadPassed`), the child (`Setup` ... `Cleanup`, with one `stage` per part of a
branch of `unsafe_execute`) and the manager that keeps the list (`Serve`; a
killed child's request may be lost, `LoseRequest`).  A verdict is a request
first and an entry of the list later, and the caller reads `result[0]` twice,
each time asking the manager.  The branch of each language is a record
(`Python`, `Go`, `Js`, ... `Java`, chosen by `Branch`): whether it compiles, the
limits on compiling and running, what a limit that is hit does, which exceptions
it does not catch, and which outcomes of a run it calls passed (js: silence; cs:
anything but "Fail"; the others: status 0).  A task id in none of the languages
("other") falls through all branches.  Time is counted in seconds by `Tick`,
which does not happen while a timer that expired, a request or the caller's
wake-up is due: these take milliseconds.  The python branch's alarm is the
exception: its handler runs between two bytecodes only, so a completion that is in
one long call of C code holds it up (`HoldAlarm`) and time passes until that call
returns (`LateAlarm`), if it does; and a completion can catch the exception or stop
the timer (`EvadeAlarm`).

**ExecCalls, WorkDir, RustBin, UnsafeExecute.**  Several calls for one task on
one file system.  `ExecCalls` is what they share (language, step, verdict, a kill
that may come anywhere).  `WorkDir` has the steps of all branches that draw a
directory, each branch again a record with the order of its steps: `DrawName` to
`RmTree`, the second attempt of ts, and for python `MkDTemp` and `Cleanup`.  A
process stays in a directory that was removed, hence generations.  `RustBin` is
the rust branch: the shared source, renamed into place before it is written, the
shared log, and cargo building whatever is there.  `UnsafeExecute` composes them.

`execution.py` exists three times, byte for byte the same, under HumanEval,
LeetCode and MBPP.  The map names the HumanEval copy for CheckCorrectness, the
LeetCode copy for WorkDir and the MBPP copy for ExecCalls and RustBin; each
model stands for all three.

**PassAtK, EvalPool, LeetCode.**  `EvalPool` is
`evaluate_functional_correctness`: the main thread (`Submit`, `SubmitFails`,
`AllSubmitted`, `Collect`, `Score`, `Unwind`) and a pool of `Workers` threads
(`Start`, `Finish`, external).  What a call does is any verdict or an exception:
CheckCorrectness's subject.  `keeps_samples` says that the code is the LeetCode
copy, which writes each sample back with its result, and `test_groundtruth` that
the problems' own solutions are the samples.  It extends `PassAtK`,
`estimate_pass_at_k` and its mean on fractions.  `Evaluation` is what the caller is
promised: one verdict for each sample while the evaluation is open, a return with
the score of all verdicts, an exception only for a reason to be found in the
arguments or in a call that raised.  `ImplementsEvaluation` says that EvalPool
keeps it, with everything but the samples' verdicts, the outcome and the score
hidden.  `LeetCode` puts `evaluate_main` around EvalPool: `Extract` reads the rows, or
`BadRow` raises for one without the fields it needs; `Evaluate` is a step of EvalPool,
which leaves the result file written once all results are collected.

**DistEval.**  `eval_model` and `_calculate_final_score` on all ranks.  `Split`
is `np.array_split`, `Generate` a batch, `Barrier` accelerate's (external),
`OpenFinal`, `MergeLog`, `Evaluate` the local main process.  `Fail` and
`Relaunch` are what the launcher does: files stay, processes start over.
`benchmark` distinguishes `humaneval.py`, which has a barrier behind the score,
from `mbpp.py`, which has none.  Both `eval_pal.py` call `eval_model` once.
HumanEval's barrier would allow a second call by the same processes, and `Return`
makes it, which is what tests that barrier; for MBPP nothing but the one call is
modelled, so what its missing barrier would do to a second one is not.

**TestProgram, Generation.**  `TestProgram` has the functions that cut code out
of a model's text (`cleanup_code`, `extract_generation_code`,
`extract_python_code`, `convert_for_evaluation`) and `process_humaneval_test`.
A text is a sequence of pieces (signature, body, closing line, another function,
fence, prose, ...), which is what the searches of the code tell apart.  Stop tokens
are those of the data files, with go's "struct", which has no line break before it
and so is found inside a body (the piece "struct").
`Generation` is the way of a batch through each of the six scripts that call
them: prompt, generation piece by piece with the stop criterion, extraction, test
program.  `AsAsked` is the form of an answer a script asks for, and `Spoiled` says of
which of these a stop word cuts a part that was asked for: a go body of base with
"struct" in it, and an sft block that begins with something else than the function,
such as the prompt's own import, which is cut at its first def.  `MCGeneration`
enumerates texts for each script, as asked, spoiled and not as asked.

**PalMath.**  The ranks (`EndTask`, `NoAnswer` on the process pool; `NextResult`,
`Leave`, `OpenFile`, `Save`), and `run.py --do_eval` behind them (`Load`, `Grade`,
`Answer`, `JoinReturns`).  Opening a result file empties the one of an earlier run, and
a rank may die before it is written.  `Listed` are the samples whose answers are lists
or tuples, whose parts `math_equal` compares without passing the timeout on
(`Unlimited`).  `Launch` runs the script again, with another number of ranks,
over the files of the last.

**FineTune.**  The ranks through map, barrier and training, with the launcher
that ends them all when one fails; `InputIds`, `SourceLen`, `Labels` and
`Collate` are the preparation of examples, token by token; the padding token's text
may stand in a prompt and in an answer.

Components meet through what they promise each other: EvalPool assumes
`check_correctness` returns (CheckCorrectness: `CallReturns`), DistEval that an
evaluation of a file ends (EvalPool, through LeetCode: `ScriptEnds`), LeetCode's
statistics rest on what EvalPool collects, and the estimator takes the totals
that `EachScoredOnce` (section 6) shows to be right.

## 3. What the runs check

| Run | States | Shows |
|---|---|---|
| `SensorRing` | 2 229 580 | `Conservation`: pushed = hashed + skipped + dropped + waiting; `SlotsInOrder`: the newest samples, in order, without gap; `FlagsTellLosses`; `MonotonicUnlessFlagged`: a timestamp that does not increase is flagged, zeros excepted; `AveragesSaturate`: rounding keeps both averages three units below One and the score below 1000; `DeliveredInOrder`; `ImplementsLossyQueue` |
| `CheckCall` | 103 505 | `PassedIsEarned`, `ReadsAgree`, `FirstVerdictFinal`: kills and late answers never make a verdict of nothing, nor two of one (ts excepted, which rewrites its own); `SlackSuffices`: the second between the two timeouts is enough for a branch that only runs, unless the child took it to start or python code kept its alarm from acting; `TimedOutIsLate`: "timed out" means the timeout, a child that died or an unknown language; `RetriesAreSpaced`: javac is repeated only after a whole limit and before the caller's deadline, so that with 60 s it is repeated only for timeouts of a minute; `CallReturns` |
| `UnsafeCalls` | 413 345 | `AloneIsCorrect`: a call whose name nobody else drew is right and undisturbed; `DamageConfined`: a wrong "passed" is that of a call with the same name; `Reclaimed`: only a killed or dying call leaves its directory; `LastIsRight`: of the rust calls, whoever renamed last gets its own verdict |
| `EvalSamples` | 175 512 | `ImplementsEvaluation`: each sample is judged once and before the end, the score is that of all of them over the whole problem file, and an exception has a reason; `ScoreIsShareOfDraws`: it is the share of the draws of k with a correct completion, as the comment's binomials say; `RecordsOwn`: a record shows another sample's code only where the file brings ids of its own; `NothingLeft`: no call outlives the evaluation, even one that raises; `StatsAgree`: the script's counts by difficulty are the score's; `ScriptEnds` |
| `DistRanks` | 8 620 | `ScoredOnce`: each sample of each prompt once, all from one evaluation, whatever files a failed one left; `LogsAreThere`: no log is missing; `MergeUndisturbed`: the next evaluation never meets the merge (HumanEval's second barrier); `Ends` |
| `TestPrograms` | 60 987 | for answers of the form asked for: `ProgramIsWhole`: the function once, all closed, tests outside, if the answer is not `Spoiled` and only then; `OwnCodeRuns`: the body of one that is not spoiled is the model's, all of it; `PromptFits`: a prompt leaves room for the answer; `RowsWhole`: a batch stops for its first row, and what another loses by that |
| `PalRuns` | 512 322 | `PredictionIsOwn`: a timeout moves no prediction to another sample; `MergedOnce`: what is graded is every sample once; `RunEnds`: each run gives a score or an error, but for an unlimited comparison (every one without a timeout, the parts of lists with it) and a grader that died |
| `TuneRanks` | 47 348 | `OneCache`: rank 0 alone writes it, all train on the whole; `OnlyAnswerLearned`: exactly the tokens of answers are learned, unless the prompt holds the padding token, and attended to, unless they are padding tokens; `NoneLeftWaiting` |

`TypeOK` is checked in `SensorRing` and `CheckCall`.  The runs `SensorOneSlot`,
`SensorSnapshot`, `SharedDir` and `EvalPartial` end with a violation: section 7.

## 4. Bounds

- *Sensor*: four slots with six pushes (`MaxSeq`, in the guard of `PushQ16`) wrap
  the indices and overflow three times; batches up to three are shorter than,
  equal to and longer than what waits; a corrupted slot is one that every
  history reuses.  `One` is 8 so that rounding shows within a few steps; the
  proofs cover 65535, and the clamp of the coherence accumulator, which takes
  five samples in one batch.  The 32-bit counters `seq` and `dropped` do not wrap
  within the bound (2^32 pushes).
- *CheckCorrectness*: every language, and one that has no branch; javac's limit
  is 3 s and bash's 10 s, with timeouts of 2 and 15 s: below both, with a
  deadline at the very end of javac's first attempt, and above both, long enough
  for javac's five.
- *UnsafeExecute*: three calls: two that collide and one besides, or three that
  do; one is correct, one is wrong, one does not compile; two names stand for
  100000.
- *EvalPool*, *LeetCode*: up to three samples and two workers: one waits in the
  queue while two run; two problems, one easy and one hard, and an unknown one;
  the id a file may bring is 0, which is also the first that is counted.
- *PassAtK*: k of 1 to 3 with the totals of up to three samples of two problems:
  all cases of n - c against k.
- *DistEval*: three ranks as in `test_config.yaml` and four prompts, so that a
  part is larger than the others, each sampled twice, in batches of three; two
  evaluations (`Jobs`), enough for one to meet what another left.
- *Generation*: one batch per script; only `mbpp.py` has batches of more than one
  row that stop together, and three rows may end before, with and after the
  first.  `MaxNew` of 14 pieces is above every text of `MCTexts` but those that
  go on after their answer; a prompt may be shorter than the sequence, fill it
  with one example and overflow it with none.
- *PalMath*: three samples on one or two ranks, so that parts differ in length;
  two runs, the second over the files of the first; two processes in the pool; one
  sample whose answer is a list.
- *FineTune*: three ranks, because two who wait are told apart only from two
  others; two examples, one shorter and one longer than the cut at four tokens, with
  the padding token in prompts and in answers.

## 5. Fairness

- *CheckCorrectness*: time passes, expired timers fire, the manager answers and
  the caller goes on (weak fairness on each); none on the child, whose program
  may hang.  This is the scheduling of the operating system: the caller
  and the manager never wait for the child but in a join with a timeout.
- *EvalPool*, *LeetCode*: the main thread and the pool run, the script takes its
  next step, and each call ends, which is `CallReturns`.
- *DistEval*: ranks generate and merge, and a barrier at which all wait opens;
  no fairness for failure or relaunch, and `Ends` speaks of evaluations in
  which no rank fails.
- *PalMath*: the pool gives up on a result that does not come, ranks and the
  grading loop go on, and a `join` with a timeout returns.  Neither the model's
  programs nor the grader's process need end: that is why `RunEnds` has its two
  exceptions.
- *FineTune*: ranks run, an open barrier lets them pass, a training step in which
  all take part ends, and deepspeed's launcher (`finetune/README.md`) kills the rest
  when a rank failed.
- *Sensor*, *UnsafeExecute* and *Generation* have safety properties only: the first
  is a library that is called, the calls of the second end by `CallReturns`, and
  the third is a straight line with a bound on its length.

Deadlock is checked in every run; actions that say where a system may rest
(`Over`, `AllEnded`, `Stopped`, `Returned`, `Finished`) name the states in which
it does.

## 6. Proofs

Each proof module `XProofs` extends `X`.  A theorem holds for every value of the
constants that the module's `ASSUME`s allow, so for any number of pushes, calls,
directory names, ranks or prompts, where a run has three.

**Sensor** (`SensorRuntimeProofs`): for every power of two as
capacity, every `One` of at least 5, and inputs in the ranges of their clamps.

| Theorem | States |
|---|---|
| `TypeCorrect` | `Spec => []TypeOK` |
| `SamplesConserved` | `Spec => []Conservation` |
| `RingInOrder` | `Spec => []SlotsInOrder` |
| `LossesTold` | `Spec => [](FlagsTellLosses /\ FrameSelfConsistent)`; the second, that a frame agrees with its own counters, is in no run's list |
| `TimestampsFlagged` | `Spec => []MonotonicUnlessFlagged` |
| `ScoreSaturates` | `Spec => []AveragesSaturate` |
| `HashedInOrder` | `Spec => DeliveredInOrder` |
| `RingImplementsQueue` | with a capacity above 1, `Spec => ImplementsLossyQueue`; with one slot the ring does not: see `SensorOneSlot` |

All follow from `IInv == TypeOK /\ Accounting /\ Ordering /\ Timing /\
AveragesSaturate`, and none of its parts is inductive without help:

- `Accounting` adds to conservation and flags what a call in flight has
  consumed (`CallAccounts`), without which a commit could follow no sample.
- `Ordering` adds that the newest hashed sample is older than all that wait
  (`DeliveredBeforeWaiting`), which makes a step of `DeliveredInOrder`.
- `Timing` adds that `last_timestamp_ns` is the timestamp of the newest waiting
  sample (`NewestTimestamp`), else a push could not be compared with it.
- `AveragesSaturate` keeps the score a natural number, which `TypeOK` needs.

The lemmas are about the ring: `AdvanceWraps` (the mask is a wrap-around),
`PushShape` and `ConsumeShape` (what a push and a consumed slot do to the count
and to each waiting slot), `OthersKeepSlots`; then one lemma per part of `IInv`
with one step per action.  The refinement rests on sequences of consecutive
numbers (`RunIsSequence`, `AppendToRun`, `TailOfRun`): the ring's content is
such a run (`ContentsAreRun`).

**One call** (`CheckCorrectnessProofs`): for every set of known languages, and every
positive timeout and limit.

| Theorem | States |
|---|---|
| `TypeCorrect` | `Spec => []TypeOK` |
| `TwoReadsAgree` | `Spec => []ReadsAgree` |
| `VerdictIsEarned` | `Spec => []PassedIsEarned` |
| `OneSecondSuffices` | `Spec => []SlackSuffices` |
| `TimeoutsAreLate` | `Spec => []TimedOutIsLate` |
| `AttemptsAreSpaced` | `Spec => []RetriesAreSpaced` |
| `FirstVerdictStays` | `Spec => FirstVerdictFinal` |

A verdict exists in four places on its way: the child's last run, its request,
the list, what the caller has read.  `ReadsHead`, `EarnedWhereverFound` and
`LateWhereverFound` say of each place what the property says of the last one,
which is what makes them inductive; `Places` says which stages and requests go
together.  `AlarmInTime` bounds the clock by the alarm while it is set, neither held
up nor evaded, and the alarm by the caller's deadline, and `AttemptsTakeTime` that a
clock has seen the whole limit of each earlier attempt.

**Concurrent calls** (`UnsafeExecuteProofs`): for any finite set of calls and any
set of names.

| Theorem | States |
|---|---|
| `AloneMeansRight` | `Spec => []AloneIsCorrect` |
| `DamageIsConfined` | `Spec => []DamageConfined` |
| `DirectoriesReclaimed` | `Spec => []Reclaimed` |
| `LastRenamedIsRight` | `Spec => []LastIsRight` |
| `CrashesAreOthers` | `Spec => []CrashNeedsRemoval`: over its log a rust call dies only by another's removal; in no run's list |

Each has an invariant of its own, the later ones built on the earlier:
`RustInv` (who wrote is behind the rename), `LogInv` (a call that looks at the
log finds it, or someone removed it), `DirInv` (places and directories),
`AloneInv` and `DamageInv`.  `AloneInv` is the one that needs strengthening most:
that a call alone is right depends on its source, its binary, its directory and
its generation at every step before, which `OnTrack` lists (`OwnTemp` for
python, whose directory is nobody else's from the start).  `DamageInv` adds that
what lies in a directory belongs to a call that drew its name (`Owned`).  The
branches differ in the order of their steps, so the lemmas (`BranchFacts`,
`Ways...`, `After...`) first say, for each branch, what can follow what.

**Evaluation and LeetCode script** (`EvalPoolProofs`): for any number of samples,
problems and workers, and any order in which the calls complete; each for
`Spec` and for `ScriptSpec`.

| Theorem | States |
|---|---|
| `ScriptIsEvaluation` | `ScriptSpec => Init /\ [][Next]_vars`: the script is one more evaluation |
| `NoCallOutlives` | `[]NothingLeft` |
| `EachScoredOnce` | `[]ScoreCountsAll` |
| `RecordsHaveOwnCode` | `[]RecordsOwn` |
| `ScoreIsTrue` | `[]ScoreIsShareOfDraws` |
| `PromiseIsKept` | `ImplementsEvaluation`: every step is one of `Evaluation` or leaves what it speaks of alone |
| `DifficultiesAgree` | `ScriptSpec => []StatsAgree` |

`PoolHolds` says that a submitted sample waits, runs or has been judged, and
`ResultsOnce` that results are of judged samples, each of one: as many results
as samples are then all of them (`ListIsPermutation`), so that counting results
counts samples (`CountThroughList`).  `Counts` says what the `Counter` knows of
the ids it gave, and `Table` that `id2samples` has, under a task and an id, a
sample submitted with both; together they give `RecordsOwn`.  `ScriptInv` adds
that the records follow the results and that the result file is the records once
the evaluation has returned.

`ScoreIsTrue` has two halves.  That the counts are right when the score is taken is
an invariant: `JudgedOnce`, that a call which waits or runs has no verdict and no
other place in the queue, so that no verdict changes behind the score, and
`CorrectOfSamples`.  That the product over n - c + 1 ... n is the share of draws is
arithmetic for all n, c and k (`EstimatorIsShare`): a draw takes a given sample or
not (`DrawsSplit`), from which follow a draw's numbers with one sample more
(`DrawsGrow`) and, multiplied out, what one factor of the product does to the share
of draws without a correct sample (`DrawsWithout`, `FactorsShare`); `ProductStep`
and `ProductTakes` walk the loop, and `SumsEqual` carries the equality of fractions
through the mean.

`PromiseIsKept` takes each step of EvalPool to one of `Evaluation`: `Finish` to
`Judge`, which `JudgedOnce` and `NothingLeft` allow, `Unwind` to `Raise`, `Score` to
`Return` or, for a problem without samples, to `Raise` (`ScorePromised`); the rest
are stutters.  `Reasons` is the invariant it needs besides: the loop over the
futures is left for something that is wrong and stays so (`WrongStays`), and what
was collected is a verdict, never an exception.

**Distributed evaluation** (`DistEvalProofs`): `MergeFindsLogs`
(`Spec => []LogsAreThere`), `MergeAlone` (`Spec => []MergeUndisturbed`) and
`AllScoredOnce` (`Spec => []ScoredOnce`), for any
number of ranks, prompts, failures and launches.  `IInv` adds what holds while
the local main process works alone: the others wait (`OthersRest`) in the same
evaluation (`JobsAgree`), and every log that will be read is open or closed but
not removed (`LogsOpen`); `WaitingRanks` says what a rank at a barrier has done.
`ScoreInv` adds what the logs hold: a rank's log has the samples of its part, in
order (`LogsGrow`), and the final file those of the parts merged so far
(`FinalGrows`).  The parts of `array_split` follow each other (`PartsFollow`), so
what is scored is the samples 0 to the last, in that order (`ScoredInOrder`).
The only assumption beside positive sizes is that "no file" is not the content
of one.

**PAL-Math** (`PalMathProofs`): `PredictionsAreOwn` (`Spec => []PredictionIsOwn`)
for any number of samples, ranks, workers and runs, whatever a program does to the
pool.  `PoolTells` says that only a program that answers ends with a result, and
`CollectedInOrder` that the list a rank builds follows its shard, which is what
the `zip` of snippets and results relies on.

`GradedOnce` (`Spec => []MergedOnce`) is for the same.  Alone it is not inductive, as
it says nothing before the merge; `FilesInv` adds that every result file, of
whatever run, has the records of a whole part, in order (`FilesWhole`), that the file
of a rank that saved is of this run (`RanksSaved`), and that the merge starts when
all ranks have ended (`EvalAfter`).  The rest is about numbers and lists: the parts
r, r + w, r + 2w, ... meet every sample (`SampleHasEntry`) and only samples
(`EntryIsSample`), their lengths add up to all (`LengthOfShard`, `PartsHaveLength`),
and what the merge concatenates has just the entries of its parts (`Flattens`,
`FlattenEntries`); as many entries as samples, each of them met, are each once
(`MergedWhole`).

**Fine-tuning** (`FineTuneProofs`): `RanksShareCache` (`Spec => []OneCache`) for any
number of ranks and any data.  `IInv` adds that the cache is always what rank 0
has mapped so far (`CacheIsPrefix`) and that who is behind the barrier finds it
whole (`BarrierOrders`).  `AnswersAreLearned` (`Spec => []OnlyAnswerLearned`) is for
the same: as `OneCache` says what is trained on, the rest is about one example of
any length.  `TruncateShape` and `MinOfTwo` say what is cut, `AnswerFollows` where
the answer begins, whose first token may have merged with the prompt's last, and
`PromptIsCounted` that the prompt's own count, which leaves out padding, masks just
what precedes.

**Generation** (`GenerationProofs`): for any sizes of problems, examples, limits and
batches, and any texts made of the pieces (the one assumption on texts),
`PromptsFit` (`Spec => []PromptFits`) and `RowsAreWhole` (`Spec => []RowsWhole`).
`IInv` says of a prompt that it is built from its own problem (`Prompts`) and of a
code that it is cut from what was written when the batch stopped (`Completions`).
`ShotsFit` and `PromptHasRoom` are the arithmetic of the prompt; `FirstIsFirst`,
`FirstIsUnique` and `CutOfPrefix` say where a text is cut, and that what was
written of it is cut in the same place or not at all (`RowCut`).

For every script and language, and any texts, `ProgramsAreWhole`
(`Spec => []ProgramIsWhole`) and `OwnBodiesRun` (`Spec => []OwnCodeRuns`).  Both speak
of answers of the form their script asks for (`AsAsked`), which is a condition on
texts of any length, not a list of them: the run's texts are some that meet it, with
others that do not.  The first says of each whether its program is whole, and so
that the spoiled ones (`Spoiled`) never have one; the second is about the others.
`Programs` is the inductive invariant: code and programs are made of what was
written, in a language the script can have.  What is left is about the functions on
texts, in these steps:

- `Passes(a, s, b, lang)`: a text leads from the open functions `a` to `b`, wherever it
  stands.  It composes (`PassesBoth`), one piece at a time (`PassesOne`), and is what
  the fold `OpenAfter` computes (`PassesFold`, by `FoldUnfolds`, an induction on the
  finite sets of positions).  `BodiesClosed` and `TablesClosed` are inductions along a
  text: functions end where they should, in braced languages and in python.
- `GoodProgram`: two parts around the signature that close what they open make a whole
  program.  `LeadingIsFair` and `Assembled` say that the data file's prompt and test and
  `process_humaneval_test` are such parts around any code, with `Closing` the line that
  the tests bring.
- `BodyIsCopied`: a body has been copied out of a text if its pieces were and what
  follows is no line.  `BuiltWell` puts this and `GoodProgram` together (`Whole`).
- `PythonWhole`, `BracedWhole`: the same from the form of the code.  In python a body
  ends where its lines do; in the other languages its closing line was cut off with
  the stop word, or by `rindex`, and is added by the code or brought by the tests
  (`BodyClosed`, `BodyCopied`), where most of the cases are.
- `FencedBlock`: the first block of a text, without its entry point, is at one place of
  the text, and so is the body in it.  `HelpersKept`: no other function is lost if none
  follows the last closing line, which `BracedEnds` shows of code of that form.
- `StructCut`, `SftCut` and `SigFirst`: why a spoiled answer's program is not whole: cut at
  "struct" its function is not closed, cut at the first def it has no function, and an
  sft block that begins with its function is not cut there (`ProgramSpoiled`).
- `BaseProgram`, `SftProgram`, `InstructProgram`, `MbppProgram`, `MbppInstructProgram`
  and `LeetcodeProgram`: one lemma for each script.

**Numbers, lists and finite sets.**  What a fold or a recursive function of the
library gives for data of any length needs induction, and the library's induction
theorems take an operator, which no prover at hand can instantiate.  The proofs take
it from well-foundedness instead, which is first-order: finite sets are well-founded
by inclusion, so a set of numbers has a least one (`LeastNumber`), so a set of
numbers with 0 and successors is all of them (`Induction`), and likewise for finite
sets (`SetInduction`).  With it the product, the sum and the flattening are unfolded
step by step (`ProductUnfolds`, `SumUnfolds`, `FlattenUnfolds`, `FoldUnfolds`).

Every inductive invariant was checked with TLC on the run's instance before it was
proved.

Only model-checked is liveness (`CallReturns`, `ScriptEnds`, `Ends`, `RunEnds`,
`NoneLeftWaiting`), which is beyond the prover.  Every invariant and every other
action property that a run checks has a theorem.

## 7. Disagreements found

With a run:

- `SensorOneSlot`: init accepts a capacity of 1; each push then finds the empty
  ring full and the *newest* sample is lost, where `docs/SENSOR_RUNTIME.md`
  says the oldest is.
- `SensorSnapshot`: `last_debug` is not initialised, and a snapshot before the
  first committed batch returns it with `RAF_SENSOR_OK`.
- `SharedDir`: two calls for one task that draw the same number judge each
  other's programs.  The rust branch shares one source per task whatever is
  drawn, and its samples may judge each other's sources, or an empty file:
  `LastIsRight` is all that is left.
- `EvalPartial`: when the samples leave a problem out, the totals are printed
  and `return pass_at_k` raises `UnboundLocalError`.

Without one, as nothing in the repository states the contrary in so many words;
the models do what the code does:

- `evaluation.py` (LeetCode): `test_groundtruth` ends with `UnboundLocalError` at
  the first result, whose table `id2samples` only the other branch assigns
  (`Collect` has it, and `NothingLeft` covers it).
- `evaluation.py`: the ground truth passes `language` in the place of `is_mbpp`,
  so that tests are joined as if they were mbpp's; and mbpp's problems have no
  `canonical_solution`.
- `execution.py`: a js program that ends silently passes whatever its status; cs
  passes unless it prints "Fail"; a language without a branch is "timed out".
- `grader.py`: with a timeout, the parts of lists and tuples are still compared
  without one, in the caller's process (`Unlimited`); `call_with_timeout` joins and
  then reads the queue without a limit; a grader that died has put nothing, and
  the read never returns (`RunEnds`).
- `finetune_deepseekcoder.py`: rank 0 shows three random examples, an error when
  there are fewer, behind the barrier (`Shown`; `NoneLeftWaiting` covers it).
- `mbpp.py`: with a temperature other than 0 `stop_criteria` has no value; a prompt
  with which no example fits is decoded with its first special token, by whose
  length the answer is then cut; a batch stops as soon as its first row has ended
  (`RowsWhole`).
- `utils/utils.py`: the python branch cuts a completion at the first "\ndef" or
  "\nclass", and so all of an answer that is a whole program but what precedes
  its first function; the instruct extraction drops helpers in front of the
  function asked for, and cuts at the last closing brace even where the language
  (python) has none.
- `evaluate_leetcode.py:18`: the same cut, for answers without a fence.
- `humaneval-go.jsonl`: the stop token "struct" cuts a body that uses the word in the
  middle of its line (`Spoiled`).
- `execution.py:590`: the alarm of the python branch acts between bytecodes only, so
  that a long call of C code is ended by the caller's kill, without a verdict
  (`HoldAlarm`).
- `finetune_deepseekcoder.py:109`: a padding token in an answer is learned but masked
  from attention.
- `humaneval.py:154`: the generations of a job that dies between
  `os.remove(tmplogfile)` and the end of the merge are lost.

## 8. Not modelled

- In modelled components: wording of prompts and reports; sampling with a
  temperature (any text of `MCTexts` may come); the reliability guard of
  `execution.py`, but for the `unlink` it takes away; parsing of answers and their
  comparison by sympy (`Right` says which are); hash, mask and torus fields of
  the sensor runtime, which nothing reads back; floating point.
- In `process_humaneval_test`: the branches for rust and go232, for which the
  repository has no data file.  Languages without a branch are `NoTestString`.
- `GeoLM`: sequential and single-threaded, with its difficulty in floating-point
  arithmetic and text; saving and loading are one pass through a file, of which
  `PROJECT.json` lists the hazard.
- `BBS`, sector and verb seed: short sequential functions on a table or three
  numbers, which unit tests reach.
- Audit log: section 9.
- Demo: the queue, its timeout and the thread are the transformers library's; the
  code chooses ten seconds.
- Bit stack, torus, assembly, the Android screen, build, governance and workflow
  scripts: no state from one call to the next, or only files of the build.

## 9. Plan

Done: the sensor runtime; sandboxed calls, alone and concurrent, in every language;
evaluation, pass@k and the LeetCode script; distributed evaluation; prompts,
generation and extraction; PAL-Math; fine-tuning.  Proofs: section 6.

1. `AuditLog`: append and rotation by two threads of two processes; abstract
   specification: a log of which rotation discards a prefix.
