-------------------------- MODULE CheckCorrectness --------------------------
(***************************************************************************)
(* human_eval/execution.py, check_correctness: how one completion gets its *)
(* verdict.  The caller (parent) starts a process (child) that runs the    *)
(* completion and posts a verdict to a list kept by a third process, the   *)
(* multiprocessing manager; the caller waits timeout + 1 seconds, kills    *)
(* the child if it still lives, and reads the list.                        *)
(*                                                                         *)
(* The branches of unsafe_execute are records: which stages they have, the *)
(* limits on them, what they do when a limit is hit or an exception is     *)
(* raised, and which outcomes they call passed.  Programs are              *)
(* nondeterministic: a stage may succeed, fail or never end.  The clock    *)
(* counts seconds.                                                         *)
(***************************************************************************)
EXTENDS Naturals, Sequences

CONSTANTS
    Langs,          \* languages evaluated, among Languages
    Timeouts,       \* values of the timeout argument
    CompileLimit,   \* timeout of one javac attempt, 60 s in the code
    ShellLimit      \* timeout of bash test.sh, 10 s in the code

\* A language without a branch, such as a task id of the ground truth may name,
\* is "other".
Languages == {"python", "go", "js", "cpp", "php", "sh", "ts", "cs", "rust", "java", "other"}

ASSUME LangsAssumption == Langs \subseteq Languages
ASSUME LimitsAssumption ==
    Timeouts \subseteq Nat \ {0} /\ CompileLimit \in Nat \ {0} /\ ShellLimit \in Nat \ {0}

VARIABLES
    lang, timeout,      \* language_type and timeout of this call
    parent,             \* where the caller is
    stage,              \* where the child is
    clock, since,       \* now, and when the child entered its stage
    itimer,             \* of the child's alarm: "set", "held" up or "off"
    attempts,           \* javac runs started
    request,            \* what the child sent to the manager, until it is served
    result,             \* the manager's list
    answer_result, answer_passed,       \* the two reads of the returned dict
    killed_in,          \* history: stage in which the child was killed
    ran, ran_ok         \* history: a run ended by itself, and with status 0

answers == <<answer_result, answer_passed>>
vars == <<lang, timeout, parent, stage, clock, since, itimer, attempts, request, result,
          answers, killed_in, ran, ran_ok>>

Verdicts == {"passed", "failed", "timed out", "time out"}
Ended    == {"exited", "crashed", "killed"}
Stages   == {"setup", "compile", "run", "review", "recompile", "rerun", "cleanup"}
Parents  == {"join", "check", "append", "read_result", "read_passed", "done"}
NoRequest == [op |-> "none", verdict |-> "none"]
Request   == [op : {"append", "rewrite"}, verdict : Verdicts]

Init ==
    /\ lang \in Langs /\ timeout \in Timeouts
    /\ parent = "join" /\ stage = "setup"
    /\ clock = 0 /\ since = 0
    /\ itimer = "set" /\ attempts = 0
    /\ request = NoRequest /\ result = <<>>
    /\ answer_result = "none" /\ answer_passed = FALSE
    /\ killed_in = "none" /\ ran = FALSE /\ ran_ok = FALSE

-----------------------------------------------------------------------------
(* The branches of unsafe_execute *)

\* How a run that ends by itself ends: with status 0 (no exception, for python)
\* or not, and what it wrote.
Outcomes == [ok : BOOLEAN, output : {"nothing", "text", "Fail", "undecodable"}]

ExitZero == {o \in Outcomes : o.ok}
NoLimit  == 0

\* exec in the child itself, under an alarm only.  The program shares the process
\* and may take it down.
Python == [compiles |-> FALSE, compile_limit |-> NoLimit,
           alarm |-> timeout, run_limit |-> NoLimit, expired |-> "escapes",
           fragile |-> TRUE, passes |-> ExitZero, raises |-> {}]

\* go test: the alarm and the timeout of subprocess.run are set together; only
\* the alarm's TimeoutException is caught.
Go == [compiles |-> FALSE, compile_limit |-> NoLimit,
       alarm |-> timeout, run_limit |-> timeout, expired |-> "escapes",
       fragile |-> TRUE, passes |-> ExitZero, raises |-> {}]

\* Silence passes, whatever the exit status, and the output is decoded unguarded.
Js == [Go EXCEPT !.passes = {o \in Outcomes : o.output = "nothing"},
                 !.raises = {o \in Outcomes : o.output = "undecodable"}]

\* g++ has the whole timeout, and a.out another.
Cpp == [compiles |-> TRUE, compile_limit |-> timeout,
        alarm |-> timeout, run_limit |-> timeout, expired |-> "escapes",
        fragile |-> TRUE, passes |-> ExitZero, raises |-> {}]

\* php and bash run in a shell, which changes nothing here but bash's own limit.
Php == Go
Sh  == [Go EXCEPT !.run_limit = ShellLimit]

\* tsc and node, and both once more unless that passed (Review).
Ts == Cpp

\* mcs has no limit; every exception of the run is a failure; what passes is a
\* program that does not write Fail.
Cs == [compiles |-> TRUE, compile_limit |-> NoLimit,
       alarm |-> timeout, run_limit |-> timeout, expired |-> "failed",
       fragile |-> FALSE, passes |-> {o \in Outcomes : o.output \in {"nothing", "text"}},
       raises |-> {}]

\* cargo check and cargo test through os.system, which knows no limit.
Rust == [compiles |-> TRUE, compile_limit |-> NoLimit,
         alarm |-> NoLimit, run_limit |-> NoLimit, expired |-> "escapes",
         fragile |-> FALSE, passes |-> ExitZero, raises |-> {}]

\* javac is tried up to five times; java has no alarm, and an answer of its own to
\* the timeout.
Java == [compiles |-> TRUE, compile_limit |-> CompileLimit,
         alarm |-> NoLimit, run_limit |-> timeout, expired |-> "time out",
         fragile |-> FALSE, passes |-> ExitZero, raises |-> {}]

Branch == CASE lang = "python" -> Python [] lang = "go" -> Go [] lang = "js" -> Js
            [] lang = "cpp" -> Cpp [] lang = "php" -> Php [] lang = "sh" -> Sh
            [] lang = "ts" -> Ts [] lang = "cs" -> Cs [] lang = "rust" -> Rust
            [] lang = "java" -> Java

-----------------------------------------------------------------------------
(* The clock and the timers *)

Compiling == stage \in {"compile", "recompile"}
Running   == stage \in {"run", "rerun"}

\* Defect: limits count from the beginning of the call.
ExpiredSinceStart(limit) == limit # NoLimit /\ clock >= limit

Expired(limit) == limit # NoLimit /\ clock >= since + limit

CompileDue == Compiling /\ Expired(Branch.compile_limit)
AlarmDue   == Running /\ itimer = "set" /\ Expired(Branch.alarm)
RunDue     == Running /\ Expired(Branch.run_limit)
Due        == CompileDue \/ AlarmDue \/ RunDue

\* Defects: no slack, too much of it, a constant deadline.
NoSlack       == timeout
LongDeadline  == timeout + 2
ShortDeadline == 1

\* p.join(timeout = timeout + 1)
Deadline == timeout + 1

\* A second passes.  Expired timers, answers of the manager and the caller's
\* wake-up take much less than that, so none is pending; but for an alarm whose
\* handler the completion holds up (HoldAlarm).
Tick ==
    /\ parent = "join" /\ stage \notin Ended
    /\ clock < Deadline /\ ~Due /\ request = NoRequest
    /\ clock' = clock + 1
    /\ UNCHANGED <<lang, timeout, parent, stage, since, itimer, attempts, request, result,
                   answers, killed_in, ran, ran_ok>>

-----------------------------------------------------------------------------
(* The child *)

ChildOnly == UNCHANGED <<lang, timeout, parent, clock, result, answers, killed_in>>

Enter(s) == stage' = s /\ since' = clock

\* result.append(v), or result[-1] = v in the second half of the ts branch.
Post(v) ==
    /\ request' = [op |-> IF stage \in {"recompile", "rerun"} THEN "rewrite" ELSE "append",
                   verdict |-> v]
    /\ stage' = IF lang = "ts" /\ stage \in {"compile", "run"} THEN "review" ELSE "cleanup"
    /\ UNCHANGED since

\* The branch of the language, its working directory and source file; then its
\* first stage.  Without a branch there is nothing to do.
Setup ==
    /\ stage = "setup"
    /\ IF lang = "other"
       THEN stage' = "exited" /\ UNCHANGED since
       ELSE Enter(IF Branch.compiles THEN "compile" ELSE "run")
    /\ attempts' = IF lang = "java" THEN 1 ELSE 0
    /\ ChildOnly /\ UNCHANGED <<itimer, request, ran, ran_ok>>

CompileOk ==
    /\ Compiling
    /\ Enter(IF stage = "compile" THEN "run" ELSE "rerun")
    /\ ChildOnly /\ UNCHANGED <<itimer, attempts, request, ran, ran_ok>>

CompileFails ==
    /\ Compiling
    /\ Post("failed")
    /\ ChildOnly /\ UNCHANGED <<itimer, attempts, ran, ran_ok>>

\* cpp and ts let TimeoutExpired escape; java tries again.
CompileExpires ==
    /\ CompileDue
    /\ \/ /\ lang # "java"
          /\ stage' = "crashed"
          /\ UNCHANGED <<since, attempts, request>>
       \/ /\ lang = "java" /\ attempts < 5
          /\ attempts' = attempts + 1 /\ since' = clock
          /\ UNCHANGED <<stage, request>>
       \/ /\ lang = "java" /\ attempts = 5
          /\ Post("failed")
          /\ UNCHANGED attempts
    /\ ChildOnly /\ UNCHANGED <<itimer, ran, ran_ok>>

\* Defect: a run that was not a success is reported as one.
MisreportedRun(o) ==
    /\ Running /\ itimer # "held"
    /\ Post("passed")
    /\ ran' = TRUE /\ ran_ok' = (ran_ok \/ o.ok)
    /\ ChildOnly /\ UNCHANGED <<itimer, attempts>>

\* The run ends by itself, and is judged.  A handler that was held up comes first.
RunEnds(o) ==
    /\ Running /\ itimer # "held"
    /\ IF o \in Branch.raises
       THEN stage' = "crashed" /\ UNCHANGED <<since, request>>
       ELSE Post(IF o \in Branch.passes THEN "passed" ELSE "failed")
    /\ ran' = TRUE /\ ran_ok' = (ran_ok \/ o.ok)
    /\ ChildOnly /\ UNCHANGED <<itimer, attempts>>

\* The alarm, or the timeout of subprocess.run.
RunExpires ==
    /\ \/ AlarmDue /\ Post("timed out")
       \/ /\ RunDue
          /\ IF Branch.expired = "escapes"
             THEN stage' = "crashed" /\ UNCHANGED <<since, request>>
             ELSE Post(Branch.expired)
    /\ ChildOnly /\ UNCHANGED <<itimer, attempts, ran, ran_ok>>

\* A python completion runs inside the child.  The interpreter calls the handler
\* between two bytecodes, so never while the completion is in one long call of C code
\* (a power of large numbers, a regular expression).
HoldAlarm ==
    /\ lang = "python" /\ AlarmDue
    /\ itimer' = "held"
    /\ ChildOnly /\ UNCHANGED <<stage, since, attempts, request, ran, ran_ok>>

\* When that call returns, if it does, the TimeoutException is raised.
LateAlarm ==
    /\ Running /\ itimer = "held"
    /\ Post("timed out")
    /\ ChildOnly /\ UNCHANGED <<itimer, attempts, ran, ran_ok>>

\* The completion can catch the one TimeoutException, or stop the timer before it.
EvadeAlarm ==
    /\ lang = "python" /\ Running /\ itimer # "off"
    /\ itimer' = "off"
    /\ ChildOnly /\ UNCHANGED <<stage, since, attempts, request, ran, ran_ok>>

\* The child ends without a verdict: python code took it down, or an exception
\* that the branch does not catch (a program that is missing, compiler output that
\* is not UTF-8).
Dies ==
    /\ \/ stage = "setup" /\ lang \notin {"python", "other"}
       \/ Compiling /\ lang # "rust"
       \/ Running /\ Branch.fragile
    /\ stage' = "crashed"
    /\ ChildOnly /\ UNCHANGED <<since, itimer, attempts, request, ran, ran_ok>>

\* ts: unless the first verdict is "passed", compile again with other options.
Review ==
    /\ stage = "review" /\ request = NoRequest
    /\ IF result[Len(result)] = "passed"
       THEN stage' = "cleanup" /\ UNCHANGED since
       ELSE Enter("recompile")
    /\ ChildOnly /\ UNCHANGED <<itimer, attempts, request, ran, ran_ok>>

\* Removing the directory may fail (os.unlink stays disabled in the python
\* branch); the verdict has been posted.
Cleanup ==
    /\ stage = "cleanup" /\ request = NoRequest
    /\ stage' \in {"exited", "crashed"}
    /\ ChildOnly /\ UNCHANGED <<since, itimer, attempts, request, ran, ran_ok>>

Child == \/ Setup \/ CompileOk \/ CompileFails
         \/ \E o \in Outcomes : RunEnds(o)
         \/ HoldAlarm \/ LateAlarm \/ EvadeAlarm \/ Dies \/ Review \/ Cleanup
Timer == CompileExpires \/ RunExpires

-----------------------------------------------------------------------------
(* The manager *)

ManagerOnly == UNCHANGED <<lang, timeout, parent, stage, clock, since, itimer, attempts,
                           answers, killed_in, ran, ran_ok>>

Serve ==
    /\ request # NoRequest
    /\ result' = IF request.op = "append"
                 THEN Append(result, request.verdict)
                 ELSE [result EXCEPT ![Len(result)] = request.verdict]
    /\ request' = NoRequest
    /\ ManagerOnly

\* A killed child may not have finished sending.
LoseRequest ==
    /\ stage = "killed" /\ request # NoRequest
    /\ request' = NoRequest
    /\ ManagerOnly /\ UNCHANGED result

-----------------------------------------------------------------------------
(* The caller *)

ParentOnly == UNCHANGED <<lang, timeout, clock, since, itimer, attempts, request, ran, ran_ok>>

\* Defect: join without a timeout.
JoinForever ==
    /\ parent = "join" /\ stage \in Ended
    /\ parent' = "check"
    /\ ParentOnly /\ UNCHANGED <<stage, killed_in, result, answers>>

\* join returns, and a child that still lives is killed.
JoinReturns ==
    /\ parent = "join"
    /\ stage \in Ended \/ clock >= Deadline
    /\ parent' = "check"
    /\ IF stage \in Ended
       THEN UNCHANGED <<stage, killed_in>>
       ELSE stage' = "killed" /\ killed_in' = stage
    /\ ParentOnly /\ UNCHANGED <<result, answers>>

CheckResult ==
    /\ parent = "check"
    /\ parent' = IF result = <<>> THEN "append" ELSE "read_result"
    /\ ParentOnly /\ UNCHANGED <<stage, killed_in, result, answers>>

\* Defect: the caller's entry comes first.
InsertTimedOut ==
    /\ parent = "append"
    /\ result' = <<"timed out">> \o result
    /\ parent' = "read_result"
    /\ ParentOnly /\ UNCHANGED <<stage, killed_in, answers>>

AppendTimedOut ==
    /\ parent = "append"
    /\ result' = Append(result, "timed out")
    /\ parent' = "read_result"
    /\ ParentOnly /\ UNCHANGED <<stage, killed_in, answers>>

\* Defect: the last entry is read first.
ReadLast ==
    /\ parent = "read_result"
    /\ answer_result' = result[Len(result)]
    /\ parent' = "read_passed"
    /\ ParentOnly /\ UNCHANGED <<stage, killed_in, result, answer_passed>>

ReadResult ==
    /\ parent = "read_result"
    /\ answer_result' = result[1]
    /\ parent' = "read_passed"
    /\ ParentOnly /\ UNCHANGED <<stage, killed_in, result, answer_passed>>

ReadPassed ==
    /\ parent = "read_passed"
    /\ answer_passed' = (result[1] = "passed")
    /\ parent' = "done"
    /\ ParentOnly /\ UNCHANGED <<stage, killed_in, result, answer_result>>

Caller == JoinReturns \/ CheckResult \/ AppendTimedOut \/ ReadResult \/ ReadPassed

Returned == parent = "done" /\ request = NoRequest /\ UNCHANGED vars

Next == Tick \/ Child \/ Timer \/ Serve \/ LoseRequest \/ Caller \/ Returned

\* Time passes, expired timers fire unless they are held up, the manager and the caller
\* run; nothing is assumed of the completion.
Fairness == WF_vars(Tick) /\ WF_vars(Timer) /\ WF_vars(Serve) /\ WF_vars(Caller)

Spec == Init /\ [][Next]_vars /\ Fairness

-----------------------------------------------------------------------------
(* Properties *)

\* Each variable holds a value the code can give it.
TypeOK ==
    /\ lang \in Langs /\ parent \in Parents /\ stage \in Stages \union Ended
    /\ timeout \in Timeouts /\ clock \in 0 .. timeout + 1 /\ since \in 0 .. clock
    /\ itimer \in {"set", "held", "off"} /\ attempts \in 0 .. 5
    /\ request \in Request \union {NoRequest}
    /\ result \in Seq(Verdicts)
    /\ answer_result \in Verdicts \union {"none"} /\ answer_passed \in BOOLEAN
    /\ killed_in \in Stages \union {"none"} /\ ran \in BOOLEAN /\ ran_ok \in BOOLEAN

\* The caller reads result[0] twice without a lock, while a request of a child
\* it has just killed may still be served: outside the rewriting ts branch the
\* two reads agree all the same.
ReadsAgree ==
    parent = "done" /\ lang # "ts" => (answer_passed <=> answer_result = "passed")

\* No completion is counted as passed unless a run of it ended by itself, with
\* status 0 where the branch looks at that (js and cs do not), whatever was killed,
\* rewritten or served late.
PassedIsEarned == answer_passed => ran /\ (ran_ok \/ lang \in {"js", "cs"})

\* The first verdict on the list is final, except for ts, which may turn it into
\* its second verdict.
FirstVerdictFinal ==
    [][result # <<>> /\ lang # "ts" => result'[1] = result[1]]_vars

\* The second between the two timeouts is enough: a program of a branch without
\* compilation is killed while running only if the child took that second to start,
\* or if it is python code that kept its alarm from acting: in a call of C code that
\* outlasted the second, by catching the exception or by stopping the timer.
SlackSuffices ==
    killed_in = "run" /\ ~Branch.compiles => since > 0 \/ (lang = "python" /\ itimer # "set")

\* "timed out" is said only of a call that used up its timeout, whose child ended
\* without a verdict, or whose language has no branch.
TimedOutIsLate ==
    answer_result = "timed out" => clock >= timeout \/ stage = "crashed" \/ lang = "other"

\* javac is started again only after each earlier attempt used its whole limit,
\* and never once the caller's deadline is over: with 60 s for an attempt and a
\* timeout of 10 s, the four repetitions are dead code.
RetriesAreSpaced ==
    attempts > 1 => /\ clock >= (attempts - 1) * CompileLimit
                    /\ (attempts - 1) * CompileLimit <= timeout + 1

\* check_correctness returns, even if the completion never ends.
CallReturns == <>(parent = "done")
=============================================================================
