----------------------- MODULE CheckCorrectnessProofs -----------------------
(***************************************************************************)
(* Proofs about CheckCorrectness, for any timeouts and limits: every safety *)
(* property of one call.                                                   *)
(***************************************************************************)
EXTENDS CheckCorrectness, TLAPS

\* Branches without compilation, in which only the run takes time.
Interpreted == {"python", "go", "js", "php", "sh"}

(* What the proofs need to know of the branches. *)
LEMMA BranchFacts ==
    ASSUME lang \in Languages \ {"other"}
    PROVE  /\ Branch.expired \in {"escapes", "failed", "time out"}
           /\ Branch.compiles <=> lang \notin Interpreted
           /\ Branch.alarm \in {NoLimit, timeout}
           /\ lang \in Interpreted => Branch.alarm = timeout
           /\ lang = "java" => Branch.compile_limit = CompileLimit
           /\ lang \notin {"js", "cs"} => \A o \in Branch.passes : o.ok
<1> USE DEF Languages, Interpreted, ExitZero, NoLimit
<1>1. CASE lang = "python"
  <2>1. Branch = Python  BY <1>1, Zenon DEF Branch
  <2>. QED  BY <1>1, <2>1 DEF Python
<1>2. CASE lang = "go"
  <2>1. Branch = Go  BY <1>2, Zenon DEF Branch
  <2>. QED  BY <1>2, <2>1 DEF Go
<1>3. CASE lang = "js"
  <2>1. Branch = Js  BY <1>3, Zenon DEF Branch
  <2>. QED  BY <1>3, <2>1 DEF Js, Go
<1>4. CASE lang = "cpp"
  <2>1. Branch = Cpp  BY <1>4, Zenon DEF Branch
  <2>. QED  BY <1>4, <2>1 DEF Cpp
<1>5. CASE lang = "php"
  <2>1. Branch = Php  BY <1>5, Zenon DEF Branch
  <2>. QED  BY <1>5, <2>1 DEF Php, Go
<1>6. CASE lang = "sh"
  <2>1. Branch = Sh  BY <1>6, Zenon DEF Branch
  <2>. QED  BY <1>6, <2>1 DEF Sh, Go
<1>7. CASE lang = "ts"
  <2>1. Branch = Ts  BY <1>7, Zenon DEF Branch
  <2>. QED  BY <1>7, <2>1 DEF Ts, Cpp
<1>8. CASE lang = "cs"
  <2>1. Branch = Cs  BY <1>8, Zenon DEF Branch
  <2>. QED  BY <1>8, <2>1 DEF Cs
<1>9. CASE lang = "rust"
  <2>1. Branch = Rust  BY <1>9, Zenon DEF Branch
  <2>. QED  BY <1>9, <2>1 DEF Rust
<1>10. CASE lang = "java"
  <2>1. Branch = Java  BY <1>10, Zenon DEF Branch
  <2>. QED  BY <1>10, <2>1 DEF Java
<1>. QED  BY <1>1, <1>2, <1>3, <1>4, <1>5, <1>6, <1>7, <1>8, <1>9, <1>10

-----------------------------------------------------------------------------
(* The inductive invariant *)

\* TypeOK, with the timers as plain inequalities.
Typed ==
    /\ lang \in Languages /\ lang \in Langs /\ timeout \in Timeouts
    /\ timeout \in Nat /\ timeout > 0 /\ CompileLimit \in Nat /\ CompileLimit > 0
    /\ clock \in Nat /\ clock <= timeout + 1 /\ since \in Nat /\ since <= clock
    /\ attempts \in Nat /\ attempts <= 5
    /\ parent \in Parents /\ stage \in Stages \union Ended
    /\ itimer \in {"set", "held", "off"} /\ ran \in BOOLEAN /\ ran_ok \in BOOLEAN
    /\ (itimer # "set" => lang = "python") /\ (itimer = "held" => clock >= timeout)
    /\ request = NoRequest \/ request \in Request
    /\ result \in Seq(Verdicts)
    /\ answer_result = "none" \/ answer_result \in Verdicts
    /\ answer_passed \in BOOLEAN
    /\ killed_in = "none" \/ killed_in \in Stages

\* What is behind each stage of the child and of the caller.
Places ==
    /\ lang = "other" => stage \in {"setup", "exited", "killed"} /\ killed_in \in {"none", "setup"}
    /\ stage \in {"review", "recompile", "rerun"} => lang = "ts"
    /\ stage \in {"setup", "compile", "run", "recompile", "rerun", "exited"} => request = NoRequest
    /\ stage \in {"recompile", "rerun"} \/ request.op = "rewrite" => lang = "ts" /\ result # <<>>
    /\ stage \in {"review", "cleanup", "exited"} /\ lang # "other" =>
         request # NoRequest \/ result # <<>>
    /\ parent # "join" => stage \in Ended
    /\ parent \in {"read_result", "read_passed", "done"} => result # <<>>
    /\ killed_in # "none" => stage = "killed"

\* What the caller has read is the head of the list, as it still is.
ReadsHead ==
    lang # "ts" =>
      /\ parent \in {"read_passed", "done"} => answer_result = result[1]
      /\ parent = "done" => (answer_passed <=> answer_result = "passed")

\* A completion deserves "passed".
Earned == ran /\ (ran_ok \/ lang \in {"js", "cs"})

\* Where a "passed" may be found, and what it took.
EarnedWhereverFound ==
    /\ request.verdict = "passed" => Earned
    /\ \A i \in DOMAIN result : result[i] = "passed" => Earned
    /\ answer_passed => Earned

\* A call deserves "timed out".
Late == clock >= timeout \/ stage = "crashed" \/ lang = "other"

\* Where a "timed out" may be found or is due, and when.
LateWhereverFound ==
    /\ parent = "append" \/ request.verdict = "timed out" \/ stage = "killed" => Late
    /\ \A i \in DOMAIN result : result[i] = "timed out" => Late
    /\ answer_result = "timed out" => Late

\* The timer of a run without compilation fires in time, unless the run prevents it.
AlarmInTime ==
    lang \in Interpreted =>
      /\ stage = "run" /\ itimer = "set" => clock <= since + timeout
      /\ killed_in = "run" => itimer # "set" \/ since > 0

\* Each attempt of javac takes its limit.
AttemptsTakeTime ==
    /\ attempts # 0 => lang = "java" /\ stage # "setup"
    /\ attempts # 0 /\ stage = "compile" => since >= (attempts - 1) * CompileLimit
    /\ lang = "java" /\ stage = "compile" => attempts # 0
    /\ attempts # 0 => clock >= (attempts - 1) * CompileLimit

IInv == Typed /\ Places /\ ReadsHead /\ EarnedWhereverFound /\ LateWhereverFound
        /\ AlarmInTime /\ AttemptsTakeTime

USE DEF Ended, Stages, Parents, Deadline

(* Requests, and no request. *)
LEMMA Requests ==
    /\ NoRequest.op = "none" /\ NoRequest.verdict = "none" /\ NoRequest \notin Request
    /\ \A r \in Request : r.op \in {"append", "rewrite"} /\ r.verdict \in Verdicts
BY DEF Request, NoRequest

(* A step posts a verdict: the request, and where the child goes. *)
LEMMA PostShape ==
    ASSUME NEW v \in {"passed", "failed", "timed out", "time out"}, Post(v)
    PROVE  /\ request' \in Request /\ request'.verdict = v
           /\ request'.op = "rewrite" => stage \in {"recompile", "rerun"}
           /\ stage' \in {"review", "cleanup"} /\ (stage' = "review" => lang = "ts")
           /\ since' = since
<1>1. request'.op = IF stage \in {"recompile", "rerun"} THEN "rewrite" ELSE "append"
  BY DEF Post
<1>2. request'.verdict = v
  BY DEF Post
<1>3. request' \in Request
  BY DEF Post, Request, Verdicts
<1>4. stage' = IF lang = "ts" /\ stage \in {"compile", "run"} THEN "review" ELSE "cleanup"
  BY DEF Post
<1>5. since' = since
  BY DEF Post
<1>. QED  BY <1>1, <1>2, <1>3, <1>4, <1>5

(* Appending a verdict to the list. *)
LEMMA Appended ==
    ASSUME NEW s \in Seq(Verdicts), NEW v \in Verdicts
    PROVE  /\ Append(s, v) \in Seq(Verdicts) /\ Append(s, v) # <<>>
           /\ s # <<>> => Append(s, v)[1] = s[1]
           /\ s = <<>> => Append(s, v)[1] = v
           /\ \A i \in DOMAIN Append(s, v) : (i \in DOMAIN s /\ Append(s, v)[i] = s[i]) \/ Append(s, v)[i] = v
OBVIOUS

(* Replacing the last one. *)
LEMMA Rewritten ==
    ASSUME NEW s \in Seq(Verdicts), s # <<>>, NEW v \in Verdicts
    PROVE  LET t == [s EXCEPT ![Len(s)] = v]
           IN  /\ t \in Seq(Verdicts) /\ t # <<>>
               /\ \A i \in DOMAIN t : (i \in DOMAIN s /\ t[i] = s[i]) \/ t[i] = v
OBVIOUS

(* The caller's entry. *)
LEMMA CallerAppends ==
    ASSUME Typed, AppendTimedOut
    PROVE  /\ result' \in Seq(Verdicts) /\ result' # <<>>
           /\ result # <<>> => result'[1] = result[1]
           /\ \A i \in DOMAIN result' : (i \in DOMAIN result /\ result'[i] = result[i]) \/ result'[i] = "timed out"
<1>1. "timed out" \in Verdicts
  BY DEF Verdicts
<1>2. result \in Seq(Verdicts) /\ result' = Append(result, "timed out")
  BY DEF Typed, AppendTimedOut
<1>. QED  BY <1>1, <1>2, Appended

(* What the manager does to the list. *)
LEMMA Served ==
    ASSUME Typed, Places, Serve
    PROVE  /\ result' \in Seq(Verdicts) /\ result' # <<>>
           /\ lang # "ts" /\ result # <<>> => result'[1] = result[1]
           /\ \A i \in DOMAIN result' :
                (i \in DOMAIN result /\ result'[i] = result[i]) \/ result'[i] = request.verdict
           /\ request' = NoRequest /\ request'.op = "none" /\ request'.verdict = "none"
<1>1. request \in Request
  BY DEF Typed, Serve
<1>2. request.verdict \in Verdicts /\ request.op \in {"append", "rewrite"}
  BY <1>1, Requests
<1>3. request' = NoRequest /\ request'.op = "none" /\ request'.verdict = "none"
  BY Requests DEF Serve
<1>4. result \in Seq(Verdicts)
  BY DEF Typed
<1>5. CASE request.op = "append"
  <2>1. result' = Append(result, request.verdict)
    BY <1>5 DEF Serve
  <2>. QED  BY <1>2, <1>3, <1>4, <2>1, Appended
<1>6. CASE request.op = "rewrite"
  <2>1. result' = [result EXCEPT ![Len(result)] = request.verdict]
    BY <1>6 DEF Serve
  <2>2. lang = "ts" /\ result # <<>>
    BY <1>6 DEF Places
  <2>. QED  BY <1>2, <1>3, <1>4, <2>1, <2>2, Rewritten
<1>. QED  BY <1>2, <1>5, <1>6

LEMMA TypedIsTypeOK == Typed => TypeOK
BY DEF Typed, TypeOK, Stages

(* A compilation whose limit is over: a crash, another attempt, or the end of them. *)
LEMMA CompileExpiresShape ==
    ASSUME Typed, Places, CompileExpires
    PROVE  /\ ChildOnly /\ UNCHANGED <<itimer, ran, ran_ok>>
           /\ stage \in {"compile", "recompile"}
           /\ \/ lang # "java" /\ stage' = "crashed" /\ UNCHANGED <<since, attempts, request>>
              \/ /\ lang = "java" /\ attempts < 5 /\ clock >= since + CompileLimit
                 /\ attempts' = attempts + 1 /\ since' = clock
                 /\ UNCHANGED <<stage, request>>
              \/ lang = "java" /\ Post("failed") /\ UNCHANGED attempts
<1>1. stage \in {"compile", "recompile"}
  BY DEF CompileExpires, CompileDue, Compiling
<1>2. lang \in Languages \ {"other"}
  BY <1>1 DEF Typed, Places
<1>3. lang = "java" => clock >= since + CompileLimit
  <2>1. Expired(Branch.compile_limit)
    BY DEF CompileExpires, CompileDue
  <2>. QED  BY <1>2, <2>1, BranchFacts DEF Expired
<1>. QED  BY <1>1, <1>3 DEF CompileExpires

(* A run whose limit is over: "timed out" by the alarm, on time or late, or another end. *)
LEMMA RunExpiresShape ==
    ASSUME Typed, Places, RunExpires \/ LateAlarm
    PROVE  /\ ChildOnly /\ UNCHANGED <<itimer, attempts, ran, ran_ok>>
           /\ stage \in {"run", "rerun"}
           /\ \/ clock >= timeout /\ Post("timed out")
              \/ Post("failed") \/ Post("time out")
              \/ stage' = "crashed" /\ UNCHANGED <<since, request>>
<1>1. stage \in {"run", "rerun"}
  BY DEF RunExpires, LateAlarm, AlarmDue, RunDue, Running
<1>2. lang \in Languages \ {"other"}
  BY <1>1 DEF Typed, Places
<1>3. AlarmDue => clock >= timeout
  <2>1. AlarmDue => Branch.alarm # NoLimit /\ clock >= since + Branch.alarm
    BY DEF AlarmDue, Expired
  <2>2. Branch.alarm \in {NoLimit, timeout}
    BY <1>2, BranchFacts
  <2>3. timeout \in Nat /\ clock \in Nat /\ since \in Nat
    BY DEF Typed
  <2>. QED  BY <2>1, <2>2, <2>3
<1>4. Branch.expired \in {"escapes", "failed", "time out"}
  BY <1>2, BranchFacts
<1>5. LateAlarm => clock >= timeout
  BY DEF LateAlarm, Typed
<1>. QED  BY <1>1, <1>3, <1>4, <1>5 DEF RunExpires, LateAlarm

(* Python code holds its alarm up once it is due, or gets rid of it. *)
LEMMA EvasionShape ==
    ASSUME Typed, Places, HoldAlarm \/ EvadeAlarm
    PROVE  /\ ChildOnly /\ UNCHANGED <<stage, since, attempts, request, ran, ran_ok>>
           /\ lang = "python" /\ itimer' \in {"held", "off"}
           /\ itimer' = "held" => clock >= timeout
<1>1. HoldAlarm => clock >= timeout
  <2>1. HoldAlarm => lang = "python" /\ Branch.alarm # NoLimit /\ clock >= since + Branch.alarm
    BY DEF HoldAlarm, AlarmDue, Expired
  <2>2. lang = "python" => Branch.alarm \in {NoLimit, timeout}
    BY BranchFacts DEF Languages
  <2>3. timeout \in Nat /\ clock \in Nat /\ since \in Nat
    BY DEF Typed
  <2>. QED  BY <2>1, <2>2, <2>3
<1>. QED  BY <1>1 DEF HoldAlarm, EvadeAlarm

(* A second makes nothing less late, and a killed child is late. *)
LEMMA LateStays ==
    ASSUME Typed, Tick
    PROVE  Late => Late'
BY DEF Typed, Tick, Late

LEMMA KilledIsLate ==
    ASSUME Typed, JoinReturns, stage \notin Ended
    PROVE  clock >= timeout /\ stage' = "killed"
BY DEF Typed, JoinReturns

(* What is read is on the list. *)
LEMMA ReadsFirst ==
    ASSUME Typed, Places, ReadResult
    PROVE  answer_result' = result[1] /\ 1 \in DOMAIN result
<1>1. result \in Seq(Verdicts) /\ result # <<>>
  BY DEF Typed, Places, ReadResult
<1>. QED  BY <1>1 DEF ReadResult

(* One more attempt ends a limit later. *)
LEMMA AnotherAttempt ==
    ASSUME NEW a \in Nat, NEW c \in Nat, NEW s \in Nat, s >= (a - 1) * c
    PROVE  s + c >= (a + 1 - 1) * c
<1>1. (a + 1 - 1) * c = (a - 1) * c + c
  OBVIOUS
<1>. QED  BY <1>1

LEMMA InitIInv == Init => IInv
<1> SUFFICES ASSUME Init PROVE IInv
  OBVIOUS
<1>1. Typed
  <2>1. /\ lang \in Languages /\ timeout \in Nat /\ timeout > 0
        /\ CompileLimit \in Nat /\ CompileLimit > 0
    BY LangsAssumption, LimitsAssumption DEF Init
  <2>2. result \in Seq(Verdicts)
    BY DEF Init
  <2>3. /\ clock \in Nat /\ clock <= timeout + 1 /\ since \in Nat /\ since <= clock
        /\ attempts \in Nat /\ attempts <= 5
    BY <2>1 DEF Init
  <2>4. /\ lang \in Langs /\ timeout \in Timeouts
        /\ parent \in Parents /\ stage \in Stages \union Ended
        /\ itimer = "set" /\ ran \in BOOLEAN /\ ran_ok \in BOOLEAN
        /\ request = NoRequest /\ answer_result = "none" /\ answer_passed \in BOOLEAN
        /\ killed_in = "none"
    BY DEF Init
  <2>. QED  BY <2>1, <2>2, <2>3, <2>4 DEF Typed
<1>2. Places /\ ReadsHead /\ EarnedWhereverFound
  BY Requests DEF Init, Places, ReadsHead, EarnedWhereverFound
<1>3. LateWhereverFound
  BY Requests DEF Init, LateWhereverFound
<1>4. AlarmInTime /\ AttemptsTakeTime
  BY <1>1 DEF Init, Typed, AlarmInTime, AttemptsTakeTime
<1>. QED  BY <1>1, <1>2, <1>3, <1>4 DEF IInv


(* Every step keeps the types. *)
LEMMA TypeKept ==
    ASSUME Typed, Places, [Next]_vars
    PROVE  Typed'
<1> USE DEF Typed, Places
<1>1. CASE Tick
  BY <1>1 DEF Tick, answers
<1>2. CASE Setup
  BY <1>2, Requests DEF Setup, ChildOnly, answers, Enter, Compiling, Running
<1>3. CASE CompileOk
  BY <1>3 DEF CompileOk, ChildOnly, answers, Enter, Compiling, Running
<1>4. CASE CompileFails
  BY <1>4, PostShape, Requests DEF CompileFails, ChildOnly, answers, Enter, Compiling, Running
<1>5. CASE CompileExpires
  <2>1. CASE stage' = "crashed" /\ UNCHANGED <<since, attempts, request>>
    BY <1>5, <2>1, CompileExpiresShape DEF ChildOnly, answers
  <2>2. CASE /\ lang = "java" /\ attempts < 5 /\ clock >= since + CompileLimit
             /\ attempts' = attempts + 1 /\ since' = clock
             /\ UNCHANGED <<stage, request>>
    BY <1>5, <2>2, CompileExpiresShape DEF ChildOnly, answers
  <2>3. CASE Post("failed") /\ UNCHANGED attempts
    BY <1>5, <2>3, CompileExpiresShape, PostShape, Requests DEF ChildOnly, answers
  <2>. QED  BY <1>5, <2>1, <2>2, <2>3, CompileExpiresShape
<1>6. ASSUME NEW o \in Outcomes, RunEnds(o)
      PROVE  Typed'
  BY <1>6, PostShape, Requests DEF RunEnds, ChildOnly, answers, Enter, Compiling, Running
<1>7. CASE RunExpires \/ LateAlarm
  BY <1>7, RunExpiresShape, PostShape, Requests, BranchFacts DEF ChildOnly, answers, Enter, Compiling, Running
<1>8. CASE HoldAlarm \/ EvadeAlarm
  BY <1>8, EvasionShape DEF ChildOnly, answers
<1>9. CASE Dies
  BY <1>9 DEF Dies, ChildOnly, answers, Compiling, Running
<1>10. CASE Review
  BY <1>10, Requests DEF Review, ChildOnly, answers, Enter, Compiling, Running
<1>11. CASE Cleanup
  BY <1>11, Requests DEF Cleanup, ChildOnly, answers, Compiling, Running
<1>12. CASE Serve
  BY <1>12, Served DEF Serve, ManagerOnly, answers
<1>13. CASE LoseRequest
  BY <1>13, Requests DEF LoseRequest, ManagerOnly, answers
<1>14. CASE JoinReturns
  BY <1>14 DEF JoinReturns, ParentOnly, answers
<1>15. CASE CheckResult
  BY <1>15 DEF CheckResult, ParentOnly, answers
<1>16. CASE AppendTimedOut
  <2>1. /\ result' \in Seq(Verdicts) /\ parent' = "read_result" /\ ParentOnly
        /\ UNCHANGED <<stage, killed_in, answer_result, answer_passed>>
    BY <1>16, CallerAppends DEF AppendTimedOut, answers
  <2>. QED  BY <2>1 DEF ParentOnly
<1>17. CASE ReadResult
  BY <1>17 DEF ReadResult, ParentOnly, answers
<1>18. CASE ReadPassed
  BY <1>18 DEF ReadPassed, ParentOnly, answers
<1>19. CASE Returned \/ UNCHANGED vars
  BY <1>19 DEF Returned, vars, answers
<1>. QED
  BY <1>1, <1>2, <1>3, <1>4, <1>5, <1>6, <1>7, <1>8, <1>9, <1>10,
     <1>11, <1>12, <1>13, <1>14, <1>15, <1>16, <1>17, <1>18, <1>19
     DEF Next, Child, Timer, Caller

(* ... and the order of the stages. *)
LEMMA PlacesKept ==
    ASSUME Typed, Places, [Next]_vars
    PROVE  Places'
<1> USE DEF Typed, Places
<1>1. CASE Tick
  BY <1>1 DEF Tick, answers
<1>2. CASE Setup
  BY <1>2, Requests DEF Setup, ChildOnly, answers, Enter, Compiling, Running
<1>3. CASE CompileOk
  BY <1>3 DEF CompileOk, ChildOnly, answers, Enter, Compiling, Running
<1>4. CASE CompileFails
  BY <1>4, PostShape, Requests DEF CompileFails, ChildOnly, answers, Enter, Compiling, Running
<1>5. CASE CompileExpires
  BY <1>5, CompileExpiresShape, PostShape, Requests DEF ChildOnly, answers, Enter, Compiling, Running
<1>6. ASSUME NEW o \in Outcomes, RunEnds(o)
      PROVE  Places'
  BY <1>6, PostShape, Requests DEF RunEnds, ChildOnly, answers, Enter, Compiling, Running
<1>7. CASE RunExpires \/ LateAlarm
  BY <1>7, RunExpiresShape, PostShape, Requests DEF ChildOnly, answers, Enter, Compiling, Running
<1>8. CASE HoldAlarm \/ EvadeAlarm
  BY <1>8, EvasionShape DEF ChildOnly, answers
<1>9. CASE Dies
  BY <1>9 DEF Dies, ChildOnly, answers, Compiling, Running
<1>10. CASE Review
  BY <1>10, Requests DEF Review, ChildOnly, answers, Enter, Compiling, Running
<1>11. CASE Cleanup
  BY <1>11, Requests DEF Cleanup, ChildOnly, answers, Compiling, Running
<1>12. CASE Serve
  BY <1>12, Served DEF Serve, ManagerOnly, answers
<1>13. CASE LoseRequest
  BY <1>13, Requests DEF LoseRequest, ManagerOnly, answers
<1>14. CASE JoinReturns
  BY <1>14 DEF JoinReturns, ParentOnly, answers
<1>15. CASE CheckResult
  BY <1>15 DEF CheckResult, ParentOnly, answers
<1>16. CASE AppendTimedOut
  BY <1>16, CallerAppends DEF AppendTimedOut, ParentOnly, answers
<1>17. CASE ReadResult
  BY <1>17 DEF ReadResult, ParentOnly, answers
<1>18. CASE ReadPassed
  BY <1>18 DEF ReadPassed, ParentOnly, answers
<1>19. CASE Returned \/ UNCHANGED vars
  BY <1>19 DEF Returned, vars, answers
<1>. QED
  BY <1>1, <1>2, <1>3, <1>4, <1>5, <1>6, <1>7, <1>8, <1>9, <1>10,
     <1>11, <1>12, <1>13, <1>14, <1>15, <1>16, <1>17, <1>18, <1>19
     DEF Next, Child, Timer, Caller

(* ... and what was read. *)
LEMMA ReadsKept ==
    ASSUME Typed, Places, ReadsHead, [Next]_vars
    PROVE  ReadsHead'
<1> USE DEF Typed, Places, ReadsHead
<1>1. CASE Tick
  BY <1>1 DEF Tick, answers
<1>2. CASE Setup
  BY <1>2, Requests DEF Setup, ChildOnly, answers, Enter, Compiling, Running
<1>3. CASE CompileOk
  BY <1>3 DEF CompileOk, ChildOnly, answers, Enter, Compiling, Running
<1>4. CASE CompileFails
  BY <1>4, PostShape, Requests DEF CompileFails, ChildOnly, answers, Enter, Compiling, Running
<1>5. CASE CompileExpires
  BY <1>5, CompileExpiresShape, PostShape, Requests DEF ChildOnly, answers, Enter, Compiling, Running
<1>6. ASSUME NEW o \in Outcomes, RunEnds(o)
      PROVE  ReadsHead'
  BY <1>6, PostShape, Requests DEF RunEnds, ChildOnly, answers, Enter, Compiling, Running
<1>7. CASE RunExpires \/ LateAlarm
  BY <1>7, RunExpiresShape, PostShape, Requests DEF ChildOnly, answers, Enter, Compiling, Running
<1>8. CASE HoldAlarm \/ EvadeAlarm
  BY <1>8, EvasionShape DEF ChildOnly, answers
<1>9. CASE Dies
  BY <1>9 DEF Dies, ChildOnly, answers, Compiling, Running
<1>10. CASE Review
  BY <1>10, Requests DEF Review, ChildOnly, answers, Enter, Compiling, Running
<1>11. CASE Cleanup
  BY <1>11, Requests DEF Cleanup, ChildOnly, answers, Compiling, Running
<1>12. CASE Serve
  BY <1>12, Served DEF Serve, ManagerOnly, answers
<1>13. CASE LoseRequest
  BY <1>13, Requests DEF LoseRequest, ManagerOnly, answers
<1>14. CASE JoinReturns
  BY <1>14 DEF JoinReturns, ParentOnly, answers
<1>15. CASE CheckResult
  BY <1>15 DEF CheckResult, ParentOnly, answers
<1>16. CASE AppendTimedOut
  BY <1>16, CallerAppends DEF AppendTimedOut, ParentOnly, answers
<1>17. CASE ReadResult
  BY <1>17 DEF ReadResult, ParentOnly, answers
<1>18. CASE ReadPassed
  BY <1>18 DEF ReadPassed, ParentOnly, answers
<1>19. CASE Returned \/ UNCHANGED vars
  BY <1>19 DEF Returned, vars, answers
<1>. QED
  BY <1>1, <1>2, <1>3, <1>4, <1>5, <1>6, <1>7, <1>8, <1>9, <1>10,
     <1>11, <1>12, <1>13, <1>14, <1>15, <1>16, <1>17, <1>18, <1>19
     DEF Next, Child, Timer, Caller

(* ... and what a "passed" took. *)
LEMMA EarnedKept ==
    ASSUME Typed, Places, EarnedWhereverFound, [Next]_vars
    PROVE  EarnedWhereverFound'
<1> USE DEF Typed, Places, EarnedWhereverFound, Earned
<1>1. CASE Tick
  BY <1>1 DEF Tick, answers
<1>2. CASE Setup
  BY <1>2, Requests DEF Setup, ChildOnly, answers, Enter, Compiling, Running
<1>3. CASE CompileOk
  BY <1>3 DEF CompileOk, ChildOnly, answers, Enter, Compiling, Running
<1>4. CASE CompileFails
  BY <1>4, PostShape, Requests DEF CompileFails, ChildOnly, answers, Enter, Compiling, Running
<1>5. CASE CompileExpires
  <2>1. UNCHANGED <<lang, result, answer_passed, ran, ran_ok>>
    BY <1>5, CompileExpiresShape DEF ChildOnly, answers
  <2>2. request' = request \/ request'.verdict = "failed"
    BY <1>5, CompileExpiresShape, PostShape
  <2>. QED  BY <2>1, <2>2
<1>6. ASSUME NEW o \in Outcomes, RunEnds(o)
      PROVE  EarnedWhereverFound'
  BY <1>6, PostShape, Requests, BranchFacts DEF RunEnds, ChildOnly, answers, Enter, Compiling, Running
<1>7. CASE RunExpires \/ LateAlarm
  <2>1. UNCHANGED <<lang, result, answer_passed, ran, ran_ok>>
    BY <1>7, RunExpiresShape DEF ChildOnly, answers
  <2>2. request' = request \/ request'.verdict \in {"failed", "timed out", "time out"}
    BY <1>7, RunExpiresShape, PostShape
  <2>. QED  BY <2>1, <2>2
<1>8. CASE HoldAlarm \/ EvadeAlarm
  BY <1>8, EvasionShape DEF ChildOnly, answers
<1>9. CASE Dies
  BY <1>9 DEF Dies, ChildOnly, answers, Compiling, Running
<1>10. CASE Review
  BY <1>10, Requests DEF Review, ChildOnly, answers, Enter, Compiling, Running
<1>11. CASE Cleanup
  BY <1>11, Requests DEF Cleanup, ChildOnly, answers, Compiling, Running
<1>12. CASE Serve
  BY <1>12, Served DEF Serve, ManagerOnly, answers
<1>13. CASE LoseRequest
  BY <1>13, Requests DEF LoseRequest, ManagerOnly, answers
<1>14. CASE JoinReturns
  BY <1>14 DEF JoinReturns, ParentOnly, answers
<1>15. CASE CheckResult
  BY <1>15 DEF CheckResult, ParentOnly, answers
<1>16. CASE AppendTimedOut
  BY <1>16, CallerAppends DEF AppendTimedOut, ParentOnly, answers
<1>17. CASE ReadResult
  BY <1>17 DEF ReadResult, ParentOnly, answers
<1>18. CASE ReadPassed
  BY <1>18 DEF ReadPassed, ParentOnly, answers
<1>19. CASE Returned \/ UNCHANGED vars
  BY <1>19 DEF Returned, vars, answers
<1>. QED
  BY <1>1, <1>2, <1>3, <1>4, <1>5, <1>6, <1>7, <1>8, <1>9, <1>10,
     <1>11, <1>12, <1>13, <1>14, <1>15, <1>16, <1>17, <1>18, <1>19
     DEF Next, Child, Timer, Caller

(* ... and what a "timed out" took. *)
LEMMA LateKept ==
    ASSUME Typed, Places, LateWhereverFound, [Next]_vars
    PROVE  LateWhereverFound'
<1> USE DEF Typed, Places, LateWhereverFound, Late
<1>1. CASE Tick
  <2>1. Late => Late'
    BY <1>1, LateStays
  <2>2. UNCHANGED <<parent, stage, request, result, answer_result>>
    BY <1>1 DEF Tick, answers
  <2>. QED  BY <2>1, <2>2
<1>2. CASE Setup
  BY <1>2, Requests DEF Setup, ChildOnly, answers, Enter, Compiling, Running
<1>3. CASE CompileOk
  BY <1>3 DEF CompileOk, ChildOnly, answers, Enter, Compiling, Running
<1>4. CASE CompileFails
  BY <1>4, PostShape, Requests DEF CompileFails, ChildOnly, answers, Enter, Compiling, Running
<1>5. CASE CompileExpires
  <2>1. CASE stage' = "crashed" /\ UNCHANGED <<since, attempts, request>>
    BY <1>5, <2>1, CompileExpiresShape DEF ChildOnly, answers
  <2>2. CASE /\ lang = "java" /\ attempts < 5 /\ clock >= since + CompileLimit
             /\ attempts' = attempts + 1 /\ since' = clock
             /\ UNCHANGED <<stage, request>>
    BY <1>5, <2>2, CompileExpiresShape DEF ChildOnly, answers
  <2>3. CASE Post("failed") /\ UNCHANGED attempts
    BY <1>5, <2>3, CompileExpiresShape, PostShape, Requests DEF ChildOnly, answers
  <2>. QED  BY <1>5, <2>1, <2>2, <2>3, CompileExpiresShape
<1>6. ASSUME NEW o \in Outcomes, RunEnds(o)
      PROVE  LateWhereverFound'
  BY <1>6, PostShape, Requests DEF RunEnds, ChildOnly, answers, Enter, Compiling, Running
<1>7. CASE RunExpires \/ LateAlarm
  <2>1. CASE clock >= timeout /\ Post("timed out")
    BY <1>7, <2>1, RunExpiresShape, PostShape, Requests DEF ChildOnly, answers
  <2>2. CASE Post("failed") \/ Post("time out")
    BY <1>7, <2>2, RunExpiresShape, PostShape, Requests DEF ChildOnly, answers
  <2>3. CASE stage' = "crashed" /\ UNCHANGED <<since, request>>
    BY <1>7, <2>3, RunExpiresShape DEF ChildOnly, answers
  <2>. QED  BY <1>7, <2>1, <2>2, <2>3, RunExpiresShape
<1>8. CASE HoldAlarm \/ EvadeAlarm
  BY <1>8, EvasionShape DEF ChildOnly, answers
<1>9. CASE Dies
  BY <1>9 DEF Dies, ChildOnly, answers, Compiling, Running
<1>10. CASE Review
  BY <1>10, Requests DEF Review, ChildOnly, answers, Enter, Compiling, Running
<1>11. CASE Cleanup
  BY <1>11, Requests DEF Cleanup, ChildOnly, answers, Compiling, Running
<1>12. CASE Serve
  BY <1>12, Served DEF Serve, ManagerOnly, answers
<1>13. CASE LoseRequest
  BY <1>13, Requests DEF LoseRequest, ManagerOnly, answers
<1>14. CASE JoinReturns
  <2>1. UNCHANGED <<lang, timeout, clock, request, result, answer_result>> /\ parent' = "check"
    BY <1>14 DEF JoinReturns, ParentOnly, answers
  <2>2. CASE stage \in Ended
    BY <1>14, <2>1, <2>2 DEF JoinReturns, Late
  <2>3. CASE stage \notin Ended
    <3>1. clock' >= timeout' /\ stage' = "killed"
      BY <1>14, <2>1, <2>3, KilledIsLate
    <3>. QED  BY <2>1, <3>1 DEF Late
  <2>. QED  BY <2>2, <2>3
<1>15. CASE CheckResult
  BY <1>15 DEF CheckResult, ParentOnly, answers
<1>16. CASE AppendTimedOut
  BY <1>16, CallerAppends DEF AppendTimedOut, ParentOnly, answers
<1>17. CASE ReadResult
  <2>1. answer_result' = result[1] /\ 1 \in DOMAIN result
    BY <1>17, ReadsFirst
  <2>2. Late' <=> Late
    BY <1>17 DEF ReadResult, ParentOnly, Late
  <2>3. UNCHANGED <<request, result, stage>> /\ parent' = "read_passed"
    BY <1>17 DEF ReadResult, ParentOnly
  <2>. QED  BY <2>1, <2>2, <2>3
<1>18. CASE ReadPassed
  BY <1>18 DEF ReadPassed, ParentOnly, answers
<1>19. CASE Returned \/ UNCHANGED vars
  BY <1>19 DEF Returned, vars, answers
<1>. QED
  BY <1>1, <1>2, <1>3, <1>4, <1>5, <1>6, <1>7, <1>8, <1>9, <1>10,
     <1>11, <1>12, <1>13, <1>14, <1>15, <1>16, <1>17, <1>18, <1>19
     DEF Next, Child, Timer, Caller

(* ... and that timers fire. *)
LEMMA AlarmKept ==
    ASSUME Typed, Places, AlarmInTime, [Next]_vars
    PROVE  AlarmInTime'
<1> USE DEF Typed, Places, AlarmInTime, Interpreted
<1>1. CASE Tick
  <2>1. ASSUME lang \in Interpreted, stage = "run", itimer = "set"
        PROVE  clock < since + timeout
    <3>1. Branch.alarm = timeout
      BY <2>1, BranchFacts
    <3>2. ~Expired(timeout)
      BY <1>1, <2>1, <3>1 DEF Tick, Due, AlarmDue, Running
    <3>. QED  BY <3>2 DEF Expired, NoLimit
  <2>2. clock' = clock + 1 /\ UNCHANGED <<lang, timeout, stage, since, itimer, killed_in>>
    BY <1>1 DEF Tick
  <2>. QED  BY <2>1, <2>2
<1>2. CASE Setup
  BY <1>2, Requests DEF Setup, ChildOnly, answers, Enter, Compiling, Running
<1>3. CASE CompileOk
  BY <1>3 DEF CompileOk, ChildOnly, answers, Enter, Compiling, Running
<1>4. CASE CompileFails
  BY <1>4, PostShape, Requests DEF CompileFails, ChildOnly, answers, Enter, Compiling, Running
<1>5. CASE CompileExpires
  BY <1>5, CompileExpiresShape, PostShape, Requests DEF ChildOnly, answers, Enter, Compiling, Running
<1>6. ASSUME NEW o \in Outcomes, RunEnds(o)
      PROVE  AlarmInTime'
  BY <1>6, PostShape, Requests DEF RunEnds, ChildOnly, answers, Enter, Compiling, Running
<1>7. CASE RunExpires \/ LateAlarm
  BY <1>7, RunExpiresShape, PostShape, Requests DEF ChildOnly, answers, Enter, Compiling, Running
<1>8. CASE HoldAlarm \/ EvadeAlarm
  BY <1>8, EvasionShape DEF ChildOnly, answers
<1>9. CASE Dies
  BY <1>9 DEF Dies, ChildOnly, answers, Compiling, Running
<1>10. CASE Review
  BY <1>10, Requests DEF Review, ChildOnly, answers, Enter, Compiling, Running
<1>11. CASE Cleanup
  BY <1>11, Requests DEF Cleanup, ChildOnly, answers, Compiling, Running
<1>12. CASE Serve
  BY <1>12, Served DEF Serve, ManagerOnly, answers
<1>13. CASE LoseRequest
  BY <1>13, Requests DEF LoseRequest, ManagerOnly, answers
<1>14. CASE JoinReturns
  BY <1>14 DEF JoinReturns, ParentOnly, answers
<1>15. CASE CheckResult
  BY <1>15 DEF CheckResult, ParentOnly, answers
<1>16. CASE AppendTimedOut
  BY <1>16, CallerAppends DEF AppendTimedOut, ParentOnly, answers
<1>17. CASE ReadResult
  BY <1>17 DEF ReadResult, ParentOnly, answers
<1>18. CASE ReadPassed
  BY <1>18 DEF ReadPassed, ParentOnly, answers
<1>19. CASE Returned \/ UNCHANGED vars
  BY <1>19 DEF Returned, vars, answers
<1>. QED
  BY <1>1, <1>2, <1>3, <1>4, <1>5, <1>6, <1>7, <1>8, <1>9, <1>10,
     <1>11, <1>12, <1>13, <1>14, <1>15, <1>16, <1>17, <1>18, <1>19
     DEF Next, Child, Timer, Caller

(* ... and the time that attempts take. *)
LEMMA AttemptsKept ==
    ASSUME Typed, Places, AttemptsTakeTime, [Next]_vars
    PROVE  AttemptsTakeTime'
<1> USE DEF Typed, Places, AttemptsTakeTime
<1>1. CASE Tick
  BY <1>1 DEF Tick, answers
<1>2. CASE Setup
  BY <1>2, Requests DEF Setup, ChildOnly, answers, Enter, Compiling, Running
<1>3. CASE CompileOk
  BY <1>3 DEF CompileOk, ChildOnly, answers, Enter, Compiling, Running
<1>4. CASE CompileFails
  BY <1>4, PostShape, Requests DEF CompileFails, ChildOnly, answers, Enter, Compiling, Running
<1>5. CASE CompileExpires
  <2>1. CASE stage' = "crashed" /\ UNCHANGED <<since, attempts, request>>
    BY <1>5, <2>1, CompileExpiresShape DEF ChildOnly, answers
  <2>2. CASE /\ lang = "java" /\ attempts < 5 /\ clock >= since + CompileLimit
             /\ attempts' = attempts + 1 /\ since' = clock
             /\ UNCHANGED <<stage, request>>
    <3>1. since >= (attempts - 1) * CompileLimit => since + CompileLimit >= (attempts + 1 - 1) * CompileLimit
      BY AnotherAttempt
    <3>2. stage = "compile" /\ attempts # 0
      BY <1>5, <2>2, CompileExpiresShape
    <3>. QED  BY <1>5, <2>2, <3>1, <3>2, CompileExpiresShape DEF ChildOnly, answers
  <2>3. CASE Post("failed") /\ UNCHANGED attempts
    BY <1>5, <2>3, CompileExpiresShape, PostShape, Requests DEF ChildOnly, answers
  <2>. QED  BY <1>5, <2>1, <2>2, <2>3, CompileExpiresShape
<1>6. ASSUME NEW o \in Outcomes, RunEnds(o)
      PROVE  AttemptsTakeTime'
  BY <1>6, PostShape, Requests DEF RunEnds, ChildOnly, answers, Enter, Compiling, Running
<1>7. CASE RunExpires \/ LateAlarm
  BY <1>7, RunExpiresShape, PostShape, Requests DEF ChildOnly, answers, Enter, Compiling, Running
<1>8. CASE HoldAlarm \/ EvadeAlarm
  BY <1>8, EvasionShape DEF ChildOnly, answers
<1>9. CASE Dies
  BY <1>9 DEF Dies, ChildOnly, answers, Compiling, Running
<1>10. CASE Review
  BY <1>10, Requests DEF Review, ChildOnly, answers, Enter, Compiling, Running
<1>11. CASE Cleanup
  BY <1>11, Requests DEF Cleanup, ChildOnly, answers, Compiling, Running
<1>12. CASE Serve
  BY <1>12, Served DEF Serve, ManagerOnly, answers
<1>13. CASE LoseRequest
  BY <1>13, Requests DEF LoseRequest, ManagerOnly, answers
<1>14. CASE JoinReturns
  BY <1>14 DEF JoinReturns, ParentOnly, answers
<1>15. CASE CheckResult
  BY <1>15 DEF CheckResult, ParentOnly, answers
<1>16. CASE AppendTimedOut
  BY <1>16, CallerAppends DEF AppendTimedOut, ParentOnly, answers
<1>17. CASE ReadResult
  BY <1>17 DEF ReadResult, ParentOnly, answers
<1>18. CASE ReadPassed
  BY <1>18 DEF ReadPassed, ParentOnly, answers
<1>19. CASE Returned \/ UNCHANGED vars
  BY <1>19 DEF Returned, vars, answers
<1>. QED
  BY <1>1, <1>2, <1>3, <1>4, <1>5, <1>6, <1>7, <1>8, <1>9, <1>10,
     <1>11, <1>12, <1>13, <1>14, <1>15, <1>16, <1>17, <1>18, <1>19
     DEF Next, Child, Timer, Caller

LEMMA NextIInv == IInv /\ [Next]_vars => IInv'
BY TypeKept, PlacesKept, ReadsKept, EarnedKept, LateKept, AlarmKept, AttemptsKept DEF IInv

LEMMA Invariance == Spec => []IInv
BY InitIInv, NextIInv, PTL DEF Spec

-----------------------------------------------------------------------------
(* The properties *)

(* Every variable keeps the values the code can give it. *)
THEOREM TypeCorrect == Spec => []TypeOK
<1>1. IInv => TypeOK
  BY TypedIsTypeOK DEF IInv
<1>. QED  BY <1>1, Invariance, PTL

(* The two reads of the returned dict agree, whatever is served in between. *)
THEOREM TwoReadsAgree == Spec => []ReadsAgree
<1>1. IInv => ReadsAgree
  BY DEF IInv, ReadsHead, ReadsAgree
<1>. QED  BY <1>1, Invariance, PTL

(* "passed" follows from a run that ended by itself, successfully where that is asked. *)
THEOREM VerdictIsEarned == Spec => []PassedIsEarned
<1>1. IInv => PassedIsEarned
  BY DEF IInv, EarnedWhereverFound, Earned, PassedIsEarned
<1>. QED  BY <1>1, Invariance, PTL

(* The second between the two timeouts is enough for any timeout, but for a child that
   was slow to start and for python code that kept its alarm from acting. *)
THEOREM OneSecondSuffices == Spec => []SlackSuffices
<1>1. ASSUME IInv, killed_in = "run", ~Branch.compiles
      PROVE  since > 0 \/ (lang = "python" /\ itimer # "set")
  <2>1. lang \in Languages \ {"other"}
    BY <1>1 DEF IInv, Typed, Places
  <2>2. lang \in Interpreted
    BY <1>1, <2>1, BranchFacts
  <2>. QED  BY <1>1, <2>2 DEF IInv, Typed, AlarmInTime
<1>2. IInv => SlackSuffices
  BY <1>1 DEF SlackSuffices
<1>. QED  BY <1>2, Invariance, PTL

(* "timed out" is said of late calls, of dead children and of unknown languages only. *)
THEOREM TimeoutsAreLate == Spec => []TimedOutIsLate
<1>1. IInv => TimedOutIsLate
  BY DEF IInv, LateWhereverFound, Late, TimedOutIsLate
<1>. QED  BY <1>1, Invariance, PTL

(* Every attempt of javac before the last took its whole limit, within the deadline. *)
THEOREM AttemptsAreSpaced == Spec => []RetriesAreSpaced
<1>1. IInv => RetriesAreSpaced
  <2> SUFFICES ASSUME IInv, attempts > 1
               PROVE  /\ clock >= (attempts - 1) * CompileLimit
                      /\ (attempts - 1) * CompileLimit <= timeout + 1
    BY DEF RetriesAreSpaced
  <2>1. /\ attempts \in Nat /\ CompileLimit \in Nat /\ clock \in Nat /\ timeout \in Nat
        /\ clock <= timeout + 1
    BY DEF IInv, Typed
  <2>2. clock >= (attempts - 1) * CompileLimit
    BY <2>1 DEF IInv, AttemptsTakeTime
  <2>. QED  BY <2>1, <2>2
<1>. QED  BY <1>1, Invariance, PTL

(* No later answer of the manager, nor the caller's entry, replaces the first verdict. *)
THEOREM FirstVerdictStays == Spec => FirstVerdictFinal
<1>1. IInv /\ [Next]_vars => [result # <<>> /\ lang # "ts" => result'[1] = result[1]]_vars
  <2> SUFFICES ASSUME Typed, Places, Next, result # <<>>, lang # "ts"
               PROVE  result'[1] = result[1]
    BY DEF IInv
  <2>1. CASE Serve
    BY <2>1, Served
  <2>2. CASE AppendTimedOut
    BY <2>2, CallerAppends
  <2>3. CASE ~(Serve \/ AppendTimedOut)
    <3>1. UNCHANGED result
      BY <2>3 DEF Next, Tick, Child, Setup, CompileOk, CompileFails, RunEnds, HoldAlarm, LateAlarm,
                  EvadeAlarm, Dies,
                  Review, Cleanup, Timer, CompileExpires, RunExpires, ChildOnly, LoseRequest,
                  Caller, JoinReturns, CheckResult, ReadResult, ReadPassed, Returned, vars
    <3>. QED  BY <3>1
  <2>. QED  BY <2>1, <2>2, <2>3
<1>. QED  BY <1>1, Invariance, PTL DEF Spec, FirstVerdictFinal
=============================================================================
