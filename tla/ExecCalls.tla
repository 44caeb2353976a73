----------------------------- MODULE ExecCalls -----------------------------
(***************************************************************************)
(* Concurrent calls of check_correctness in human_eval/execution.py for    *)
(* completions of one task, each with a child process in unsafe_execute:   *)
(* what WorkDir and RustBin have in common.                                *)
(***************************************************************************)
EXTENDS Naturals, Sequences, FiniteSets

CONSTANTS
    Langs,      \* languages the task may be in
    Calls,      \* concurrent calls of check_correctness for one task
    Good,       \* those whose completion passes the tests
    Broken,     \* those whose completion does not compile
    Nobody

ASSUME LangsAssumption ==
    Langs \subseteq {"python", "go", "js", "cpp", "php", "sh", "ts", "cs", "java", "rust"}
ASSUME CallsAssumption ==
    /\ IsFiniteSet(Calls) /\ Good \subseteq Calls /\ Broken \subseteq Calls
    /\ Good \intersect Broken = {} /\ Nobody \notin Calls

VARIABLES
    lang,       \* language_type of all calls
    pc,         \* the step of unsafe_execute each child is at
    verdict     \* what it has posted

CallsInit ==
    /\ lang \in Langs
    /\ pc = [c \in Calls |-> "start"]
    /\ verdict = [c \in Calls |-> "none"]

Goto(c, step) == pc' = [pc EXCEPT ![c] = step]
Post(c, v)    == verdict' = [verdict EXCEPT ![c] = v]

Ended(c) == pc[c] \in {"done", "crashed", "killed"}

\* The caller's deadline, or an exception that escapes such as TimeoutExpired,
\* can end a child anywhere; nothing is cleaned up then.
Kill(c) ==
    /\ ~Ended(c)
    /\ Goto(c, "killed")
    /\ UNCHANGED <<lang, verdict>>

\* The verdict a completion deserves.
Truth(c) == IF c \in Good THEN "passed" ELSE "failed"

\* "Evaluates the functional correctness of a completion by running the test
\* suite provided in the problem": a completion passes only if it is correct.
OwnVerdict == \A c \in Calls : verdict[c] = "passed" => c \in Good
=============================================================================
