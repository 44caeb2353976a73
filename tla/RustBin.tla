------------------------------ MODULE RustBin ------------------------------
(***************************************************************************)
(* The rust branch of unsafe_execute in human_eval/execution.py.  Every    *)
(* call for one task renames its source to the same src/bin/<task>.rs and  *)
(* logs to the same file; cargo compiles, twice, whatever file has that    *)
(* name at the time.  The file is renamed before its content is written.   *)
(*                                                                         *)
(* Each call's temporary file stands for itself: target = c says that      *)
(* <task>.rs is the file of call c.  Cargo is external, and modelled as    *)
(* building the file with that name in one step.                           *)
(***************************************************************************)
EXTENDS ExecCalls

VARIABLES
    target,     \* whose file <task>.rs is
    written,    \* calls whose source has left the buffer
    log,        \* <task>.jsonl exists
    removed     \* history: calls that removed the log

rustvars == <<target, written, log, removed>>

\* The log may be one of an earlier evaluation; it matters to the rust branch only.
RustInit ==
    /\ target = Nobody /\ written = {}
    /\ log \in BOOLEAN /\ (log => lang = "rust")
    /\ removed = {}

RustGoto(c, step) == Goto(c, step) /\ UNCHANGED verdict
RustJudge(c, v)   == Post(c, v) /\ Goto(c, "done")

\* os.rename(f.name, ...), with f still open and empty.
Rename(c) ==
    /\ pc[c] = "start"
    /\ target' = c
    /\ RustGoto(c, "write")
    /\ UNCHANGED <<written, log, removed>>

\* Defect: the file is not closed before cargo runs.
WriteBuffered(c) ==
    /\ pc[c] = "write"
    /\ RustGoto(c, "exists")
    /\ UNCHANGED <<target, written, log, removed>>

\* f.write(...), flushed when the with block closes f.
WriteRust(c) ==
    /\ pc[c] = "write"
    /\ written' = written \union {c}
    /\ RustGoto(c, "exists")
    /\ UNCHANGED <<target, log, removed>>

\* if os.path.exists(log_path)
LogExists(c) ==
    /\ pc[c] = "exists"
    /\ RustGoto(c, IF log THEN "getsize" ELSE "check")
    /\ UNCHANGED <<target, written, log, removed>>

\* os.path.getsize raises FileNotFoundError if the log is gone.
LogSize(c) ==
    /\ pc[c] = "getsize"
    /\ RustGoto(c, IF log THEN "remove" ELSE "crashed")
    /\ UNCHANGED <<target, written, log, removed>>

\* So does os.remove.
LogRemove(c) ==
    /\ pc[c] = "remove"
    /\ RustGoto(c, IF log THEN "check" ELSE "crashed")
    /\ removed' = IF log THEN removed \union {c} ELSE removed
    /\ log' = FALSE
    /\ UNCHANGED <<target, written>>

\* An empty file has no main function.
Builds == target \in written \ Broken

\* cargo check --bin <task> >> log
CargoCheck(c) ==
    /\ pc[c] = "check"
    /\ log' = TRUE
    /\ IF Builds
       THEN RustGoto(c, "test")
       ELSE RustJudge(c, "failed")
    /\ UNCHANGED <<target, written, removed>>

\* cargo test --bin <task> >> log compiles once more, and runs.
CargoTest(c) ==
    /\ pc[c] = "test"
    /\ log' = TRUE
    /\ RustJudge(c, IF Builds /\ target \in Good THEN "passed"
                ELSE "failed")
    /\ UNCHANGED <<target, written, removed>>

RustStep(c) ==
    /\ \/ Rename(c) \/ WriteRust(c)
       \/ LogExists(c) \/ LogSize(c) \/ LogRemove(c)
       \/ CargoCheck(c) \/ CargoTest(c)
    /\ UNCHANGED lang

-----------------------------------------------------------------------------
(* Properties *)

\* The call that was the last to rename its source, so that <task>.rs is still
\* its file when it has its verdict, got the verdict of its own completion.
LastIsRight ==
    \A c \in Calls : target = c /\ verdict[c] # "none" => verdict[c] = Truth(c)

\* A rust call dies over the log only if another call removed it under its hands.
CrashNeedsRemoval ==
    lang = "rust" => \A c \in Calls : pc[c] = "crashed" => \E o \in removed : o # c
=============================================================================
