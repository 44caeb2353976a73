------------------------------ MODULE WorkDir ------------------------------
(***************************************************************************)
(* The working directories of human_eval/execution.py.  Every branch of    *)
(* unsafe_execute but python and rust draws a random suffix, creates the   *)
(* directory of that name unless it exists, writes the completion there,   *)
(* compiles and runs it and removes the tree.  Nothing reserves a name, so *)
(* two calls may share a directory.  The python branch has a directory     *)
(* from tempfile, for what the completion writes; its code is in memory.   *)
(*                                                                         *)
(* A process stays in the directory it entered even when the name is       *)
(* removed and made again, hence the generation numbers.  rmtree and one   *)
(* compilation are single steps.                                           *)
(***************************************************************************)
EXTENDS ExecCalls

CONSTANTS
    Dirs,       \* names task-1 .. task-100000, or tempfile's
    NoDir

ASSUME DirsAssumption == NoDir \notin Dirs

VARIABLES
    dir,        \* the name each call drew
    cwd,        \* generation of the directory it entered, 0 if none
    exists,     \* generation of the directory with a name, 0 if there is none
    made,       \* directories made so far
    src, bin    \* whose source and whose compiled program a name holds

dirvars == <<dir, cwd, exists, made, src, bin>>

DirsInit ==
    /\ dir = [c \in Calls |-> NoDir]
    /\ cwd = [c \in Calls |-> 0]
    /\ exists = [d \in Dirs |-> 0] /\ made = 0
    /\ src = [d \in Dirs |-> Nobody] /\ bin = [d \in Dirs |-> Nobody]

-----------------------------------------------------------------------------
(* The steps of each branch, and what its run does when the program is gone *)

Python == [steps |-> <<"mkdtemp", "chdir", "run", "cleanup">>, missing |-> {}]

Go  == [steps |-> <<"makedirs", "chdir", "write", "run", "rmtree">>, missing |-> {"failed"}]
Js  == [steps |-> <<"makedirs", "chdir", "write", "run", "rmtree">>, missing |-> {"failed"}]
Php == [steps |-> <<"makedirs", "chdir", "write", "run", "rmtree">>, missing |-> {"failed"}]
Sh  == [steps |-> <<"makedirs", "chdir", "write", "run", "rmtree">>, missing |-> {"failed"}]

\* Without a shell, a missing ./a.out is a FileNotFoundError.
Cpp == [steps |-> <<"makedirs", "chdir", "write", "compile", "run", "rmtree">>,
        missing |-> {"crashed"}]

\* tsc and node, and once more with other options unless that passed.
Ts == [steps |-> <<"makedirs", "chdir", "write", "compile", "run", "recompile", "rerun",
                   "rmtree">>,
       missing |-> {"failed"}]

\* mono says that there is no such file, which is not "Fail".
Cs == [steps |-> <<"makedirs", "chdir", "write", "compile", "run", "rmtree">>,
       missing |-> {"passed", "failed"}]

\* The source is written by its path, before the directory is entered.
Java == [steps |-> <<"makedirs", "write", "chdir", "compile", "run", "rmtree">>,
         missing |-> {"failed"}]

Branch == CASE lang = "python" -> Python [] lang = "go" -> Go [] lang = "js" -> Js
            [] lang = "cpp" -> Cpp [] lang = "php" -> Php [] lang = "sh" -> Sh
            [] lang = "ts" -> Ts [] lang = "cs" -> Cs [] lang = "java" -> Java

Compiles == \E i \in DOMAIN Branch.steps : Branch.steps[i] = "compile"

After(step) ==
    LET i == CHOOSE i \in DOMAIN Branch.steps : Branch.steps[i] = step
    IN  IF i = Len(Branch.steps) THEN "done" ELSE Branch.steps[i + 1]

\* The directory c works in still is the one its name denotes.
InPlace(c) == exists[dir[c]] = cwd[c]

-----------------------------------------------------------------------------
(* The steps *)

\* random_id = random.randint(1, 100000); if not os.path.exists(tmp_dir): ...
DrawName(c) ==
    /\ pc[c] = "start" /\ lang # "python"
    /\ \E d \in Dirs :
         /\ dir' = [dir EXCEPT ![c] = d]
         /\ Goto(c, IF exists[d] = 0 THEN "makedirs" ELSE After("makedirs"))
    /\ UNCHANGED <<cwd, exists, made, src, bin, verdict>>

Make(d) ==
    /\ exists' = [exists EXCEPT ![d] = made + 1]
    /\ made' = made + 1
    /\ src' = [src EXCEPT ![d] = Nobody]
    /\ bin' = [bin EXCEPT ![d] = Nobody]

\* tempfile makes a directory that did not exist, in one step.
MkDTemp(c) ==
    /\ pc[c] = "start" /\ lang = "python"
    /\ \E d \in Dirs : exists[d] = 0 /\ Make(d) /\ dir' = [dir EXCEPT ![c] = d]
    /\ Goto(c, After("mkdtemp"))
    /\ UNCHANGED <<cwd, verdict>>

\* os.makedirs raises FileExistsError if another call has made it meanwhile.
MakeDirs(c) ==
    /\ pc[c] = "makedirs"
    /\ IF exists[dir[c]] = 0
       THEN Make(dir[c]) /\ Goto(c, After("makedirs"))
       ELSE Goto(c, "crashed") /\ UNCHANGED <<exists, made, src, bin>>
    /\ UNCHANGED <<dir, cwd, verdict>>

ChDir(c) ==
    /\ pc[c] = "chdir"
    /\ cwd' = [cwd EXCEPT ![c] = exists[dir[c]]]
    /\ Goto(c, IF exists[dir[c]] = 0 THEN "crashed" ELSE After("chdir"))
    /\ UNCHANGED <<dir, exists, made, src, bin, verdict>>

\* open(..., 'w').write(...) replaces what was there.
Write(c) ==
    /\ pc[c] = "write"
    /\ IF IF lang = "java" THEN exists[dir[c]] # 0 ELSE InPlace(c)
       THEN src' = [src EXCEPT ![dir[c]] = c] /\ Goto(c, After("write"))
       ELSE Goto(c, "crashed") /\ UNCHANGED src
    /\ UNCHANGED <<dir, cwd, exists, made, bin, verdict>>

Compiling(c) == pc[c] \in {"compile", "recompile"}
Running(c)   == pc[c] \in {"run", "rerun"}

\* The way on with a verdict: passed or not, ts has a second try.
Judge(c, v) ==
    /\ Post(c, v)
    /\ Goto(c, CASE lang = "python" -> After("run")
                 [] lang = "ts" /\ v = "failed" /\ pc[c] \in {"compile", "run"} -> "recompile"
                 [] OTHER -> "rmtree")

\* Defect: the program is left in the directory all calls have in common.
CompileAbove(c) ==
    /\ Compiling(c)
    /\ bin' = [d \in Dirs |-> src[dir[c]]]
    /\ Goto(c, After(pc[c])) /\ UNCHANGED verdict
    /\ UNCHANGED <<dir, cwd, exists, made, src>>

\* The compiler reads what has the source's name; without it, it fails.
Compile(c) ==
    /\ Compiling(c)
    /\ IF InPlace(c) /\ src[dir[c]] \notin Broken
       THEN /\ bin' = [bin EXCEPT ![dir[c]] = src[dir[c]]]
            /\ Goto(c, After(pc[c])) /\ UNCHANGED verdict
       ELSE Judge(c, "failed") /\ UNCHANGED bin
    /\ UNCHANGED <<dir, cwd, exists, made, src>>

\* What the run executes: the completion itself, the source or the program.
Program(c) == IF lang = "python" THEN c ELSE IF Compiles THEN bin[dir[c]] ELSE src[dir[c]]

Run(c) ==
    /\ Running(c)
    /\ IF lang = "python" \/ InPlace(c)
       THEN Judge(c, IF Program(c) \in Good THEN "passed" ELSE "failed")
       ELSE \E m \in Branch.missing :
              IF m = "crashed" THEN Goto(c, m) /\ UNCHANGED verdict ELSE Judge(c, m)
    /\ UNCHANGED <<dir, cwd, exists, made, src, bin>>

\* Defect: the directory is left behind.
RmTreeForgotten(c) ==
    /\ pc[c] = "rmtree"
    /\ Goto(c, "done")
    /\ UNCHANGED <<dir, cwd, exists, made, src, bin, verdict>>

\* Defect: the tree above is removed.
RmTreeAbove(c) ==
    /\ pc[c] = "rmtree"
    /\ Goto(c, "done")
    /\ exists' = [d \in Dirs |-> 0]
    /\ UNCHANGED <<dir, cwd, made, src, bin, verdict>>

\* shutil.rmtree(tmp_dir), by name, whoever made the directory of that name.
RmTree(c) ==
    /\ pc[c] = "rmtree"
    /\ Goto(c, IF exists[dir[c]] = 0 THEN "crashed" ELSE "done")
    /\ exists' = [exists EXCEPT ![dir[c]] = 0]
    /\ UNCHANGED <<dir, cwd, made, src, bin, verdict>>

\* python: reliability_guard has set os.unlink to None, which nothing restores, so
\* that a directory in which the completion left a file stays.
Cleanup(c) ==
    /\ pc[c] = "cleanup"
    /\ \/ Goto(c, "done") /\ exists' = [exists EXCEPT ![dir[c]] = 0]
       \/ Goto(c, "crashed") /\ UNCHANGED exists
    /\ UNCHANGED <<dir, cwd, made, src, bin, verdict>>

DirStep(c) ==
    /\ \/ DrawName(c) \/ MkDTemp(c) \/ MakeDirs(c) \/ ChDir(c) \/ Write(c)
       \/ Compile(c) \/ Run(c) \/ RmTree(c) \/ Cleanup(c)
    /\ UNCHANGED lang

-----------------------------------------------------------------------------
(* Properties *)

Alone(c) == \A o \in Calls \ {c} : dir[o] # dir[c]

\* A call that shared its directory's name with no other, and every python call,
\* gets the verdict its completion deserves, and loses nothing to the others.
AloneIsCorrect ==
    lang # "rust" =>
        \A c \in Calls : Alone(c) \/ lang = "python" =>
            /\ verdict[c] \in {"none", Truth(c)}
            /\ pc[c] = "crashed" => lang = "python" /\ verdict[c] # "none"

\* A wrong "passed" can only come from sharing: with a correct completion or, for
\* cs, with a call that removed the program.
DamageConfined ==
    lang # "rust" =>
        \A c \in Calls : verdict[c] = "passed" =>
            \E o \in Calls : /\ dir[o] = dir[c]
                             /\ o \in Good \/ (lang = "cs" /\ o # c)

\* A directory outlives the calls that drew its name only if one of them was
\* killed or died of an exception.
Reclaimed ==
    \A d \in Dirs : exists[d] # 0 => \E c \in Calls : dir[c] = d /\ pc[c] # "done"
=============================================================================
