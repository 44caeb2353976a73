------------------------ MODULE UnsafeExecuteProofs ------------------------
(***************************************************************************)
(* Proofs about UnsafeExecute, for any number of concurrent calls and of   *)
(* directory names.                                                        *)
(***************************************************************************)
EXTENDS UnsafeExecute, TLAPS

-----------------------------------------------------------------------------
(* Rust: the last call to rename its source *)

Steps == {"start", "write", "exists", "getsize", "remove", "check", "test",
          "done", "crashed", "killed"}
Verdicts == {"none", "passed", "failed"}

\* A call has no verdict before it has a source, and its source is written before
\* cargo runs; without rust there is no source to share.
RustInv ==
    /\ lang = "rust" =>
         /\ pc \in [Calls -> Steps] /\ verdict \in [Calls -> Verdicts]
         /\ \A c \in Calls :
              /\ pc[c] = "start" => verdict[c] = "none"
              /\ pc[c] \in {"exists", "getsize", "remove", "check", "test"} => c \in written
    /\ lang # "rust" => target = Nobody
    /\ LastIsRight

LEMMA RustInvInit == Init => RustInv
BY CallsAssumption DEF Init, CallsInit, RustInit, RustInv, LastIsRight, Steps, Verdicts

(* A step of one call in the rust branch. *)
LEMMA RustInvStep ==
    ASSUME RustInv, lang = "rust", NEW c \in Calls, RustStep(c)
    PROVE  RustInv'
<1> USE DEF RustGoto, Goto, Steps, Verdicts
<1>1. /\ lang' = lang /\ lang = "rust"
      /\ pc \in [Calls -> Steps] /\ verdict \in [Calls -> Verdicts]
      /\ \A o \in Calls :
           /\ pc[o] = "start" => verdict[o] = "none"
           /\ pc[o] \in {"exists", "getsize", "remove", "check", "test"} => o \in written
           /\ target = o /\ verdict[o] # "none" => verdict[o] = Truth(o)
  BY DEF RustStep, RustInv, LastIsRight
<1>0. SUFFICES
      /\ pc' \in [Calls -> Steps] /\ verdict' \in [Calls -> Verdicts]
      /\ \A o \in Calls :
           /\ pc'[o] = "start" => verdict'[o] = "none"
           /\ pc'[o] \in {"exists", "getsize", "remove", "check", "test"} => o \in written'
           /\ target' = o /\ verdict'[o] # "none" => verdict'[o] = Truth(o)
  BY <1>1 DEF RustInv, LastIsRight, Truth
<1>2. CASE Rename(c)
  BY <1>1, <1>2 DEF Rename
<1>3. CASE WriteRust(c)
  BY <1>1, <1>3 DEF WriteRust
<1>4. CASE LogExists(c)
  BY <1>1, <1>4 DEF LogExists
<1>5. CASE LogSize(c)
  BY <1>1, <1>5 DEF LogSize
<1>6. CASE LogRemove(c)
  BY <1>1, <1>6 DEF LogRemove
<1>7. CASE CargoCheck(c)
  <2>1. target = c /\ ~Builds => Truth(c) = "failed"
    BY <1>1, <1>7, CallsAssumption DEF CargoCheck, Builds, Truth
  <2>. QED  BY <1>1, <1>7, <2>1 DEF CargoCheck, RustJudge, Post, Truth
<1>8. CASE CargoTest(c)
  <2>1. target = c => (Builds /\ target \in Good <=> c \in Good)
    BY <1>1, <1>8, CallsAssumption DEF CargoTest, Builds
  <2>. QED  BY <1>1, <1>8, <2>1 DEF CargoTest, RustJudge, Post, Truth
<1>. QED  BY <1>2, <1>3, <1>4, <1>5, <1>6, <1>7, <1>8 DEF RustStep

LEMMA RustInvNext == RustInv /\ [Next]_vars => RustInv'
<1> SUFFICES ASSUME RustInv, [Next]_vars PROVE RustInv'
  OBVIOUS
<1>1. ASSUME lang # "rust", NEW c \in Calls, DirStep(c), UNCHANGED rustvars
      PROVE  RustInv'
  BY <1>1, CallsAssumption DEF RustInv, LastIsRight, DirStep, rustvars
<1>2. ASSUME lang = "rust", NEW c \in Calls, RustStep(c)
      PROVE  RustInv'
  BY <1>2, RustInvStep
<1>3. ASSUME NEW c \in Calls, Kill(c), UNCHANGED rustvars
      PROVE  RustInv'
  <2>1. LastIsRight' /\ lang' = lang /\ (lang # "rust" => target' = Nobody)
    BY <1>3 DEF RustInv, LastIsRight, Kill, Truth, rustvars
  <2>2. ASSUME lang = "rust"
        PROVE  /\ pc' \in [Calls -> Steps] /\ verdict' \in [Calls -> Verdicts]
               /\ \A o \in Calls :
                    /\ pc'[o] = "start" => verdict'[o] = "none"
                    /\ pc'[o] \in {"exists", "getsize", "remove", "check", "test"} => o \in written'
    <3>1. /\ pc \in [Calls -> Steps] /\ verdict \in [Calls -> Verdicts]
          /\ \A o \in Calls :
               /\ pc[o] = "start" => verdict[o] = "none"
               /\ pc[o] \in {"exists", "getsize", "remove", "check", "test"} => o \in written
      BY <2>2 DEF RustInv
    <3>. QED  BY <1>3, <3>1 DEF Kill, Goto, rustvars, Steps
  <2>. QED  BY <2>1, <2>2 DEF RustInv
<1>4. CASE UNCHANGED vars
  BY <1>4 DEF RustInv, LastIsRight, Truth, vars, rustvars
<1>. QED  BY <1>1, <1>2, <1>3, <1>4 DEF Next, AllEnded

(* The call whose file <task>.rs is gets the verdict of its own completion. *)
THEOREM LastRenamedIsRight == Spec => []LastIsRight
<1>1. RustInv => LastIsRight
  BY DEF RustInv
<1>. QED  BY <1>1, RustInvInit, RustInvNext, PTL DEF Spec

-----------------------------------------------------------------------------
(* Rust: who dies over the log *)

\* A call that has seen the log, and sees it no more, has lost it to another.
LogInv ==
    lang = "rust" =>
        /\ pc \in [Calls -> Steps]
        /\ \A c \in Calls :
             /\ pc[c] \in {"getsize", "remove"} => log \/ \E o \in removed : o # c
             /\ pc[c] = "crashed" => \E o \in removed : o # c

LEMMA LogInvNext == LogInv /\ [Next]_vars => LogInv'
<1> SUFFICES ASSUME LogInv, [Next]_vars, lang = "rust" PROVE LogInv'
  BY DEF LogInv, Next, DirStep, RustStep, Kill, AllEnded, vars
<1>1. ASSUME NEW c \in Calls, RustStep(c) PROVE LogInv'
  <2> USE <1>1 DEF LogInv, RustGoto, RustJudge, Goto, Steps, Post
  <2>1. CASE Rename(c) \/ WriteRust(c)
    BY <2>1 DEF Rename, WriteRust
  <2>2. CASE LogExists(c)
    BY <2>2 DEF LogExists
  <2>3. CASE LogSize(c)
    BY <2>3 DEF LogSize
  <2>4. CASE LogRemove(c)
    BY <2>4 DEF LogRemove
  <2>5. CASE CargoCheck(c)
    BY <2>5 DEF CargoCheck
  <2>6. CASE CargoTest(c)
    BY <2>6 DEF CargoTest
  <2>. QED  BY <2>1, <2>2, <2>3, <2>4, <2>5, <2>6 DEF RustStep
<1>2. ASSUME NEW c \in Calls, Kill(c), UNCHANGED rustvars PROVE LogInv'
  BY <1>2 DEF LogInv, Kill, Goto, Steps, rustvars
<1>3. CASE UNCHANGED vars
  BY <1>3 DEF LogInv, vars, rustvars
<1>. QED  BY <1>1, <1>2, <1>3 DEF Next, AllEnded

(* A rust call dies over the log only if another call removed it meanwhile. *)
THEOREM CrashesAreOthers == Spec => []CrashNeedsRemoval
<1>1. Init => LogInv
  BY DEF Init, CallsInit, LogInv, Steps
<1>2. LogInv => CrashNeedsRemoval
  BY DEF LogInv, CrashNeedsRemoval
<1>. QED  BY <1>1, <1>2, LogInvNext, PTL DEF Spec

-----------------------------------------------------------------------------
(* Directories: who leaves one behind *)

\* The steps of this branch, and the states of a call.
BranchSteps == {Branch.steps[i] : i \in DOMAIN Branch.steps}
Places == BranchSteps \union {"start", "done", "crashed", "killed"}

\* A call draws its name once, and a directory is somebody's who is not done.
DirInv ==
    /\ lang \in Langs
    /\ exists \in [Dirs -> Nat] /\ made \in Nat
    /\ lang = "rust" => \A d \in Dirs : exists[d] = 0
    /\ lang # "rust" => /\ pc \in [Calls -> Places]
                        /\ dir \in [Calls -> Dirs \union {NoDir}]
                        /\ \A c \in Calls : pc[c] = "start" => dir[c] = NoDir
                        /\ Reclaimed

(* Each branch has its last step for removing the directory. *)
LEMMA BranchFacts ==
    ASSUME lang \in Langs, lang # "rust"
    PROVE  /\ Len(Branch.steps) \in Nat /\ DOMAIN Branch.steps = 1 .. Len(Branch.steps)
           /\ Branch.steps[Len(Branch.steps)] \in {"rmtree", "cleanup"}
           /\ "done" \notin BranchSteps /\ "start" \notin BranchSteps
           /\ lang = "python" => {"mkdtemp", "run"} \subseteq BranchSteps
           /\ lang # "python" => {"makedirs", "rmtree"} \subseteq BranchSteps
           /\ lang = "ts" => "recompile" \in BranchSteps
<1> USE LangsAssumption DEF BranchSteps
<1>1. CASE lang = "python"
  <2>1. Branch = Python  BY <1>1, Zenon DEF Branch
  <2>. QED  BY <1>1, <2>1 DEF Python
<1>2. CASE lang = "go"
  <2>1. Branch = Go  BY <1>2, Zenon DEF Branch
  <2>. QED  BY <1>2, <2>1 DEF Go
<1>3. CASE lang = "js"
  <2>1. Branch = Js  BY <1>3, Zenon DEF Branch
  <2>. QED  BY <1>3, <2>1 DEF Js
<1>4. CASE lang = "cpp"
  <2>1. Branch = Cpp  BY <1>4, Zenon DEF Branch
  <2>. QED  BY <1>4, <2>1 DEF Cpp
<1>5. CASE lang = "php"
  <2>1. Branch = Php  BY <1>5, Zenon DEF Branch
  <2>. QED  BY <1>5, <2>1 DEF Php
<1>6. CASE lang = "sh"
  <2>1. Branch = Sh  BY <1>6, Zenon DEF Branch
  <2>. QED  BY <1>6, <2>1 DEF Sh
<1>7. CASE lang = "ts"
  <2>1. Branch = Ts  BY <1>7, Zenon DEF Branch
  <2>. QED  BY <1>7, <2>1 DEF Ts
<1>8. CASE lang = "cs"
  <2>1. Branch = Cs  BY <1>8, Zenon DEF Branch
  <2>. QED  BY <1>8, <2>1 DEF Cs
<1>9. CASE lang = "java"
  <2>1. Branch = Java  BY <1>9, Zenon DEF Branch
  <2>. QED  BY <1>9, <2>1 DEF Java
<1>. QED  BY <1>1, <1>2, <1>3, <1>4, <1>5, <1>6, <1>7, <1>8, <1>9, LangsAssumption

(* What may become of a run whose program is gone. *)
LEMMA MissingFacts ==
    ASSUME lang \in Langs, lang # "rust"
    PROVE  /\ Branch.missing \subseteq {"passed", "failed", "crashed"}
           /\ "passed" \in Branch.missing => lang = "cs"
<1> USE LangsAssumption
<1>1. CASE lang = "python"
  <2>1. Branch = Python  BY <1>1, Zenon DEF Branch
  <2>. QED  BY <1>1, <2>1 DEF Python
<1>2. CASE lang = "go"
  <2>1. Branch = Go  BY <1>2, Zenon DEF Branch
  <2>. QED  BY <1>2, <2>1 DEF Go
<1>3. CASE lang = "js"
  <2>1. Branch = Js  BY <1>3, Zenon DEF Branch
  <2>. QED  BY <1>3, <2>1 DEF Js
<1>4. CASE lang = "cpp"
  <2>1. Branch = Cpp  BY <1>4, Zenon DEF Branch
  <2>. QED  BY <1>4, <2>1 DEF Cpp
<1>5. CASE lang = "php"
  <2>1. Branch = Php  BY <1>5, Zenon DEF Branch
  <2>. QED  BY <1>5, <2>1 DEF Php
<1>6. CASE lang = "sh"
  <2>1. Branch = Sh  BY <1>6, Zenon DEF Branch
  <2>. QED  BY <1>6, <2>1 DEF Sh
<1>7. CASE lang = "ts"
  <2>1. Branch = Ts  BY <1>7, Zenon DEF Branch
  <2>. QED  BY <1>7, <2>1 DEF Ts
<1>8. CASE lang = "cs"
  <2>1. Branch = Cs  BY <1>8, Zenon DEF Branch
  <2>. QED  BY <1>8, <2>1 DEF Cs
<1>9. CASE lang = "java"
  <2>1. Branch = Java  BY <1>9, Zenon DEF Branch
  <2>. QED  BY <1>9, <2>1 DEF Java
<1>. QED  BY <1>1, <1>2, <1>3, <1>4, <1>5, <1>6, <1>7, <1>8, <1>9, LangsAssumption

(* Only the last step of a branch is followed by the end. *)
LEMMA AfterStep ==
    ASSUME lang \in Langs, lang # "rust", NEW s \in BranchSteps, s \notin {"rmtree", "cleanup"}
    PROVE  After(s) \in BranchSteps
<1> DEFINE i == CHOOSE j \in DOMAIN Branch.steps : Branch.steps[j] = s
<1>1. i \in DOMAIN Branch.steps /\ Branch.steps[i] = s
  BY DEF BranchSteps
<1>2. i # Len(Branch.steps)
  BY <1>1, BranchFacts
<1>3. i + 1 \in DOMAIN Branch.steps
  BY <1>1, <1>2, BranchFacts
<1>4. After(s) = Branch.steps[i + 1]
  BY <1>2 DEF After
<1>. QED  BY <1>3, <1>4 DEF BranchSteps

(* Where a judged call goes. *)
LEMMA JudgedOn ==
    ASSUME lang \in Langs, lang # "rust", NEW c \in Calls, NEW v, Judge(c, v)
    PROVE  \E s \in BranchSteps : pc' = [pc EXCEPT ![c] = s]
<1>1. CASE lang = "python"
  <2>1. After("run") \in BranchSteps
    BY <1>1, BranchFacts, AfterStep
  <2>. QED  BY <1>1, <2>1 DEF Judge, Goto
<1>2. CASE lang = "ts" /\ v = "failed" /\ pc[c] \in {"compile", "run"}
  BY <1>2, BranchFacts, Zenon DEF Judge, Goto
<1>3. CASE lang # "python" /\ ~(lang = "ts" /\ v = "failed" /\ pc[c] \in {"compile", "run"})
  BY <1>3, BranchFacts, Zenon DEF Judge, Goto
<1>. QED  BY <1>1, <1>2, <1>3

LEMMA DirInvInit == Init => DirInv
BY DirsAssumption, LangsAssumption
   DEF Init, CallsInit, DirsInit, DirInv, Places, Reclaimed

(* A call that goes on, or ends and takes its directory along, leaves none behind. *)
LEMMA MovesOn ==
    ASSUME DirInv, lang # "rust", NEW c \in Calls, NEW s \in Places, s # "start",
           pc' = [pc EXCEPT ![c] = s], lang' = lang, dir' = dir,
           exists' \in [Dirs -> Nat], made' \in Nat,
           \A d \in Dirs : exists'[d] # 0 => IF d = dir[c] THEN s # "done" ELSE exists[d] # 0
    PROVE  DirInv'
<1>1. /\ lang \in Langs /\ pc \in [Calls -> Places] /\ dir \in [Calls -> Dirs \union {NoDir}]
      /\ \A o \in Calls : pc[o] = "start" => dir[o] = NoDir
      /\ \A d \in Dirs : exists[d] # 0 => \E o \in Calls : dir[o] = d /\ pc[o] # "done"
  BY DEF DirInv, Reclaimed
<1>2. Places' = Places
  BY DEF Places, BranchSteps, Branch, Python, Go, Js, Cpp, Php, Sh, Ts, Cs, Java
<1>3. pc' \in [Calls -> Places] /\ \A o \in Calls : pc'[o] = IF o = c THEN s ELSE pc[o]
  BY <1>1
<1>4. ASSUME NEW d \in Dirs, exists'[d] # 0
      PROVE  \E o \in Calls : dir[o] = d /\ pc'[o] # "done"
  <2>1. CASE d = dir[c]
    BY <1>3, <1>4, <2>1
  <2>2. CASE d # dir[c]
    BY <1>1, <1>3, <1>4, <2>2
  <2>. QED  BY <2>1, <2>2
<1>. QED  BY <1>1, <1>2, <1>3, <1>4 DEF DirInv, Reclaimed

(* A call that draws a name had none, so that it leaves no directory either. *)
LEMMA DrawsOn ==
    ASSUME DirInv, lang # "rust", NEW c \in Calls, NEW s \in Places, s \notin {"start", "done"},
           pc[c] = "start", NEW n \in Dirs,
           pc' = [pc EXCEPT ![c] = s], lang' = lang, dir' = [dir EXCEPT ![c] = n],
           exists' \in [Dirs -> Nat], made' \in Nat,
           \A d \in Dirs : exists'[d] # 0 => d = n \/ exists[d] # 0
    PROVE  DirInv'
<1>1. /\ lang \in Langs /\ pc \in [Calls -> Places] /\ dir \in [Calls -> Dirs \union {NoDir}]
      /\ \A o \in Calls : pc[o] = "start" => dir[o] = NoDir
      /\ \A d \in Dirs : exists[d] # 0 => \E o \in Calls : dir[o] = d /\ pc[o] # "done"
  BY DEF DirInv, Reclaimed
<1>2. Places' = Places
  BY DEF Places, BranchSteps, Branch, Python, Go, Js, Cpp, Php, Sh, Ts, Cs, Java
<1>3. pc' \in [Calls -> Places] /\ \A o \in Calls : pc'[o] = IF o = c THEN s ELSE pc[o]
  BY <1>1
<1>4. dir' \in [Calls -> Dirs \union {NoDir}] /\ \A o \in Calls : dir'[o] = IF o = c THEN n ELSE dir[o]
  BY <1>1
<1>5. ASSUME NEW d \in Dirs, exists'[d] # 0
      PROVE  \E o \in Calls : dir'[o] = d /\ pc'[o] # "done"
  <2>1. CASE d = n
    BY <1>3, <1>4, <1>5, <2>1
  <2>2. CASE d # n
    <3>1. PICK o \in Calls : dir[o] = d /\ pc[o] # "done"
      BY <1>1, <1>5, <2>2
    <3>2. o # c
      BY <1>1, <3>1, DirsAssumption
    <3>. QED  BY <1>3, <1>4, <3>1, <3>2
  <2>. QED  BY <2>1, <2>2
<1>. QED  BY <1>1, <1>2, <1>3, <1>4, <1>5 DEF DirInv, Reclaimed

LEMMA DirInvStep ==
    ASSUME DirInv, lang # "rust", NEW c \in Calls, DirStep(c)
    PROVE  DirInv'
<1>1. /\ lang' = lang /\ lang \in Langs /\ exists \in [Dirs -> Nat] /\ made \in Nat
      /\ pc \in [Calls -> Places]
  BY DEF DirInv, DirStep
<1>2. /\ BranchSteps \subseteq Places /\ {"start", "done", "crashed"} \subseteq Places
      /\ "start" \notin BranchSteps /\ "done" \notin BranchSteps
  BY <1>1, BranchFacts DEF Places
<1>3. CASE DrawName(c)
  <2>1. lang # "python" /\ "makedirs" \in BranchSteps /\ After("makedirs") \in BranchSteps
    BY <1>1, <1>3, BranchFacts, AfterStep DEF DrawName
  <2>2. PICK n \in Dirs, s \in BranchSteps :
          dir' = [dir EXCEPT ![c] = n] /\ pc' = [pc EXCEPT ![c] = s]
    BY <1>3, <2>1 DEF DrawName, Goto
  <2>3. pc[c] = "start" /\ UNCHANGED <<exists, made>>
    BY <1>3 DEF DrawName
  <2>. QED  BY <1>1, <1>2, <2>2, <2>3, DrawsOn
<1>4. CASE MkDTemp(c)
  <2>1. After("mkdtemp") \in BranchSteps
    BY <1>1, <1>4, BranchFacts, AfterStep DEF MkDTemp
  <2>2. PICK n \in Dirs : /\ dir' = [dir EXCEPT ![c] = n]
                          /\ exists' = [exists EXCEPT ![n] = made + 1] /\ made' = made + 1
    BY <1>4 DEF MkDTemp, Make
  <2>3. pc[c] = "start" /\ pc' = [pc EXCEPT ![c] = After("mkdtemp")]
    BY <1>4 DEF MkDTemp, Goto
  <2>4. exists' \in [Dirs -> Nat] /\ made' \in Nat
        /\ \A d \in Dirs : exists'[d] # 0 => d = n \/ exists[d] # 0
    BY <1>1, <2>2
  <2>. QED  BY <1>1, <1>2, <2>1, <2>2, <2>3, <2>4, DrawsOn
<1>5. CASE MakeDirs(c)
  <2>1. "makedirs" \in BranchSteps
    BY <1>1, <1>5 DEF MakeDirs, Places
  <2>2. After("makedirs") \in BranchSteps
    BY <1>1, <2>1, AfterStep
  <2>3. PICK s \in Places : s \notin {"start", "done"} /\ pc' = [pc EXCEPT ![c] = s]
    BY <1>2, <1>5, <2>2 DEF MakeDirs, Goto
  <2>4. /\ dir' = dir /\ exists' \in [Dirs -> Nat] /\ made' \in Nat
        /\ \A d \in Dirs : exists'[d] # 0 => d = dir[c] \/ exists[d] # 0
    BY <1>1, <1>5 DEF MakeDirs, Make
  <2>. QED  BY <1>1, <2>3, <2>4, MovesOn
<1>6. CASE ChDir(c) \/ Write(c)
  <2>1. pc[c] \in {"chdir", "write"} /\ UNCHANGED <<dir, exists, made>>
        /\ (pc' = [pc EXCEPT ![c] = "crashed"] \/ pc' = [pc EXCEPT ![c] = After(pc[c])])
    BY <1>6 DEF ChDir, Write, Goto
  <2>2. pc[c] \in BranchSteps
    BY <1>1, <2>1 DEF Places
  <2>3. After(pc[c]) \in BranchSteps
    BY <1>1, <2>1, <2>2, AfterStep
  <2>4. PICK s \in Places : s \notin {"start", "done"} /\ pc' = [pc EXCEPT ![c] = s]
    BY <1>2, <2>1, <2>3
  <2>. QED  BY <1>1, <2>1, <2>4, MovesOn
<1>7. CASE Compile(c) \/ Run(c)
  <2>1. UNCHANGED <<dir, exists, made>>
    BY <1>7 DEF Compile, Run
  <2>2. PICK s \in Places : s \notin {"start", "done"} /\ pc' = [pc EXCEPT ![c] = s]
    <3>1. CASE \E v \in {"passed", "failed"} : Judge(c, v)
      BY <1>1, <1>2, <3>1, JudgedOn
    <3>2. CASE pc' = [pc EXCEPT ![c] = "crashed"]
      BY <1>2, <3>2
    <3>3. CASE Compiling(c) /\ pc' = [pc EXCEPT ![c] = After(pc[c])]
      <4>1. pc[c] \in BranchSteps /\ pc[c] \notin {"rmtree", "cleanup"}
        BY <1>1, <3>3 DEF Places, Compiling
      <4>. QED  BY <1>1, <1>2, <3>3, <4>1, AfterStep
    <3>4. Branch.missing \subseteq {"passed", "failed", "crashed"}
      BY <1>1, MissingFacts
    <3>. QED  BY <1>7, <3>1, <3>2, <3>3, <3>4 DEF Compile, Run, Goto
  <2>. QED  BY <1>1, <2>1, <2>2, MovesOn
<1>8. CASE RmTree(c) \/ Cleanup(c)
  <2>1. PICK s \in {"done", "crashed"} : pc' = [pc EXCEPT ![c] = s]
    BY <1>8 DEF RmTree, Cleanup, Goto
  <2>2. /\ UNCHANGED <<dir, made>>
        /\ exists' = [exists EXCEPT ![dir[c]] = 0] \/ (pc' = [pc EXCEPT ![c] = "crashed"] /\ exists' = exists)
    BY <1>8 DEF RmTree, Cleanup, Goto
  <2>3. CASE exists' = [exists EXCEPT ![dir[c]] = 0]
    <3>1. exists' \in [Dirs -> Nat]
          /\ \A d \in Dirs : exists'[d] # 0 => d # dir[c] /\ exists[d] # 0
      BY <1>1, <2>3
    <3>. QED  BY <1>1, <1>2, <2>1, <2>2, <3>1, MovesOn
  <2>4. CASE pc' = [pc EXCEPT ![c] = "crashed"] /\ exists' = exists
    BY <1>1, <1>2, <2>2, <2>4, MovesOn
  <2>. QED  BY <2>2, <2>3, <2>4
<1>. QED  BY <1>3, <1>4, <1>5, <1>6, <1>7, <1>8 DEF DirStep

LEMMA DirInvNext == DirInv /\ [Next]_vars => DirInv'
<1> SUFFICES ASSUME DirInv, [Next]_vars PROVE DirInv'
  OBVIOUS
<1>1. ASSUME lang # "rust", NEW c \in Calls, DirStep(c)
      PROVE  DirInv'
  BY <1>1, DirInvStep
<1>2. ASSUME lang = "rust", NEW c \in Calls, RustStep(c), UNCHANGED dirvars
      PROVE  DirInv'
  BY <1>2 DEF DirInv, RustStep, dirvars
<1>3. ASSUME NEW c \in Calls, Kill(c), UNCHANGED dirvars
      PROVE  DirInv'
  <2>1. CASE lang = "rust"
    BY <1>3, <2>1 DEF DirInv, Kill, dirvars
  <2>2. CASE lang # "rust"
    <3>1. /\ pc' = [pc EXCEPT ![c] = "killed"] /\ lang' = lang /\ UNCHANGED <<dir, exists, made>>
          /\ "killed" \in Places
      BY <1>3 DEF Kill, Goto, dirvars, Places
    <3>2. exists \in [Dirs -> Nat] /\ made \in Nat
      BY DEF DirInv
    <3>. QED  BY <2>2, <3>1, <3>2, MovesOn
  <2>. QED  BY <2>1, <2>2
<1>4. CASE UNCHANGED vars
  <2>1. UNCHANGED <<lang, pc, dir, exists, made>>
    BY <1>4 DEF vars, dirvars
  <2>2. Places' = Places
    BY <2>1 DEF Places, BranchSteps, Branch, Python, Go, Js, Cpp, Php, Sh, Ts, Cs, Java
  <2>. QED  BY <2>1, <2>2 DEF DirInv, Reclaimed
<1>. QED  BY <1>1, <1>2, <1>3, <1>4 DEF Next, AllEnded

(* A directory is left behind only by calls that were killed or died, or still run. *)
THEOREM DirectoriesReclaimed == Spec => []Reclaimed
<1>1. DirInv => Reclaimed
  BY DEF DirInv, Reclaimed
<1>. QED  BY <1>1, DirInvInit, DirInvNext, PTL DEF Spec
-----------------------------------------------------------------------------
(* Directories: a call alone in its own *)

(* A step occurs once in a branch, so that After goes to the next. *)
LEMMA NextStep ==
    ASSUME NEW n \in Nat, DOMAIN Branch.steps = 1 .. n, Len(Branch.steps) = n,
           \A i, j \in 1 .. n : Branch.steps[i] = Branch.steps[j] => i = j
    PROVE  \A k \in 1 .. n - 1 : After(Branch.steps[k]) = Branch.steps[k + 1]
<1> TAKE k \in 1 .. n - 1
<1> DEFINE i == CHOOSE j \in DOMAIN Branch.steps : Branch.steps[j] = Branch.steps[k]
<1>1. i \in 1 .. n /\ Branch.steps[i] = Branch.steps[k]
  OBVIOUS
<1>2. i = k
  BY <1>1
<1>. QED  BY <1>2 DEF After

Compiled == {"cpp", "ts", "cs", "java"}

\* The ways through the branches.
Ways ==
    /\ Compiles <=> lang \in Compiled
    /\ lang = "python" => /\ BranchSteps = {"mkdtemp", "chdir", "run", "cleanup"}
                          /\ After("mkdtemp") = "chdir" /\ After("chdir") = "run"
                          /\ After("run") = "cleanup"
    /\ lang # "python" => /\ "cleanup" \notin BranchSteps
                          /\ After("makedirs") = IF lang = "java" THEN "write" ELSE "chdir"
                          /\ After("chdir") = IF lang = "java" THEN "compile" ELSE "write"
                          /\ After("write") = IF lang = "java" THEN "chdir"
                                              ELSE IF lang \in Compiled THEN "compile" ELSE "run"
    /\ lang \in Compiled => After("compile") = "run"
    /\ lang = "ts" => After("recompile") = "rerun"
    /\ "compile" \in BranchSteps => lang \in Compiled
    /\ "recompile" \in BranchSteps => lang = "ts"
    /\ "rerun" \in BranchSteps => lang = "ts"

LEMMA WaysThrough ==
    ASSUME lang \in Langs, lang # "rust"
    PROVE  Ways
<1>1. CASE lang = "python"
  <2>1. Branch = Python  BY <1>1, Zenon DEF Branch
  <2>2. Python.steps = <<"mkdtemp", "chdir", "run", "cleanup">>  BY DEF Python
  <2>3. \A i \in 1 .. 3 : After(Python.steps[i]) = Python.steps[i + 1]
    <3>1. /\ DOMAIN Python.steps = 1 .. 4 /\ Len(Python.steps) = 4
          /\ \A i, j \in 1 .. 4 : Python.steps[i] = Python.steps[j] => i = j
      BY <2>2
    <3>. QED  BY <2>1, <3>1, NextStep
  <2>4. /\ After("mkdtemp") = "chdir"
        /\ After("chdir") = "run"
        /\ After("run") = "cleanup"
    BY <2>2, <2>3
  <2>5. BranchSteps = {"mkdtemp", "chdir", "run", "cleanup"}
    BY <2>1, <2>2 DEF BranchSteps
  <2>6. ~Compiles
    BY <2>1, <2>2 DEF Compiles
  <2>. QED  BY <1>1, <2>4, <2>5, <2>6 DEF Ways, Compiled
<1>2. CASE lang = "go"
  <2>1. Branch = Go  BY <1>2, Zenon DEF Branch
  <2>2. Go.steps = <<"makedirs", "chdir", "write", "run", "rmtree">>  BY DEF Go
  <2>3. \A i \in 1 .. 4 : After(Go.steps[i]) = Go.steps[i + 1]
    <3>1. /\ DOMAIN Go.steps = 1 .. 5 /\ Len(Go.steps) = 5
          /\ \A i, j \in 1 .. 5 : Go.steps[i] = Go.steps[j] => i = j
      BY <2>2
    <3>. QED  BY <2>1, <3>1, NextStep
  <2>4. /\ After("makedirs") = "chdir"
        /\ After("chdir") = "write"
        /\ After("write") = "run"
        /\ After("run") = "rmtree"
    BY <2>2, <2>3
  <2>5. BranchSteps = {"makedirs", "chdir", "write", "run", "rmtree"}
    BY <2>1, <2>2 DEF BranchSteps
  <2>6. ~Compiles
    BY <2>1, <2>2 DEF Compiles
  <2>. QED  BY <1>2, <2>4, <2>5, <2>6 DEF Ways, Compiled
<1>3. CASE lang = "js"
  <2>1. Branch = Js  BY <1>3, Zenon DEF Branch
  <2>2. Js.steps = <<"makedirs", "chdir", "write", "run", "rmtree">>  BY DEF Js
  <2>3. \A i \in 1 .. 4 : After(Js.steps[i]) = Js.steps[i + 1]
    <3>1. /\ DOMAIN Js.steps = 1 .. 5 /\ Len(Js.steps) = 5
          /\ \A i, j \in 1 .. 5 : Js.steps[i] = Js.steps[j] => i = j
      BY <2>2
    <3>. QED  BY <2>1, <3>1, NextStep
  <2>4. /\ After("makedirs") = "chdir"
        /\ After("chdir") = "write"
        /\ After("write") = "run"
        /\ After("run") = "rmtree"
    BY <2>2, <2>3
  <2>5. BranchSteps = {"makedirs", "chdir", "write", "run", "rmtree"}
    BY <2>1, <2>2 DEF BranchSteps
  <2>6. ~Compiles
    BY <2>1, <2>2 DEF Compiles
  <2>. QED  BY <1>3, <2>4, <2>5, <2>6 DEF Ways, Compiled
<1>4. CASE lang = "cpp"
  <2>1. Branch = Cpp  BY <1>4, Zenon DEF Branch
  <2>2. Cpp.steps = <<"makedirs", "chdir", "write", "compile", "run", "rmtree">>  BY DEF Cpp
  <2>3. \A i \in 1 .. 5 : After(Cpp.steps[i]) = Cpp.steps[i + 1]
    <3>1. /\ DOMAIN Cpp.steps = 1 .. 6 /\ Len(Cpp.steps) = 6
          /\ \A i, j \in 1 .. 6 : Cpp.steps[i] = Cpp.steps[j] => i = j
      BY <2>2
    <3>. QED  BY <2>1, <3>1, NextStep
  <2>4. /\ After("makedirs") = "chdir"
        /\ After("chdir") = "write"
        /\ After("write") = "compile"
        /\ After("compile") = "run"
        /\ After("run") = "rmtree"
    BY <2>2, <2>3
  <2>5. BranchSteps = {"makedirs", "chdir", "write", "compile", "run", "rmtree"}
    BY <2>1, <2>2 DEF BranchSteps
  <2>6. Compiles
    BY <2>1, <2>2 DEF Compiles
  <2>. QED  BY <1>4, <2>4, <2>5, <2>6 DEF Ways, Compiled
<1>5. CASE lang = "php"
  <2>1. Branch = Php  BY <1>5, Zenon DEF Branch
  <2>2. Php.steps = <<"makedirs", "chdir", "write", "run", "rmtree">>  BY DEF Php
  <2>3. \A i \in 1 .. 4 : After(Php.steps[i]) = Php.steps[i + 1]
    <3>1. /\ DOMAIN Php.steps = 1 .. 5 /\ Len(Php.steps) = 5
          /\ \A i, j \in 1 .. 5 : Php.steps[i] = Php.steps[j] => i = j
      BY <2>2
    <3>. QED  BY <2>1, <3>1, NextStep
  <2>4. /\ After("makedirs") = "chdir"
        /\ After("chdir") = "write"
        /\ After("write") = "run"
        /\ After("run") = "rmtree"
    BY <2>2, <2>3
  <2>5. BranchSteps = {"makedirs", "chdir", "write", "run", "rmtree"}
    BY <2>1, <2>2 DEF BranchSteps
  <2>6. ~Compiles
    BY <2>1, <2>2 DEF Compiles
  <2>. QED  BY <1>5, <2>4, <2>5, <2>6 DEF Ways, Compiled
<1>6. CASE lang = "sh"
  <2>1. Branch = Sh  BY <1>6, Zenon DEF Branch
  <2>2. Sh.steps = <<"makedirs", "chdir", "write", "run", "rmtree">>  BY DEF Sh
  <2>3. \A i \in 1 .. 4 : After(Sh.steps[i]) = Sh.steps[i + 1]
    <3>1. /\ DOMAIN Sh.steps = 1 .. 5 /\ Len(Sh.steps) = 5
          /\ \A i, j \in 1 .. 5 : Sh.steps[i] = Sh.steps[j] => i = j
      BY <2>2
    <3>. QED  BY <2>1, <3>1, NextStep
  <2>4. /\ After("makedirs") = "chdir"
        /\ After("chdir") = "write"
        /\ After("write") = "run"
        /\ After("run") = "rmtree"
    BY <2>2, <2>3
  <2>5. BranchSteps = {"makedirs", "chdir", "write", "run", "rmtree"}
    BY <2>1, <2>2 DEF BranchSteps
  <2>6. ~Compiles
    BY <2>1, <2>2 DEF Compiles
  <2>. QED  BY <1>6, <2>4, <2>5, <2>6 DEF Ways, Compiled
<1>7. CASE lang = "ts"
  <2>1. Branch = Ts  BY <1>7, Zenon DEF Branch
  <2>2. Ts.steps = <<"makedirs", "chdir", "write", "compile", "run", "recompile", "rerun", "rmtree">>  BY DEF Ts
  <2>3. \A i \in 1 .. 7 : After(Ts.steps[i]) = Ts.steps[i + 1]
    <3>1. /\ DOMAIN Ts.steps = 1 .. 8 /\ Len(Ts.steps) = 8
          /\ \A i, j \in 1 .. 8 : Ts.steps[i] = Ts.steps[j] => i = j
      BY <2>2
    <3>. QED  BY <2>1, <3>1, NextStep
  <2>4. /\ After("makedirs") = "chdir"
        /\ After("chdir") = "write"
        /\ After("write") = "compile"
        /\ After("compile") = "run"
        /\ After("run") = "recompile"
        /\ After("recompile") = "rerun"
        /\ After("rerun") = "rmtree"
    BY <2>2, <2>3
  <2>5. BranchSteps = {"makedirs", "chdir", "write", "compile", "run", "recompile", "rerun", "rmtree"}
    BY <2>1, <2>2 DEF BranchSteps
  <2>6. Compiles
    BY <2>1, <2>2 DEF Compiles
  <2>. QED  BY <1>7, <2>4, <2>5, <2>6 DEF Ways, Compiled
<1>8. CASE lang = "cs"
  <2>1. Branch = Cs  BY <1>8, Zenon DEF Branch
  <2>2. Cs.steps = <<"makedirs", "chdir", "write", "compile", "run", "rmtree">>  BY DEF Cs
  <2>3. \A i \in 1 .. 5 : After(Cs.steps[i]) = Cs.steps[i + 1]
    <3>1. /\ DOMAIN Cs.steps = 1 .. 6 /\ Len(Cs.steps) = 6
          /\ \A i, j \in 1 .. 6 : Cs.steps[i] = Cs.steps[j] => i = j
      BY <2>2
    <3>. QED  BY <2>1, <3>1, NextStep
  <2>4. /\ After("makedirs") = "chdir"
        /\ After("chdir") = "write"
        /\ After("write") = "compile"
        /\ After("compile") = "run"
        /\ After("run") = "rmtree"
    BY <2>2, <2>3
  <2>5. BranchSteps = {"makedirs", "chdir", "write", "compile", "run", "rmtree"}
    BY <2>1, <2>2 DEF BranchSteps
  <2>6. Compiles
    BY <2>1, <2>2 DEF Compiles
  <2>. QED  BY <1>8, <2>4, <2>5, <2>6 DEF Ways, Compiled
<1>9. CASE lang = "java"
  <2>1. Branch = Java  BY <1>9, Zenon DEF Branch
  <2>2. Java.steps = <<"makedirs", "write", "chdir", "compile", "run", "rmtree">>  BY DEF Java
  <2>3. \A i \in 1 .. 5 : After(Java.steps[i]) = Java.steps[i + 1]
    <3>1. /\ DOMAIN Java.steps = 1 .. 6 /\ Len(Java.steps) = 6
          /\ \A i, j \in 1 .. 6 : Java.steps[i] = Java.steps[j] => i = j
      BY <2>2
    <3>. QED  BY <2>1, <3>1, NextStep
  <2>4. /\ After("makedirs") = "write"
        /\ After("write") = "chdir"
        /\ After("chdir") = "compile"
        /\ After("compile") = "run"
        /\ After("run") = "rmtree"
    BY <2>2, <2>3
  <2>5. BranchSteps = {"makedirs", "write", "chdir", "compile", "run", "rmtree"}
    BY <2>1, <2>2 DEF BranchSteps
  <2>6. Compiles
    BY <2>1, <2>2 DEF Compiles
  <2>. QED  BY <1>9, <2>4, <2>5, <2>6 DEF Ways, Compiled
<1>. QED  BY <1>1, <1>2, <1>3, <1>4, <1>5, <1>6, <1>7, <1>8, <1>9, LangsAssumption

\* How far the steps behind a call go: its directory is there, it is in it, its
\* source is there, so is its program.
Has(c)     == pc[c] \in {"chdir", "write", "compile", "run", "recompile", "rerun", "rmtree"}
Inside(c)  == \/ pc[c] \in {"compile", "run", "recompile", "rerun", "rmtree"}
              \/ pc[c] = "write" /\ lang # "java"
Wrote(c)   == \/ pc[c] \in {"compile", "run", "recompile", "rerun", "rmtree"}
              \/ pc[c] = "chdir" /\ lang = "java"
Built(c)   == pc[c] \in {"run", "rerun"} /\ lang \in Compiled

\* A call that is alone finds what it has left.
OnTrack(c) ==
    /\ pc[c] = "makedirs" => exists[dir[c]] = 0
    /\ Has(c) => exists[dir[c]] # 0
    /\ Inside(c) => cwd[c] = exists[dir[c]]
    /\ Wrote(c) => src[dir[c]] = c
    /\ Built(c) => bin[dir[c]] = c /\ c \notin Broken
    /\ pc[c] # "crashed"
    /\ verdict[c] \in {"none", Truth(c)}

\* python: a directory in use is nobody else's.
InUse(c) == pc[c] \in {"chdir", "run", "cleanup"}

OwnTemp(c) ==
    /\ InUse(c) => exists[dir[c]] # 0
    /\ \A o \in Calls \ {c} : InUse(c) /\ InUse(o) => dir[o] # dir[c]
    /\ verdict[c] \in {"none", Truth(c)}
    /\ pc[c] \in {"cleanup", "crashed"} => verdict[c] # "none"

Data ==
    /\ verdict \in [Calls -> Verdicts] /\ cwd \in [Calls -> Nat]
    /\ src \in [Dirs -> Calls \union {Nobody}] /\ bin \in [Dirs -> Calls \union {Nobody}]

Named(c) == \/ dir[c] \in Dirs /\ pc[c] # "start"
            \/ dir[c] = NoDir /\ verdict[c] = "none" /\ pc[c] \in {"start", "killed"}

AloneInv ==
    /\ DirInv
    /\ lang # "rust" =>
         /\ Data
         /\ \A c \in Calls : Named(c)
         /\ lang # "python" => \A c \in Calls : Alone(c) => OnTrack(c)
         /\ lang = "python" => \A c \in Calls : OwnTemp(c)

LEMMA AloneInvInit == Init => AloneInv
<1> SUFFICES ASSUME Init PROVE AloneInv
  OBVIOUS
<1>1. DirInv
  BY DirInvInit
<1>. QED  BY <1>1 DEF Init, CallsInit, DirsInit, AloneInv, Data, Named, OnTrack, OwnTemp, Verdicts,
                      Has, Inside, Wrote, Built, InUse

(* What a step of another call leaves of a call that is alone: everything. *)
LEMMA OthersOnTrack ==
    ASSUME AloneInv, lang \notin {"rust", "python"}, lang' = lang,
           NEW c \in Calls, NEW o \in Calls \ {c},
           pc'[o] = pc[o], cwd'[o] = cwd[o], verdict'[o] = verdict[o],
           \A x \in Calls \ {c} : dir'[x] = dir[x],
           dir[c] \in {NoDir, dir'[c]},
           \A d \in Dirs : d # dir'[c] => /\ exists'[d] = exists[d]
                                        /\ src'[d] = src[d] /\ bin'[d] = bin[d],
           Alone(o)'
    PROVE  OnTrack(o)'
<1>1. Named(o)
  BY DEF AloneInv
<1>2. CASE dir[o] = NoDir
  <2>1. pc'[o] \in {"start", "killed"} /\ verdict'[o] = "none"
    BY <1>1, <1>2, DirsAssumption DEF Named
  <2>. QED  BY <2>1 DEF OnTrack, Has, Inside, Wrote, Built
<1>3. CASE dir[o] \in Dirs
  <2>1. dir'[o] = dir[o] /\ dir'[c] # dir[o]
    BY DEF Alone
  <2>2. Alone(o)
    BY <1>3, <2>1, DirsAssumption DEF Alone
  <2>3. OnTrack(o)
    BY <2>2 DEF AloneInv
  <2>. QED  BY <1>3, <2>1, <2>3 DEF OnTrack, Has, Inside, Wrote, Built, Truth
<1>. QED  BY <1>1, <1>2, <1>3 DEF Named

(* The step itself, of a call in any branch but python and rust. *)
LEMMA AloneStep ==
    ASSUME AloneInv, lang \notin {"rust", "python"}, NEW c \in Calls, DirStep(c)
    PROVE  /\ Data' /\ Named(c)' /\ (Alone(c)' => OnTrack(c)')
           /\ lang' = lang
           /\ \A o \in Calls \ {c} : /\ pc'[o] = pc[o] /\ cwd'[o] = cwd[o] /\ dir'[o] = dir[o]
                                     /\ verdict'[o] = verdict[o]
           /\ dir[c] \in {NoDir, dir'[c]}
           /\ \A d \in Dirs : d # dir'[c] => /\ exists'[d] = exists[d]
                                            /\ src'[d] = src[d] /\ bin'[d] = bin[d]
<1>1. /\ lang' = lang /\ lang \in Langs
      /\ exists \in [Dirs -> Nat] /\ made \in Nat /\ pc \in [Calls -> Places]
      /\ dir \in [Calls -> Dirs \union {NoDir}]
      /\ \A d \in Dirs : exists[d] # 0 => \E o \in Calls : dir[o] = d
  BY DEF AloneInv, DirInv, DirStep, Reclaimed
<1>2. /\ verdict \in [Calls -> Verdicts] /\ cwd \in [Calls -> Nat]
      /\ src \in [Dirs -> Calls \union {Nobody}] /\ bin \in [Dirs -> Calls \union {Nobody}]
  BY DEF AloneInv, Data
<1>3. Named(c) /\ (Alone(c) => OnTrack(c))
  BY DEF AloneInv
<1>4. Ways
  BY <1>1, WaysThrough
<1>5. pc[c] \in BranchSteps \/ pc[c] \in {"start", "done", "crashed", "killed"}
  BY <1>1 DEF Places
<1>6. /\ After("makedirs") = IF lang = "java" THEN "write" ELSE "chdir"
      /\ After("chdir") = IF lang = "java" THEN "compile" ELSE "write"
      /\ After("write") = IF lang = "java" THEN "chdir"
                          ELSE IF lang \in Compiled THEN "compile" ELSE "run"
  BY <1>4 DEF Ways
<1>7. CASE DrawName(c)
  <2>1. PICK d \in Dirs : /\ dir' = [dir EXCEPT ![c] = d]
                          /\ pc' = [pc EXCEPT ![c] = IF exists[d] = 0 THEN "makedirs" ELSE After("makedirs")]
    BY <1>7 DEF DrawName, Goto
  <2>2. pc[c] = "start" /\ UNCHANGED <<cwd, exists, made, src, bin, verdict>>
    BY <1>7 DEF DrawName
  <2>3. dir[c] = NoDir /\ verdict[c] = "none"
    BY <1>3, <2>2 DEF Named
  <2>4. dir'[c] = d /\ \A o \in Calls \ {c} : dir'[o] = dir[o] /\ pc'[o] = pc[o]
    BY <1>1, <2>1
  <2>5. Alone(c)' => exists[d] = 0
    <3>1. \A o \in Calls : dir[o] = d => o # c
      BY <2>3, DirsAssumption
    <3>. QED  BY <1>1, <2>4, <3>1 DEF Alone
  <2>6. Alone(c)' => OnTrack(c)'
    BY <1>1, <2>1, <2>2, <2>3, <2>4, <2>5 DEF OnTrack, Has, Inside, Wrote, Built
  <2>7. Named(c)'
    BY <1>1, <1>6, <2>1, <2>4 DEF Named
  <2>. QED  BY <1>1, <1>2, <2>2, <2>3, <2>4, <2>6, <2>7 DEF Data
<1>8. CASE MkDTemp(c) \/ Cleanup(c)
  BY <1>3, <1>4, <1>5, <1>8 DEF MkDTemp, Cleanup, Ways
<1>9. CASE ~DrawName(c) /\ ~MkDTemp(c)
  <2>1. dir' = dir /\ dir[c] \in Dirs /\ pc[c] # "start" /\ (Alone(c)' => Alone(c) /\ OnTrack(c))
    <3>1. dir' = dir /\ pc[c] \notin {"start", "killed"}
      BY <1>9 DEF DirStep, MakeDirs, ChDir, Write, Compile, Compiling, Run, Running, RmTree, Cleanup
    <3>. QED  BY <1>3, <3>1 DEF Named, Alone
  <2>2. CASE MakeDirs(c)
    <3>1. CASE exists[dir[c]] = 0
      <4>1. /\ exists' = [exists EXCEPT ![dir[c]] = made + 1] /\ made + 1 # 0
            /\ src' = [src EXCEPT ![dir[c]] = Nobody] /\ bin' = [bin EXCEPT ![dir[c]] = Nobody]
            /\ pc' = [pc EXCEPT ![c] = IF lang = "java" THEN "write" ELSE "chdir"]
            /\ UNCHANGED <<cwd, verdict>>
        BY <1>1, <1>6, <2>2, <3>1 DEF MakeDirs, Make, Goto
      <4>2. Alone(c)' => OnTrack(c)'
        BY <1>1, <2>1, <4>1 DEF OnTrack, Has, Inside, Wrote, Built, Truth
      <4>. QED  BY <1>1, <1>2, <2>1, <4>1, <4>2 DEF Data, Named
    <3>2. CASE exists[dir[c]] # 0
      <4>1. /\ pc' = [pc EXCEPT ![c] = "crashed"]
            /\ pc[c] = "makedirs" /\ UNCHANGED <<exists, src, bin, cwd, verdict>>
        BY <2>2, <3>2 DEF MakeDirs, Goto
      <4>2. ~Alone(c)'
        BY <2>1, <3>2, <4>1 DEF OnTrack
      <4>. QED  BY <1>1, <1>2, <2>1, <4>1, <4>2 DEF Data, Named
    <3>. QED  BY <3>1, <3>2
  <2>3. CASE ChDir(c)
    <3>1. /\ pc[c] = "chdir" /\ cwd' = [cwd EXCEPT ![c] = exists[dir[c]]]
          /\ pc' = [pc EXCEPT ![c] = IF exists[dir[c]] = 0 THEN "crashed"
                                     ELSE IF lang = "java" THEN "compile" ELSE "write"]
          /\ UNCHANGED <<exists, src, bin, verdict>>
      BY <1>6, <2>3 DEF ChDir, Goto
    <3>2. Alone(c)' => OnTrack(c)'
      BY <1>1, <1>2, <2>1, <3>1 DEF OnTrack, Has, Inside, Wrote, Built, Truth
    <3>. QED  BY <1>1, <1>2, <2>1, <3>1, <3>2 DEF Data, Named
  <2>4. CASE Write(c)
    <3>1. pc[c] = "write" /\ UNCHANGED <<cwd, exists, bin, verdict>>
      BY <2>4 DEF Write
    <3>2. \/ /\ src' = [src EXCEPT ![dir[c]] = c]
             /\ pc' = [pc EXCEPT ![c] = IF lang = "java" THEN "chdir"
                                        ELSE IF lang \in Compiled THEN "compile" ELSE "run"]
          \/ pc' = [pc EXCEPT ![c] = "crashed"] /\ src' = src /\ ~Alone(c)'
      BY <1>6, <2>1, <2>4 DEF Write, Goto, OnTrack, Has, Inside, InPlace
    <3>3. Alone(c)' => OnTrack(c)'
      BY <1>1, <1>2, <2>1, <3>1, <3>2 DEF OnTrack, Has, Inside, Wrote, Built, Truth, Compiled
    <3>. QED  BY <1>1, <1>2, <2>1, <3>1, <3>2, <3>3 DEF Data, Named
  <2>5. ASSUME pc[c] \in {"compile", "run", "recompile", "rerun"},
               NEW v \in {"passed", "failed"}, Judge(c, v), UNCHANGED <<exists, cwd, src, bin>>,
               Alone(c) => v = Truth(c)
        PROVE  /\ Data' /\ Named(c)' /\ (Alone(c)' => OnTrack(c)')
               /\ \A o \in Calls \ {c} : pc'[o] = pc[o] /\ verdict'[o] = verdict[o]
    <3>1. /\ verdict' = [verdict EXCEPT ![c] = v]
          /\ pc' = [pc EXCEPT ![c] = "recompile"] \/ pc' = [pc EXCEPT ![c] = "rmtree"]
      BY <2>5 DEF Judge, Post, Goto
    <3>2. verdict' \in [Calls -> Verdicts]
      BY <1>2, <3>1 DEF Verdicts
    <3>3. Alone(c)' => OnTrack(c)'
      BY <1>1, <1>2, <2>1, <2>5, <3>1 DEF OnTrack, Has, Inside, Wrote, Built, Truth
    <3>. QED  BY <1>1, <1>2, <2>1, <2>5, <3>1, <3>2, <3>3 DEF Data, Named
  <2>6. CASE Compile(c)
    <3>1. pc[c] \in {"compile", "recompile"} /\ UNCHANGED <<cwd, exists, src>>
          /\ lang \in Compiled
          /\ After(pc[c]) = IF pc[c] = "compile" THEN "run" ELSE "rerun"
      BY <1>4, <1>5, <2>6 DEF Compile, Compiling, Ways, Compiled
    <3>2. CASE InPlace(c) /\ src[dir[c]] \notin Broken
      <4>1. /\ bin' = [bin EXCEPT ![dir[c]] = src[dir[c]]] /\ verdict' = verdict
            /\ pc' = [pc EXCEPT ![c] = IF pc[c] = "compile" THEN "run" ELSE "rerun"]
        BY <2>6, <3>1, <3>2 DEF Compile, Goto
      <4>2. Alone(c)' => OnTrack(c)'
        BY <1>1, <1>2, <2>1, <3>1, <3>2, <4>1 DEF OnTrack, Has, Inside, Wrote, Built, Truth
      <4>. QED  BY <1>1, <1>2, <2>1, <3>1, <4>1, <4>2 DEF Data, Named
    <3>3. CASE ~(InPlace(c) /\ src[dir[c]] \notin Broken)
      <4>1. Judge(c, "failed") /\ bin' = bin
        BY <2>6, <3>3 DEF Compile
      <4>2. Alone(c) => Truth(c) = "failed"
        BY <1>3, <3>1, <3>3, CallsAssumption DEF OnTrack, Inside, Wrote, InPlace, Truth
      <4>. QED  BY <1>1, <2>1, <2>5, <3>1, <4>1, <4>2
    <3>. QED  BY <3>2, <3>3
  <2>7. CASE Run(c)
    <3>1. /\ pc[c] \in {"run", "rerun"} /\ UNCHANGED <<cwd, exists, src, bin>>
          /\ Compiles <=> lang \in Compiled
      BY <1>4, <2>7 DEF Run, Running, Ways
    <3>2. CASE InPlace(c)
      <4>1. PICK v \in {"passed", "failed"} :
              Judge(c, v) /\ v = IF Program(c) \in Good THEN "passed" ELSE "failed"
        BY <2>7, <3>2 DEF Run
      <4>2. Alone(c) => Program(c) = c
        BY <1>3, <3>1 DEF OnTrack, Wrote, Built, Program
      <4>3. Alone(c) => v = Truth(c)
        BY <4>1, <4>2 DEF Truth
      <4>. QED  BY <1>1, <2>1, <2>5, <3>1, <4>1, <4>3
    <3>3. CASE ~InPlace(c)
      <4>1. ~Alone(c)
        BY <1>3, <3>1, <3>3 DEF OnTrack, Inside, InPlace
      <4>2. PICK m \in {"passed", "failed", "crashed"} :
              IF m = "crashed" THEN Goto(c, m) /\ verdict' = verdict ELSE Judge(c, m)
        BY <1>1, <2>7, <3>3, MissingFacts DEF Run
      <4>3. CASE m = "crashed"
        BY <1>1, <1>2, <2>1, <3>1, <4>1, <4>2, <4>3 DEF Goto, Data, Named
      <4>4. CASE m # "crashed"
        BY <1>1, <2>1, <2>5, <3>1, <4>1, <4>2, <4>4
      <4>. QED  BY <4>3, <4>4
    <3>. QED  BY <3>2, <3>3
  <2>8. CASE RmTree(c)
    <3>1. /\ pc[c] = "rmtree" /\ UNCHANGED <<cwd, made, src, bin, verdict>>
          /\ pc' = [pc EXCEPT ![c] = IF exists[dir[c]] = 0 THEN "crashed" ELSE "done"]
          /\ exists' = [exists EXCEPT ![dir[c]] = 0]
      BY <2>8 DEF RmTree, Goto
    <3>2. Alone(c)' => OnTrack(c)'
      BY <1>1, <2>1, <3>1 DEF OnTrack, Has, Inside, Wrote, Built, Truth
    <3>. QED  BY <1>1, <1>2, <2>1, <3>1, <3>2 DEF Data, Named
  <2>. QED  BY <1>8, <1>9, <2>2, <2>3, <2>4, <2>6, <2>7, <2>8 DEF DirStep
<1>. QED  BY <1>7, <1>8, <1>9

(* python: tempfile gives no directory out twice while it exists. *)
LEMMA OwnTempStep ==
    ASSUME AloneInv, lang = "python", NEW c \in Calls, DirStep(c)
    PROVE  Data' /\ \A o \in Calls : Named(o)' /\ OwnTemp(o)'
<1>1. /\ lang' = lang /\ lang \in Langs
      /\ exists \in [Dirs -> Nat] /\ made \in Nat /\ pc \in [Calls -> Places]
      /\ dir \in [Calls -> Dirs \union {NoDir}]
  BY DEF AloneInv, DirInv, DirStep
<1>2. /\ verdict \in [Calls -> Verdicts] /\ cwd \in [Calls -> Nat]
      /\ src \in [Dirs -> Calls \union {Nobody}] /\ bin \in [Dirs -> Calls \union {Nobody}]
  BY DEF AloneInv, Data
<1>3. \A o \in Calls : Named(o) /\ OwnTemp(o)
  BY DEF AloneInv
<1>4. /\ pc[c] \in {"mkdtemp", "chdir", "run", "cleanup", "start", "done", "crashed", "killed"}
      /\ After("mkdtemp") = "chdir" /\ After("chdir") = "run" /\ After("run") = "cleanup"
  BY <1>1, WaysThrough DEF Places, Ways
<1>5. CASE MkDTemp(c)
  <2>0. made + 1 # 0
    BY <1>1
  <2>1. PICK d \in Dirs : /\ exists[d] = 0 /\ dir' = [dir EXCEPT ![c] = d]
                          /\ exists' = [exists EXCEPT ![d] = made + 1] /\ made' = made + 1
                          /\ src' = [src EXCEPT ![d] = Nobody] /\ bin' = [bin EXCEPT ![d] = Nobody]
    BY <1>5 DEF MkDTemp, Make
  <2>2. pc[c] = "start" /\ pc' = [pc EXCEPT ![c] = "chdir"] /\ UNCHANGED <<cwd, verdict>>
    BY <1>4, <1>5 DEF MkDTemp, Goto
  <2>3. \A o \in Calls : InUse(o) => dir[o] \in Dirs /\ dir[o] # d
    BY <1>3, <2>1, DirsAssumption DEF Named, OwnTemp, InUse
  <2>4. \A o \in Calls : OwnTemp(o)'
    BY <1>1, <1>3, <2>0, <2>1, <2>2, <2>3 DEF OwnTemp, InUse, Truth
  <2>. QED  BY <1>1, <1>2, <1>3, <2>1, <2>2, <2>4 DEF Data, Named
<1>6. CASE ChDir(c)
  <2>1. /\ pc[c] = "chdir" /\ pc' = [pc EXCEPT ![c] = "run"]
        /\ cwd' = [cwd EXCEPT ![c] = exists[dir[c]]] /\ exists[dir[c]] \in Nat
        /\ UNCHANGED <<dir, exists, made, src, bin, verdict>>
    BY <1>1, <1>3, <1>4, <1>6 DEF ChDir, Goto, OwnTemp, InUse, Named
  <2>2. \A o \in Calls : OwnTemp(o)'
    BY <1>1, <1>3, <2>1 DEF OwnTemp, InUse, Truth
  <2>. QED  BY <1>1, <1>2, <1>3, <2>1, <2>2 DEF Data, Named
<1>7. CASE Run(c)
  <2>1. pc[c] = "run" /\ UNCHANGED <<dir, cwd, exists, made, src, bin>>
    BY <1>4, <1>7 DEF Run, Running
  <2>2. /\ pc' = [pc EXCEPT ![c] = "cleanup"]
        /\ verdict' = [verdict EXCEPT ![c] = Truth(c)] /\ Truth(c) \in Verdicts \ {"none"}
    BY <1>4, <1>7 DEF Run, Judge, Post, Goto, Program, Truth, Verdicts
  <2>3. \A o \in Calls : OwnTemp(o)'
    BY <1>1, <1>2, <1>3, <2>1, <2>2 DEF OwnTemp, InUse, Truth
  <2>. QED  BY <1>1, <1>2, <1>3, <2>1, <2>2, <2>3 DEF Data, Named
<1>8. CASE Cleanup(c)
  <2>1. /\ pc[c] = "cleanup" /\ UNCHANGED <<dir, cwd, made, src, bin, verdict>>
        /\ pc' = [pc EXCEPT ![c] = "done"] \/ pc' = [pc EXCEPT ![c] = "crashed"]
        /\ exists' = [exists EXCEPT ![dir[c]] = 0] \/ exists' = exists
    BY <1>8 DEF Cleanup, Goto
  <2>2. \A o \in Calls \ {c} : InUse(o) => dir[o] \in Dirs /\ exists'[dir[o]] = exists[dir[o]]
    BY <1>1, <1>3, <2>1 DEF OwnTemp, InUse, Named
  <2>3. \A o \in Calls : InUse(o)' => o # c /\ InUse(o)
    BY <1>1, <2>1 DEF InUse
  <2>4. \A o \in Calls : pc'[o] \in {"cleanup", "crashed"} => verdict[o] # "none"
    BY <1>1, <1>3, <2>1 DEF OwnTemp
  <2>5. \A o \in Calls : OwnTemp(o)'
    BY <1>1, <1>3, <2>1, <2>2, <2>3, <2>4 DEF OwnTemp, Truth
  <2>. QED  BY <1>1, <1>2, <1>3, <2>1, <2>5 DEF Data, Named
<1>. QED
  BY <1>4, <1>5, <1>6, <1>7, <1>8
  DEF DirStep, DrawName, MakeDirs, Write, Compile, Compiling, RmTree

LEMMA AloneInvNext == AloneInv /\ [Next]_vars => AloneInv'
<1> SUFFICES ASSUME AloneInv, [Next]_vars PROVE AloneInv'
  OBVIOUS
<1>1. DirInv'
  BY DirInvNext DEF AloneInv
<1>2. ASSUME lang \notin {"rust", "python"}, NEW c \in Calls, DirStep(c) PROVE AloneInv'
  <2>1. /\ Data' /\ Named(c)' /\ (Alone(c)' => OnTrack(c)') /\ lang' = lang
        /\ \A o \in Calls \ {c} : /\ pc'[o] = pc[o] /\ cwd'[o] = cwd[o] /\ dir'[o] = dir[o]
                                  /\ verdict'[o] = verdict[o]
        /\ dir[c] \in {NoDir, dir'[c]}
        /\ \A d \in Dirs : d # dir'[c] => /\ exists'[d] = exists[d]
                                         /\ src'[d] = src[d] /\ bin'[d] = bin[d]
    BY <1>2, AloneStep, Zenon
  <2>2. \A o \in Calls : Named(o)'
    BY <1>2, <2>1 DEF AloneInv, Named
  <2>3. ASSUME NEW o \in Calls, Alone(o)' PROVE OnTrack(o)'
    <3>1. CASE o = c
      BY <2>1, <2>3, <3>1
    <3>2. CASE o # c
      BY <1>2, <2>1, <2>3, <3>2, OthersOnTrack
    <3>. QED  BY <3>1, <3>2
  <2>. QED  BY <1>1, <1>2, <2>1, <2>2, <2>3 DEF AloneInv
<1>3. ASSUME lang = "python", NEW c \in Calls, DirStep(c) PROVE AloneInv'
  <2>1. lang' = "python"
    BY <1>3 DEF DirStep
  <2>2. Data' /\ \A o \in Calls : Named(o)' /\ OwnTemp(o)'
    BY <1>3, OwnTempStep
  <2>. QED  BY <1>1, <2>1, <2>2 DEF AloneInv
<1>4. ASSUME lang = "rust", NEW c \in Calls, RustStep(c) PROVE AloneInv'
  BY <1>1, <1>4 DEF AloneInv, RustStep
<1>5. ASSUME NEW c \in Calls, Kill(c), UNCHANGED dirvars PROVE AloneInv'
  <2> SUFFICES ASSUME lang # "rust"
               PROVE  /\ Data' /\ \A o \in Calls : Named(o)'
                      /\ lang # "python" => \A o \in Calls : Alone(o)' => OnTrack(o)'
                      /\ lang = "python" => \A o \in Calls : OwnTemp(o)'
    BY <1>1, <1>5 DEF AloneInv, Kill
  <2>1. /\ pc' = [pc EXCEPT ![c] = "killed"] /\ UNCHANGED <<lang, verdict>>
        /\ UNCHANGED <<dir, cwd, exists, made, src, bin>>
        /\ pc \in [Calls -> Places]
    BY <1>5 DEF Kill, Goto, dirvars, AloneInv, DirInv
  <2>2. Data' /\ \A o \in Calls : Named(o)'
    BY <2>1 DEF AloneInv, Data, Named
  <2>3. lang # "python" => \A o \in Calls : Alone(o)' => OnTrack(o)'
    BY <2>1 DEF AloneInv, Alone, OnTrack, Has, Inside, Wrote, Built, Truth
  <2>4. lang = "python" => \A o \in Calls : OwnTemp(o)'
    BY <2>1 DEF AloneInv, OwnTemp, InUse, Truth
  <2>. QED  BY <2>2, <2>3, <2>4
<1>6. CASE UNCHANGED vars
  BY <1>1, <1>6
  DEF AloneInv, vars, dirvars, Data, Named, Alone, OnTrack, Has, Inside, Wrote, Built,
      OwnTemp, InUse, Truth
<1>. QED  BY <1>2, <1>3, <1>4, <1>5, <1>6 DEF Next, AllEnded

(* A call that shares its directory with no other has its own verdict, and is not
   disturbed: however many calls and names there are, and whoever is killed. *)
THEOREM AloneMeansRight == Spec => []AloneIsCorrect
<1>1. AloneInv => AloneIsCorrect
  BY DEF AloneInv, OnTrack, OwnTemp, AloneIsCorrect
<1>. QED  BY <1>1, AloneInvInit, AloneInvNext, PTL DEF Spec

-----------------------------------------------------------------------------
(* Directories: who can spoil a verdict *)

\* What lies in a directory is of a call that drew its name.
Owned == \A d \in Dirs : \A o \in Calls : src[d] = o \/ bin[d] = o => dir[o] = d

DamageInv ==
    /\ AloneInv
    /\ lang # "rust" => Owned /\ DamageConfined

LEMMA DamageInvStep ==
    ASSUME DamageInv, lang # "rust", NEW c \in Calls, DirStep(c)
    PROVE  Owned' /\ DamageConfined'
<1>1. /\ lang' = lang /\ lang \in Langs
      /\ dir \in [Calls -> Dirs \union {NoDir}]
      /\ verdict \in [Calls -> Verdicts]
      /\ src \in [Dirs -> Calls \union {Nobody}] /\ bin \in [Dirs -> Calls \union {Nobody}]
      /\ Named(c) /\ (lang # "python" /\ Alone(c) => OnTrack(c))
  BY DEF DamageInv, AloneInv, DirInv, Data, DirStep
<1>2. Owned
  BY DEF DamageInv
<1>3. \A o \in Calls : verdict[o] = "passed" =>
        \E x \in Calls : dir[x] = dir[o] /\ (x \in Good \/ (lang = "cs" /\ x # o))
  BY DEF DamageInv, DamageConfined
<1>4. CASE DrawName(c) \/ MkDTemp(c)
  <2>1. PICK n \in Dirs : /\ dir' = [dir EXCEPT ![c] = n] /\ verdict' = verdict /\ pc[c] = "start"
                          /\ \A d \in Dirs : src'[d] \in {src[d], Nobody} /\ bin'[d] \in {bin[d], Nobody}
    BY <1>1, <1>4 DEF DrawName, MkDTemp, Make
  <2>2. dir[c] = NoDir /\ verdict[c] = "none"
    BY <1>1, <2>1 DEF Named
  <2>3. \A d \in Dirs : dir[c] # d
    BY <2>2, DirsAssumption
  <2>4. \A o \in Calls \ {c} : dir'[o] = dir[o]
    BY <1>1, <2>1
  <2>5. Owned'
    BY <1>2, <2>1, <2>3, <2>4, CallsAssumption DEF Owned
  <2>6. ASSUME NEW o \in Calls, verdict'[o] = "passed"
        PROVE  \E x \in Calls : dir'[x] = dir'[o] /\ (x \in Good \/ (lang = "cs" /\ x # o))
    <3>1. o # c /\ dir'[o] = dir[o]
      BY <2>1, <2>2, <2>4, <2>6
    <3>2. PICK x \in Calls : dir[x] = dir[o] /\ (x \in Good \/ (lang = "cs" /\ x # o))
      BY <1>3, <2>1, <2>6
    <3>3. dir[o] # NoDir
      <4>1. Named(o)
        BY DEF DamageInv, AloneInv
      <4>. QED  BY <2>1, <2>6, <4>1, DirsAssumption DEF Named
    <3>4. x # c
      BY <2>2, <3>2, <3>3
    <3>. QED  BY <2>4, <3>1, <3>2, <3>4
  <2>. QED  BY <1>1, <2>5, <2>6 DEF DamageConfined
<1>5. CASE \/ MakeDirs(c) \/ ChDir(c) \/ Write(c) \/ RmTree(c) \/ Cleanup(c)
  <2>1. /\ UNCHANGED <<dir, verdict>>
        /\ \A d \in Dirs : /\ src'[d] \in {src[d], Nobody} \/ (src'[d] = c /\ d = dir[c])
                          /\ bin'[d] \in {bin[d], Nobody}
    BY <1>1, <1>5 DEF MakeDirs, Make, ChDir, Write, RmTree, Cleanup
  <2>2. Owned'
    BY <1>2, <2>1, CallsAssumption DEF Owned
  <2>3. DamageConfined'
    BY <1>1, <1>3, <2>1 DEF DamageConfined
  <2>. QED  BY <2>2, <2>3
<1>6. ASSUME NEW v, Judge(c, v), UNCHANGED <<dir, src, bin>>,
             v = "passed" => \E x \in Calls : dir[x] = dir[c] /\ (x \in Good \/ (lang = "cs" /\ x # c))
      PROVE  DamageConfined'
  <2>1. verdict' = [verdict EXCEPT ![c] = v]
    BY <1>6 DEF Judge, Post
  <2>. QED  BY <1>1, <1>3, <1>6, <2>1 DEF DamageConfined
<1>7. CASE Compile(c)
  <2>1. CASE InPlace(c) /\ src[dir[c]] \notin Broken
    <3>1. /\ bin' = [bin EXCEPT ![dir[c]] = src[dir[c]]] /\ UNCHANGED <<dir, src, verdict>>
      BY <1>7, <2>1 DEF Compile
    <3>2. Owned'
      BY <1>1, <1>2, <3>1 DEF Owned
    <3>3. DamageConfined'
      BY <1>1, <1>3, <3>1 DEF DamageConfined
    <3>. QED  BY <3>2, <3>3
  <2>2. CASE ~(InPlace(c) /\ src[dir[c]] \notin Broken)
    <3>1. Judge(c, "failed") /\ UNCHANGED <<dir, src, bin>>
      BY <1>7, <2>2 DEF Compile
    <3>2. DamageConfined'
      BY <1>6, <3>1
    <3>. QED  BY <1>2, <3>1, <3>2 DEF Owned
  <2>. QED  BY <2>1, <2>2
<1>8. CASE Run(c)
  <2>1. UNCHANGED <<dir, src, bin>> /\ pc[c] \in {"run", "rerun"}
    BY <1>8 DEF Run, Running
  <2>2. dir[c] \in Dirs
    BY <1>1, <2>1 DEF Named
  <2>3. DamageConfined'
    <3>1. CASE lang = "python" \/ InPlace(c)
      <4>1. Judge(c, IF Program(c) \in Good THEN "passed" ELSE "failed")
        BY <1>8, <3>1 DEF Run
      <4>2. Program(c) \in Good => Program(c) \in Calls /\ dir[Program(c)] = dir[c]
        BY <1>2, <2>2, CallsAssumption DEF Program, Owned
      <4>. QED  BY <1>6, <2>1, <4>1, <4>2
    <3>2. CASE ~(lang = "python" \/ InPlace(c))
      <4>1. PICK m \in Branch.missing :
              IF m = "crashed" THEN Goto(c, m) /\ verdict' = verdict ELSE Judge(c, m)
        BY <1>8, <3>2 DEF Run
      <4>2. m = "passed" => lang = "cs"
        BY <1>1, <4>1, MissingFacts
      <4>3. \E x \in Calls : dir[x] = dir[c] /\ x # c
        BY <1>1, <2>1, <3>2 DEF OnTrack, Inside, InPlace, Alone
      <4>4. CASE m = "crashed"
        BY <1>1, <1>3, <2>1, <4>1, <4>4 DEF DamageConfined
      <4>5. CASE m # "crashed"
        BY <1>6, <2>1, <4>1, <4>2, <4>3, <4>5
      <4>. QED  BY <4>4, <4>5
    <3>. QED  BY <3>1, <3>2
  <2>. QED  BY <1>2, <2>1, <2>3 DEF Owned
<1>. QED  BY <1>4, <1>5, <1>7, <1>8 DEF DirStep

(* A wrong "passed" needs another call that drew the same name. *)
THEOREM DamageIsConfined == Spec => []DamageConfined
<1>1. Init => DamageInv
  <2> SUFFICES ASSUME Init PROVE DamageInv
    OBVIOUS
  <2>1. AloneInv
    BY AloneInvInit
  <2>. QED  BY <2>1, CallsAssumption DEF Init, CallsInit, DirsInit, DamageInv, DamageConfined, Owned
<1>2. DamageInv /\ [Next]_vars => DamageInv'
  <2> SUFFICES ASSUME DamageInv, [Next]_vars PROVE DamageInv'
    OBVIOUS
  <2>1. AloneInv'
    BY AloneInvNext DEF DamageInv
  <2>2. ASSUME lang # "rust", NEW c \in Calls, DirStep(c) PROVE DamageInv'
    BY <2>1, <2>2, DamageInvStep DEF DamageInv
  <2>3. CASE UNCHANGED <<lang, dir, src, bin, verdict>>
    BY <2>1, <2>3 DEF DamageInv, DamageConfined, Owned
  <2>4. CASE lang = "rust" /\ lang' = lang
    BY <2>1, <2>4 DEF DamageInv
  <2>. QED  BY <2>2, <2>3, <2>4 DEF Next, RustStep, Kill, AllEnded, vars, dirvars
<1>3. DamageInv => DamageConfined
  BY DEF DamageInv, DamageConfined
<1>. QED  BY <1>1, <1>2, <1>3, PTL DEF Spec
=============================================================================
