--------------------------- MODULE DistEvalProofs ---------------------------
(***************************************************************************)
(* Proofs about DistEval, for any number of ranks, prompts and jobs: what  *)
(* the barriers around the merge are good for.                             *)
(***************************************************************************)
EXTENDS DistEval, TLAPS

Places == {"open", "generate", "barrier", "merge", "copy", "barrier2", "end", "done", "failed"}

\* Contents of a log.
Records == Seq(Nat \X Nat)

\* Ranks that wait are at a barrier.
WaitingRanks == waiting = {r \in Ranks : pc[r] \in {"barrier", "barrier2"}}

\* While the local main process merges, the others have nothing left to do in
\* this evaluation, and with the barrier behind the score cannot leave it.
Merging == pc[0] \in {"merge", "copy", "barrier2"}

OthersRest ==
    /\ Merging => \A r \in Ranks \ {0} :
         /\ benchmark = "HumanEval" => pc[r] \in {"barrier2", "failed"}
         /\ benchmark = "MBPP" => pc[r] \in {"end", "done", "failed"}
    /\ \A r \in Ranks \ {0} : pc[r] \notin {"merge", "copy"}
    /\ \A r \in Ranks : pc[r] = "barrier2" => /\ benchmark = "HumanEval"
                                              /\ pc[0] \in {"merge", "copy", "barrier2", "failed"}

\* The evaluation a rank is in or goes to; all that take part agree on it.
Round(r)  == IF pc[r] = "end" THEN job[r] + 1 ELSE job[r]
InRound(r) == pc[r] \in {"open", "generate", "barrier", "end"}

JobsAgree ==
    /\ benchmark = "MBPP" => \A r \in Ranks : job[r] = job[0]
    /\ Merging => \A r \in Ranks : job[r] = job[0]
    /\ benchmark = "HumanEval" =>
         \A r, s \in Ranks : InRound(r) /\ InRound(s) => Round(r) = Round(s)

\* A rank has its log from its opening until the merge.
LogsOpen ==
    /\ \A r \in Ranks : pc[r] \in {"generate", "barrier"} => log[r] # NoFile
    /\ pc[0] = "merge" => \A r \in Ranks : log[r] # NoFile
    /\ pc[0] = "copy" => \A r \in merged .. Size - 1 : log[r] # NoFile

IInv ==
    /\ benchmark \in {"HumanEval", "MBPP"}
    /\ pc \in [Ranks -> Places] /\ job \in [Ranks -> Nat]
    /\ generated \in [Ranks -> Nat] /\ merged \in Nat
    /\ DOMAIN log = Ranks /\ \A r \in Ranks : log[r] # NoFile => log[r] \in Records
    /\ WaitingRanks
    /\ OthersRest
    /\ JobsAgree
    /\ LogsOpen

LEMMA Constants ==
    /\ Size \in Nat \ {0} /\ Prompts \in Nat /\ NSample \in Nat \ {0}
    /\ BatchSize \in Nat \ {0} /\ Jobs \in Nat \ {0}
    /\ NoFile \notin Records /\ 0 \in Ranks /\ Ranks \subseteq Nat
BY DistAssumption DEF Ranks, Records

LEMMA IsASeq == \A S, n : n \in Nat => [1 .. n -> S] \subseteq Seq(S)
OBVIOUS

(* The parts of array_split are indices of samples. *)
LEMMA IndicesAreNumbers ==
    ASSUME NEW r \in Ranks
    PROVE  Indices(r) \in Seq(Nat) /\ Len(Indices(r)) \in Nat
<1> DEFINE q == Prompts \div Size
           m == Prompts % Size
<1>1. q \in Nat /\ m \in Nat
  BY Constants
<1>2. Split(r).first \in Nat /\ Split(r).count \in Nat
  <2>1. r \in Nat
    BY Constants
  <2>2. CASE r < m
    <3>1. Split(r) = [first |-> r * (q + 1), count |-> q + 1]
      BY <2>2 DEF Split
    <3>. QED  BY <1>1, <2>1, <3>1
  <2>3. CASE ~(r < m)
    <3>1. Split(r) = [first |-> m * (q + 1) + (r - m) * q, count |-> q]
      BY <2>3 DEF Split
    <3>2. r - m \in Nat
      BY <1>1, <2>1, <2>3
    <3>3. m * (q + 1) \in Nat /\ (r - m) * q \in Nat
      BY <1>1, <3>2
    <3>. QED  BY <1>1, <3>1, <3>3
  <2>. QED  BY <2>2, <2>3
<1> HIDE DEF q, m
<1>3. Split(r).count * NSample \in Nat /\ Split(r).first * NSample \in Nat
  BY <1>2, Constants
<1>4. \A i \in 1 .. Split(r).count * NSample : Split(r).first * NSample + i - 1 \in Nat
  BY <1>3
<1>. QED  BY <1>3, <1>4 DEF Indices

(* A batch is appended to the log as records. *)
LEMMA BatchIsRecords ==
    ASSUME IInv, NEW r \in Ranks, Generate(r)
    PROVE  /\ generated' \in [Ranks -> Nat] /\ DOMAIN log' = Ranks
           /\ \A s \in Ranks : (log'[s] = NoFile <=> log[s] = NoFile)
                               /\ (log'[s] # NoFile => log'[s] \in Records)
<1> DEFINE from == generated[r]
           to == Smaller(from + BatchSize, Len(Indices(r)))
           batch == [i \in 1 .. to - from |-> <<job[r], Indices(r)[from + i]>>]
<1>1. from \in Nat /\ Len(Indices(r)) \in Nat /\ Indices(r) \in Seq(Nat)
  BY IndicesAreNumbers DEF IInv
<1>2. to \in Nat /\ from < to /\ to <= Len(Indices(r))
  BY <1>1, Constants DEF Generate, Smaller
<1>3. batch \in Records
  <2>1. \A i \in 1 .. to - from : Indices(r)[from + i] \in Nat
    BY <1>1, <1>2
  <2>2. job[r] \in Nat
    BY DEF IInv
  <2>3. to - from \in Nat
    BY <1>1, <1>2
  <2>4. \A i \in 1 .. to - from : batch[i] \in Nat \X Nat
    BY <2>1, <2>2
  <2>5. batch \in [1 .. to - from -> Nat \X Nat]
    BY <2>4
  <2> HIDE DEF from, to, batch
  <2>. QED  BY <2>3, <2>5, IsASeq DEF Records
<1>4. /\ generated' = [generated EXCEPT ![r] = to]
      /\ log' = IF log[r] = NoFile THEN log ELSE [log EXCEPT ![r] = @ \o batch]
  BY DEF Generate
<1> HIDE DEF from, to, batch
<1>5. log[r] # NoFile => log[r] \o batch \in Records
  BY <1>3 DEF IInv, Records
<1>. QED  BY <1>2, <1>4, <1>5, Constants DEF IInv

LEMMA InitIInv == Init => IInv
<1> SUFFICES ASSUME Init PROVE IInv
  OBVIOUS
<1>1. 0 \in Ranks
  BY Constants
<1>. QED
  BY <1>1 DEF Init, IInv, Places, WaitingRanks, OthersRest, Merging, JobsAgree, Round, InRound, LogsOpen

(* The steps of a rank on its own. *)
LEMMA RankIInv == ASSUME IInv, NEW r \in Ranks, Rank(r) PROVE IInv'
<1>0. /\ 0 \in Ranks /\ <<>> \in Records /\ <<>> # NoFile
      /\ Size \in Nat /\ Ranks = 0 .. Size - 1
  <2>1. <<>> \in Records
    BY DEF Records
  <2>. QED  BY <2>1, Constants DEF Ranks
<1>1. CASE Open(r)
  <2>1. /\ pc' = [pc EXCEPT ![r] = "generate"] /\ pc[r] = "open"
        /\ log' = [log EXCEPT ![r] = <<>>] /\ generated' = [generated EXCEPT ![r] = 0]
        /\ UNCHANGED <<benchmark, job, final, merged, waiting, scored>>
    BY <1>1 DEF Open, Goto
  <2>2. /\ pc' \in [Ranks -> Places] /\ generated' \in [Ranks -> Nat] /\ DOMAIN log' = Ranks
        /\ \A s \in Ranks : log'[s] # NoFile => log'[s] \in Records
    BY <1>0, <2>1 DEF IInv, Places
  <2>3. ~Merging
    BY <2>1, <1>0 DEF IInv, Merging, OthersRest
  <2>4. ~Merging' /\ WaitingRanks' /\ OthersRest'
    BY <2>1, <2>3, <1>0 DEF IInv, Merging, OthersRest, WaitingRanks
  <2>5. JobsAgree'
    BY <2>1, <2>4 DEF IInv, JobsAgree, InRound, Round, Places
  <2>6. LogsOpen'
    BY <2>1, <2>4, <1>0 DEF IInv, LogsOpen, Merging
  <2>. QED  BY <2>1, <2>2, <2>4, <2>5, <2>6 DEF IInv
<1>2. CASE Generate(r)
  <2>1. UNCHANGED <<benchmark, pc, job, final, merged, waiting, scored>>
    BY <1>2 DEF Generate
  <2>2. /\ generated' \in [Ranks -> Nat] /\ DOMAIN log' = Ranks
        /\ \A s \in Ranks : (log'[s] = NoFile <=> log[s] = NoFile)
                            /\ (log'[s] # NoFile => log'[s] \in Records)
    BY <1>2, BatchIsRecords
  <2>3. WaitingRanks' /\ OthersRest' /\ JobsAgree'
    BY <2>1 DEF IInv, WaitingRanks, OthersRest, Merging, JobsAgree, InRound, Round
  <2>4. LogsOpen'
    <3>1. \A s \in merged .. Size - 1 : pc[0] = "copy" => s \in Ranks
      BY <1>0 DEF IInv
    <3>. QED  BY <2>1, <2>2, <3>1 DEF IInv, LogsOpen
  <2>. QED  BY <2>1, <2>2, <2>3, <2>4 DEF IInv
<1>3. CASE Close(r)
  <2>1. /\ pc' = [pc EXCEPT ![r] = "barrier"] /\ pc[r] = "generate"
        /\ waiting' = waiting \union {r}
        /\ UNCHANGED <<benchmark, job, generated, log, final, merged, scored>>
    BY <1>3 DEF Close, Goto
  <2>2. pc' \in [Ranks -> Places]
    BY <2>1 DEF IInv, Places
  <2>3. ~Merging
    BY <2>1, <1>0 DEF IInv, Merging, OthersRest
  <2>4. ~Merging' /\ WaitingRanks' /\ OthersRest'
    BY <2>1, <2>3, <1>0 DEF IInv, Merging, OthersRest, WaitingRanks
  <2>5. JobsAgree'
    BY <2>1, <2>4 DEF IInv, JobsAgree, InRound, Round
  <2>6. LogsOpen'
    BY <2>1, <2>4, <1>0 DEF IInv, LogsOpen, Merging
  <2>. QED  BY <2>1, <2>2, <2>4, <2>5, <2>6 DEF IInv
<1>4. CASE Return(r)
  <2>1. /\ pc[r] = "end"
        /\ UNCHANGED <<benchmark, generated, log, final, merged, waiting, scored>>
    BY <1>4 DEF Return
  <2>2. \/ /\ benchmark = "HumanEval" /\ pc' = [pc EXCEPT ![r] = "open"]
           /\ job' = [job EXCEPT ![r] = @ + 1]
        \/ pc' = [pc EXCEPT ![r] = "done"] /\ job' = job
    BY <1>4 DEF Return, Goto
  <2>3. pc' \in [Ranks -> Places] /\ job' \in [Ranks -> Nat]
    BY <2>2 DEF IInv, Places
  <2>4. WaitingRanks'
    BY <2>1, <2>2 DEF IInv, WaitingRanks
  <2>5. OthersRest'
    BY <2>1, <2>2, <1>0 DEF IInv, OthersRest, Merging
  <2>6. JobsAgree'
    <3>1. CASE /\ benchmark = "HumanEval" /\ pc' = [pc EXCEPT ![r] = "open"]
               /\ job' = [job EXCEPT ![r] = @ + 1]
      <4>1. ~Merging /\ ~Merging'
        BY <2>1, <3>1, <1>0 DEF IInv, OthersRest, Merging
      <4>2. \A s \in Ranks : InRound(s)' => InRound(s) /\ Round(s)' = Round(s)
        BY <2>1, <3>1 DEF IInv, InRound, Round
      <4>. QED  BY <2>1, <3>1, <4>1, <4>2 DEF IInv, JobsAgree
    <3>2. CASE pc' = [pc EXCEPT ![r] = "done"] /\ job' = job
      <4>1. Merging' => Merging
        BY <3>2, <1>0 DEF IInv, Merging
      <4>2. \A s \in Ranks : InRound(s)' => InRound(s) /\ Round(s)' = Round(s)
        BY <2>1, <3>2 DEF IInv, InRound, Round
      <4>. QED  BY <2>1, <3>2, <4>1, <4>2 DEF IInv, JobsAgree
    <3>. QED  BY <2>2, <3>1, <3>2
  <2>7. LogsOpen'
    BY <2>1, <2>2, <1>0 DEF IInv, LogsOpen
  <2>. QED  BY <2>1, <2>3, <2>4, <2>5, <2>6, <2>7 DEF IInv
<1>. QED  BY <1>1, <1>2, <1>3, <1>4 DEF Rank

(* A barrier opens for all ranks at once: either none has scored yet or all come
   from the second barrier. *)
LEMMA BarrierIInv == ASSUME IInv, Barrier PROVE IInv'
<1>0. 0 \in Ranks /\ Size \in Nat /\ Ranks = 0 .. Size - 1
  BY Constants DEF Ranks
<1>1. /\ waiting = Ranks
      /\ pc' = [r \in Ranks |-> IF pc[r] = "barrier2" THEN "end"
                                ELSE IF r = 0 THEN "merge" ELSE AfterScore]
      /\ waiting' = {r \in Ranks : pc'[r] = "barrier2"}
      /\ UNCHANGED <<benchmark, job, generated, log, final, merged, scored>>
  BY DEF Barrier
<1>2. \A r \in Ranks : pc[r] \in {"barrier", "barrier2"}
  BY <1>1 DEF IInv, WaitingRanks
<1>3. AfterScore = IF benchmark = "HumanEval" THEN "barrier2" ELSE "end"
  BY DEF AfterScore
<1>4. /\ pc' \in [Ranks -> Places]
      /\ \A r \in Ranks : pc'[r] \in {"merge", "barrier2", "end"}
  BY <1>1, <1>3 DEF Places
<1>5. WaitingRanks'
  BY <1>1, <1>4 DEF WaitingRanks
<1>6. CASE \A r \in Ranks : pc[r] = "barrier"
  <2>1. pc'[0] = "merge" /\ \A r \in Ranks \ {0} : pc'[r] = AfterScore
    BY <1>0, <1>1, <1>6
  <2>2. OthersRest'
    BY <1>0, <1>1, <1>3, <2>1 DEF IInv, OthersRest, Merging
  <2>3. \A r \in Ranks : job[r] = job[0]
    BY <1>0, <1>6 DEF IInv, JobsAgree, InRound, Round
  <2>4. JobsAgree'
    <3>1. benchmark = "HumanEval" => \A r \in Ranks : ~InRound(r)'
      BY <1>1, <1>3, <2>1 DEF InRound
    <3>. QED  BY <1>1, <2>3, <3>1 DEF JobsAgree
  <2>5. LogsOpen'
    <3>1. \A r \in Ranks : log[r] # NoFile
      BY <1>6 DEF IInv, LogsOpen
    <3>. QED  BY <1>1, <1>4, <2>1, <3>1 DEF LogsOpen
  <2>. QED  BY <1>1, <1>4, <1>5, <2>2, <2>4, <2>5 DEF IInv
<1>7. CASE \A r \in Ranks : pc[r] = "barrier2"
  <2>1. \A r \in Ranks : pc'[r] = "end"
    BY <1>1, <1>7
  <2>2. OthersRest' /\ LogsOpen'
    BY <1>0, <2>1 DEF OthersRest, Merging, LogsOpen
  <2>3. \A r \in Ranks : job[r] = job[0] /\ job[r] \in Nat
    BY <1>0, <1>7 DEF IInv, JobsAgree, Merging
  <2>4. JobsAgree'
    BY <1>1, <2>1, <2>3 DEF JobsAgree, InRound, Round
  <2>. QED  BY <1>1, <1>4, <1>5, <2>2, <2>4 DEF IInv
<1>8. \/ \A r \in Ranks : pc[r] = "barrier"
      \/ \A r \in Ranks : pc[r] = "barrier2"
  <2>1. CASE pc[0] = "barrier"
    BY <1>0, <1>2, <2>1 DEF IInv, OthersRest
  <2>2. CASE pc[0] = "barrier2"
    BY <1>0, <1>2, <2>2 DEF IInv, OthersRest, Merging
  <2>. QED  BY <1>0, <1>2, <2>1, <2>2
<1>. QED  BY <1>6, <1>7, <1>8

(* The steps of the local main process: it removes only logs it has merged. *)
LEMMA LocalMainIInv == ASSUME IInv, LocalMain PROVE IInv'
<1>0. 0 \in Ranks /\ Size \in Nat \ {0} /\ Ranks = 0 .. Size - 1
  BY Constants DEF Ranks
<1>1. CASE OpenFinal
  <2>1. /\ pc[0] = "merge" /\ merged' = 0 /\ pc' = [pc EXCEPT ![0] = "copy"]
        /\ UNCHANGED <<benchmark, job, generated, log, waiting, scored>>
    BY <1>1 DEF OpenFinal, Goto
  <2>2. pc' \in [Ranks -> Places] /\ WaitingRanks'
    BY <2>1 DEF IInv, Places, WaitingRanks
  <2>3. OthersRest' /\ JobsAgree'
    BY <2>1, <1>0 DEF IInv, OthersRest, Merging, JobsAgree, InRound, Round
  <2>4. LogsOpen'
    BY <2>1, <1>0 DEF IInv, LogsOpen
  <2>. QED  BY <2>1, <2>2, <2>3, <2>4 DEF IInv
<1>2. CASE MergeLog
  <2>1. /\ pc[0] = "copy" /\ merged < Size /\ merged \in Ranks
        /\ UNCHANGED <<benchmark, job, generated, waiting, scored>>
    BY <1>0, <1>2 DEF MergeLog, IInv
  <2>2. log[merged] # NoFile
    BY <1>0, <2>1 DEF IInv, LogsOpen
  <2>3. pc' = pc /\ log' = [log EXCEPT ![merged] = NoFile] /\ merged' = merged + 1
    BY <1>2, <2>2 DEF MergeLog
  <2>4. DOMAIN log' = Ranks /\ \A r \in Ranks : log'[r] # NoFile => log'[r] \in Records
    BY <2>1, <2>3 DEF IInv
  <2>5. WaitingRanks' /\ OthersRest' /\ JobsAgree'
    BY <2>1, <2>3 DEF IInv, WaitingRanks, OthersRest, Merging, JobsAgree, InRound, Round
  <2>6. LogsOpen'
    <3>1. \A r \in Ranks : pc[r] \notin {"generate", "barrier"}
      BY <1>0, <2>1 DEF IInv, OthersRest, Merging
    <3>2. \A r \in merged + 1 .. Size - 1 : r \in Ranks /\ r # merged /\ r \in merged .. Size - 1
      BY <1>0, <2>1 DEF IInv
    <3>. QED  BY <2>1, <2>3, <3>1, <3>2 DEF IInv, LogsOpen
  <2>. QED  BY <2>1, <2>3, <2>4, <2>5, <2>6 DEF IInv
<1>3. CASE Evaluate
  <2>1. /\ pc[0] = "copy" /\ pc' = [pc EXCEPT ![0] = AfterScore]
        /\ waiting' = IF AfterScore = "barrier2" THEN waiting \union {0} ELSE waiting
        /\ UNCHANGED <<benchmark, job, generated, log, merged>>
    BY <1>3 DEF Evaluate, Goto
  <2>2. AfterScore = IF benchmark = "HumanEval" THEN "barrier2" ELSE "end"
    BY DEF AfterScore
  <2>3. pc' \in [Ranks -> Places] /\ WaitingRanks'
    BY <1>0, <2>1, <2>2 DEF IInv, Places, WaitingRanks
  <2>4. OthersRest'
    BY <1>0, <2>1, <2>2 DEF IInv, OthersRest, Merging
  <2>5. JobsAgree'
    <3>1. \A r \in Ranks : benchmark = "HumanEval" => ~InRound(r)'
      BY <1>0, <2>1, <2>2 DEF IInv, OthersRest, Merging, InRound
    <3>. QED  BY <1>0, <2>1, <3>1 DEF IInv, JobsAgree, Merging
  <2>6. LogsOpen'
    BY <1>0, <2>1, <2>2 DEF IInv, LogsOpen, OthersRest
  <2>. QED  BY <2>1, <2>3, <2>4, <2>5, <2>6 DEF IInv
<1>. QED  BY <1>1, <1>2, <1>3 DEF LocalMain

(* A rank that dies takes no part; a launch begins a new evaluation for all. *)
LEMMA FailIInv == ASSUME IInv, NEW r \in Ranks, Fail(r) PROVE IInv'
<1>0. 0 \in Ranks
  BY Constants
<1>1. /\ pc' = [pc EXCEPT ![r] = "failed"] /\ waiting' = waiting \ {r}
      /\ pc[r] \notin {"end", "done", "failed"}
      /\ UNCHANGED <<benchmark, job, generated, log, final, merged, scored>>
  BY DEF Fail, Goto
<1>2. pc' \in [Ranks -> Places] /\ WaitingRanks'
  BY <1>1 DEF IInv, Places, WaitingRanks
<1>3. OthersRest'
  BY <1>0, <1>1 DEF IInv, OthersRest, Merging
<1>4. JobsAgree'
  <2>1. Merging' => Merging
    BY <1>0, <1>1 DEF IInv, Merging
  <2>2. \A s \in Ranks : InRound(s)' => InRound(s) /\ Round(s)' = Round(s)
    BY <1>1 DEF IInv, InRound, Round
  <2>. QED  BY <1>1, <2>1, <2>2 DEF IInv, JobsAgree
<1>5. LogsOpen'
  BY <1>0, <1>1 DEF IInv, LogsOpen
<1>. QED  BY <1>1, <1>2, <1>3, <1>4, <1>5 DEF IInv

LEMMA RelaunchIInv == ASSUME IInv, Relaunch PROVE IInv'
<1>0. 0 \in Ranks
  BY Constants
<1>1. /\ pc' = [r \in Ranks |-> "open"] /\ waiting' = {}
      /\ UNCHANGED <<benchmark, generated, log, final, merged, scored>>
  BY DEF Relaunch
<1>2. PICK j \in 2 .. Jobs : job' = [r \in Ranks |-> j]
  BY DEF Relaunch
<1>3. j \in Nat
  BY Constants
<1>4. pc' \in [Ranks -> Places] /\ WaitingRanks' /\ OthersRest' /\ LogsOpen'
  BY <1>0, <1>1 DEF Places, WaitingRanks, OthersRest, Merging, LogsOpen
<1>5. JobsAgree'
  BY <1>0, <1>1, <1>2 DEF JobsAgree, InRound, Round, Merging
<1>. QED  BY <1>1, <1>2, <1>3, <1>4, <1>5 DEF IInv

LEMMA NextIInv == IInv /\ [Next]_vars => IInv'
<1> SUFFICES ASSUME IInv, [Next]_vars PROVE IInv'
  OBVIOUS
<1>1. ASSUME NEW r \in Ranks, Rank(r) PROVE IInv'
  BY <1>1, RankIInv
<1>2. ASSUME NEW r \in Ranks, Fail(r) PROVE IInv'
  BY <1>2, FailIInv
<1>3. CASE Barrier
  BY <1>3, BarrierIInv
<1>4. CASE LocalMain
  BY <1>4, LocalMainIInv
<1>5. CASE Relaunch
  BY <1>5, RelaunchIInv
<1>6. CASE UNCHANGED vars
  BY <1>6 DEF vars, IInv, WaitingRanks, OthersRest, Merging, JobsAgree, Round, InRound, LogsOpen
<1>. QED  BY <1>1, <1>2, <1>3, <1>4, <1>5, <1>6 DEF Next, Stopped

\* The merge never finds a log missing: the logs of a failed job that the merge had
\* begun to remove are opened again by every rank before the next merge.
THEOREM MergeFindsLogs == Spec => []LogsAreThere
<1>1. IInv => LogsAreThere
  BY DEF IInv, LogsOpen, LogsAreThere
<1>. QED  BY <1>1, InitIInv, NextIInv, PTL DEF Spec

\* No rank is in the next evaluation while the logs of this one are merged, for any
\* number of ranks, failures and launches: HumanEval by its second barrier, MBPP
\* because its script evaluates once.
THEOREM MergeAlone == Spec => []MergeUndisturbed
<1>1. IInv => MergeUndisturbed
  BY DEF IInv, JobsAgree, Merging, MergeUndisturbed
<1>. QED  BY <1>1, InitIInv, NextIInv, PTL DEF Spec

-----------------------------------------------------------------------------
(* What is scored *)

\* Where the part of a rank begins; that of rank Size would begin at the end.
Begin(r) ==
    LET q == Prompts \div Size
        m == Prompts % Size
    IN  IF r < m THEN r * (q + 1) ELSE m * (q + 1) + (r - m) * q

\* The first n records of an evaluation, in the order of the samples.
Sorted(n, j) == [i \in 1 .. n |-> <<j, i - 1>>]

\* The first n records a rank writes.
Written(r, n, j) == [i \in 1 .. n |-> <<j, Indices(r)[i]>>]

\* A rank that generates has written a beginning of its part.
LogsGrow ==
    \A r \in Ranks :
        /\ pc[r] = "generate" => /\ generated[r] <= Len(Indices(r))
                                 /\ log[r] = Written(r, generated[r], job[r])
        /\ pc[r] = "barrier" => log[r] = Written(r, Len(Indices(r)), job[r])

\* What is to be merged is whole, and what is merged is in the order of the samples.
FinalGrows ==
    /\ pc[0] = "merge" => \A r \in Ranks : log[r] = Written(r, Len(Indices(r)), job[0])
    /\ pc[0] = "copy" =>
         /\ merged <= Size /\ final = Sorted(Begin(merged) * NSample, job[0])
         /\ \A r \in merged .. Size - 1 : log[r] = Written(r, Len(Indices(r)), job[0])

ScoredInOrder ==
    /\ \A r \in Ranks : job[r] \in 1 .. Jobs
    /\ scored # <<>> => \E j \in 1 .. Jobs : scored = Sorted(Prompts * NSample, j)

ScoreInv == LogsGrow /\ FinalGrows /\ ScoredInOrder

(* array_split: the parts follow each other, from the first prompt to the last. *)
LEMMA PartsFollow ==
    /\ Begin(0) = 0 /\ Begin(Size) = Prompts
    /\ \A r \in Ranks : /\ Begin(r) \in Nat /\ Begin(r + 1) \in Nat
                        /\ Split(r) = [first |-> Begin(r), count |-> Begin(r + 1) - Begin(r)]
                        /\ Begin(r + 1) >= Begin(r)
<1> DEFINE q == Prompts \div Size
           m == Prompts % Size
<1>1. q \in Nat /\ m \in Nat /\ m < Size /\ Prompts = q * Size + m
  BY Constants
<1>2. Begin(0) = 0
  BY <1>1 DEF Begin
<1>3. Begin(Size) = Prompts
  <2>1. Begin(Size) = m * (q + 1) + (Size - m) * q
    BY <1>1, Constants DEF Begin
  <2> HIDE DEF q, m
  <2>2. m * (q + 1) = m * q + m /\ (Size - m) * q = q * Size - m * q
    BY <1>1, Constants
  <2>. QED  BY <1>1, <2>1, <2>2, Constants
<1>4. ASSUME NEW r \in Ranks
      PROVE  /\ Begin(r) \in Nat /\ Begin(r + 1) \in Nat
             /\ Split(r) = [first |-> Begin(r), count |-> Begin(r + 1) - Begin(r)]
             /\ Begin(r + 1) >= Begin(r)
  <2>1. r \in Nat
    BY Constants
  <2>2. CASE r < m
    <3>1. Begin(r) = r * (q + 1) /\ Split(r) = [first |-> r * (q + 1), count |-> q + 1]
      BY <2>2 DEF Begin, Split
    <3>2. Begin(r + 1) = (r + 1) * (q + 1)
      <4>1. CASE r + 1 < m
        BY <4>1 DEF Begin
      <4>2. CASE r + 1 = m
        BY <1>1, <2>1, <4>2 DEF Begin
      <4>. QED  BY <1>1, <2>1, <2>2, <4>1, <4>2
    <3> HIDE DEF q, m
    <3>3. (r + 1) * (q + 1) = r * (q + 1) + (q + 1) /\ r * (q + 1) \in Nat
      BY <1>1, <2>1
    <3>4. Begin(r) \in Nat /\ Begin(r + 1) = Begin(r) + (q + 1)
      BY <3>1, <3>2, <3>3
    <3>5. Begin(r + 1) - Begin(r) = q + 1
      BY <1>1, <3>4
    <3>. QED  BY <1>1, <3>1, <3>4, <3>5
  <2>3. CASE ~(r < m)
    <3>1. /\ Begin(r) = m * (q + 1) + (r - m) * q
          /\ Split(r) = [first |-> m * (q + 1) + (r - m) * q, count |-> q]
          /\ Begin(r + 1) = m * (q + 1) + (r + 1 - m) * q
      BY <1>1, <2>1, <2>3 DEF Begin, Split
    <3> HIDE DEF q, m
    <3>2. r - m \in Nat /\ r + 1 - m = (r - m) + 1
      BY <1>1, <2>1, <2>3
    <3>3. ((r - m) + 1) * q = (r - m) * q + q /\ (r - m) * q \in Nat /\ m * (q + 1) \in Nat
      BY <1>1, <3>2
    <3>4. Begin(r) \in Nat /\ Begin(r + 1) = Begin(r) + q
      BY <1>1, <3>1, <3>2, <3>3
    <3>5. Begin(r + 1) - Begin(r) = q
      BY <1>1, <3>4
    <3>. QED  BY <1>1, <3>1, <3>4, <3>5
  <2>. QED  BY <2>2, <2>3
<1>. QED  BY <1>2, <1>3, <1>4

(* A beginning and what follows it. *)
LEMMA Joined ==
    ASSUME NEW S, NEW a \in Nat, NEW b \in Nat, NEW f \in [1 .. a + b -> S]
    PROVE  [i \in 1 .. a |-> f[i]] \o [i \in 1 .. b |-> f[a + i]] = f
<1> DEFINE s == [i \in 1 .. a |-> f[i]]
           t == [i \in 1 .. b |-> f[a + i]]
<1>1. s \in Seq(S) /\ t \in Seq(S) /\ Len(s) = a /\ Len(t) = b
  <2>1. s \in [1 .. a -> S] /\ t \in [1 .. b -> S]
    OBVIOUS
  <2>. QED  BY <2>1, IsASeq
<1>2. s \o t \in Seq(S) /\ Len(s \o t) = a + b
  BY <1>1
<1>3. \A i \in 1 .. a + b : (s \o t)[i] = f[i]
  <2> SUFFICES ASSUME NEW i \in 1 .. a + b PROVE (s \o t)[i] = f[i]
    OBVIOUS
  <2>1. (s \o t)[i] = IF i <= a THEN s[i] ELSE t[i - a]
    BY <1>1
  <2>. QED  BY <2>1
<1>4. DOMAIN (s \o t) = 1 .. a + b
  BY <1>2
<1>. QED  BY <1>2, <1>3, <1>4

(* The indices of a rank. *)
LEMMA IndicesShape ==
    ASSUME NEW r \in Ranks
    PROVE  /\ Begin(r) * NSample \in Nat /\ Len(Indices(r)) \in Nat
           /\ Begin(r + 1) * NSample = Begin(r) * NSample + Len(Indices(r))
           /\ \A i \in 1 .. Len(Indices(r)) : Indices(r)[i] = Begin(r) * NSample + i - 1
<1>1. /\ Begin(r) \in Nat /\ Begin(r + 1) \in Nat /\ Begin(r + 1) >= Begin(r)
      /\ Split(r).first = Begin(r) /\ Split(r).count = Begin(r + 1) - Begin(r)
  BY PartsFollow
<1>2. PICK c \in Nat : Split(r).count = c /\ Begin(r + 1) = Begin(r) + c
  BY <1>1
<1>3. /\ c * NSample \in Nat /\ Begin(r) * NSample \in Nat
      /\ Begin(r + 1) * NSample = Begin(r) * NSample + c * NSample
  BY <1>1, <1>2, Constants
<1>4. Indices(r) = [i \in 1 .. c * NSample |-> Begin(r) * NSample + i - 1]
  BY <1>1, <1>2 DEF Indices
<1>. QED  BY <1>3, <1>4

LEMMA InitScore == Init => ScoreInv
<1>1. 0 \in Ranks
  BY Constants
<1>. QED
  BY <1>1, Constants DEF Init, ScoreInv, LogsGrow, FinalGrows, ScoredInOrder

(* A batch continues a rank's part. *)
LEMMA GenerateScore == ASSUME IInv, ScoreInv, NEW r \in Ranks, Generate(r) PROVE ScoreInv'
<1> DEFINE from == generated[r]
           to   == Smaller(from + BatchSize, Len(Indices(r)))
           f    == Written(r, to, job[r])
<1>1. /\ pc[r] = "generate" /\ from < Len(Indices(r))
      /\ UNCHANGED <<benchmark, pc, job, final, merged, waiting, scored>>
      /\ generated' = [generated EXCEPT ![r] = to]
      /\ generated \in [Ranks -> Nat] /\ DOMAIN log = Ranks /\ job[r] \in Nat
      /\ log[r] # NoFile /\ log[r] = Written(r, from, job[r])
  BY DEF Generate, IInv, LogsOpen, ScoreInv, LogsGrow
<1>2. from \in Nat /\ Len(Indices(r)) \in Nat /\ Indices(r) \in Seq(Nat)
  BY <1>1, IndicesAreNumbers
<1>3. to \in Nat /\ from < to /\ to <= Len(Indices(r))
  BY <1>1, <1>2, Constants DEF Smaller
<1>4. log' = [log EXCEPT ![r] = @ \o [i \in 1 .. to - from |-> <<job[r], Indices(r)[from + i]>>]]
  BY <1>1 DEF Generate
<1> HIDE DEF from, to
<1>5. to - from \in Nat /\ from + (to - from) = to
  BY <1>2, <1>3
<1>6. f \in [1 .. from + (to - from) -> Nat \X Nat]
  <2>1. \A i \in 1 .. to : <<job[r], Indices(r)[i]>> \in Nat \X Nat
    BY <1>1, <1>2, <1>3
  <2>. QED  BY <1>5, <2>1 DEF Written
<1>7. /\ [i \in 1 .. from |-> f[i]] = Written(r, from, job[r])
      /\ [i \in 1 .. to - from |-> f[from + i]]
           = [i \in 1 .. to - from |-> <<job[r], Indices(r)[from + i]>>]
  BY <1>2, <1>3 DEF Written
<1> HIDE DEF f
<1>8. log'[r] = f
  BY <1>1, <1>2, <1>4, <1>5, <1>6, <1>7, Joined
<1>9. ~Merging
  BY <1>1, Constants DEF IInv, Merging, OthersRest
<1>10. LogsGrow'
  <2>1. \A s \in Ranks : s # r => log'[s] = log[s] /\ generated'[s] = generated[s]
    BY <1>1, <1>4
  <2>2. generated'[r] = to /\ log'[r] = Written(r, to, job[r])
    BY <1>1, <1>8 DEF f
  <2>. QED  BY <1>1, <1>3, <2>1, <2>2 DEF ScoreInv, LogsGrow
<1>11. FinalGrows' /\ ScoredInOrder'
  BY <1>1, <1>9 DEF ScoreInv, FinalGrows, ScoredInOrder, Merging
<1>. QED  BY <1>10, <1>11 DEF ScoreInv

LEMMA RankScore == ASSUME IInv, ScoreInv, NEW r \in Ranks, Rank(r) PROVE ScoreInv'
<1>0. 0 \in Ranks
  BY Constants
<1>1. CASE Open(r)
  <2>1. /\ pc' = [pc EXCEPT ![r] = "generate"] /\ pc[r] = "open"
        /\ log' = [log EXCEPT ![r] = <<>>] /\ generated' = [generated EXCEPT ![r] = 0]
        /\ UNCHANGED <<benchmark, job, final, merged, waiting, scored>>
        /\ pc \in [Ranks -> Places] /\ DOMAIN log = Ranks /\ generated \in [Ranks -> Nat]
    BY <1>1 DEF Open, Goto, IInv
  <2>2. pc'[0] \notin {"merge", "copy"}
    BY <1>0, <2>1 DEF IInv, Merging, OthersRest
  <2>3. Written(r, 0, job[r]) = <<>> /\ 0 <= Len(Indices(r))
    BY IndicesAreNumbers DEF Written
  <2>4. LogsGrow'
    <3> SUFFICES ASSUME NEW s \in Ranks
                 PROVE  /\ pc'[s] = "generate" => /\ generated'[s] <= Len(Indices(s))
                                                  /\ log'[s] = Written(s, generated'[s], job[s])
                        /\ pc'[s] = "barrier" => log'[s] = Written(s, Len(Indices(s)), job[s])
      BY <2>1 DEF LogsGrow
    <3>1. CASE s = r
      BY <2>1, <2>3, <3>1
    <3>2. CASE s # r
      BY <2>1, <3>2 DEF ScoreInv, LogsGrow
    <3>. QED  BY <3>1, <3>2
  <2>. QED  BY <2>1, <2>2, <2>4 DEF ScoreInv, FinalGrows, ScoredInOrder
<1>2. CASE Generate(r)
  BY <1>2, GenerateScore
<1>3. CASE Close(r)
  <2>1. /\ pc' = [pc EXCEPT ![r] = "barrier"] /\ pc[r] = "generate"
        /\ generated[r] = Len(Indices(r))
        /\ UNCHANGED <<benchmark, job, generated, log, final, merged, scored>>
        /\ pc \in [Ranks -> Places]
    BY <1>3 DEF Close, Goto, IInv
  <2>2. pc'[0] \notin {"merge", "copy"}
    BY <1>0, <2>1 DEF IInv, Merging, OthersRest
  <2>3. LogsGrow'
    BY <2>1 DEF ScoreInv, LogsGrow
  <2>. QED  BY <2>1, <2>2, <2>3 DEF ScoreInv, FinalGrows, ScoredInOrder
<1>4. CASE Return(r)
  <2>1. /\ pc[r] = "end" /\ pc \in [Ranks -> Places] /\ job \in [Ranks -> Nat]
        /\ UNCHANGED <<benchmark, generated, log, final, merged, waiting, scored>>
    BY <1>4 DEF Return, IInv
  <2>2. \/ /\ benchmark = "HumanEval" /\ pc' = [pc EXCEPT ![r] = "open"]
           /\ job[r] < Jobs /\ job' = [job EXCEPT ![r] = @ + 1]
        \/ pc' = [pc EXCEPT ![r] = "done"] /\ job' = job
    BY <1>4 DEF Return, Goto
  <2>3. \A s \in Ranks : pc'[s] \in {"generate", "barrier"} => pc[s] = pc'[s] /\ job'[s] = job[s]
    BY <2>1, <2>2
  <2>4. LogsGrow'
    BY <2>1, <2>3 DEF ScoreInv, LogsGrow
  <2>5. pc'[0] \in {"merge", "copy"} => pc[0] = pc'[0] /\ job' = job
    BY <1>0, <2>1, <2>2 DEF IInv, OthersRest, Merging
  <2>6. FinalGrows'
    BY <2>1, <2>5 DEF ScoreInv, FinalGrows
  <2>7. \A s \in Ranks : job'[s] \in 1 .. Jobs
    BY <2>1, <2>2, Constants DEF ScoreInv, ScoredInOrder
  <2>. QED  BY <2>1, <2>4, <2>6, <2>7 DEF ScoreInv, ScoredInOrder, Sorted
<1>. QED  BY <1>1, <1>2, <1>3, <1>4 DEF Rank

LEMMA FailScore == ASSUME IInv, ScoreInv, NEW r \in Ranks, Fail(r) PROVE ScoreInv'
<1>1. /\ pc' = [pc EXCEPT ![r] = "failed"] /\ pc \in [Ranks -> Places] /\ 0 \in Ranks
      /\ UNCHANGED <<benchmark, job, generated, log, final, merged, scored>>
  BY Constants DEF Fail, Goto, IInv
<1>2. \A s \in Ranks : pc'[s] # "failed" => pc'[s] = pc[s]
  BY <1>1
<1>3. LogsGrow'
  BY <1>1, <1>2 DEF ScoreInv, LogsGrow
<1>4. FinalGrows'
  BY <1>1, <1>2 DEF ScoreInv, FinalGrows
<1>. QED  BY <1>1, <1>3, <1>4 DEF ScoreInv, ScoredInOrder, Sorted

(* Behind the first barrier every log is whole. *)
LEMMA BarrierScore == ASSUME IInv, ScoreInv, Barrier PROVE ScoreInv'
<1>0. 0 \in Ranks
  BY Constants
<1>1. /\ waiting = Ranks
      /\ pc' = [r \in Ranks |-> IF pc[r] = "barrier2" THEN "end"
                                ELSE IF r = 0 THEN "merge" ELSE AfterScore]
      /\ UNCHANGED <<benchmark, job, generated, log, final, merged, scored>>
  BY DEF Barrier
<1>2. \A r \in Ranks : pc'[r] \notin {"generate", "barrier", "copy"}
  BY <1>1 DEF AfterScore
<1>3. LogsGrow'
  BY <1>2 DEF LogsGrow
<1>4. ASSUME pc'[0] = "merge"
      PROVE  \A r \in Ranks : log[r] = Written(r, Len(Indices(r)), job[0])
  <2>1. \A r \in Ranks : pc[r] \in {"barrier", "barrier2"}
    BY <1>1 DEF IInv, WaitingRanks
  <2>2. pc[0] = "barrier"
    BY <1>0, <1>1, <1>4, <2>1
  <2>3. \A r \in Ranks : pc[r] = "barrier"
    BY <1>0, <2>1, <2>2 DEF IInv, OthersRest
  <2>4. \A r \in Ranks : job[r] = job[0]
    BY <1>0, <2>3 DEF IInv, JobsAgree, InRound, Round
  <2>. QED  BY <2>3, <2>4 DEF ScoreInv, LogsGrow
<1>5. FinalGrows'
  BY <1>0, <1>1, <1>2, <1>4 DEF FinalGrows
<1>. QED  BY <1>1, <1>3, <1>5 DEF ScoreInv, ScoredInOrder, Sorted

(* A whole log continues the merged file. *)
LEMMA MergeScore == ASSUME IInv, ScoreInv, MergeLog PROVE ScoreInv'
<1> DEFINE m == merged
           a == Begin(m) * NSample
           b == Len(Indices(m))
           f == Sorted(a + b, job[0])
<1>1. /\ pc[0] = "copy" /\ m < Size /\ m \in Ranks /\ 0 \in Ranks
      /\ Size \in Nat /\ Ranks = 0 .. Size - 1
      /\ UNCHANGED <<benchmark, job, generated, waiting, scored>>
  BY Constants DEF MergeLog, IInv, Ranks
<1>2. /\ log[m] # NoFile /\ log[m] = Written(m, b, job[0]) /\ final = Sorted(a, job[0])
      /\ \A r \in m .. Size - 1 : log[r] = Written(r, Len(Indices(r)), job[0])
  BY <1>1 DEF IInv, LogsOpen, ScoreInv, FinalGrows
<1>3. /\ pc' = pc /\ log' = [log EXCEPT ![m] = NoFile] /\ merged' = m + 1
      /\ final' = final \o log[m]
  BY <1>2 DEF MergeLog
<1>4. /\ a \in Nat /\ b \in Nat /\ Begin(m + 1) * NSample = a + b
      /\ \A i \in 1 .. b : Indices(m)[i] = a + i - 1
  BY <1>1, IndicesShape
<1> HIDE DEF a, b, m
<1>5. f \in [1 .. a + b -> Nat \X Nat]
  BY <1>1, <1>4 DEF Sorted, IInv
<1>6. /\ [i \in 1 .. a |-> f[i]] = Sorted(a, job[0])
      /\ [i \in 1 .. b |-> f[a + i]] = Written(m, b, job[0])
  <2>1. \A i \in 1 .. b : f[a + i] = <<job[0], Indices(m)[i]>>
    BY <1>4 DEF Sorted
  <2>2. \A i \in 1 .. a : f[i] = <<job[0], i - 1>>
    BY <1>4 DEF Sorted
  <2> HIDE DEF f
  <2>. QED  BY <2>1, <2>2 DEF Sorted, Written
<1> HIDE DEF f
<1>7. final' = f
  BY <1>2, <1>3, <1>4, <1>5, <1>6, Joined
<1>8. merged' <= Size /\ final' = Sorted(Begin(merged') * NSample, job[0])
  BY <1>1, <1>3, <1>4, <1>7 DEF f, m
<1>9. \A r \in m + 1 .. Size - 1 : log'[r] = Written(r, Len(Indices(r)), job[0])
  <2>1. \A r \in m + 1 .. Size - 1 : r \in m .. Size - 1 /\ r \in Ranks /\ r # m
    BY <1>1
  <2>. QED  BY <1>2, <1>3, <2>1 DEF IInv
<1>10. FinalGrows'
  BY <1>1, <1>3, <1>8, <1>9 DEF FinalGrows
<1>11. LogsGrow'
  <2>1. \A r \in Ranks : pc[r] \notin {"generate", "barrier"}
    BY <1>1 DEF IInv, OthersRest, Merging
  <2>. QED  BY <1>3, <2>1 DEF LogsGrow
<1>. QED  BY <1>1, <1>10, <1>11 DEF ScoreInv, ScoredInOrder, Sorted

LEMMA LocalMainScore == ASSUME IInv, ScoreInv, LocalMain PROVE ScoreInv'
<1>0. 0 \in Ranks /\ Ranks = 0 .. Size - 1
  BY Constants DEF Ranks
<1>1. CASE OpenFinal
  <2>1. /\ pc[0] = "merge" /\ merged' = 0 /\ final' = <<>> /\ pc' = [pc EXCEPT ![0] = "copy"]
        /\ UNCHANGED <<benchmark, job, generated, log, waiting, scored>>
        /\ pc \in [Ranks -> Places]
    BY <1>1 DEF OpenFinal, Goto, IInv
  <2>2. Sorted(Begin(0) * NSample, job[0]) = <<>>
    <3>1. Begin(0) * NSample = 0
      BY PartsFollow, Constants
    <3>. QED  BY <3>1 DEF Sorted
  <2>3. FinalGrows'
    <3>1. \A r \in Ranks : log[r] = Written(r, Len(Indices(r)), job[0])
      BY <2>1 DEF ScoreInv, FinalGrows
    <3>2. pc'[0] = "copy" /\ 0 <= Size
      BY <1>0, <2>1, Constants
    <3>. QED
      BY <1>0, <2>1, <2>2, <3>1, <3>2 DEF FinalGrows
  <2>4. LogsGrow'
    BY <1>0, <2>1 DEF ScoreInv, LogsGrow
  <2>. QED  BY <2>1, <2>3, <2>4 DEF ScoreInv, ScoredInOrder, Sorted
<1>2. CASE MergeLog
  BY <1>2, MergeScore
<1>3. CASE Evaluate
  <2>1. /\ pc[0] = "copy" /\ merged = Size /\ pc' = [pc EXCEPT ![0] = AfterScore]
        /\ scored' = final /\ pc \in [Ranks -> Places]
        /\ UNCHANGED <<benchmark, job, generated, log, merged>>
    BY <1>3 DEF Evaluate, Goto, IInv
  <2>2. AfterScore \notin {"generate", "barrier", "merge", "copy"}
    BY DEF AfterScore
  <2>3. LogsGrow'
    BY <2>1, <2>2 DEF ScoreInv, LogsGrow
  <2>4. pc'[0] \notin {"merge", "copy"}
    BY <1>0, <2>1, <2>2
  <2>5. scored' = Sorted(Prompts * NSample, job[0]) /\ job[0] \in 1 .. Jobs
    BY <1>0, <2>1, PartsFollow DEF ScoreInv, FinalGrows, ScoredInOrder
  <2>. QED  BY <2>1, <2>3, <2>4, <2>5 DEF ScoreInv, FinalGrows, ScoredInOrder, Sorted
<1>. QED  BY <1>1, <1>2, <1>3 DEF LocalMain

LEMMA NextScore == IInv /\ ScoreInv /\ [Next]_vars => ScoreInv'
<1> SUFFICES ASSUME IInv, ScoreInv, [Next]_vars PROVE ScoreInv'
  OBVIOUS
<1>1. CASE Relaunch
  <2>1. pc' = [r \in Ranks |-> "open"] /\ scored' = scored /\ 0 \in Ranks
    BY <1>1, Constants DEF Relaunch
  <2>2. PICK j \in 2 .. Jobs : job' = [r \in Ranks |-> j]
    BY <1>1 DEF Relaunch
  <2>3. LogsGrow' /\ FinalGrows'
    BY <2>1 DEF LogsGrow, FinalGrows
  <2>4. ScoredInOrder'
    BY <2>1, <2>2, Constants DEF ScoreInv, ScoredInOrder, Sorted
  <2>. QED  BY <2>3, <2>4 DEF ScoreInv
<1>2. CASE UNCHANGED vars
  BY <1>2 DEF vars, ScoreInv, LogsGrow, FinalGrows, ScoredInOrder
<1>. QED
  BY <1>1, <1>2, RankScore, FailScore, BarrierScore, LocalMainScore DEF Next, Stopped

\* What is scored is every sample of every prompt once, all of one evaluation: the
\* parts of array_split leave no prompt out and give none twice, the merge begins
\* when every rank has written its part, and failed jobs leave nothing in it.
THEOREM AllScoredOnce == Spec => []ScoredOnce
<1>1. ScoreInv => ScoredOnce
  <2> SUFFICES ASSUME ScoreInv, scored # <<>> PROVE ScoredOnce
    BY DEF ScoredOnce
  <2> DEFINE n == Prompts * NSample
  <2>1. n \in Nat
    BY Constants
  <2>2. PICK j \in 1 .. Jobs : scored = Sorted(n, j)
    BY DEF ScoreInv, ScoredInOrder
  <2> HIDE DEF n
  <2>3. Len(scored) = n /\ DOMAIN scored = 1 .. n /\ \A i \in 1 .. n : scored[i] = <<j, i - 1>>
    BY <2>1, <2>2 DEF Sorted
  <2>4. Range(scored) = {j} \X (0 .. n - 1)
    <3>1. ASSUME NEW x \in 0 .. n - 1 PROVE <<j, x>> \in Range(scored)
      <4>1. x + 1 \in 1 .. n /\ (x + 1) - 1 = x
        BY <2>1
      <4>. QED  BY <2>3, <4>1 DEF Range
    <3>2. ASSUME NEW y \in Range(scored) PROVE y \in {j} \X (0 .. n - 1)
      <4>1. PICK i \in 1 .. n : y = <<j, i - 1>>
        BY <2>3 DEF Range
      <4>. QED  BY <2>1, <4>1
    <3>. QED  BY <3>1, <3>2
  <2>. QED  BY <2>3, <2>4 DEF ScoredOnce, n
<1>. QED  BY <1>1, InitIInv, NextIInv, InitScore, NextScore, PTL DEF Spec
=============================================================================
