-------------------------- MODULE GenerationProofs --------------------------
(***************************************************************************)
(* Proofs about the scripts of Generation, for any sizes of prompts,       *)
(* limits and batches and any texts.                                       *)
(*                                                                         *)
(* Of the few-shot script: prompts leave the answer its room, and the stop *)
(* of a batch takes code from a row only as said.  Of every script and     *)
(* language: an answer of the form its script asks for becomes a whole     *)
(* test program with the model's own body in it.  For those, in order:     *)
(* what a piece opens and closes wherever it stands (Passes), programs     *)
(* put together of parts, the body copied, python and braced languages,    *)
(* code blocks, and one lemma for each script.                             *)
(***************************************************************************)
EXTENDS Generation, FiniteSetTheorems, SequenceTheorems, TLAPS

(* A nonempty set of numbers has a least one: the intervals from 0 to its members are
   well-founded by inclusion. *)
LEMMA LeastNumber ==
    ASSUME NEW T \in SUBSET Nat, T # {}
    PROVE  Min(T) \in T /\ \A n \in T : Min(T) <= n
<1> DEFINE Below == {0 .. n : n \in T}
<1>1. Below \subseteq FiniteSubsetsOf(Nat) /\ Below # {}
  <2>1. ASSUME NEW n \in T PROVE 0 .. n \in FiniteSubsetsOf(Nat)
    <3>1. IsFiniteSet(0 .. n) /\ 0 .. n \subseteq Nat
      BY FS_Interval
    <3>. QED  BY <3>1 DEF FiniteSubsetsOf
  <2>. QED  BY <2>1
<1>2. IsWellFoundedOn(StrictSubsetOrdering(Nat), FiniteSubsetsOf(Nat))
  BY FS_StrictSubsetOrderingWellFounded
<1>3. PICK B \in Below : \A C \in Below : <<C, B>> \notin StrictSubsetOrdering(Nat)
  <2> HIDE DEF Below
  <2>. QED  BY <1>1, <1>2, WFMin
<1>4. PICK m \in T : B = 0 .. m
  OBVIOUS
<1>5. ASSUME NEW n \in T, n < m PROVE FALSE
  <2>1. 0 .. n \in Below /\ 0 .. n \subseteq 0 .. m /\ m \in 0 .. m /\ m \notin 0 .. n
    BY <1>5
  <2>2. <<0 .. n, 0 .. m>> \in StrictSubsetOrdering(Nat)
    BY <2>1 DEF StrictSubsetOrdering
  <2>. QED  BY <1>3, <1>4, <2>1, <2>2
<1>6. \E x \in T : \A n \in T : x <= n
  BY <1>5
<1>. QED  BY <1>6 DEF Min

LEMMA MinOfTwo ==
    ASSUME NEW a \in Nat, NEW b \in Nat
    PROVE  Min({a, b}) = IF a <= b THEN a ELSE b
<1>1. \E x \in {a, b} : \A y \in {a, b} : x <= y
  OBVIOUS
<1>. QED  BY <1>1 DEF Min

-----------------------------------------------------------------------------
(* Cutting a text *)

(* The first piece of a set is the first one of it. *)
LEMMA FirstIsFirst ==
    ASSUME NEW s \in Seq(Pieces), NEW S
    PROVE  /\ FirstAt(s, 1, S) \in 1 .. Len(s) + 1
           /\ \A i \in 1 .. Len(s) : i < FirstAt(s, 1, S) => s[i] \notin S
           /\ FirstAt(s, 1, S) <= Len(s) => s[FirstAt(s, 1, S)] \in S
<1> DEFINE T == {i \in 1 .. Len(s) : s[i] \in S} \union {Len(s) + 1}
<1>1. Len(s) \in Nat /\ T \in SUBSET Nat /\ T # {} /\ Len(s) + 1 \in T
  OBVIOUS
<1>2. FirstAt(s, 1, S) = Min(T)
  BY DEF FirstAt
<1>3. Min(T) \in T /\ \A n \in T : Min(T) <= n
  <2> HIDE DEF T
  <2>. QED  BY <1>1, LeastNumber
<1> DEFINE m == Min(T)
<1> HIDE DEF m
<1>4. m \in T /\ \A n \in T : m <= n
  BY <1>3 DEF m
<1>5. m \in 1 .. Len(s) + 1 /\ (m <= Len(s) => s[m] \in S)
  BY <1>1, <1>4
<1>6. ASSUME NEW i \in 1 .. Len(s), i < m PROVE s[i] \notin S
  BY <1>1, <1>4, <1>5, <1>6
<1>. QED  BY <1>2, <1>5, <1>6 DEF m

(* That determines it. *)
LEMMA FirstIsUnique ==
    ASSUME NEW s \in Seq(Pieces), NEW S, NEW p \in 1 .. Len(s) + 1,
           \A i \in 1 .. Len(s) : i < p => s[i] \notin S,
           p <= Len(s) => s[p] \in S
    PROVE  FirstAt(s, 1, S) = p
<1> DEFINE m == FirstAt(s, 1, S)
<1>1. /\ m \in 1 .. Len(s) + 1
      /\ \A i \in 1 .. Len(s) : i < m => s[i] \notin S
      /\ m <= Len(s) => s[m] \in S
  BY FirstIsFirst
<1> HIDE DEF m
<1>2. ~(m < p) /\ ~(p < m)
  BY <1>1
<1>. QED  BY <1>1, <1>2 DEF m

(* A text that is cut and had its end cut off before is the shorter of the two. *)
LEMMA CutOfPrefix ==
    ASSUME NEW s \in Seq(Pieces), NEW S, NEW w \in 0 .. Len(s)
    PROVE  LET first == FirstAt(s, 1, S)
           IN  CutAt(SubSeq(s, 1, w), 1, S) = IF w < first - 1 THEN SubSeq(s, 1, w) ELSE CutAt(s, 1, S)
<1> DEFINE first == FirstAt(s, 1, S)
           t     == SubSeq(s, 1, w)
<1>1. /\ first \in 1 .. Len(s) + 1
      /\ \A i \in 1 .. Len(s) : i < first => s[i] \notin S
      /\ first <= Len(s) => s[first] \in S
  BY FirstIsFirst
<1>2. t \in Seq(Pieces) /\ Len(t) = w /\ \A i \in 1 .. w : t[i] = s[i]
  OBVIOUS
<1>3. Len(s) \in Nat /\ w \in Nat /\ w <= Len(s)
  OBVIOUS
<1> HIDE DEF first, t
<1>4. CASE w < first
  <2>1. FirstAt(t, 1, S) = w + 1
    <3>1. w + 1 \in 1 .. Len(t) + 1 /\ ~(w + 1 <= Len(t))
      BY <1>2, <1>3
    <3>2. \A i \in 1 .. Len(t) : t[i] \notin S
      BY <1>1, <1>2, <1>3, <1>4
    <3>. QED  BY <1>2, <3>1, <3>2, FirstIsUnique
  <2>2. CutAt(t, 1, S) = SubSeq(t, 1, w)
    BY <1>3, <2>1 DEF CutAt
  <2>3. SubSeq(t, 1, w) = t
    BY <1>2, <1>3
  <2>4. w = first - 1 => CutAt(s, 1, S) = t
    BY DEF CutAt, first, t
  <2>5. w < first - 1 \/ w = first - 1
    BY <1>1, <1>3, <1>4
  <2>6. CutAt(t, 1, S) = IF w < first - 1 THEN t ELSE CutAt(s, 1, S)
    BY <2>2, <2>3, <2>4, <2>5
  <2>. QED  BY <2>6 DEF first, t
<1>5. CASE ~(w < first)
  <2>1. FirstAt(t, 1, S) = first
    <3>1. first \in 1 .. Len(t) + 1
      BY <1>1, <1>2, <1>3, <1>5
    <3>2. \A i \in 1 .. Len(t) : i < first => t[i] \notin S
      BY <1>1, <1>2, <1>3
    <3>3. first <= Len(t) => t[first] \in S
      BY <1>1, <1>2, <1>3
    <3>. QED  BY <1>2, <3>1, <3>2, <3>3, FirstIsUnique
  <2>2. SubSeq(t, 1, first - 1) = SubSeq(s, 1, first - 1)
    BY <1>1, <1>2, <1>3, <1>5
  <2>. QED  BY <1>1, <1>3, <1>5, <2>1, <2>2 DEF CutAt, first, t
<1>. QED  BY <1>1, <1>3, <1>4, <1>5

-----------------------------------------------------------------------------
(* The invariant *)

\* The inputs, which nothing changes.
Inputs ==
    /\ script \in Scripts /\ Rows \subseteq Nat
    /\ script = "mbpp" => \A i \in Rows : rows[i].own \in Nat \ {0} /\ rows[i].text \in Seq(Pieces)

\* The prompts are those of the problems.
Prompts ==
    \/ fprompt = <<>>
    \/ script = "mbpp" /\ fprompt = [i \in Rows |-> FewShotPrompt(rows[i].own)]

\* What was cut out is cut out of what was written when the batch was stopped.
Completions ==
    /\ written \in Nat
    /\ (script = "mbpp" /\ stage \in {"test", "judged"}) =>
         AtEnd /\ generation = [i \in Rows |-> MbppCompletion(i)]

IInv == Inputs /\ Prompts /\ Completions

LEMMA IInvInit == Init => IInv
<1> SUFFICES ASSUME Init PROVE IInv
  OBVIOUS
<1>1. PICK n \in 1 .. (IF script = "mbpp" THEN BatchSize ELSE 1) :
        rows \in [1 .. n -> [own : IF script = "mbpp" THEN OwnLengths ELSE {1},
                            text : Texts(script, language)]]
  BY DEF Init
<1>2. script \in Scripts /\ language \in Languages \union {"python"}
  BY DEF Init
<1>3. Texts(script, language) \subseteq Seq(Pieces) /\ OwnLengths \subseteq Nat \ {0}
  BY <1>2, GenerationAssumption
<1>4. Rows = 1 .. n /\ \A i \in 1 .. n : rows[i] \in [own : IF script = "mbpp" THEN OwnLengths ELSE {1},
                                                  text : Texts(script, language)]
  BY <1>1 DEF Rows
<1>5. Inputs
  <2>1. Rows \subseteq Nat
    BY <1>4
  <2>2. ASSUME script = "mbpp", NEW i \in Rows
        PROVE  rows[i].own \in Nat \ {0} /\ rows[i].text \in Seq(Pieces)
    <3>1. rows[i].own \in OwnLengths /\ rows[i].text \in Texts(script, language)
      BY <1>4, <2>2
    <3>. QED  BY <1>3, <3>1
  <2>. QED  BY <1>2, <2>1, <2>2 DEF Inputs
<1>6. Prompts /\ Completions
  BY DEF Init, Prompts, Completions
<1>. QED  BY <1>5, <1>6 DEF IInv

(* The inputs stay, and with them what is computed from them. *)
LEMMA InputsStay ==
    ASSUME UNCHANGED <<script, language, rows>>
    PROVE  (Inputs <=> Inputs') /\ Rows' = Rows /\ \A own : FewShotPrompt(own)' = FewShotPrompt(own)
BY DEF Inputs, Rows, FewShotPrompt, Fit, Limit

LEMMA TextStays ==
    ASSUME UNCHANGED <<script, rows, fprompt, written>>
    PROVE  (AtEnd <=> AtEnd') /\ Rows' = Rows /\ \A i : MbppCompletion(i)' = MbppCompletion(i)
BY DEF AtEnd, Stopped, Written, Rows, MbppCompletion

LEMMA IInvNext == IInv /\ [Next]_vars => IInv'
<1> SUFFICES ASSUME IInv, [Next]_vars PROVE IInv'
  OBVIOUS
<1>1. UNCHANGED <<script, language, rows>>
  BY DEF Next, BuildPrompt, NoSettings, WritePiece, Extract, BuildTest, NoTestString, Over, vars
<1>2. Inputs' /\ Rows' = Rows /\ \A own : FewShotPrompt(own)' = FewShotPrompt(own)
  BY <1>1, InputsStay DEF IInv
<1>3. ASSUME UNCHANGED fprompt PROVE Prompts'
  BY <1>1, <1>2, <1>3 DEF IInv, Prompts
<1>4. CASE BuildPrompt
  <2>1. Prompts'
    BY <1>1, <1>2, <1>4 DEF BuildPrompt, Prompts
  <2>2. Completions'
    BY <1>4 DEF BuildPrompt, IInv, Completions
  <2>. QED  BY <1>2, <2>1, <2>2 DEF IInv
<1>5. CASE NoSettings
  <2>1. Completions'
    BY <1>5 DEF NoSettings, IInv, Completions
  <2>. QED  BY <1>2, <1>3, <1>5, <2>1 DEF IInv, NoSettings
<1>6. CASE WritePiece
  <2>1. Completions'
    BY <1>6 DEF WritePiece, IInv, Completions
  <2>. QED  BY <1>2, <1>3, <1>6, <2>1 DEF IInv, WritePiece
<1>7. CASE Extract
  <2>1. UNCHANGED <<script, rows, fprompt, written>> /\ AtEnd /\ generation' = [i \in Rows |-> Code(i)]
    BY <1>7 DEF Extract
  <2>2. script = "mbpp" => generation' = [i \in Rows |-> MbppCompletion(i)]
    BY <2>1 DEF Code
  <2>3. Completions'
    BY <2>1, <2>2, TextStays DEF IInv, Completions
  <2>. QED  BY <1>2, <1>3, <2>1, <2>3 DEF IInv
<1>8. CASE BuildTest
  <2>1. /\ UNCHANGED <<script, rows, fprompt, written, generation>> /\ stage = "test"
    BY <1>8 DEF BuildTest
  <2>2. Completions'
    BY <2>1, TextStays DEF IInv, Completions
  <2>. QED  BY <1>2, <1>3, <2>1, <2>2 DEF IInv
<1>9. CASE NoTestString
  <2>1. Completions'
    BY <1>9 DEF NoTestString, IInv, Completions
  <2>. QED  BY <1>2, <1>3, <1>9, <2>1 DEF IInv, NoTestString
<1>10. CASE Over \/ UNCHANGED vars
  <2>1. UNCHANGED <<script, rows, fprompt, written, generation, stage>>
    BY <1>10 DEF Over, vars
  <2>2. Completions'
    BY <2>1, TextStays DEF IInv, Completions
  <2>. QED  BY <1>2, <1>3, <2>1, <2>2 DEF IInv
<1>. QED
  BY <1>4, <1>5, <1>6, <1>7, <1>8, <1>9, <1>10 DEF Next

-----------------------------------------------------------------------------
(* Prompts *)

(* The number of examples taken is one for which there is room. *)
LEMMA ShotsFit ==
    ASSUME NEW own \in Nat, Fit(own) # {}
    PROVE  Max(Fit(own)) \in Fit(own)
<1>1. \E x \in Fit(own) : \A y \in Fit(own) : x >= y
  <2>1. Fit(own) \subseteq {1, 2, 3}
    BY DEF Fit
  <2>2. CASE 3 \in Fit(own)
    BY <2>1, <2>2
  <2>3. CASE 3 \notin Fit(own) /\ 2 \in Fit(own)
    BY <2>1, <2>3
  <2>4. CASE 3 \notin Fit(own) /\ 2 \notin Fit(own)
    BY <2>1, <2>4
  <2>. QED  BY <2>2, <2>3, <2>4
<1>. QED  BY <1>1 DEF Max

LEMMA PromptHasRoom ==
    ASSUME NEW own \in Nat
    PROVE  LET p == FewShotPrompt(own)
           IN  /\ PromptTokens(p) + MaxGenLen <= MaxSeqLen + (IF p.bos_text THEN 1 ELSE 0)
               /\ p.own < own => own + MaxGenLen > MaxSeqLen
<1>1. ShotLength \in Nat /\ MaxSeqLen \in Nat /\ MaxGenLen \in Nat /\ Limit \in Nat /\ Limit = MaxSeqLen - MaxGenLen
  BY GenerationAssumption DEF Limit
<1>2. CASE Fit(own) # {}
  <2> DEFINE n == Max(Fit(own))
  <2>1. n \in 1 .. 3 /\ n * ShotLength + own < Limit
    BY <1>2, ShotsFit DEF Fit
  <2>2. FewShotPrompt(own) = [shots |-> n, own |-> own, bos_text |-> FALSE]
    BY <1>2 DEF FewShotPrompt
  <2> HIDE DEF n
  <2>3. n * ShotLength \in Nat
    BY <1>1, <2>1
  <2>4. PromptTokens(FewShotPrompt(own)) = n * ShotLength + own
    BY <2>2, <2>3 DEF PromptTokens
  <2>. QED  BY <1>1, <2>1, <2>2, <2>3, <2>4
<1>3. CASE Fit(own) = {}
  <2> DEFINE n == Min({own, Limit})
  <2>1. n \in Nat /\ n <= Limit /\ (n < own => Limit < own)
    BY <1>1, MinOfTwo
  <2>2. FewShotPrompt(own) = [shots |-> 0, own |-> n, bos_text |-> TRUE]
    BY <1>3 DEF FewShotPrompt
  <2> HIDE DEF n
  <2>3. PromptTokens(FewShotPrompt(own)) = n + 1
    BY <1>1, <2>1, <2>2 DEF PromptTokens
  <2>. QED  BY <1>1, <2>1, <2>2, <2>3
<1>. QED  BY <1>2, <1>3

(* A few-shot prompt leaves room for the answer, but for one token when no example
   fits, and a problem is cut only if it would not fit alone: for any lengths of the
   problems, of the examples and of what the model takes. *)
THEOREM PromptsFit == Spec => []PromptFits
<1>1. IInv => PromptFits
  <2> SUFFICES ASSUME IInv, NEW i \in DOMAIN fprompt
               PROVE  LET p == fprompt[i]
                      IN  /\ PromptTokens(p) + MaxGenLen <= MaxSeqLen + (IF p.bos_text THEN 1 ELSE 0)
                          /\ p.own < rows[i].own => rows[i].own + MaxGenLen > MaxSeqLen
    BY DEF PromptFits
  <2>1. script = "mbpp" /\ fprompt = [j \in Rows |-> FewShotPrompt(rows[j].own)]
    BY DEF IInv, Prompts
  <2>2. i \in Rows /\ fprompt[i] = FewShotPrompt(rows[i].own) /\ rows[i].own \in Nat
    BY <2>1 DEF IInv, Inputs
  <2>. QED  BY <2>2, PromptHasRoom
<1>. QED  BY <1>1, IInvInit, IInvNext, PTL DEF Spec

-----------------------------------------------------------------------------
(* Rows of a batch *)

LEMMA RowCut ==
    ASSUME IInv, script = "mbpp", stage = "judged", NEW i \in Rows, ~fprompt[i].bos_text,
           generation[i] # CutAt(rows[i].text, 1, {"[DONE]"})
    PROVE  /\ IsPrefix(generation[i], CutAt(rows[i].text, 1, {"[DONE]"}))
           /\ written = MaxNew \/ (i # 1 /\ Contains(Written(1), "[DONE]"))
<1> DEFINE text  == rows[i].text
           first == FirstAt(text, 1, {"[DONE]"})
           w     == Min({written, Len(text)})
           code  == CutAt(text, 1, {"[DONE]"})
<1>1. text \in Seq(Pieces) /\ Len(text) \in Nat /\ written \in Nat
  BY DEF IInv, Inputs, Completions
<1>2. w \in 0 .. Len(text) /\ w <= written /\ (w < Len(text) => w = written)
  BY <1>1, MinOfTwo
<1>3. generation[i] = CutAt(SubSeq(text, 1, w), 1, {"[DONE]"})
  BY DEF IInv, Completions, MbppCompletion, Written
<1>4. /\ first \in 1 .. Len(text) + 1
      /\ \A j \in 1 .. Len(text) : j < first => text[j] # "[DONE]"
  BY <1>1, FirstIsFirst
<1>5. code = SubSeq(text, 1, first - 1)
  BY DEF CutAt
<1>6. Written(i) = SubSeq(text, 1, w)
  BY DEF Written
<1>7. CutAt(SubSeq(text, 1, w), 1, {"[DONE]"}) = IF w < first - 1 THEN SubSeq(text, 1, w) ELSE code
  BY <1>1, <1>2, CutOfPrefix
<1>8. generation[i] # code
  OBVIOUS
<1>9. AtEnd
  BY DEF IInv, Completions
<1>10. IsPrefix(generation[i], code) <=> IsPrefix(generation[i], CutAt(rows[i].text, 1, {"[DONE]"}))
  OBVIOUS
<1>11. Len(text) <= written <=> Len(rows[i].text) <= written
  OBVIOUS
<1> HIDE DEF text, first, w, code
<1>12. w < first - 1 /\ generation[i] = SubSeq(text, 1, w)
  BY <1>3, <1>7, <1>8
<1>13. w < Len(text) /\ w = written
  BY <1>1, <1>2, <1>4, <1>12
<1>14. IsPrefix(generation[i], code)
  <2>1. Len(SubSeq(text, 1, w)) = w /\ Len(code) = first - 1 /\ \A j \in 1 .. w : j \in 1 .. Len(text)
    BY <1>1, <1>2, <1>4, <1>5
  <2>2. SubSeq(SubSeq(text, 1, w), 1, w) = SubSeq(code, 1, w)
    BY <1>1, <1>2, <1>4, <1>5, <1>12
  <2>. QED  BY <1>2, <1>4, <1>12, <2>1, <2>2 DEF IsPrefix
<1>15. ~Contains(Written(i), "[DONE]")
  <2>1. Len(SubSeq(text, 1, w)) = w /\ \A j \in 1 .. w : SubSeq(text, 1, w)[j] = text[j]
    BY <1>1, <1>2
  <2>2. \A j \in 1 .. w : j \in 1 .. Len(text) /\ j < first
    BY <1>1, <1>2, <1>4, <1>12
  <2>. QED  BY <1>4, <1>6, <2>1, <2>2 DEF Contains
<1>16. written = MaxNew \/ Stopped
  <2>1. ~(Len(rows[i].text) <= written)
    BY <1>1, <1>11, <1>13
  <2>2. ~(written >= Len(rows[i].text))
    BY <2>1
  <2>. QED  BY <1>9, <2>2 DEF AtEnd
<1>. QED  BY <1>10, <1>14, <1>15, <1>16 DEF Stopped

(* A batch is stopped for its first row: that row's code is whole if the limit allows,
   and another row's is cut only where the first had finished, whatever the model writes. *)
THEOREM RowsAreWhole == Spec => []RowsWhole
<1>1. IInv => RowsWhole
  BY RowCut DEF RowsWhole
<1>. QED  BY <1>1, IInvInit, IInvNext, PTL DEF Spec

-----------------------------------------------------------------------------
(* Numbers *)

LEMMA Induction ==
    ASSUME NEW T, 0 \in T, \A n \in Nat : n \in T => n + 1 \in T
    PROVE  Nat \subseteq T
<1> SUFFICES ASSUME Nat \ T # {} PROVE FALSE
  OBVIOUS
<1> DEFINE m == Min(Nat \ T)
<1>1. m \in Nat \ T /\ \A n \in Nat \ T : m <= n
  BY LeastNumber
<1> HIDE DEF m
<1>2. m - 1 \in Nat /\ m = (m - 1) + 1
  BY <1>1
<1>3. m - 1 \in T
  BY <1>1, <1>2
<1>. QED  BY <1>1, <1>2, <1>3

LEMMA MaxOfBounded ==
    ASSUME NEW S \in SUBSET Nat, S # {}, NEW b \in Nat, \A x \in S : x <= b
    PROVE  Max(S) \in S /\ \A x \in S : x <= Max(S)
<1> DEFINE T == {b - x : x \in S}
<1>1. T \in SUBSET Nat /\ T # {}
  <2>1. \A x \in S : b - x \in Nat
    OBVIOUS
  <2>. QED  BY <2>1
<1>2. Min(T) \in T /\ \A n \in T : Min(T) <= n
  <2> HIDE DEF T
  <2>. QED  BY <1>1, LeastNumber
<1>3. PICK x \in S : Min(T) = b - x
  BY <1>2
<1>4. ASSUME NEW y \in S PROVE x >= y
  <2>1. b - y \in T
    OBVIOUS
  <2>2. b - x <= b - y
    BY <1>2, <1>3, <2>1
  <2>. QED  BY <2>2
<1>. QED  BY <1>4 DEF Max

-----------------------------------------------------------------------------
(* What is open after a text *)

\* f has what is open after the pieces at the positions of a set, in their order.
Folds(f, s, lang) ==
    /\ OpenAfter(s, lang) = f[DOMAIN s] /\ f[{}] = <<>>
    /\ \A T \in SUBSET DOMAIN s : T # {} => f[T] = OpenNext(f[T \ {Max(T)}], s[Max(T)], lang)

(* The fold over a text has a value. *)
LEMMA FoldUnfolds ==
    ASSUME NEW s \in Seq(Pieces), NEW lang
    PROVE  \E f : Folds(f, s, lang)
<1> DEFINE S == DOMAIN s
           Body(g, T) == IF T = {} THEN <<>> ELSE OpenNext(g[T \ {Max(T)}], s[Max(T)], lang)
           Unfolds(g, n) == \A T \in SUBSET S : Cardinality(T) <= n => g[T] = Body(g, T)
           P == {n \in Nat : \E g : g = [T \in SUBSET S |-> g[T]] /\ Unfolds(g, n)}
<1>0. /\ S \in SUBSET Nat /\ IsFiniteSet(S)
      /\ \A T \in SUBSET S : T # {} => Max(T) \in T
  <2>1. Len(s) \in Nat /\ S = 1 .. Len(s)
    OBVIOUS
  <2>2. ASSUME NEW T \in SUBSET S, T # {} PROVE Max(T) \in T
    <3>1. T \in SUBSET Nat /\ \A x \in T : x <= Len(s)
      BY <2>1
    <3>. QED  BY <2>1, <2>2, <3>1, MaxOfBounded
  <2>3. IsFiniteSet(1 .. Len(s)) /\ 1 .. Len(s) \in SUBSET Nat
    BY <2>1, FS_Interval
  <2>. QED  BY <2>1, <2>2, <2>3
<1> HIDE DEF S
<1>1. \A T \in SUBSET S : IsFiniteSet(T) /\ Cardinality(T) \in Nat /\ Cardinality(T) <= Cardinality(S) /\ (Cardinality(T) = 0 <=> T = {})
  BY <1>0, FS_Subset, FS_CardinalityType, FS_EmptySet
<1>2. ASSUME NEW T \in SUBSET S, T # {}
      PROVE  T \ {Max(T)} \in SUBSET S /\ Cardinality(T \ {Max(T)}) = Cardinality(T) - 1
  <2>1. Max(T) \in T /\ IsFiniteSet(T)
    BY <1>0, <1>1, <1>2
  <2>. QED  BY <2>1, FS_RemoveElement
<1>3. 0 \in P
  <2> DEFINE g == [T \in SUBSET S |-> <<>>]
  <2>1. g = [T \in SUBSET S |-> g[T]]
    OBVIOUS
  <2>2. Unfolds(g, 0)
    BY <1>1
  <2>. QED  BY <2>1, <2>2
<1>4. ASSUME NEW n \in Nat, n \in P PROVE n + 1 \in P
  <2>1. PICK g : g = [T \in SUBSET S |-> g[T]] /\ Unfolds(g, n)
    BY <1>4
  <2> DEFINE h == [T \in SUBSET S |-> Body(g, T)]
  <2>2. \A T \in SUBSET S : Cardinality(T) <= n => h[T] = g[T]
    BY <2>1
  <2>3. \A T \in SUBSET S : h[T] = Body(g, T)
    OBVIOUS
  <2>4. h = [T \in SUBSET S |-> h[T]]
    OBVIOUS
  <2> HIDE DEF h
  <2>5. Unfolds(h, n + 1)
    <3> SUFFICES ASSUME NEW T \in SUBSET S, Cardinality(T) <= n + 1 PROVE h[T] = Body(h, T)
      OBVIOUS
    <3>1. CASE T = {}
      BY <2>3, <3>1
    <3>2. CASE T # {}
      <4>1. T \ {Max(T)} \in SUBSET S /\ Cardinality(T \ {Max(T)}) <= n
        BY <1>1, <1>2, <3>2
      <4>2. h[T \ {Max(T)}] = g[T \ {Max(T)}]
        BY <2>2, <4>1
      <4>. QED  BY <2>3, <3>2, <4>2
    <3>. QED  BY <3>1, <3>2
  <2> HIDE DEF Unfolds
  <2>6. n + 1 \in Nat
    OBVIOUS
  <2>. QED  BY <2>4, <2>5, <2>6
<1>5. Cardinality(S) \in P
  <2>1. Cardinality(S) \in Nat
    BY <1>0, FS_CardinalityType
  <2> HIDE DEF P
  <2>. QED  BY <1>3, <1>4, <2>1, Induction
<1> DEFINE Whole(g) == g = [T \in SUBSET S |-> IF T = {} THEN <<>>
                              ELSE LET x == Max(T) IN OpenNext(g[T \ {x}], s[x], lang)]
           f == CHOOSE g : Whole(g)
<1>6. PICK g : g = [T \in SUBSET S |-> g[T]] /\ Unfolds(g, Cardinality(S))
  BY <1>5
<1>7. \A T \in SUBSET S : g[T] = Body(g, T)
  BY <1>1, <1>6
<1>8. Whole(g)
  BY <1>6, <1>7
<1>9. Whole(f)
  <2> HIDE DEF Whole
  <2>. QED  BY <1>8
<1>10. OpenAfter(s, lang) = f[S]
  BY DEF OpenAfter, FoldLeft, MapThenFoldSet, S
<1> HIDE DEF f
<1>11. f[{}] = <<>> /\ \A T \in SUBSET S : T # {} => f[T] = OpenNext(f[T \ {Max(T)}], s[Max(T)], lang)
  BY <1>9
<1>. QED  BY <1>10, <1>11 DEF Folds, S

\* From what is open at first, piece by piece, to what is open at last.
Passes(a, s, b, lang) ==
    \E st : /\ st[0] = a /\ st[Len(s)] = b
            /\ \A j \in 1 .. Len(s) : st[j] = OpenNext(st[j - 1], s[j], lang)

LEMMA PassesFold ==
    ASSUME NEW s \in Seq(Pieces), NEW lang, NEW b, Passes(<<>>, s, b, lang)
    PROVE  OpenAfter(s, lang) = b
<1>1. PICK st : /\ st[0] = <<>> /\ st[Len(s)] = b
                /\ \A j \in 1 .. Len(s) : st[j] = OpenNext(st[j - 1], s[j], lang)
  BY DEF Passes
<1>2. PICK f : Folds(f, s, lang)
  BY FoldUnfolds
<1>3. Len(s) \in Nat /\ DOMAIN s = 1 .. Len(s)
  OBVIOUS
<1> DEFINE P == {n \in Nat : n <= Len(s) => f[1 .. n] = st[n]}
<1>4. 0 \in P
  <2>1. 1 .. 0 = {}
    OBVIOUS
  <2>. QED  BY <1>1, <1>2, <2>1 DEF Folds
<1>5. ASSUME NEW n \in Nat, n \in P PROVE n + 1 \in P
  <2> SUFFICES ASSUME n + 1 <= Len(s) PROVE f[1 .. n + 1] = st[n + 1]
    OBVIOUS
  <2> DEFINE T == 1 .. n + 1
  <2>1. T \in SUBSET Nat /\ n + 1 \in T /\ T \in SUBSET DOMAIN s /\ \A x \in T : x <= n + 1
    BY <1>3
  <2>2. Max(T) = n + 1
    <3>1. n + 1 \in T /\ n + 1 \in Nat
      OBVIOUS
    <3> HIDE DEF T
    <3>2. Max(T) \in T /\ \A x \in T : x <= Max(T)
      BY <2>1, <3>1, MaxOfBounded
    <3>3. Max(T) \in Nat /\ n + 1 <= Max(T) /\ Max(T) <= n + 1
      BY <2>1, <3>1, <3>2
    <3>. QED  BY <3>1, <3>3
  <2>3. T \ {n + 1} = 1 .. n
    OBVIOUS
  <2>4. f[T] = OpenNext(f[1 .. n], s[n + 1], lang)
    <3> HIDE DEF T
    <3>. QED  BY <1>2, <2>1, <2>2, <2>3 DEF Folds
  <2>5. f[1 .. n] = st[n] /\ st[n + 1] = OpenNext(st[n], s[n + 1], lang)
    BY <1>1, <1>3, <1>5
  <2>. QED  BY <2>4, <2>5
<1>6. Len(s) \in P
  <2> HIDE DEF P
  <2>. QED  BY <1>3, <1>4, <1>5, Induction
<1>. QED  BY <1>1, <1>2, <1>3, <1>6 DEF Folds

LEMMA PassesNothing == ASSUME NEW a, NEW lang PROVE Passes(a, <<>>, a, lang)
<1>1. LET st == [j \in 0 .. 0 |-> a]
      IN  st[0] = a /\ st[Len(<<>>)] = a /\ \A j \in 1 .. Len(<<>>) : st[j] = OpenNext(st[j - 1], <<>>[j], lang)
  OBVIOUS
<1>. QED  BY <1>1 DEF Passes

LEMMA PassesOne == ASSUME NEW a, NEW p, NEW lang PROVE Passes(a, <<p>>, OpenNext(a, p, lang), lang)
<1> DEFINE st == [j \in 0 .. 1 |-> IF j = 0 THEN a ELSE OpenNext(a, p, lang)]
<1>1. st[0] = a /\ st[1] = OpenNext(a, p, lang)
  OBVIOUS
<1>2. Len(<<p>>) = 1 /\ <<p>>[1] = p
  OBVIOUS
<1> HIDE DEF st
<1>3. \A j \in 1 .. 1 : st[j] = OpenNext(st[j - 1], <<p>>[j], lang)
  BY <1>1, <1>2
<1>. QED  BY <1>1, <1>2, <1>3 DEF Passes

LEMMA PassesBoth ==
    ASSUME NEW s \in Seq(Pieces), NEW t \in Seq(Pieces), NEW lang, NEW a, NEW b, NEW c,
           Passes(a, s, b, lang), Passes(b, t, c, lang)
    PROVE  Passes(a, s \o t, c, lang)
<1>1. PICK st : /\ st[0] = a /\ st[Len(s)] = b
                /\ \A j \in 1 .. Len(s) : st[j] = OpenNext(st[j - 1], s[j], lang)
  BY DEF Passes
<1>2. PICK tt : /\ tt[0] = b /\ tt[Len(t)] = c
                /\ \A j \in 1 .. Len(t) : tt[j] = OpenNext(tt[j - 1], t[j], lang)
  BY DEF Passes
<1> DEFINE m == Len(s)
           n == Len(t)
           both == [j \in 0 .. m + n |-> IF j <= m THEN st[j] ELSE tt[j - m]]
<1>3. /\ m \in Nat /\ n \in Nat /\ Len(s \o t) = m + n
      /\ \A j \in 1 .. m + n : (s \o t)[j] = IF j <= m THEN s[j] ELSE t[j - m]
  BY ConcatProperties
<1> HIDE DEF m, n
<1>4. \A j \in 0 .. m + n : both[j] = IF j <= m THEN st[j] ELSE tt[j - m]
  OBVIOUS
<1> HIDE DEF both
<1>5. both[0] = a /\ both[m + n] = c
  <2>1. both[0] = a
    <3>1. 0 \in 0 .. m + n /\ 0 <= m
      BY <1>3
    <3>. QED  BY <1>1, <1>4, <3>1
  <2>2. CASE n = 0
    BY <1>1, <1>2, <1>3, <1>4, <2>2 DEF m, n
  <2>3. CASE n # 0
    <3>1. m + n \in 0 .. m + n /\ ~(m + n <= m) /\ (m + n) - m = n
      BY <1>3, <2>3
    <3>. QED  BY <1>2, <1>4, <2>1, <3>1 DEF n
  <2>. QED  BY <2>1, <2>2, <2>3
<1>6. ASSUME NEW j \in 1 .. m + n PROVE both[j] = OpenNext(both[j - 1], (s \o t)[j], lang)
  <2>1. CASE j <= m
    <3>1. j \in 1 .. m /\ j - 1 \in 0 .. m + n /\ j \in 0 .. m + n /\ j - 1 <= m
      BY <1>3, <2>1
    <3>. QED  BY <1>1, <1>3, <1>4, <2>1, <3>1 DEF m
  <2>2. CASE j > m
    <3>1. j - m \in 1 .. n /\ j \in 0 .. m + n /\ j - 1 \in 0 .. m + n /\ ~(j <= m)
          /\ (j - m) - 1 = (j - 1) - m
      BY <1>3, <2>2
    <3>2. both[j] = tt[j - m] /\ (s \o t)[j] = t[j - m]
      BY <1>3, <1>4, <3>1
    <3>3. both[j - 1] = tt[(j - m) - 1]
      <4>1. CASE j - 1 <= m
        <5>1. j - 1 = m /\ (j - m) - 1 = 0
          BY <1>3, <2>2, <4>1
        <5>. QED  BY <1>1, <1>2, <1>4, <3>1, <4>1, <5>1 DEF m
      <4>2. CASE ~(j - 1 <= m)
        BY <1>4, <3>1, <4>2
      <4>. QED  BY <4>1, <4>2
    <3>. QED  BY <1>2, <3>1, <3>2, <3>3 DEF n
  <2>. QED  BY <1>3, <2>1, <2>2
<1>. QED  BY <1>3, <1>5, <1>6 DEF Passes

-----------------------------------------------------------------------------
(* What makes a program whole *)

\* The class around the function, what the tests add behind the last function, and
\* what a program may consist of before.
Outer(lang)   == IF lang \in Classes THEN <<"class">> ELSE <<>>
TestEnd(lang) == IF lang \in Classes THEN <<"tests", "classend">> ELSE <<"tests">>
Fair          == Pieces \ {"tests", "main", "talk", "fence", "unfence", "[DONE]"}

(* The class is open when the tests come, and closed behind them. *)
LEMMA TestEndCloses ==
    ASSUME NEW lang
    PROVE  TestEnd(lang) \in Seq(Pieces) /\ Passes(Outer(lang), TestEnd(lang), <<>>, lang)
<1>1. \A open : OpenNext(open, "tests", lang) = open
  BY DEF OpenNext, Opens
<1>2. Passes(Outer(lang), <<"tests">>, Outer(lang), lang)
  <2>1. Passes(Outer(lang), <<"tests">>, OpenNext(Outer(lang), "tests", lang), lang)
    BY PassesOne
  <2>. QED  BY <1>1, <2>1
<1>3. CASE lang \notin Classes
  <2>1. TestEnd(lang) = <<"tests">> /\ Outer(lang) = <<>> /\ <<"tests">> \in Seq(Pieces)
    BY <1>3 DEF TestEnd, Outer, Pieces
  <2>. QED  BY <1>2, <2>1
<1>4. CASE lang \in Classes
  <2>1. OpenNext(<<"class">>, "classend", lang) = <<>>
    BY DEF OpenNext, Opens, Front
  <2>2. Passes(<<"class">>, <<"classend">>, OpenNext(<<"class">>, "classend", lang), lang)
    BY PassesOne
  <2>3. Passes(<<"class">>, <<"classend">>, <<>>, lang)
    BY <2>1, <2>2
  <2>4. /\ <<"tests">> \in Seq(Pieces) /\ <<"classend">> \in Seq(Pieces)
        /\ TestEnd(lang) = <<"tests">> \o <<"classend">> /\ Outer(lang) = <<"class">>
        /\ TestEnd(lang) \in Seq(Pieces)
    BY <1>4 DEF TestEnd, Outer, Pieces
  <2>5. Passes(Outer(lang), <<"tests">> \o <<"classend">>, <<>>, lang)
    BY <1>2, <2>3, <2>4, PassesBoth
  <2>. QED  BY <2>4, <2>5
<1>. QED  BY <1>3, <1>4

LEMMA WholeProgram ==
    ASSUME NEW lang, NEW H \in Seq(Fair), Passes(<<>>, H, Outer(lang), lang)
    PROVE  LET program_ == H \o TestEnd(lang)
           IN  /\ program_ \in Seq(Pieces)
               /\ Balanced(program_, lang) /\ TestsReached(program_, lang)
               /\ Range(program_) \intersect {"main", "talk", "fence", "unfence", "[DONE]"} = {}
<1> DEFINE t == TestEnd(lang)
           p == H \o t
           h == Len(H)
<1>1. H \in Seq(Pieces) /\ h \in Nat /\ DOMAIN H = 1 .. h /\ \A i \in 1 .. h : H[i] \in Fair
  <2>1. Fair \subseteq Pieces
    BY DEF Fair
  <2>. QED  BY <2>1, SeqMonotonic
<1>2. t \in Seq(Pieces) /\ Passes(Outer(lang), t, <<>>, lang)
  BY TestEndCloses
<1>3. Len(t) \in {1, 2} /\ t[1] = "tests" /\ (Len(t) = 2 => t[2] = "classend")
  BY DEF TestEnd
<1> HIDE DEF t
<1>4. /\ p \in Seq(Pieces) /\ Len(p) = h + Len(t) /\ DOMAIN p = 1 .. h + Len(t)
      /\ \A i \in 1 .. h + Len(t) : p[i] = IF i <= h THEN H[i] ELSE t[i - h]
  BY <1>1, <1>2, ConcatProperties
<1> HIDE DEF p, h
<1>5. Balanced(p, lang)
  <2>1. Passes(<<>>, p, <<>>, lang)
    BY <1>1, <1>2, PassesBoth DEF p
  <2>. QED  BY <1>4, <2>1, PassesFold DEF Balanced
<1>6. \A i \in DOMAIN p : p[i] \in Fair \/ p[i] \in {"tests", "classend"}
  <2> SUFFICES ASSUME NEW i \in DOMAIN p PROVE p[i] \in Fair \/ p[i] \in {"tests", "classend"}
    OBVIOUS
  <2>1. CASE i <= h
    BY <1>1, <1>4, <2>1
  <2>2. CASE ~(i <= h)
    <3>1. p[i] = t[i - h] /\ i - h \in {1, 2} /\ i - h <= Len(t)
      BY <1>1, <1>3, <1>4, <2>2
    <3>. QED  BY <1>3, <3>1
  <2>. QED  BY <2>1, <2>2
<1>7. Range(p) \intersect {"main", "talk", "fence", "unfence", "[DONE]"} = {}
  <2>1. \A x \in {"main", "talk", "fence", "unfence", "[DONE]"} : x \notin Fair /\ x \notin {"tests", "classend"}
    BY DEF Fair
  <2>. QED  BY <1>6, <2>1 DEF Range
<1>8. TestsReached(p, lang)
  <2> SUFFICES ASSUME NEW i \in DOMAIN p, p[i] = "tests"
               PROVE  OpenAfter(SubSeq(p, 1, i - 1), lang) \in {<<>>, <<"class">>}
    BY DEF TestsReached
  <2>1. i = h + 1
    <3>1. "tests" \notin Fair
      BY DEF Fair
    <3>2. ~(i <= h)
      BY <1>1, <1>4, <3>1
    <3>3. p[i] = t[i - h] /\ i - h \in {1, 2} /\ i - h <= Len(t) /\ i \in Int
      BY <1>1, <1>3, <1>4, <3>2
    <3>4. ASSUME i - h = 2 PROVE FALSE
      <4>1. Len(t) = 2 /\ t[i - h] = t[2]
        BY <1>3, <3>3, <3>4
      <4>. QED  BY <1>3, <3>3, <4>1
    <3>5. i - h = 1
      BY <3>3, <3>4
    <3>. QED  BY <1>1, <3>3, <3>5
  <2>2. SubSeq(p, 1, h) = H
    <3>1. \A j \in 1 .. h : p[j] = H[j] /\ p[j] \in Pieces
      BY <1>1, <1>3, <1>4 DEF Fair
    <3>2. /\ SubSeq(p, 1, h) \in Seq(Pieces) /\ Len(SubSeq(p, 1, h)) = h
          /\ \A j \in 1 .. h : SubSeq(p, 1, h)[j] = p[j]
      BY <1>1, <3>1, SubSeqProperties
    <3>. QED  BY <1>1, <3>1, <3>2, SeqEqual DEF h
  <2>3. i - 1 = h
    BY <1>1, <2>1
  <2>4. OpenAfter(H, lang) = Outer(lang)
    BY <1>1, PassesFold
  <2>. QED  BY <2>2, <2>3, <2>4 DEF Outer
<1>. QED  BY <1>4, <1>5, <1>7, <1>8 DEF p, t

(* A program in which the signature is between two parts without one has it once, and
   what the second part begins with is right behind it. *)
LEMMA SignatureOnce ==
    ASSUME NEW A \in Seq(Pieces \ {"sig"}), NEW B \in Seq(Pieces \ {"sig"}), NEW own,
           Len(own) \in 0 .. Len(B), own = SubSeq(B, 1, Len(own))
    PROVE  LET p == (A \o <<"sig">>) \o B
           IN  /\ p \in Seq(Pieces)
               /\ Occurrences(p, "sig") = 1
               /\ FirstAt(p, 1, {"sig"}) = Len(A) + 1
               /\ SubSeq(p, Len(A) + 2, Len(p)) = B
               /\ IsPrefix(own, B)
<1> DEFINE a == Len(A)
           b == Len(B)
           p == (A \o <<"sig">>) \o B
<1>1. /\ a \in Nat /\ b \in Nat /\ A \in Seq(Pieces) /\ B \in Seq(Pieces) /\ <<"sig">> \in Seq(Pieces)
      /\ \A i \in 1 .. a : A[i] \in Pieces \ {"sig"}
      /\ \A i \in 1 .. b : B[i] \in Pieces \ {"sig"}
  <2>1. <<"sig">> \in Seq(Pieces)
    BY DEF Pieces
  <2>2. A \in Seq(Pieces) /\ B \in Seq(Pieces)
    BY SeqMonotonic
  <2>. QED  BY <2>1, <2>2
<1>2. /\ A \o <<"sig">> \in Seq(Pieces) /\ Len(A \o <<"sig">>) = a + 1
      /\ \A i \in 1 .. a + 1 : (A \o <<"sig">>)[i] = IF i <= a THEN A[i] ELSE <<"sig">>[i - a]
  BY <1>1, ConcatProperties
<1>3. /\ p \in Seq(Pieces) /\ Len(p) = a + 1 + b /\ DOMAIN p = 1 .. a + 1 + b
      /\ \A i \in 1 .. a + 1 + b : p[i] = IF i <= a + 1 THEN (A \o <<"sig">>)[i] ELSE B[i - (a + 1)]
  <2>1. /\ p \in Seq(Pieces) /\ Len(p) = (a + 1) + b
        /\ \A i \in 1 .. (a + 1) + b : p[i] = IF i <= a + 1 THEN (A \o <<"sig">>)[i] ELSE B[i - (a + 1)]
    BY <1>1, <1>2, ConcatProperties
  <2>. QED  BY <1>1, <2>1
<1> HIDE DEF p, a, b
<1>4. /\ \A i \in 1 .. a : p[i] = A[i] /\ p[i] # "sig"
      /\ p[a + 1] = "sig"
      /\ \A i \in 1 .. b : p[a + 1 + i] = B[i] /\ B[i] # "sig"
  <2>1. \A i \in 1 .. a : p[i] = A[i] /\ p[i] # "sig"
    BY <1>1, <1>2, <1>3
  <2>2. p[a + 1] = "sig"
    <3>1. a + 1 \in 1 .. a + 1 + b /\ a + 1 \in 1 .. a + 1 /\ ~(a + 1 <= a) /\ (a + 1) - a = 1
      BY <1>1
    <3>. QED  BY <1>2, <1>3, <3>1
  <2>3. ASSUME NEW i \in 1 .. b PROVE p[a + 1 + i] = B[i] /\ B[i] # "sig"
    <3>1. a + 1 + i \in 1 .. a + 1 + b /\ ~(a + 1 + i <= a + 1) /\ (a + 1 + i) - (a + 1) = i
      BY <1>1
    <3>. QED  BY <1>1, <1>3, <3>1
  <2>. QED  BY <2>1, <2>2, <2>3
<1>5. \A i \in DOMAIN p : p[i] = "sig" <=> i = a + 1
  <2> SUFFICES ASSUME NEW i \in DOMAIN p, i # a + 1 PROVE p[i] # "sig"
    BY <1>4
  <2>1. CASE i <= a
    BY <1>1, <1>3, <1>4, <2>1
  <2>2. CASE i > a + 1
    <3>1. i \in Int /\ a \in Int /\ b \in Int /\ i <= a + 1 + b
      BY <1>1, <1>3
    <3>2. i - (a + 1) \in 1 .. b /\ a + 1 + (i - (a + 1)) = i
      BY <2>2, <3>1
    <3>. QED  BY <1>4, <3>2
  <2>. QED  BY <1>1, <1>3, <2>1, <2>2
<1>6. Occurrences(p, "sig") = 1
  <2>1. {i \in DOMAIN p : p[i] = "sig"} = {a + 1}
    BY <1>1, <1>3, <1>5
  <2>. QED  BY <2>1, FS_Singleton DEF Occurrences
<1>7. FirstAt(p, 1, {"sig"}) = a + 1
  <2>1. a + 1 \in 1 .. Len(p) + 1
    BY <1>1, <1>3
  <2>2. ASSUME NEW i \in 1 .. Len(p), i < a + 1 PROVE p[i] \notin {"sig"}
    <3>1. i # a + 1 /\ i \in DOMAIN p
      BY <1>1, <1>3, <2>2
    <3>. QED  BY <1>5, <3>1
  <2>3. p[a + 1] \in {"sig"}
    BY <1>4
  <2>. QED  BY <1>3, <2>1, <2>2, <2>3, FirstIsUnique
<1>8. SubSeq(p, a + 2, Len(p)) = B
  <2>1. \A i \in a + 2 .. a + 1 + b : p[i] \in Pieces
    BY <1>1, <1>3
  <2>2. /\ SubSeq(p, a + 2, a + 1 + b) \in Seq(Pieces)
        /\ Len(SubSeq(p, a + 2, a + 1 + b)) = b
        /\ \A i \in 1 .. b : SubSeq(p, a + 2, a + 1 + b)[i] = p[a + 1 + i]
    <3>1. a + 2 \in Int /\ a + 1 + b \in Int /\ (a + 1 + b) - (a + 2) + 1 = b /\ (a + 2 <= a + 1 + b <=> b # 0)
          /\ \A i \in 1 .. b : (a + 2) + i - 1 = a + 1 + i
      BY <1>1
    <3>2. /\ SubSeq(p, a + 2, a + 1 + b) \in Seq(Pieces)
          /\ Len(SubSeq(p, a + 2, a + 1 + b)) = IF a + 2 <= a + 1 + b THEN (a + 1 + b) - (a + 2) + 1 ELSE 0
          /\ \A i \in 1 .. (a + 1 + b) - (a + 2) + 1 : SubSeq(p, a + 2, a + 1 + b)[i] = p[(a + 2) + i - 1]
      BY <2>1, <3>1, SubSeqProperties
    <3>. QED  BY <1>1, <3>1, <3>2
  <2>. QED  BY <1>1, <1>3, <1>4, <2>2, SeqEqual DEF b
<1>9. IsPrefix(own, B)
  <2>1. SubSeq(own, 1, Len(own)) = own
    <3>1. \A i \in 1 .. Len(own) : B[i] \in Pieces
      BY <1>1 DEF b
    <3>2. own \in Seq(Pieces)
      BY <1>1, <3>1, SubSeqProperties
    <3>. QED  BY <3>2, SubSeqFull
  <2>. QED  BY <1>1, <2>1 DEF IsPrefix, b
<1>. QED  BY <1>3, <1>6, <1>7, <1>8, <1>9 DEF p, a

LEMMA Regroup ==
    ASSUME NEW u \in Seq(Pieces), NEW v \in Seq(Pieces), NEW w \in Seq(Pieces)
    PROVE  (u \o v) \o w = u \o (v \o w)
BY ConcatAssociative

(* The two together: what a script has to show of the program it builds. *)
LEMMA GoodProgram ==
    ASSUME NEW lang, NEW A \in Seq(Fair \ {"sig"}), NEW B \in Seq(Fair \ {"sig"}), NEW own,
           Passes(<<>>, A, Outer(lang), lang),
           Passes(OpenNext(Outer(lang), "sig", lang), B, Outer(lang), lang),
           Len(own) \in 0 .. Len(B), own = SubSeq(B, 1, Len(own)),
           NEW p, p = ((A \o <<"sig">>) \o B) \o TestEnd(lang)
    PROVE  /\ Occurrences(p, "sig") = 1
           /\ Balanced(p, lang) /\ TestsReached(p, lang)
           /\ Range(p) \intersect {"main", "talk", "fence", "unfence", "[DONE]"} = {}
           /\ IsPrefix(own, SubSeq(p, FirstAt(p, 1, {"sig"}) + 1, Len(p)))
<1> DEFINE S == <<"sig">>
           H == (A \o S) \o B
           t == TestEnd(lang)
           R == B \o t
<1>1. /\ A \in Seq(Fair) /\ B \in Seq(Fair) /\ S \in Seq(Fair)
      /\ A \in Seq(Pieces) /\ B \in Seq(Pieces) /\ S \in Seq(Pieces)
      /\ A \in Seq(Pieces \ {"sig"}) /\ B \in Seq(Pieces \ {"sig"})
  <2>1. Fair \ {"sig"} \subseteq Fair /\ Fair \ {"sig"} \subseteq Pieces \ {"sig"} /\ Fair \ {"sig"} \subseteq Pieces
        /\ "sig" \in Fair /\ "sig" \in Pieces
    BY DEF Fair, Pieces
  <2>. QED  BY <2>1, SeqMonotonic
<1>2. Passes(Outer(lang), S, OpenNext(Outer(lang), "sig", lang), lang)
  BY PassesOne
<1> HIDE DEF S
<1>3. A \o S \in Seq(Pieces) /\ A \o S \in Seq(Fair) /\ H \in Seq(Fair)
  BY <1>1, ConcatProperties
<1>4. Passes(<<>>, H, Outer(lang), lang)
  <2>1. Passes(<<>>, A \o S, OpenNext(Outer(lang), "sig", lang), lang)
    BY <1>1, <1>2, PassesBoth
  <2>. QED  BY <1>1, <1>3, <2>1, PassesBoth
<1>5. p = H \o t
  BY DEF S
<1>6. t \in Seq(Pieces) /\ t \in Seq(Pieces \ {"sig"})
  <2>1. "tests" \in Pieces \ {"sig"} /\ "classend" \in Pieces \ {"sig"} /\ Pieces \ {"sig"} \subseteq Pieces
    BY DEF Pieces
  <2>2. t \in Seq(Pieces \ {"sig"})
    <3>1. CASE lang \in Classes
      <4>1. t = <<"tests", "classend">>
        BY <3>1 DEF TestEnd
      <4>. QED  BY <2>1, <4>1
    <3>2. CASE lang \notin Classes
      <4>1. t = <<"tests">>
        BY <3>2 DEF TestEnd
      <4>. QED  BY <2>1, <4>1
    <3>. QED  BY <3>1, <3>2
  <2>. QED  BY <2>1, <2>2, SeqMonotonic
<1> HIDE DEF t
<1>7. R \in Seq(Pieces \ {"sig"}) /\ Len(R) = Len(B) + Len(t)
      /\ \A i \in 1 .. Len(B) + Len(t) : R[i] = IF i <= Len(B) THEN B[i] ELSE t[i - Len(B)]
  BY <1>1, <1>6, ConcatProperties
<1>8. p = (A \o S) \o R
  <2> DEFINE U == A \o S
  <2>1. U \in Seq(Pieces) /\ p = (U \o B) \o t
    BY <1>3, <1>5
  <2> HIDE DEF U
  <2> HIDE DEF H, R
  <2>2. (U \o B) \o t = U \o (B \o t)
    <3>1. U \in Seq(Pieces) /\ B \in Seq(Pieces) /\ t \in Seq(Pieces)
      BY <1>1, <1>6, <2>1
    <3>. QED  BY <3>1, Regroup
  <2>. QED  BY <2>1, <2>2 DEF U, R
<1>9. /\ Balanced(p, lang) /\ TestsReached(p, lang)
      /\ Range(p) \intersect {"main", "talk", "fence", "unfence", "[DONE]"} = {}
  <2> HIDE DEF H
  <2>. QED  BY <1>3, <1>4, <1>5, WholeProgram DEF t
<1>10. Len(own) \in 0 .. Len(R) /\ own = SubSeq(R, 1, Len(own))
  <2>1. Len(B) \in Nat /\ Len(t) \in Nat
    BY <1>1, <1>6
  <2>2. Len(own) \in 0 .. Len(R)
    BY <1>7, <2>1
  <2>3. \A i \in 1 .. Len(own) : R[i] = B[i] /\ B[i] \in Pieces
    BY <1>1, <1>7, <2>1
  <2>4. SubSeq(R, 1, Len(own)) = SubSeq(B, 1, Len(own))
    <3>1. /\ SubSeq(R, 1, Len(own)) \in Seq(Pieces) /\ SubSeq(B, 1, Len(own)) \in Seq(Pieces)
          /\ Len(SubSeq(R, 1, Len(own))) = Len(own) /\ Len(SubSeq(B, 1, Len(own))) = Len(own)
          /\ \A i \in 1 .. Len(own) : SubSeq(R, 1, Len(own))[i] = R[i] /\ SubSeq(B, 1, Len(own))[i] = B[i]
      BY <2>1, <2>3, SubSeqProperties
    <3>. QED  BY <2>3, <3>1, SeqEqual
  <2>. QED  BY <2>2, <2>4
<1>11. /\ Occurrences(p, "sig") = 1
       /\ FirstAt(p, 1, {"sig"}) = Len(A) + 1
       /\ SubSeq(p, Len(A) + 2, Len(p)) = R
       /\ IsPrefix(own, R)
  <2> HIDE DEF R
  <2>. QED  BY <1>1, <1>7, <1>8, <1>10, SignatureOnce DEF S
<1>12. FirstAt(p, 1, {"sig"}) + 1 = Len(A) + 2
  BY <1>1, <1>11
<1>. QED  BY <1>9, <1>11, <1>12

-----------------------------------------------------------------------------
(* Where pieces are *)

(* The first piece of a set at or after a position, and that these facts determine it. *)
LEMMA FirstFrom ==
    ASSUME NEW s \in Seq(Pieces), NEW S, NEW from \in 1 .. Len(s) + 1
    PROVE  /\ FirstAt(s, from, S) \in from .. Len(s) + 1
           /\ \A i \in from .. Len(s) : i < FirstAt(s, from, S) => s[i] \notin S
           /\ FirstAt(s, from, S) <= Len(s) => s[FirstAt(s, from, S)] \in S
<1> DEFINE T == {i \in from .. Len(s) : s[i] \in S} \union {Len(s) + 1}
<1>1. Len(s) \in Nat /\ from \in Nat /\ T \in SUBSET Nat /\ T # {} /\ Len(s) + 1 \in T
  OBVIOUS
<1>2. FirstAt(s, from, S) = Min(T)
  BY DEF FirstAt
<1>3. Min(T) \in T /\ \A n \in T : Min(T) <= n
  <2> HIDE DEF T
  <2>. QED  BY <1>1, LeastNumber
<1> DEFINE m == Min(T)
<1> HIDE DEF m
<1>4. m \in T /\ \A n \in T : m <= n
  BY <1>3 DEF m
<1>5. m \in from .. Len(s) + 1 /\ (m <= Len(s) => s[m] \in S)
  BY <1>1, <1>4
<1>6. ASSUME NEW i \in from .. Len(s), i < m PROVE s[i] \notin S
  BY <1>1, <1>4, <1>5, <1>6
<1>. QED  BY <1>2, <1>5, <1>6 DEF m

LEMMA FirstFromUnique ==
    ASSUME NEW s \in Seq(Pieces), NEW S, NEW from \in 1 .. Len(s) + 1, NEW p \in from .. Len(s) + 1,
           \A i \in from .. Len(s) : i < p => s[i] \notin S,
           p <= Len(s) => s[p] \in S
    PROVE  FirstAt(s, from, S) = p
<1> DEFINE m == FirstAt(s, from, S)
<1>1. /\ m \in from .. Len(s) + 1
      /\ \A i \in from .. Len(s) : i < m => s[i] \notin S
      /\ m <= Len(s) => s[m] \in S
  BY FirstFrom
<1> HIDE DEF m
<1>2. ~(m < p) /\ ~(p < m)
  BY <1>1
<1>. QED  BY <1>1, <1>2 DEF m

(* The last piece of a kind. *)
LEMMA LastIsLast ==
    ASSUME NEW s \in Seq(Pieces), NEW x, Contains(s, x)
    PROVE  /\ LastAt(s, {x}) \in 1 .. Len(s) /\ s[LastAt(s, {x})] = x
           /\ \A i \in 1 .. Len(s) : i > LastAt(s, {x}) => s[i] # x
<1> DEFINE T == {i \in DOMAIN s : s[i] \in {x}} \union {0}
<1>1. Len(s) \in Nat /\ DOMAIN s = 1 .. Len(s)
  OBVIOUS
<1>2. T \in SUBSET Nat /\ T # {} /\ \A i \in T : i <= Len(s)
  BY <1>1
<1>3. LastAt(s, {x}) = Max(T)
  BY DEF LastAt
<1>4. PICK k \in 1 .. Len(s) : s[k] = x
  BY DEF Contains
<1>5. k \in T /\ \A i \in T : i = 0 \/ (i \in 1 .. Len(s) /\ s[i] = x)
  BY <1>1, <1>4
<1>6. \A i \in 1 .. Len(s) : s[i] = x => i \in T
  BY <1>1
<1> DEFINE m == Max(T)
<1>7. m \in T /\ \A i \in T : i <= m
  <2> HIDE DEF T
  <2>. QED  BY <1>1, <1>2, MaxOfBounded
<1> HIDE DEF m, T
<1>8. m # 0
  BY <1>4, <1>5, <1>7
<1>9. m \in 1 .. Len(s) /\ s[m] = x
  BY <1>5, <1>7, <1>8
<1>10. \A i \in 1 .. Len(s) : i > m => s[i] # x
  BY <1>1, <1>6, <1>7, <1>9
<1>. QED  BY <1>3, <1>9, <1>10 DEF m

(* A part of a text. *)
LEMMA PartOf ==
    ASSUME NEW s \in Seq(Pieces), NEW m \in 1 .. Len(s) + 1, NEW n \in m - 1 .. Len(s)
    PROVE  /\ SubSeq(s, m, n) \in Seq(Pieces) /\ Len(SubSeq(s, m, n)) = n - m + 1
           /\ \A i \in 1 .. n - m + 1 : SubSeq(s, m, n)[i] = s[m + i - 1]
<1>1. Len(s) \in Nat /\ m \in Int /\ n \in Int /\ \A i \in m .. n : s[i] \in Pieces
  OBVIOUS
<1>2. /\ SubSeq(s, m, n) \in Seq(Pieces)
      /\ Len(SubSeq(s, m, n)) = IF m <= n THEN n - m + 1 ELSE 0
      /\ \A i \in 1 .. n - m + 1 : SubSeq(s, m, n)[i] = s[m + i - 1]
  BY <1>1, SubSeqProperties
<1>3. m <= n \/ n - m + 1 = 0
  BY <1>1
<1>. QED  BY <1>1, <1>2, <1>3

-----------------------------------------------------------------------------
(* Bodies *)

\* Where the body that the model wrote begins in a text, and the body, with the closing
\* line it must have in the program.
BodyStart(s)     == IF s # <<>> /\ s[1] = "loop" THEN 1 ELSE FirstAt(s, 1, {"sig"}) + 1
OwnBody(s, lang) == SubSeq(s, BodyStart(s), BodyEnd(s, BodyStart(s)) - 1)
                        \o (IF lang = "python" THEN <<>> ELSE <<"end">>)

(* What follows the signature in a program begins with the body if it copies the text
   from there to a piece that is no line, and closes it. *)
LEMMA BodyIsCopied ==
    ASSUME NEW s \in Seq(Pieces), NEW lang, BodyStart(s) \in 1 .. Len(s) + 1,
           NEW B \in Seq(Pieces), NEW n \in 0 .. Len(B),
           BodyStart(s) + n <= Len(s) + 1,
           \A j \in 1 .. n : B[j] = s[BodyStart(s) + j - 1],
           BodyStart(s) + n <= Len(s) => s[BodyStart(s) + n] \notin Lines,
           lang # "python" => /\ \A j \in 1 .. n : B[j] \in Lines
                              /\ n < Len(B) /\ B[n + 1] = "end"
    PROVE  LET own == OwnBody(s, lang) IN Len(own) \in 0 .. Len(B) /\ own = SubSeq(B, 1, Len(own))
<1> DEFINE from == BodyStart(s)
           e    == BodyEnd(s, from)
           body == SubSeq(s, from, e - 1)
           k    == e - from
<1>1. /\ e \in from .. Len(s) + 1
      /\ \A i \in from .. Len(s) : i < e => s[i] \notin Pieces \ Lines
      /\ e <= Len(s) => s[e] \in Pieces \ Lines
  BY FirstFrom DEF BodyEnd
<1>2. Len(s) \in Nat /\ Len(B) \in Nat /\ from \in Nat /\ from >= 1 /\ n \in Nat /\ n <= Len(B)
  OBVIOUS
<1>3. from + n <= Len(s) => s[from + n] \in Pieces \ Lines
  <2>1. from + n <= Len(s) => s[from + n] \in Pieces
    BY <1>2
  <2>. QED  BY <2>1
<1>4. /\ from + n <= Len(s) + 1
      /\ \A j \in 1 .. n : B[j] = s[from + j - 1]
      /\ lang # "python" => /\ \A j \in 1 .. n : B[j] \in Lines
                            /\ n < Len(B) /\ B[n + 1] = "end"
      /\ OwnBody(s, lang) = body \o (IF lang = "python" THEN <<>> ELSE <<"end">>)
  BY DEF OwnBody
<1>5. body \in Seq(Pieces) /\ Len(body) = k /\ \A i \in 1 .. k : body[i] = s[from + i - 1]
  <2>1. e - 1 \in from - 1 .. Len(s) /\ from \in 1 .. Len(s) + 1 /\ k = (e - 1) - from + 1
    BY <1>1, <1>2
  <2> HIDE DEF e, from
  <2>. QED  BY <2>1, PartOf
<1> HIDE DEF from, e, body
<1>6. k \in Nat /\ k <= n
  <2>1. e <= from + n
    <3>1. CASE from + n <= Len(s)
      <4>1. from + n \in from .. Len(s)
        BY <1>2, <3>1
      <4>2. ~(from + n < e)
        BY <1>1, <1>3, <3>1, <4>1
      <4>. QED  BY <1>1, <1>2, <4>2
    <3>2. CASE from + n > Len(s)
      BY <1>1, <1>2, <3>2
    <3>. QED  BY <1>2, <3>1, <3>2
  <2>. QED  BY <1>1, <1>2, <2>1
<1>7. \A i \in 1 .. k : body[i] = B[i] /\ B[i] \in Pieces
  <2> SUFFICES ASSUME NEW i \in 1 .. k PROVE body[i] = B[i] /\ B[i] \in Pieces
    OBVIOUS
  <2>1. i \in 1 .. n /\ i \in 1 .. Len(B)
    BY <1>2, <1>6
  <2>2. body[i] = s[from + i - 1] /\ B[i] = s[from + i - 1]
    BY <1>4, <1>5, <2>1
  <2>. QED  BY <2>1, <2>2
<1>8. CASE lang = "python"
  <2>1. OwnBody(s, lang) = body
    BY <1>4, <1>5, <1>8, ConcatEmptySeq
  <2>2. SubSeq(B, 1, k) \in Seq(Pieces) /\ Len(SubSeq(B, 1, k)) = k /\ \A i \in 1 .. k : SubSeq(B, 1, k)[i] = B[i]
    BY <1>2, <1>6, PartOf
  <2>3. body = SubSeq(B, 1, k)
    BY <1>5, <1>7, <2>2, SeqEqual
  <2>. QED  BY <1>2, <1>5, <1>6, <2>1, <2>3
<1>9. CASE lang # "python"
  <2>1. k = n
    <3>1. \A j \in 1 .. n : s[from + j - 1] \in Lines
      BY <1>4, <1>9
    <3>2. SUFFICES ASSUME k < n PROVE FALSE
      BY <1>2, <1>6
    <3>3. k + 1 \in 1 .. n /\ from + (k + 1) - 1 = e /\ e <= Len(s)
      BY <1>1, <1>2, <1>4, <1>6, <3>2
    <3>. QED  BY <1>1, <3>1, <3>3
  <2> DEFINE line == <<"end">>
             own  == body \o line
  <2>2. line \in Seq(Pieces) /\ Len(line) = 1 /\ line[1] = "end"
    BY DEF Pieces
  <2> HIDE DEF line
  <2>3. /\ own \in Seq(Pieces) /\ Len(own) = k + 1
        /\ \A i \in 1 .. k + 1 : own[i] = IF i <= k THEN body[i] ELSE line[i - k]
    <3>1. /\ own \in Seq(Pieces) /\ Len(own) = Len(body) + Len(line)
          /\ \A i \in 1 .. Len(body) + Len(line) : own[i] = IF i <= Len(body) THEN body[i] ELSE line[i - Len(body)]
      BY <1>5, <2>2, ConcatProperties
    <3>. QED  BY <1>5, <2>2, <3>1
  <2>4. OwnBody(s, lang) = own
    BY <1>4, <1>9 DEF line
  <2> HIDE DEF own
  <2>5. k + 1 <= Len(B) /\ B[k + 1] = "end"
    BY <1>2, <1>4, <1>9, <2>1
  <2>6. ASSUME NEW i \in 1 .. k + 1 PROVE own[i] = B[i]
    <3>1. CASE i <= k
      BY <1>7, <2>3, <3>1
    <3>2. CASE ~(i <= k)
      <4>1. i = k + 1 /\ i - k = 1
        BY <1>6, <3>2
      <4>2. own[i] = line[i - k]
        BY <2>3, <3>2
      <4>3. own[i] = line[1]
        BY <4>1, <4>2
      <4>. QED  BY <2>2, <2>5, <4>1, <4>3
    <3>. QED  BY <3>1, <3>2
  <2>7. /\ SubSeq(B, 1, k + 1) \in Seq(Pieces) /\ Len(SubSeq(B, 1, k + 1)) = k + 1
        /\ \A i \in 1 .. k + 1 : SubSeq(B, 1, k + 1)[i] = B[i]
    BY <1>2, <1>6, <2>5, PartOf
  <2>8. own = SubSeq(B, 1, k + 1)
    BY <2>3, <2>6, <2>7, SeqEqual
  <2>. QED  BY <1>6, <2>3, <2>4, <2>5, <2>8
<1>. QED  BY <1>8, <1>9

-----------------------------------------------------------------------------
(* Bodies and tables that are closed *)

(* Short texts. *)
LEMMA TwoPieces ==
    ASSUME NEW p \in Pieces, NEW q \in Pieces
    PROVE  /\ <<p>> \in Seq(Pieces) /\ <<p, q>> \in Seq(Pieces)
           /\ <<p>> \o <<q>> = <<p, q>> /\ Append(<<p>>, q) = <<p, q>>
           /\ Front(<<p, q>>) = <<p>>
<1> DEFINE u == <<p>>
           v == <<q>>
           w == <<p, q>>
<1>1. /\ u \in Seq(Pieces) /\ Len(u) = 1 /\ u[1] = p
      /\ v \in Seq(Pieces) /\ Len(v) = 1 /\ v[1] = q
      /\ w \in Seq(Pieces) /\ Len(w) = 2 /\ w[1] = p /\ w[2] = q
  OBVIOUS
<1> HIDE DEF u, v, w
<1>2. u \o v = w
  <2>1. /\ u \o v \in Seq(Pieces) /\ Len(u \o v) = Len(u) + Len(v)
        /\ \A i \in 1 .. Len(u) + Len(v) : (u \o v)[i] = IF i <= Len(u) THEN u[i] ELSE v[i - Len(u)]
    BY <1>1, ConcatProperties
  <2>2. Len(u \o v) = 2 /\ (u \o v)[1] = p
    BY <1>1, <2>1
  <2>3. (u \o v)[2] = q
    <3>1. 2 \in 1 .. Len(u) + Len(v) /\ ~(2 <= Len(u)) /\ 2 - Len(u) = 1
      BY <1>1
    <3>2. (u \o v)[2] = v[2 - Len(u)]
      BY <2>1, <3>1
    <3>. QED  BY <1>1, <3>1, <3>2
  <2>4. \A i \in 1 .. Len(u \o v) : (u \o v)[i] = w[i]
    BY <1>1, <2>2, <2>3
  <2>. QED  BY <1>1, <2>1, <2>2, <2>4, SeqEqual
<1>3. Append(u, q) = w
  <2>1. /\ Append(u, q) \in Seq(Pieces) /\ Len(Append(u, q)) = 2
        /\ Append(u, q)[1] = p /\ Append(u, q)[2] = q
    BY <1>1, AppendProperties
  <2>2. \A i \in 1 .. Len(Append(u, q)) : Append(u, q)[i] = w[i]
    BY <1>1, <2>1
  <2>. QED  BY <1>1, <2>1, <2>2, SeqEqual
<1>4. Front(w) = u
  <2>1. Front(w) = SubSeq(w, 1, 1)
    BY <1>1 DEF Front
  <2>2. /\ SubSeq(w, 1, 1) \in Seq(Pieces) /\ Len(SubSeq(w, 1, 1)) = 1 - 1 + 1
        /\ \A i \in 1 .. 1 - 1 + 1 : SubSeq(w, 1, 1)[i] = w[1 + i - 1]
    BY <1>1, PartOf
  <2>3. Len(SubSeq(w, 1, 1)) = 1 /\ SubSeq(w, 1, 1)[1] = p
    BY <1>1, <2>2
  <2>4. \A i \in 1 .. Len(SubSeq(w, 1, 1)) : SubSeq(w, 1, 1)[i] = u[i]
    BY <1>1, <2>3
  <2>. QED  BY <1>1, <2>1, <2>2, <2>3, <2>4, SeqEqual
<1>. QED  BY <1>1, <1>2, <1>3, <1>4 DEF u, v, w

\* The function asked for is open, or another one.
InFunction(lang) == Append(Outer(lang), "sig")
InHelper(lang)   == Append(Outer(lang), "hfn")

LEMMA OpenSteps ==
    ASSUME NEW lang, lang # "python"
    PROVE  /\ OpenNext(Outer(lang), "sig", lang) = InFunction(lang)
           /\ OpenNext(Outer(lang), "hfn", lang) = InHelper(lang)
           /\ OpenNext(Outer(lang), "use", lang) = Outer(lang)
           /\ \A open \in {InFunction(lang), InHelper(lang)} :
                /\ \A p \in Lines : OpenNext(open, p, lang) = open
                /\ OpenNext(open, "end", lang) = Outer(lang)
<1>1. /\ "sig" \in Opens(lang) /\ "hfn" \in Opens(lang)
      /\ \A p \in Lines \union {"use", "end"} : p \notin Opens(lang)
      /\ \A p \in Lines \union {"use"} : p \notin {"end", "classend"}
  BY DEF Opens, Lines
<1>2. CASE lang \in Classes
  <2>1. /\ Outer(lang) = <<"class">> /\ InFunction(lang) = <<"class", "sig">>
        /\ InHelper(lang) = <<"class", "hfn">>
    <3>1. Append(<<"class">>, "sig") = <<"class", "sig">> /\ Append(<<"class">>, "hfn") = <<"class", "hfn">>
      BY TwoPieces DEF Pieces
    <3>. QED  BY <1>2, <3>1 DEF Outer, InFunction, InHelper
  <2>2. Front(<<"class", "sig">>) = <<"class">> /\ Front(<<"class", "hfn">>) = <<"class">>
    BY TwoPieces DEF Pieces
  <2>3. /\ OpenNext(Outer(lang), "sig", lang) = InFunction(lang)
        /\ OpenNext(Outer(lang), "hfn", lang) = InHelper(lang)
        /\ OpenNext(Outer(lang), "use", lang) = Outer(lang)
    BY <1>1, <2>1 DEF OpenNext, InFunction, InHelper
  <2>4. \A p \in Lines : /\ OpenNext(<<"class", "sig">>, p, lang) = <<"class", "sig">>
                         /\ OpenNext(<<"class", "hfn">>, p, lang) = <<"class", "hfn">>
    BY <1>1 DEF OpenNext
  <2>5. /\ OpenNext(<<"class", "sig">>, "end", lang) = <<"class">>
        /\ OpenNext(<<"class", "hfn">>, "end", lang) = <<"class">>
    BY <1>1, <2>2 DEF OpenNext
  <2>. QED  BY <2>1, <2>3, <2>4, <2>5
<1>3. CASE lang \notin Classes
  <2>1. /\ Outer(lang) = <<>> /\ InFunction(lang) = <<"sig">>
        /\ InHelper(lang) = <<"hfn">>
    BY <1>3 DEF Outer, InFunction, InHelper
  <2>2. Front(<<"sig">>) = <<>> /\ Front(<<"hfn">>) = <<>>
    BY DEF Front
  <2>3. /\ OpenNext(Outer(lang), "sig", lang) = InFunction(lang)
        /\ OpenNext(Outer(lang), "hfn", lang) = InHelper(lang)
        /\ OpenNext(Outer(lang), "use", lang) = Outer(lang)
    BY <1>1, <2>1 DEF OpenNext, InFunction, InHelper
  <2>4. \A p \in Lines : /\ OpenNext(<<"sig">>, p, lang) = <<"sig">>
                         /\ OpenNext(<<"hfn">>, p, lang) = <<"hfn">>
    BY <1>1 DEF OpenNext
  <2>5. /\ OpenNext(<<"sig">>, "end", lang) = <<>>
        /\ OpenNext(<<"hfn">>, "end", lang) = <<>>
    BY <1>1, <2>2 DEF OpenNext
  <2>. QED  BY <2>1, <2>3, <2>4, <2>5
<1>. QED  BY <1>2, <1>3

(* The lines of the function to its closing line, then functions that are closed and
   statements, close what the signature opened and nothing more. *)
LEMMA BodiesClosed ==
    ASSUME NEW lang, lang # "python", NEW B \in Seq(Pieces), NEW e \in 1 .. Len(B),
           \A j \in 1 .. Len(B) : B[j] \in Lines \union {"hfn", "use", "end"},
           \A j \in 1 .. e - 1 : B[j] \in Lines, B[e] = "end",
           \A j \in 2 .. Len(B) :
               B[j] \in IF B[j - 1] \in Lines \union {"hfn"} THEN Lines \union {"end"} ELSE {"hfn", "use"},
           B[Len(B)] \in {"end", "use"}
    PROVE  Passes(OpenNext(Outer(lang), "sig", lang), B, Outer(lang), lang)
<1> DEFINE n  == Len(B)
           st == [j \in 0 .. n |-> IF j < e THEN InFunction(lang)
                                   ELSE IF B[j] \in Lines \union {"hfn"} THEN InHelper(lang) ELSE Outer(lang)]
<1>1. n \in Nat /\ e \in Nat /\ 1 <= e /\ e <= n
  OBVIOUS
<1>2. \A j \in 0 .. n : st[j] = IF j < e THEN InFunction(lang)
                                ELSE IF B[j] \in Lines \union {"hfn"} THEN InHelper(lang) ELSE Outer(lang)
  OBVIOUS
<1>3. "end" \notin Lines \union {"hfn"} /\ "use" \notin Lines \union {"hfn"} /\ "hfn" \notin Lines
  BY DEF Lines
<1> HIDE DEF st
<1>4. st[0] = InFunction(lang) /\ st[n] = Outer(lang)
  <2>1. ~(n < e) /\ B[n] \notin Lines \union {"hfn"}
    BY <1>1, <1>3
  <2>. QED  BY <1>1, <1>2, <2>1
<1>5. ASSUME NEW j \in 1 .. n PROVE st[j] = OpenNext(st[j - 1], B[j], lang)
  <2>1. j \in 0 .. n /\ j - 1 \in 0 .. n /\ j \in Nat
    BY <1>1
  <2>2. CASE j < e
    <3>1. B[j] \in Lines /\ st[j] = InFunction(lang) /\ st[j - 1] = InFunction(lang)
      BY <1>1, <1>2, <2>1, <2>2
    <3>. QED  BY <3>1, OpenSteps
  <2>3. CASE j = e
    <3>1. B[j] = "end" /\ st[j - 1] = InFunction(lang) /\ st[j] = Outer(lang)
      BY <1>1, <1>2, <1>3, <2>1, <2>3
    <3>. QED  BY <3>1, OpenSteps
  <2>4. CASE j > e
    <3>1. /\ j \in 2 .. n /\ ~(j < e) /\ ~(j - 1 < e)
          /\ B[j] \in IF B[j - 1] \in Lines \union {"hfn"} THEN Lines \union {"end"} ELSE {"hfn", "use"}
      BY <1>1, <2>1, <2>4
    <3>2. CASE B[j - 1] \in Lines \union {"hfn"}
      <4>1. st[j - 1] = InHelper(lang)
        BY <1>2, <2>1, <3>1, <3>2
      <4>2. CASE B[j] \in Lines
        <5>1. st[j] = InHelper(lang)
          BY <1>2, <2>1, <3>1, <4>2
        <5>. QED  BY <4>1, <4>2, <5>1, OpenSteps
      <4>3. CASE B[j] = "end"
        <5>1. st[j] = Outer(lang)
          BY <1>2, <1>3, <2>1, <3>1, <4>3
        <5>. QED  BY <4>1, <4>3, <5>1, OpenSteps
      <4>. QED  BY <3>1, <3>2, <4>2, <4>3
    <3>3. CASE B[j - 1] \notin Lines \union {"hfn"}
      <4>1. st[j - 1] = Outer(lang)
        BY <1>2, <2>1, <3>1, <3>3
      <4>2. CASE B[j] = "hfn"
        <5>1. st[j] = InHelper(lang)
          BY <1>2, <2>1, <3>1, <4>2
        <5>. QED  BY <4>1, <4>2, <5>1, OpenSteps
      <4>3. CASE B[j] = "use"
        <5>1. st[j] = Outer(lang)
          BY <1>2, <1>3, <2>1, <3>1, <4>3
        <5>. QED  BY <4>1, <4>3, <5>1, OpenSteps
      <4>. QED  BY <3>1, <3>3, <4>2, <4>3
    <3>. QED  BY <3>2, <3>3
  <2>. QED  BY <1>1, <2>1, <2>2, <2>3, <2>4
<1>6. OpenNext(Outer(lang), "sig", lang) = InFunction(lang)
  BY OpenSteps
<1>. QED  BY <1>4, <1>5, <1>6 DEF Passes

(* Python whose tables are closed at once leaves nothing open. *)
LEMMA TablesClosed ==
    ASSUME NEW c \in Seq(Pieces),
           \A j \in 1 .. Len(c) : /\ c[j] # "classend"
                                  /\ c[j] = "dict" => j < Len(c) /\ c[j + 1] = "end"
                                  /\ c[j] = "end" => j > 1 /\ c[j - 1] = "dict"
    PROVE  Passes(<<>>, c, <<>>, "python")
<1> DEFINE n  == Len(c)
           st == [j \in 0 .. n |-> IF j > 0 /\ c[j] = "dict" THEN <<"dict">> ELSE <<>>]
<1>1. n \in Nat
  OBVIOUS
<1>2. \A j \in 0 .. n : st[j] = IF j > 0 /\ c[j] = "dict" THEN <<"dict">> ELSE <<>>
  OBVIOUS
<1>3. \A p : /\ p = "dict" => OpenNext(<<>>, p, "python") = <<"dict">>
             /\ p \notin {"dict", "end", "classend"} => OpenNext(<<>>, p, "python") = <<>>
  BY DEF OpenNext, Opens
<1>4. OpenNext(<<"dict">>, "end", "python") = <<>>
  <2>1. Front(<<"dict">>) = <<>>
    BY DEF Front
  <2>. QED  BY <2>1 DEF OpenNext, Opens
<1> HIDE DEF st
<1>5. st[0] = <<>> /\ st[n] = <<>>
  <2>1. n > 0 => c[n] # "dict"
    <3> SUFFICES ASSUME n > 0, c[n] = "dict" PROVE FALSE
      OBVIOUS
    <3>1. n \in 1 .. Len(c) /\ ~(n < Len(c))
      BY <1>1
    <3>. QED  BY <3>1
  <2>2. 0 \in 0 .. n /\ n \in 0 .. n
    BY <1>1
  <2>3. st[0] = <<>>
    BY <1>2, <2>2
  <2>. QED  BY <1>2, <2>1, <2>2, <2>3
<1>6. ASSUME NEW j \in 1 .. n PROVE st[j] = OpenNext(st[j - 1], c[j], "python")
  <2>1. j \in 0 .. n /\ j - 1 \in 0 .. n /\ j > 0 /\ j \in Nat
    BY <1>1
  <2>2. CASE j > 1 /\ c[j - 1] = "dict"
    <3>1. j - 1 \in 1 .. Len(c) /\ (j - 1) + 1 = j /\ j - 1 > 0
      BY <1>1, <2>1, <2>2
    <3>2. c[j] = "end"
      BY <2>2, <3>1
    <3>3. st[j - 1] = <<"dict">> /\ st[j] = <<>>
      BY <1>2, <2>1, <2>2, <3>1, <3>2
    <3>. QED  BY <1>4, <3>2, <3>3
  <2>3. CASE ~(j > 1 /\ c[j - 1] = "dict")
    <3>1. st[j - 1] = <<>>
      BY <1>2, <2>1, <2>3
    <3>2. c[j] \notin {"end", "classend"}
      BY <2>3
    <3>3. CASE c[j] = "dict"
      <4>1. st[j] = <<"dict">>
        BY <1>2, <2>1, <3>3
      <4>. QED  BY <1>3, <3>1, <3>3, <4>1
    <3>4. CASE c[j] # "dict"
      <4>1. st[j] = <<>>
        BY <1>2, <2>1, <3>4
      <4>. QED  BY <1>3, <3>1, <3>2, <3>4, <4>1
    <3>. QED  BY <3>3, <3>4
  <2>. QED  BY <2>2, <2>3
<1>. QED  BY <1>5, <1>6 DEF Passes

-----------------------------------------------------------------------------
(* Test programs of the other scripts *)

\* What stands before the function, and what the tests close.
Before(lang)  == IF lang \in {"python", "cpp", "cs"} THEN <<"imports">> ELSE <<>>
Leading(lang) == Before(lang) \o Front(Prompt(lang))
Closing(lang) == IF lang \in Closed THEN <<"end">> ELSE <<>>

LEMMA LeadingIsFair ==
    ASSUME NEW lang
    PROVE  /\ Leading(lang) \in Seq(Fair \ {"sig"}) /\ Passes(<<>>, Leading(lang), Outer(lang), lang)
           /\ \A j \in 1 .. Len(Leading(lang)) : Leading(lang)[j] \in {"imports", "class", "php", "pre"}
<1> DEFINE p == IF lang \in Classes THEN "class" ELSE IF lang = "php" THEN "php" ELSE "pre"
<1>1. Front(Prompt(lang)) = <<p>> /\ p \in {"class", "php", "pre"}
  <2>1. Prompt(lang) = <<p, "sig">> /\ p \in {"class", "php", "pre"}
    BY DEF Prompt
  <2> HIDE DEF p
  <2>2. p \in Pieces /\ "sig" \in Pieces
    BY <2>1 DEF Pieces
  <2>. QED  BY <2>1, <2>2, TwoPieces
<1>2. p = "class" <=> lang \in Classes
  OBVIOUS
<1>3. OpenNext(<<>>, p, lang) = Outer(lang)
  <2>1. lang \in Classes => "class" \in Opens(lang)
    BY DEF Opens, Classes
  <2>2. "php" \notin Opens(lang) /\ "pre" \notin Opens(lang)
    BY DEF Opens
  <2>. QED  BY <1>1, <1>2, <2>1, <2>2 DEF OpenNext, Outer
<1> HIDE DEF p
<1>4. {"imports", "class", "php", "pre"} \subseteq Fair \ {"sig"} /\ Fair \subseteq Pieces
  BY DEF Fair, Pieces
<1>5. Passes(<<>>, <<p>>, Outer(lang), lang)
  BY <1>3, PassesOne
<1>6. <<p>> \in Seq(Fair \ {"sig"}) /\ <<p>> \in Seq(Pieces) /\ Len(<<p>>) = 1 /\ <<p>>[1] = p
  BY <1>1, <1>4
<1>7. CASE lang \in {"python", "cpp", "cs"}
  <2>1. Leading(lang) = <<"imports", p>> /\ <<"imports">> \o <<p>> = <<"imports", p>>
    <3>1. "imports" \in Pieces /\ p \in Pieces
      BY <1>1, <1>4
    <3>2. <<"imports">> \o <<p>> = <<"imports", p>>
      BY <3>1, TwoPieces
    <3>. QED  BY <1>1, <1>7, <3>2 DEF Leading, Before
  <2>2. OpenNext(<<>>, "imports", lang) = <<>>
    BY DEF OpenNext, Opens
  <2>3. Passes(<<>>, <<"imports">>, <<>>, lang)
    BY <2>2, PassesOne
  <2>4. <<"imports">> \in Seq(Pieces)
    BY DEF Pieces
  <2>5. Passes(<<>>, <<"imports">> \o <<p>>, Outer(lang), lang)
    BY <1>5, <1>6, <2>3, <2>4, PassesBoth
  <2>6. /\ <<"imports", p>> \in Seq(Fair \ {"sig"})
        /\ \A j \in 1 .. Len(<<"imports", p>>) : <<"imports", p>>[j] \in {"imports", "class", "php", "pre"}
    BY <1>1, <1>4
  <2>. QED  BY <2>1, <2>5, <2>6
<1>8. CASE lang \notin {"python", "cpp", "cs"}
  <2>1. Leading(lang) = <<p>>
    BY <1>1, <1>6, <1>8, ConcatEmptySeq DEF Leading, Before
  <2>. QED  BY <1>1, <1>4, <1>5, <1>6, <2>1
<1>. QED  BY <1>7, <1>8

(* A program is what stands before the function, its signature, the rest of the code
   with the line the tests close it with, and the tests. *)
LEMMA Assembled ==
    ASSUME NEW lang \in Handled, NEW C \in Seq(Pieces)
    PROVE  ProcessHumanevalTest(Prompt(lang) \o C, lang)
             = ((Leading(lang) \o <<"sig">>) \o (C \o Closing(lang))) \o TestEnd(lang)
<1> DEFINE p   == IF lang \in Classes THEN "class" ELSE IF lang = "php" THEN "php" ELSE "pre"
           sig == <<"sig">>
           F   == <<p>>
           T   == TestEnd(lang)
           K   == Closing(lang)
           X   == Before(lang)
<1>1. Front(Prompt(lang)) = F /\ Prompt(lang) = F \o sig /\ Len(Prompt(lang)) = 2 /\ Prompt(lang)[1] = p
  <2>1. Prompt(lang) = <<p, "sig">> /\ p \in {"class", "php", "pre"}
    BY DEF Prompt
  <2> HIDE DEF p
  <2>2. p \in Pieces /\ "sig" \in Pieces
    BY <2>1 DEF Pieces
  <2>. QED  BY <2>1, <2>2, TwoPieces
<1>2. F \in Seq(Pieces) /\ sig \in Seq(Pieces) /\ T \in Seq(Pieces) /\ K \in Seq(Pieces) /\ X \in Seq(Pieces)
  <2>1. F \in Seq(Pieces) /\ sig \in Seq(Pieces)
    BY DEF Pieces
  <2>2. K \in Seq(Pieces)
    <3>1. <<"end">> \in Seq(Pieces) /\ <<>> \in Seq(Pieces)
      BY DEF Pieces
    <3>. QED  BY <3>1 DEF Closing
  <2>3. X \in Seq(Pieces)
    <3>1. <<"imports">> \in Seq(Pieces) /\ <<>> \in Seq(Pieces)
      BY DEF Pieces
    <3>. QED  BY <3>1 DEF Before
  <2>. QED  BY <2>1, <2>2, <2>3, TestEndCloses
<1>3. Test(lang) = K \o T
  <2>1. CASE lang \in Classes
    BY <2>1 DEF Test, TestEnd, Closing, Closed
  <2>2. CASE lang \notin Classes /\ lang \in Closed
    BY <2>2 DEF Test, TestEnd, Closing
  <2>3. CASE lang \notin Classes /\ lang \notin Closed
    BY <2>3 DEF Test, TestEnd, Closing
  <2>. QED  BY <2>1, <2>2, <2>3
<1>4. lang = "php" => p = "php"
  BY DEF Classes
<1>5. Prompt(lang) \o C # <<>> /\ (Prompt(lang) \o C)[1] = p
  <2>1. Prompt(lang) \in Seq(Pieces)
    BY <1>1, <1>2, ConcatProperties
  <2>2. Len(Prompt(lang) \o C) = 2 + Len(C) /\ (Prompt(lang) \o C)[1] = Prompt(lang)[1]
    <3>1. 1 \in 1 .. 2 + Len(C) /\ Len(C) \in Nat
      OBVIOUS
    <3>. QED  BY <1>1, <2>1, <3>1, ConcatProperties
  <2>. QED  BY <1>1, <2>2
<1> DEFINE code == Prompt(lang) \o C
<1>6. ProcessHumanevalTest(code, lang) = (X \o code) \o (K \o T)
  <2> HIDE DEF code
  <2>1. code # <<>> /\ (lang = "php" => code[1] = "php")
    BY <1>4, <1>5 DEF code
  <2>. QED  BY <1>3, <2>1 DEF ProcessHumanevalTest, Before
<1>7. code = (F \o sig) \o C
  BY <1>1
<1>8. Leading(lang) = X \o F
  BY <1>1 DEF Leading
<1> HIDE DEF code, F, sig, T, K, X
<1>9. F \o sig \in Seq(Pieces) /\ C \o K \in Seq(Pieces) /\ X \o F \in Seq(Pieces) /\ sig \o C \in Seq(Pieces)
  BY <1>2, ConcatProperties
<1>10. X \o code = ((X \o F) \o sig) \o C
  <2>1. X \o ((F \o sig) \o C) = (X \o (F \o sig)) \o C
    <3> DEFINE G == F \o sig
    <3>1. G \in Seq(Pieces)
      BY <1>9
    <3> HIDE DEF G
    <3>2. X \in Seq(Pieces) /\ C \in Seq(Pieces)
      BY <1>2
    <3>3. (X \o G) \o C = X \o (G \o C)
      BY <3>1, <3>2, Regroup
    <3>. QED  BY <3>3 DEF G
  <2>2. X \o (F \o sig) = (X \o F) \o sig
    BY <1>2, Regroup
  <2>. QED  BY <1>7, <2>1, <2>2
<1> DEFINE L == (X \o F) \o sig
<1>11. L \in Seq(Pieces)
  BY <1>2, <1>9, ConcatProperties
<1>12. X \o code = L \o C
  BY <1>10
<1> HIDE DEF L
<1>13. L \o C \in Seq(Pieces)
  BY <1>11, ConcatProperties
<1>14. (L \o C) \o (K \o T) = ((L \o C) \o K) \o T
  BY <1>2, <1>13, Regroup
<1>15. (L \o C) \o K = L \o (C \o K)
  BY <1>2, <1>11, Regroup
<1>16. ProcessHumanevalTest(code, lang) = (L \o (C \o K)) \o T
  BY <1>6, <1>12, <1>14, <1>15
<1>. QED  BY <1>8, <1>16 DEF L, code, K, T, sig

-----------------------------------------------------------------------------
(* Whole programs *)

\* What the two invariants ask of the program that was made out of a text.
Whole(p, s, lang) ==
    /\ Occurrences(p, "sig") = 1
    /\ Balanced(p, lang) /\ TestsReached(p, lang)
    /\ Range(p) \intersect {"main", "talk", "fence", "unfence", "[DONE]"} = {}
    /\ IsPrefix(OwnBody(s, lang), SubSeq(p, FirstAt(p, 1, {"sig"}) + 1, Len(p)))

(* A program is whole if both parts around the signature close what they open and the
   second copies the body out of the text. *)
LEMMA BuiltWell ==
    ASSUME NEW s \in Seq(Pieces), NEW lang, BodyStart(s) \in 1 .. Len(s) + 1,
           NEW A \in Seq(Fair \ {"sig"}), NEW B \in Seq(Fair \ {"sig"}), NEW n \in 0 .. Len(B),
           Passes(<<>>, A, Outer(lang), lang),
           Passes(OpenNext(Outer(lang), "sig", lang), B, Outer(lang), lang),
           BodyStart(s) + n <= Len(s) + 1,
           \A j \in 1 .. n : B[j] = s[BodyStart(s) + j - 1],
           BodyStart(s) + n <= Len(s) => s[BodyStart(s) + n] \notin Lines,
           lang # "python" => /\ \A j \in 1 .. n : B[j] \in Lines
                              /\ n < Len(B) /\ B[n + 1] = "end",
           NEW p, p = ((A \o <<"sig">>) \o B) \o TestEnd(lang)
    PROVE  Whole(p, s, lang)
<1> DEFINE own == OwnBody(s, lang)
<1>1. B \in Seq(Pieces)
  <2>1. Fair \ {"sig"} \subseteq Pieces
    BY DEF Fair
  <2>. QED  BY <2>1, SeqMonotonic
<1>2. Len(own) \in 0 .. Len(B) /\ own = SubSeq(B, 1, Len(own))
  BY <1>1, BodyIsCopied
<1> HIDE DEF own
<1>3. /\ Occurrences(p, "sig") = 1
      /\ Balanced(p, lang) /\ TestsReached(p, lang)
      /\ Range(p) \intersect {"main", "talk", "fence", "unfence", "[DONE]"} = {}
      /\ IsPrefix(own, SubSeq(p, FirstAt(p, 1, {"sig"}) + 1, Len(p)))
  BY <1>2, GoodProgram
<1>. QED  BY <1>3 DEF Whole, own

\* What Python outside of its tables consists of, with every table closed at once.
Tidy(c) ==
    \A j \in 1 .. Len(c) :
        /\ c[j] \in Lines \union {"hfn", "use", "pre", "dict", "end"}
        /\ c[j] = "dict" => j < Len(c) /\ c[j + 1] = "end"
        /\ c[j] = "end" => j > 1 /\ c[j - 1] = "dict"

(* The code before and behind the function's signature. *)
LEMMA PythonSplit ==
    ASSUME NEW c \in Seq(Pieces), PythonCode(c)
    PROVE  LET k == FirstAt(c, 1, {"sig"})
               A == SubSeq(c, 1, k - 1)
               B == SubSeq(c, k + 1, Len(c))
           IN  /\ k \in 1 .. Len(c) /\ c[k] = "sig"
               /\ A \in Seq(Pieces) /\ B \in Seq(Pieces) /\ Len(B) = Len(c) - k
               /\ \A j \in 1 .. Len(B) : B[j] = c[k + j]
               /\ Tidy(A) /\ Tidy(B)
               /\ c = (A \o <<"sig">>) \o B
<1> DEFINE k == FirstAt(c, 1, {"sig"})
           n == Len(c)
           A == SubSeq(c, 1, k - 1)
           B == SubSeq(c, k + 1, n)
<1>1. n \in Nat /\ DOMAIN c = 1 .. n
  OBVIOUS
<1>2. PICK x : {i \in DOMAIN c : c[i] = "sig"} = {x}
  <2>1. IsFiniteSet({i \in DOMAIN c : c[i] = "sig"})
    <3>1. IsFiniteSet(DOMAIN c)
      BY <1>1, FS_Interval
    <3>. QED  BY <3>1, FS_Subset
  <2>2. Cardinality({i \in DOMAIN c : c[i] = "sig"}) = 1
    BY DEF PythonCode, Occurrences
  <2>. QED  BY <2>1, <2>2, FS_Singleton
<1>3. x \in 1 .. n /\ c[x] = "sig" /\ \A i \in 1 .. n : c[i] = "sig" => i = x
  BY <1>1, <1>2
<1>4. /\ k \in 1 .. n + 1
      /\ \A i \in 1 .. n : i < k => c[i] \notin {"sig"}
      /\ k <= n => c[k] \in {"sig"}
  BY FirstIsFirst
<1> HIDE DEF k, n
<1>5. k \in 1 .. n /\ c[k] = "sig" /\ k = x
  <2>1. ~(x < k)
    BY <1>3, <1>4
  <2>2. k \in 1 .. n
    BY <1>1, <1>3, <1>4, <2>1
  <2>. QED  BY <1>3, <1>4, <2>2
<1>6. /\ A \in Seq(Pieces) /\ Len(A) = k - 1 /\ \A i \in 1 .. k - 1 : A[i] = c[i]
  <2>1. 1 \in 1 .. n + 1 /\ k - 1 \in 1 - 1 .. n
    BY <1>1, <1>5
  <2>2. /\ A \in Seq(Pieces) /\ Len(A) = (k - 1) - 1 + 1
        /\ \A i \in 1 .. (k - 1) - 1 + 1 : A[i] = c[1 + i - 1]
    BY <2>1, PartOf DEF n
  <2> HIDE DEF A
  <2>. QED  BY <1>5, <2>2
<1>7. /\ B \in Seq(Pieces) /\ Len(B) = n - k /\ \A i \in 1 .. n - k : B[i] = c[k + i]
  <2>1. k + 1 \in 1 .. n + 1 /\ n \in (k + 1) - 1 .. n
    BY <1>1, <1>5
  <2>2. /\ B \in Seq(Pieces) /\ Len(B) = n - (k + 1) + 1
        /\ \A i \in 1 .. n - (k + 1) + 1 : B[i] = c[(k + 1) + i - 1]
    BY <2>1, PartOf DEF n
  <2> HIDE DEF B
  <2>. QED  BY <1>1, <1>5, <2>2
<1>8. \A j \in 1 .. n : /\ j # k => c[j] \in Lines \union {"hfn", "use", "pre", "dict", "end"}
                        /\ c[j] = "dict" => j < n /\ c[j + 1] = "end"
                        /\ c[j] = "end" => j > 1 /\ c[j - 1] = "dict"
  <2> SUFFICES ASSUME NEW j \in 1 .. n
               PROVE  /\ j # k => c[j] \in Lines \union {"hfn", "use", "pre", "dict", "end"}
                      /\ c[j] = "dict" => j < n /\ c[j + 1] = "end"
                      /\ c[j] = "end" => j > 1 /\ c[j - 1] = "dict"
    OBVIOUS
  <2>1. c[j] \in Lines \union {"sig", "hfn", "use", "pre", "dict", "end"}
    BY <1>1 DEF PythonCode, Range
  <2>2. c[j] = "sig" => j = k
    BY <1>3, <1>5
  <2>. QED  BY <1>1, <2>1, <2>2 DEF PythonCode, n
<1>9. c = (A \o <<"sig">>) \o B
  <2>1. SubSeq(c, 1, k) = A \o <<c[k]>>
    <3>1. 1 \in 1 .. Len(c) /\ k \in 1 .. Len(c)
      BY <1>1, <1>5 DEF n
    <3>. QED  BY <3>1, SubSeqRecursiveSecond
  <2>2. SubSeq(c, 1, k) \o SubSeq(c, k + 1, n) = SubSeq(c, 1, n)
    <3>1. 1 \in 1 .. Len(c) + 1 /\ k \in 1 - 1 .. Len(c) /\ n \in k .. Len(c)
      BY <1>1, <1>5 DEF n
    <3>. QED  BY <3>1, ConcatAdjacentSubSeq
  <2>3. SubSeq(c, 1, n) = c
    BY SubSeqFull DEF n
  <2>. QED  BY <1>5, <2>1, <2>2, <2>3
<1> HIDE DEF A, B
<1>10. Tidy(A)
  <2> SUFFICES ASSUME NEW j \in 1 .. k - 1
               PROVE  /\ A[j] \in Lines \union {"hfn", "use", "pre", "dict", "end"}
                      /\ A[j] = "dict" => j < k - 1 /\ A[j + 1] = "end"
                      /\ A[j] = "end" => j > 1 /\ A[j - 1] = "dict"
    BY <1>6 DEF Tidy
  <2>1. j \in 1 .. n /\ j # k /\ A[j] = c[j] /\ j \in Nat
    BY <1>1, <1>5, <1>6
  <2>2. A[j] = "dict" => j < k - 1 /\ A[j + 1] = "end"
    <3> SUFFICES ASSUME A[j] = "dict" PROVE j < k - 1 /\ A[j + 1] = "end"
      OBVIOUS
    <3>1. c[j + 1] = "end"
      BY <1>8, <2>1
    <3>2. j + 1 # k
      BY <1>5, <3>1
    <3>3. j + 1 \in 1 .. k - 1 /\ j < k - 1
      BY <1>1, <1>5, <2>1, <3>2
    <3>. QED  BY <1>6, <3>1, <3>3
  <2>3. A[j] = "end" => j > 1 /\ A[j - 1] = "dict"
    <3> SUFFICES ASSUME A[j] = "end" PROVE j > 1 /\ A[j - 1] = "dict"
      OBVIOUS
    <3>1. j > 1 /\ c[j - 1] = "dict"
      BY <1>8, <2>1
    <3>2. j - 1 \in 1 .. k - 1
      BY <1>1, <1>5, <2>1, <3>1
    <3>. QED  BY <1>6, <3>1, <3>2
  <2>. QED  BY <1>8, <2>1, <2>2, <2>3
<1>11. Tidy(B)
  <2> SUFFICES ASSUME NEW j \in 1 .. n - k
               PROVE  /\ B[j] \in Lines \union {"hfn", "use", "pre", "dict", "end"}
                      /\ B[j] = "dict" => j < n - k /\ B[j + 1] = "end"
                      /\ B[j] = "end" => j > 1 /\ B[j - 1] = "dict"
    BY <1>7 DEF Tidy
  <2>1. k + j \in 1 .. n /\ k + j # k /\ B[j] = c[k + j] /\ j \in Nat /\ k \in Nat
    BY <1>1, <1>5, <1>7
  <2>2. B[j] = "dict" => j < n - k /\ B[j + 1] = "end"
    <3> SUFFICES ASSUME B[j] = "dict" PROVE j < n - k /\ B[j + 1] = "end"
      OBVIOUS
    <3>1. k + j < n /\ c[(k + j) + 1] = "end"
      BY <1>8, <2>1
    <3>2. j + 1 \in 1 .. n - k /\ (k + j) + 1 = k + (j + 1) /\ j < n - k
      BY <1>1, <2>1, <3>1
    <3>. QED  BY <1>7, <3>1, <3>2
  <2>3. B[j] = "end" => j > 1 /\ B[j - 1] = "dict"
    <3> SUFFICES ASSUME B[j] = "end" PROVE j > 1 /\ B[j - 1] = "dict"
      OBVIOUS
    <3>1. c[(k + j) - 1] = "dict"
      BY <1>8, <2>1
    <3>2. (k + j) - 1 # k
      BY <1>5, <3>1
    <3>3. j > 1 /\ j - 1 \in 1 .. n - k /\ (k + j) - 1 = k + (j - 1)
      BY <1>1, <2>1, <3>2
    <3>. QED  BY <1>7, <3>1, <3>3
  <2>. QED  BY <1>8, <2>1, <2>2, <2>3
<1>. QED  BY <1>5, <1>6, <1>7, <1>9, <1>10, <1>11 DEF A, B, k, n

LEMMA TidyPasses ==
    ASSUME NEW c \in Seq(Pieces), Tidy(c)
    PROVE  c \in Seq(Fair \ {"sig"}) /\ Passes(<<>>, c, <<>>, "python")
<1>1. Lines \union {"hfn", "use", "pre", "dict", "end"} \subseteq Fair \ {"sig"}
  BY DEF Lines, Fair, Pieces
<1>2. \A j \in 1 .. Len(c) : c[j] \in Fair \ {"sig"}
  BY <1>1 DEF Tidy
<1>3. c \in Seq(Fair \ {"sig"})
  <2>1. Len(c) \in Nat /\ c = [j \in 1 .. Len(c) |-> c[j]]
    OBVIOUS
  <2>. QED  BY <1>2, <2>1
<1>4. \A j \in 1 .. Len(c) : /\ c[j] # "classend"
                             /\ c[j] = "dict" => j < Len(c) /\ c[j + 1] = "end"
                             /\ c[j] = "end" => j > 1 /\ c[j - 1] = "dict"
  <2>1. "classend" \notin Lines \union {"hfn", "use", "pre", "dict", "end"}
    BY DEF Lines
  <2>. QED  BY <2>1 DEF Tidy
<1>. QED  BY <1>3, <1>4, TablesClosed

(* Python code is a whole program between imports and tests, and has the body of the
   text it is a part of if it goes on to where that body ends. *)
LEMMA PythonWhole ==
    ASSUME NEW c \in Seq(Pieces), PythonCode(c),
           NEW X \in Seq(Fair \ {"sig"}), Passes(<<>>, X, <<>>, "python"),
           NEW s \in Seq(Pieces), NEW off \in Int, NEW k, k = FirstAt(c, 1, {"sig"}),
           BodyStart(s) = off + k + 1, off + k >= 0,
           \A j \in k + 1 .. Len(c) : c[j] = s[off + j],
           off + Len(c) <= Len(s),
           off + Len(c) + 1 <= Len(s) => s[off + Len(c) + 1] \notin Lines,
           NEW p, p = (X \o c) \o <<"tests">>
    PROVE  Whole(p, s, "python")
<1> DEFINE A   == SubSeq(c, 1, k - 1)
           B   == SubSeq(c, k + 1, Len(c))
           sig == <<"sig">>
           T   == <<"tests">>
           n   == Len(B)
<1>1. /\ k \in 1 .. Len(c) /\ c[k] = "sig"
      /\ A \in Seq(Pieces) /\ B \in Seq(Pieces) /\ n = Len(c) - k
      /\ \A j \in 1 .. n : B[j] = c[k + j]
      /\ Tidy(A) /\ Tidy(B)
      /\ c = (A \o sig) \o B
  BY PythonSplit
<1>2. sig \in Seq(Pieces) /\ T \in Seq(Pieces) /\ T = TestEnd("python") /\ Outer("python") = <<>>
      /\ OpenNext(<<>>, "sig", "python") = <<>>
  BY DEF Pieces, TestEnd, Outer, Classes, OpenNext, Opens
<1>3. p = (X \o c) \o T
  OBVIOUS
<1>4. /\ A \in Seq(Fair \ {"sig"}) /\ Passes(<<>>, A, <<>>, "python")
      /\ B \in Seq(Fair \ {"sig"}) /\ Passes(<<>>, B, <<>>, "python")
  BY <1>1, TidyPasses
<1>5. X \in Seq(Pieces)
  <2>1. Fair \ {"sig"} \subseteq Pieces
    BY DEF Fair
  <2>. QED  BY <2>1, SeqMonotonic
<1>6. Len(c) \in Nat /\ Len(s) \in Nat /\ k \in Nat
  <2>1. Len(c) \in Nat /\ Len(s) \in Nat
    OBVIOUS
  <2>2. k \in 1 .. Len(c)
    BY <1>1
  <2>. QED  BY <2>1, <2>2
<1> HIDE DEF A, B, sig, T, n
<1>7. X \o A \in Seq(Fair \ {"sig"}) /\ X \o A \in Seq(Pieces) /\ A \o sig \in Seq(Pieces)
      /\ Passes(<<>>, X \o A, <<>>, "python")
  <2>1. X \o A \in Seq(Fair \ {"sig"})
    BY <1>4, ConcatProperties
  <2>2. X \o A \in Seq(Pieces) /\ A \o sig \in Seq(Pieces)
    BY <1>1, <1>2, <1>5, ConcatProperties
  <2>3. Passes(<<>>, X \o A, <<>>, "python")
    BY <1>1, <1>4, <1>5, PassesBoth
  <2>. QED  BY <2>1, <2>2, <2>3
<1>8. X \o c = ((X \o A) \o sig) \o B
  <2> DEFINE G == A \o sig
  <2>1. G \in Seq(Pieces)
    BY <1>7
  <2>2. (X \o A) \o sig = X \o G
    <3>1. X \in Seq(Pieces) /\ A \in Seq(Pieces) /\ sig \in Seq(Pieces)
      BY <1>1, <1>2, <1>5
    <3>. QED  BY <3>1, Regroup
  <2>3. c = G \o B
    BY <1>1
  <2> HIDE DEF G
  <2>4. X \in Seq(Pieces) /\ B \in Seq(Pieces)
    BY <1>1, <1>5
  <2>5. (X \o G) \o B = X \o (G \o B)
    BY <2>1, <2>4, Regroup
  <2>. QED  BY <2>2, <2>3, <2>5
<1> DEFINE from == BodyStart(s)
<1>9. from = off + k + 1 /\ from \in 1 .. Len(s) + 1 /\ from + n = off + Len(c) + 1
  <2>1. from = off + k + 1 /\ off + k >= 0 /\ off + Len(c) <= Len(s) /\ k <= Len(c) /\ n = Len(c) - k
    BY <1>1, <1>6
  <2> DEFINE l == Len(c)
             m == Len(s)
  <2>2. l \in Nat /\ m \in Nat /\ k \in Nat /\ l = Len(c) /\ m = Len(s)
    BY <1>6
  <2> HIDE DEF from, l, m
  <2>3. from = off + k + 1 /\ off + k >= 0 /\ off + l <= m /\ k <= l
    BY <2>1, <2>2
  <2>4. from \in 1 .. m + 1 /\ from + (l - k) = off + l + 1
    <3>1. from + (l - k) = off + l + 1
      BY <2>2, <2>3
    <3>2. from \in 1 .. m + 1
      BY <2>2, <2>3
    <3>. QED  BY <3>1, <3>2
  <2>. QED  BY <2>1, <2>2, <2>4
<1>10. \A j \in 1 .. n : B[j] = s[from + j - 1]
  <2> SUFFICES ASSUME NEW j \in 1 .. n PROVE B[j] = s[from + j - 1]
    OBVIOUS
  <2>1. k + j \in k + 1 .. Len(c) /\ off + (k + j) = from + j - 1
    <3>1. j \in 1 .. Len(c) - k /\ k <= Len(c) /\ from = off + k + 1
      BY <1>1, <1>6, <1>9
    <3>2. off \in Int /\ k \in Nat /\ Len(c) \in Nat
      BY <1>6
    <3>3. j \in Nat /\ j <= Len(c) - k /\ 1 <= j
      BY <3>1, <3>2
    <3>4. k + j \in k + 1 .. Len(c)
      BY <3>2, <3>3
    <3>5. off + (k + j) = (off + k + 1) + j - 1
      BY <3>2, <3>3
    <3>. QED  BY <3>1, <3>4, <3>5
  <2>2. B[j] = c[k + j]
    BY <1>1
  <2>. QED  BY <2>1, <2>2
<1>11. n \in 0 .. Len(B) /\ n = Len(B)
  BY <1>1 DEF n
<1>12. /\ from + n <= Len(s) + 1
       /\ from + n <= Len(s) => s[from + n] \notin Lines
  BY <1>6, <1>9
<1>13. p = (((X \o A) \o <<"sig">>) \o B) \o TestEnd("python")
  BY <1>2, <1>3, <1>8 DEF sig
<1> HIDE DEF from
<1> DEFINE Y == X \o A
<1>14. Y \in Seq(Fair \ {"sig"}) /\ Passes(<<>>, Y, Outer("python"), "python")
  BY <1>2, <1>7
<1>15. p = ((Y \o <<"sig">>) \o B) \o TestEnd("python")
  BY <1>13
<1> HIDE DEF Y
<1>16. Passes(OpenNext(Outer("python"), "sig", "python"), B, Outer("python"), "python")
  BY <1>2, <1>4
<1>. QED  BY <1>4, <1>9, <1>10, <1>11, <1>12, <1>14, <1>15, <1>16, BuiltWell DEF from

(* The function alone, with lines only. *)
LEMMA FunctionAlone ==
    ASSUME NEW c \in Seq(Pieces), c # <<>>, c[1] = "sig", \A j \in 2 .. Len(c) : c[j] \in Lines
    PROVE  PythonCode(c) /\ FirstAt(c, 1, {"sig"}) = 1
<1>1. Len(c) \in Nat /\ Len(c) >= 1 /\ DOMAIN c = 1 .. Len(c)
  BY EmptySeq
<1>2. "sig" \notin Lines /\ "dict" \notin Lines /\ "end" \notin Lines
  BY DEF Lines
<1>3. \A j \in 1 .. Len(c) : j = 1 \/ (j > 1 /\ j - 1 \in 1 .. Len(c) /\ c[j] \in Lines)
  BY <1>1
<1>4. Occurrences(c, "sig") = 1
  <2>1. {i \in DOMAIN c : c[i] = "sig"} = {1}
    BY <1>1, <1>2, <1>3
  <2>. QED  BY <2>1, FS_Singleton DEF Occurrences
<1>5. Range(c) \subseteq Lines \union {"sig", "hfn", "use", "pre", "dict", "end"}
  BY <1>1, <1>3 DEF Range
<1>6. ASSUME NEW j \in DOMAIN c
      PROVE  /\ c[j] \in Lines => j > 1 /\ c[j - 1] \in Lines \union {"sig", "hfn"}
             /\ c[j] = "dict" => j < Len(c) /\ c[j + 1] = "end"
             /\ c[j] = "end" => j > 1 /\ c[j - 1] = "dict"
  <2>1. CASE j = 1
    BY <1>2, <2>1
  <2>2. CASE j # 1
    <3>1. j > 1 /\ j - 1 \in 1 .. Len(c) /\ c[j] \in Lines
      BY <1>1, <1>3, <2>2
    <3>2. c[j - 1] \in Lines \union {"sig", "hfn"}
      BY <1>3, <3>1
    <3>. QED  BY <1>2, <3>1, <3>2
  <2>. QED  BY <2>1, <2>2
<1>7. FirstAt(c, 1, {"sig"}) = 1
  <2>1. 1 \in 1 .. Len(c) + 1 /\ (\A i \in 1 .. Len(c) : i < 1 => c[i] \notin {"sig"}) /\ c[1] \in {"sig"}
    BY <1>1
  <2>. QED  BY <2>1, FirstIsUnique
<1>. QED  BY <1>4, <1>5, <1>6, <1>7 DEF PythonCode

LEMMA SeqOfSet ==
    ASSUME NEW s \in Seq(Pieces), NEW S, \A j \in 1 .. Len(s) : s[j] \in S
    PROVE  s \in Seq(S)
<1>1. Len(s) \in Nat /\ s = [j \in 1 .. Len(s) |-> s[j]]
  OBVIOUS
<1>. QED  BY <1>1

\* A body of n lines with its closing line, then functions that are closed and statements.
BodyClosed(B, n) ==
    /\ n \in Nat /\ n + 1 <= Len(B)
    /\ \A j \in 1 .. Len(B) : B[j] \in Lines \union {"hfn", "use", "end"}
    /\ \A j \in 1 .. n : B[j] \in Lines
    /\ B[n + 1] = "end"
    /\ \A j \in 2 .. Len(B) :
         B[j] \in IF B[j - 1] \in Lines \union {"hfn"} THEN Lines \union {"end"} ELSE {"hfn", "use"}
    /\ B[Len(B)] \in {"end", "use"}

\* They are the n lines of the body in the text.
BodyCopied(s, B, n) ==
    /\ BodyStart(s) \in 1 .. Len(s) + 1 /\ BodyStart(s) + n <= Len(s) + 1
    /\ \A j \in 1 .. n : B[j] = s[BodyStart(s) + j - 1]
    /\ BodyStart(s) + n <= Len(s) => s[BodyStart(s) + n] \notin Lines

(* A function with its closing line, and the functions behind it, are a whole program
   between what a language needs before it and its tests. *)
LEMMA BracedWhole ==
    ASSUME NEW lang \in Handled, lang # "python",
           NEW s \in Seq(Pieces),
           NEW C \in Seq(Pieces), NEW B \in Seq(Pieces), B = C \o Closing(lang),
           NEW n, BodyClosed(B, n), BodyCopied(s, B, n)
    PROVE  Whole(ProcessHumanevalTest(Prompt(lang) \o C, lang), s, lang)
<1> DEFINE A == Leading(lang)
<1>1. A \in Seq(Fair \ {"sig"}) /\ Passes(<<>>, A, Outer(lang), lang)
  BY LeadingIsFair
<1>2. B \in Seq(Fair \ {"sig"})
  <2>1. Lines \union {"hfn", "use", "end"} \subseteq Fair \ {"sig"}
    BY DEF Lines, Fair, Pieces
  <2>2. \A j \in 1 .. Len(B) : B[j] \in Fair \ {"sig"}
    BY <2>1 DEF BodyClosed
  <2>. QED  BY <2>2, SeqOfSet
<1>3. Passes(OpenNext(Outer(lang), "sig", lang), B, Outer(lang), lang)
  <2>1. n \in Nat /\ Len(B) \in Nat /\ n + 1 \in 1 .. Len(B) /\ (n + 1) - 1 = n
    BY DEF BodyClosed
  <2>2. /\ \A j \in 1 .. Len(B) : B[j] \in Lines \union {"hfn", "use", "end"}
        /\ \A j \in 1 .. (n + 1) - 1 : B[j] \in Lines
        /\ B[n + 1] = "end"
        /\ \A j \in 2 .. Len(B) :
             B[j] \in IF B[j - 1] \in Lines \union {"hfn"} THEN Lines \union {"end"} ELSE {"hfn", "use"}
        /\ B[Len(B)] \in {"end", "use"}
    BY <2>1 DEF BodyClosed
  <2>. QED  BY <2>1, <2>2, BodiesClosed
<1>4. ProcessHumanevalTest(Prompt(lang) \o C, lang) = ((A \o <<"sig">>) \o B) \o TestEnd(lang)
  BY Assembled
<1> HIDE DEF A
<1>5. n \in 0 .. Len(B) /\ n < Len(B)
  <2>1. n \in Nat /\ n + 1 <= Len(B) /\ Len(B) \in Nat
    BY DEF BodyClosed
  <2>. QED  BY <2>1
<1>6. /\ BodyStart(s) \in 1 .. Len(s) + 1 /\ BodyStart(s) + n <= Len(s) + 1
      /\ \A j \in 1 .. n : B[j] = s[BodyStart(s) + j - 1]
      /\ BodyStart(s) + n <= Len(s) => s[BodyStart(s) + n] \notin Lines
      /\ lang # "python" => /\ \A j \in 1 .. n : B[j] \in Lines
                            /\ n < Len(B) /\ B[n + 1] = "end"
  BY <1>5 DEF BodyClosed, BodyCopied
<1> DEFINE p == ProcessHumanevalTest(Prompt(lang) \o C, lang)
<1>7. p = ((A \o <<"sig">>) \o B) \o TestEnd(lang)
  BY <1>4
<1> HIDE DEF p
<1>8. Whole(p, s, lang)
  BY <1>1, <1>2, <1>3, <1>5, <1>6, <1>7, BuiltWell
<1>. QED  BY <1>8 DEF p

(* The programs of Python's tests. *)
LEMMA PythonPrograms ==
    ASSUME NEW c \in Seq(Pieces)
    PROVE  /\ ProcessHumanevalTest(c, "python") = (<<"imports">> \o c) \o <<"tests">>
           /\ ProcessMbppTest(c) = (<<>> \o c) \o <<"tests">>
           /\ ProcessHumanevalTest(Prompt("python") \o c, "python")
                = (Leading("python") \o (<<"sig">> \o c)) \o <<"tests">>
<1>1. Test("python") = <<"tests">> /\ TestEnd("python") = <<"tests">> /\ Closing("python") = <<>>
  <2>1. "python" \notin Closed /\ "python" \notin Classes
    BY DEF Closed, Classes
  <2>2. <<>> \o <<"tests">> \o <<>> = <<"tests">>
    OBVIOUS
  <2>. QED  BY <2>1, <2>2 DEF Test, TestEnd, Closing
<1>2. ProcessHumanevalTest(c, "python") = (<<"imports">> \o c) \o <<"tests">>
  BY <1>1 DEF ProcessHumanevalTest
<1>3. ProcessMbppTest(c) = (<<>> \o c) \o <<"tests">>
  BY ConcatEmptySeq DEF ProcessMbppTest
<1>4. c \o Closing("python") = c
  BY <1>1, ConcatEmptySeq
<1> DEFINE L == Leading("python")
           sig == <<"sig">>
<1>5. ProcessHumanevalTest(Prompt("python") \o c, "python") = ((L \o sig) \o c) \o <<"tests">>
  <2>1. "python" \in Handled
    BY DEF Handled
  <2>2. ProcessHumanevalTest(Prompt("python") \o c, "python")
          = ((L \o sig) \o (c \o Closing("python"))) \o TestEnd("python")
    BY <2>1, Assembled
  <2>. QED  BY <1>1, <1>4, <2>2
<1>6. L \in Seq(Pieces) /\ sig \in Seq(Pieces)
  <2>1. Fair \ {"sig"} \subseteq Pieces /\ "sig" \in Pieces
    BY DEF Fair, Pieces
  <2>2. L \in Seq(Fair \ {"sig"})
    BY LeadingIsFair
  <2>. QED  BY <2>1, <2>2, SeqMonotonic
<1> HIDE DEF L, sig
<1>7. (L \o sig) \o c = L \o (sig \o c)
  BY <1>6, Regroup
<1>. QED  BY <1>2, <1>3, <1>5, <1>7 DEF L, sig

\* What stands before the code in them.
LEMMA PythonHeads ==
    /\ <<>> \in Seq(Fair \ {"sig"}) /\ Passes(<<>>, <<>>, <<>>, "python")
    /\ <<"imports">> \in Seq(Fair \ {"sig"}) /\ Passes(<<>>, <<"imports">>, <<>>, "python")
    /\ Leading("python") \in Seq(Fair \ {"sig"}) /\ Passes(<<>>, Leading("python"), <<>>, "python")
<1>1. <<>> \in Seq(Fair \ {"sig"}) /\ Passes(<<>>, <<>>, <<>>, "python")
  BY PassesNothing
<1>2. <<"imports">> \in Seq(Fair \ {"sig"})
  <2>1. "imports" \in Fair \ {"sig"}
    BY DEF Fair, Pieces
  <2>. QED  BY <2>1
<1>3. Passes(<<>>, <<"imports">>, <<>>, "python")
  <2>1. OpenNext(<<>>, "imports", "python") = <<>>
    BY DEF OpenNext, Opens
  <2>. QED  BY <2>1, PassesOne
<1>4. Leading("python") \in Seq(Fair \ {"sig"}) /\ Passes(<<>>, Leading("python"), Outer("python"), "python")
  BY LeadingIsFair
<1>5. Outer("python") = <<>>
  BY DEF Outer, Classes
<1>. QED  BY <1>1, <1>2, <1>3, <1>4, <1>5

\* A body without go's stop word.
StructFree(s, e) == \A j \in 1 .. e - 1 : s[j] # "struct"

\* The last place of a range is beyond those before it.
LEMMA LastIndex ==
    ASSUME NEW n \in Nat, n >= 1
    PROVE  n \in 1 .. n /\ ~(n <= n - 1) /\ n - (n - 1) = 1
OBVIOUS

(* base: behind a prompt the model goes on with the body, in which no stop word is. *)
LEMMA BaseProgram ==
    ASSUME NEW lang \in Handled, NEW s \in Seq(Pieces), s # <<>>, s[1] = "loop",
           NEW e, e = BodyEnd(s, 1),
           IF lang = "python" THEN BodyAlone(s, 1)
           ELSE IF e > Len(s) THEN lang \in Closed
           ELSE /\ s[e] = "end"
                /\ lang \in Closed
                     \/ \A j \in e + 1 .. FirstAt(s, 1, {"hfn"}) - 1 : s[j] = "use",
           lang = "go" => StructFree(s, e)
    PROVE  Whole(ProcessHumanevalTest(Prompt(lang) \o CleanupCode(s, lang, FALSE), lang), s, lang)
<1>1. Len(s) \in Nat /\ Len(s) >= 1
  BY EmptySeq
<1>2. BodyStart(s) = 1
  BY DEF BodyStart
<1>3. /\ e \in 1 .. Len(s) + 1
      /\ \A i \in 1 .. Len(s) : i < e => s[i] \notin Pieces \ Lines
      /\ e <= Len(s) => s[e] \in Pieces \ Lines
  BY <1>1, FirstFrom DEF BodyEnd
<1>4. /\ \A i \in 1 .. Len(s) : i < e => s[i] \in Lines
      /\ e <= Len(s) => s[e] \notin Lines
  BY <1>3
<1>5. e > 1
  <2>1. s[1] \in Lines /\ 1 \in 1 .. Len(s)
    BY <1>1 DEF Lines
  <2>. QED  BY <1>1, <1>3, <1>4, <2>1
<1>6. "end" \notin Lines /\ "hfn" \notin Lines /\ "use" \notin Lines /\ PythonStops \intersect Lines = {}
  BY DEF Lines, PythonStops
<1> DEFINE body == SubSeq(s, 1, e - 1)
<1>7. /\ body \in Seq(Pieces) /\ Len(body) = e - 1
      /\ \A i \in 1 .. e - 1 : body[i] = s[i] /\ body[i] \in Lines
  <2>1. 1 \in 1 .. Len(s) + 1 /\ e - 1 \in 1 - 1 .. Len(s)
    BY <1>1, <1>3
  <2>2. /\ body \in Seq(Pieces) /\ Len(body) = (e - 1) - 1 + 1
        /\ \A i \in 1 .. (e - 1) - 1 + 1 : body[i] = s[1 + i - 1]
    BY <2>1, PartOf
  <2> HIDE DEF body
  <2>3. /\ Len(body) = e - 1 /\ \A i \in 1 .. e - 1 : body[i] = s[i]
    BY <1>1, <1>3, <2>2
  <2>4. \A i \in 1 .. e - 1 : i \in 1 .. Len(s) /\ i < e
    BY <1>1, <1>3
  <2>. QED  BY <1>4, <2>2, <2>3, <2>4
<1>8. CASE lang = "python"
  <2>1. e <= Len(s) => s[e] \in PythonStops
    BY <1>8 DEF BodyAlone
  <2>2. FirstAt(s, 1, PythonStops) = e
    BY <1>3, <1>4, <1>6, <2>1, FirstIsUnique
  <2>3. CleanupCode(s, lang, FALSE) = body
    BY <1>8, <2>2 DEF CleanupCode, CutAt
  <2> DEFINE sig == <<"sig">>
             c   == sig \o body
             p   == ProcessHumanevalTest(Prompt("python") \o body, "python")
             X   == Leading("python")
  <2>4. p = (X \o c) \o <<"tests">>
    BY <1>7, PythonPrograms
  <2>5. sig \in Seq(Pieces) /\ Len(sig) = 1 /\ sig[1] = "sig"
    BY DEF Pieces
  <2>6. X \in Seq(Fair \ {"sig"}) /\ Passes(<<>>, X, <<>>, "python")
    BY PythonHeads
  <2> HIDE DEF sig, p, X, body
  <2>7. /\ c \in Seq(Pieces) /\ Len(c) = e
        /\ c[1] = "sig" /\ \A j \in 2 .. Len(c) : c[j] = body[j - 1] /\ c[j] \in Lines
    <3>1. /\ c \in Seq(Pieces) /\ Len(c) = Len(sig) + Len(body)
          /\ \A j \in 1 .. Len(sig) + Len(body) : c[j] = IF j <= Len(sig) THEN sig[j] ELSE body[j - Len(sig)]
      BY <1>7, <2>5, ConcatProperties
    <3> HIDE DEF c
    <3>2. Len(c) = e /\ \A j \in 1 .. e : c[j] = IF j <= 1 THEN sig[j] ELSE body[j - 1]
      BY <1>3, <1>7, <2>5, <3>1
    <3>3. c[1] = "sig"
      BY <1>3, <1>5, <2>5, <3>2
    <3>4. ASSUME NEW j \in 2 .. e PROVE c[j] = body[j - 1] /\ c[j] \in Lines
      <4>1. j \in 1 .. e /\ ~(j <= 1) /\ j - 1 \in 1 .. e - 1
        BY <1>3
      <4>. QED  BY <1>7, <3>2, <4>1
    <3>. QED  BY <3>1, <3>2, <3>3, <3>4
  <2> HIDE DEF c
  <2>8. c # <<>> /\ PythonCode(c) /\ FirstAt(c, 1, {"sig"}) = 1
    <3>1. c # <<>>
      BY <1>5, <1>3, <2>7, EmptySeq
    <3>. QED  BY <2>7, <3>1, FunctionAlone
  <2>9. \A j \in 1 + 1 .. Len(c) : c[j] = s[-1 + j]
    <3> SUFFICES ASSUME NEW j \in 2 .. Len(c) PROVE c[j] = s[-1 + j]
      OBVIOUS
    <3>1. j - 1 \in 1 .. e - 1 /\ -1 + j = j - 1
      BY <1>3, <2>7
    <3>2. c[j] = body[j - 1] /\ body[j - 1] = s[j - 1]
      BY <1>7, <2>7, <3>1
    <3>. QED  BY <3>1, <3>2
  <2>10. /\ -1 \in Int /\ BodyStart(s) = -1 + 1 + 1 /\ -1 + 1 >= 0 /\ -1 + Len(c) <= Len(s)
         /\ -1 + Len(c) + 1 <= Len(s) => s[-1 + Len(c) + 1] \notin Lines
    <3>1. -1 + Len(c) + 1 = e /\ -1 + Len(c) = e - 1
      BY <1>3, <2>7
    <3>2. -1 + Len(c) + 1 <= Len(s) => s[-1 + Len(c) + 1] \notin Lines
      BY <1>4, <3>1
    <3>3. -1 \in Int /\ BodyStart(s) = -1 + 1 + 1 /\ -1 + 1 >= 0 /\ -1 + Len(c) <= Len(s)
      BY <1>1, <1>2, <1>3, <3>1
    <3>. QED  BY <3>2, <3>3
  <2>11. Whole(p, s, "python")
    BY <2>4, <2>6, <2>7, <2>8, <2>9, <2>10, PythonWhole
  <2>. QED  BY <1>8, <2>3, <2>11 DEF p
<1>9. CASE lang # "python" /\ lang \in Closed
  <2>1. StopTokens(lang) = {"end"} /\ Closing(lang) = <<"end">>
    BY <1>9 DEF StopTokens, Closing
  <2>2. e <= Len(s) => s[e] = "end"
    BY <1>1, <1>3, <1>9
  <2>3. FirstAt(s, 1, {"end"}) = e
    <3>1. \A i \in 1 .. Len(s) : i < e => s[i] \notin {"end"}
      BY <1>4, <1>6
    <3>2. e <= Len(s) => s[e] \in {"end"}
      BY <2>2
    <3>. QED  BY <1>3, <3>1, <3>2, FirstIsUnique
  <2>4. CleanupCode(s, lang, FALSE) = body
    BY <1>9, <2>1, <2>3 DEF CleanupCode, CutAt
  <2> DEFINE line == <<"end">>
             B == body \o line
  <2>5. line \in Seq(Pieces) /\ Len(line) = 1 /\ line[1] = "end" /\ B = body \o Closing(lang)
    BY <2>1 DEF Pieces
  <2> HIDE DEF line, body
  <2>6. /\ B \in Seq(Pieces) /\ Len(B) = e
        /\ \A j \in 1 .. e - 1 : B[j] = body[j] /\ B[j] \in Lines
        /\ B[e] = "end"
    <3>1. /\ B \in Seq(Pieces) /\ Len(B) = Len(body) + Len(line)
          /\ \A j \in 1 .. Len(body) + Len(line) : B[j] = IF j <= Len(body) THEN body[j] ELSE line[j - Len(body)]
      BY <1>7, <2>5, ConcatProperties
    <3> HIDE DEF B
    <3>0. Len(body) = e - 1 /\ Len(line) = 1 /\ e \in Nat /\ e >= 2 /\ (e - 1) + 1 = e
      BY <1>1, <1>3, <1>5, <1>7, <2>5
    <3>2. Len(B) = e /\ \A j \in 1 .. e : B[j] = IF j <= e - 1 THEN body[j] ELSE line[j - (e - 1)]
      BY <3>0, <3>1
    <3>3. B[e] = "end"
      <4>0. e \in Nat /\ e >= 1
        BY <3>0
      <4>1. e \in 1 .. e /\ ~(e <= e - 1) /\ e - (e - 1) = 1
        BY <4>0, LastIndex
      <4>2. B[e] = line[e - (e - 1)]
        BY <3>2, <4>1
      <4>. QED  BY <2>5, <4>1, <4>2
    <3>4. ASSUME NEW j \in 1 .. e - 1 PROVE B[j] = body[j] /\ B[j] \in Lines
      <4>1. j \in 1 .. e /\ j <= e - 1
        BY <1>3
      <4>. QED  BY <1>7, <3>2, <4>1
    <3>. QED  BY <3>1, <3>2, <3>3, <3>4
  <2> HIDE DEF B
  <2> DEFINE n == e - 1
  <2>7. n \in Nat /\ n + 1 = e /\ n + 1 <= Len(B) /\ BodyStart(s) + n = e
    BY <1>2, <1>3, <2>6
  <2>8. /\ \A j \in 1 .. Len(B) : B[j] \in Lines \union {"hfn", "use", "end"}
        /\ \A j \in 2 .. Len(B) :
             B[j] \in IF B[j - 1] \in Lines \union {"hfn"} THEN Lines \union {"end"} ELSE {"hfn", "use"}
        /\ B[Len(B)] \in {"end", "use"}
    <3>1. \A j \in 1 .. Len(B) : j = e \/ j \in 1 .. e - 1
      BY <1>3, <2>6
    <3>2. \A j \in 2 .. Len(B) : j - 1 \in 1 .. e - 1 /\ j \in 1 .. Len(B)
      BY <1>3, <2>6
    <3>3. \A j \in 1 .. Len(B) : B[j] \in Lines \union {"end"}
      BY <2>6, <3>1
    <3>. QED  BY <2>6, <3>2, <3>3
  <2>9. \A j \in 1 .. n : B[j] \in Lines
    BY <2>6
  <2>10. \A j \in 1 .. n : B[j] = s[BodyStart(s) + j - 1]
    <3>1. \A j \in 1 .. e - 1 : B[j] = s[j] /\ BodyStart(s) + j - 1 = j
      BY <1>2, <1>3, <1>7, <2>6
    <3>. QED  BY <3>1
  <2>11. B[n + 1] = "end" /\ BodyStart(s) + n <= Len(s) + 1
         /\ (BodyStart(s) + n <= Len(s) => s[BodyStart(s) + n] \notin Lines)
    BY <1>3, <1>4, <2>6, <2>7
  <2> HIDE DEF n
  <2>12. BodyStart(s) \in 1 .. Len(s) + 1
    BY <1>1, <1>2
  <2>13. Whole(ProcessHumanevalTest(Prompt(lang) \o body, lang), s, lang)
    <3>1. lang # "python" /\ body \in Seq(Pieces) /\ B \in Seq(Pieces) /\ B = body \o Closing(lang)
      BY <1>7, <1>9, <2>5, <2>6
    <3>2. BodyClosed(B, n)
      BY <2>7, <2>8, <2>9, <2>11 DEF BodyClosed
    <3>3. BodyCopied(s, B, n)
      BY <2>10, <2>11, <2>12 DEF BodyCopied
    <3>. QED  BY <3>1, <3>2, <3>3, BracedWhole
  <2>. QED  BY <2>4, <2>13
<1>10. CASE lang # "python" /\ lang \notin Closed
  <2> DEFINE S == StopTokens(lang)
             q == FirstAt(s, 1, S)
             h == FirstAt(s, 1, {"hfn"})
             B == SubSeq(s, 1, q - 1)
  <2>1. /\ "hfn" \in S /\ S \subseteq {"hfn", "use", "struct"} /\ Closing(lang) = <<>>
        /\ "struct" \in S => lang = "go"
    BY <1>10 DEF StopTokens, Closing
  <2>2. /\ q \in 1 .. Len(s) + 1
        /\ \A i \in 1 .. Len(s) : i < q => s[i] \notin S
        /\ q <= Len(s) => s[q] \in S
    BY FirstIsFirst
  <2>3. /\ h \in 1 .. Len(s) + 1
        /\ \A i \in 1 .. Len(s) : i < h => s[i] \notin {"hfn"}
        /\ h <= Len(s) => s[h] \in {"hfn"}
    BY FirstIsFirst
  <2>4. e <= Len(s) /\ s[e] = "end" /\ \A j \in e + 1 .. h - 1 : s[j] = "use"
    BY <1>1, <1>3, <1>10
  <2>5. CleanupCode(s, lang, FALSE) = B
    BY <1>10 DEF CleanupCode, CutAt
  <2> HIDE DEF S, q, h
  <2>6. q <= h
    <3> SUFFICES ASSUME h < q PROVE FALSE
      BY <2>2, <2>3
    <3>1. h \in 1 .. Len(s) /\ s[h] = "hfn"
      BY <1>1, <2>2, <2>3
    <3>. QED  BY <2>1, <2>2, <3>1
  <2>7. q > e
    <3> SUFFICES ASSUME q <= e PROVE FALSE
      BY <1>3, <2>2
    <3>1. q \in 1 .. Len(s) /\ s[q] \in S
      BY <1>1, <1>3, <2>2, <2>4
    <3>2. CASE q = e
      BY <2>1, <2>4, <3>1, <3>2
    <3>3. CASE q # e
      <4>1. q < e /\ q \in 1 .. e - 1
        BY <1>3, <3>1, <3>3
      <4>2. s[q] \in Lines /\ s[q] = "struct"
        BY <1>4, <1>6, <2>1, <3>1, <4>1
      <4>. QED  BY <2>1, <3>1, <4>1, <4>2 DEF StructFree
    <3>. QED  BY <3>2, <3>3
  <2>8. B \in Seq(Pieces) /\ Len(B) = q - 1 /\ \A i \in 1 .. q - 1 : B[i] = s[i]
    <3>1. 1 \in 1 .. Len(s) + 1 /\ q - 1 \in 1 - 1 .. Len(s)
      BY <1>1, <2>2
    <3>2. /\ B \in Seq(Pieces) /\ Len(B) = (q - 1) - 1 + 1
          /\ \A i \in 1 .. (q - 1) - 1 + 1 : B[i] = s[1 + i - 1]
      BY <3>1, PartOf
    <3> HIDE DEF B
    <3>. QED  BY <1>1, <2>2, <3>2
  <2> HIDE DEF B
  <2>9. /\ \A j \in 1 .. e - 1 : B[j] = s[j] /\ B[j] \in Lines
        /\ B[e] = "end" /\ \A j \in e + 1 .. Len(B) : B[j] = "use"
    <3>1. ASSUME NEW j \in 1 .. e - 1 PROVE B[j] = s[j] /\ B[j] \in Lines
      <4>1. j \in 1 .. q - 1 /\ j \in 1 .. Len(s) /\ j < e
        BY <1>1, <1>3, <2>2, <2>7
      <4>. QED  BY <1>4, <2>8, <4>1
    <3>2. B[e] = "end"
      <4>1. e \in 1 .. q - 1
        BY <1>3, <2>2, <2>7
      <4>. QED  BY <2>4, <2>8, <4>1
    <3>3. ASSUME NEW j \in e + 1 .. Len(B) PROVE B[j] = "use"
      <4>1. j \in 1 .. q - 1 /\ j \in e + 1 .. h - 1
        BY <1>3, <2>2, <2>3, <2>6, <2>8
      <4>. QED  BY <2>4, <2>8, <4>1
    <3>. QED  BY <3>1, <3>2, <3>3
  <2> DEFINE n == e - 1
  <2>10. n \in Nat /\ n + 1 = e /\ n + 1 <= Len(B) /\ BodyStart(s) + n = e
    BY <1>2, <1>3, <2>2, <2>7, <2>8
  <2>11. /\ \A j \in 1 .. Len(B) : B[j] \in Lines \union {"hfn", "use", "end"}
         /\ \A j \in 2 .. Len(B) :
              B[j] \in IF B[j - 1] \in Lines \union {"hfn"} THEN Lines \union {"end"} ELSE {"hfn", "use"}
         /\ B[Len(B)] \in {"end", "use"}
    <3>1. Len(B) \in Nat /\ Len(B) >= e /\ e \in Nat
      BY <1>3, <2>2, <2>7, <2>8
    <3>2. \A j \in 1 .. Len(B) : j = e \/ j \in 1 .. e - 1 \/ j \in e + 1 .. Len(B)
      BY <3>1
    <3>3. \A j \in 1 .. Len(B) : B[j] \in Lines \union {"hfn", "use", "end"}
      BY <2>9, <3>2
    <3>4. ASSUME NEW j \in 2 .. Len(B)
          PROVE  B[j] \in IF B[j - 1] \in Lines \union {"hfn"} THEN Lines \union {"end"} ELSE {"hfn", "use"}
      <4>1. CASE j <= e
        <5>1. j - 1 \in 1 .. e - 1 /\ (j = e \/ j \in 1 .. e - 1)
          BY <3>1, <4>1
        <5>. QED  BY <2>9, <5>1
      <4>2. CASE j > e
        <5>1. j \in e + 1 .. Len(B) /\ (j - 1 = e \/ j - 1 \in e + 1 .. Len(B))
          BY <3>1, <4>2
        <5>2. B[j] = "use" /\ B[j - 1] \in {"end", "use"}
          BY <2>9, <5>1
        <5>. QED  BY <1>6, <5>2
      <4>. QED  BY <3>1, <4>1, <4>2
    <3>5. B[Len(B)] \in {"end", "use"}
      <4>1. Len(B) = e \/ Len(B) \in e + 1 .. Len(B)
        BY <3>1
      <4>. QED  BY <2>9, <4>1
    <3>. QED  BY <3>3, <3>4, <3>5
  <2>12. \A j \in 1 .. n : B[j] \in Lines
    BY <2>9
  <2>13. \A j \in 1 .. n : B[j] = s[BodyStart(s) + j - 1]
    <3>1. \A j \in 1 .. e - 1 : B[j] = s[j] /\ BodyStart(s) + j - 1 = j
      BY <1>2, <1>3, <2>9
    <3>. QED  BY <3>1
  <2>14. B[n + 1] = "end" /\ BodyStart(s) + n <= Len(s) + 1
         /\ (BodyStart(s) + n <= Len(s) => s[BodyStart(s) + n] \notin Lines)
    BY <1>3, <1>4, <2>9, <2>10
  <2>15. B = B \o Closing(lang) /\ BodyStart(s) \in 1 .. Len(s) + 1
    BY <1>1, <1>2, <2>1, <2>8, ConcatEmptySeq
  <2> HIDE DEF n
  <2>16. Whole(ProcessHumanevalTest(Prompt(lang) \o B, lang), s, lang)
    <3>1. lang # "python" /\ B \in Seq(Pieces) /\ B = B \o Closing(lang)
      BY <1>10, <2>8, <2>15
    <3>2. BodyClosed(B, n)
      BY <2>10, <2>11, <2>12, <2>14 DEF BodyClosed
    <3>3. BodyCopied(s, B, n)
      BY <2>13, <2>14, <2>15 DEF BodyCopied
    <3>. QED  BY <3>1, <3>2, <3>3, BracedWhole
  <2>. QED  BY <2>5, <2>16
<1>. QED  BY <1>8, <1>9, <1>10

(* A go body with the word struct is cut there, and its function is not closed. *)
LEMMA StructCut ==
    ASSUME NEW s \in Seq(Pieces), NEW e, e = BodyEnd(s, 1),
           NEW x \in 1 .. e - 1, s[x] = "struct"
    PROVE  ~Balanced(ProcessHumanevalTest(Prompt("go") \o CleanupCode(s, "go", FALSE), "go"), "go")
<1> DEFINE S == StopTokens("go")
           q == FirstAt(s, 1, S)
           B == SubSeq(s, 1, q - 1)
           p == ProcessHumanevalTest(Prompt("go") \o B, "go")
<1>1. /\ e \in 1 .. Len(s) + 1 /\ Len(s) \in Nat
      /\ \A i \in 1 .. Len(s) : i < e => s[i] \notin Pieces \ Lines
  BY FirstFrom DEF BodyEnd
<1>2. S = {"hfn", "struct"}
  BY DEF StopTokens, Closed, Classes
<1>3. /\ q \in 1 .. Len(s) + 1
      /\ \A i \in 1 .. Len(s) : i < q => s[i] \notin S
  BY FirstIsFirst
<1>4. CleanupCode(s, "go", FALSE) = B
  BY DEF CleanupCode, CutAt
<1> HIDE DEF S, q
<1>5. q <= x /\ x \in 1 .. Len(s) /\ x < e
  BY <1>1, <1>2, <1>3
<1>6. B \in Seq(Pieces) /\ Len(B) = q - 1 /\ \A i \in 1 .. q - 1 : B[i] = s[i]
  <2>1. 1 \in 1 .. Len(s) + 1 /\ q - 1 \in 1 - 1 .. Len(s)
    BY <1>1, <1>3
  <2>2. /\ B \in Seq(Pieces) /\ Len(B) = (q - 1) - 1 + 1
        /\ \A i \in 1 .. (q - 1) - 1 + 1 : B[i] = s[1 + i - 1]
    BY <2>1, PartOf
  <2> HIDE DEF B
  <2>. QED  BY <1>1, <1>3, <2>2
<1> HIDE DEF B
<1>7. \A i \in 1 .. Len(B) : B[i] \in Lines
  <2> SUFFICES ASSUME NEW i \in 1 .. Len(B) PROVE B[i] \in Lines
    OBVIOUS
  <2>1. i \in 1 .. q - 1 /\ i \in 1 .. Len(s) /\ i < e
    BY <1>1, <1>3, <1>5, <1>6
  <2>2. s[i] \in Pieces
    BY <2>1
  <2>. QED  BY <1>1, <1>6, <2>1, <2>2
<1>8. "go" \in Handled /\ Closing("go") = <<>> /\ TestEnd("go") = <<"tests">> /\ Outer("go") = <<>>
  BY DEF Handled, Closing, TestEnd, Outer, Closed, Classes
<1> DEFINE A == Leading("go")
           sig == <<"sig">>
           tests == <<"tests">>
           open == InFunction("go")
<1>9. p = ((A \o sig) \o B) \o tests
  <2>1. p = ((A \o sig) \o (B \o Closing("go"))) \o TestEnd("go")
    BY <1>6, <1>8, Assembled
  <2>2. B \o <<>> = B
    BY <1>6, ConcatEmptySeq
  <2>. QED  BY <1>8, <2>1, <2>2
<1>10. A \in Seq(Pieces) /\ Passes(<<>>, A, <<>>, "go")
  <2>1. A \in Seq(Fair \ {"sig"}) /\ Passes(<<>>, A, <<>>, "go")
    BY <1>8, LeadingIsFair
  <2>2. Fair \ {"sig"} \subseteq Pieces
    BY DEF Fair
  <2> HIDE DEF A
  <2>. QED  BY <2>1, <2>2, SeqMonotonic
<1>11. sig \in Seq(Pieces) /\ tests \in Seq(Pieces)
  BY DEF Pieces
<1>12. open # <<>> /\ open # <<"bad">>
  <2>1. Append(<<>>, "sig") = <<"sig">>
    OBVIOUS
  <2>2. open = <<"sig">>
    BY <1>8, <2>1, Zenon DEF InFunction
  <2>3. <<"sig">> # <<>> /\ <<"sig">> # <<"bad">>
    OBVIOUS
  <2>. QED  BY <2>2, <2>3
<1>13. Passes(<<>>, sig, open, "go")
  <2>1. OpenNext(<<>>, "sig", "go") = open
    BY <1>8, OpenSteps
  <2>2. Passes(<<>>, sig, OpenNext(<<>>, "sig", "go"), "go")
    BY PassesOne
  <2>. QED  BY <2>1, <2>2
<1>14. Passes(open, B, open, "go")
  <2> DEFINE st == [j \in 0 .. Len(B) |-> open]
  <2>1. st[0] = open /\ st[Len(B)] = open
    BY <1>6
  <2>2. ASSUME NEW j \in 1 .. Len(B) PROVE st[j] = OpenNext(st[j - 1], B[j], "go")
    <3>1. st[j] = open /\ st[j - 1] = open
      OBVIOUS
    <3>2. OpenNext(open, B[j], "go") = open
      BY <1>7, OpenSteps
    <3>. QED  BY <3>1, <3>2
  <2> HIDE DEF st
  <2>. QED  BY <2>1, <2>2 DEF Passes
<1>15. Passes(open, tests, open, "go")
  <2>1. OpenNext(open, "tests", "go") = open
    BY <1>12 DEF OpenNext, Opens
  <2>2. Passes(open, tests, OpenNext(open, "tests", "go"), "go")
    BY PassesOne
  <2>. QED  BY <2>1, <2>2
<1> HIDE DEF A, sig, tests, open, p
<1>16. A \o sig \in Seq(Pieces) /\ Passes(<<>>, A \o sig, open, "go")
  BY <1>10, <1>11, <1>13, PassesBoth, ConcatProperties
<1>17. (A \o sig) \o B \in Seq(Pieces) /\ Passes(<<>>, (A \o sig) \o B, open, "go")
  BY <1>6, <1>14, <1>16, PassesBoth, ConcatProperties
<1>18. p \in Seq(Pieces) /\ Passes(<<>>, p, open, "go")
  BY <1>9, <1>11, <1>15, <1>17, PassesBoth, ConcatProperties
<1>19. OpenAfter(p, "go") = open
  BY <1>18, PassesFold
<1>. QED  BY <1>4, <1>12, <1>19 DEF Balanced, p

-----------------------------------------------------------------------------
(* Code blocks *)

\* A text with a code block and only prose before it.
Fenced(s) == HasBlock(s) /\ \A j \in 1 .. Fence(s) - 1 : s[j] = "talk"

(* Where the block is, up to an entry point, and what stands behind it; the body in it is
   the one the text has first. *)
LEMMA FencedBlock ==
    ASSUME NEW s \in Seq(Pieces), NEW lang, Fenced(s),
           NEW f, f = Fence(s), NEW b, b = WithoutMain(Block(s), lang)
    PROVE  /\ f \in 1 .. Len(s) /\ b \in Seq(Pieces)
           /\ f + Len(b) + 1 <= Len(s) /\ s[f + Len(b) + 1] \notin Lines
           /\ \A j \in 1 .. Len(b) : b[j] = s[f + j]
           /\ s # <<>> /\ s[1] # "loop"
           /\ Contains(b, "sig") =>
                LET k == FirstAt(b, 1, {"sig"})
                IN  k \in 1 .. Len(b) /\ b[k] = "sig" /\ BodyStart(s) = f + k + 1
<1> DEFINE u == Unfence(s)
           m == Len(s)
           w == Block(s)
<1>1. m \in Nat
  OBVIOUS
<1>2. f \in 1 .. m + 1 /\ (f <= m => s[f] = "fence")
  BY FirstIsFirst DEF Fence
<1>3. /\ u \in f .. m + 1
      /\ \A i \in f .. m : i < u => s[i] \notin {"unfence"}
      /\ u <= m => s[u] \in {"unfence"}
  BY <1>2, FirstFrom DEF Unfence
<1>4. u <= m /\ \A j \in 1 .. f - 1 : s[j] = "talk"
  BY DEF Fenced, HasBlock
<1>5. w = SubSeq(s, f + 1, u - 1)
  BY DEF Block
<1> HIDE DEF u, m, w
<1>6. f \in 1 .. m /\ f \in Nat /\ u \in Nat /\ s[f] = "fence" /\ s[u] = "unfence" /\ u > f
  <2>1. f \in 1 .. m /\ s[f] = "fence" /\ s[u] = "unfence" /\ f \in Nat /\ u \in Nat /\ u >= f
    BY <1>1, <1>2, <1>3, <1>4
  <2>. QED  BY <2>1
<1>7. /\ w \in Seq(Pieces) /\ Len(w) = u - f - 1
      /\ \A j \in 1 .. u - f - 1 : w[j] = s[f + j]
  <2>1. f + 1 \in 1 .. Len(s) + 1 /\ u - 1 \in (f + 1) - 1 .. Len(s)
    BY <1>1, <1>4, <1>6 DEF m
  <2>2. /\ w \in Seq(Pieces) /\ Len(w) = (u - 1) - (f + 1) + 1
        /\ \A j \in 1 .. (u - 1) - (f + 1) + 1 : w[j] = s[(f + 1) + j - 1]
    BY <1>5, <2>1, PartOf
  <2>3. (u - 1) - (f + 1) + 1 = u - f - 1
    BY <1>6
  <2>4. Len(w) = u - f - 1
    BY <2>2, <2>3
  <2>5. ASSUME NEW j \in 1 .. u - f - 1 PROVE w[j] = s[f + j]
    <3>1. (f + 1) + j - 1 = f + j /\ j \in 1 .. (u - 1) - (f + 1) + 1
      BY <1>6, <2>3
    <3>2. w[j] = s[(f + 1) + j - 1]
      BY <2>2, <3>1
    <3>. QED  BY <3>1, <3>2
  <2>. QED  BY <2>2, <2>4, <2>5
<1>8. /\ b \in Seq(Pieces) /\ Len(b) <= u - f - 1
      /\ \A j \in 1 .. Len(b) : b[j] = s[f + j]
      /\ s[f + Len(b) + 1] \in {"main", "unfence"}
  <2>1. CASE lang \notin Mains
    <3>1. b = w
      BY <2>1 DEF WithoutMain, w
    <3>2. Len(b) = u - f - 1
      BY <1>7, <3>1
    <3>3. f + Len(b) + 1 = u /\ Len(b) <= u - f - 1
      BY <1>6, <3>2
    <3>4. s[f + Len(b) + 1] \in {"main", "unfence"}
      BY <1>6, <3>3
    <3>5. \A j \in 1 .. Len(b) : b[j] = s[f + j]
      BY <1>7, <3>1, <3>2
    <3>. QED  BY <1>7, <3>1, <3>3, <3>4, <3>5
  <2>2. CASE lang \in Mains
    <3> DEFINE q == FirstAt(w, 1, {"main"})
    <3>1. b = SubSeq(w, 1, q - 1)
      BY <2>2 DEF WithoutMain, CutAt, w
    <3>2. q \in 1 .. Len(w) + 1 /\ (q <= Len(w) => w[q] = "main")
      BY <1>7, FirstIsFirst
    <3> HIDE DEF q
    <3>3. /\ b \in Seq(Pieces) /\ Len(b) = (q - 1) - 1 + 1
          /\ \A j \in 1 .. (q - 1) - 1 + 1 : b[j] = w[1 + j - 1]
      <4>1. 1 \in 1 .. Len(w) + 1 /\ q - 1 \in 1 - 1 .. Len(w)
        BY <1>6, <1>7, <3>2
      <4>. QED  BY <1>7, <3>1, <4>1, PartOf
    <3>4. Len(b) = q - 1 /\ \A j \in 1 .. q - 1 : b[j] = w[j] /\ j \in 1 .. u - f - 1
      BY <1>6, <1>7, <3>2, <3>3
    <3>5. Len(b) <= u - f - 1 /\ f + Len(b) + 1 = f + q
      BY <1>6, <1>7, <3>2, <3>4
    <3>6. s[f + q] \in {"main", "unfence"}
      <4>1. CASE q <= Len(w)
        <5>1. q \in 1 .. u - f - 1 /\ w[q] = "main"
          BY <1>6, <1>7, <3>2, <4>1
        <5>. QED  BY <1>7, <5>1
      <4>2. CASE ~(q <= Len(w))
        <5>1. f + q = u
          BY <1>6, <1>7, <3>2, <4>2
        <5>. QED  BY <1>6, <5>1
      <4>. QED  BY <4>1, <4>2
    <3>. QED  BY <1>7, <3>3, <3>4, <3>5, <3>6
  <2>. QED  BY <2>1, <2>2
<1>9. /\ f + Len(b) + 1 <= m /\ s[f + Len(b) + 1] \notin Lines
  <2>1. Len(b) \in Nat
    BY <1>8
  <2>2. f + Len(b) + 1 <= m
    BY <1>1, <1>4, <1>6, <1>8, <2>1
  <2>3. "main" \notin Lines /\ "unfence" \notin Lines
    BY DEF Lines
  <2>. QED  BY <1>8, <2>2, <2>3
<1>10. s # <<>> /\ s[1] \in {"talk", "fence"}
  <2>1. m >= 1 /\ 1 \in 1 .. m
    BY <1>1, <1>6
  <2>2. s # <<>>
    BY <2>1, EmptySeq DEF m
  <2>3. f = 1 \/ 1 \in 1 .. f - 1
    BY <1>6
  <2>. QED  BY <1>4, <1>6, <2>2, <2>3
<1>11. ASSUME Contains(b, "sig")
       PROVE  LET k == FirstAt(b, 1, {"sig"})
              IN  k \in 1 .. Len(b) /\ b[k] = "sig" /\ BodyStart(s) = f + k + 1
  <2> DEFINE k == FirstAt(b, 1, {"sig"})
  <2>1. /\ k \in 1 .. Len(b) + 1
        /\ \A i \in 1 .. Len(b) : i < k => b[i] \notin {"sig"}
        /\ k <= Len(b) => b[k] \in {"sig"}
    BY <1>8, FirstIsFirst
  <2>2. PICK x \in 1 .. Len(b) : b[x] = "sig"
    BY <1>8, <1>11 DEF Contains
  <2> HIDE DEF k
  <2>3. Len(b) \in Nat
    BY <1>8
  <2>4. k \in 1 .. Len(b) /\ b[k] = "sig"
    BY <2>1, <2>2, <2>3
  <2>5. FirstAt(s, 1, {"sig"}) = f + k
    <3>1. f + k \in 1 .. Len(s) + 1
      BY <1>1, <1>6, <1>9, <2>3, <2>4 DEF m
    <3>2. s[f + k] \in {"sig"}
      BY <1>8, <2>4
    <3>3. ASSUME NEW i \in 1 .. Len(s), i < f + k PROVE s[i] \notin {"sig"}
      <4>1. CASE i < f
        <5>1. i \in 1 .. f - 1
          BY <1>6, <4>1
        <5>. QED  BY <1>4, <5>1
      <4>2. CASE i = f
        BY <1>6, <4>2
      <4>3. CASE i > f
        <5>1. i - f \in 1 .. Len(b) /\ i - f < k /\ f + (i - f) = i
          BY <1>6, <2>3, <2>4, <3>3, <4>3
        <5>. QED  BY <1>8, <2>1, <5>1
      <4>. QED  BY <1>6, <4>1, <4>2, <4>3
    <3>. QED  BY <3>1, <3>2, <3>3, FirstIsUnique
  <2>6. BodyStart(s) = f + k + 1
    BY <1>10, <2>5 DEF BodyStart
  <2>. QED  BY <2>4, <2>6 DEF k
<1>. QED  BY <1>6, <1>8, <1>9, <1>10, <1>11 DEF m

LEMMA PythonKeepsBlock == \A w : WithoutMain(w, "python") = w
BY DEF WithoutMain, Mains

(* A code block that is Python with the function in it makes a whole program. *)
LEMMA PythonBlock ==
    ASSUME NEW s \in Seq(Pieces), Fenced(s), PythonCode(Block(s)),
           NEW X \in Seq(Fair \ {"sig"}), Passes(<<>>, X, <<>>, "python"),
           NEW p, p = (X \o Block(s)) \o <<"tests">>
    PROVE  Whole(p, s, "python")
<1> DEFINE c == Block(s)
           f == Fence(s)
           k == FirstAt(c, 1, {"sig"})
<1>1. c = WithoutMain(Block(s), "python")
  BY PythonKeepsBlock
<1>2. /\ f \in 1 .. Len(s) /\ c \in Seq(Pieces)
      /\ f + Len(c) + 1 <= Len(s) /\ s[f + Len(c) + 1] \notin Lines
      /\ \A j \in 1 .. Len(c) : c[j] = s[f + j]
      /\ Contains(c, "sig") => k \in 1 .. Len(c) /\ c[k] = "sig" /\ BodyStart(s) = f + k + 1
  BY <1>1, FencedBlock
<1>3. PythonCode(c) /\ p = (X \o c) \o <<"tests">>
  OBVIOUS
<1> HIDE DEF c, f
<1>4. k \in 1 .. Len(c) /\ c[k] = "sig"
  BY <1>2, <1>3, PythonSplit
<1>5. Contains(c, "sig")
  BY <1>2, <1>4 DEF Contains
<1> HIDE DEF k
<1>6. Len(c) \in Nat /\ Len(s) \in Nat /\ f \in Int /\ f >= 1 /\ k \in Nat
  <2>1. Len(c) \in Nat /\ Len(s) \in Nat
    BY <1>2
  <2>. QED  BY <1>2, <1>4, <2>1
<1>7. /\ BodyStart(s) = f + k + 1 /\ f + k >= 0 /\ f + Len(c) <= Len(s)
      /\ f + Len(c) + 1 <= Len(s) => s[f + Len(c) + 1] \notin Lines
  <2>1. f + k >= 0 /\ f + Len(c) <= Len(s)
    BY <1>2, <1>6
  <2>. QED  BY <1>2, <1>5, <2>1 DEF k
<1>8. \A j \in k + 1 .. Len(c) : c[j] = s[f + j]
  <2>1. \A j \in k + 1 .. Len(c) : j \in 1 .. Len(c)
    BY <1>6
  <2>. QED  BY <1>2, <2>1
<1>9. k = FirstAt(c, 1, {"sig"})
  BY DEF k
<1>. QED  BY <1>2, <1>3, <1>6, <1>7, <1>8, <1>9, PythonWhole

(* The function cut out from the start of a text, where its body is. *)
LEMMA CutBody ==
    ASSUME NEW b \in Seq(Pieces), b # <<>>, b[1] = "sig", BodyAlone(b, 2),
           NEW c, c = CutAt(b, 2, PythonStops)
    PROVE  /\ c \in Seq(Pieces) /\ PythonCode(c) /\ FirstAt(c, 1, {"sig"}) = 1
           /\ Len(c) \in 1 .. Len(b) /\ \A j \in 1 .. Len(c) : c[j] = b[j]
           /\ Len(c) + 1 <= Len(b) => b[Len(c) + 1] \notin Lines
<1> DEFINE e == BodyEnd(b, 2)
           m == Len(b)
<1>1. m \in Nat /\ m >= 1 /\ 2 \in 1 .. m + 1
  BY EmptySeq
<1>2. /\ e \in 2 .. m + 1
      /\ \A i \in 2 .. m : i < e => b[i] \notin Pieces \ Lines
      /\ e <= m => b[e] \in Pieces \ Lines
  BY <1>1, FirstFrom DEF BodyEnd
<1>3. e <= m => b[e] \in PythonStops
  BY DEF BodyAlone
<1>4. PythonStops \intersect Lines = {}
  BY DEF PythonStops, Lines
<1> HIDE DEF e
<1>5. \A i \in 2 .. m : i < e => b[i] \in Lines /\ b[i] \notin PythonStops
  <2>1. \A i \in 2 .. m : b[i] \in Pieces
    BY <1>1
  <2>. QED  BY <1>2, <1>4, <2>1
<1>6. FirstAt(b, 2, PythonStops) = e
  BY <1>1, <1>2, <1>3, <1>5, FirstFromUnique
<1>7. c = SubSeq(b, 1, e - 1)
  BY <1>6 DEF CutAt
<1>8. c \in Seq(Pieces) /\ Len(c) = e - 1 /\ \A j \in 1 .. e - 1 : c[j] = b[j]
  <2>1. 1 \in 1 .. m + 1 /\ e - 1 \in 1 - 1 .. m
    BY <1>1, <1>2
  <2>2. /\ c \in Seq(Pieces) /\ Len(c) = (e - 1) - 1 + 1
        /\ \A i \in 1 .. (e - 1) - 1 + 1 : c[i] = b[1 + i - 1]
    BY <1>7, <2>1, PartOf
  <2>. QED  BY <1>2, <2>2
<1>9. c # <<>> /\ c[1] = "sig" /\ \A j \in 2 .. Len(c) : c[j] \in Lines
  <2>1. Len(c) >= 1 /\ 1 \in 1 .. e - 1 /\ e \in Nat
    BY <1>1, <1>2, <1>8
  <2>2. c # <<>>
    BY <1>8, <2>1, EmptySeq
  <2>3. ASSUME NEW j \in 2 .. Len(c) PROVE c[j] \in Lines
    <3>1. j \in 1 .. e - 1 /\ j \in 2 .. m /\ j < e
      BY <1>1, <1>2, <1>8
    <3>. QED  BY <1>5, <1>8, <3>1
  <2>. QED  BY <1>8, <2>1, <2>2, <2>3
<1>10. PythonCode(c) /\ FirstAt(c, 1, {"sig"}) = 1
  BY <1>8, <1>9, FunctionAlone
<1>11. Len(c) \in 1 .. m /\ (Len(c) + 1 <= m => b[Len(c) + 1] \notin Lines)
  <2>1. Len(c) + 1 = e /\ Len(c) \in 1 .. m
    BY <1>1, <1>2, <1>8
  <2>. QED  BY <1>2, <2>1
<1>. QED  BY <1>8, <1>10, <1>11 DEF m

-----------------------------------------------------------------------------
(* The programs of the scripts *)

(* The function cut out from where a text has it. *)
LEMMA CutProgram ==
    ASSUME NEW s \in Seq(Pieces), NEW b \in Seq(Pieces), b # <<>>, b[1] = "sig", BodyAlone(b, 2),
           NEW off \in Nat, BodyStart(s) = off + 1 + 1,
           \A j \in 1 .. Len(b) : b[j] = s[off + j],
           off + Len(b) <= Len(s),
           off + Len(b) + 1 <= Len(s) => s[off + Len(b) + 1] \notin Lines
    PROVE  Whole(ProcessHumanevalTest(CutAt(b, 2, PythonStops), "python"), s, "python")
<1> DEFINE c == CutAt(b, 2, PythonStops)
           p == ProcessHumanevalTest(c, "python")
           X == <<"imports">>
<1>1. /\ c \in Seq(Pieces) /\ PythonCode(c) /\ FirstAt(c, 1, {"sig"}) = 1
      /\ Len(c) \in 1 .. Len(b) /\ \A j \in 1 .. Len(c) : c[j] = b[j]
      /\ Len(c) + 1 <= Len(b) => b[Len(c) + 1] \notin Lines
  BY CutBody
<1> HIDE DEF c
<1>2. p = (X \o c) \o <<"tests">>
  BY <1>1, PythonPrograms
<1>3. X \in Seq(Fair \ {"sig"}) /\ Passes(<<>>, X, <<>>, "python")
  BY PythonHeads
<1> HIDE DEF p, X
<1>4. Len(b) \in Nat /\ Len(s) \in Nat
  OBVIOUS
<1>5. \A j \in 1 + 1 .. Len(c) : c[j] = s[off + j]
  <2>1. \A j \in 1 + 1 .. Len(c) : j \in 1 .. Len(c) /\ j \in 1 .. Len(b)
    BY <1>1, <1>4
  <2>. QED  BY <1>1, <2>1
<1>6. off + Len(c) <= Len(s)
  BY <1>1, <1>4
<1>7. ASSUME off + Len(c) + 1 <= Len(s) PROVE s[off + Len(c) + 1] \notin Lines
  <2>1. CASE Len(c) = Len(b)
    BY <1>7, <2>1
  <2>2. CASE Len(c) # Len(b)
    <3>1. Len(c) + 1 \in 1 .. Len(b) /\ off + (Len(c) + 1) = off + Len(c) + 1
      BY <1>1, <1>4, <2>2
    <3>2. b[Len(c) + 1] = s[off + (Len(c) + 1)]
      BY <3>1
    <3>. QED  BY <1>1, <3>1, <3>2
  <2>. QED  BY <2>1, <2>2
<1>8. off \in Int /\ off + 1 >= 0 /\ BodyStart(s) = off + 1 + 1
  OBVIOUS
<1>9. Whole(p, s, "python")
  BY <1>1, <1>2, <1>3, <1>5, <1>6, <1>7, <1>8, PythonWhole
<1>. QED  BY <1>9 DEF p, c

(* sft: the function at the start of a code block. *)
LEMMA SftProgram ==
    ASSUME NEW s \in Seq(Pieces), Fenced(s), Block(s) # <<>>, Block(s)[1] = "sig", BodyAlone(Block(s), 2)
    PROVE  Whole(ProcessHumanevalTest(CleanupCode(s, "python", TRUE), "python"), s, "python")
<1> DEFINE b == Block(s)
           f == Fence(s)
           k == FirstAt(b, 1, {"sig"})
<1>1. b = WithoutMain(Block(s), "python")
  BY PythonKeepsBlock
<1>2. /\ f \in 1 .. Len(s) /\ b \in Seq(Pieces)
      /\ f + Len(b) + 1 <= Len(s) /\ s[f + Len(b) + 1] \notin Lines
      /\ \A j \in 1 .. Len(b) : b[j] = s[f + j]
      /\ Contains(b, "sig") => k \in 1 .. Len(b) /\ b[k] = "sig" /\ BodyStart(s) = f + k + 1
  BY <1>1, FencedBlock
<1>3. CleanupCode(s, "python", TRUE) = CutAt(b, 2, PythonStops)
  <2>1. f <= Len(s)
    BY <1>2
  <2>. QED  BY <2>1 DEF CleanupCode, CleanPythonCodeForSft, Block
<1>4. b # <<>> /\ b[1] = "sig" /\ BodyAlone(b, 2)
  OBVIOUS
<1> HIDE DEF b, f
<1>5. Len(b) \in Nat /\ Len(b) >= 1 /\ Len(s) \in Nat /\ f \in Nat
  <2>1. Len(b) \in Nat /\ Len(b) >= 1 /\ Len(s) \in Nat
    BY <1>2, <1>4, EmptySeq
  <2>. QED  BY <1>2, <2>1
<1>6. k = 1
  <2>1. 1 \in 1 .. Len(b) + 1 /\ \A i \in 1 .. Len(b) : i < 1 => b[i] \notin {"sig"}
    BY <1>5
  <2>2. b[1] \in {"sig"}
    BY <1>4
  <2>. QED  BY <1>2, <2>1, <2>2, FirstIsUnique
<1>7. Contains(b, "sig")
  BY <1>2, <1>4, <1>5 DEF Contains
<1> HIDE DEF k
<1>8. BodyStart(s) = f + 1 + 1 /\ f + Len(b) <= Len(s)
  BY <1>2, <1>5, <1>6, <1>7
<1>. QED  BY <1>2, <1>3, <1>4, <1>5, <1>8, CutProgram

(* A block in which something stands before the function is cut before it. *)
LEMMA SftCut ==
    ASSUME NEW s \in Seq(Pieces), Fenced(s), Contains(Block(s), "sig"), Block(s)[1] # "sig"
    PROVE  Occurrences(ProcessHumanevalTest(CleanupCode(s, "python", TRUE), "python"), "sig") # 1
<1> DEFINE b == Block(s)
           q == FirstAt(b, 2, PythonStops)
           c == SubSeq(b, 1, q - 1)
           X == <<"imports">>
           T == <<"tests">>
           p == (X \o c) \o T
<1>1. b = WithoutMain(Block(s), "python")
  BY PythonKeepsBlock
<1>2. /\ Fence(s) \in 1 .. Len(s) /\ b \in Seq(Pieces)
      /\ Contains(b, "sig") => FirstAt(b, 1, {"sig"}) \in 1 .. Len(b)
  BY <1>1, FencedBlock
<1>3. CleanupCode(s, "python", TRUE) = c
  <2>1. Fence(s) <= Len(s)
    BY <1>2
  <2>. QED  BY <2>1 DEF CleanupCode, CleanPythonCodeForSft, Block, CutAt
<1>4. b[1] # "sig" /\ Len(b) \in Nat /\ Len(b) >= 1
  BY <1>2
<1> HIDE DEF b
<1>5. /\ q \in 2 .. Len(b) + 1
      /\ \A i \in 2 .. Len(b) : i < q => b[i] \notin PythonStops
  <2>1. 2 \in 1 .. Len(b) + 1
    BY <1>4
  <2>. QED  BY <1>2, <2>1, FirstFrom
<1> HIDE DEF q
<1>6. c \in Seq(Pieces) /\ Len(c) = q - 1 /\ \A i \in 1 .. q - 1 : c[i] = b[i]
  <2>1. 1 \in 1 .. Len(b) + 1 /\ q - 1 \in 1 - 1 .. Len(b)
    BY <1>4, <1>5
  <2>2. /\ c \in Seq(Pieces) /\ Len(c) = (q - 1) - 1 + 1
        /\ \A i \in 1 .. (q - 1) - 1 + 1 : c[i] = b[1 + i - 1]
    BY <1>2, <2>1, PartOf
  <2> HIDE DEF c
  <2>. QED  BY <1>4, <1>5, <2>2
<1> HIDE DEF c
<1>7. "sig" \in PythonStops
  BY DEF PythonStops
<1>8. ASSUME NEW i \in 1 .. Len(c) PROVE c[i] # "sig"
  <2>1. c[i] = b[i] /\ i < q /\ (i = 1 \/ i \in 2 .. Len(b))
    BY <1>4, <1>5, <1>6
  <2>. QED  BY <1>4, <1>5, <1>7, <2>1
<1>9. ProcessHumanevalTest(c, "python") = p
  BY <1>6, PythonPrograms
<1>10. /\ X \in Seq(Pieces) /\ Len(X) = 1 /\ X[1] # "sig"
       /\ T \in Seq(Pieces) /\ Len(T) = 1 /\ T[1] # "sig"
  BY DEF Pieces
<1> HIDE DEF X, T
<1>11. /\ X \o c \in Seq(Pieces) /\ Len(X \o c) = 1 + Len(c)
       /\ \A i \in 1 .. 1 + Len(c) : (X \o c)[i] = IF i <= 1 THEN X[i] ELSE c[i - 1]
  <2>1. /\ X \o c \in Seq(Pieces) /\ Len(X \o c) = Len(X) + Len(c)
        /\ \A i \in 1 .. Len(X) + Len(c) : (X \o c)[i] = IF i <= Len(X) THEN X[i] ELSE c[i - Len(X)]
    BY <1>6, <1>10, ConcatProperties
  <2>. QED  BY <1>10, <2>1
<1> DEFINE H == X \o c
<1>12. \A i \in 1 .. Len(H) : H[i] # "sig"
  <2> SUFFICES ASSUME NEW i \in 1 .. 1 + Len(c) PROVE H[i] # "sig"
    BY <1>11
  <2>1. i = 1 \/ (~(i <= 1) /\ i - 1 \in 1 .. Len(c))
    BY <1>6
  <2>. QED  BY <1>8, <1>10, <1>11, <2>1
<1>13. H \in Seq(Pieces) /\ p = H \o T
  BY <1>11
<1> HIDE DEF H, p
<1>14. /\ p \in Seq(Pieces) /\ Len(p) = Len(H) + 1 /\ Len(H) \in Nat
       /\ \A i \in 1 .. Len(H) + 1 : p[i] = IF i <= Len(H) THEN H[i] ELSE T[i - Len(H)]
  <2>1. /\ H \o T \in Seq(Pieces) /\ Len(H \o T) = Len(H) + Len(T)
        /\ \A i \in 1 .. Len(H) + Len(T) : (H \o T)[i] = IF i <= Len(H) THEN H[i] ELSE T[i - Len(H)]
    BY <1>10, <1>13, ConcatProperties
  <2>. QED  BY <1>10, <1>13, <2>1
<1>15. \A i \in 1 .. Len(p) : p[i] # "sig"
  <2> SUFFICES ASSUME NEW i \in 1 .. Len(H) + 1 PROVE p[i] # "sig"
    BY <1>14
  <2>1. i \in 1 .. Len(H) \/ (~(i <= Len(H)) /\ i - Len(H) = 1)
    BY <1>14
  <2>. QED  BY <1>10, <1>12, <1>14, <2>1
<1>16. {i \in DOMAIN p : p[i] = "sig"} = {}
  BY <1>14, <1>15
<1>17. Occurrences(p, "sig") = 0
  BY <1>16, FS_EmptySet DEF Occurrences
<1> DEFINE code == CleanupCode(s, "python", TRUE)
<1>18. code = c
  BY <1>3
<1> HIDE DEF code
<1>19. Occurrences(ProcessHumanevalTest(code, "python"), "sig") = 0
  BY <1>9, <1>17, <1>18
<1>20. Occurrences(ProcessHumanevalTest(code, "python"), "sig") # 1
  BY <1>19
<1>. QED  BY <1>20 DEF code

(* mbpp: what the model wrote up to the stop word. *)
LEMMA MbppProgram ==
    ASSUME NEW s \in Seq(Pieces), PythonCode(CutAt(s, 1, {"[DONE]"}))
    PROVE  Whole(ProcessHumanevalTest(CutAt(s, 1, {"[DONE]"}), "python"), s, "python")
<1> DEFINE c == CutAt(s, 1, {"[DONE]"})
           q == FirstAt(s, 1, {"[DONE]"})
           k == FirstAt(c, 1, {"sig"})
           p == ProcessHumanevalTest(c, "python")
           X == <<"imports">>
<1>1. q \in 1 .. Len(s) + 1 /\ (q <= Len(s) => s[q] = "[DONE]") /\ Len(s) \in Nat
  BY FirstIsFirst
<1>2. c = SubSeq(s, 1, q - 1) /\ PythonCode(c)
  BY DEF CutAt
<1> HIDE DEF c, q
<1>3. c \in Seq(Pieces) /\ Len(c) = q - 1 /\ \A j \in 1 .. q - 1 : c[j] = s[j]
  <2>1. 1 \in 1 .. Len(s) + 1 /\ q - 1 \in 1 - 1 .. Len(s)
    BY <1>1
  <2>2. /\ c \in Seq(Pieces) /\ Len(c) = (q - 1) - 1 + 1
        /\ \A i \in 1 .. (q - 1) - 1 + 1 : c[i] = s[1 + i - 1]
    BY <1>2, <2>1, PartOf
  <2>. QED  BY <1>1, <2>2
<1>4. k \in 1 .. Len(c) /\ c[k] = "sig"
  BY <1>2, <1>3, PythonSplit
<1>5. \A i \in 1 .. Len(c) : i < k => c[i] \notin {"sig"}
  BY <1>3, FirstIsFirst
<1>6. FirstAt(s, 1, {"sig"}) = k
  <2> HIDE DEF k
  <2>1. k \in 1 .. Len(s) + 1 /\ k \in 1 .. q - 1
    BY <1>1, <1>3, <1>4
  <2>2. \A i \in 1 .. Len(s) : i < k => s[i] \notin {"sig"}
    <3>1. \A i \in 1 .. Len(s) : i < k => i \in 1 .. q - 1
      BY <1>1, <2>1
    <3>. QED  BY <1>3, <1>5, <3>1
  <2>3. s[k] \in {"sig"}
    BY <1>3, <1>4, <2>1
  <2>. QED  BY <2>1, <2>2, <2>3, FirstIsUnique
<1>7. s[1] # "loop"
  <2>1. 1 \in 1 .. q - 1 /\ 1 \in DOMAIN c
    <3> HIDE DEF k
    <3>1. 1 \in 1 .. q - 1 /\ Len(c) \in Nat /\ 1 <= Len(c)
      BY <1>1, <1>3, <1>4
    <3>. QED  BY <1>3, <3>1
  <2>2. c[1] \notin Lines
    <3>1. \A j \in DOMAIN c : c[j] \in Lines => j > 1
      BY <1>2 DEF PythonCode
    <3>. QED  BY <2>1, <3>1
  <2>. QED  BY <1>3, <2>1, <2>2 DEF Lines
<1>8. BodyStart(s) = 0 + k + 1
  <2>1. k \in Nat
    BY <1>3, <1>4
  <2> HIDE DEF k
  <2>2. BodyStart(s) = k + 1
    BY <1>6, <1>7 DEF BodyStart
  <2>. QED  BY <2>1, <2>2
<1>9. p = (X \o c) \o <<"tests">>
  BY <1>3, PythonPrograms
<1>10. X \in Seq(Fair \ {"sig"}) /\ Passes(<<>>, X, <<>>, "python")
  BY PythonHeads
<1> HIDE DEF p, X
<1>11. k = FirstAt(c, 1, {"sig"})
  OBVIOUS
<1> HIDE DEF k
<1>12. /\ 0 \in Int /\ 0 + k >= 0 /\ 0 + Len(c) <= Len(s)
       /\ 0 + Len(c) + 1 <= Len(s) => s[0 + Len(c) + 1] \notin Lines
  <2>1. 0 + Len(c) + 1 = q /\ 0 + Len(c) <= Len(s) /\ 0 + k >= 0
    BY <1>1, <1>3, <1>4
  <2>2. "[DONE]" \notin Lines
    BY DEF Lines
  <2>. QED  BY <1>1, <2>1, <2>2
<1>13. \A j \in k + 1 .. Len(c) : c[j] = s[0 + j]
  <2>1. \A j \in k + 1 .. Len(c) : j \in 1 .. q - 1 /\ 0 + j = j
    BY <1>1, <1>3, <1>4
  <2>. QED  BY <1>3, <2>1
<1>14. Whole(p, s, "python")
  BY <1>2, <1>3, <1>8, <1>9, <1>10, <1>11, <1>12, <1>13, PythonWhole
<1>. QED  BY <1>14 DEF p, c

(* mbpp_instruct: a code block. *)
LEMMA MbppInstructProgram ==
    ASSUME NEW s \in Seq(Pieces), Fenced(s), PythonCode(Block(s))
    PROVE  Whole(ProcessMbppTest(ConvertForEvaluation(s)), s, "python")
<1>1. ConvertForEvaluation(s) = Block(s)
  BY DEF ConvertForEvaluation, Fenced
<1>2. Block(s) \in Seq(Pieces)
  BY FencedBlock, PythonKeepsBlock
<1> DEFINE p == ProcessMbppTest(Block(s))
<1>3. p = (<<>> \o Block(s)) \o <<"tests">>
  BY <1>2, PythonPrograms
<1> HIDE DEF p
<1>4. Whole(p, s, "python")
  BY <1>3, PythonHeads, PythonBlock
<1>. QED  BY <1>1, <1>4 DEF p

(* leetcode: a code block, the body of the function, or the function. *)
LEMMA LeetcodeProgram ==
    ASSUME NEW s \in Seq(Pieces),
           IF Contains(s, "fence") THEN Fenced(s) /\ PythonCode(Block(s))
           ELSE s # <<>> /\ \/ s[1] = "loop" /\ PythonCode(<<"sig">> \o s)
                            \/ s[1] = "sig" /\ BodyAlone(s, 2)
    PROVE  Whole(ProcessHumanevalTest(ExtractPythonCode(s), "python"), s, "python")
<1> DEFINE X == <<"imports">>
<1>1. X \in Seq(Fair \ {"sig"}) /\ Passes(<<>>, X, <<>>, "python")
  BY PythonHeads
<1>2. \A c \in Seq(Pieces) : ProcessHumanevalTest(c, "python") = (X \o c) \o <<"tests">>
  BY PythonPrograms
<1> HIDE DEF X
<1>3. CASE Contains(s, "fence")
  <2>1. /\ Fence(s) \in 1 .. Len(s) /\ Block(s) \in Seq(Pieces) /\ s[1] # "loop"
    BY <1>3, FencedBlock, PythonKeepsBlock
  <2>2. ExtractPythonCode(s) = Block(s)
    <3>1. ~(Fence(s) > Len(s)) /\ HasBlock(s)
      BY <1>3, <2>1 DEF Fenced
    <3>. QED  BY <2>1, <3>1 DEF ExtractPythonCode
  <2> DEFINE p == ProcessHumanevalTest(Block(s), "python")
  <2>3. p = (X \o Block(s)) \o <<"tests">>
    BY <1>2, <2>1
  <2> HIDE DEF p
  <2>4. Whole(p, s, "python")
    BY <1>1, <1>3, <2>3, PythonBlock
  <2>. QED  BY <2>2, <2>4 DEF p
<1>4. CASE ~Contains(s, "fence") /\ s[1] = "sig" /\ BodyAlone(s, 2)
  <2>1. s # <<>> /\ s[1] = "sig" /\ BodyAlone(s, 2) /\ s[1] # "loop"
    BY <1>4
  <2>2. Len(s) \in Nat /\ Len(s) >= 1
    BY <2>1, EmptySeq
  <2>3. Fence(s) > Len(s)
    <3>1. Fence(s) \in 1 .. Len(s) + 1 /\ (Fence(s) <= Len(s) => s[Fence(s)] = "fence")
      BY FirstIsFirst DEF Fence
    <3>2. \A i \in 1 .. Len(s) : s[i] # "fence"
      BY <1>4 DEF Contains
    <3>. QED  BY <2>2, <3>1, <3>2
  <2>4. ExtractPythonCode(s) = CutAt(s, 2, PythonStops)
    BY <2>1, <2>3 DEF ExtractPythonCode
  <2>5. FirstAt(s, 1, {"sig"}) = 1
    <3>1. 1 \in 1 .. Len(s) + 1 /\ (\A i \in 1 .. Len(s) : i < 1 => s[i] \notin {"sig"}) /\ s[1] \in {"sig"}
      BY <2>1, <2>2
    <3>. QED  BY <3>1, FirstIsUnique
  <2>6. 0 \in Nat /\ BodyStart(s) = 0 + 1 + 1
    BY <2>1, <2>5 DEF BodyStart
  <2>7. /\ \A j \in 1 .. Len(s) : s[j] = s[0 + j]
        /\ 0 + Len(s) <= Len(s) /\ ~(0 + Len(s) + 1 <= Len(s))
    BY <2>2
  <2>8. Whole(ProcessHumanevalTest(CutAt(s, 2, PythonStops), "python"), s, "python")
    BY <2>1, <2>6, <2>7, CutProgram
  <2>. QED  BY <2>4, <2>8
<1>5. CASE ~Contains(s, "fence") /\ s # <<>> /\ s[1] = "loop" /\ PythonCode(<<"sig">> \o s)
  <2> DEFINE sig == <<"sig">>
             c   == sig \o s
             p   == ProcessHumanevalTest(c, "python")
             k   == FirstAt(c, 1, {"sig"})
  <2>1. sig \in Seq(Pieces) /\ Len(sig) = 1 /\ sig[1] = "sig" /\ PythonCode(c)
    BY <1>5 DEF Pieces
  <2>2. ExtractPythonCode(s) = c
    BY <1>5 DEF ExtractPythonCode
  <2>3. Len(s) \in Nat /\ Len(s) >= 1
    BY <1>5, EmptySeq
  <2> HIDE DEF sig
  <2>4. c \in Seq(Pieces) /\ Len(c) = Len(s) + 1 /\ c[1] = "sig" /\ \A j \in 2 .. Len(c) : c[j] = s[j - 1]
    <3>1. /\ c \in Seq(Pieces) /\ Len(c) = Len(sig) + Len(s)
          /\ \A j \in 1 .. Len(sig) + Len(s) : c[j] = IF j <= Len(sig) THEN sig[j] ELSE s[j - Len(sig)]
      BY <2>1, ConcatProperties
    <3> HIDE DEF c
    <3>2. Len(c) = Len(s) + 1 /\ \A j \in 1 .. Len(s) + 1 : c[j] = IF j <= 1 THEN sig[j] ELSE s[j - 1]
      BY <2>1, <2>3, <3>1
    <3>3. c[1] = "sig"
      BY <2>1, <2>3, <3>2
    <3>4. \A j \in 2 .. Len(c) : c[j] = s[j - 1]
      BY <2>3, <3>2
    <3>. QED  BY <3>1, <3>2, <3>3, <3>4
  <2> HIDE DEF c
  <2>5. k = 1
    <3>1. 1 \in 1 .. Len(c) + 1 /\ (\A i \in 1 .. Len(c) : i < 1 => c[i] \notin {"sig"}) /\ c[1] \in {"sig"}
      BY <2>3, <2>4
    <3>. QED  BY <2>4, <3>1, FirstIsUnique
  <2>6. p = (X \o c) \o <<"tests">>
    BY <1>2, <2>4
  <2> HIDE DEF p
  <2>7. BodyStart(s) = -1 + 1 + 1 /\ -1 \in Int /\ -1 + 1 >= 0 /\ -1 + Len(c) <= Len(s)
        /\ ~(-1 + Len(c) + 1 <= Len(s))
    <3>1. BodyStart(s) = 1
      BY <1>5 DEF BodyStart
    <3>. QED  BY <2>3, <2>4, <3>1
  <2>8. \A j \in 1 + 1 .. Len(c) : c[j] = s[-1 + j]
    <3>1. \A j \in 1 + 1 .. Len(c) : j \in 2 .. Len(c) /\ -1 + j = j - 1
      BY <2>3, <2>4
    <3>. QED  BY <2>4, <3>1
  <2>9. Whole(p, s, "python")
    <3>1. 1 = FirstAt(c, 1, {"sig"})
      BY <2>5
    <3>. QED  BY <1>1, <2>1, <2>4, <2>6, <2>7, <2>8, <3>1, PythonWhole
  <2>. QED  BY <2>2, <2>9 DEF p
<1>. QED  BY <1>3, <1>4, <1>5

-----------------------------------------------------------------------------
(* instruct: the function of a code block and the functions behind it *)

(* A program has as many other functions as the code it has at some place, if there are
   none around it. *)
LEMMA SameOccurrences ==
    ASSUME NEW p \in Seq(Pieces), NEW c \in Seq(Pieces), NEW x, NEW a \in Nat, NEW m \in 0 .. Len(c),
           a + m <= Len(p),
           \A i \in 1 .. m : p[a + i] = c[i],
           \A i \in 1 .. a : p[i] # x,
           \A i \in a + m + 1 .. Len(p) : p[i] # x,
           \A i \in m + 1 .. Len(c) : c[i] # x
    PROVE  Occurrences(p, x) = Occurrences(c, x)
<1> DEFINE S == {i \in DOMAIN c : c[i] = x}
           T == {i \in DOMAIN p : p[i] = x}
           F == [i \in S |-> a + i]
<1>1. Len(p) \in Nat /\ Len(c) \in Nat /\ DOMAIN p = 1 .. Len(p) /\ DOMAIN c = 1 .. Len(c) /\ m \in Nat /\ m <= Len(c)
  OBVIOUS
<1>2. S \in SUBSET (1 .. Len(c)) /\ IsFiniteSet(S)
  <2>1. S \in SUBSET (1 .. Len(c)) /\ IsFiniteSet(1 .. Len(c))
    BY <1>1, FS_Interval
  <2>. QED  BY <2>1, FS_Subset
<1>3. \A i \in S : i \in 1 .. m /\ a + i \in T
  <2> SUFFICES ASSUME NEW i \in S PROVE i \in 1 .. m /\ a + i \in T
    OBVIOUS
  <2>1. i \in 1 .. Len(c) /\ c[i] = x
    BY <1>1
  <2>2. i \in 1 .. m
    <3>1. i \notin m + 1 .. Len(c)
      BY <2>1
    <3>. QED  BY <1>1, <2>1, <3>1
  <2>3. a + i \in 1 .. Len(p) /\ p[a + i] = x
    BY <1>1, <2>1, <2>2
  <2>. QED  BY <1>1, <2>2, <2>3
<1>4. \A j \in T : j - a \in S /\ a + (j - a) = j
  <2> SUFFICES ASSUME NEW j \in T PROVE j - a \in S /\ a + (j - a) = j
    OBVIOUS
  <2>1. j \in 1 .. Len(p) /\ p[j] = x
    BY <1>1
  <2>2. j \notin 1 .. a /\ j \notin a + m + 1 .. Len(p)
    BY <2>1
  <2>3. j \in Int /\ j > a /\ j <= a + m
    BY <1>1, <2>1, <2>2
  <2>4. j - a \in 1 .. m /\ j - a \in 1 .. Len(c) /\ a + (j - a) = j
    BY <1>1, <2>3
  <2>5. c[j - a] = x
    BY <2>1, <2>4
  <2>. QED  BY <1>1, <2>4, <2>5
<1>5. F \in [S -> T] /\ \A i \in S : F[i] = a + i
  BY <1>3
<1>6. \A i \in S : i \in Int
  BY <1>3
<1> HIDE DEF S, T, F
<1>7. F \in Injection(S, T)
  <2>1. \A i, j \in S : a + i = a + j => i = j
    BY <1>6
  <2>. QED  BY <1>5, <2>1 DEF Injection, IsInjective
<1>8. F \in Surjection(S, T)
  <2>1. \A j \in T : \E i \in S : F[i] = j
    BY <1>4, <1>5
  <2>. QED  BY <1>5, <2>1 DEF Surjection
<1>9. ExistsBijection(S, T)
  BY <1>7, <1>8 DEF ExistsBijection, Bijection
<1>10. Cardinality(T) = Cardinality(S)
  BY <1>2, <1>9, FS_Bijection
<1>. QED  BY <1>10 DEF Occurrences, S, T

(* Where the pieces of two texts are in the text of both. *)
LEMMA Joined ==
    ASSUME NEW u \in Seq(Pieces), NEW v \in Seq(Pieces), NEW w, w = u \o v
    PROVE  /\ w \in Seq(Pieces) /\ Len(w) = Len(u) + Len(v)
           /\ \A i \in 1 .. Len(u) : w[i] = u[i]
           /\ \A i \in 1 .. Len(v) : w[Len(u) + i] = v[i]
<1>1. Len(u) \in Nat /\ Len(v) \in Nat
  OBVIOUS
<1>2. /\ w \in Seq(Pieces) /\ Len(w) = Len(u) + Len(v)
      /\ \A i \in 1 .. Len(u) + Len(v) : w[i] = IF i <= Len(u) THEN u[i] ELSE v[i - Len(u)]
  BY ConcatProperties
<1>3. \A i \in 1 .. Len(u) : w[i] = u[i]
  BY <1>1, <1>2
<1>4. ASSUME NEW i \in 1 .. Len(v) PROVE w[Len(u) + i] = v[i]
  <2>1. Len(u) + i \in 1 .. Len(u) + Len(v) /\ ~(Len(u) + i <= Len(u)) /\ (Len(u) + i) - Len(u) = i
    BY <1>1
  <2>2. w[Len(u) + i] = v[(Len(u) + i) - Len(u)]
    BY <1>2, <2>1
  <2>. QED  BY <2>1, <2>2
<1>. QED  BY <1>2, <1>3, <1>4

(* The other functions of a program are those behind the signature in its code. *)
LEMMA HelpersKept ==
    ASSUME NEW lang \in Handled, NEW C \in Seq(Pieces), NEW B \in Seq(Pieces), B = C \o Closing(lang),
           NEW c \in Seq(Pieces), c[1] = "sig", Len(B) + 1 <= Len(c),
           \A j \in 1 .. Len(B) : B[j] = c[j + 1],
           \A j \in Len(B) + 2 .. Len(c) : c[j] # "hfn"
    PROVE  Occurrences(ProcessHumanevalTest(Prompt(lang) \o C, lang), "hfn") = Occurrences(c, "hfn")
<1> DEFINE A   == Leading(lang)
           sig == <<"sig">>
           T   == TestEnd(lang)
           a   == Len(A)
           b   == Len(B)
           G   == A \o sig
           H   == G \o B
           p   == ProcessHumanevalTest(Prompt(lang) \o C, lang)
<1>1. p = H \o T /\ H = G \o B /\ G = A \o sig
  BY Assembled
<1>2. A \in Seq(Pieces) /\ \A j \in 1 .. a : A[j] # "hfn"
  <2>1. Fair \ {"sig"} \subseteq Pieces
    BY DEF Fair
  <2>2. A \in Seq(Fair \ {"sig"}) /\ \A j \in 1 .. a : A[j] \in {"imports", "class", "php", "pre"}
    BY LeadingIsFair
  <2>. QED  BY <2>1, <2>2, SeqMonotonic
<1>3. sig \in Seq(Pieces) /\ Len(sig) = 1 /\ sig[1] = "sig"
  BY DEF Pieces
<1>4. T \in Seq(Pieces) /\ \A j \in 1 .. Len(T) : T[j] # "hfn"
  <2>1. T \in Seq(Pieces)
    BY TestEndCloses
  <2>2. \A j \in 1 .. Len(T) : T[j] \in {"tests", "classend"}
    BY DEF TestEnd
  <2>. QED  BY <2>1, <2>2
<1> HIDE DEF A, sig, T, p, G, H
<1>5. /\ G \in Seq(Pieces) /\ Len(G) = a + 1
      /\ \A i \in 1 .. a : G[i] = A[i]
      /\ G[a + 1] = "sig"
  <2>1. /\ G \in Seq(Pieces) /\ Len(G) = Len(A) + Len(sig)
        /\ \A i \in 1 .. Len(A) : G[i] = A[i]
        /\ \A i \in 1 .. Len(sig) : G[Len(A) + i] = sig[i]
    <3>1. A \in Seq(Pieces) /\ sig \in Seq(Pieces) /\ G = A \o sig
      BY <1>1, <1>2, <1>3
    <3>. QED  BY <3>1, Joined
  <2>2. 1 \in 1 .. Len(sig)
    BY <1>3
  <2>. QED  BY <1>3, <2>1, <2>2
<1>6. a \in Nat /\ b \in Nat /\ Len(c) \in Nat /\ Len(T) \in Nat
  BY <1>2, <1>4
<1>7. /\ H \in Seq(Pieces) /\ Len(H) = a + 1 + b
      /\ \A i \in 1 .. a + 1 : H[i] = G[i]
      /\ \A i \in 1 .. b : H[a + 1 + i] = B[i]
  <2>1. /\ H \in Seq(Pieces) /\ Len(H) = Len(G) + Len(B)
        /\ \A i \in 1 .. Len(G) : H[i] = G[i]
        /\ \A i \in 1 .. Len(B) : H[Len(G) + i] = B[i]
    <3>1. G \in Seq(Pieces) /\ H = G \o B
      BY <1>1, <1>5
    <3>. QED  BY <3>1, Joined
  <2>. QED  BY <1>5, <2>1
<1>8. /\ p \in Seq(Pieces) /\ Len(p) = a + 1 + b + Len(T)
      /\ \A i \in 1 .. a + 1 + b : p[i] = H[i]
      /\ \A i \in 1 .. Len(T) : p[a + 1 + b + i] = T[i]
  <2>1. /\ p \in Seq(Pieces) /\ Len(p) = Len(H) + Len(T)
        /\ \A i \in 1 .. Len(H) : p[i] = H[i]
        /\ \A i \in 1 .. Len(T) : p[Len(H) + i] = T[i]
    BY <1>1, <1>4, <1>7, Joined
  <2>. QED  BY <1>7, <2>1
<1> DEFINE m == b + 1
<1>9. m \in 0 .. Len(c) /\ a + m <= Len(p) /\ m + 1 = b + 2
  <2>1. b + 1 <= Len(c)
    OBVIOUS
  <2> HIDE DEF b
  <2>. QED  BY <1>6, <1>8, <2>1
<1>10. \A i \in 1 .. m : p[a + i] = c[i]
  <2> SUFFICES ASSUME NEW i \in 1 .. m PROVE p[a + i] = c[i]
    OBVIOUS
  <2>1. \A j \in 1 .. b : B[j] = c[j + 1]
    OBVIOUS
  <2> HIDE DEF b
  <2>2. CASE i = 1
    <3>1. a + 1 \in 1 .. a + 1 + b /\ a + 1 \in 1 .. a + 1
      BY <1>6
    <3>. QED  BY <1>5, <1>7, <1>8, <2>2, <3>1
  <2>3. CASE i # 1
    <3>1. i - 1 \in 1 .. b /\ a + i = a + 1 + (i - 1) /\ a + i \in 1 .. a + 1 + b /\ (i - 1) + 1 = i
      BY <1>6, <2>3
    <3>2. p[a + i] = H[a + i] /\ H[a + 1 + (i - 1)] = B[i - 1]
      BY <1>7, <1>8, <3>1
    <3>3. B[i - 1] = c[(i - 1) + 1]
      BY <2>1, <3>1
    <3>. QED  BY <3>1, <3>2, <3>3
  <2>. QED  BY <2>2, <2>3
<1>11. \A i \in 1 .. a : p[i] # "hfn"
  <2> HIDE DEF b
  <2>1. \A i \in 1 .. a : i \in 1 .. a + 1 /\ i \in 1 .. a + 1 + b
    BY <1>6
  <2>2. \A i \in 1 .. a : p[i] = A[i]
    BY <1>5, <1>7, <1>8, <2>1
  <2>. QED  BY <1>2, <2>2
<1>12. \A i \in a + m + 1 .. Len(p) : p[i] # "hfn"
  <2> HIDE DEF b
  <2> SUFFICES ASSUME NEW i \in a + m + 1 .. Len(p) PROVE p[i] # "hfn"
    OBVIOUS
  <2>1. i - (a + 1 + b) \in 1 .. Len(T) /\ a + 1 + b + (i - (a + 1 + b)) = i
    BY <1>6, <1>8
  <2>2. p[a + 1 + b + (i - (a + 1 + b))] = T[i - (a + 1 + b)]
    BY <1>8, <2>1
  <2>3. T[i - (a + 1 + b)] # "hfn"
    BY <1>4, <2>1
  <2>. QED  BY <2>1, <2>2, <2>3
<1>13. \A i \in m + 1 .. Len(c) : c[i] # "hfn"
  <2>1. \A i \in b + 2 .. Len(c) : c[i] # "hfn"
    OBVIOUS
  <2>. QED  BY <1>9, <2>1
<1> HIDE DEF m
<1>14. Occurrences(p, "hfn") = Occurrences(c, "hfn")
  BY <1>6, <1>8, <1>9, <1>10, <1>11, <1>12, <1>13, SameOccurrences
<1>. QED  BY <1>14 DEF p

(* The function's closing line, and the last one, behind which no function begins. *)
LEMMA BracedEnds ==
    ASSUME NEW c \in Seq(Pieces), c # <<>>, BracedCode(c), NEW e, e = BodyEnd(c, 2)
    PROVE  /\ e \in 2 .. Len(c) /\ c[e] = "end" /\ \A j \in 2 .. e - 1 : c[j] \in Lines
           /\ \A m \in 1 .. Len(c) : (\A j \in 1 .. Len(c) : j > m => c[j] # "end")
                => \A j \in m + 1 .. Len(c) : c[j] # "hfn"
<1> DEFINE n == Len(c)
<1>1. n \in Nat /\ n >= 1
  BY EmptySeq
<1>2. /\ c[1] = "sig" /\ c[n] \in {"end", "use", "classend"}
      /\ \A j \in 2 .. n : /\ c[j] \in IF c[j - 1] \in Lines \union {"sig", "hfn"} THEN Lines \union {"end"}
                                       ELSE {"hfn", "use", "classend"}
                           /\ c[j] = "classend" => j = n
  BY DEF BracedCode
<1>3. Lines \intersect {"sig", "hfn", "end", "use", "classend"} = {}
  BY DEF Lines
<1>4. n \in 2 .. n
  <2> HIDE DEF n
  <2>1. n # 1
    BY <1>2
  <2>. QED  BY <1>1, <2>1
\* The lines behind a function's head end with its closing line.
<1>5. ASSUME NEW h \in 1 .. n, c[h] \in {"sig", "hfn"}, NEW q, q = BodyEnd(c, h + 1)
      PROVE  q \in h + 1 .. n /\ c[q] = "end" /\ \A j \in h + 1 .. q - 1 : c[j] \in Lines
  <2>1. h # n /\ h + 1 \in 1 .. n + 1 /\ n \in h + 1 .. n
    <3>1. h # n
      BY <1>2, <1>5
    <3>. QED  BY <1>1, <3>1
  <2>2. /\ q \in h + 1 .. n + 1
        /\ \A i \in h + 1 .. n : i < q => c[i] \notin Pieces \ Lines
        /\ q <= n => c[q] \in Pieces \ Lines
    BY <1>5, <2>1, FirstFrom DEF BodyEnd
  <2>3. \A i \in h + 1 .. n : i < q => c[i] \in Lines
    <3>1. \A i \in h + 1 .. n : c[i] \in Pieces
      BY <1>1
    <3>. QED  BY <2>2, <3>1
  <2>4. q <= n
    <3>1. ~(n < q)
      BY <1>2, <1>3, <2>1, <2>3
    <3>. QED  BY <1>1, <2>2, <3>1
  <2>5. c[q - 1] \in Lines \union {"sig", "hfn"} /\ q \in 2 .. n
    <3>1. CASE q = h + 1
      BY <1>1, <1>5, <2>1, <2>4, <3>1
    <3>2. CASE q # h + 1
      <4>1. q - 1 \in h + 1 .. n /\ q - 1 < q /\ q \in 2 .. n
        BY <1>1, <2>2, <2>4, <3>2
      <4>. QED  BY <2>3, <4>1
    <3>. QED  BY <3>1, <3>2
  <2>6. c[q] \in Lines \union {"end"}
    BY <1>2, <2>5
  <2>7. c[q] = "end"
    BY <2>2, <2>4, <2>6
  <2>8. \A j \in h + 1 .. q - 1 : j \in h + 1 .. n /\ j < q
    BY <1>1, <2>2, <2>4
  <2>. QED  BY <2>2, <2>3, <2>4, <2>7, <2>8
<1>6. e \in 2 .. n /\ c[e] = "end" /\ \A j \in 2 .. e - 1 : c[j] \in Lines
  <2>1. 1 \in 1 .. n /\ c[1] \in {"sig", "hfn"} /\ e = BodyEnd(c, 1 + 1)
    BY <1>1, <1>2
  <2>. QED  BY <1>5, <2>1
<1>7. ASSUME NEW m \in 1 .. n, \A j \in 1 .. n : j > m => c[j] # "end",
             NEW j \in m + 1 .. n, c[j] = "hfn"
      PROVE  FALSE
  <2> DEFINE q == BodyEnd(c, j + 1)
  <2>1. j \in 1 .. n
    BY <1>1
  <2>2. q \in j + 1 .. n /\ c[q] = "end"
    BY <1>5, <1>7, <2>1
  <2> HIDE DEF q
  <2>3. q \in 1 .. n /\ q > m
    BY <1>1, <2>1, <2>2
  <2>. QED  BY <1>7, <2>2, <2>3
<1>. QED  BY <1>6, <1>7

(* The head of a prompt, the signature, a body and what is added to it. *)
LEMMA PromptKept ==
    ASSUME NEW lang, NEW D \in Seq(Pieces)
    PROVE  LET add == IF lang \in AddsEnd THEN <<"end">> ELSE <<>>
           IN  (Front(Prompt(lang)) \o (<<"sig">> \o D)) \o add = Prompt(lang) \o (D \o add)
<1> DEFINE add == IF lang \in AddsEnd THEN <<"end">> ELSE <<>>
           F   == Front(Prompt(lang))
           sig == <<"sig">>
           P   == Prompt(lang)
<1>1. P = F \o sig /\ F \in Seq(Pieces) /\ sig \in Seq(Pieces) /\ add \in Seq(Pieces)
  <2> DEFINE p == IF lang \in Classes THEN "class" ELSE IF lang = "php" THEN "php" ELSE "pre"
  <2>1. P = <<p, "sig">> /\ p \in {"class", "php", "pre"}
    BY DEF Prompt
  <2> HIDE DEF p
  <2>2. p \in Pieces /\ "sig" \in Pieces /\ "end" \in Pieces
    BY <2>1 DEF Pieces
  <2>3. F = <<p>> /\ <<p>> \in Seq(Pieces) /\ P = <<p>> \o sig
    BY <2>1, <2>2, TwoPieces
  <2>4. sig \in Seq(Pieces) /\ add \in Seq(Pieces)
    BY <2>2
  <2>. QED  BY <2>3, <2>4
<1> HIDE DEF F, sig, add, P
<1>2. (F \o (sig \o D)) \o add = (F \o sig) \o (D \o add)
  <2>1. F \in Seq(Pieces) /\ sig \in Seq(Pieces) /\ add \in Seq(Pieces) /\ D \in Seq(Pieces)
    BY <1>1
  <2>2. (F \o sig) \o D = F \o (sig \o D)
    BY <2>1, Regroup
  <2> DEFINE G == F \o sig
  <2>3. G \in Seq(Pieces)
    BY <2>1, ConcatProperties
  <2> HIDE DEF G
  <2>4. (G \o D) \o add = G \o (D \o add)
    BY <2>1, <2>3, Regroup
  <2>. QED  BY <2>2, <2>4 DEF G
<1>3. (F \o (sig \o D)) \o add = P \o (D \o add)
  BY <1>1, <1>2
<1>. QED  BY <1>3 DEF F, sig, add, P

(* What is taken of a code block: the function without its last closing line. *)
Extracted(s, lang, b, k, l, D) ==
    /\ ExtractGenerationCode(s, lang) = Prompt(lang) \o (D \o (IF lang \in AddsEnd THEN <<"end">> ELSE <<>>))
    /\ D \in Seq(Pieces) /\ Len(D) = l - 1 - k /\ \A j \in 1 .. l - 1 - k : D[j] = b[k + j]
    /\ SubSeq(b, k, l - 1) = <<"sig">> \o D

(* The block of an answer has its function and a line that ends it, or its own end. *)
LEMMA InstructExtract ==
    ASSUME NEW s \in Seq(Pieces), NEW lang, HasBlock(s),
           NEW b \in Seq(Pieces), b = WithoutMain(Block(s), lang),
           NEW k \in 1 .. Len(b), k = FirstAt(b, 1, {"sig"}), b[k] = "sig",
           NEW l \in k + 1 .. Len(b) + 1, l = EndOf(b)
    PROVE  Extracted(s, lang, b, k, l, SubSeq(b, k + 1, l - 1))
<1> DEFINE D   == SubSeq(b, k + 1, l - 1)
           add == IF lang \in AddsEnd THEN <<"end">> ELSE <<>>
           F   == Front(Prompt(lang))
           sig == <<"sig">>
           P   == Prompt(lang)
<1>1. Len(b) \in Nat /\ k \in Nat /\ l \in Nat /\ k + 1 <= l
  <2>1. Len(b) \in Nat
    OBVIOUS
  <2>. QED  BY <2>1
<1>2. SubSeq(b, k, l - 1) = sig \o D
  <2>1. k \in 1 .. Len(b) /\ l - 1 \in k .. Len(b)
    BY <1>1
  <2>2. SubSeq(b, k, l - 1) = <<b[k]>> \o SubSeq(b, k + 1, l - 1)
    BY <2>1, SubSeqRecursiveFirst
  <2>. QED  BY <2>2
<1>3. D \in Seq(Pieces) /\ Len(D) = l - 1 - k /\ \A j \in 1 .. l - 1 - k : D[j] = b[k + j]
  <2>1. k + 1 \in 1 .. Len(b) + 1 /\ l - 1 \in (k + 1) - 1 .. Len(b)
    BY <1>1
  <2>2. /\ D \in Seq(Pieces) /\ Len(D) = (l - 1) - (k + 1) + 1
        /\ \A i \in 1 .. (l - 1) - (k + 1) + 1 : D[i] = b[(k + 1) + i - 1]
    BY <2>1, PartOf
  <2> HIDE DEF D
  <2>3. (l - 1) - (k + 1) + 1 = l - 1 - k
    BY <1>1
  <2>4. ASSUME NEW j \in 1 .. l - 1 - k PROVE D[j] = b[k + j]
    <3>1. j \in 1 .. (l - 1) - (k + 1) + 1 /\ (k + 1) + j - 1 = k + j
      BY <1>1
    <3>2. D[j] = b[(k + 1) + j - 1]
      BY <2>2, <3>1
    <3>. QED  BY <3>1, <3>2
  <2>. QED  BY <2>2, <2>3, <2>4
<1>5. ExtractGenerationCode(s, lang) = (F \o (sig \o D)) \o add
  <2>1. Contains(b, "sig")
    <3>1. k \in DOMAIN b
      BY <1>1
    <3>. QED  BY <3>1 DEF Contains
  <2>2. ExtractGenerationCode(s, lang) = (F \o SubSeq(b, k, l - 1)) \o add
    BY <2>1 DEF ExtractGenerationCode
  <2>. QED  BY <1>2, <2>2
<1>6. (F \o (sig \o D)) \o add = P \o (D \o add)
  <2>1. D \in Seq(Pieces)
    BY <1>3
  <2> HIDE DEF D
  <2>. QED  BY <2>1, PromptKept
<1> HIDE DEF F, sig, add, P, D
<1>7. /\ ExtractGenerationCode(s, lang) = P \o (D \o add)
      /\ D \in Seq(Pieces) /\ Len(D) = l - 1 - k /\ \A j \in 1 .. l - 1 - k : D[j] = b[k + j]
      /\ SubSeq(b, k, l - 1) = sig \o D
  BY <1>2, <1>3, <1>5, <1>6
<1>. QED  BY <1>7 DEF add, P, sig, D, Extracted

(* An answer of the form eval_instruct.py asks for: its block from the fence at f on,   *)
(* without an entry point; of that the code from the function at k on, n pieces of it;  *)
(* and its test program.                                                                *)
Instructed(s, lang, f, b, k, c, n, p) ==
    /\ lang \in Handled /\ lang \in Settings
    /\ Fenced(s) /\ f = Fence(s)
    /\ b = WithoutMain(Block(s), lang) /\ Contains(b, "sig")
    /\ k = FirstAt(b, 1, {"sig"})
    /\ c = SubSeq(b, k, Len(b)) /\ n = Len(c)
    /\ lang = "python" => PythonCode(c) /\ ~Contains(b, "end")
    /\ lang # "python" => BracedCode(c)
    /\ p = ProcessHumanevalTest(ExtractGenerationCode(s, lang), lang)

(* instruct: the program is whole, has the body, and every other function of the code. *)
LEMMA InstructProgram ==
    ASSUME NEW lang, NEW s \in Seq(Pieces), NEW f, NEW b, NEW k, NEW c, NEW n, NEW p,
           Instructed(s, lang, f, b, k, c, n, p)
    PROVE  Whole(p, s, lang) /\ Occurrences(p, "hfn") = Occurrences(c, "hfn")
<1> DEFINE l   == EndOf(b)
           D   == SubSeq(b, k + 1, l - 1)
           add == IF lang \in AddsEnd THEN <<"end">> ELSE <<>>
<1>1. /\ f \in 1 .. Len(s) /\ b \in Seq(Pieces)
      /\ f + Len(b) + 1 <= Len(s) /\ s[f + Len(b) + 1] \notin Lines
      /\ \A j \in 1 .. Len(b) : b[j] = s[f + j]
      /\ k \in 1 .. Len(b) /\ b[k] = "sig" /\ BodyStart(s) = f + k + 1
  <2>1. /\ Fenced(s) /\ f = Fence(s) /\ b = WithoutMain(Block(s), lang)
        /\ Contains(b, "sig") /\ k = FirstAt(b, 1, {"sig"})
    BY DEF Instructed
  <2>2. /\ f \in 1 .. Len(s) /\ b \in Seq(Pieces)
        /\ f + Len(b) + 1 <= Len(s) /\ s[f + Len(b) + 1] \notin Lines
        /\ \A j \in 1 .. Len(b) : b[j] = s[f + j]
        /\ Contains(b, "sig") =>
             LET i == FirstAt(b, 1, {"sig"})
             IN  i \in 1 .. Len(b) /\ b[i] = "sig" /\ BodyStart(s) = f + i + 1
    BY <2>1, FencedBlock
  <2>. QED  BY <2>1, <2>2
<1>2. HasBlock(s) /\ lang \in Handled /\ lang \in Settings /\ k = FirstAt(b, 1, {"sig"})
  BY DEF Fenced, Instructed
<1>3. c = SubSeq(b, k, Len(b)) /\ (lang = "python" => PythonCode(c) /\ ~Contains(b, "end"))
      /\ (lang # "python" => BracedCode(c))
  BY DEF Instructed
<1>0. n = Len(c)
  BY DEF Instructed
<1>4. Len(b) \in Nat /\ Len(s) \in Nat /\ k \in Nat /\ k >= 1 /\ k <= Len(b) /\ f \in Nat /\ f >= 1
  <2>1. Len(b) \in Nat /\ Len(s) \in Nat
    BY <1>1
  <2>. QED  BY <1>1, <2>1
<1>5. /\ c \in Seq(Pieces) /\ n = Len(b) - k + 1 /\ n >= 1
      /\ \A j \in 1 .. n : c[j] = b[k + j - 1]
  <2>1. k \in 1 .. Len(b) + 1 /\ Len(b) \in k - 1 .. Len(b)
    BY <1>4
  <2>2. b \in Seq(Pieces) /\ c = SubSeq(b, k, Len(b))
    BY <1>1, <1>3
  <2>3. /\ c \in Seq(Pieces) /\ Len(c) = Len(b) - k + 1
        /\ \A j \in 1 .. Len(b) - k + 1 : c[j] = b[k + j - 1]
    <3>1. /\ SubSeq(b, k, Len(b)) \in Seq(Pieces) /\ Len(SubSeq(b, k, Len(b))) = Len(b) - k + 1
          /\ \A j \in 1 .. Len(b) - k + 1 : SubSeq(b, k, Len(b))[j] = b[k + j - 1]
      BY <2>1, <2>2, PartOf
    <3>. QED  BY <2>2, <3>1
  <2>4. Len(b) - k + 1 >= 1
    BY <1>4
  <2>5. n = Len(b) - k + 1
    BY <1>0, <2>3
  <2>6. \A j \in 1 .. n : c[j] = b[k + j - 1]
    BY <2>3, <2>5
  <2>. QED  BY <2>3, <2>4, <2>5, <2>6
<1>6. c[1] = "sig"
  <2>1. 1 \in 1 .. n /\ k + 1 - 1 = k
    BY <1>4, <1>5
  <2>2. c[1] = b[k + 1 - 1]
    BY <1>5, <2>1
  <2>. QED  BY <1>1, <2>1, <2>2
<1>p. p = ProcessHumanevalTest(ExtractGenerationCode(s, lang), lang)
  BY DEF Instructed
<1>7. ASSUME l \in k + 1 .. Len(b) + 1
      PROVE  /\ p = ProcessHumanevalTest(Prompt(lang) \o (D \o add), lang)
             /\ D \in Seq(Pieces) /\ Len(D) = l - 1 - k
             /\ \A j \in 1 .. l - 1 - k : D[j] = c[j + 1] /\ j + 1 \in 1 .. n
             /\ SubSeq(b, k, l - 1) = <<"sig">> \o D
  <2>1. /\ ExtractGenerationCode(s, lang) = Prompt(lang) \o (D \o add)
        /\ D \in Seq(Pieces) /\ Len(D) = l - 1 - k /\ \A j \in 1 .. l - 1 - k : D[j] = b[k + j]
        /\ SubSeq(b, k, l - 1) = <<"sig">> \o D
    <3>1. l = EndOf(b)
      OBVIOUS
    <3>2. b = WithoutMain(Block(s), lang)
      BY DEF Instructed
    <3> HIDE DEF l
    <3>3. /\ HasBlock(s) /\ b \in Seq(Pieces) /\ b = WithoutMain(Block(s), lang)
          /\ k \in 1 .. Len(b) /\ k = FirstAt(b, 1, {"sig"}) /\ b[k] = "sig"
          /\ l \in k + 1 .. Len(b) + 1 /\ l = EndOf(b)
      BY <1>1, <1>2, <1>7, <3>1, <3>2
    <3>4. Extracted(s, lang, b, k, l, SubSeq(b, k + 1, l - 1))
      BY <3>3, InstructExtract
    <3>. QED  BY <3>4 DEF Extracted
  <2> HIDE DEF D, l, add
  <2>2. ASSUME NEW j \in 1 .. l - 1 - k PROVE D[j] = c[j + 1] /\ j + 1 \in 1 .. n
    <3>1. j + 1 \in 1 .. n /\ k + (j + 1) - 1 = k + j
      BY <1>4, <1>5, <1>7
    <3>2. c[j + 1] = b[k + (j + 1) - 1]
      BY <1>5, <3>1
    <3>. QED  BY <2>1, <3>1, <3>2
  <2>. QED  BY <1>p, <2>1, <2>2
<1> HIDE DEF D
<1>8. CASE lang = "python"
  <2>1. l = Len(b) + 1
    BY <1>3, <1>8 DEF EndOf
  <2> HIDE DEF l
  <2>2. add = <<>> /\ l \in k + 1 .. Len(b) + 1 /\ l - 1 - k = n - 1 /\ l - 1 = Len(b)
    <3>1. add = <<>>
      BY <1>8 DEF AddsEnd
    <3>. QED  BY <1>4, <1>5, <2>1, <3>1
  <2>3. /\ p = ProcessHumanevalTest(Prompt(lang) \o (D \o add), lang)
        /\ D \in Seq(Pieces) /\ Len(D) = n - 1 /\ \A j \in 1 .. n - 1 : D[j] = c[j + 1]
        /\ c = <<"sig">> \o D
    BY <1>3, <1>7, <2>2
  <2>4. D \o add = D
    BY <2>2, <2>3, ConcatEmptySeq
  <2> DEFINE X == Leading("python")
  <2>5. p = (X \o c) \o <<"tests">>
    <3>1. p = ProcessHumanevalTest(Prompt("python") \o D, "python")
      BY <1>8, <2>3, <2>4
    <3>2. ProcessHumanevalTest(Prompt("python") \o D, "python") = (X \o (<<"sig">> \o D)) \o <<"tests">>
      BY <2>3, PythonPrograms
    <3>. QED  BY <2>3, <3>1, <3>2
  <2>6. X \in Seq(Fair \ {"sig"}) /\ Passes(<<>>, X, <<>>, "python")
    BY PythonHeads
  <2> HIDE DEF X
  <2> DEFINE off == f + k - 1
  <2>7. off \in Int /\ BodyStart(s) = off + 1 + 1 /\ off + 1 >= 0 /\ off + n = f + Len(b)
    <3>1. f + k - 1 \in Int /\ f + k + 1 = (f + k - 1) + 1 + 1 /\ (f + k - 1) + 1 >= 0
          /\ (f + k - 1) + n = f + Len(b)
      BY <1>4, <1>5
    <3>. QED  BY <1>1, <3>1
  <2>8. \A j \in 1 + 1 .. n : c[j] = s[off + j]
    <3> SUFFICES ASSUME NEW j \in 1 + 1 .. n PROVE c[j] = s[off + j]
      OBVIOUS
    <3>1. j \in 1 .. n /\ k + j - 1 \in 1 .. Len(b) /\ f + (k + j - 1) = off + j
      BY <1>4, <1>5
    <3>2. c[j] = b[k + j - 1] /\ b[k + j - 1] = s[f + (k + j - 1)]
      BY <1>1, <1>5, <3>1
    <3>. QED  BY <3>1, <3>2
  <2> HIDE DEF off
  <2>9. off + n <= Len(s) /\ s[off + n + 1] \notin Lines
    BY <1>1, <1>4, <2>7
  <2>10. 1 = FirstAt(c, 1, {"sig"})
    <3>1. 1 \in 1 .. Len(c) + 1 /\ (\A i \in 1 .. Len(c) : i < 1 => c[i] \notin {"sig"}) /\ c[1] \in {"sig"}
      BY <1>0, <1>5, <1>6
    <3>. QED  BY <1>5, <3>1, FirstIsUnique
  <2>11. Whole(p, s, "python")
    <3>1. PythonCode(c)
      BY <1>3, <1>8
    <3>. QED  BY <1>0, <1>5, <2>5, <2>6, <2>7, <2>8, <2>9, <2>10, <3>1, PythonWhole
  <2>12. Occurrences(p, "hfn") = Occurrences(c, "hfn")
    <3>1. D = D \o Closing(lang)
      <4>1. Closing(lang) = <<>>
        BY <1>8 DEF Closing, Closed, Classes
      <4>. QED  BY <2>3, <4>1, ConcatEmptySeq
    <3>2. p = ProcessHumanevalTest(Prompt(lang) \o D, lang)
      BY <2>3, <2>4
    <3>3. /\ Len(D) + 1 <= Len(c) /\ \A j \in 1 .. Len(D) : D[j] = c[j + 1]
          /\ \A j \in Len(D) + 2 .. Len(c) : c[j] # "hfn"
      <4>1. Len(D) = n - 1 /\ Len(c) = n /\ n \in Nat
        BY <1>0, <1>4, <1>5, <2>3
      <4>2. Len(D) + 1 <= Len(c) /\ Len(D) + 2 > Len(c)
        BY <4>1
      <4>3. \A j \in 1 .. Len(D) : D[j] = c[j + 1]
        BY <2>3, <4>1
      <4>4. \A j \in Len(D) + 2 .. Len(c) : FALSE
        <5>1. Len(D) + 2 \in Int /\ Len(c) \in Int
          BY <4>1
        <5>. QED  BY <4>2, <5>1
      <4>. QED  BY <4>2, <4>3, <4>4
    <3>4. lang \in Handled /\ c \in Seq(Pieces) /\ D \in Seq(Pieces)
      BY <1>2, <1>5, <2>3
    <3>5. /\ lang \in Handled /\ D \in Seq(Pieces) /\ D = D \o Closing(lang)
          /\ c \in Seq(Pieces) /\ c[1] = "sig" /\ Len(D) + 1 <= Len(c)
          /\ \A j \in 1 .. Len(D) : D[j] = c[j + 1]
          /\ \A j \in Len(D) + 2 .. Len(c) : c[j] # "hfn"
      BY <1>6, <3>1, <3>3, <3>4
    <3>6. Occurrences(ProcessHumanevalTest(Prompt(lang) \o D, lang), "hfn") = Occurrences(c, "hfn")
      BY <3>5, HelpersKept
    <3>. QED  BY <3>2, <3>6
  <2>. QED  BY <1>8, <2>11, <2>12
<1>9. CASE lang # "python"
  <2> DEFINE e == BodyEnd(c, 2)
             m == l - k + 1
  <2>1. BracedCode(c) /\ c # <<>>
    <3>1. c # <<>>
      <4>1. Len(c) >= 1
        BY <1>0, <1>5
      <4>2. Len(<<>>) = 0
        OBVIOUS
      <4>. QED  BY <4>1, <4>2
    <3>. QED  BY <1>3, <1>9, <3>1
  <2>2. /\ e \in 2 .. n /\ c[e] = "end" /\ \A j \in 2 .. e - 1 : c[j] \in Lines
        /\ \A q \in 1 .. n : (\A j \in 1 .. n : j > q => c[j] # "end")
             => \A j \in q + 1 .. n : c[j] # "hfn"
    <3>1. c \in Seq(Pieces) /\ c # <<>> /\ BracedCode(c) /\ e = BodyEnd(c, 2)
      BY <1>5, <2>1
    <3> HIDE DEF e
    <3>2. /\ e \in 2 .. Len(c) /\ c[e] = "end" /\ \A j \in 2 .. e - 1 : c[j] \in Lines
          /\ \A q \in 1 .. Len(c) : (\A j \in 1 .. Len(c) : j > q => c[j] # "end")
               => \A j \in q + 1 .. Len(c) : c[j] # "hfn"
      BY <3>1, BracedEnds
    <3>. QED  BY <1>0, <3>2
  <2> HIDE DEF e
  <2>3. k + e - 1 \in 1 .. Len(b) /\ b[k + e - 1] = "end"
    <3>1. k + e - 1 \in 1 .. Len(b) /\ e \in 1 .. n
      BY <1>4, <1>5, <2>2
    <3>. QED  BY <1>5, <2>2, <3>1
  <2>4. Contains(b, "end") /\ l = LastAt(b, {"end"})
    <3>1. Contains(b, "end")
      BY <1>1, <2>3 DEF Contains
    <3>. QED  BY <3>1 DEF EndOf
  <2>5. /\ l \in 1 .. Len(b) /\ b[l] = "end" /\ \A i \in 1 .. Len(b) : i > l => b[i] # "end"
    <3>1. b \in Seq(Pieces) /\ Contains(b, "end") /\ l = LastAt(b, {"end"})
      BY <1>1, <2>4
    <3> HIDE DEF l
    <3>2. /\ LastAt(b, {"end"}) \in 1 .. Len(b) /\ b[LastAt(b, {"end"})] = "end"
          /\ \A i \in 1 .. Len(b) : i > LastAt(b, {"end"}) => b[i] # "end"
      BY <3>1, LastIsLast
    <3>. QED  BY <3>1, <3>2
  <2> HIDE DEF l
  <2>6. l >= k + e - 1 /\ l \in k + 1 .. Len(b) + 1
    <3>1. ~(k + e - 1 > l)
      BY <2>3, <2>5
    <3>2. l >= k + e - 1
      BY <1>4, <2>2, <2>3, <2>5, <3>1
    <3>. QED  BY <1>4, <2>2, <2>5, <3>2
  <2>7. m \in e .. n /\ m - 1 = l - k /\ m - 2 = l - 1 - k /\ k + m - 1 = l
    BY <1>4, <1>5, <2>2, <2>5, <2>6
  <2> HIDE DEF m
  <2>8. c[m] = "end" /\ \A j \in 1 .. n : j > m => c[j] # "end"
    <3>1. m \in 1 .. n
      BY <1>5, <2>2, <2>7
    <3>2. c[m] = "end"
      BY <1>5, <2>5, <2>7, <3>1
    <3>3. ASSUME NEW j \in 1 .. n, j > m PROVE c[j] # "end"
      <4>1. k + j - 1 \in 1 .. Len(b) /\ k + j - 1 > l
        BY <1>4, <1>5, <2>5, <2>7, <3>1, <3>3
      <4>. QED  BY <1>5, <2>5, <4>1
    <3>. QED  BY <3>2, <3>3
  <2>9. \A j \in m + 1 .. n : c[j] # "hfn"
    <3>1. m \in 1 .. n
      BY <1>5, <2>2, <2>7
    <3>. QED  BY <2>2, <2>8, <3>1
  <2>10. /\ p = ProcessHumanevalTest(Prompt(lang) \o (D \o add), lang)
         /\ D \in Seq(Pieces) /\ Len(D) = m - 2
         /\ \A j \in 1 .. m - 2 : D[j] = c[j + 1] /\ j + 1 \in 1 .. n
    BY <1>7, <2>6, <2>7
  <2> DEFINE line == <<"end">>
             B    == D \o line
             C    == D \o add
  <2>11. line \in Seq(Pieces) /\ Len(line) = 1 /\ line[1] = "end"
    BY DEF Pieces
  <2>12. C \in Seq(Pieces) /\ B = C \o Closing(lang)
    <3>1. CASE lang \in Closed
      <4>1. add = <<>> /\ Closing(lang) = line
        BY <3>1 DEF AddsEnd, Closing, Closed, Classes
      <4>2. C = D
        BY <2>10, <4>1, ConcatEmptySeq
      <4>. QED  BY <2>10, <4>1, <4>2
    <3>2. CASE lang \notin Closed
      <4>1. lang \in AddsEnd
        BY <1>2, <1>9, <3>2 DEF AddsEnd, Closed, Classes, Settings
      <4>2. add = line /\ Closing(lang) = <<>>
        BY <3>2, <4>1 DEF Closing
      <4>3. C = B /\ C \in Seq(Pieces)
        BY <2>10, <2>11, <4>2, ConcatProperties
      <4>. QED  BY <4>2, <4>3, ConcatEmptySeq
    <3>. QED  BY <3>1, <3>2
  <2>13. p = ProcessHumanevalTest(Prompt(lang) \o C, lang)
    BY <2>10
  <2>14. B = D \o line
    OBVIOUS
  <2> HIDE DEF line, B, C, add
  <2>15. m \in Nat /\ m >= 2 /\ n \in Nat /\ e \in Nat /\ e >= 2 /\ e <= m /\ m <= n
    BY <1>4, <1>5, <2>2, <2>7
  <2>16. B \in Seq(Pieces) /\ Len(B) = m - 1 /\ \A j \in 1 .. m - 1 : B[j] = c[j + 1]
    <3>1. /\ B \in Seq(Pieces) /\ Len(B) = Len(D) + Len(line)
          /\ \A i \in 1 .. Len(D) : B[i] = D[i]
          /\ \A i \in 1 .. Len(line) : B[Len(D) + i] = line[i]
      <4>1. D \in Seq(Pieces) /\ line \in Seq(Pieces) /\ B = D \o line
        BY <2>10, <2>11, <2>14
      <4>. QED  BY <4>1, Joined
    <3>2. Len(B) = m - 1
      BY <2>10, <2>11, <2>15, <3>1
    <3>3. ASSUME NEW j \in 1 .. m - 1 PROVE B[j] = c[j + 1]
      <4>1. CASE j <= m - 2
        <5>1. j \in 1 .. m - 2
          BY <2>15, <4>1
        <5>. QED  BY <2>10, <3>1, <5>1
      <4>2. CASE j > m - 2
        <5>1. j = m - 1 /\ j + 1 = m /\ j = (m - 2) + 1
          BY <2>15, <4>2
        <5>2. B[Len(D) + 1] = line[1]
          BY <2>11, <3>1
        <5>3. B[j] = "end"
          BY <2>10, <2>11, <5>1, <5>2
        <5>. QED  BY <2>8, <5>1, <5>3
      <4>. QED  BY <2>15, <4>1, <4>2
    <3>. QED  BY <3>1, <3>2, <3>3
  <2>17. BodyClosed(B, e - 2)
    <3>1. e - 2 \in Nat /\ (e - 2) + 1 = e - 1 /\ (e - 2) + 1 <= Len(B) /\ e - 1 \in 1 .. m - 1 /\ (e - 1) + 1 = e
      <4>1. Len(B) = m - 1
        BY <2>16
      <4>2. e - 2 \in Nat /\ (e - 2) + 1 = e - 1 /\ e - 1 <= m - 1 /\ e - 1 \in 1 .. m - 1 /\ (e - 1) + 1 = e
        BY <2>15
      <4>. QED  BY <4>1, <4>2
    <3>2. /\ \A j \in 2 .. n : /\ c[j] \in IF c[j - 1] \in Lines \union {"sig", "hfn"} THEN Lines \union {"end"}
                                           ELSE {"hfn", "use", "classend"}
                               /\ c[j] = "classend" => j = n
      BY <1>0, <2>1 DEF BracedCode
    <3>3. \A j \in 1 .. m : c[j] # "classend"
      <4> SUFFICES ASSUME NEW j \in 1 .. m, c[j] = "classend" PROVE FALSE
        OBVIOUS
      <4>1. j # 1 /\ j # m
        BY <1>6, <2>8
      <4>2. j \in 2 .. n /\ j # n
        BY <2>15, <4>1
      <4>. QED  BY <3>2, <4>2
    <3>4. \A j \in 1 .. Len(B) : B[j] \in Lines \union {"hfn", "use", "end"}
      <4> SUFFICES ASSUME NEW j \in 1 .. Len(B) PROVE B[j] \in Lines \union {"hfn", "use", "end"}
        OBVIOUS
      <4>1. j \in 1 .. m - 1 /\ j + 1 \in 2 .. n /\ j + 1 \in 1 .. m
        BY <2>15, <2>16
      <4>2. c[j + 1] \in Lines \union {"hfn", "use", "end", "classend"}
        BY <3>2, <4>1
      <4>. QED  BY <2>16, <3>3, <4>1, <4>2
    <3>5. \A j \in 1 .. e - 2 : B[j] \in Lines
      <4>1. \A j \in 1 .. e - 2 : j \in 1 .. m - 1 /\ j + 1 \in 2 .. e - 1
        BY <2>15
      <4>. QED  BY <2>2, <2>16, <4>1
    <3>6. B[(e - 2) + 1] = "end"
      BY <2>2, <2>16, <3>1
    <3>7. ASSUME NEW j \in 2 .. Len(B)
          PROVE  B[j] \in IF B[j - 1] \in Lines \union {"hfn"} THEN Lines \union {"end"} ELSE {"hfn", "use"}
      <4>1. /\ j \in 1 .. m - 1 /\ j - 1 \in 1 .. m - 1 /\ j + 1 \in 2 .. n /\ j + 1 \in 1 .. m
            /\ (j - 1) + 1 = j /\ (j + 1) - 1 = j /\ j \in 2 .. n
        BY <2>15, <2>16
      <4>2. B[j] = c[j + 1] /\ B[j - 1] = c[j]
        BY <2>16, <4>1
      <4>3. c[j + 1] \in IF c[j] \in Lines \union {"sig", "hfn"} THEN Lines \union {"end"}
                         ELSE {"hfn", "use", "classend"}
        BY <3>2, <4>1
      <4>4. c[j] # "sig"
        <5>1. c[j] \in Lines \union {"end", "hfn", "use", "classend"}
          BY <3>2, <4>1
        <5>. QED  BY <5>1 DEF Lines
      <4>5. c[j + 1] # "classend"
        BY <3>3, <4>1
      <4>. QED  BY <4>2, <4>3, <4>4, <4>5
    <3>8. B[Len(B)] \in {"end", "use"}
      <4>1. m - 1 \in 1 .. m - 1 /\ (m - 1) + 1 = m
        BY <2>15
      <4>. QED  BY <2>8, <2>16, <4>1
    <3>. QED  BY <3>1, <3>4, <3>5, <3>6, <3>7, <3>8 DEF BodyClosed
  <2>18. BodyCopied(s, B, e - 2)
    <3>1. BodyStart(s) + (e - 2) = f + (k + e - 1)
      <4>1. (f + k + 1) + (e - 2) = f + (k + e - 1)
        BY <1>4, <2>15
      <4>. QED  BY <1>1, <4>1
    <3>2. s[f + (k + e - 1)] = "end"
      BY <1>1, <2>3
    <3>3. "end" \notin Lines
      BY DEF Lines
    <3>4. BodyStart(s) \in 1 .. Len(s) + 1 /\ f + (k + e - 1) <= Len(s) + 1
      <4>1. f + k + 1 \in 1 .. Len(s) + 1 /\ f + (k + e - 1) <= Len(s) + 1
        BY <1>1, <1>4, <2>3, <2>15
      <4>. QED  BY <1>1, <4>1
    <3>5. ASSUME NEW j \in 1 .. e - 2 PROVE B[j] = s[BodyStart(s) + j - 1]
      <4>1. j \in 1 .. m - 1 /\ j + 1 \in 1 .. n /\ k + (j + 1) - 1 = k + j /\ k + j \in 1 .. Len(b)
            /\ (f + k + 1) + j - 1 = f + (k + j)
        BY <1>4, <1>5, <2>15
      <4>2. B[j] = c[j + 1] /\ c[j + 1] = b[k + (j + 1) - 1] /\ b[k + j] = s[f + (k + j)]
        BY <1>1, <1>5, <2>16, <4>1
      <4>3. BodyStart(s) + j - 1 = f + (k + j)
        BY <1>1, <4>1
      <4>. QED  BY <4>1, <4>2, <4>3
    <3>. QED  BY <3>1, <3>2, <3>3, <3>4, <3>5 DEF BodyCopied
  <2>19. Whole(p, s, lang)
    <3>1. Whole(ProcessHumanevalTest(Prompt(lang) \o C, lang), s, lang)
      BY <1>2, <1>9, <2>12, <2>16, <2>17, <2>18, BracedWhole
    <3>. QED  BY <2>13, <3>1
  <2>20. Occurrences(p, "hfn") = Occurrences(c, "hfn")
    <3>1. /\ Len(B) + 1 <= Len(c) /\ \A j \in 1 .. Len(B) : B[j] = c[j + 1]
          /\ \A j \in Len(B) + 2 .. Len(c) : c[j] # "hfn"
      <4>1. Len(B) + 1 = m /\ Len(B) + 2 = m + 1 /\ m <= Len(c)
        <5>1. Len(c) = n
          BY <1>0
        <5>. QED  BY <2>15, <2>16, <5>1
      <4>2. Len(B) + 1 <= Len(c)
        BY <4>1
      <4>3. \A j \in 1 .. Len(B) : B[j] = c[j + 1]
        BY <2>16
      <4>4. \A j \in Len(B) + 2 .. Len(c) : c[j] # "hfn"
        BY <1>0, <2>9, <4>1
      <4>. QED  BY <4>2, <4>3, <4>4
    <3>2. lang \in Handled /\ c \in Seq(Pieces) /\ C \in Seq(Pieces) /\ B \in Seq(Pieces) /\ B = C \o Closing(lang)
      BY <1>2, <1>5, <2>12, <2>16
    <3>3. Occurrences(ProcessHumanevalTest(Prompt(lang) \o C, lang), "hfn") = Occurrences(c, "hfn")
      <4>1. /\ lang \in Handled /\ C \in Seq(Pieces) /\ B \in Seq(Pieces) /\ B = C \o Closing(lang)
            /\ c \in Seq(Pieces) /\ c[1] = "sig" /\ Len(B) + 1 <= Len(c)
            /\ \A j \in 1 .. Len(B) : B[j] = c[j + 1]
            /\ \A j \in Len(B) + 2 .. Len(c) : c[j] # "hfn"
        BY <1>6, <3>1, <3>2
      <4>. QED  BY <4>1, HelpersKept
    <3>. QED  BY <2>13, <3>3
  <2>. QED  BY <2>19, <2>20
<1>. QED  BY <1>8, <1>9

-----------------------------------------------------------------------------
(* The invariant of the programs *)

\* Texts consist of pieces; a script has the languages it can have; code and programs are
\* made of what was written.
Programs ==
    /\ \A i \in Rows : rows[i].text \in Seq(Pieces)
    /\ script \notin {"base", "sft", "instruct"} => language = "python"
    /\ (script = "instruct" /\ stage \in {"generate", "test", "judged"}) => language \in Settings
    /\ stage \in {"test", "judged"} => generation = [i \in Rows |-> Code(i)]
    /\ stage = "judged" =>
         /\ script # "mbpp_instruct" => language \in Handled
         /\ program = [i \in Rows |-> IF script = "mbpp_instruct" THEN ProcessMbppTest(generation[i])
                                      ELSE ProcessHumanevalTest(generation[i], language)]

LEMMA ProgramsInit == Init => Programs
<1> SUFFICES ASSUME Init PROVE Programs
  OBVIOUS
<1>1. PICK n \in 1 .. (IF script = "mbpp" THEN BatchSize ELSE 1) :
        rows \in [1 .. n -> [own : IF script = "mbpp" THEN OwnLengths ELSE {1},
                            text : Texts(script, language)]]
  BY DEF Init
<1>2. script \in Scripts /\ language \in Languages \union {"python"} /\ stage = "prompt"
      /\ (script \notin {"base", "sft", "instruct"} => language = "python")
  BY DEF Init
<1>3. Texts(script, language) \subseteq Seq(Pieces)
  BY <1>2, GenerationAssumption
<1>4. ASSUME NEW i \in Rows PROVE rows[i].text \in Seq(Pieces)
  <2>1. i \in 1 .. n
    BY <1>1 DEF Rows
  <2>2. rows[i] \in [own : IF script = "mbpp" THEN OwnLengths ELSE {1}, text : Texts(script, language)]
    BY <1>1, <2>1
  <2>3. rows[i].text \in Texts(script, language)
    BY <2>2
  <2>. QED  BY <1>3, <2>3
<1>. QED  BY <1>2, <1>4 DEF Programs

LEMMA CodeStays ==
    ASSUME UNCHANGED <<script, language, rows, fprompt, written>>
    PROVE  Rows' = Rows /\ \A i : Code(i)' = Code(i)
BY DEF Code, MbppCompletion, Written, Rows

LEMMA ProgramsNext == Programs /\ [Next]_vars => Programs'
<1> SUFFICES ASSUME Programs, [Next]_vars PROVE Programs'
  OBVIOUS
<1> DEFINE Made(g) == [i \in Rows |-> IF script = "mbpp_instruct" THEN ProcessMbppTest(g[i])
                                      ELSE ProcessHumanevalTest(g[i], language)]
<1>1. UNCHANGED <<script, language, rows>> /\ Rows' = Rows
  BY DEF Next, BuildPrompt, NoSettings, WritePiece, Extract, BuildTest, NoTestString, Over, vars, Rows
<1>2. (\A i \in Rows' : rows'[i].text \in Seq(Pieces)) /\ (script' \notin {"base", "sft", "instruct"} => language' = "python")
  BY <1>1 DEF Programs
<1>3. CASE BuildPrompt
  BY <1>1, <1>2, <1>3 DEF BuildPrompt, Programs
<1>4. CASE NoSettings \/ NoTestString
  BY <1>1, <1>2, <1>4 DEF NoSettings, NoTestString, Programs
<1>5. CASE WritePiece
  BY <1>1, <1>2, <1>5 DEF WritePiece, Programs
<1>6. CASE Extract
  <2>1. /\ UNCHANGED <<script, language, rows, fprompt, written>> /\ stage = "generate" /\ stage' = "test"
        /\ generation' = [i \in Rows |-> Code(i)]
    BY <1>6 DEF Extract
  <2>2. generation' = [i \in Rows' |-> Code(i)']
    BY <2>1, CodeStays
  <2>. QED  BY <1>1, <1>2, <2>1, <2>2 DEF Programs
<1>7. CASE BuildTest
  <2>1. /\ UNCHANGED <<script, language, rows, fprompt, written, generation>> /\ stage = "test" /\ stage' = "judged"
        /\ script = "mbpp_instruct" \/ language \in Handled
        /\ program' = Made(generation)
    BY <1>7 DEF BuildTest
  <2>2. generation' = [i \in Rows' |-> Code(i)']
    BY <2>1, CodeStays DEF Programs
  <2>3. Made(generation)' = Made(generation)
    BY <1>1, <2>1
  <2>. QED  BY <1>1, <1>2, <2>1, <2>2, <2>3 DEF Programs
<1>8. CASE Over \/ UNCHANGED vars
  <2>1. UNCHANGED <<script, language, rows, fprompt, written, generation, program, stage>>
    BY <1>8 DEF Over, vars
  <2>2. stage \in {"test", "judged"} => generation' = [i \in Rows' |-> Code(i)']
    BY <2>1, CodeStays DEF Programs
  <2>3. Made(generation)' = Made(generation)
    BY <1>1, <2>1
  <2>. QED  BY <1>1, <1>2, <2>1, <2>2, <2>3 DEF Programs
<1>. QED  BY <1>3, <1>4, <1>5, <1>6, <1>7, <1>8 DEF Next

-----------------------------------------------------------------------------
(* Every script *)

LEMMA WrittenOfPieces ==
    ASSUME IInv, Programs, NEW i \in Rows
    PROVE  Written(i) \in Seq(Pieces)
<1>1. rows[i].text \in Seq(Pieces) /\ Len(rows[i].text) \in Nat /\ written \in Nat
  BY DEF IInv, Completions, Programs
<1> DEFINE t == rows[i].text
           w == Min({written, Len(t)})
<1>2. w \in 0 .. Len(t)
  BY <1>1, MinOfTwo
<1>3. 1 \in 1 .. Len(t) + 1 /\ w \in 1 - 1 .. Len(t)
  BY <1>1, <1>2
<1> HIDE DEF t, w
<1>4. SubSeq(t, 1, w) \in Seq(Pieces)
  BY <1>1, <1>3, PartOf DEF t
<1>. QED  BY <1>4 DEF Written, t, w

(* What the program of a judged row is made of. *)
LEMMA ProgramOf ==
    ASSUME Programs, NEW i \in Judged
    PROVE  /\ i \in Rows /\ AsAsked(i) /\ generation[i] = Code(i)
           /\ script # "mbpp_instruct" =>
                language \in Handled /\ program[i] = ProcessHumanevalTest(Code(i), language)
           /\ script = "mbpp_instruct" => program[i] = ProcessMbppTest(Code(i))
           /\ script \notin {"base", "sft", "instruct"} => language = "python"
           /\ script = "instruct" => language \in Settings
<1>1. i \in Rows /\ AsAsked(i) /\ stage = "judged"
  BY DEF Judged
<1>2. generation[i] = Code(i)
  BY <1>1 DEF Programs
<1>3. program[i] = IF script = "mbpp_instruct" THEN ProcessMbppTest(generation[i])
                   ELSE ProcessHumanevalTest(generation[i], language)
  BY <1>1 DEF Programs
<1>. QED  BY <1>1, <1>2, <1>3 DEF Programs

(* What is left of a block without its entry point is what is ahead of it. *)
LEMMA AheadIsKept == \A s, lang : Ahead(s, lang) = WithoutMain(Block(s), lang)
BY DEF Ahead, WithoutMain

(* A signature at the start of a block is the first one. *)
LEMMA SigFirst ==
    ASSUME NEW s \in Seq(Pieces), Fenced(s), Contains(Block(s), "sig"), Block(s)[1] = "sig",
           BodyAlone(Block(s), FirstAt(Block(s), 1, {"sig"}) + 1)
    PROVE  Block(s) # <<>> /\ BodyAlone(Block(s), 2)
<1> DEFINE b == Block(s)
           k == FirstAt(b, 1, {"sig"})
<1>1. b = WithoutMain(Block(s), "python")
  BY PythonKeepsBlock
<1>2. b \in Seq(Pieces) /\ k \in 1 .. Len(b)
  BY <1>1, FencedBlock
<1>3. b[1] = "sig" /\ BodyAlone(b, k + 1) /\ Len(b) \in Nat /\ Len(b) >= 1
  BY <1>2
<1> HIDE DEF b
<1>4. k = 1
  <2>1. /\ 1 \in 1 .. Len(b) + 1 /\ b[1] \in {"sig"}
        /\ \A i \in 1 .. Len(b) : i < 1 => b[i] \notin {"sig"}
    BY <1>3
  <2>. QED  BY <1>2, <2>1, FirstIsUnique
<1>5. b # <<>>
  BY <1>2, <1>3, EmptySeq
<1>. QED  BY <1>3, <1>4, <1>5 DEF b

(* The program of a spoiled answer is not whole. *)
LEMMA ProgramSpoiled ==
    ASSUME IInv, Programs, NEW i \in Judged, Spoiled(i)
    PROVE  ~IsWhole(program[i])
<1> DEFINE s == Written(i)
           p == program[i]
<1>1. /\ i \in Rows /\ AsAsked(i)
      /\ script # "mbpp_instruct" => p = ProcessHumanevalTest(Code(i), language)
  BY ProgramOf
<1>2. s \in Seq(Pieces)
  BY <1>1, WrittenOfPieces
<1>3. CASE script = "base"
  <2>1. p = ProcessHumanevalTest(Prompt(language) \o CleanupCode(s, language, FALSE), language)
    BY <1>1, <1>3 DEF Code
  <2>2. language = "go" /\ \E j \in 1 .. BodyEnd(s, 1) - 1 : s[j] = "struct"
    BY <1>3 DEF Spoiled
  <2> HIDE DEF s, p
  <2>3. ~Balanced(ProcessHumanevalTest(Prompt("go") \o CleanupCode(s, "go", FALSE), "go"), "go")
    BY <1>2, <2>2, StructCut
  <2>4. ~Balanced(p, language)
    BY <2>1, <2>2, <2>3
  <2>. QED  BY <2>4 DEF IsWhole, p
<1>4. CASE script = "sft"
  <2>1. p = ProcessHumanevalTest(CleanupCode(s, language, TRUE), language)
    BY <1>1, <1>4 DEF Code
  <2> DEFINE a == Ahead(s, language)
  <2>2. language = "python" /\ Fenced(s) /\ Contains(a, "sig") /\ a[1] # "sig"
    BY <1>1, <1>4 DEF AsAsked, Fenced, Spoiled
  <2> HIDE DEF s, p
  <2>3. a = Block(s)
    BY <2>2, PythonKeepsBlock, AheadIsKept
  <2> HIDE DEF a
  <2>4. Occurrences(ProcessHumanevalTest(CleanupCode(s, "python", TRUE), "python"), "sig") # 1
    BY <1>2, <2>2, <2>3, SftCut
  <2>5. Occurrences(p, "sig") # 1
    BY <2>1, <2>2, <2>4
  <2>. QED  BY <2>5 DEF IsWhole, p
<1>. QED  BY <1>3, <1>4 DEF Spoiled

(* The program of every judged row that is not spoiled is whole, and has the body its
   text has. *)
LEMMA ProgramWhole ==
    ASSUME IInv, Programs, NEW i \in Judged, ~Spoiled(i)
    PROVE  /\ Whole(program[i], Written(i), language)
           /\ script = "instruct" =>
                LET b == Ahead(Written(i), language)
                IN  Occurrences(program[i], "hfn")
                      = Occurrences(SubSeq(b, FirstAt(b, 1, {"sig"}), Len(b)), "hfn")
<1> DEFINE s == Written(i)
           p == program[i]
<1>1. /\ i \in Rows /\ AsAsked(i)
      /\ script # "mbpp_instruct" =>
           language \in Handled /\ p = ProcessHumanevalTest(Code(i), language)
      /\ script = "mbpp_instruct" => p = ProcessMbppTest(Code(i))
      /\ script \notin {"base", "sft", "instruct"} => language = "python"
      /\ script = "instruct" => language \in Settings
  BY ProgramOf
<1>2. s \in Seq(Pieces)
  BY <1>1, WrittenOfPieces
<1>3. script \in Scripts
  BY DEF IInv, Inputs
<1>4. CASE script = "base"
  <2>1. p = ProcessHumanevalTest(Prompt(language) \o CleanupCode(s, language, FALSE), language)
    BY <1>1, <1>4 DEF Code
  <2>2. /\ language \in Handled /\ s # <<>> /\ s[1] = "loop"
        /\ IF language = "python" THEN BodyAlone(s, 1)
           ELSE IF BodyEnd(s, 1) > Len(s) THEN language \in Closed
           ELSE /\ s[BodyEnd(s, 1)] = "end"
                /\ language \in Closed
                     \/ \A j \in BodyEnd(s, 1) + 1 .. FirstAt(s, 1, {"hfn"}) - 1 : s[j] = "use"
    BY <1>1, <1>4 DEF AsAsked
  <2>4. language = "go" => StructFree(s, BodyEnd(s, 1))
    BY <1>4 DEF Spoiled, StructFree
  <2> HIDE DEF s, p
  <2>3. Whole(ProcessHumanevalTest(Prompt(language) \o CleanupCode(s, language, FALSE), language), s, language)
    BY <1>2, <2>2, <2>4, BaseProgram
  <2>. QED  BY <1>4, <2>1, <2>3 DEF s, p
<1>5. CASE script = "sft"
  <2>1. p = ProcessHumanevalTest(CleanupCode(s, language, TRUE), language)
    BY <1>1, <1>5 DEF Code
  <2> DEFINE a == Ahead(s, language)
  <2>2. /\ language = "python" /\ Fenced(s) /\ Contains(a, "sig") /\ a[1] = "sig"
        /\ BodyAlone(a, FirstAt(a, 1, {"sig"}) + 1)
    BY <1>1, <1>5 DEF AsAsked, Fenced, Spoiled
  <2> HIDE DEF s, p
  <2>3. a = Block(s)
    BY <2>2, PythonKeepsBlock, AheadIsKept
  <2> HIDE DEF a
  <2>4. Block(s) # <<>> /\ Block(s)[1] = "sig" /\ BodyAlone(Block(s), 2)
    BY <1>2, <2>2, <2>3, SigFirst
  <2>5. Whole(ProcessHumanevalTest(CleanupCode(s, "python", TRUE), "python"), s, "python")
    BY <1>2, <2>2, <2>4, SftProgram
  <2>. QED  BY <1>5, <2>1, <2>2, <2>5 DEF s, p
<1>6. CASE script = "instruct"
  <2> DEFINE b == Ahead(s, language)
             k == FirstAt(b, 1, {"sig"})
             c == SubSeq(b, k, Len(b))
  <2>1. p = ProcessHumanevalTest(ExtractGenerationCode(s, language), language)
    BY <1>1, <1>6 DEF Code
  <2>2. /\ Fenced(s) /\ Contains(b, "sig")
        /\ IF language = "python" THEN PythonCode(c) /\ ~Contains(b, "end") ELSE BracedCode(c)
    BY <1>1, <1>6 DEF AsAsked, Fenced
  <2>3. Instructed(s, language, Fence(s), b, k, c, Len(c), p)
    <3> HIDE DEF p
    <3>1. b = WithoutMain(Block(s), language)
      BY AheadIsKept
    <3>. QED  BY <1>1, <1>6, <2>1, <2>2, <3>1 DEF Instructed
  <2>4. Whole(p, s, language) /\ Occurrences(p, "hfn") = Occurrences(c, "hfn")
    <3> HIDE DEF p, s, b, k, c
    <3>. QED  BY <1>2, <2>3, InstructProgram
  <2>. QED  BY <2>4
<1>7. CASE script = "mbpp"
  <2>1. p = ProcessHumanevalTest(MbppCompletion(i), "python") /\ language = "python"
    BY <1>1, <1>7 DEF Code
  <2>2. ~fprompt[i].bos_text /\ PythonCode(CutAt(s, 1, {"[DONE]"}))
    BY <1>1, <1>7 DEF AsAsked
  <2>3. MbppCompletion(i) = CutAt(s, 1, {"[DONE]"})
    BY <2>2 DEF MbppCompletion
  <2> HIDE DEF s, p
  <2>4. Whole(ProcessHumanevalTest(CutAt(s, 1, {"[DONE]"}), "python"), s, "python")
    BY <1>2, <2>2, MbppProgram
  <2>. QED  BY <1>7, <2>1, <2>3, <2>4 DEF s, p
<1>8. CASE script = "mbpp_instruct"
  <2>1. p = ProcessMbppTest(ConvertForEvaluation(s)) /\ language = "python"
    BY <1>1, <1>8 DEF Code
  <2>2. Fenced(s) /\ PythonCode(Ahead(s, language))
    BY <1>1, <1>8 DEF AsAsked, Fenced
  <2> HIDE DEF s, p
  <2>3. PythonCode(Block(s))
    BY <2>1, <2>2, PythonKeepsBlock, AheadIsKept
  <2>4. Whole(ProcessMbppTest(ConvertForEvaluation(s)), s, "python")
    BY <1>2, <2>2, <2>3, MbppInstructProgram
  <2>. QED  BY <1>8, <2>1, <2>4 DEF s, p
<1>9. CASE script = "leetcode"
  <2>1. p = ProcessHumanevalTest(ExtractPythonCode(s), "python") /\ language = "python"
    BY <1>1, <1>9 DEF Code
  <2>2. IF Contains(s, "fence") THEN Fenced(s) /\ PythonCode(Ahead(s, language))
        ELSE s # <<>> /\ \/ s[1] = "loop" /\ PythonCode(<<"sig">> \o s)
                         \/ s[1] = "sig" /\ BodyAlone(s, 2)
    BY <1>1, <1>9 DEF AsAsked, Fenced
  <2> HIDE DEF s, p
  <2>3. Ahead(s, language) = Block(s)
    BY <2>1, PythonKeepsBlock, AheadIsKept
  <2>4. Whole(ProcessHumanevalTest(ExtractPythonCode(s), "python"), s, "python")
    BY <1>2, <2>2, <2>3, LeetcodeProgram
  <2>. QED  BY <1>9, <2>1, <2>4 DEF s, p
<1>. QED  BY <1>3, <1>4, <1>5, <1>6, <1>7, <1>8, <1>9 DEF Scripts

(* For any texts a model may write: when the answer has the form its script asks for, the
   test program has the function under test once, closes every function and class, has
   its tests outside of them, and nothing of the prose or of another entry point (utils/
   utils.py, evaluation.py), but for a go body with the word struct in a base answer and
   an sft block that does not begin with the function: of these none does. *)
THEOREM ProgramsAreWhole == Spec => []ProgramIsWhole
<1>1. IInv /\ Programs => ProgramIsWhole
  <2> SUFFICES ASSUME IInv, Programs, NEW i \in Judged
               PROVE  IsWhole(program[i]) <=> ~Spoiled(i)
    BY DEF ProgramIsWhole
  <2>1. CASE Spoiled(i)
    BY <2>1, ProgramSpoiled
  <2>2. CASE ~Spoiled(i)
    <3>1. Whole(program[i], Written(i), language)
      BY <2>2, ProgramWhole
    <3>. QED  BY <2>2, <3>1 DEF Whole, IsWhole
  <2>. QED  BY <2>1, <2>2
<1>. QED  BY <1>1, IInvInit, IInvNext, ProgramsInit, ProgramsNext, PTL DEF Spec

(* And, of the answers that make whole programs, the function that is tested has the body
   the model wrote, all of it and in its order, and out of a code block each of the
   functions that follow it. *)
THEOREM OwnBodiesRun == Spec => []OwnCodeRuns
<1>1. IInv /\ Programs => OwnCodeRuns
  <2> SUFFICES ASSUME IInv, Programs, NEW i \in Judged, ~Spoiled(i)
               PROVE  LET own   == OwnCode(i) \o (IF language = "python" THEN <<>> ELSE <<"end">>)
                          at    == FirstAt(program[i], 1, {"sig"})
                          block == Ahead(Written(i), language)
                          rest  == SubSeq(block, FirstAt(block, 1, {"sig"}), Len(block))
                      IN  /\ IsPrefix(own, SubSeq(program[i], at + 1, Len(program[i])))
                          /\ script = "instruct" =>
                               Occurrences(program[i], "hfn") = Occurrences(rest, "hfn")
    BY DEF OwnCodeRuns
  <2>1. IsPrefix(OwnBody(Written(i), language),
                 SubSeq(program[i], FirstAt(program[i], 1, {"sig"}) + 1, Len(program[i])))
    BY ProgramWhole DEF Whole
  <2>2. OwnCode(i) \o (IF language = "python" THEN <<>> ELSE <<"end">>) = OwnBody(Written(i), language)
    BY DEF OwnCode, OwnBody, BodyStart
  <2>. QED  BY <2>1, <2>2, ProgramWhole
<1>. QED  BY <1>1, IInvInit, IInvNext, ProgramsInit, ProgramsNext, PTL DEF Spec
=============================================================================
