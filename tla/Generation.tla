----------------------------- MODULE Generation -----------------------------
(***************************************************************************)
(* The scripts between a data set and evaluate_functional_correctness, one *)
(* batch at a time: they build the prompts, let the model write, cut the   *)
(* code out of what it wrote and put it into test programs.                *)
(*                                                                         *)
(*   base, sft      HumanEval/humaneval.py without and with issft          *)
(*   instruct       HumanEval/eval_instruct.py                             *)
(*   mbpp           MBPP/mbpp.py, with few-shot prompts                    *)
(*   mbpp_instruct  MBPP/eval_instruct.py                                  *)
(*   leetcode       LeetCode/vllm_inference.py, then evaluate_leetcode.py  *)
(*                                                                         *)
(* The model is deterministic up to where it is stopped: each row of a     *)
(* batch has the text it would write, and one piece of each is written at  *)
(* a time.                                                                 *)
(***************************************************************************)
EXTENDS TestProgram

CONSTANTS
    Languages,          \* of HumanEval; "other" stands for those without test programs
    Texts(_, _),        \* bound: what the model may write for a script and a language
    BatchSize,          \* batch_size of mbpp; the other scripts take one problem at a time
    MaxNew,             \* max_gen_len, in pieces
    OwnLengths,         \* bound: tokens of a problem with "[BEGIN]"
    ShotLength,         \* tokens of one of the three examples
    MaxSeqLen, MaxGenLen    \* max_seq_len, max_gen_len in tokens

Scripts == {"base", "sft", "instruct", "mbpp", "mbpp_instruct", "leetcode"}

ASSUME GenerationAssumption ==
    /\ BatchSize \in Nat \ {0} /\ MaxNew \in Nat \ {0}
    /\ OwnLengths \subseteq Nat \ {0} /\ ShotLength \in Nat \ {0}
    /\ MaxSeqLen \in Nat /\ MaxGenLen \in 1 .. MaxSeqLen - 1
    /\ \A s \in Scripts, l \in Languages \union {"python"} : Texts(s, l) \subseteq Seq(Pieces)

VARIABLES
    script, language,   \* inputs
    rows,               \* inputs: the problem's length and the model's text of each row
    fprompt,            \* mbpp: the examples and tokens of each prompt
    written,            \* pieces written of each row
    generation,         \* code of each row
    program,            \* test program of each row
    stage               \* where the script is

vars == <<script, language, rows, fprompt, written, generation, program, stage>>

Rows    == DOMAIN rows

Init ==
    /\ script \in Scripts
    /\ language \in (IF script \in {"base", "sft", "instruct"} THEN Languages ELSE {"python"})
    /\ \E n \in 1 .. (IF script = "mbpp" THEN BatchSize ELSE 1) :
         rows \in [1 .. n -> [own : IF script = "mbpp" THEN OwnLengths ELSE {1},
                              text : Texts(script, language)]]
    /\ fprompt = <<>> /\ written = 0 /\ generation = <<>> /\ program = <<>>
    /\ stage = "prompt"

-----------------------------------------------------------------------------
(* Prompts *)

Limit == MaxSeqLen - MaxGenLen

\* Defect: an example more than there is room for.
FitWithoutMargin(own) == {s \in 1 .. 3 : (s - 1) * ShotLength + own < Limit}

\* The numbers of examples that leave room for the answer.
Fit(own) == {s \in 1 .. 3 : s * ShotLength + own < Limit}

\* The longest of the prompts with examples; if none fits the problem alone, cut, and
\* decoded with its begin-of-sentence token as text.
FewShotPrompt(own) ==
    IF Fit(own) # {} THEN [shots |-> Max(Fit(own)), own |-> own, bos_text |-> FALSE]
    ELSE [shots |-> 0, own |-> Min({own, Limit}), bos_text |-> TRUE]

\* Encoded again, a begin-of-sentence token that is text gets another one before it.
PromptTokens(p) == p.shots * ShotLength + p.own + (IF p.bos_text THEN 1 ELSE 0)

BuildPrompt ==
    /\ stage = "prompt"
    /\ script = "instruct" => language \in Settings
    /\ fprompt' = IF script = "mbpp" THEN [i \in Rows |-> FewShotPrompt(rows[i].own)] ELSE <<>>
    /\ stage' = "generate"
    /\ UNCHANGED <<script, language, rows, written, generation, program>>

\* languge_settings[lang] is a KeyError.
NoSettings ==
    /\ stage = "prompt" /\ script = "instruct" /\ language \notin Settings
    /\ stage' = "raised"
    /\ UNCHANGED <<script, language, rows, fprompt, written, generation, program>>

-----------------------------------------------------------------------------
(* Generation *)

Written(i) == SubSeq(rows[i].text, 1, Min({written, Len(rows[i].text)}))

\* Defect: a stop word in any row.
AnyRowStopped == script = "mbpp" /\ \E i \in Rows : Contains(Written(i), "[DONE]")

\* KeywordsStoppingCriteria looks at row 0 of the batch only.
Stopped == script = "mbpp" /\ Contains(Written(1), "[DONE]")

AtEnd == \/ Stopped \/ written = MaxNew
         \/ \A i \in Rows : written >= Len(rows[i].text)

WritePiece ==
    /\ stage = "generate" /\ ~AtEnd
    /\ written' = written + 1
    /\ UNCHANGED <<script, language, rows, fprompt, generation, program, stage>>

\* prediction[prompt_lens[i]:] where the prompt's begin-of-sentence text is counted and
\* not decoded again; then split("[DONE]")[0].
MbppCompletion(i) ==
    CutAt(IF fprompt[i].bos_text /\ Written(i) # <<>> THEN Tail(Written(i)) ELSE Written(i), 1, {"[DONE]"})

Code(i) ==
    CASE script = "base"          -> Prompt(language) \o CleanupCode(Written(i), language, FALSE)
      [] script = "sft"           -> CleanupCode(Written(i), language, TRUE)
      [] script = "instruct"      -> ExtractGenerationCode(Written(i), language)
      [] script = "mbpp"          -> MbppCompletion(i)
      [] script = "mbpp_instruct" -> ConvertForEvaluation(Written(i))
      [] script = "leetcode"      -> ExtractPythonCode(Written(i))

Extract ==
    /\ stage = "generate" /\ AtEnd
    /\ generation' = [i \in Rows |-> Code(i)]
    /\ stage' = "test"
    /\ UNCHANGED <<script, language, rows, fprompt, written, program>>

-----------------------------------------------------------------------------
(* Test programs *)

BuildTest ==
    /\ stage = "test"
    /\ script = "mbpp_instruct" \/ language \in Handled
    /\ program' = [i \in Rows |-> IF script = "mbpp_instruct" THEN ProcessMbppTest(generation[i])
                                  ELSE ProcessHumanevalTest(generation[i], language)]
    /\ stage' = "judged"
    /\ UNCHANGED <<script, language, rows, fprompt, written, generation>>

\* No branch assigns test_string.
NoTestString ==
    /\ stage = "test" /\ script # "mbpp_instruct" /\ language \notin Handled
    /\ stage' = "raised"
    /\ UNCHANGED <<script, language, rows, fprompt, written, generation, program>>

Over == stage \in {"judged", "raised"} /\ UNCHANGED vars

Next == BuildPrompt \/ NoSettings \/ WritePiece \/ Extract \/ BuildTest \/ NoTestString \/ Over

Spec == Init /\ [][Next]_vars

-----------------------------------------------------------------------------
(* Properties *)

Lines == {"loop", "return", "struct"}

\* Where the lines of a body end that begin at a position.
BodyEnd(s, from) == FirstAt(s, from, Pieces \ Lines)

\* The lines of the function's body as the model wrote them.
OwnCode(i) ==
    LET s    == Written(i)
        from == IF s # <<>> /\ s[1] = "loop" THEN 1 ELSE FirstAt(s, 1, {"sig"}) + 1
    IN  SubSeq(s, from, BodyEnd(s, from) - 1)

\* Python with the function asked for in it, once: bodies behind their signatures,
\* tables at the margin closed at once, statements.
PythonCode(c) ==
    /\ Occurrences(c, "sig") = 1
    /\ Range(c) \subseteq Lines \union {"sig", "hfn", "use", "pre", "dict", "end"}
    /\ \A j \in DOMAIN c :
         /\ c[j] \in Lines => j > 1 /\ c[j - 1] \in Lines \union {"sig", "hfn"}
         /\ c[j] = "dict" => j < Len(c) /\ c[j + 1] = "end"
         /\ c[j] = "end" => j > 1 /\ c[j - 1] = "dict"

\* The function asked for and what follows it in the other languages: each function
\* ends with its closing line, then comes another or a statement, the class's at last.
BracedCode(c) ==
    /\ c[1] = "sig" /\ c[Len(c)] \in {"end", "use", "classend"}
    /\ \A j \in 2 .. Len(c) :
         /\ c[j] \in IF c[j - 1] \in Lines \union {"sig", "hfn"} THEN Lines \union {"end"}
                     ELSE {"hfn", "use", "classend"}
         /\ c[j] = "classend" => j = Len(c)

\* A python body to the end of the text, or to another function, class or statement.
BodyAlone(s, from) == BodyEnd(s, from) <= Len(s) => s[BodyEnd(s, from)] \in PythonStops

\* A code block ahead of its entry point, in the languages that have one.
Ahead(s, lang) == IF lang \in Mains THEN CutAt(Block(s), 1, {"main"}) ELSE Block(s)

\* An answer of the form its script asks for: the rest of the function, closed where
\* the tests do not close it, and behind it what is no part of it; or a code block, with
\* nothing but prose before it, that has the function, ahead of any entry point.  sft is
\* asked for python only.
AsAsked(i) ==
    LET s     == Written(i)
        end   == BodyEnd(s, 1)
        fenced == HasBlock(s) /\ \A j \in 1 .. Fence(s) - 1 : s[j] = "talk"
        block == Ahead(s, language)
        code  == SubSeq(block, FirstAt(block, 1, {"sig"}), Len(block))
    IN  CASE script = "base" ->
               /\ s # <<>> /\ s[1] = "loop"
               /\ IF language = "python" THEN BodyAlone(s, 1)
                  ELSE IF end > Len(s) THEN language \in Closed
                  ELSE /\ s[end] = "end"
                       /\ language \in Closed
                            \/ \A j \in end + 1 .. FirstAt(s, 1, {"hfn"}) - 1 : s[j] = "use"
          [] script = "sft" ->
               /\ language = "python" /\ fenced /\ Contains(block, "sig")
               /\ BodyAlone(block, FirstAt(block, 1, {"sig"}) + 1)
          [] script = "instruct" ->
               /\ fenced /\ Contains(block, "sig")
               /\ IF language = "python" THEN PythonCode(code) /\ ~Contains(block, "end")
                  ELSE BracedCode(code)
          [] script = "mbpp" -> ~fprompt[i].bos_text /\ PythonCode(CutAt(s, 1, {"[DONE]"}))
          [] script = "mbpp_instruct" -> fenced /\ PythonCode(block)
          [] script = "leetcode" ->
               IF Contains(s, "fence") THEN fenced /\ PythonCode(block)
               ELSE /\ s # <<>>
                    /\ \/ s[1] = "loop" /\ PythonCode(<<"sig">> \o s)
                       \/ s[1] = "sig" /\ BodyAlone(s, 2)

Judged == {i \in Rows : stage = "judged" /\ AsAsked(i)}

\* An answer that a stop word cuts in the middle of what was asked for: of base, a go
\* body with the word struct; of sft, a code block that does not begin with the function
\* but, say, with the prompt's import, which is cut at its first def.
Spoiled(i) ==
    LET s     == Written(i)
        block == Ahead(s, language)
    IN  \/ script = "base" /\ language = "go" /\ \E j \in 1 .. BodyEnd(s, 1) - 1 : s[j] = "struct"
        \/ script = "sft" /\ block[1] # "sig"

\* The function under test once, every function and class closed, the tests outside of
\* all of them, no other entry point and none of the prose around the code.
IsWhole(p) ==
    /\ Occurrences(p, "sig") = 1
    /\ Balanced(p, language) /\ TestsReached(p, language)
    /\ Range(p) \intersect {"main", "talk", "fence", "unfence", "[DONE]"} = {}

\* An answer that is as asked makes a whole program unless it is spoiled, and then never:
\* closing lines that are cut off, added, and brought by the tests agree in every
\* language, and only go's "struct" and the first def of sft cut what was to be kept.
ProgramIsWhole == \A i \in Judged : IsWhole(program[i]) <=> ~Spoiled(i)

\* Unless the answer is spoiled, the function that is tested has the body the model
\* wrote, all of it, and out of a code block it has the functions that follow it too.
OwnCodeRuns ==
    \A i \in Judged : ~Spoiled(i) =>
        LET own   == OwnCode(i) \o (IF language = "python" THEN <<>> ELSE <<"end">>)
            at    == FirstAt(program[i], 1, {"sig"})
            block == Ahead(Written(i), language)
            rest  == SubSeq(block, FirstAt(block, 1, {"sig"}), Len(block))
        IN  /\ IsPrefix(own, SubSeq(program[i], at + 1, Len(program[i])))
            /\ script = "instruct" => Occurrences(program[i], "hfn") = Occurrences(rest, "hfn")

\* A few-shot prompt leaves room for the answer, but for one token when no example
\* fits; a problem is cut only if it would not fit alone.
PromptFits ==
    \A i \in DOMAIN fprompt :
        LET p == fprompt[i]
        IN  /\ PromptTokens(p) + MaxGenLen <= MaxSeqLen + (IF p.bos_text THEN 1 ELSE 0)
            /\ p.own < rows[i].own => rows[i].own + MaxGenLen > MaxSeqLen

\* A batch is stopped for the sake of its first row, which gets its code whole if the
\* limit allows; another row's is cut at most where the first had finished.
RowsWhole ==
    (stage = "judged" /\ script = "mbpp") => \A i \in Rows :
        LET code == CutAt(rows[i].text, 1, {"[DONE]"})
        IN  (generation[i] # code /\ ~fprompt[i].bos_text) =>
              /\ IsPrefix(generation[i], code)
              /\ written = MaxNew \/ (i # 1 /\ Contains(Written(1), "[DONE]"))
=============================================================================
