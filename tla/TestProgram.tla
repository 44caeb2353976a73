---------------------------- MODULE TestProgram ----------------------------
(***************************************************************************)
(* From the text a model wrote to the program check_correctness runs: the  *)
(* functions that cut the code out of the text (utils/utils.py,            *)
(* evaluate_leetcode.py, MBPP/eval_instruct.py) and                        *)
(* process_humaneval_test, which puts the tests around it.                 *)
(*                                                                         *)
(* A text is a sequence of pieces.  The function asked for is "sig", its   *)
(* body "loop", "return", "struct" and its closing line "end", where       *)
(* "struct" is a line with that word in it, from the word on; "hfn" opens  *)
(* another function, "main" an entry point and "dict" a table at the left  *)
(* margin, each closed by an "end" of its own; "class" opens the class     *)
(* around the function and "classend" closes it; "use" is a statement      *)
(* outside; "pre" and "php" stand before the function in prompts; "fence"  *)
(* and "unfence" surround a code block and "talk" is prose.  An "end" is   *)
(* what the code finds as a line break, the function's indentation and     *)
(* "}".  Comments at the margin, which some stop tokens look for, are no   *)
(* pieces.                                                                 *)
(***************************************************************************)
EXTENDS Naturals, Sequences, FiniteSets, SequencesExt, FiniteSetsExt

Pieces == {"sig", "loop", "return", "struct", "end", "hfn", "main", "dict", "class", "classend", "use",
           "pre", "php", "fence", "unfence", "talk", "[DONE]", "imports", "tests"}

FirstAt(s, from, S) == Min({i \in from .. Len(s) : s[i] \in S} \union {Len(s) + 1})
LastAt(s, S)        == Max({i \in DOMAIN s : s[i] \in S} \union {0})
Occurrences(s, p)       == Cardinality({i \in DOMAIN s : s[i] = p})

\* The text before the first of some pieces at or after a position.
CutAt(s, from, S) == SubSeq(s, 1, FirstAt(s, from, S) - 1)

Classes == {"java", "cs"}           \* languages whose prompts open a class
Closed  == {"cpp", "sh"} \union Classes    \* whose tests begin with the closing line

\* The data files: prompt, stop_tokens and test of each language.  Only js stops at a
\* statement ("console.log"); go's stop token "struct" has no line break before it.
Prompt(lang) ==
    <<IF lang \in Classes THEN "class" ELSE IF lang = "php" THEN "php" ELSE "pre", "sig">>

StopTokens(lang) ==
    IF lang = "python" THEN {}
    ELSE IF lang \in Closed THEN {"end"}
    ELSE IF lang = "js" THEN {"hfn", "use"}
    ELSE IF lang = "go" THEN {"hfn", "struct"} ELSE {"hfn"}

Test(lang) ==
    (IF lang \in Closed THEN <<"end">> ELSE <<>>) \o <<"tests">>
        \o (IF lang \in Classes THEN <<"classend">> ELSE <<>>)

-----------------------------------------------------------------------------
(* Cutting the code out *)

\* "\ndef", "\nclass", "\nif", "\n#", "\nprint"
PythonStops == {"sig", "hfn", "use"}

\* The first code block of a text: between a fence and the next one.
Fence(s)    == FirstAt(s, 1, {"fence"})
Unfence(s)  == FirstAt(s, Fence(s), {"unfence"})
HasBlock(s) == Unfence(s) <= Len(s)
Block(s)    == SubSeq(s, Fence(s) + 1, Unfence(s) - 1)

\* The fenced code, to the end of the text if the fence is not closed.
CleanPythonCodeForSft(s) ==
    IF Fence(s) <= Len(s) THEN SubSeq(s, Fence(s) + 1, Unfence(s) - 1) ELSE s

\* A stop word has a line break before it, which the first line of a block has not.
CleanupCode(s, lang, sft) ==
    IF lang # "python" THEN CutAt(s, 1, StopTokens(lang))
    ELSE IF sft THEN CutAt(CleanPythonCodeForSft(s), 2, PythonStops)
    ELSE CutAt(s, 1, PythonStops)

\* languge_settings: the languages it has, and those with the text of their main.
Settings == {"python", "cpp", "java", "cs", "php", "ts", "js", "sh"}
Mains    == {"cpp", "java", "cs"}
AddsEnd  == {"php", "ts", "js"}

\* Defect: the entry point stays.
WithMain(block, lang) == block

WithoutMain(block, lang) == IF lang \in Mains THEN CutAt(block, 1, {"main"}) ELSE block

\* Defect: the first closing line, index instead of rindex.
FirstEnd(block) == FirstAt(block, 1, {"end"})

\* rindex("\n" + indent + "}"), or the length of the block.
EndOf(block) ==
    IF Contains(block, "end") THEN LastAt(block, {"end"}) ELSE Len(block) + 1

\* extract_generation_code: from the signature, or from the start of the block if it
\* is not there, to the last closing line; behind the prompt's lines before the
\* function.  Without a code block it is the prompt and all of the text.
ExtractGenerationCode(s, lang) ==
    IF ~HasBlock(s) THEN Prompt(lang) \o s
    ELSE LET block == WithoutMain(Block(s), lang)
             start == IF Contains(block, "sig") THEN FirstAt(block, 1, {"sig"}) ELSE 1
         IN  Front(Prompt(lang)) \o SubSeq(block, start, EndOf(block) - 1)
                 \o (IF lang \in AddsEnd THEN <<"end">> ELSE <<>>)

\* extract_python_code, and what evaluate_main makes of its failure and of an output
\* that continues the prompt.
ExtractPythonCode(s) ==
    IF s # <<>> /\ s[1] = "loop" THEN <<"sig">> \o s
    ELSE IF Fence(s) > Len(s) THEN CutAt(s, 2, PythonStops)
    ELSE IF HasBlock(s) THEN Block(s) ELSE s

ConvertForEvaluation(s) == IF HasBlock(s) THEN Block(s) ELSE s

-----------------------------------------------------------------------------
(* process_humaneval_test *)

Handled == {"python", "cpp", "java", "cs", "js", "ts", "sh", "go", "php"}

ProcessHumanevalTest(code, lang) ==
    (IF lang \in {"python", "cpp", "cs"} THEN <<"imports">>
     ELSE IF lang = "php" /\ (code = <<>> \/ code[1] # "php") THEN <<"php">> ELSE <<>>)
        \o code \o Test(lang)

\* With is_mbpp, whatever the language.
ProcessMbppTest(code) == code \o <<"tests">>

-----------------------------------------------------------------------------
(* What a program should be *)

Opens(lang) == IF lang = "python" THEN {"dict"} ELSE {"class", "sig", "hfn", "main", "dict"}

\* What is open after one more piece; <<"bad">> once something was closed that was not
\* the innermost.
OpenNext(open, p, lang) ==
    IF open = <<"bad">> THEN open
    ELSE IF p \in Opens(lang) THEN Append(open, p)
    ELSE IF p \notin {"end", "classend"} THEN open
    ELSE IF open # <<>> /\ (open[Len(open)] = "class" <=> p = "classend") THEN Front(open)
    ELSE <<"bad">>

\* The functions and classes still open after a text.
OpenAfter(s, lang) == FoldLeft(LAMBDA open, p : OpenNext(open, p, lang), <<>>, s)

Balanced(s, lang) == OpenAfter(s, lang) = <<>>

\* The tests are outside of every function.
TestsReached(s, lang) ==
    \A i \in DOMAIN s : s[i] = "tests" =>
        OpenAfter(SubSeq(s, 1, i - 1), lang) \in {<<>>, <<"class">>}
=============================================================================
