---------------------------- MODULE MCGeneration ----------------------------
(* What a model may write: the function with or without other functions,   *)
(* entry points and statements around it, in or out of a code block.       *)
EXTENDS Generation

End(lang)    == IF lang = "python" THEN <<>> ELSE <<"end">>
Body(lang)   == <<"loop", "return">> \o End(lang)
Helper(lang) == <<"hfn", "loop">> \o End(lang)
Main(lang)   == IF lang \in Mains THEN <<"main", "loop", "end">> ELSE <<"use">>

\* What follows and what precedes the function.
After(lang)  == {<<>>, <<"use">>, Helper(lang), Helper(lang) \o Main(lang)}
Before(lang) == {<<>>, <<"pre">>, Helper(lang), <<"dict", "end">>}

Functions(lang) ==
    {b \o <<"sig">> \o Body(lang) \o a : a \in {<<>>, Helper(lang), Main(lang)}, b \in Before(lang)}
        \union {Body(lang), Main(lang) \o <<"sig">> \o Body(lang)}

InClass(lang) == IF lang \in Classes
                 THEN {f : f \in Functions(lang)}
                      \union {<<"class">> \o f \o <<"classend">> : f \in Functions(lang)}
                 ELSE Functions(lang)

Fenced(lang) == {<<"fence">> \o f \o <<"unfence">> : f \in InClass(lang)}
Talked(lang) == {<<"talk">> \o f \o <<"talk">> : f \in Fenced(lang)}

\* A body with a line that has the word struct, which in go is a stop token.
WithStruct(lang) == <<"loop", "struct", "return">> \o End(lang)

Continued(lang) == {b \o a : b \in {Body(lang), WithStruct(lang)}, a \in After(lang)}
                     \union {<<"loop">>}

FewShot == {f \o e : f \in {<<"sig", "return">>, <<"sig", "loop", "loop", "return">>},
                     e \in {<<>>, <<"[DONE]">>, <<"[DONE]", "talk">>}}

MCTexts(s, lang) ==
    CASE s = "base" -> Continued(lang)
      [] s \in {"sft", "instruct"} -> Talked(lang) \union Fenced(lang) \union {<<"talk">>}
      [] s = "mbpp" -> FewShot
      [] s = "mbpp_instruct" -> Talked(lang)
      [] s = "leetcode" -> Talked(lang) \union Continued(lang)
=============================================================================
