------------------------------ MODULE FineTune ------------------------------
(***************************************************************************)
(* finetune/finetune_deepseekcoder.py on several ranks of one node.  Rank  *)
(* 0 tokenises the data set into the cache while the others wait at a      *)
(* barrier; behind it they find the cache.  Each example is a prompt and   *)
(* an answer, and only the answer is to be learned: the labels of the      *)
(* prompt's tokens are ignored.                                            *)
(*                                                                         *)
(* Tokens are those of the prompt "s", of the answer "t" and "EOT", one    *)
(* into which the last of the prompt and the first of the answer merged    *)
(* "m", and "pad", the text of which a prompt or an answer may contain.    *)
(***************************************************************************)
EXTENDS Naturals, Sequences, FiniteSets, SequencesExt, FiniteSetsExt

CONSTANTS
    WorldSize,          \* ranks
    MaxExamples,        \* bound: examples of the data set
    Sources, Targets,   \* bound: tokens of prompts, of answers
    ModelMaxLength,     \* model_max_length
    Shown,              \* examples rank 0 prints, 3 in the code
    Ignore              \* IGNORE_INDEX

ASSUME TuneAssumption ==
    /\ WorldSize \in Nat \ {0} /\ MaxExamples \in Nat \ {0}
    /\ ModelMaxLength \in Nat \ {0} /\ Shown \in Nat
    /\ \A source \in Sources : source \in Seq({"s", "pad"}) /\ source # <<>>
    /\ \A target \in Targets : target \in Seq({"t", "EOT", "pad"}) /\ target # <<>>
    /\ Ignore \notin {"s", "pad", "m", "t", "EOT"}

VARIABLES
    raw,            \* raw_train_datasets
    pc,             \* where each rank is
    cache,          \* examples in the cache file
    cache_complete, \* the cache is in place
    writers,        \* history: ranks that wrote the cache
    train_dataset   \* what each rank trains on

vars == <<raw, pc, cache, cache_complete, writers, train_dataset>>

Ranks    == 0 .. WorldSize - 1

\* The padding token does not merge, for the tokenizer splits texts at it first.
Examples == {e \in [source : Sources, target : Targets, merges : BOOLEAN] :
               e.merges => Last(e.source) = "s" /\ Head(e.target) = "t"}

Init ==
    /\ \E n \in 1 .. MaxExamples : raw \in [1 .. n -> Examples]
    /\ pc = [r \in Ranks |-> IF r = 0 THEN "map" ELSE "barrier"]
    /\ cache = <<>> /\ cache_complete = FALSE /\ writers = {}
    /\ train_dataset = [r \in Ranks |-> <<>>]

-----------------------------------------------------------------------------
(* train_tokenize_function *)

\* The tokenizer, with truncation.
Truncate(tokens) == SubSeq(tokens, 1, Min({Len(tokens), ModelMaxLength}))

\* examples = [s + t ...]
InputIds(e) ==
    Truncate(IF e.merges THEN Front(e.source) \o <<"m">> \o Tail(e.target)
             ELSE e.source \o e.target)

\* Defect: the beginning-of-sentence token is not counted.
SourceLenBare(e) == Len(Truncate(e.source)) - 1

\* input_ids.ne(tokenizer.pad_token_id).sum() of the prompt alone.
SourceLen(e) == LET ids == Truncate(e.source) IN Cardinality({i \in DOMAIN ids : ids[i] # "pad"})

\* label[:source_len] = IGNORE_INDEX
Labels(e) == [i \in DOMAIN InputIds(e) |-> IF i <= SourceLen(e) THEN Ignore ELSE InputIds(e)[i]]

Tokenized(e) == [input_ids |-> InputIds(e), labels |-> Labels(e)]

\* The collator pads a batch on the right.
Padded(tokens, width, padding) ==
    [i \in 1 .. width |-> IF i <= Len(tokens) THEN tokens[i] ELSE padding]

Collate(batch) ==
    LET width == Max({Len(batch[i].input_ids) : i \in DOMAIN batch})
    IN  [i \in DOMAIN batch |->
           LET ids == Padded(batch[i].input_ids, width, "pad")
           IN  [input_ids |-> ids,
                labels |-> Padded(batch[i].labels, width, Ignore),
                attention_mask |-> [p \in 1 .. width |-> ids[p] # "pad"]]]

-----------------------------------------------------------------------------
(* The ranks *)

Goto(r, l) == pc' = [pc EXCEPT ![r] = l]

\* The cache that the others are to find; without it a rank maps the data itself.
MapExample(r) ==
    /\ pc[r] = "map" /\ ~cache_complete /\ Len(cache) < Len(raw)
    /\ cache' = Append(cache, Tokenized(raw[Len(cache) + 1]))
    /\ writers' = writers \union {r}
    /\ UNCHANGED <<raw, pc, cache_complete, train_dataset>>

AfterMap(r) == IF r = 0 THEN "barrier" ELSE "train"

MapEnds(r) ==
    /\ pc[r] = "map" /\ Len(cache) = Len(raw)
    /\ cache_complete' = TRUE
    /\ train_dataset' = [train_dataset EXCEPT ![r] = cache]
    /\ Goto(r, AfterMap(r))
    /\ UNCHANGED <<raw, cache, writers>>

\* Defect: the ranks wait behind the map, all of them.
BarrierForNone ==
    /\ pc[0] \in {"map", "barrier"}
    /\ pc' = [r \in Ranks |-> IF r = 0 THEN pc[0] ELSE "map"]
    /\ \E r \in Ranks \ {0} : pc[r] = "barrier"
    /\ UNCHANGED <<raw, cache, cache_complete, writers, train_dataset>>

\* torch.distributed.barrier(): rank 0's is behind its map, that of the others
\* before theirs.
Barrier ==
    /\ \A r \in Ranks : pc[r] = "barrier"
    /\ pc' = [r \in Ranks |-> IF r = 0 THEN "show" ELSE "map"]
    /\ UNCHANGED <<raw, cache, cache_complete, writers, train_dataset>>

\* random.sample(range(len(train_dataset)), 3) raises if there are fewer.
Show ==
    /\ pc[0] = "show"
    /\ Goto(0, IF Len(train_dataset[0]) >= Shown THEN "train" ELSE "failed")
    /\ UNCHANGED <<raw, cache, cache_complete, writers, train_dataset>>

\* trainer.train(), whose steps no rank takes alone, and the saving of the model.
Train ==
    /\ \A r \in Ranks : pc[r] = "train"
    /\ pc' = [r \in Ranks |-> "done"]
    /\ UNCHANGED <<raw, cache, cache_complete, writers, train_dataset>>

Fail(r) ==
    /\ pc[r] \in {"map", "show", "train"}
    /\ Goto(r, "failed")
    /\ UNCHANGED <<raw, cache, cache_complete, writers, train_dataset>>

\* Defect: ranks are left alone.
NeverKilled == FALSE /\ UNCHANGED vars

\* The launcher ends all ranks when one has failed.
LauncherKills ==
    /\ \E r \in Ranks : pc[r] = "failed"
    /\ pc' = [r \in Ranks |-> "failed"]
    /\ pc' # pc
    /\ UNCHANGED <<raw, cache, cache_complete, writers, train_dataset>>

Rank(r) == MapExample(r) \/ MapEnds(r) \/ (r = 0 /\ Show)

Over == (\A r \in Ranks : pc[r] \in {"done", "failed"}) /\ UNCHANGED vars

Next == \/ \E r \in Ranks : Rank(r) \/ Fail(r)
        \/ Barrier \/ Train \/ LauncherKills \/ Over

\* Ranks go on, collective operations end when all take part, and the launcher
\* notices a failure.
Fairness == /\ WF_vars(\E r \in Ranks : Rank(r))
            /\ WF_vars(Barrier) /\ WF_vars(Train) /\ WF_vars(LauncherKills)

Spec == Init /\ [][Next]_vars /\ Fairness

-----------------------------------------------------------------------------
(* Properties *)

\* The cache is written by rank 0 alone, and all ranks that train do so on the whole
\* of the same data.
OneCache ==
    /\ writers \subseteq {0}
    /\ \A r \in Ranks : pc[r] \in {"train", "done"} =>
         train_dataset[r] = [i \in DOMAIN raw |-> Tokenized(raw[i])]

\* In every batch, padded or truncated, exactly the tokens of the answer are learned,
\* never one of the prompt nor one that merged with it, and they are attended to.  A
\* prompt that contains the padding token's text breaks the first; an answer that does
\* has these tokens, and no others, learned without being attended to.
OnlyAnswerLearned ==
    \A r \in Ranks : pc[r] = "train" =>
        LET batch == Collate(train_dataset[r])
        IN  \A i \in DOMAIN batch : "pad" \notin Range(raw[i].source) =>
              \A p \in DOMAIN batch[i].labels :
                 LET token  == batch[i].input_ids[p]
                     answer == p <= Len(InputIds(raw[i])) /\ token \in {"t", "EOT", "pad"}
                 IN  /\ (batch[i].labels[p] # Ignore) <=> answer
                     /\ answer /\ ~batch[i].attention_mask[p] =>
                          token = "pad" /\ "pad" \in Range(raw[i].target)

\* No rank waits for ever at the barrier or in a step of the training for one that
\* failed: all are done, or all have ended.
NoneLeftWaiting == <>[](\A r \in Ranks : pc[r] \in {"done", "failed"})
=============================================================================
