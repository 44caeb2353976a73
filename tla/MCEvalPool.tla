----------------------------- MODULE MCEvalPool -----------------------------
(* Few samples, of two problems and of a task the problem file lacks. *)
EXTENDS EvalPool
=============================================================================
