----------------------------- MODULE MCDistEval -----------------------------
(* Distributed evaluations of a few prompts. *)
EXTENDS DistEval
=============================================================================
