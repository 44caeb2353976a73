------------------------- MODULE MCCheckCorrectness -------------------------
(* One call of check_correctness with a short timeout. *)
EXTENDS CheckCorrectness
=============================================================================
