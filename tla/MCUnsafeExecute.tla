-------------------------- MODULE MCUnsafeExecute --------------------------
(* Calls for one task: a correct completion, a wrong one and one that does not *)
(* compile, with few directory names so that calls share them.                 *)
EXTENDS UnsafeExecute
=============================================================================
