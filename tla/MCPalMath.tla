----------------------------- MODULE MCPalMath -----------------------------
(* Three samples on one or two ranks, run twice. *)
EXTENDS PalMath
=============================================================================
