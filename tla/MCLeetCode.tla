----------------------------- MODULE MCLeetCode -----------------------------
(* Few samples of two tasks, of which the problem file may lack one, evaluated by *)
(* the script or by a direct call.                                                *)
EXTENDS LeetCode
=============================================================================
