-------------------------- MODULE MCSensorRuntime --------------------------
(* The sensor runtime with the small sets of values TLC enumerates. *)
EXTENDS SensorRuntime
=============================================================================
