--------------------------- MODULE UnsafeExecute ---------------------------
(***************************************************************************)
(* unsafe_execute of human_eval/execution.py on the file system: one task  *)
(* in one language, several calls, of which any may be killed.  The rust   *)
(* branch shares a crate (RustBin), the others draw directories (WorkDir). *)
(***************************************************************************)
EXTENDS WorkDir, RustBin

vars == <<lang, pc, verdict, dirvars, rustvars>>

Init == CallsInit /\ DirsInit /\ RustInit

AllEnded == (\A c \in Calls : Ended(c)) /\ UNCHANGED vars

Next == \/ /\ lang # "rust"
           /\ \E c \in Calls : DirStep(c)
           /\ UNCHANGED rustvars
        \/ /\ lang = "rust"
           /\ \E c \in Calls : RustStep(c)
           /\ UNCHANGED dirvars
        \/ /\ \E c \in Calls : Kill(c)
           /\ UNCHANGED <<dirvars, rustvars>>
        \/ AllEnded

Spec == Init /\ [][Next]_vars

=============================================================================
