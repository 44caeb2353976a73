----------------------------- MODULE LossyQueue -----------------------------
(***************************************************************************)
(* What the sensor ring promises its two users, without indices or memory: *)
(* a FIFO of at most Bound samples that never refuses a sample.  A push    *)
(* into a full queue discards the oldest sample and counts the loss.       *)
(* Samples are named by the sequence number the runtime gives them.        *)
(***************************************************************************)
EXTENDS Naturals, Sequences

CONSTANT Bound      \* samples the queue can hold, at least one

VARIABLES
    queue,          \* sequence numbers waiting, oldest first
    issued,         \* sequence number of the newest sample pushed
    lost            \* samples discarded to make room

vars == <<queue, issued, lost>>

Init == queue = <<>> /\ issued = 0 /\ lost = 0

Put ==
    /\ issued' = issued + 1
    /\ IF Len(queue) = Bound
       THEN queue' = Append(Tail(queue), issued + 1) /\ lost' = lost + 1
       ELSE queue' = Append(queue, issued + 1) /\ lost' = lost

Take ==
    /\ queue # <<>>
    /\ queue' = Tail(queue)
    /\ UNCHANGED <<issued, lost>>

Clear == queue' = <<>> /\ issued' = 0 /\ lost' = 0

Next == Put \/ Take \/ Clear

Spec == Init /\ [][Next]_vars
=============================================================================
