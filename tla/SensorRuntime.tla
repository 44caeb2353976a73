--------------------------- MODULE SensorRuntime ---------------------------
(***************************************************************************)
(* core/sensor_runtime.c: the ring of sensor samples between the Android   *)
(* bridge, which pushes, and the native processing, which drains batches,  *)
(* checks each sample's CRC witness, averages and commits a debug frame.   *)
(*                                                                         *)
(* One thread calls the runtime, so calls never overlap; the array of      *)
(* samples belongs to the caller, whose memory may be overwritten at any   *)
(* moment (CorruptSlot).  process() is a loop: one step per iteration,     *)
(* between which nothing but such corruption can happen.                   *)
(*                                                                         *)
(* Abstracted: the CRC is a bit (does the witness match the sample?), the  *)
(* metric of a sample and the entropy proxy are any value their clamps     *)
(* allow, and the hash, the sensor mask and the torus fields, which        *)
(* nothing reads back, are left out.                                       *)
(***************************************************************************)
EXTENDS Integers, Sequences

CONSTANTS
    Capacity,        \* slots of the ring; init refuses all but powers of two
    One,             \* RAF_SENSOR_Q16_ONE, 65535 in the code
    Timestamps,      \* timestamp_ns values the bridge passes
    Metrics,         \* values of raf_sensor_metric_from_sample
    Proxies,         \* values of raf_sensor_entropy_proxy
    MaxBatch,        \* largest max_samples passed to process
    MaxSeq,          \* bound: samples pushed after one init
    Corruptible,     \* slots of the caller's array that something may overwrite
    Indeterminate    \* content of last_debug before anything wrote it

ASSUME CapacityAssumption ==
    /\ Capacity \in Nat \ {0}
    /\ \E k \in 0 .. 31 : Capacity = 2 ^ k
ASSUME OneAssumption == One \in Nat /\ One >= 5
ASSUME DataAssumption ==
    /\ Timestamps \subseteq Nat
    /\ Metrics \subseteq 0 .. One
    /\ Proxies \subseteq 0 .. One
    /\ Corruptible \subseteq 0 .. Capacity - 1
ASSUME BoundsAssumption == MaxBatch \in Nat \ {0} /\ MaxSeq \in Nat

VARIABLES
    samples,            \* the caller's backing store
    write_idx, read_idx, dropped, ring_flags,       \* rt->ring
    seq, last_timestamp_ns, coherence_q16, entropy_q16, flags, stage, last_debug,
    max_samples,        \* argument of the process call in flight, 0 if none
    processed, metric_acc,                          \* its locals
    delivered, skipped, \* history: samples hashed, samples refused
    last_out,           \* history: seq of the newest sample hashed
    snapshot_committed  \* history: the last debug_snapshot returned a committed frame

ring == <<samples, write_idx, read_idx, dropped, ring_flags>>
ema  == <<coherence_q16, entropy_q16>>
call == <<max_samples, processed, metric_acc>>
hist == <<delivered, skipped, last_out>>
vars == <<ring, seq, last_timestamp_ns, ema, flags, stage, last_debug,
          call, hist, snapshot_committed>>

Slots == 0 .. Capacity - 1
Flag  == {"OVERFLOW", "BAD_TIMESTAMP", "NO_COMMIT"}

Sample == [seq : Nat, timestamp_ns : Nat, intact : BOOLEAN]
Frame  == [seq : Nat, dropped : Nat, flags : SUBSET Flag,
           coherence_q16 : Nat, invariant_milli : Nat]

\* Defect the runs must detect: no index mask.
UnmaskedAdvance(i) == i + 1

\* (i + 1) & mask, the mask being Capacity - 1 and Capacity a power of two
Advance(i) == (i + 1) % Capacity

\* Number of samples waiting, and the slot of the k-th oldest of them.
Count == IF write_idx >= read_idx THEN write_idx - read_idx
                                  ELSE write_idx + Capacity - read_idx
Slot(k) == IF read_idx + k < Capacity THEN read_idx + k ELSE read_idx + k - Capacity
Waiting == 0 .. Count - 1

AtMost(v, hi) == IF v < hi THEN v ELSE hi

\* Defect: rounding up.
AverageUp(old, new) == (3 * old + new + 3) \div 4

Average(old, new) == (3 * old + new) \div 4

InvariantMilli(c, h) ==
    LET c_milli == (c * 1000) \div One
        h_milli == (h * 1000) \div One
    IN  (c_milli * (1000 - AtMost(h_milli, 1000))) \div 1000

\* A zeroed sample: its zero witness is not the CRC of its content.
ClearedSamples == [i \in Slots |-> [seq |-> 0, timestamp_ns |-> 0, intact |-> FALSE]]

\* After the first raf_sensor_runtime_init, which does not touch last_debug.
Init ==
    /\ samples = ClearedSamples
    /\ write_idx = 0 /\ read_idx = 0 /\ dropped = 0 /\ ring_flags = {}
    /\ seq = 0 /\ last_timestamp_ns = 0
    /\ coherence_q16 = One \div 2 /\ entropy_q16 = One \div 2
    /\ flags = {} /\ stage = 0
    /\ last_debug = Indeterminate
    /\ max_samples = 0 /\ processed = 0 /\ metric_acc = 0
    /\ delivered = 0 /\ skipped = 0 /\ last_out = 0
    /\ snapshot_committed = TRUE

Idle == max_samples = 0

\* Defects: a re-initialisation that forgets the read index, or the ring's flags.
ResetKeepsReadIdx == write_idx' = 0 /\ dropped' = 0 /\ ring_flags' = {} /\ UNCHANGED read_idx
ResetKeepsFlags   == write_idx' = 0 /\ read_idx' = 0 /\ dropped' = 0 /\ UNCHANGED ring_flags

ResetRing == write_idx' = 0 /\ read_idx' = 0 /\ dropped' = 0 /\ ring_flags' = {}

\* raf_sensor_runtime_init on a runtime already in use.
RuntimeInit ==
    /\ Idle
    /\ samples' = ClearedSamples
    /\ ResetRing
    /\ seq' = 0 /\ last_timestamp_ns' = 0
    /\ coherence_q16' = One \div 2 /\ entropy_q16' = One \div 2
    /\ flags' = {} /\ stage' = 0
    /\ delivered' = 0 /\ skipped' = 0 /\ last_out' = 0
    /\ UNCHANGED <<last_debug, call, snapshot_committed>>

\* Defects: overflow tested one slot too early, the oldest sample not released,
\* a repeated timestamp accepted.
FullTooEarly    == Advance(Advance(write_idx)) = read_idx
NothingReleased == read_idx
RepeatAccepted(ts) == last_timestamp_ns # 0 /\ ts < last_timestamp_ns

Full == Advance(write_idx) = read_idx
ReadIdxAfterPush == IF Full THEN Advance(read_idx) ELSE read_idx

\* A last timestamp of 0 means that there is none yet.
NotMonotonic(ts) == last_timestamp_ns # 0 /\ ts <= last_timestamp_ns

PushQ16(ts) ==
    /\ Idle
    /\ seq < MaxSeq
    /\ read_idx' = ReadIdxAfterPush
    /\ dropped' = IF Full THEN dropped + 1 ELSE dropped
    /\ ring_flags' = IF Full THEN ring_flags \union {"OVERFLOW"} ELSE ring_flags
    /\ seq' = seq + 1
    /\ samples' = [samples EXCEPT ![write_idx] =
                     [seq |-> seq + 1, timestamp_ns |-> ts, intact |-> TRUE]]
    /\ flags' = flags \union (IF Full THEN {"OVERFLOW"} ELSE {})
                      \union (IF NotMonotonic(ts) THEN {"BAD_TIMESTAMP"} ELSE {})
    /\ last_timestamp_ns' = ts
    /\ write_idx' = Advance(write_idx)
    /\ UNCHANGED <<ema, stage, last_debug, call, hist, snapshot_committed>>

ProcessEnter(max) ==
    /\ Idle
    /\ max_samples' = max /\ processed' = 0 /\ metric_acc' = 0
    /\ stage' = 1
    /\ UNCHANGED <<ring, seq, last_timestamp_ns, ema, flags, last_debug, hist, snapshot_committed>>

\* Defect: the loop runs past the write index.
OnlyBudgetTested == ~Idle /\ processed < max_samples

\* The condition of the while loop.
Looping == ~Idle /\ read_idx # write_idx /\ processed < max_samples

Nothing == processed = 0

Consume == /\ read_idx' = Advance(read_idx)
           /\ processed' = processed + 1
           /\ UNCHANGED <<samples, write_idx, dropped, ring_flags, seq, last_timestamp_ns,
                          ema, last_debug, max_samples, snapshot_committed>>

SkipSample ==
    /\ Looping
    /\ ~samples[read_idx].intact
    /\ stage' = 2
    /\ flags' = flags \union {"NO_COMMIT"}
    /\ skipped' = skipped + 1
    /\ Consume
    /\ UNCHANGED <<metric_acc, delivered, last_out>>

\* The witness is compared and the sample used in one step: no corruption in between.
AccumulateSample(metric) ==
    /\ Looping
    /\ samples[read_idx].intact
    /\ stage' = 4
    /\ metric_acc' = AtMost(metric_acc + metric \div 4, One)
    /\ delivered' = delivered + 1
    /\ last_out' = samples[read_idx].seq
    /\ Consume
    /\ UNCHANGED <<flags, skipped>>

Return == max_samples' = 0 /\ processed' = 0 /\ metric_acc' = 0

ProcessEmpty ==
    /\ ~Idle /\ ~Looping /\ Nothing
    /\ Return
    /\ UNCHANGED <<ring, seq, last_timestamp_ns, ema, flags, stage, last_debug, hist, snapshot_committed>>

ProcessCommit(proxy) ==
    /\ ~Idle /\ ~Looping /\ ~Nothing
    /\ coherence_q16' = Average(coherence_q16, metric_acc)
    /\ entropy_q16' = Average(entropy_q16, proxy)
    /\ stage' = 6
    /\ last_debug' = [seq |-> seq, dropped |-> dropped, flags |-> flags \union ring_flags,
                      coherence_q16 |-> coherence_q16',
                      invariant_milli |-> InvariantMilli(coherence_q16', entropy_q16')]
    /\ Return
    /\ UNCHANGED <<ring, seq, last_timestamp_ns, flags, hist, snapshot_committed>>

DebugSnapshot ==
    /\ Idle
    /\ snapshot_committed' = (last_debug # Indeterminate)
    /\ UNCHANGED <<ring, seq, last_timestamp_ns, ema, flags, stage, last_debug, call, hist>>

\* Environment: something writes over a slot of the caller's array.  Only slots
\* in use: a push rewrites a free one before process() can read it.
CorruptSlot(i) ==
    /\ \E k \in Waiting : i = Slot(k)
    /\ samples[i].intact
    /\ samples' = [samples EXCEPT ![i].intact = FALSE]
    /\ UNCHANGED <<write_idx, read_idx, dropped, ring_flags, seq, last_timestamp_ns, ema,
                   flags, stage, last_debug, call, hist, snapshot_committed>>

Next ==
    \/ RuntimeInit
    \/ \E ts \in Timestamps : PushQ16(ts)
    \/ \E max \in 1 .. MaxBatch : ProcessEnter(max)
    \/ SkipSample
    \/ \E metric \in Metrics : AccumulateSample(metric)
    \/ ProcessEmpty
    \/ \E proxy \in Proxies : ProcessCommit(proxy)
    \/ DebugSnapshot
    \/ \E i \in Corruptible : CorruptSlot(i)

Spec == Init /\ [][Next]_vars

-----------------------------------------------------------------------------
(* Properties *)

\* Every variable has the type its C field gives it.
TypeOK ==
    /\ samples \in [Slots -> Sample]
    /\ write_idx \in Slots /\ read_idx \in Slots
    /\ dropped \in Nat /\ ring_flags \in SUBSET Flag
    /\ seq \in Nat /\ last_timestamp_ns \in Nat
    /\ coherence_q16 \in Nat /\ entropy_q16 \in Nat
    /\ flags \in SUBSET Flag /\ stage \in 0 .. 6
    /\ last_debug \in Frame \union {Indeterminate}
    /\ max_samples \in Nat /\ processed \in Nat /\ metric_acc \in Nat
    /\ delivered \in Nat /\ skipped \in Nat /\ last_out \in Nat
    /\ snapshot_committed \in BOOLEAN

\* No sample is unaccounted for: everything pushed since init was hashed,
\* skipped for its witness, dropped by an overflow, or is still in the ring.
Conservation == seq = delivered + skipped + dropped + Count

\* The slots between the two indices hold the newest samples, in the order they
\* were pushed and without a gap, whatever mixture of wrap-around, overflow and
\* interrupted batches moved the indices there.
SlotsInOrder == \A k \in Waiting : samples[Slot(k)].seq = seq - Count + k + 1

\* process() hashes samples in the order they were pushed, each at most once.
DeliveredInOrder ==
    [][last_out' # last_out => last_out' > last_out \/ seq' = 0]_vars

\* The sticky flags tell exactly which losses happened since init, and the
\* copies the ring and the runtime keep of OVERFLOW agree.
FlagsTellLosses ==
    /\ "OVERFLOW" \in flags <=> dropped > 0
    /\ "NO_COMMIT" \in flags <=> skipped > 0
    /\ ring_flags = flags \intersect {"OVERFLOW"}

\* While BAD_TIMESTAMP has not been raised, waiting samples carry strictly
\* increasing timestamps; the code's sentinel makes an exception for zeros.
MonotonicUnlessFlagged ==
    "BAD_TIMESTAMP" \notin flags =>
        \A k \in Waiting : k > 0 =>
            LET older == samples[Slot(k - 1)].timestamp_ns
                newer == samples[Slot(k)].timestamp_ns
            IN  older < newer \/ (older = 0 /\ newer = 0)

\* Any committed frame can be trusted on its own: it follows at least one
\* sample that was not dropped, and shows OVERFLOW exactly when it counts drops.
FrameSelfConsistent ==
    last_debug # Indeterminate =>
        /\ last_debug.dropped < last_debug.seq
        /\ "OVERFLOW" \in last_debug.flags <=> last_debug.dropped > 0

\* The truncating averages can never climb back to One: both stay three units
\* short of it, so the score stays below 1000.
AveragesSaturate ==
    /\ coherence_q16 <= One - 3 /\ entropy_q16 <= One - 3
    /\ metric_acc <= One
    /\ last_debug # Indeterminate => last_debug.invariant_milli < 1000

\* "ring overflow; oldest sample was dropped" (docs/SENSOR_RUNTIME.md): the
\* sample just pushed is always kept.
NewestKept ==
    [][seq' = seq + 1 => Count' > 0]_vars

\* "Snapshot-only helper: copies the last debug frame" (sensor_runtime.h): what
\* a snapshot returns was committed by process().
SnapshotIsAFrame == snapshot_committed

\* A batch of n calls is the abstract queue: see LossyQueue.
Contents == [k \in 1 .. Count |-> samples[Slot(k - 1)].seq]
Queue == INSTANCE LossyQueue
         WITH Bound <- Capacity - 1, queue <- Contents, issued <- seq, lost <- dropped

\* The ring implements the bounded queue that loses its oldest sample.
ImplementsLossyQueue == Queue!Spec
=============================================================================
