------------------------ MODULE SensorRuntimeProofs ------------------------
(***************************************************************************)
(* Proofs about SensorRuntime, for every capacity, batch size and bound:   *)
(* its invariants, and that it implements LossyQueue.                      *)
(***************************************************************************)
EXTENDS SensorRuntime, TLAPS

USE DEF Slots, Waiting

(* Masking an index is "go to the next slot, or back to the first". *)
LEMMA AdvanceWraps ==
    ASSUME NEW i \in Slots
    PROVE  Advance(i) = IF i + 1 = Capacity THEN 0 ELSE i + 1
<1>1. Capacity \in Nat \ {0}  BY CapacityAssumption
<1>2. CASE i + 1 = Capacity
  <2>1. Capacity % Capacity = 0  BY <1>1
  <2>. QED  BY <1>1, <1>2, <2>1 DEF Advance
<1>3. CASE i + 1 # Capacity
  BY <1>1, <1>3 DEF Advance
<1>. QED  BY <1>2, <1>3

(* The values of the constants, as the proofs below use them. *)
LEMMA Constants ==
    /\ Capacity \in Nat \ {0} /\ One \in Nat /\ One >= 5
    /\ Timestamps \subseteq Nat
    /\ Metrics \subseteq 0 .. One /\ Proxies \subseteq 0 .. One
    /\ MaxBatch \in Nat \ {0} /\ MaxSeq \in Nat
BY CapacityAssumption, OneAssumption, DataAssumption, BoundsAssumption

(* The number of waiting samples, and their slots, stay within the ring. *)
LEMMA SlotsWithinRing ==
    ASSUME TypeOK
    PROVE  /\ Count \in 0 .. Capacity - 1
           /\ \A k \in Waiting : Slot(k) \in Slots
BY Constants DEF TypeOK, Count, Slot

(* A quotient is a natural number, and stays below n if the dividend is below *)
(* n times the divisor.                                                       *)
LEMMA Quotient ==
    ASSUME NEW a \in Nat, NEW b \in Nat \ {0}
    PROVE  /\ a \div b \in Nat
           /\ \A n \in Nat : a < n * b => a \div b < n
<1>1. a \div b \in Int /\ b * (a \div b) <= a /\ a < b * (a \div b) + b
  OBVIOUS
<1>2. a \div b >= 0
  BY <1>1, Z3
<1>3. ASSUME NEW n \in Nat, a < n * b, a \div b >= n
      PROVE  FALSE
  <2>1. b * (a \div b) >= b * n  BY <1>1, <1>3
  <2>. QED  BY <1>1, <1>3, <2>1
<1>. QED  BY <1>1, <1>2, <1>3

(* The averages round down: from inputs at most One they cannot pass One - 3. *)
LEMMA AverageSaturates ==
    ASSUME NEW old \in Nat, NEW new \in Nat
    PROVE  /\ Average(old, new) \in Nat
           /\ old <= One - 3 /\ new <= One => Average(old, new) <= One - 3
BY Constants DEF Average

(* The score of a frame is a natural number, below 1000 for such a coherence. *)
LEMMA ScoreBelowThousand ==
    ASSUME NEW c \in Nat, NEW h \in Nat, c <= One - 3
    PROVE  InvariantMilli(c, h) \in Nat /\ InvariantMilli(c, h) < 1000
<1> DEFINE cm == (c * 1000) \div One
           hm == AtMost((h * 1000) \div One, 1000)
<1>1. cm \in Nat /\ cm < 1000
  <2>1. c * 1000 \in Nat /\ c * 1000 < 1000 * One /\ One \in Nat \ {0}  BY Constants
  <2>. QED  BY <2>1, Quotient
<1>2. hm \in 0 .. 1000
  <2>1. h * 1000 \in Nat /\ One \in Nat \ {0}  BY Constants
  <2>2. (h * 1000) \div One \in Nat  BY <2>1, Quotient
  <2>. QED  BY <2>2 DEF AtMost
<1>3. InvariantMilli(c, h) = (cm * (1000 - hm)) \div 1000
  BY DEF InvariantMilli
<1> HIDE DEF cm, hm
<1>4. cm * (1000 - hm) \in Nat /\ cm * (1000 - hm) <= cm * 1000
  <2>1. 1000 - hm \in 0 .. 1000  BY <1>2
  <2>. QED  BY <1>1, <2>1
<1>5. cm * (1000 - hm) < 1000 * 1000  BY <1>1, <1>4
<1>. QED  BY <1>3, <1>4, <1>5, Quotient

-----------------------------------------------------------------------------
(* How the two index moves change the waiting samples. *)

(* A push appends one slot, having released the oldest if the ring was full. *)
LEMMA PushShape ==
    ASSUME TypeOK, NEW ts \in Timestamps, PushQ16(ts)
    PROVE  /\ Full  => Count = Capacity - 1 /\ Count' = Count
           /\ ~Full => Count' = Count + 1
           /\ \A k \in 0 .. Count' - 1 : k = Count' - 1 => Slot(k)' = write_idx
           /\ \A k \in 0 .. Count' - 2 :
                /\ Slot(k)' = IF Full THEN Slot(k + 1) ELSE Slot(k)
                /\ Slot(k)' \in Slots /\ Slot(k)' # write_idx
<1>1. Capacity \in Nat \ {0} /\ read_idx \in Slots /\ write_idx \in Slots
  BY Constants DEF TypeOK
<1>2. /\ read_idx' = IF Full THEN Advance(read_idx) ELSE read_idx
      /\ write_idx' = Advance(write_idx)
  BY DEF PushQ16, ReadIdxAfterPush
<1>3. /\ Advance(read_idx) = IF read_idx + 1 = Capacity THEN 0 ELSE read_idx + 1
      /\ Advance(write_idx) = IF write_idx + 1 = Capacity THEN 0 ELSE write_idx + 1
  BY <1>1, AdvanceWraps
<1>4. CASE Full
  <2>1. read_idx' = IF read_idx + 1 = Capacity THEN 0 ELSE read_idx + 1  BY <1>2, <1>3, <1>4
  <2>2. write_idx' = read_idx  BY <1>2, <1>4 DEF Full
  <2>3. write_idx' = IF write_idx + 1 = Capacity THEN 0 ELSE write_idx + 1  BY <1>2, <1>3
  <2>. QED  BY <1>1, <1>4, <2>1, <2>2, <2>3 DEF Count, Slot
<1>5. CASE ~Full
  <2>1. read_idx' = read_idx  BY <1>2, <1>5
  <2>2. write_idx' # read_idx  BY <1>2, <1>5 DEF Full
  <2>3. write_idx' = IF write_idx + 1 = Capacity THEN 0 ELSE write_idx + 1  BY <1>2, <1>3
  <2>. QED  BY <1>1, <1>5, <2>1, <2>2, <2>3 DEF Count, Slot
<1>. QED  BY <1>4, <1>5

(* Consuming releases the oldest slot and leaves the others in their order. *)
LEMMA ConsumeShape ==
    ASSUME TypeOK, Looping, Consume
    PROVE  /\ Count > 0 /\ Slot(0) = read_idx
           /\ Count' = Count - 1
           /\ \A k \in 0 .. Count' - 1 : Slot(k)' = Slot(k + 1)
<1>1. Capacity \in Nat \ {0} /\ read_idx \in Slots /\ write_idx \in Slots
  BY Constants DEF TypeOK
<1>2. read_idx' = IF read_idx + 1 = Capacity THEN 0 ELSE read_idx + 1
  BY <1>1, AdvanceWraps DEF Consume
<1>3. write_idx' = write_idx /\ read_idx # write_idx
  BY DEF Consume, Looping
<1>. QED  BY <1>1, <1>2, <1>3 DEF Count, Slot

-----------------------------------------------------------------------------
(* The inductive invariant. *)

(* Between calls the locals are clear; during one, each iteration was counted. *)
CallAccounts ==
    /\ Idle => processed = 0 /\ metric_acc = 0
    /\ processed <= delivered + skipped

(* The newest waiting sample is the one last_timestamp_ns was set from. *)
NewestTimestamp ==
    \A k \in Waiting :
        k = Count - 1 => samples[Slot(k)].timestamp_ns = last_timestamp_ns

(* What was hashed is older than everything waiting. *)
DeliveredBeforeWaiting == last_out <= seq - Count

Accounting == Conservation /\ FlagsTellLosses /\ FrameSelfConsistent /\ CallAccounts
Ordering   == SlotsInOrder /\ DeliveredBeforeWaiting
Timing     == MonotonicUnlessFlagged /\ NewestTimestamp

IInv == TypeOK /\ Accounting /\ Ordering /\ Timing /\ AveragesSaturate

(* The invariant holds after the first raf_sensor_runtime_init. *)
LEMMA InitIInv == Init => IInv
<1>. SUFFICES ASSUME Init PROVE IInv
  OBVIOUS
<1>. USE Constants
<1>1. One \div 2 \in Nat /\ One \div 2 <= One - 3
  OBVIOUS
<1>2. Count = 0  BY DEF Init, Count
<1>3. TypeOK  BY <1>1 DEF Init, TypeOK, ClearedSamples, Sample, Flag
<1>4. Accounting
  BY <1>2 DEF Init, Accounting, Conservation, FlagsTellLosses, FrameSelfConsistent,
              CallAccounts
<1>5. Ordering /\ Timing
  BY <1>2 DEF Init, Ordering, SlotsInOrder, DeliveredBeforeWaiting, Timing,
              MonotonicUnlessFlagged, NewestTimestamp
<1>6. AveragesSaturate  BY <1>1 DEF Init, AveragesSaturate
<1>. QED  BY <1>3, <1>4, <1>5, <1>6 DEF IInv

-----------------------------------------------------------------------------
(* Each step preserves the invariant: one lemma per named part.  First the     *)
(* types; the averages keep the score of a frame a natural number.           *)
LEMMA TypeStep == TypeOK /\ AveragesSaturate /\ [Next]_vars => TypeOK'
<1>. SUFFICES ASSUME TypeOK, AveragesSaturate, [Next]_vars PROVE TypeOK'
  OBVIOUS
<1>. USE Constants DEF ring, ema, call, hist, Sample, Flag
<1>0. \A i \in Slots : Advance(i) \in Slots
  BY AdvanceWraps
<1>1. CASE RuntimeInit
  BY <1>1 DEF RuntimeInit, ResetRing, ClearedSamples, TypeOK
<1>2. ASSUME NEW ts \in Timestamps, PushQ16(ts) PROVE TypeOK'
  <2>1. read_idx' \in Slots /\ write_idx' \in Slots
    BY <1>0, <1>2 DEF PushQ16, ReadIdxAfterPush, TypeOK
  <2>2. ts \in Nat  BY <1>2
  <2>. QED  BY <1>2, <2>1, <2>2 DEF PushQ16, TypeOK
<1>3. ASSUME NEW max \in 1 .. MaxBatch, ProcessEnter(max) PROVE TypeOK'
  BY <1>3 DEF ProcessEnter, TypeOK
<1>4. CASE SkipSample
  <2>1. read_idx' \in Slots  BY <1>0, <1>4 DEF SkipSample, Consume, TypeOK
  <2>. QED  BY <1>4, <2>1 DEF SkipSample, Consume, TypeOK
<1>5. ASSUME NEW metric \in Metrics, AccumulateSample(metric) PROVE TypeOK'
  <2>1. metric \in Nat  BY <1>5
  <2>2. metric_acc' \in Nat
    BY <1>5, <2>1, Quotient DEF AccumulateSample, AtMost, TypeOK
  <2>3. read_idx' \in Slots  BY <1>0, <1>5 DEF AccumulateSample, Consume, TypeOK
  <2>4. last_out' \in Nat  BY <1>5 DEF AccumulateSample, TypeOK
  <2>. QED  BY <1>5, <2>2, <2>3, <2>4 DEF AccumulateSample, Consume, TypeOK
<1>6. CASE ProcessEmpty
  BY <1>6 DEF ProcessEmpty, Return, TypeOK
<1>7. ASSUME NEW proxy \in Proxies, ProcessCommit(proxy) PROVE TypeOK'
  <2>1. proxy \in Nat  BY <1>7
  <2>2. coherence_q16' \in Nat /\ entropy_q16' \in Nat /\ coherence_q16' <= One - 3
    BY <1>7, <2>1, AverageSaturates DEF ProcessCommit, TypeOK, AveragesSaturate
  <2>3. InvariantMilli(coherence_q16', entropy_q16') \in Nat
    BY <2>2, ScoreBelowThousand
  <2>4. last_debug' \in Frame
    BY <1>7, <2>2, <2>3 DEF ProcessCommit, Frame, TypeOK
  <2>. QED  BY <1>7, <2>2, <2>4 DEF ProcessCommit, Return, TypeOK
<1>8. CASE DebugSnapshot
  BY <1>8 DEF DebugSnapshot, TypeOK
<1>9. ASSUME NEW i \in Corruptible, CorruptSlot(i) PROVE TypeOK'
  <2>1. i \in Slots  BY DataAssumption
  <2>. QED  BY <1>9, <2>1 DEF CorruptSlot, TypeOK
<1>10. CASE UNCHANGED vars
  BY <1>10 DEF vars, TypeOK
<1>. QED
  BY <1>1, <1>2, <1>3, <1>4, <1>5, <1>6, <1>7, <1>8, <1>9, <1>10 DEF Next

(* Only process() moves the averages, and its clamps bound what enters them. *)
LEMMA AveragesStep == TypeOK /\ AveragesSaturate /\ [Next]_vars => AveragesSaturate'
<1>. SUFFICES ASSUME TypeOK, AveragesSaturate, [Next]_vars PROVE AveragesSaturate'
  OBVIOUS
<1>. USE Constants DEF ring, ema, call, hist
<1>1. CASE RuntimeInit
  <2>1. One \div 2 \in Nat /\ One \div 2 <= One - 3  OBVIOUS
  <2>. QED  BY <1>1, <2>1 DEF RuntimeInit, AveragesSaturate
<1>2. ASSUME NEW metric \in Metrics, AccumulateSample(metric) PROVE AveragesSaturate'
  <2>1. metric_acc' <= One
    BY <1>2, Quotient DEF AccumulateSample, AtMost, TypeOK
  <2>. QED  BY <1>2, <2>1 DEF AccumulateSample, Consume, AveragesSaturate
<1>3. ASSUME NEW proxy \in Proxies, ProcessCommit(proxy) PROVE AveragesSaturate'
  <2>1. proxy \in Nat /\ proxy <= One  BY <1>3
  <2>2. /\ coherence_q16' \in Nat /\ coherence_q16' <= One - 3
        /\ entropy_q16' \in Nat /\ entropy_q16' <= One - 3
    BY <1>3, <2>1, AverageSaturates DEF ProcessCommit, TypeOK, AveragesSaturate
  <2>3. last_debug'.invariant_milli < 1000
    BY <1>3, <2>2, ScoreBelowThousand DEF ProcessCommit
  <2>. QED  BY <1>3, <2>2, <2>3 DEF ProcessCommit, Return, AveragesSaturate
<1>4. ASSUME \/ \E ts \in Timestamps : PushQ16(ts)
             \/ \E max \in 1 .. MaxBatch : ProcessEnter(max)
             \/ SkipSample \/ ProcessEmpty \/ DebugSnapshot
             \/ \E i \in Corruptible : CorruptSlot(i)
             \/ UNCHANGED vars
      PROVE  AveragesSaturate'
  BY <1>4 DEF PushQ16, ProcessEnter, SkipSample, Consume, ProcessEmpty, Return,
              DebugSnapshot, CorruptSlot, vars, AveragesSaturate
<1>. QED  BY <1>1, <1>2, <1>3, <1>4 DEF Next

(* Conservation and the accounts that make it inductive, among them the flags *)
(* and the frame.                                                             *)
LEMMA AccountingStep == TypeOK /\ Accounting /\ [Next]_vars => Accounting'
<1>. SUFFICES ASSUME TypeOK, Accounting, [Next]_vars PROVE Accounting'
  OBVIOUS
<1>. USE Constants DEF ring, ema, call, hist, Accounting
<1>1. CASE RuntimeInit
  <2>1. Count' = 0  BY <1>1 DEF RuntimeInit, ResetRing, Count
  <2>. QED
    BY <1>1, <2>1 DEF RuntimeInit, ResetRing, TypeOK, Conservation, FlagsTellLosses,
                      FrameSelfConsistent, CallAccounts, Idle
<1>2. ASSUME NEW ts \in Timestamps, PushQ16(ts) PROVE Accounting'
  <2>1. Count \in Nat /\ Count' = IF Full THEN Count ELSE Count + 1
    BY <1>2, PushShape, SlotsWithinRing
  <2>2. Conservation'
    BY <1>2, <2>1 DEF PushQ16, TypeOK, Conservation
  <2>3. FlagsTellLosses'
    BY <1>2 DEF PushQ16, TypeOK, FlagsTellLosses
  <2>4. FrameSelfConsistent' /\ CallAccounts'
    BY <1>2 DEF PushQ16, TypeOK, FrameSelfConsistent, CallAccounts, Idle
  <2>. QED  BY <2>2, <2>3, <2>4
<1>3. CASE SkipSample
  <2>1. Count \in Nat /\ Count' = Count - 1
    BY <1>3, ConsumeShape, SlotsWithinRing DEF SkipSample
  <2>2. Conservation'
    BY <1>3, <2>1 DEF SkipSample, Consume, TypeOK, Conservation
  <2>3. FlagsTellLosses'
    BY <1>3 DEF SkipSample, Consume, TypeOK, FlagsTellLosses
  <2>4. FrameSelfConsistent' /\ CallAccounts'
    BY <1>3 DEF SkipSample, Consume, Looping, TypeOK, FrameSelfConsistent,
                CallAccounts, Idle
  <2>. QED  BY <2>2, <2>3, <2>4
<1>4. ASSUME NEW metric \in Metrics, AccumulateSample(metric) PROVE Accounting'
  <2>1. Count \in Nat /\ Count' = Count - 1
    BY <1>4, ConsumeShape, SlotsWithinRing DEF AccumulateSample
  <2>2. Conservation'
    BY <1>4, <2>1 DEF AccumulateSample, Consume, TypeOK, Conservation
  <2>3. FlagsTellLosses' /\ FrameSelfConsistent' /\ CallAccounts'
    BY <1>4 DEF AccumulateSample, Consume, Looping, TypeOK, FlagsTellLosses,
                FrameSelfConsistent, CallAccounts, Idle
  <2>. QED  BY <2>2, <2>3
<1>5. ASSUME NEW proxy \in Proxies, ProcessCommit(proxy) PROVE Accounting'
  <2>1. Count' = Count /\ Count \in Nat
    BY <1>5, SlotsWithinRing DEF ProcessCommit, Count
  <2>2. delivered + skipped > 0
    BY <1>5 DEF ProcessCommit, Nothing, CallAccounts, TypeOK
  <2>3. FrameSelfConsistent'
    <3>1. dropped < seq
      BY <2>1, <2>2 DEF Conservation, TypeOK
    <3>2. "OVERFLOW" \in flags \union ring_flags <=> dropped > 0
      BY DEF FlagsTellLosses
    <3>. QED
      BY <1>5, <3>1, <3>2 DEF ProcessCommit, FrameSelfConsistent
  <2>4. Conservation' /\ FlagsTellLosses' /\ CallAccounts'
    BY <1>5, <2>1 DEF ProcessCommit, Return, TypeOK, Conservation, FlagsTellLosses,
                      CallAccounts, Idle
  <2>. QED  BY <2>3, <2>4
<1>6. ASSUME NEW max \in 1 .. MaxBatch, ProcessEnter(max) PROVE Accounting'
  BY <1>6 DEF ProcessEnter, Conservation, Count, FlagsTellLosses, FrameSelfConsistent,
              CallAccounts, Idle, TypeOK
<1>7. CASE ProcessEmpty
  BY <1>7 DEF ProcessEmpty, Return, Conservation, Count, FlagsTellLosses,
              FrameSelfConsistent, CallAccounts, Idle, TypeOK
<1>8. ASSUME \/ DebugSnapshot \/ \E i \in Corruptible : CorruptSlot(i)
             \/ UNCHANGED vars
      PROVE  Accounting'
  BY <1>8 DEF DebugSnapshot, CorruptSlot, vars, Conservation, Count, FlagsTellLosses,
              FrameSelfConsistent, CallAccounts, Idle
<1>. QED
  BY <1>1, <1>2, <1>3, <1>4, <1>5, <1>6, <1>7, <1>8 DEF Next

(* The steps that move neither index keep every waiting slot in its place. *)
LEMMA OthersKeepSlots ==
    ASSUME TypeOK, [Next]_vars,
           ~RuntimeInit, \A ts \in Timestamps : ~PushQ16(ts), ~SkipSample,
           \A metric \in Metrics : ~AccumulateSample(metric)
    PROVE  /\ Count' = Count /\ seq' = seq /\ last_out' = last_out
           /\ flags' = flags /\ last_timestamp_ns' = last_timestamp_ns
           /\ \A k \in Waiting : Slot(k)' = Slot(k)
           /\ \A i \in Slots : /\ samples'[i].seq = samples[i].seq
                               /\ samples'[i].timestamp_ns = samples[i].timestamp_ns
<1>. USE DEF ring, ema, call, hist
<1>1. CASE \E i \in Corruptible : CorruptSlot(i)
  <2>1. PICK i \in Corruptible : CorruptSlot(i)  BY <1>1
  <2>2. /\ samples' = [samples EXCEPT ![i] = [samples[i] EXCEPT !.intact = FALSE]]
        /\ UNCHANGED <<write_idx, read_idx, seq, last_out, flags, last_timestamp_ns>>
    BY <2>1 DEF CorruptSlot
  <2>3. \A j \in Slots : samples[j] \in Sample  BY DEF TypeOK
  <2>4. \A j \in Slots : /\ samples'[j].seq = samples[j].seq
                         /\ samples'[j].timestamp_ns = samples[j].timestamp_ns
    BY <2>2, <2>3 DEF TypeOK, Sample
  <2>. QED  BY <2>2, <2>4 DEF Count, Slot
<1>2. CASE ~\E i \in Corruptible : CorruptSlot(i)
  BY <1>2 DEF Next, ProcessEnter, ProcessEmpty, ProcessCommit, Return, DebugSnapshot,
              vars, Count, Slot
<1>. QED  BY <1>1, <1>2

(* A consumed slot leaves the remaining samples where and what they were. *)
LEMMA ConsumeKeepsSamples ==
    ASSUME TypeOK, Looping, Consume
    PROVE  samples' = samples /\ seq' = seq /\ last_timestamp_ns' = last_timestamp_ns
BY DEF Consume, ema

(* The ring keeps its samples in order: a push appends the next one, an
   overflow and a consumed sample remove the oldest, nothing else reorders. *)
LEMMA OrderingStep == TypeOK /\ Ordering /\ [Next]_vars => Ordering'
<1>. SUFFICES ASSUME TypeOK, Ordering, [Next]_vars PROVE Ordering'
  OBVIOUS
<1>. USE DEF Ordering
<1>0. Count \in 0 .. Capacity - 1 /\ Capacity \in Nat /\ seq \in Nat /\ last_out \in Nat
  BY SlotsWithinRing, Constants DEF TypeOK
<1>1. CASE RuntimeInit
  BY <1>1 DEF RuntimeInit, ResetRing, Count, SlotsInOrder, DeliveredBeforeWaiting
<1>2. ASSUME NEW ts \in Timestamps, PushQ16(ts) PROVE Ordering'
  <2>1. seq' = seq + 1 /\ last_out' = last_out
    BY <1>2 DEF PushQ16, hist
  <2>2. samples' = [samples EXCEPT ![write_idx] =
                      [seq |-> seq + 1, timestamp_ns |-> ts, intact |-> TRUE]]
    BY <1>2 DEF PushQ16
  <2>3. write_idx \in Slots /\ samples \in [Slots -> Sample]  BY DEF TypeOK
  <2>4. Count' \in Nat /\ DeliveredBeforeWaiting'
    BY <1>0, <1>2, <2>1, PushShape DEF DeliveredBeforeWaiting
  <2>5. ASSUME NEW k \in 0 .. Count' - 1
        PROVE  samples'[Slot(k)'].seq = seq' - Count' + k + 1
    <3>1. CASE k = Count' - 1
      <4>1. Slot(k)' = write_idx
        BY <1>2, <2>5, <3>1, PushShape
      <4>2. samples'[write_idx].seq = seq + 1  BY <2>2, <2>3
      <4>. QED  BY <2>1, <2>4, <3>1, <4>1, <4>2, <1>0
    <3>2. CASE k \in 0 .. Count' - 2
      <4>1. samples'[Slot(k)'] = samples[Slot(k)']
        BY <1>2, <2>2, <2>3, <3>2, PushShape
      <4>2. CASE Full
        <5>1. Slot(k)' = Slot(k + 1) /\ Count' = Count /\ k + 1 \in Waiting
          BY <1>0, <1>2, <3>2, <4>2, PushShape
        <5>2. samples[Slot(k + 1)].seq = seq - Count + (k + 1) + 1
          BY <5>1 DEF SlotsInOrder
        <5>. QED  BY <1>0, <2>1, <4>1, <5>1, <5>2
      <4>3. CASE ~Full
        <5>1. Slot(k)' = Slot(k) /\ Count' = Count + 1 /\ k \in Waiting
          BY <1>0, <1>2, <3>2, <4>3, PushShape
        <5>2. samples[Slot(k)].seq = seq - Count + k + 1
          BY <5>1 DEF SlotsInOrder
        <5>. QED  BY <1>0, <2>1, <4>1, <5>1, <5>2
      <4>. QED  BY <4>2, <4>3
    <3>3. k = Count' - 1 \/ k \in 0 .. Count' - 2  BY <1>0, <1>2, <2>5, PushShape
    <3>. QED  BY <3>1, <3>2, <3>3
  <2>. QED  BY <2>4, <2>5 DEF SlotsInOrder
<1>3. ASSUME \/ SkipSample
             \/ \E metric \in Metrics : AccumulateSample(metric)
      PROVE  Ordering'
  <2>1. Looping /\ Consume
    BY <1>3 DEF SkipSample, AccumulateSample
  <2>2. /\ Count > 0 /\ Slot(0) = read_idx /\ Count' = Count - 1
        /\ \A k \in 0 .. Count' - 1 : Slot(k)' = Slot(k + 1)
        /\ samples' = samples /\ seq' = seq
    BY <2>1, ConsumeShape, ConsumeKeepsSamples
  <2>3. samples[read_idx].seq = seq - Count + 1
    BY <1>0, <2>2 DEF SlotsInOrder
  <2>4. DeliveredBeforeWaiting'
    BY <1>0, <1>3, <2>2, <2>3 DEF SkipSample, AccumulateSample, DeliveredBeforeWaiting
  <2>5. ASSUME NEW k \in 0 .. Count' - 1
        PROVE  samples'[Slot(k)'].seq = seq' - Count' + k + 1
    <3>1. k + 1 \in Waiting  BY <1>0, <2>2
    <3>2. samples[Slot(k + 1)].seq = seq - Count + (k + 1) + 1  BY <3>1 DEF SlotsInOrder
    <3>. QED  BY <1>0, <2>2, <3>2
  <2>. QED  BY <2>4, <2>5 DEF SlotsInOrder
<1>4. ASSUME ~RuntimeInit, \A ts \in Timestamps : ~PushQ16(ts), ~SkipSample,
             \A metric \in Metrics : ~AccumulateSample(metric)
      PROVE  Ordering'
  <2>1. \A k \in Waiting : samples'[Slot(k)'].seq = samples[Slot(k)].seq
    BY <1>4, OthersKeepSlots, SlotsWithinRing
  <2>2. Count' = Count /\ seq' = seq /\ last_out' = last_out
    BY <1>4, OthersKeepSlots
  <2>. QED  BY <2>1, <2>2 DEF SlotsInOrder, DeliveredBeforeWaiting
<1>. QED  BY <1>1, <1>2, <1>3, <1>4

(* Without a raised flag, a pushed timestamp exceeds the newest waiting one. *)
LEMMA TimingStep == TypeOK /\ Timing /\ [Next]_vars => Timing'
<1>. SUFFICES ASSUME TypeOK, Timing, [Next]_vars PROVE Timing'
  OBVIOUS
<1>. USE DEF Timing
<1>0. /\ Count \in 0 .. Capacity - 1 /\ Capacity \in Nat /\ last_timestamp_ns \in Nat
      /\ \A k \in Waiting : Slot(k) \in Slots
  BY SlotsWithinRing, Constants DEF TypeOK
<1>1. CASE RuntimeInit
  BY <1>1 DEF RuntimeInit, ResetRing, Count, MonotonicUnlessFlagged, NewestTimestamp
<1>2. ASSUME NEW ts \in Timestamps, PushQ16(ts) PROVE Timing'
  <2> DEFINE Before(k) == IF Full THEN k + 1 ELSE k
  <2>1. /\ samples' = [samples EXCEPT ![write_idx] =
                         [seq |-> seq + 1, timestamp_ns |-> ts, intact |-> TRUE]]
        /\ last_timestamp_ns' = ts /\ ts \in Nat
        /\ "BAD_TIMESTAMP" \notin flags' =>
             "BAD_TIMESTAMP" \notin flags /\ ~NotMonotonic(ts)
    BY <1>2, Constants DEF PushQ16
  <2>2. write_idx \in Slots /\ samples \in [Slots -> Sample]  BY DEF TypeOK
  <2>3. Count' = IF Full THEN Count ELSE Count + 1  BY <1>2, PushShape
  <2>4. ASSUME NEW k \in 0 .. Count' - 1, k = Count' - 1
        PROVE  samples'[Slot(k)'].timestamp_ns = ts
    <3>1. Slot(k)' = write_idx  BY <1>2, <2>4, PushShape
    <3>. QED  BY <2>1, <2>2, <3>1
  <2>5. ASSUME NEW k \in 0 .. Count' - 2
        PROVE  /\ Before(k) \in Waiting
               /\ samples'[Slot(k)'] = samples[Slot(Before(k))]
    <3>1. Before(k) \in Waiting  BY <1>0, <2>3, <2>5
    <3>2. Slot(k)' = Slot(Before(k)) /\ Slot(k)' # write_idx
      BY <1>2, <2>5, PushShape
    <3>3. Slot(Before(k)) \in Slots  BY <1>0, <3>1
    <3>. QED  BY <2>1, <2>2, <3>1, <3>2, <3>3
  <2>6. NewestTimestamp'  BY <2>1, <2>4 DEF NewestTimestamp
  <2>7. ASSUME "BAD_TIMESTAMP" \notin flags', NEW k \in 0 .. Count' - 1, k > 0
        PROVE  \/ samples'[Slot(k - 1)'].timestamp_ns < samples'[Slot(k)'].timestamp_ns
               \/ /\ samples'[Slot(k - 1)'].timestamp_ns = 0
                  /\ samples'[Slot(k)'].timestamp_ns = 0
    <3>0. Count' \in Nat /\ k - 1 \in 0 .. Count' - 2  BY <1>0, <2>3, <2>7
    <3>1. /\ Before(k - 1) \in Waiting
          /\ samples'[Slot(k - 1)'] = samples[Slot(Before(k - 1))]
      BY <3>0, <2>5
    <3>2. CASE k = Count' - 1
      <4>1. Before(k - 1) = Count - 1  BY <1>0, <2>3, <3>0, <3>2
      <4>2. samples'[Slot(k - 1)'].timestamp_ns = last_timestamp_ns
        BY <3>1, <4>1 DEF NewestTimestamp
      <4>3. samples'[Slot(k)'].timestamp_ns = ts  BY <2>4, <2>7, <3>2
      <4>4. last_timestamp_ns = 0 \/ last_timestamp_ns < ts
        BY <1>0, <2>1, <2>7 DEF NotMonotonic
      <4>. QED  BY <2>1, <4>2, <4>3, <4>4
    <3>3. CASE k \in 0 .. Count' - 2
      <4>1. Before(k) \in Waiting /\ samples'[Slot(k)'] = samples[Slot(Before(k))]
        BY <3>3, <2>5
      <4>2. Before(k) > 0 /\ Before(k - 1) = Before(k) - 1  BY <2>7, <3>3
      <4>3. "BAD_TIMESTAMP" \notin flags  BY <2>1, <2>7
      <4>. QED  BY <3>1, <4>1, <4>2, <4>3 DEF MonotonicUnlessFlagged
    <3>. QED  BY <2>7, <3>0, <3>2, <3>3
  <2>. QED  BY <2>6, <2>7 DEF MonotonicUnlessFlagged
<1>3. ASSUME \/ SkipSample
             \/ \E metric \in Metrics : AccumulateSample(metric)
      PROVE  Timing'
  <2>1. Looping /\ Consume
    BY <1>3 DEF SkipSample, AccumulateSample
  <2>2. /\ Count' = Count - 1
        /\ \A k \in 0 .. Count' - 1 : Slot(k)' = Slot(k + 1)
        /\ samples' = samples /\ last_timestamp_ns' = last_timestamp_ns
    BY <2>1, ConsumeShape, ConsumeKeepsSamples
  <2>3. "BAD_TIMESTAMP" \notin flags' => "BAD_TIMESTAMP" \notin flags
    BY <1>3 DEF SkipSample, AccumulateSample
  <2>4. ASSUME NEW k \in 0 .. Count' - 1
        PROVE  /\ k + 1 \in Waiting /\ samples'[Slot(k)'] = samples[Slot(k + 1)]
               /\ k > 0 => /\ k \in Waiting
                           /\ samples'[Slot(k - 1)'] = samples[Slot(k)]
    <3>1. k + 1 \in Waiting /\ k \in Waiting  BY <1>0, <2>2, <2>4
    <3>2. k > 0 => k - 1 \in 0 .. Count' - 1 /\ (k - 1) + 1 = k  BY <1>0, <2>2, <2>4
    <3>. QED  BY <2>2, <2>4, <3>1, <3>2
  <2>5. NewestTimestamp'
    BY <1>0, <2>2, <2>4 DEF NewestTimestamp
  <2>6. MonotonicUnlessFlagged'
    <3>1. SUFFICES ASSUME "BAD_TIMESTAMP" \notin flags', NEW k \in 0 .. Count' - 1, k > 0
          PROVE  \/ samples'[Slot(k - 1)'].timestamp_ns < samples'[Slot(k)'].timestamp_ns
                 \/ /\ samples'[Slot(k - 1)'].timestamp_ns = 0
                    /\ samples'[Slot(k)'].timestamp_ns = 0
      BY DEF MonotonicUnlessFlagged
    <3>2. /\ k + 1 \in Waiting /\ k + 1 > 0 /\ (k + 1) - 1 = k
          /\ samples'[Slot(k)'] = samples[Slot(k + 1)]
          /\ samples'[Slot(k - 1)'] = samples[Slot(k)]
      BY <2>4, <3>1
    <3>. QED  BY <2>3, <3>1, <3>2 DEF MonotonicUnlessFlagged
  <2>. QED  BY <2>5, <2>6
<1>4. ASSUME ~RuntimeInit, \A ts \in Timestamps : ~PushQ16(ts), ~SkipSample,
             \A metric \in Metrics : ~AccumulateSample(metric)
      PROVE  Timing'
  <2>1. /\ Count' = Count /\ flags' = flags /\ last_timestamp_ns' = last_timestamp_ns
        /\ \A k \in Waiting :
             samples'[Slot(k)'].timestamp_ns = samples[Slot(k)].timestamp_ns
    BY <1>0, <1>4, OthersKeepSlots
  <2>2. NewestTimestamp'  BY <2>1 DEF NewestTimestamp
  <2>3. MonotonicUnlessFlagged'
    <3>1. SUFFICES ASSUME "BAD_TIMESTAMP" \notin flags', NEW k \in 0 .. Count' - 1, k > 0
          PROVE  \/ samples'[Slot(k - 1)'].timestamp_ns < samples'[Slot(k)'].timestamp_ns
                 \/ /\ samples'[Slot(k - 1)'].timestamp_ns = 0
                    /\ samples'[Slot(k)'].timestamp_ns = 0
      BY DEF MonotonicUnlessFlagged
    <3>2. k \in Waiting /\ k - 1 \in Waiting  BY <1>0, <2>1, <3>1
    <3>. QED  BY <2>1, <3>1, <3>2 DEF MonotonicUnlessFlagged
  <2>. QED  BY <2>2, <2>3
<1>. QED  BY <1>1, <1>2, <1>3, <1>4

-----------------------------------------------------------------------------
(* The theorems. *)

(* The inductive invariant holds in every reachable state. *)
THEOREM Invariance == Spec => []IInv
<1>1. IInv /\ [Next]_vars => IInv'
  BY TypeStep, AccountingStep, OrderingStep, TimingStep, AveragesStep DEF IInv
<1>. QED  BY InitIInv, <1>1, PTL DEF Spec

(* Every variable keeps the type of its C field. *)
THEOREM TypeCorrect == Spec => []TypeOK
<1>1. IInv => TypeOK  BY DEF IInv
<1>. QED  BY Invariance, <1>1, PTL

(* No sample is unaccounted for, whatever the capacity and the batches. *)
THEOREM SamplesConserved == Spec => []Conservation
<1>1. IInv => Conservation  BY DEF IInv, Accounting
<1>. QED  BY Invariance, <1>1, PTL

(* The ring holds the newest samples, in the order they were pushed. *)
THEOREM RingInOrder == Spec => []SlotsInOrder
<1>1. IInv => SlotsInOrder  BY DEF IInv, Ordering
<1>. QED  BY Invariance, <1>1, PTL

(* The sticky flags and the frame tell the losses. *)
THEOREM LossesTold == Spec => [](FlagsTellLosses /\ FrameSelfConsistent)
<1>1. IInv => FlagsTellLosses /\ FrameSelfConsistent  BY DEF IInv, Accounting
<1>. QED  BY Invariance, <1>1, PTL

(* Timestamps are flagged as soon as they do not increase, but for zeros. *)
THEOREM TimestampsFlagged == Spec => []MonotonicUnlessFlagged
<1>1. IInv => MonotonicUnlessFlagged  BY DEF IInv, Timing
<1>. QED  BY Invariance, <1>1, PTL

(* The averages saturate below One: no frame ever reports a score of 1000. *)
THEOREM ScoreSaturates == Spec => []AveragesSaturate
<1>1. IInv => AveragesSaturate  BY DEF IInv
<1>. QED  BY Invariance, <1>1, PTL

(* Samples are hashed in the order they were pushed, none of them twice. *)
THEOREM HashedInOrder == Spec => DeliveredInOrder
<1>1. IInv /\ [Next]_vars => [last_out' # last_out => last_out' > last_out \/ seq' = 0]_vars
  <2>. SUFFICES ASSUME IInv, [Next]_vars, last_out' # last_out
       PROVE  last_out' > last_out \/ seq' = 0
    OBVIOUS
  <2>0. TypeOK /\ Ordering  BY DEF IInv
  <2>1. CASE RuntimeInit
    BY <2>1 DEF RuntimeInit
  <2>2. ASSUME NEW metric \in Metrics, AccumulateSample(metric) PROVE last_out' > last_out
    <3>1. Looping /\ Consume  BY <2>2 DEF AccumulateSample
    <3>2. Count > 0 /\ Slot(0) = read_idx /\ Count \in Nat
      BY <2>0, <3>1, ConsumeShape, SlotsWithinRing
    <3>3. samples[read_idx].seq = seq - Count + 1
      BY <2>0, <3>2 DEF Ordering, SlotsInOrder, TypeOK
    <3>. QED
      BY <2>0, <2>2, <3>2, <3>3
         DEF AccumulateSample, Ordering, DeliveredBeforeWaiting, TypeOK
  <2>. QED
    BY <2>1, <2>2
       DEF Next, PushQ16, ProcessEnter, SkipSample, Consume, ProcessEmpty, ProcessCommit,
           Return, DebugSnapshot, CorruptSlot, vars, hist
<1>. QED  BY Invariance, <1>1, PTL DEF Spec, DeliveredInOrder

-----------------------------------------------------------------------------
(* The ring implements LossyQueue.  It needs at least two slots: a ring of one
   holds nothing. *)

(* The sequence b + 1, b + 2, ... of n consecutive numbers. *)
Run(b, n) == [k \in 1 .. n |-> b + k]

(* A run is a sequence of its length, empty only when that is 0. *)
LEMMA RunIsSequence ==
    ASSUME NEW b \in Int, NEW n \in Nat
    PROVE  Run(b, n) \in Seq(Int) /\ Len(Run(b, n)) = n
           /\ (Run(b, n) = <<>> <=> n = 0)
<1>1. Run(b, n) \in Seq(Int)
  BY DEF Run
<1>2. Len(Run(b, n)) = n
  BY DEF Run
<1>. QED  BY <1>1, <1>2

(* The next number appended to a run makes the run longer by one: a push. *)
LEMMA AppendToRun ==
    ASSUME NEW b \in Int, NEW n \in Nat
    PROVE  Append(Run(b, n), b + n + 1) = Run(b, n + 1)
<1>1. Run(b, n) \in Seq(Int) /\ Len(Run(b, n)) = n  BY RunIsSequence
<1>. QED  BY <1>1 DEF Run

(* A run without its first number starts one later: a drop or a read. *)
LEMMA TailOfRun ==
    ASSUME NEW b \in Int, NEW n \in Nat, n > 0
    PROVE  Tail(Run(b, n)) = Run(b + 1, n - 1)
<1>1. Run(b, n) \in Seq(Int) /\ Len(Run(b, n)) = n  BY RunIsSequence
<1>. QED  BY <1>1 DEF Run

(* What waits in the ring is the run of numbers that ends with the newest. *)
LEMMA ContentsAreRun ==
    ASSUME TypeOK, SlotsInOrder
    PROVE  Contents = Run(seq - Count, Count)
<1>1. Count \in Nat /\ seq \in Nat  BY SlotsWithinRing, Constants DEF TypeOK
<1>2. ASSUME NEW k \in 1 .. Count
      PROVE  samples[Slot(k - 1)].seq = (seq - Count) + k
  <2>1. k - 1 \in Waiting /\ (k - 1) + 1 = k  BY <1>1, <1>2 DEF Waiting
  <2>. QED  BY <1>1, <2>1 DEF SlotsInOrder
<1>. QED  BY <1>2 DEF Contents, Run

(* The test of the code finds a full ring exactly when one slot is left. *)
LEMMA FullWhenLast ==
    ASSUME TypeOK
    PROVE  Full <=> Count = Capacity - 1
<1>1. Capacity \in Nat \ {0} /\ read_idx \in Slots /\ write_idx \in Slots
  BY Constants DEF TypeOK
<1>2. Advance(write_idx) = IF write_idx + 1 = Capacity THEN 0 ELSE write_idx + 1
  BY <1>1, AdvanceWraps
<1>. QED  BY <1>1, <1>2 DEF Full, Count, Slots

(* An initialised runtime is an empty queue. *)
LEMMA InitRefines == Init => Queue!Init
<1>. SUFFICES ASSUME Init PROVE Queue!Init
  OBVIOUS
<1>1. seq = 0 /\ dropped = 0 /\ Count = 0  BY DEF Init, Count
<1>2. TypeOK /\ SlotsInOrder  BY InitIInv DEF IInv, Ordering
<1>3. Contents = <<>>  BY <1>1, <1>2, ContentsAreRun, RunIsSequence
<1>. QED  BY <1>1, <1>3 DEF Queue!Init

(* Each step of the runtime is a step of the queue or leaves it alone; in a *)
(* ring of one slot a push would be neither.                              *)
LEMMA StepRefines ==
    ASSUME Capacity > 1, IInv, [Next]_vars, IInv'
    PROVE  [Queue!Next]_(Queue!vars)
<1>0. /\ TypeOK /\ SlotsInOrder
      /\ Contents = Run(seq - Count, Count) /\ Contents' = Run(seq' - Count', Count')
      /\ Count \in 0 .. Capacity - 1 /\ Capacity \in Nat /\ seq \in Nat /\ dropped \in Nat
  <2>1. /\ TypeOK /\ SlotsInOrder => Contents = Run(seq - Count, Count)
        /\ (TypeOK /\ SlotsInOrder => Contents = Run(seq - Count, Count))'
    BY ContentsAreRun, PTL
  <2>2. TypeOK /\ SlotsInOrder /\ TypeOK' /\ SlotsInOrder'  BY DEF IInv, Ordering
  <2>3. Contents' = Run(seq' - Count', Count')  BY <2>1, <2>2
  <2>. QED  BY <2>1, <2>2, <2>3, SlotsWithinRing, Constants DEF TypeOK
<1>1. Contents \in Seq(Int) /\ Len(Contents) = Count /\ (Contents = <<>> <=> Count = 0)
  <2>1. seq - Count \in Int /\ Count \in Nat  BY <1>0
  <2>. QED  BY <1>0, <2>1, RunIsSequence
<1>2. CASE RuntimeInit
  <2>1. seq' = 0 /\ dropped' = 0 /\ Count' = 0
    BY <1>2 DEF RuntimeInit, ResetRing, Count
  <2>2. Contents' = <<>>  BY <1>0, <2>1, RunIsSequence
  <2>. QED  BY <2>1, <2>2 DEF Queue!Next, Queue!Clear
<1>3. ASSUME NEW ts \in Timestamps, PushQ16(ts) PROVE Queue!Put
  <2>1. seq' = seq + 1  BY <1>3 DEF PushQ16
  <2>2. CASE Full
    <3>1. Count = Capacity - 1 /\ Count' = Count /\ dropped' = dropped + 1
      BY <1>3, <1>0, <2>2, PushShape DEF PushQ16
    <3>2. Tail(Contents) = Run(seq - Count + 1, Count - 1)
      <4>1. seq - Count \in Int /\ Count \in Nat /\ Count > 0  BY <1>0, <3>1
      <4>. QED  BY <1>0, <4>1, TailOfRun
    <3>3. Append(Tail(Contents), seq + 1) = Contents'
      <4>1. /\ seq - Count + 1 \in Int /\ Count - 1 \in Nat
            /\ (seq - Count + 1) + (Count - 1) + 1 = seq + 1
            /\ (Count - 1) + 1 = Count' /\ seq - Count + 1 = seq' - Count'
        BY <1>0, <2>1, <3>1
      <4>. QED  BY <1>0, <3>2, <4>1, AppendToRun
    <3>. QED  BY <1>1, <2>1, <3>1, <3>3 DEF Queue!Put
  <2>3. CASE ~Full
    <3>1. Count' = Count + 1 /\ dropped' = dropped
      BY <1>3, <1>0, <2>3, PushShape DEF PushQ16
    <3>2. Len(Contents) # Capacity - 1
      <4>1. Count # Capacity - 1
        BY <1>0, <2>3, FullWhenLast
      <4>. QED  BY <1>1, <4>1
    <3>3. Append(Contents, seq + 1) = Contents'
      <4>1. /\ seq - Count \in Int /\ Count \in Nat
            /\ (seq - Count) + Count + 1 = seq + 1 /\ seq - Count = seq' - Count'
        BY <1>0, <2>1, <3>1
      <4>. QED  BY <1>0, <3>1, <4>1, AppendToRun
    <3>. QED  BY <1>1, <2>1, <3>1, <3>2, <3>3 DEF Queue!Put
  <2>. QED  BY <2>2, <2>3
<1>4. ASSUME \/ SkipSample
             \/ \E metric \in Metrics : AccumulateSample(metric)
      PROVE  Queue!Take
  <2>1. Looping /\ Consume  BY <1>4 DEF SkipSample, AccumulateSample
  <2>2. Count > 0 /\ Count' = Count - 1 /\ seq' = seq  /\ dropped' = dropped
    BY <1>0, <2>1, ConsumeShape, ConsumeKeepsSamples DEF Consume
  <2>3. Contents' = Tail(Contents)
    <3>1. /\ seq - Count \in Int /\ Count \in Nat
          /\ seq' - Count' = seq - Count + 1
      BY <1>0, <2>2
    <3>. QED  BY <1>0, <2>2, <3>1, TailOfRun
  <2>. QED  BY <1>1, <2>2, <2>3 DEF Queue!Take
<1>5. ASSUME ~RuntimeInit, \A ts \in Timestamps : ~PushQ16(ts), ~SkipSample,
             \A metric \in Metrics : ~AccumulateSample(metric)
      PROVE  UNCHANGED Queue!vars
  <2>1. Count' = Count /\ seq' = seq  BY <1>0, <1>5, OthersKeepSlots
  <2>2. dropped' = dropped
    BY <1>5 DEF Next, ProcessEnter, ProcessEmpty, ProcessCommit, DebugSnapshot,
                CorruptSlot, vars, ring
  <2>. QED  BY <1>0, <2>1, <2>2 DEF Queue!vars
<1>. QED  BY <1>2, <1>3, <1>4, <1>5 DEF Queue!Next

(* Whatever its capacity, above one, the ring behaves as the bounded queue *)
(* that loses its oldest samples and never its newest.                     *)
THEOREM RingImplementsQueue ==
    ASSUME Capacity > 1
    PROVE  Spec => ImplementsLossyQueue
<1>1. IInv /\ [Next]_vars /\ IInv' => [Queue!Next]_(Queue!vars)
  BY StepRefines
<1>. QED
  BY InitRefines, Invariance, <1>1, PTL DEF Spec, ImplementsLossyQueue, Queue!Spec
=============================================================================
