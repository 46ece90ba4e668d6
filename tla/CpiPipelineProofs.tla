--------------------------- MODULE CpiPipelineProofs ---------------------------
(***************************************************************************)
(* Proofs about the radar loop for any number of slots and samples, any    *)
(* buffer and block size and any set of frequencies.  First its own order: *)
(* types, mutual exclusion on the capture buffers, the conservation of     *)
(* slots, and that it never deadlocks on a lock.  Then what it delivers:   *)
(* every CPI once and in order, with both channels aligned, its frames     *)
(* before its time stamp and its own timings only; and every retune, in    *)
(* the order of TuneHandoff.                                               *)
(***************************************************************************)
EXTENDS CpiPipeline, FiniteSetTheorems, SequenceTheorems, WellFoundedInduction, TLAPS

--------------------------------------------------------------------------------
(* The inductive invariant                                                 *)

FrontPopping   == {"pop_1", "pop_2"}
FrontCarrying  == FrontPopping \cup {"unlock_1", "unlock_2", "exchange", "load", "filter", "drop"}
CapturePushing == {"push_1", "push_2"}

\* A stage has a slot exactly while it works on a CPI, and a loop over
\* samples has some left, which are in the buffers.
PcInv ==
  /\ frontPc = "pop_free" <=> frontSlot = NoSlot
  /\ backPc = "pop_filtered" <=> backSlot = NoSlot
  /\ capturePc \in {"lock_first", "lock_second"} \cup CapturePushing => toPush > 0
  /\ frontPc = "pop_1" => toPop > 0 /\ Len(buffer[1]) >= toPop /\ Len(buffer[2]) >= toPop
  /\ frontPc = "pop_2" => toPop > 0 /\ Len(buffer[1]) >= toPop - 1 /\ Len(buffer[2]) >= toPop

\* A slot that carries a CPI has its time stamp.
CarriesCpi(s) ==
  \/ s = frontSlot /\ frontPc \in FrontCarrying
  \/ s \in Elements(filteredSlots)
  \/ s = backSlot
Stamped == \A s \in Slots : CarriesCpi(s) => Len(slot[s].time) = 1

\* Each mutex is held by the thread whose program counter says so.
FrontHolds(c) ==
  \/ frontPc \in {"check"} \cup FrontPopping \cup {"unlock_1"}
  \/ frontPc = "lock_second" /\ c = FrontLockOrder[1]
  \/ frontPc \in {"retry", "unlock_2"} /\ c = 2
CaptureHolds(c) ==
  \/ capturePc \in CapturePushing \cup {"unlock_1"}
  \/ capturePc = "lock_second" /\ c = CaptureLockOrder[1]
  \/ capturePc = "unlock_2" /\ c = 2
MutexInv ==
  \A c \in Channels :
    /\ lock[c] = "front" <=> FrontHolds(c)
    /\ lock[c] = "capture" <=> CaptureHolds(c)

WellFormed == TypeOK /\ PcInv /\ Stamped

--------------------------------------------------------------------------------
(* Queues of slots                                                         *)

\* Taking the head of a queue without duplicates takes it out of its elements.
LEMMA TailElements ==
  ASSUME NEW S, NEW q \in Seq(S), q # <<>>
  PROVE  /\ Head(q) \in Elements(q) /\ Head(q) \in S /\ Tail(q) \in Seq(S)
         /\ Elements(Tail(q)) \subseteq Elements(q)
         /\ Elements(q) = Elements(Tail(q)) \cup {Head(q)}
         /\ Distinct(q) => Distinct(Tail(q)) /\ Head(q) \notin Elements(Tail(q))
<1>1. /\ Tail(q) \in Seq(S) /\ Len(Tail(q)) = Len(q) - 1 /\ Len(q) \in Nat \ {0}
      /\ \A i \in 1 .. Len(q) - 1 : Tail(q)[i] = q[i + 1]
      /\ Head(q) = q[1] /\ q[1] \in S
  BY HeadTailProperties
<1>2. DOMAIN q = 1 .. Len(q) /\ DOMAIN Tail(q) = 1 .. Len(q) - 1
  BY <1>1
<1>3. Elements(Tail(q)) \subseteq Elements(q)
  BY <1>1, <1>2 DEF Elements
<1>4. Elements(q) \subseteq Elements(Tail(q)) \cup {Head(q)}
  <2> SUFFICES ASSUME NEW i \in 1 .. Len(q) PROVE q[i] \in Elements(Tail(q)) \cup {Head(q)}
    BY <1>2 DEF Elements
  <2>1. CASE i = 1
    BY <2>1, <1>1
  <2>2. CASE i # 1
    <3>1. i - 1 \in 1 .. Len(q) - 1 /\ Tail(q)[i - 1] = q[i]
      BY <2>2, <1>1
    <3> QED
      BY <3>1, <1>2 DEF Elements
  <2> QED
    BY <2>1, <2>2
<1>5. Head(q) \in Elements(q)
  BY <1>1, <1>2 DEF Elements
<1>6. ASSUME Distinct(q) PROVE Distinct(Tail(q)) /\ Head(q) \notin Elements(Tail(q))
  <2>1. Distinct(Tail(q))
    BY <1>1, <1>2, <1>6 DEF Distinct
  <2>2. ASSUME NEW i \in 1 .. Len(q) - 1 PROVE Tail(q)[i] # Head(q)
    BY <1>1, <1>2, <1>6 DEF Distinct
  <2> QED
    BY <2>1, <2>2, <1>2 DEF Elements
<1> QED
  BY <1>1, <1>3, <1>4, <1>5, <1>6

\* Appending what a queue does not hold adds it to its elements.
LEMMA AppendElements ==
  ASSUME NEW S, NEW q \in Seq(S), NEW e \in S
  PROVE  /\ Append(q, e) \in Seq(S)
         /\ Elements(Append(q, e)) = Elements(q) \cup {e}
         /\ Distinct(q) /\ e \notin Elements(q) => Distinct(Append(q, e))
<1>1. /\ Append(q, e) \in Seq(S) /\ Len(Append(q, e)) = Len(q) + 1 /\ Len(q) \in Nat
      /\ \A i \in 1 .. Len(q) : Append(q, e)[i] = q[i]
      /\ Append(q, e)[Len(q) + 1] = e
  BY AppendProperties
<1>2. DOMAIN q = 1 .. Len(q) /\ DOMAIN Append(q, e) = 1 .. Len(q) + 1
  BY <1>1
<1>3. ASSUME NEW i \in 1 .. Len(q) + 1 PROVE i \in 1 .. Len(q) \/ i = Len(q) + 1
  BY <1>1
<1>4. Elements(Append(q, e)) \subseteq Elements(q) \cup {e}
  BY <1>1, <1>2, <1>3 DEF Elements
<1>5. Elements(q) \cup {e} \subseteq Elements(Append(q, e))
  <2>1. 1 .. Len(q) \subseteq 1 .. Len(q) + 1 /\ Len(q) + 1 \in 1 .. Len(q) + 1
    BY <1>1
  <2> QED
    BY <1>1, <1>2, <2>1 DEF Elements
<1>6. ASSUME Distinct(q), e \notin Elements(q) PROVE Distinct(Append(q, e))
  <2>1. \A i \in 1 .. Len(q) : Append(q, e)[i] \in Elements(q)
    BY <1>1, <1>2 DEF Elements
  <2> QED
    BY <1>1, <1>2, <1>3, <1>6, <2>1 DEF Distinct
<1> QED
  BY <1>1, <1>4, <1>5, <1>6

\* A push makes a queue of samples no shorter.
LEMMA PushedType ==
  ASSUME NEW q \in Seq(Nat), NEW size \in Nat \ {0}, NEW sample \in Nat
  PROVE  Pushed(q, size, sample) \in Seq(Nat) /\ Len(Pushed(q, size, sample)) >= Len(q)
<1>1. CASE Len(q) = size
  <2>1. q # <<>> /\ Tail(q) \in Seq(Nat) /\ Len(Tail(q)) = Len(q) - 1
    BY <1>1, HeadTailProperties
  <2>2. Append(Tail(q), sample) \in Seq(Nat) /\ Len(Append(Tail(q), sample)) = Len(q)
    BY <2>1, AppendProperties
  <2> QED
    BY <1>1, <2>2 DEF Pushed
<1>2. CASE Len(q) # size
  BY <1>2, AppendProperties DEF Pushed
<1> QED
  BY <1>1, <1>2

--------------------------------------------------------------------------------
(* Slots                                                                   *)

\* A timing added to a slot leaves its time stamps alone.
LEMMA TimedSlot ==
  ASSUME NEW s \in Slot, NEW name \in Stages
  PROVE  Timed(s, name) \in Slot /\ Timed(s, name).time = s.time
BY AppendProperties DEF Timed, Slot

\* So do the clearing of its channels, and the writes of the stages to its fields.
LEMMA SlotUpdates ==
  ASSUME NEW s \in Slot
  PROVE  /\ \A v \in Seq(Nat) : /\ [s EXCEPT !.x = v] \in Slot /\ [s EXCEPT !.x = v].time = s.time
                                /\ [s EXCEPT !.y = v] \in Slot /\ [s EXCEPT !.y = v].time = s.time
         /\ \A b \in BOOLEAN : /\ [s EXCEPT !.fcChanged = b] \in Slot
                               /\ [s EXCEPT !.fcChanged = b].time = s.time
         /\ \A f \in Fcs \cup {NoFc} : /\ [s EXCEPT !.fc = f] \in Slot
                                       /\ [s EXCEPT !.fc = f].time = s.time
         /\ \A names \in Seq(Stages) : /\ [s EXCEPT !.timingName = names] \in Slot
                                       /\ [s EXCEPT !.timingName = names].time = s.time
         /\ Cleared(s) \in Slot /\ Cleared(s).time = s.time
<1>1. <<>> \in Seq(Nat)
  BY EmptySeq
<1>2. Cleared(s) \in Slot /\ Cleared(s).time = s.time
  BY <1>1 DEF Cleared, Slot
<1> QED
  BY <1>2 DEF Slot

\* A reset slot that is stamped has one time stamp.
LEMMA ResetSlot ==
  ASSUME NEW s \in Slot, NEW k \in Nat
  PROVE  /\ [Reset(s) EXCEPT !.time = <<k>>] \in Slot
         /\ [Reset(s) EXCEPT !.time = <<k>>].time = <<k>>
<1>1. <<>> \in Seq(Nat) /\ <<>> \in Seq(Stages) /\ <<k>> \in Seq(Nat)
  BY EmptySeq
<1>2. Reset(s) \in Slot
  BY <1>1 DEF Reset, EmptySlot, Slot
<1> QED
  BY <1>1, <1>2 DEF Slot

--------------------------------------------------------------------------------
(* Types                                                                   *)

LEMMA InitWellFormed == Init => WellFormed
<1> SUFFICES ASSUME Init PROVE WellFormed
  OBVIOUS
<1> USE PipelineAssumption DEF Init
<1>1. TypeOK
  <2>1. Cardinality(Slots) \in Nat
    BY FS_CardinalityType
  <2>2. freeSlots \in Seq(Slots)
    BY <2>1, IsASeq
  <2>3. EmptySlot \in Slot
    BY DEF EmptySlot, Slot
  <2>4. <<>> \in Seq(Nat) /\ <<>> \in Seq(Slots)
    BY EmptySeq
  <2>5. /\ buffer \in [Channels -> Seq(Nat)] /\ lock \in [Channels -> Threads \cup {Nobody}]
        /\ slot \in [Slots -> Slot]
    BY <2>3, <2>4
  <2>6. \A i \in DOMAIN published : IsFrame(published[i])
    OBVIOUS
  <2> QED
    BY <2>2, <2>4, <2>5, <2>6 DEF TypeOK, CapturePcs, FrontPcs, BackPcs
<1>2. PcInv
  BY DEF PcInv, CapturePushing
<1>3. Stamped
  BY DEF Stamped, CarriesCpi, FrontCarrying, FrontPopping, Elements
<1> QED
  BY <1>1, <1>2, <1>3 DEF WellFormed

LEMMA CaptureWellFormed == WellFormed /\ Capture => WellFormed'
<1> SUFFICES ASSUME WellFormed, Capture PROVE WellFormed'
  OBVIOUS
<1> USE PipelineAssumption
<1>1. captureIdle
  BY DEF Capture, StreamCallback, CaptureLock, CapturePush, CaptureUnlock
<1> USE <1>1 DEF captureIdle, frontVars, backVars, slotVars, tuneVars, WellFormed
<1>2. Stamped'
  BY DEF Stamped, CarriesCpi
<1>3. /\ captured' \in Nat /\ capturePc' \in CapturePcs /\ toPush' \in Nat
      /\ capturePc' \in {"lock_first", "lock_second"} \cup CapturePushing => toPush' > 0
  BY DEF Capture, StreamCallback, CaptureLock, CapturePush, CaptureUnlock,
         TypeOK, PcInv, CapturePcs, CapturePushing
<1>4. lock' \in [Channels -> Threads \cup {Nobody}]
  BY DEF Capture, StreamCallback, CaptureLock, CapturePush, CaptureUnlock,
         Acquire, Release, TypeOK, Threads
<1>5. /\ buffer' \in [Channels -> Seq(Nat)]
      /\ \A c \in Channels : Len(buffer'[c]) >= Len(buffer[c])
  <2>1. ASSUME NEW b \in [Channels -> Seq(Nat)], NEW c \in Channels, NEW sample \in Nat
        PROVE  LET p == [b EXCEPT ![c] = Pushed(@, BufferSize, sample)]
               IN  p \in [Channels -> Seq(Nat)] /\ \A d \in Channels : Len(p[d]) >= Len(b[d])
    BY PushedType
  <2>2. CASE CapturePush
    <3>1. /\ buffer \in [Channels -> Seq(Nat)] /\ captured \in Nat /\ captured' \in Nat
          /\ 1 \in Channels /\ 2 \in Channels
      BY <1>3 DEF TypeOK, Channels
    <3>2. CASE capturePc = "push_1"
      <4>1. buffer' = [buffer EXCEPT ![1] = Pushed(@, BufferSize, captured')]
        BY <2>2, <3>2 DEF CapturePush
      <4> HIDE DEF captureIdle, WellFormed
      <4> QED
        BY <2>1, <3>1, <4>1
    <3>3. CASE capturePc = "push_2"
      <4>1. buffer' = [buffer EXCEPT ![2] = Pushed(@, BufferSize, captured)]
        BY <2>2, <3>3 DEF CapturePush
      <4> HIDE DEF captureIdle, WellFormed
      <4> QED
        BY <2>1, <3>1, <4>1
    <3> QED
      BY <2>2, <3>2, <3>3 DEF CapturePush
  <2>3. CASE ~CapturePush
    BY <2>3 DEF Capture, StreamCallback, CaptureLock, CaptureUnlock, TypeOK
  <2> QED
    BY <2>2, <2>3
<1>6. TypeOK'
  BY <1>3, <1>4, <1>5 DEF TypeOK
<1>7. PcInv'
  <2>1. /\ Len(buffer[1]) \in Nat /\ Len(buffer[2]) \in Nat
        /\ Len(buffer'[1]) \in Nat /\ Len(buffer'[2]) \in Nat
        /\ Len(buffer'[1]) >= Len(buffer[1]) /\ Len(buffer'[2]) >= Len(buffer[2])
        /\ toPop \in Nat
    BY <1>5 DEF TypeOK, Channels
  <2> QED
    BY <1>3, <2>1 DEF PcInv
<1> QED
  BY <1>2, <1>6, <1>7

\* A write to a slot that keeps its time stamps keeps every CPI stamped.
LEMMA StampedKept ==
  ASSUME WellFormed, NEW s \in Slots, NEW v \in Slot, v.time = slot[s].time,
         slot' = [slot EXCEPT ![s] = v],
         \A t \in Slots : CarriesCpi(t)' => CarriesCpi(t)
  PROVE  slot' \in [Slots -> Slot] /\ Stamped'
<1>1. slot' \in [Slots -> Slot] /\ \A t \in Slots : slot'[t].time = slot[t].time
  BY DEF WellFormed, TypeOK
<1> QED
  BY <1>1 DEF WellFormed, Stamped

\* While the front stage has a slot, what it holds is a slot.
LEMMA FrontSlotIsSlot ==
  ASSUME WellFormed, frontPc # "pop_free"
  PROVE  frontSlot \in Slots /\ slot[frontSlot] \in Slot /\ frontSlot # NoSlot
BY PipelineAssumption DEF WellFormed, TypeOK, PcInv

\* The front stage takes its slot and the two mutexes.
LEMMA FrontAcquires ==
  WellFormed /\ (FrontPopFree \/ FrontLock \/ FrontWait) => WellFormed'
<1> SUFFICES ASSUME WellFormed, FrontPopFree \/ FrontLock \/ FrontWait PROVE WellFormed'
  OBVIOUS
<1> USE PipelineAssumption DEF WellFormed, frontIdle, captureVars, backVars
<1>1. CASE FrontPopFree
  <2>1. /\ freeSlots \in Seq(Slots) /\ freeSlots # <<>>
        /\ frontSlot' = Head(freeSlots) /\ freeSlots' = Tail(freeSlots)
    BY <1>1 DEF FrontPopFree, TypeOK
  <2>2. frontSlot' \in Slots /\ freeSlots' \in Seq(Slots)
    BY <2>1, TailElements
  <2>3. TypeOK'
    BY <1>1, <2>2 DEF FrontPopFree, TypeOK, FrontPcs
  <2>4. PcInv'
    BY <1>1, <2>2 DEF FrontPopFree, PcInv
  <2>5. Stamped'
    BY <1>1 DEF FrontPopFree, Stamped, CarriesCpi, FrontCarrying, FrontPopping
  <2> QED
    BY <2>3, <2>4, <2>5
<1>2. CASE FrontLock \/ FrontWait
  <2>1. TypeOK'
    BY <1>2 DEF FrontLock, FrontWait, Acquire, Release, TypeOK, FrontPcs, Threads, slotVars
  <2>2. PcInv'
    BY <1>2 DEF FrontLock, FrontWait, PcInv
  <2>3. Stamped'
    BY <1>2 DEF FrontLock, FrontWait, Stamped, CarriesCpi, FrontCarrying, FrontPopping, slotVars
  <2> QED
    BY <2>1, <2>2, <2>3
<1> QED
  BY <1>1, <1>2

\* The front stage copies a CPI into its slot.
LEMMA FrontExtracts == WellFormed /\ FrontExtract => WellFormed'
<1> SUFFICES ASSUME WellFormed, FrontExtract PROVE WellFormed'
  OBVIOUS
<1>0. frontIdle
  BY DEF FrontExtract, FrontReset, FrontPop, FrontUnlock
<1>1. frontSlot \in Slots /\ slot[frontSlot] \in Slot /\ frontSlot # NoSlot
  BY FrontSlotIsSlot DEF FrontExtract, FrontReset, FrontPop, FrontUnlock
<1>2. /\ buffer \in [Channels -> Seq(Nat)] /\ toPop \in Nat /\ taken \in Seq(Nat)
      /\ 1 \in Channels /\ 2 \in Channels
      /\ Len(buffer[1]) \in Nat /\ Len(buffer[2]) \in Nat /\ Len(taken) \in Nat
      /\ buffer[1] \in Seq(Nat) /\ buffer[2] \in Seq(Nat)
  BY DEF WellFormed, TypeOK, Channels
<1>3. CASE FrontReset
  <2>1. Len(buffer[1]) > NSamples /\ Len(buffer[2]) > NSamples /\ NSamples \in Nat \ {0}
    BY <1>2, <1>3, PipelineAssumption DEF FrontReset, EnoughSamples
  <2>2. Head(buffer[1]) \in Nat
    BY <1>2, <2>1, HeadTailProperties
  <2>3. taken' \in Seq(Nat)
    BY <1>2, <1>3, <2>2, AppendProperties DEF FrontReset
  <2> DEFINE new == [Reset(slot[frontSlot]) EXCEPT !.time = <<Len(taken) + 1>>]
  <2>4. new \in Slot /\ Len(new.time) = 1
    <3>1. Len(taken) + 1 \in Nat
      BY <1>2
    <3>2. new \in Slot /\ new.time = <<Len(taken) + 1>>
      BY <1>1, <3>1, ResetSlot
    <3> QED
      BY <3>2
  <2>5. slot' = [slot EXCEPT ![frontSlot] = new]
    BY <1>3 DEF FrontReset
  <2> HIDE DEF new
  <2>6. slot' \in [Slots -> Slot] /\ Stamped'
    BY <1>0, <1>1, <1>3, <2>4, <2>5
       DEF FrontReset, WellFormed, TypeOK, Stamped, CarriesCpi, frontIdle, backVars
  <2>7. TypeOK'
    BY <1>0, <1>3, <2>1, <2>3, <2>6
       DEF FrontReset, WellFormed, TypeOK, FrontPcs, frontIdle, captureVars, backVars
  <2>8. PcInv'
    BY <1>0, <1>1, <1>2, <1>3, <2>1
       DEF FrontReset, WellFormed, PcInv, frontIdle, captureVars, backVars
  <2> QED
    BY <2>6, <2>7, <2>8 DEF WellFormed
<1>4. CASE FrontPop
  <2>0. NSamples \in Nat \ {0}
    BY PipelineAssumption
  <2>a. \A t \in Slots : CarriesCpi(t)' => CarriesCpi(t)
    BY <1>0, <1>4 DEF FrontPop, CarriesCpi, FrontCarrying, FrontPopping, frontIdle, backVars
  <2>1. CASE frontPc = "pop_1"
    <3>1. toPop > 0 /\ Len(buffer[1]) >= toPop /\ Len(buffer[2]) >= toPop
      BY <2>1 DEF WellFormed, PcInv
    <3>2. /\ Head(buffer[1]) \in Nat /\ Tail(buffer[1]) \in Seq(Nat)
          /\ Len(Tail(buffer[1])) = Len(buffer[1]) - 1
      BY <1>2, <3>1, HeadTailProperties
    <3> DEFINE v == Pushed(slot[frontSlot].x, NSamples, Head(buffer[1]))
               new == [slot[frontSlot] EXCEPT !.x = v]
    <3>3. v \in Seq(Nat)
      BY <1>1, <2>0, <3>2, PushedType DEF Slot
    <3>4. slot' = [slot EXCEPT ![frontSlot] = new]
      BY <1>4, <2>1 DEF FrontPop
    <3> HIDE DEF v
    <3>5. new \in Slot /\ new.time = slot[frontSlot].time
      BY <1>1, <3>3, SlotUpdates
    <3> HIDE DEF new
    <3>6. slot' \in [Slots -> Slot] /\ Stamped'
      BY <1>1, <2>a, <3>4, <3>5, StampedKept
    <3>7. /\ buffer' \in [Channels -> Seq(Nat)] /\ buffer'[1] = Tail(buffer[1])
          /\ buffer'[2] = buffer[2] /\ toPop' = toPop /\ frontPc' = "pop_2"
          /\ UNCHANGED <<lock, frontSlot, taken, dropped, freeSlots, filteredSlots, fcChanged>>
      <4>1. /\ buffer' = [buffer EXCEPT ![1] = Tail(@)] /\ toPop' = toPop /\ frontPc' = "pop_2"
            /\ UNCHANGED <<lock, frontSlot, taken, dropped, freeSlots, filteredSlots, fcChanged>>
        BY <1>4, <2>1 DEF FrontPop
      <4> QED
        BY <1>2, <3>2, <4>1
    <3>8. TypeOK'
      BY <1>0, <3>6, <3>7 DEF WellFormed, TypeOK, FrontPcs, frontIdle, captureVars, backVars
    <3>9. PcInv'
      BY <1>0, <1>1, <1>2, <3>1, <3>2, <3>7
         DEF WellFormed, PcInv, frontIdle, captureVars, backVars
    <3> QED
      BY <3>6, <3>8, <3>9 DEF WellFormed
  <2>2. CASE frontPc = "pop_2"
    <3>1. toPop > 0 /\ Len(buffer[1]) >= toPop - 1 /\ Len(buffer[2]) >= toPop
      BY <2>2 DEF WellFormed, PcInv
    <3>2. /\ Head(buffer[2]) \in Nat /\ Tail(buffer[2]) \in Seq(Nat)
          /\ Len(Tail(buffer[2])) = Len(buffer[2]) - 1
      BY <1>2, <3>1, HeadTailProperties
    <3> DEFINE v == Pushed(slot[frontSlot].y, NSamples, Head(buffer[2]))
               new == [slot[frontSlot] EXCEPT !.y = v]
    <3>3. v \in Seq(Nat)
      BY <1>1, <2>0, <3>2, PushedType DEF Slot
    <3>4. slot' = [slot EXCEPT ![frontSlot] = new]
      BY <1>4, <2>2 DEF FrontPop
    <3> HIDE DEF v
    <3>5. new \in Slot /\ new.time = slot[frontSlot].time
      BY <1>1, <3>3, SlotUpdates
    <3> HIDE DEF new
    <3>6. slot' \in [Slots -> Slot] /\ Stamped'
      BY <1>1, <2>a, <3>4, <3>5, StampedKept
    <3>7. /\ buffer' \in [Channels -> Seq(Nat)] /\ buffer'[2] = Tail(buffer[2])
          /\ buffer'[1] = buffer[1] /\ toPop' = toPop - 1
          /\ frontPc' = IF toPop' = 0 THEN "unlock_1" ELSE "pop_1"
          /\ UNCHANGED <<lock, frontSlot, taken, dropped, freeSlots, filteredSlots, fcChanged>>
      <4>1. /\ buffer' = [buffer EXCEPT ![2] = Tail(@)] /\ toPop' = toPop - 1
            /\ frontPc' = IF toPop' = 0 THEN "unlock_1" ELSE "pop_1"
            /\ UNCHANGED <<lock, frontSlot, taken, dropped, freeSlots, filteredSlots, fcChanged>>
        BY <1>4, <2>2 DEF FrontPop
      <4> QED
        BY <1>2, <3>2, <4>1
    <3>8. TypeOK'
      BY <1>0, <1>2, <3>1, <3>6, <3>7
         DEF WellFormed, TypeOK, FrontPcs, frontIdle, captureVars, backVars
    <3>9. PcInv'
      BY <1>0, <1>1, <1>2, <3>1, <3>2, <3>7
         DEF WellFormed, PcInv, frontIdle, captureVars, backVars
    <3> QED
      BY <3>6, <3>8, <3>9 DEF WellFormed
  <2> QED
    BY <1>4, <2>1, <2>2 DEF FrontPop
<1>5. CASE FrontUnlock
  <2>1. lock' \in [Channels -> Threads \cup {Nobody}]
    BY <1>5 DEF FrontUnlock, Release, WellFormed, TypeOK
  <2>2. \A t \in Slots : CarriesCpi(t)' => CarriesCpi(t)
    BY <1>0, <1>5 DEF FrontUnlock, CarriesCpi, FrontCarrying, FrontPopping, frontIdle, backVars
  <2>3. slot' \in [Slots -> Slot] /\ Stamped'
    <3>1. CASE frontPc = "unlock_1"
      BY <1>5, <2>2, <3>1 DEF FrontUnlock, WellFormed, TypeOK, Stamped
    <3>2. CASE frontPc = "unlock_2"
      <4> DEFINE new == Timed(slot[frontSlot], "extract_buffer")
      <4>0. "extract_buffer" \in Stages
        BY DEF Stages
      <4>1. new \in Slot /\ new.time = slot[frontSlot].time
        BY <1>1, <4>0, TimedSlot
      <4>2. slot' = [slot EXCEPT ![frontSlot] = new]
        BY <1>5, <3>2 DEF FrontUnlock
      <4> HIDE DEF new
      <4> QED
        BY <1>1, <2>2, <4>1, <4>2, StampedKept
    <3> QED
      BY <1>5, <3>1, <3>2 DEF FrontUnlock
  <2>4. TypeOK'
    BY <1>0, <1>5, <2>1, <2>3
       DEF FrontUnlock, WellFormed, TypeOK, FrontPcs, frontIdle, captureVars, backVars
  <2>5. PcInv'
    BY <1>0, <1>1, <1>5
       DEF FrontUnlock, WellFormed, PcInv, frontIdle, captureVars, backVars
  <2> QED
    BY <2>3, <2>4, <2>5 DEF WellFormed
<1> QED
  BY <1>3, <1>4, <1>5 DEF FrontExtract

\* The front stage latches a retune.
LEMMA FrontLatches == WellFormed /\ FrontLatch => WellFormed'
<1> SUFFICES ASSUME WellFormed, FrontLatch PROVE WellFormed'
  OBVIOUS
<1>0. frontIdle
  BY DEF FrontLatch, FrontExchange, FrontLoad
<1>1. frontSlot \in Slots /\ slot[frontSlot] \in Slot /\ frontSlot # NoSlot
  BY FrontSlotIsSlot DEF FrontLatch, FrontExchange, FrontLoad
<1>2. \A t \in Slots : CarriesCpi(t)' => CarriesCpi(t)
  BY <1>0 DEF FrontLatch, FrontExchange, FrontLoad, CarriesCpi, FrontCarrying, FrontPopping,
              frontIdle, backVars
<1>3. slot' \in [Slots -> Slot] /\ Stamped'
  <2>1. CASE FrontExchange
    <3> DEFINE new == [slot[frontSlot] EXCEPT !.fcChanged = fcChanged]
    <3>1. new \in Slot /\ new.time = slot[frontSlot].time
      BY <1>1, SlotUpdates DEF WellFormed, TypeOK
    <3>2. slot' = [slot EXCEPT ![frontSlot] = new]
      BY <2>1 DEF FrontExchange
    <3> HIDE DEF new
    <3> QED
      BY <1>1, <1>2, <3>1, <3>2, StampedKept
  <2>2. CASE FrontLoad
    <3> DEFINE new == [slot[frontSlot] EXCEPT !.fc = currentFc]
    <3>1. new \in Slot /\ new.time = slot[frontSlot].time
      BY <1>1, SlotUpdates DEF WellFormed, TypeOK
    <3>2. slot' = [slot EXCEPT ![frontSlot] = new]
      BY <2>2 DEF FrontLoad
    <3> HIDE DEF new
    <3> QED
      BY <1>1, <1>2, <3>1, <3>2, StampedKept
  <2> QED
    BY <2>1, <2>2 DEF FrontLatch
<1>4. TypeOK'
  <2>1. TypeOK /\ slot' \in [Slots -> Slot]
    BY <1>3 DEF WellFormed
  <2>2. /\ UNCHANGED <<buffer, lock, frontSlot, toPop, taken, dropped, freeSlots, filteredSlots>>
        /\ UNCHANGED <<config, captured, capturePc, toPush, backPc, backSlot, fc, published>>
        /\ UNCHANGED <<retunePc, retunes, deviceFc, currentFc>>
    BY <1>0 DEF FrontLatch, FrontExchange, FrontLoad, frontIdle, captureVars, backVars
  <2>3. frontPc' \in FrontPcs /\ fcChanged' \in BOOLEAN
    BY <2>1 DEF FrontLatch, FrontExchange, FrontLoad, FrontPcs, TypeOK
  <2> QED
    BY ONLY <2>1, <2>2, <2>3 DEF TypeOK
<1>5. PcInv'
  BY <1>0, <1>1 DEF FrontLatch, FrontExchange, FrontLoad, WellFormed, PcInv,
                    frontIdle, captureVars, backVars
<1> QED
  BY <1>3, <1>4, <1>5 DEF WellFormed

\* The front stage lets go of its slot: the CPI is filtered or dropped.
LEMMA FrontHandsOn == WellFormed /\ (FrontPass \/ FrontFail \/ FrontDrop) => WellFormed'
<1> SUFFICES ASSUME WellFormed, FrontPass \/ FrontFail \/ FrontDrop PROVE WellFormed'
  OBVIOUS
<1>0. frontIdle
  BY DEF FrontPass, FrontFail, FrontDrop
<1>1. frontSlot \in Slots /\ slot[frontSlot] \in Slot /\ frontSlot # NoSlot
  BY FrontSlotIsSlot DEF FrontPass, FrontFail, FrontDrop
<1>2. freeSlots \in Seq(Slots) /\ filteredSlots \in Seq(Slots)
  BY DEF WellFormed, TypeOK
<1>3. CASE FrontPass
  <2> DEFINE new == IF config.isClutter THEN Timed(slot[frontSlot], "clutter_filter")
                                        ELSE slot[frontSlot]
  <2>0. "clutter_filter" \in Stages
    BY DEF Stages
  <2>1. new \in Slot /\ new.time = slot[frontSlot].time
    BY <1>1, <2>0, TimedSlot
  <2>2. slot' = [slot EXCEPT ![frontSlot] = new]
    BY <1>3 DEF FrontPass
  <2> HIDE DEF new
  <2>3. /\ filteredSlots' \in Seq(Slots)
        /\ Elements(filteredSlots') = Elements(filteredSlots) \cup {frontSlot}
    BY <1>1, <1>2, <1>3, AppendElements DEF FrontPass
  <2>4. \A t \in Slots : CarriesCpi(t)' => CarriesCpi(t)
    <3>1. /\ frontSlot' = NoSlot /\ frontPc' = "pop_free" /\ backSlot' = backSlot
          /\ frontPc = "filter"
      BY <1>0, <1>3 DEF FrontPass, frontIdle, backVars
    <3> QED
      BY <2>3, <3>1 DEF CarriesCpi, FrontCarrying, FrontPopping
  <2>5. slot' \in [Slots -> Slot] /\ Stamped'
    BY <1>1, <2>1, <2>2, <2>4, StampedKept
  <2>6. TypeOK'
    BY <1>0, <1>3, <2>3, <2>5
       DEF FrontPass, WellFormed, TypeOK, FrontPcs, frontIdle, captureVars, backVars
  <2>7. PcInv'
    BY <1>0, <1>3 DEF FrontPass, WellFormed, PcInv, frontIdle, captureVars, backVars
  <2> QED
    BY <2>5, <2>6, <2>7 DEF WellFormed
<1>4. CASE FrontFail
  <2>1. slot[frontSlot].time[1] \in Nat
    BY <1>1, <1>4 DEF FrontFail, WellFormed, Stamped, CarriesCpi, FrontCarrying, FrontPopping, Slot
  <2>2. TypeOK'
    BY <1>0, <1>1, <1>4, <2>1 DEF FrontFail, WellFormed, TypeOK, Slot, FrontPcs, slotVars,
                              frontIdle, captureVars, backVars
  <2>3. PcInv'
    BY <1>0, <1>1, <1>4 DEF FrontFail, WellFormed, PcInv, frontIdle, captureVars, backVars
  <2>4. Stamped'
    BY <1>0, <1>4 DEF FrontFail, WellFormed, Stamped, CarriesCpi, FrontCarrying, FrontPopping,
                      slotVars, frontIdle, backVars
  <2> QED
    BY <2>2, <2>3, <2>4 DEF WellFormed
<1>5. CASE FrontDrop
  <2>1. Cleared(slot[frontSlot]) \in Slot /\ Cleared(slot[frontSlot]).time = slot[frontSlot].time
    BY <1>1, SlotUpdates
  <2>2. slot' = [slot EXCEPT ![frontSlot] = Cleared(slot[frontSlot])]
    BY <1>5 DEF FrontDrop
  <2>3. freeSlots' \in Seq(Slots)
    BY <1>1, <1>2, <1>5, AppendElements DEF FrontDrop
  <2>4. \A t \in Slots : CarriesCpi(t)' => CarriesCpi(t)
    BY <1>0, <1>5 DEF FrontDrop, CarriesCpi, FrontCarrying, FrontPopping, frontIdle, backVars
  <2>5. slot' \in [Slots -> Slot] /\ Stamped'
    BY <1>1, <2>1, <2>2, <2>4, StampedKept
  <2>6. TypeOK'
    BY <1>0, <1>5, <2>3, <2>5
       DEF FrontDrop, WellFormed, TypeOK, FrontPcs, frontIdle, captureVars, backVars
  <2>7. PcInv'
    BY <1>0, <1>5 DEF FrontDrop, WellFormed, PcInv, frontIdle, captureVars, backVars
  <2> QED
    BY <2>5, <2>6, <2>7 DEF WellFormed
<1> QED
  BY <1>3, <1>4, <1>5

\* While the back stage has a slot, what it holds is a slot.
LEMMA BackSlotIsSlot ==
  ASSUME WellFormed, backPc # "pop_filtered"
  PROVE  backSlot \in Slots /\ slot[backSlot] \in Slot /\ backSlot # NoSlot
BY PipelineAssumption DEF WellFormed, TypeOK, PcInv

\* The back stage takes a filtered CPI and its frequency.
LEMMA BackTakes == WellFormed /\ BackPopFiltered => WellFormed'
<1> SUFFICES ASSUME WellFormed, BackPopFiltered PROVE WellFormed'
  OBVIOUS
<1>0. backIdle
  BY DEF BackPopFiltered
<1>1. /\ filteredSlots \in Seq(Slots) /\ filteredSlots # <<>>
      /\ backSlot' = Head(filteredSlots) /\ filteredSlots' = Tail(filteredSlots)
  BY DEF BackPopFiltered, WellFormed, TypeOK
<1>2. /\ backSlot' \in Slots /\ backSlot' \in Elements(filteredSlots)
      /\ filteredSlots' \in Seq(Slots)
      /\ Elements(filteredSlots') \subseteq Elements(filteredSlots)
  BY <1>1, TailElements
<1>3. slot[backSlot'] \in Slot
  BY <1>2 DEF WellFormed, TypeOK
<1> DEFINE new == Timed(slot[backSlot'], "pipeline_wait")
<1>4. "pipeline_wait" \in Stages
  BY DEF Stages
<1>5. new \in Slot /\ new.time = slot[backSlot'].time
  BY <1>3, <1>4, TimedSlot
<1>6. slot' = [slot EXCEPT ![backSlot'] = new]
  BY DEF BackPopFiltered
<1> HIDE DEF new
<1>7. \A t \in Slots : CarriesCpi(t)' => CarriesCpi(t)
  BY <1>0, <1>2 DEF CarriesCpi, backIdle, frontVars
<1>8. slot' \in [Slots -> Slot] /\ Stamped'
  BY <1>2, <1>5, <1>6, <1>7, StampedKept
<1>9. fc' \in Fcs \cup {NoFc}
  BY <1>3 DEF BackPopFiltered, WellFormed, TypeOK, Slot
<1>10. TypeOK'
  BY <1>0, <1>2, <1>8, <1>9 DEF BackPopFiltered, WellFormed, TypeOK, BackPcs, backIdle,
                                captureVars, frontVars, tuneVars
<1>11. PcInv'
  BY <1>0, <1>2, PipelineAssumption
     DEF BackPopFiltered, WellFormed, PcInv, backIdle, captureVars, frontVars
<1> QED
  BY <1>8, <1>10, <1>11 DEF WellFormed

\* The names that processing and reporting add are names of stages.
LEMMA BackStagesType == BackStages \in Seq(Stages)
<1>1. <<"spectrum", "ambiguity_processing">> \in Seq(Stages)
  BY DEF Stages
<1>2. <<"spectrum", "ambiguity_processing", "detector">> \in Seq(Stages)
  BY DEF Stages
<1> QED
  BY <1>1, <1>2 DEF BackStages

\* Processing drains a CPI's channels and leaves its time stamp alone.
LEMMA ProcessedSlot ==
  ASSUME NEW s \in Slot
  PROVE  Processed(s) \in Slot /\ Processed(s).time = s.time
<1>1. s.x \in Seq(Nat) /\ s.y \in Seq(Nat) /\ s.timingName \in Seq(Stages)
  BY DEF Slot
<1>2. ASSUME NEW q \in Seq(Nat) PROVE SubSeq(q, Drained + 1, Len(q)) \in Seq(Nat)
  <2>1. Drained \in Nat /\ Len(q) \in Nat
    BY PipelineAssumption
  <2>2. \A i \in Drained + 1 .. Len(q) : q[i] \in Nat
    BY <2>1
  <2> QED
    BY <2>1, <2>2, SubSeqProperties
<1>3. s.timingName \o BackStages \in Seq(Stages)
  BY <1>1, BackStagesType, ConcatProperties
<1>4. /\ SubSeq(s.x, Drained + 1, Len(s.x)) \in Seq(Nat)
      /\ SubSeq(s.y, Drained + 1, Len(s.y)) \in Seq(Nat)
  BY <1>1, <1>2
<1> QED
  BY <1>3, <1>4 DEF Processed, Slot

LEMMA BackProcesses == WellFormed /\ BackProcess => WellFormed'
<1> SUFFICES ASSUME WellFormed, BackProcess PROVE WellFormed'
  OBVIOUS
<1>0. backIdle
  BY DEF BackProcess
<1>1. backSlot \in Slots /\ slot[backSlot] \in Slot
  BY BackSlotIsSlot DEF BackProcess
<1>2. Processed(slot[backSlot]) \in Slot /\ Processed(slot[backSlot]).time = slot[backSlot].time
  BY <1>1, ProcessedSlot
<1>3. slot' = [slot EXCEPT ![backSlot] = Processed(slot[backSlot])]
  BY DEF BackProcess
<1>4. \A t \in Slots : CarriesCpi(t)' => CarriesCpi(t)
  BY <1>0 DEF BackProcess, CarriesCpi, backIdle, frontVars
<1>5. slot' \in [Slots -> Slot] /\ Stamped'
  BY <1>1, <1>2, <1>3, <1>4, StampedKept
<1>6. TypeOK'
  BY <1>0, <1>5 DEF BackProcess, WellFormed, TypeOK, BackPcs, Kinds, backIdle,
                    captureVars, frontVars, tuneVars
<1>7. PcInv'
  BY <1>0 DEF BackProcess, WellFormed, PcInv, backIdle, captureVars, frontVars
<1> QED
  BY <1>5, <1>6, <1>7 DEF WellFormed

\* A frame sent is well formed, and the back stage goes on to the next one.
LEMMA BackSends == WellFormed /\ BackSend => WellFormed'
<1> SUFFICES ASSUME WellFormed, BackSend PROVE WellFormed'
  OBVIOUS
<1>0. backIdle
  BY DEF BackSend
<1>1. backSlot \in Slots /\ slot[backSlot] \in Slot
  BY BackSlotIsSlot DEF BackSend, Kinds
<1> DEFINE s == slot[backSlot]
           timings == s.timingName \o <<"output_radar_data", "cpi", "duty_cycle">>
           m == [kind |-> backPc, time |-> s.time[1], fc |-> fc,
                 names |-> IF backPc = "timing" THEN Reported(timings) ELSE <<>>]
<1>2. timings \in Seq(Stages)
  <2>1. <<"output_radar_data", "cpi", "duty_cycle">> \in Seq(Stages)
    BY DEF Stages
  <2>2. s.timingName \in Seq(Stages)
    BY <1>1 DEF Slot
  <2> QED
    BY <2>1, <2>2, ConcatProperties
<1>3. s.time[1] \in Nat
  BY <1>1 DEF WellFormed, Stamped, CarriesCpi, Slot
<1>4. published' = Append(published, m)
  BY DEF BackSend
<1>5. slot' = IF backPc = "timing" THEN [slot EXCEPT ![backSlot].timingName = timings] ELSE slot
  BY DEF BackSend
<1> HIDE DEF timings
<1>6. IsFrame(m)
  <2>1. \A i \in DOMAIN Reported(timings) : Reported(timings)[i] \in Stages
    BY <1>2 DEF Reported
  <2> QED
    BY <1>3, <2>1 DEF IsFrame, BackSend, WellFormed, TypeOK
<1> HIDE DEF m
<1>7. \A i \in DOMAIN published' : IsFrame(published'[i])
  BY <1>4, <1>6 DEF WellFormed, TypeOK
<1>8. \A t \in Slots : CarriesCpi(t)' => CarriesCpi(t)
  BY <1>0 DEF BackSend, CarriesCpi, backIdle, frontVars
<1>9. slot' \in [Slots -> Slot] /\ Stamped'
  <2>1. CASE backPc = "timing"
    <3> DEFINE new == [s EXCEPT !.timingName = timings]
    <3>1. new \in Slot /\ new.time = slot[backSlot].time
      BY <1>1, <1>2, SlotUpdates
    <3>2. slot' = [slot EXCEPT ![backSlot] = new]
      BY <1>5, <2>1
    <3> HIDE DEF new
    <3> QED
      BY <1>1, <1>8, <3>1, <3>2, StampedKept
  <2>2. CASE backPc # "timing"
    BY <1>5, <1>8, <2>2 DEF WellFormed, TypeOK, Stamped
  <2> QED
    BY <2>1, <2>2
<1>10. backPc' \in BackPcs /\ backPc' # "pop_filtered"
  BY DEF BackSend, AfterFrame, Kinds, BackPcs
<1>11. TypeOK'
  BY <1>0, <1>7, <1>9, <1>10 DEF BackSend, WellFormed, TypeOK, backIdle,
                                captureVars, frontVars, tuneVars
<1>12. PcInv'
  BY <1>0, <1>10 DEF BackSend, Kinds, WellFormed, PcInv, backIdle, captureVars, frontVars
<1> QED
  BY <1>9, <1>11, <1>12 DEF WellFormed

LEMMA BackReleases == WellFormed /\ BackRelease => WellFormed'
<1> SUFFICES ASSUME WellFormed, BackRelease PROVE WellFormed'
  OBVIOUS
<1>0. backIdle
  BY DEF BackRelease
<1>1. backSlot \in Slots /\ slot[backSlot] \in Slot /\ backSlot # NoSlot
  BY BackSlotIsSlot DEF BackRelease
<1>2. Cleared(slot[backSlot]) \in Slot /\ Cleared(slot[backSlot]).time = slot[backSlot].time
  BY <1>1, SlotUpdates
<1>3. slot' = [slot EXCEPT ![backSlot] = Cleared(slot[backSlot])]
  BY DEF BackRelease
<1>4. freeSlots' \in Seq(Slots)
  BY <1>1, AppendElements DEF BackRelease, WellFormed, TypeOK
<1>5. \A t \in Slots : CarriesCpi(t)' => CarriesCpi(t)
  BY <1>0, PipelineAssumption DEF BackRelease, CarriesCpi, backIdle, frontVars
<1>6. slot' \in [Slots -> Slot] /\ Stamped'
  BY <1>1, <1>2, <1>3, <1>5, StampedKept
<1>7. TypeOK'
  BY <1>0, <1>4, <1>6 DEF BackRelease, WellFormed, TypeOK, BackPcs, backIdle,
                          captureVars, frontVars, tuneVars
<1>8. PcInv'
  BY <1>0 DEF BackRelease, WellFormed, PcInv, backIdle, captureVars, frontVars
<1> QED
  BY <1>6, <1>7, <1>8 DEF WellFormed

\* The retune thread touches nothing but the retune.
LEMMA RetuneWellFormed == WellFormed /\ Retune => WellFormed'
<1> SUFFICES ASSUME WellFormed, Retune PROVE WellFormed'
  OBVIOUS
<1>1. retuneIdle
  BY DEF Retune, RetuneDevice, RetuneStore
<1> USE <1>1 DEF retuneIdle, captureVars, frontVars, backVars, slotVars
<1>2. TypeOK'
  <2>1. CASE RetuneDevice
    BY <2>1 DEF RetuneDevice, WellFormed, TypeOK
  <2>2. CASE RetuneStore
    BY <2>2 DEF RetuneStore, WellFormed, TypeOK
  <2> QED
    BY <2>1, <2>2 DEF Retune
<1>3. PcInv'
  BY DEF WellFormed, PcInv
<1>4. Stamped'
  BY DEF WellFormed, Stamped, CarriesCpi
<1> QED
  BY <1>2, <1>3, <1>4 DEF WellFormed

LEMMA StepWellFormed == WellFormed /\ [Next]_vars => WellFormed'
<1> SUFFICES ASSUME WellFormed, [Next]_vars PROVE WellFormed'
  OBVIOUS
<1>1. CASE Capture
  BY <1>1, CaptureWellFormed
<1>2. CASE Front
  BY <1>2, FrontAcquires, FrontExtracts, FrontLatches, FrontHandsOn DEF Front
<1>3. CASE Back
  BY <1>3, BackTakes, BackProcesses, BackSends, BackReleases DEF Back
<1>4. CASE Retune
  BY <1>4, RetuneWellFormed
<1>5. CASE UNCHANGED vars
  BY <1>5 DEF WellFormed, TypeOK, PcInv, Stamped, CarriesCpi, vars,
              captureVars, frontVars, backVars, slotVars, tuneVars
<1> QED
  BY <1>1, <1>2, <1>3, <1>4, <1>5 DEF Next

\* Every variable of the radar loop keeps its type.  With it: a stage has a
\* slot exactly while it works on a CPI (so slots[i] of blah2.cpp is never
\* read out of bounds), and never pops an empty capture buffer.
THEOREM TypeCorrect == Spec => []TypeOK
<1>1. Spec => []WellFormed
  BY InitWellFormed, StepWellFormed, PTL DEF Spec
<1>2. WellFormed => TypeOK
  BY DEF WellFormed
<1> QED
  BY <1>1, <1>2, PTL

--------------------------------------------------------------------------------
(* Mutual exclusion                                                        *)

LEMMA InitMutex == Init => MutexInv
BY DEF Init, MutexInv, FrontHolds, CaptureHolds, FrontPopping, CapturePushing, Nobody

LEMMA StepMutex == WellFormed /\ MutexInv /\ [Next]_vars => MutexInv'
<1> SUFFICES ASSUME WellFormed, MutexInv, [Next]_vars PROVE MutexInv'
  OBVIOUS
<1>0. /\ lock \in [Channels -> Threads \cup {Nobody}] /\ Channels = {1, 2}
      /\ FrontLockOrder = <<1, 2>> /\ CaptureLockOrder = <<1, 2>>
      /\ Nobody # "front" /\ Nobody # "capture"
  BY DEF WellFormed, TypeOK, Channels, FrontLockOrder, CaptureLockOrder, Nobody
<1> USE <1>0 DEF MutexInv, FrontHolds, CaptureHolds, FrontPopping, CapturePushing
<1>1. CASE CaptureLock
  BY <1>1 DEF CaptureLock, Acquire, captureIdle, frontVars
<1>2. CASE CaptureUnlock
  BY <1>2 DEF CaptureUnlock, Release, captureIdle, frontVars
<1>3. CASE StreamCallback \/ CapturePush
  BY <1>3 DEF StreamCallback, CapturePush, captureIdle, frontVars
<1>4. CASE FrontLock
  BY <1>4 DEF FrontLock, Acquire, frontIdle, captureVars
<1>5. CASE FrontWait
  BY <1>5 DEF FrontWait, Release, frontIdle, captureVars
<1>6. CASE FrontUnlock
  BY <1>6 DEF FrontUnlock, Release, frontIdle, captureVars
<1>7. CASE \/ FrontPopFree \/ FrontReset \/ FrontPop
           \/ FrontLatch \/ FrontPass \/ FrontFail \/ FrontDrop
  BY <1>7 DEF FrontPopFree, FrontReset, FrontPop, FrontLatch, FrontExchange, FrontLoad,
              FrontPass, FrontFail, FrontDrop, frontIdle, captureVars
<1>8. CASE Back
  BY <1>8 DEF Back, BackPopFiltered, BackProcess, BackSend, BackRelease, backIdle,
              captureVars, frontVars
<1>9. CASE Retune \/ UNCHANGED vars
  BY <1>9 DEF Retune, RetuneDevice, RetuneStore, retuneIdle, vars, captureVars, frontVars
<1> QED
  BY <1>1, <1>2, <1>3, <1>4, <1>5, <1>6, <1>7, <1>8, <1>9
     DEF Next, Capture, Front, FrontExtract

\* The two mutexes of the capture buffers exclude: at any time at most one of
\* the driver's callback and the extract is between its lock and its unlock.
THEOREM MutexesExclude == Spec => [](~(FrontHolds(1) /\ CaptureHolds(1)) /\ ~(FrontHolds(2) /\ CaptureHolds(2)))
<1>1. Spec => [](WellFormed /\ MutexInv)
  <2>1. Init => WellFormed /\ MutexInv
    BY InitWellFormed, InitMutex
  <2>2. WellFormed /\ MutexInv /\ [Next]_vars => (WellFormed /\ MutexInv)'
    BY StepWellFormed, StepMutex
  <2> QED
    BY <2>1, <2>2, PTL DEF Spec
<1>2. MutexInv => ~(FrontHolds(1) /\ CaptureHolds(1)) /\ ~(FrontHolds(2) /\ CaptureHolds(2))
  BY DEF MutexInv, Channels
<1> QED
  BY <1>1, <1>2, PTL

\* The callback and the extract, which both take the two mutexes, never wait
\* for each other.
THEOREM MutexesNeverCycle == Spec => []NoLockCycle
<1>1. ~(FrontHolds(1) /\ CaptureHolds(1)) => NoLockCycle
  BY DEF NoLockCycle, FrontHolds, CaptureHolds, FrontLockOrder, CaptureLockOrder
<1> QED
  BY <1>1, MutexesExclude, PTL

--------------------------------------------------------------------------------
(* Conservation of slots                                                   *)

LEMMA InitSlotsConserved == Init => SlotsConserved
BY PipelineAssumption DEF Init, SlotsConserved, Elements, Distinct

LEMMA StepSlotsConserved == WellFormed /\ SlotsConserved /\ [Next]_vars => SlotsConserved'
<1> SUFFICES ASSUME WellFormed, SlotsConserved, [Next]_vars PROVE SlotsConserved'
  OBVIOUS
<1>0. /\ freeSlots \in Seq(Slots) /\ filteredSlots \in Seq(Slots)
      /\ frontSlot \in Slots \cup {NoSlot} /\ backSlot \in Slots \cup {NoSlot}
      /\ NoSlot \notin Slots
      /\ NoSlot \notin Elements(freeSlots) /\ NoSlot \notin Elements(filteredSlots)
  BY PipelineAssumption DEF WellFormed, TypeOK, Elements
<1>1. CASE FrontPopFree
  <2>1. /\ frontSlot = NoSlot /\ freeSlots # <<>>
        /\ frontSlot' = Head(freeSlots) /\ freeSlots' = Tail(freeSlots)
        /\ filteredSlots' = filteredSlots /\ backSlot' = backSlot
    BY <1>1 DEF FrontPopFree, frontIdle, backVars, WellFormed, PcInv
  <2>2. /\ frontSlot' \in Elements(freeSlots) /\ frontSlot' \in Slots
        /\ Elements(freeSlots) = Elements(freeSlots') \cup {frontSlot'}
        /\ Distinct(freeSlots') /\ frontSlot' \notin Elements(freeSlots')
    BY <1>0, <2>1, TailElements DEF SlotsConserved
  <2> QED
    BY <1>0, <2>1, <2>2 DEF SlotsConserved
<1>2. CASE FrontPass
  <2>1. /\ frontSlot \in Slots /\ frontSlot' = NoSlot
        /\ filteredSlots' = Append(filteredSlots, frontSlot)
        /\ freeSlots' = freeSlots /\ backSlot' = backSlot
    BY <1>2, FrontSlotIsSlot DEF FrontPass, frontIdle, backVars
  <2>2. /\ Elements(filteredSlots') = Elements(filteredSlots) \cup {frontSlot}
        /\ Distinct(filteredSlots')
    BY <1>0, <2>1, AppendElements DEF SlotsConserved
  <2> QED
    BY <1>0, <2>1, <2>2 DEF SlotsConserved
<1>3. CASE FrontDrop
  <2>1. /\ frontSlot \in Slots /\ frontSlot' = NoSlot
        /\ freeSlots' = Append(freeSlots, frontSlot)
        /\ filteredSlots' = filteredSlots /\ backSlot' = backSlot
    BY <1>3, FrontSlotIsSlot DEF FrontDrop, frontIdle, backVars
  <2>2. /\ Elements(freeSlots') = Elements(freeSlots) \cup {frontSlot}
        /\ Distinct(freeSlots')
    BY <1>0, <2>1, AppendElements DEF SlotsConserved
  <2> QED
    BY <1>0, <2>1, <2>2 DEF SlotsConserved
<1>4. CASE BackPopFiltered
  <2>1. /\ backSlot = NoSlot /\ filteredSlots # <<>>
        /\ backSlot' = Head(filteredSlots) /\ filteredSlots' = Tail(filteredSlots)
        /\ freeSlots' = freeSlots /\ frontSlot' = frontSlot
    BY <1>4 DEF BackPopFiltered, backIdle, frontVars, WellFormed, PcInv
  <2>2. /\ backSlot' \in Elements(filteredSlots) /\ backSlot' \in Slots
        /\ Elements(filteredSlots) = Elements(filteredSlots') \cup {backSlot'}
        /\ Distinct(filteredSlots') /\ backSlot' \notin Elements(filteredSlots')
    BY <1>0, <2>1, TailElements DEF SlotsConserved
  <2> QED
    BY <1>0, <2>1, <2>2 DEF SlotsConserved
<1>5. CASE BackRelease
  <2>1. /\ backSlot \in Slots /\ backSlot' = NoSlot
        /\ freeSlots' = Append(freeSlots, backSlot)
        /\ filteredSlots' = filteredSlots /\ frontSlot' = frontSlot
    BY <1>5, BackSlotIsSlot DEF BackRelease, backIdle, frontVars
  <2>2. /\ Elements(freeSlots') = Elements(freeSlots) \cup {backSlot}
        /\ Distinct(freeSlots')
    BY <1>0, <2>1, AppendElements DEF SlotsConserved
  <2> QED
    BY <1>0, <2>1, <2>2 DEF SlotsConserved
<1>6. CASE UNCHANGED <<freeSlots, filteredSlots, frontSlot, backSlot>>
  BY <1>6 DEF SlotsConserved, Elements, Distinct
<1>7. Capture \/ Retune \/ UNCHANGED vars => UNCHANGED <<freeSlots, filteredSlots, frontSlot, backSlot>>
  BY DEF Capture, StreamCallback, CaptureLock, CapturePush, CaptureUnlock, captureIdle,
         Retune, RetuneDevice, RetuneStore, retuneIdle, vars, slotVars, frontVars, backVars
<1>8. FrontLock \/ FrontWait \/ FrontExtract \/ FrontLatch \/ FrontFail
        => UNCHANGED <<freeSlots, filteredSlots, frontSlot, backSlot>>
  BY DEF FrontLock, FrontWait, FrontExtract, FrontReset, FrontPop, FrontUnlock, FrontLatch,
         FrontExchange, FrontLoad, FrontFail, frontIdle, slotVars, backVars
<1>9. BackProcess \/ BackSend => UNCHANGED <<freeSlots, filteredSlots, frontSlot, backSlot>>
  BY DEF BackProcess, BackSend, backIdle, frontVars
<1> QED
  BY <1>1, <1>2, <1>3, <1>4, <1>5, <1>6, <1>7, <1>8, <1>9 DEF Next, Front, Back

\* No slot is ever lost, duplicated or held by two stages at once: the two
\* stages never work on the same CPI, whatever the filter drops.
THEOREM SlotsAreConserved == Spec => []SlotsConserved
<1>1. Init => WellFormed /\ SlotsConserved
  BY InitWellFormed, InitSlotsConserved
<1>2. WellFormed /\ SlotsConserved /\ [Next]_vars => (WellFormed /\ SlotsConserved)'
  BY StepWellFormed, StepSlotsConserved
<1> QED
  BY <1>1, <1>2, PTL DEF Spec

--------------------------------------------------------------------------------
(* What a step writes to the slots                                         *)

Time(s)    == slot[s].time[1]
NewTime(s) == slot'[s].time[1]

\* The front stage writes to its own slot only.
LEMMA FrontWrites ==
  ASSUME WellFormed, Front
  PROVE  /\ frontPc # "pop_free" => frontSlot \in Slots /\ slot[frontSlot] \in Slot
         /\ \A s \in Slots : s # frontSlot => slot'[s] = slot[s]
         /\ FrontPopFree \/ FrontLock \/ FrontWait \/ FrontFail => slot' = slot
<1>1. frontPc # "pop_free" => frontSlot \in Slots /\ slot[frontSlot] \in Slot
  BY FrontSlotIsSlot
<1>2. slot \in [Slots -> Slot]
  BY DEF WellFormed, TypeOK
<1>3. FrontPopFree \/ FrontLock \/ FrontWait \/ FrontFail => slot' = slot
  BY DEF FrontPopFree, FrontLock, FrontWait, FrontFail, slotVars
<1>4. ASSUME FrontExtract \/ FrontLatch \/ FrontPass \/ FrontDrop
      PROVE  slot' = slot \/ \E v : slot' = [slot EXCEPT ![frontSlot] = v]
  BY <1>4 DEF FrontExtract, FrontReset, FrontPop, FrontUnlock, FrontLatch, FrontExchange, FrontLoad,
              FrontPass, FrontDrop
<1> QED
  BY <1>1, <1>2, <1>3, <1>4 DEF Front

\* What the front stage writes to the fields of its slot, by its program counter.
LEMMA FrontFields ==
  ASSUME WellFormed, Front, frontPc # "pop_free"
  PROVE  LET old == slot[frontSlot]
             new == slot'[frontSlot]
         IN  /\ FrontReset => /\ new.time = <<Len(taken) + 1>> /\ new.timingName = <<>>
                              /\ new.fcChanged = FALSE
             /\ ~FrontReset => new.time = old.time
             /\ frontPc = "pop_1" => new.x = Pushed(old.x, NSamples, Head(buffer[1])) /\ new.y = old.y
             /\ frontPc = "pop_2" => new.x = old.x /\ new.y = Pushed(old.y, NSamples, Head(buffer[2]))
             /\ frontPc = "drop" => new.x = <<>> /\ new.y = <<>>
             /\ frontPc \notin {"pop_1", "pop_2", "drop"} => new.x = old.x /\ new.y = old.y
             /\ frontPc = "unlock_2" => new.timingName = Append(old.timingName, "extract_buffer")
             /\ FrontPass => new.timingName = IF config.isClutter
                                                THEN Append(old.timingName, "clutter_filter")
                                                ELSE old.timingName
             /\ ~FrontReset /\ frontPc # "unlock_2" /\ ~FrontPass => new.timingName = old.timingName
             /\ frontPc = "exchange" => new.fcChanged = fcChanged
             /\ ~FrontReset /\ frontPc # "exchange" => new.fcChanged = old.fcChanged
             /\ frontPc = "load" => new.fc = currentFc
             /\ ~FrontReset /\ frontPc # "load" => new.fc = old.fc
<1> DEFINE old == slot[frontSlot]
           new == slot'[frontSlot]
<1>1. frontSlot \in Slots /\ old \in Slot /\ slot \in [Slots -> Slot]
  BY FrontSlotIsSlot DEF WellFormed, TypeOK
<1>2. DOMAIN old = {"x", "y", "time", "timingName", "fcChanged", "fc"}
  BY <1>1 DEF Slot
<1>3. CASE FrontPopFree \/ FrontLock \/ FrontWait \/ FrontFail
  <2>1. new = old
    BY <1>3, FrontWrites
  <2>2. /\ frontPc \in {"pop_free", "lock_first", "lock_second", "check", "retry", "filter"}
        /\ ~FrontReset /\ ~FrontPass
    BY <1>3 DEF FrontPopFree, FrontLock, FrontWait, FrontFail, FrontReset, FrontPass
  <2> QED
    BY <2>1, <2>2
<1>4. CASE FrontReset
  <2>1. new = [Reset(old) EXCEPT !.time = <<Len(taken) + 1>>] /\ frontPc = "check" /\ ~FrontPass
    BY <1>1, <1>4 DEF FrontReset, FrontPass
  <2>2. /\ Reset(old).x = old.x /\ Reset(old).y = old.y
        /\ Reset(old).timingName = <<>> /\ Reset(old).fcChanged = FALSE
        /\ DOMAIN Reset(old) = {"x", "y", "time", "timingName", "fcChanged", "fc"}
    BY DEF Reset, EmptySlot
  <2> QED
    BY <1>4, <2>1, <2>2
<1>5. CASE FrontPop
  <2>1. ~FrontReset /\ ~FrontPass
    BY <1>5 DEF FrontPop, FrontReset, FrontPass
  <2>2. CASE frontPc = "pop_1"
    <3>1. new = [old EXCEPT !.x = Pushed(@, NSamples, Head(buffer[1]))]
      BY <1>1, <1>5, <2>2 DEF FrontPop
    <3> QED
      BY <1>2, <2>1, <2>2, <3>1
  <2>3. CASE frontPc = "pop_2"
    <3>1. new = [old EXCEPT !.y = Pushed(@, NSamples, Head(buffer[2]))]
      BY <1>1, <1>5, <2>3 DEF FrontPop
    <3> QED
      BY <1>2, <2>1, <2>3, <3>1
  <2> QED
    BY <1>5, <2>2, <2>3 DEF FrontPop
<1>6. CASE FrontUnlock
  <2>1. frontPc \in {"unlock_1", "unlock_2"} /\ ~FrontReset /\ ~FrontPass
    BY <1>6 DEF FrontUnlock, FrontReset, FrontPass
  <2>2. new = IF frontPc = "unlock_1" THEN old ELSE Timed(old, "extract_buffer")
    BY <1>1, <1>6 DEF FrontUnlock
  <2> QED
    BY <1>2, <2>1, <2>2 DEF Timed
<1>7. CASE FrontLatch
  <2>1. frontPc \in {"exchange", "load"} /\ ~FrontReset /\ ~FrontPass
    BY <1>7 DEF FrontLatch, FrontExchange, FrontLoad, FrontReset, FrontPass
  <2>2. new = IF frontPc = "exchange" THEN [old EXCEPT !.fcChanged = fcChanged]
                                      ELSE [old EXCEPT !.fc = currentFc]
    BY <1>1, <1>7 DEF FrontLatch, FrontExchange, FrontLoad
  <2> QED
    BY <1>2, <2>1, <2>2
<1>8. CASE FrontPass
  <2>1. frontPc = "filter" /\ ~FrontReset
    BY <1>8 DEF FrontPass, FrontReset
  <2>2. new = IF config.isClutter THEN Timed(old, "clutter_filter") ELSE old
    BY <1>1, <1>8 DEF FrontPass
  <2> QED
    BY <1>2, <1>8, <2>1, <2>2 DEF Timed
<1>9. CASE FrontDrop
  <2>1. frontPc = "drop" /\ ~FrontReset /\ ~FrontPass
    BY <1>9 DEF FrontDrop, FrontReset, FrontPass
  <2>2. new = Cleared(old)
    BY <1>1, <1>9 DEF FrontDrop
  <2> QED
    BY <1>2, <2>1, <2>2 DEF Cleared
<1> QED
  BY <1>3, <1>4, <1>5, <1>6, <1>7, <1>8, <1>9 DEF Front, FrontExtract

\* The back stage writes to the slot it has, or takes, only.
LEMMA BackFields ==
  ASSUME WellFormed, Back
  PROVE  LET it  == IF BackPopFiltered THEN Head(filteredSlots) ELSE backSlot
             old == slot[it]
             new == slot'[it]
         IN  /\ it \in Slots /\ old \in Slot
             /\ \A s \in Slots : s # it => slot'[s] = slot[s]
             /\ new.time = old.time /\ new.fcChanged = old.fcChanged /\ new.fc = old.fc
             /\ backPc # "process" /\ backPc # "release" => new.x = old.x /\ new.y = old.y
             /\ backPc = "release" => new.x = <<>> /\ new.y = <<>>
             /\ BackPopFiltered => new.timingName = Append(old.timingName, "pipeline_wait")
             /\ backPc = "process" => new.timingName = old.timingName \o BackStages
             /\ backPc \in {"iqdata", "map", "detection", "timestamp", "release"} =>
                  new.timingName = old.timingName
<1> DEFINE it  == IF BackPopFiltered THEN Head(filteredSlots) ELSE backSlot
           old == slot[it]
           new == slot'[it]
<1>0. slot \in [Slots -> Slot]
  BY DEF WellFormed, TypeOK
<1>1. CASE BackPopFiltered
  <2>1. /\ filteredSlots \in Seq(Slots) /\ filteredSlots # <<>> /\ backPc = "pop_filtered"
        /\ it = Head(filteredSlots) /\ it = backSlot'
    BY <1>1 DEF BackPopFiltered, WellFormed, TypeOK
  <2>2. it \in Slots /\ old \in Slot
    BY <1>0, <2>1, TailElements
  <2>3. slot' = [slot EXCEPT ![it] = Timed(old, "pipeline_wait")]
    BY <1>1, <2>1 DEF BackPopFiltered
  <2> HIDE DEF it
  <2>4. DOMAIN old = {"x", "y", "time", "timingName", "fcChanged", "fc"}
    BY <2>2 DEF Slot
  <2> QED
    BY <1>0, <1>1, <2>1, <2>2, <2>3, <2>4 DEF Timed, it
<1>2. CASE BackProcess \/ BackSend \/ BackRelease
  <2>1. /\ backPc \in {"process", "release"} \cup Kinds /\ it = backSlot /\ ~BackPopFiltered
    BY <1>2 DEF BackProcess, BackSend, BackRelease, BackPopFiltered, Kinds
  <2>2. it \in Slots /\ old \in Slot
    BY <2>1, BackSlotIsSlot DEF Kinds
  <2>3. DOMAIN old = {"x", "y", "time", "timingName", "fcChanged", "fc"}
    BY <2>2 DEF Slot
  <2>4. CASE BackProcess
    <3>1. slot' = [slot EXCEPT ![it] = Processed(old)] /\ backPc = "process"
      BY <2>1, <2>4 DEF BackProcess
    <3> HIDE DEF it
    <3> QED
      BY <1>0, <2>1, <2>2, <2>3, <3>1 DEF Processed, it
  <2>5. CASE BackSend
    <3> DEFINE timings == old.timingName \o <<"output_radar_data", "cpi", "duty_cycle">>
    <3>1. /\ slot' = IF backPc = "timing" THEN [slot EXCEPT ![it].timingName = timings] ELSE slot
          /\ backPc \in Kinds
      BY <2>1, <2>5 DEF BackSend
    <3> HIDE DEF it, timings
    <3>2. /\ \A s \in Slots : s # it => slot'[s] = slot[s]
          /\ new = IF backPc = "timing" THEN [old EXCEPT !.timingName = timings] ELSE old
      BY <1>0, <2>2, <3>1
    <3> QED
      BY <2>1, <2>2, <2>3, <3>1, <3>2 DEF Kinds, it
  <2>6. CASE BackRelease
    <3>1. slot' = [slot EXCEPT ![it] = Cleared(old)] /\ backPc = "release"
      BY <2>1, <2>6 DEF BackRelease
    <3> HIDE DEF it
    <3> QED
      BY <1>0, <2>1, <2>2, <2>3, <3>1 DEF Cleared, it
  <2> QED
    BY <1>2, <2>4, <2>5, <2>6
<1> QED
  BY <1>1, <1>2 DEF Back

\* Only the stages write to the slots, and only a reset gives a CPI another
\* time stamp.
LEMMA TimesKept ==
  ASSUME WellFormed, [Next]_vars, ~FrontReset
  PROVE  \A s \in Slots : slot'[s].time = slot[s].time
<1>1. CASE Front
  BY <1>1, FrontWrites, FrontFields DEF FrontPopFree, Front, FrontLock, FrontWait, FrontExtract, FrontReset, FrontPop, FrontUnlock, FrontLatch, FrontExchange, FrontLoad, FrontPass, FrontFail, FrontDrop
<1>2. CASE Back
  BY <1>2, BackFields
<1>3. CASE Capture \/ Retune \/ UNCHANGED vars
  BY <1>3 DEF Capture, StreamCallback, CaptureLock, CapturePush, CaptureUnlock, captureIdle,
              Retune, RetuneDevice, RetuneStore, retuneIdle, vars, slotVars
<1> QED
  BY <1>1, <1>2, <1>3 DEF Next

--------------------------------------------------------------------------------
(* The frames that were sent                                               *)

Frames == [kind : Kinds, time : Nat, fc : Fcs \cup {NoFc},
           names : UNION {[d -> Stages] : d \in SUBSET Nat}]
FramesTyped == published \in Seq(Frames)

\* The frame the back stage sends next.
NextNames == IF backPc = "timing"
               THEN Reported(slot[backSlot].timingName \o <<"output_radar_data", "cpi", "duty_cycle">>)
               ELSE <<>>

LEMMA SendsFrame ==
  ASSUME WellFormed, FramesTyped, BackSend
  PROVE  /\ published' \in Seq(Frames) /\ Len(published') = Len(published) + 1
         /\ \A i \in 1 .. Len(published) : published'[i] = published[i]
         /\ LET m == published'[Len(published) + 1]
            IN  m.kind = backPc /\ m.time = Time(backSlot) /\ m.names = NextNames
<1> DEFINE s == slot[backSlot]
           timings == s.timingName \o <<"output_radar_data", "cpi", "duty_cycle">>
           m == [kind |-> backPc, time |-> s.time[1], fc |-> fc, names |-> NextNames]
<1>1. backSlot \in Slots /\ s \in Slot
  BY BackSlotIsSlot DEF BackSend, Kinds
<1>2. published' = Append(published, m)
  BY DEF BackSend, NextNames
<1>3. timings \in Seq(Stages)
  <2>1. <<"output_radar_data", "cpi", "duty_cycle">> \in Seq(Stages)
    BY DEF Stages
  <2>2. s.timingName \in Seq(Stages)
    BY <1>1 DEF Slot
  <2> QED
    BY <2>1, <2>2, ConcatProperties
<1>4. s.time[1] \in Nat
  BY <1>1 DEF WellFormed, Stamped, CarriesCpi, Slot
<1> HIDE DEF timings
<1>5. NextNames \in UNION {[d -> Stages] : d \in SUBSET Nat}
  <2>1. NextNames = IF backPc = "timing" THEN Reported(timings) ELSE <<>>
    BY DEF NextNames, timings
  <2>2. \E d \in SUBSET Nat : Reported(timings) \in [d -> Stages]
    <3>1. DOMAIN timings = 1 .. Len(timings) /\ Len(timings) \in Nat
      BY <1>3
    <3>2. {j \in DOMAIN timings : timings[j] # "pipeline_wait"} \in SUBSET Nat
      BY <3>1
    <3>3. \A j \in DOMAIN timings : timings[j] \in Stages
      BY <1>3, <3>1
    <3> QED
      BY <3>2, <3>3 DEF Reported
  <2>3. <<>> \in [{} -> Stages]
    OBVIOUS
  <2> QED
    BY <2>1, <2>2, <2>3
<1>6. m \in Frames
  BY <1>4, <1>5 DEF Frames, BackSend, WellFormed, TypeOK
<1>7. /\ m.kind = backPc /\ m.time = Time(backSlot) /\ m.names = NextNames
  BY DEF Time
<1> HIDE DEF m, s
<1> QED
  BY <1>2, <1>6, <1>7, AppendProperties DEF FramesTyped

\* Nothing else is sent.
LEMMA OthersSendNothing ==
  ASSUME [Next]_vars, ~BackSend
  PROVE  published' = published
<1>1. CASE Front \/ Capture \/ Retune \/ UNCHANGED vars
  <2>1. Front => frontIdle
    BY DEF Front, FrontPopFree, FrontLock, FrontWait, FrontExtract, FrontReset, FrontPop, FrontUnlock,
           FrontLatch, FrontExchange, FrontLoad, FrontPass, FrontFail, FrontDrop
  <2>2. Capture => captureIdle
    BY DEF Capture, StreamCallback, CaptureLock, CapturePush, CaptureUnlock
  <2>3. Retune => retuneIdle
    BY DEF Retune, RetuneDevice, RetuneStore
  <2> QED
    BY <1>1, <2>1, <2>2, <2>3 DEF frontIdle, captureIdle, retuneIdle, vars, backVars
<1>2. CASE BackPopFiltered \/ BackProcess \/ BackRelease
  BY <1>2 DEF BackPopFiltered, BackProcess, BackRelease
<1> QED
  BY <1>1, <1>2 DEF Next, Back

LEMMA StepFrames == WellFormed /\ FramesTyped /\ [Next]_vars => FramesTyped'
BY SendsFrame, OthersSendNothing DEF FramesTyped

--------------------------------------------------------------------------------
(* Every CPI once and in order                                             *)

FrontInFlight == frontPc \in FrontCarrying \ {"drop"}
BackInFlight  == backPc \notin {"pop_filtered", "release"}

\* The time stamps of the CPIs in flight.
Flying == {Time(s) : s \in Elements(filteredSlots)}
            \cup (IF BackInFlight THEN {Time(backSlot)} ELSE {})
            \cup (IF FrontInFlight THEN {Time(frontSlot)} ELSE {})

OrderInv ==
  /\ \A i, j \in DOMAIN filteredSlots : i < j => Time(filteredSlots[i]) < Time(filteredSlots[j])
  /\ BackInFlight => \A s \in Elements(filteredSlots) : Time(backSlot) < Time(s)
  /\ FrontInFlight => \A s \in Elements(filteredSlots) : Time(s) < Time(frontSlot)
  /\ BackInFlight /\ FrontInFlight => Time(backSlot) < Time(frontSlot)
  /\ \A i, j \in Stamps : i < j => published[i].time < published[j].time
  /\ \A done \in Announced, cpi \in Flying : done < cpi
  /\ (Announced \cup Flying) \cap dropped = {}
  /\ Announced \cup Flying \cup dropped = 1 .. Len(taken)

\* A step that neither gives a CPI a place nor takes it one keeps the order.
LEMMA OrderKept ==
  ASSUME WellFormed, OrderInv,
         \A s \in Slots : slot'[s].time = slot[s].time,
         filteredSlots' = filteredSlots, taken' = taken, dropped' = dropped,
         Stamps' = Stamps, \A i \in Stamps : published'[i].time = published[i].time,
         FrontInFlight' <=> FrontInFlight, FrontInFlight => frontSlot' = frontSlot,
         BackInFlight' <=> BackInFlight, BackInFlight => backSlot' = backSlot
  PROVE  OrderInv'
<1>1. /\ \A i \in DOMAIN filteredSlots : filteredSlots[i] \in Slots
      /\ Elements(filteredSlots) \subseteq Slots
  BY DEF WellFormed, TypeOK, Elements
<1>2. /\ FrontInFlight => frontSlot \in Slots
      /\ BackInFlight => backSlot \in Slots
  BY FrontSlotIsSlot, BackSlotIsSlot DEF FrontInFlight, BackInFlight, FrontCarrying, FrontPopping
<1>3. \A s \in Slots : Time(s)' = Time(s)
  BY DEF Time
<1>4. Elements(filteredSlots)' = Elements(filteredSlots)
  OBVIOUS
<1>5. Flying' = Flying
  BY <1>1, <1>2, <1>3, <1>4 DEF Flying
<1>6. Announced' = Announced
  BY DEF Announced
<1> QED
  BY <1>1, <1>2, <1>3, <1>4, <1>5, <1>6 DEF OrderInv

\* The front stage's slot is no other place's, and every time stamp is a number.
LEMMA OrderTypes ==
  ASSUME WellFormed, SlotsConserved, OrderInv, FramesTyped
  PROVE  /\ filteredSlots \in Seq(Slots) /\ DOMAIN filteredSlots = 1 .. Len(filteredSlots)
         /\ Len(filteredSlots) \in Nat /\ Len(taken) \in Nat
         /\ \A i \in 1 .. Len(filteredSlots) : /\ filteredSlots[i] \in Elements(filteredSlots)
                                               /\ filteredSlots[i] \in Slots
         /\ Elements(filteredSlots) \subseteq Slots
         /\ FrontInFlight => Time(frontSlot) \in Flying
         /\ BackInFlight => Time(backSlot) \in Flying
         /\ \A s \in Elements(filteredSlots) : Time(s) \in Flying
         /\ Flying \subseteq 1 .. Len(taken) /\ Announced \subseteq 1 .. Len(taken)
         /\ dropped \subseteq 1 .. Len(taken)
         /\ published \in Seq(Frames) /\ Len(published) \in Nat
         /\ DOMAIN published = 1 .. Len(published) /\ Stamps \subseteq 1 .. Len(published)
         /\ frontPc # "pop_free" => frontSlot \notin Elements(filteredSlots)
<1>1. filteredSlots \in Seq(Slots) /\ taken \in Seq(Nat) /\ published \in Seq(Frames)
  BY DEF WellFormed, TypeOK, FramesTyped
<1>2. /\ DOMAIN filteredSlots = 1 .. Len(filteredSlots) /\ Len(filteredSlots) \in Nat
      /\ DOMAIN published = 1 .. Len(published) /\ Len(published) \in Nat /\ Len(taken) \in Nat
  BY <1>1, LenProperties
<1>3. \A i \in 1 .. Len(filteredSlots) : filteredSlots[i] \in Elements(filteredSlots)
  BY <1>2 DEF Elements
<1>4. /\ Elements(filteredSlots) \subseteq Slots
      /\ \A i \in 1 .. Len(filteredSlots) : filteredSlots[i] \in Slots
  BY <1>1, <1>2 DEF Elements
<1>5. frontPc # "pop_free" => frontSlot \notin Elements(filteredSlots)
  BY FrontSlotIsSlot DEF SlotsConserved
<1>6. /\ FrontInFlight => Time(frontSlot) \in Flying
      /\ BackInFlight => Time(backSlot) \in Flying
      /\ \A s \in Elements(filteredSlots) : Time(s) \in Flying
  BY DEF Flying
<1>7. Announced \cup Flying \cup dropped = 1 .. Len(taken)
  BY DEF OrderInv
<1>8. Stamps \subseteq 1 .. Len(published)
  BY <1>2 DEF Stamps
<1> QED
  BY <1>1, <1>2, <1>3, <1>4, <1>5, <1>6, <1>7, <1>8

\* A new CPI gets a time stamp later than any before it.
LEMMA OrderReset ==
  ASSUME WellFormed, SlotsConserved, OrderInv, FramesTyped, FrontReset
  PROVE  OrderInv'
<1> DEFINE new == Len(taken) + 1
<1>1. /\ frontPc = "check" /\ frontPc' = "pop_1" /\ filteredSlots' = filteredSlots
      /\ dropped' = dropped /\ published' = published /\ backPc' = backPc /\ backSlot' = backSlot
      /\ frontSlot' = frontSlot /\ taken' = Append(taken, Head(buffer[1]))
  BY DEF FrontReset, frontIdle, backVars
<1>2. frontSlot \in Slots /\ frontSlot # NoSlot
  BY <1>1, FrontSlotIsSlot
<1>3. frontSlot \notin Elements(filteredSlots) /\ frontSlot # backSlot
  BY <1>2 DEF SlotsConserved
<1>4. NewTime(frontSlot) = new /\ \A s \in Slots : s # frontSlot => NewTime(s) = Time(s)
  <2>1. slot'[frontSlot].time = <<Len(taken) + 1>>
    BY <1>1, FrontFields DEF Front, FrontExtract
  <2> QED
    BY <1>1, <2>1, FrontWrites DEF Time, NewTime, Front, FrontExtract
<1>5. Len(taken') = new
  <2>1. taken' = Append(taken, Head(buffer[1])) /\ taken \in Seq(Nat)
    BY <1>1 DEF WellFormed, TypeOK
  <2> QED
    BY <2>1
<1>6. \A s \in Elements(filteredSlots) : NewTime(s) = Time(s)
  BY <1>3, <1>4, OrderTypes
<1>7. BackInFlight => NewTime(backSlot) = Time(backSlot)
  BY <1>1, <1>3, <1>4, BackSlotIsSlot DEF BackInFlight
<1>8. FrontInFlight' /\ ~FrontInFlight /\ (BackInFlight' <=> BackInFlight)
  BY <1>1 DEF FrontInFlight, BackInFlight, FrontCarrying, FrontPopping
<1>9. Flying' = Flying \cup {new}
  BY <1>1, <1>4, <1>6, <1>7, <1>8 DEF Flying, Time, NewTime
<1>10. Announced' = Announced /\ Stamps' = Stamps
  BY <1>1 DEF Announced, Stamps
<1>11. \A t \in Flying \cup Announced \cup dropped : t \in Nat /\ t < new
  BY OrderTypes
<1>12. 1 .. new = 1 .. Len(taken) \cup {new}
  BY OrderTypes
<1> HIDE DEF new
<1>13. \A i, j \in DOMAIN filteredSlots : i < j => NewTime(filteredSlots[i]) < NewTime(filteredSlots[j])
  BY <1>1, <1>6, OrderTypes DEF OrderInv
<1>14. BackInFlight => \A s \in Elements(filteredSlots) : NewTime(backSlot) < NewTime(s)
  BY <1>6, <1>7 DEF OrderInv
<1>15. \A s \in Elements(filteredSlots) : NewTime(s) < NewTime(frontSlot)
  BY <1>4, <1>6, <1>11, OrderTypes
<1>16. BackInFlight => NewTime(backSlot) < NewTime(frontSlot)
  BY <1>4, <1>7, <1>11, OrderTypes
<1>17. \A done \in Announced, cpi \in Flying' : done < cpi
  BY <1>9, <1>11 DEF OrderInv
<1>18. (Announced \cup Flying') \cap dropped = {}
  BY <1>9, <1>11 DEF OrderInv
<1>19. Announced \cup Flying' \cup dropped = 1 .. Len(taken')
  BY <1>5, <1>9, <1>12 DEF OrderInv
<1> QED
  BY <1>1, <1>8, <1>10, <1>13, <1>14, <1>15, <1>16, <1>17, <1>18, <1>19
     DEF OrderInv, Time, NewTime

\* A CPI that passed the filter joins the queue behind the older ones.
LEMMA OrderPass ==
  ASSUME WellFormed, SlotsConserved, OrderInv, FramesTyped, FrontPass
  PROVE  OrderInv'
<1>1. /\ frontPc = "filter" /\ frontPc' = "pop_free" /\ taken' = taken
      /\ dropped' = dropped /\ published' = published /\ backPc' = backPc /\ backSlot' = backSlot
      /\ filteredSlots' = Append(filteredSlots, frontSlot)
  BY DEF FrontPass, frontIdle, backVars
<1>2. frontSlot \in Slots
  BY <1>1, FrontSlotIsSlot
<1>3. \A s \in Slots : NewTime(s) = Time(s)
  <2>1. ~FrontReset
    BY <1>1 DEF FrontReset
  <2> QED
    BY <2>1, TimesKept DEF Time, NewTime, Next, Front
<1>4. FrontInFlight /\ ~FrontInFlight' /\ (BackInFlight' <=> BackInFlight)
  BY <1>1 DEF FrontInFlight, BackInFlight, FrontCarrying, FrontPopping
<1>5. BackInFlight => NewTime(backSlot) = Time(backSlot)
  BY <1>1, <1>3, BackSlotIsSlot DEF BackInFlight
<1>6. /\ filteredSlots' \in Seq(Slots)
      /\ Elements(filteredSlots') = Elements(filteredSlots) \cup {frontSlot}
  BY <1>1, <1>2, AppendElements, OrderTypes
<1>7. \A s \in Elements(filteredSlots') : NewTime(s) = Time(s)
  BY <1>2, <1>3, <1>6, OrderTypes
<1>8. Flying' = Flying
  BY <1>1, <1>4, <1>5, <1>6, <1>7 DEF Flying, Time, NewTime
<1>9. Announced' = Announced /\ Stamps' = Stamps
  BY <1>1 DEF Announced, Stamps
<1>10. \A i, j \in DOMAIN filteredSlots' :
         i < j => NewTime(filteredSlots'[i]) < NewTime(filteredSlots'[j])
  <2>1. /\ DOMAIN filteredSlots' = 1 .. Len(filteredSlots) + 1
        /\ \A i \in 1 .. Len(filteredSlots) : filteredSlots'[i] = filteredSlots[i]
        /\ filteredSlots'[Len(filteredSlots) + 1] = frontSlot
    BY <1>1, <1>2, AppendProperties, OrderTypes
  <2> SUFFICES ASSUME NEW i \in 1 .. Len(filteredSlots) + 1,
                      NEW j \in 1 .. Len(filteredSlots) + 1, i < j
               PROVE  NewTime(filteredSlots'[i]) < NewTime(filteredSlots'[j])
    BY <2>1
  <2>0. Len(filteredSlots) \in Nat
    BY OrderTypes
  <2>2. i \in 1 .. Len(filteredSlots) /\ filteredSlots'[i] = filteredSlots[i]
    BY <2>0, <2>1
  <2>3. NewTime(filteredSlots[i]) = Time(filteredSlots[i])
    BY <1>3, <2>2, OrderTypes
  <2>4. CASE j = Len(filteredSlots) + 1
    <3>1. filteredSlots'[j] = frontSlot
      BY <2>1, <2>4
    <3>2. filteredSlots[i] \in Elements(filteredSlots)
      BY <2>2, OrderTypes
    <3>3. Time(filteredSlots[i]) < Time(frontSlot)
      BY <1>4, <3>2 DEF OrderInv
    <3>4. \A s \in Slots : s = frontSlot => NewTime(s) = Time(frontSlot)
      BY <1>3
    <3> QED
      BY <1>2, <1>3, <2>2, <2>3, <3>1, <3>3
  <2>5. CASE j # Len(filteredSlots) + 1
    <3>1. j \in 1 .. Len(filteredSlots) /\ filteredSlots'[j] = filteredSlots[j]
      BY <2>1, <2>5, <2>0
    <3>2. NewTime(filteredSlots[j]) = Time(filteredSlots[j])
      BY <1>3, <3>1, OrderTypes
    <3>3. DOMAIN filteredSlots = 1 .. Len(filteredSlots)
      BY OrderTypes
    <3> QED
      BY <2>2, <2>3, <3>1, <3>2, <3>3 DEF OrderInv
  <2> QED
    BY <2>4, <2>5
<1>11. BackInFlight => \A s \in Elements(filteredSlots') : NewTime(backSlot) < NewTime(s)
  BY <1>4, <1>5, <1>6, <1>7 DEF OrderInv
<1> QED
  BY <1>1, <1>4, <1>8, <1>9, <1>10, <1>11
     DEF OrderInv, Time, NewTime

\* A CPI the filter fails on is out of flight, and no other has its time stamp.
LEMMA OrderFail ==
  ASSUME WellFormed, SlotsConserved, OrderInv, FramesTyped, FrontFail
  PROVE  OrderInv'
<1>1. /\ frontPc = "filter" /\ frontPc' = "drop" /\ taken' = taken /\ frontSlot' = frontSlot
      /\ published' = published /\ backPc' = backPc /\ backSlot' = backSlot
      /\ filteredSlots' = filteredSlots /\ slot' = slot
      /\ dropped' = dropped \cup {Time(frontSlot)}
  BY DEF FrontFail, frontIdle, backVars, slotVars, Time
<1>2. FrontInFlight /\ ~FrontInFlight' /\ (BackInFlight' <=> BackInFlight)
  BY <1>1 DEF FrontInFlight, BackInFlight, FrontCarrying, FrontPopping
<1>3. Announced' = Announced /\ Stamps' = Stamps
  BY <1>1 DEF Announced, Stamps
<1>4. Flying = Flying' \cup {Time(frontSlot)}
  BY <1>1, <1>2 DEF Flying, Time
<1>5. \A t \in Flying' : t < Time(frontSlot) /\ t \in Nat
  <2>1. \A s \in Elements(filteredSlots) : Time(s) < Time(frontSlot) /\ Time(s) \in Nat
    BY <1>2, OrderTypes DEF OrderInv
  <2>2. BackInFlight => Time(backSlot) < Time(frontSlot) /\ Time(backSlot) \in Nat
    BY <1>2, OrderTypes DEF OrderInv
  <2> QED
    BY <1>1, <1>2, <2>1, <2>2 DEF Flying, Time
<1>6. \A done \in Announced : done < Time(frontSlot) /\ done \in Nat
  BY <1>2, OrderTypes DEF OrderInv
<1>7. Time(frontSlot) \in Nat
  BY <1>2, OrderTypes
<1>8. (Announced \cup Flying') \cap dropped' = {}
  <2>1. Time(frontSlot) \notin Announced \cup Flying'
    BY <1>5, <1>6, <1>7
  <2> QED
    BY <1>1, <1>4, <2>1 DEF OrderInv
<1>9. Announced \cup Flying' \cup dropped' = 1 .. Len(taken)
  BY <1>1, <1>4 DEF OrderInv
<1>10. \A done \in Announced, cpi \in Flying' : done < cpi
  BY <1>4 DEF OrderInv
<1> QED
  BY <1>1, <1>2, <1>3, <1>8, <1>9, <1>10 DEF OrderInv, Time

\* The back stage takes the oldest filtered CPI.
LEMMA OrderTake ==
  ASSUME WellFormed, SlotsConserved, OrderInv, FramesTyped, BackPopFiltered
  PROVE  OrderInv'
<1>1. /\ backPc = "pop_filtered" /\ backPc' = "process" /\ taken' = taken /\ dropped' = dropped
      /\ published' = published /\ frontPc' = frontPc /\ frontSlot' = frontSlot
      /\ filteredSlots # <<>> /\ backSlot' = Head(filteredSlots)
      /\ filteredSlots' = Tail(filteredSlots)
  BY DEF BackPopFiltered, backIdle, frontVars
<1>2. /\ backSlot' \in Elements(filteredSlots) /\ backSlot' \in Slots
      /\ Elements(filteredSlots) = Elements(filteredSlots') \cup {backSlot'}
  BY <1>1, TailElements, OrderTypes
<1>3. /\ Len(filteredSlots) \in Nat \ {0} /\ DOMAIN filteredSlots = 1 .. Len(filteredSlots)
      /\ DOMAIN filteredSlots' = 1 .. Len(filteredSlots) - 1
      /\ \A i \in 1 .. Len(filteredSlots) - 1 : filteredSlots'[i] = filteredSlots[i + 1]
      /\ backSlot' = filteredSlots[1]
  BY <1>1, HeadTailProperties, OrderTypes
<1>4. \A s \in Slots : NewTime(s) = Time(s)
  <2>1. ~FrontReset
    BY <1>1 DEF FrontReset, frontIdle, backVars
  <2> QED
    BY <2>1, TimesKept DEF Time, NewTime, Next, Back
<1>5. ~BackInFlight /\ BackInFlight' /\ (FrontInFlight' <=> FrontInFlight)
  BY <1>1 DEF FrontInFlight, BackInFlight, FrontCarrying, FrontPopping
<1>6. FrontInFlight => NewTime(frontSlot) = Time(frontSlot)
  BY <1>4, FrontSlotIsSlot DEF FrontInFlight, FrontCarrying, FrontPopping
<1>7. \A s \in Elements(filteredSlots) : NewTime(s) = Time(s)
  BY <1>4, OrderTypes
<1>8. Flying' = Flying
  BY <1>1, <1>2, <1>5, <1>6, <1>7 DEF Flying, Time, NewTime
<1>9. Announced' = Announced /\ Stamps' = Stamps
  BY <1>1 DEF Announced, Stamps
<1>10. \A i \in 1 .. Len(filteredSlots) : filteredSlots[i] \in Elements(filteredSlots)
  BY OrderTypes
<1>11. \A i, j \in 1 .. Len(filteredSlots) :
         i < j => NewTime(filteredSlots[i]) < NewTime(filteredSlots[j])
  BY <1>3, <1>7, <1>10 DEF OrderInv
<1>12. \A i, j \in DOMAIN filteredSlots' :
         i < j => NewTime(filteredSlots'[i]) < NewTime(filteredSlots'[j])
  <2> SUFFICES ASSUME NEW i \in 1 .. Len(filteredSlots) - 1,
                      NEW j \in 1 .. Len(filteredSlots) - 1, i < j
               PROVE  NewTime(filteredSlots[i + 1]) < NewTime(filteredSlots[j + 1])
    BY <1>3
  <2>1. i + 1 \in 1 .. Len(filteredSlots) /\ j + 1 \in 1 .. Len(filteredSlots) /\ i + 1 < j + 1
    BY <1>3
  <2> QED
    BY <1>11, <2>1
<1>13. \A s \in Elements(filteredSlots') : NewTime(backSlot') < NewTime(s)
  <2> SUFFICES ASSUME NEW i \in 1 .. Len(filteredSlots) - 1
               PROVE  NewTime(filteredSlots[1]) < NewTime(filteredSlots[i + 1])
    BY <1>3 DEF Elements
  <2>1. 1 \in 1 .. Len(filteredSlots) /\ i + 1 \in 1 .. Len(filteredSlots) /\ 1 < i + 1
    BY <1>3
  <2> QED
    BY <1>11, <2>1
<1>14. FrontInFlight => /\ \A s \in Elements(filteredSlots') : NewTime(s) < NewTime(frontSlot)
                        /\ NewTime(backSlot') < NewTime(frontSlot)
  BY <1>2, <1>6, <1>7 DEF OrderInv
<1> QED
  BY <1>1, <1>5, <1>8, <1>9, <1>12, <1>13, <1>14 DEF OrderInv, Time, NewTime

\* The time stamp announces the oldest CPI in flight.
LEMMA OrderAnnounce ==
  ASSUME WellFormed, SlotsConserved, OrderInv, FramesTyped, BackSend, backPc = "timestamp"
  PROVE  OrderInv'
<1> DEFINE n == Len(published)
<1>1. /\ backPc' = "release" /\ taken' = taken /\ dropped' = dropped /\ slot' = slot
      /\ frontPc' = frontPc /\ frontSlot' = frontSlot /\ backSlot' = backSlot
      /\ filteredSlots' = filteredSlots
  BY DEF BackSend, backIdle, frontVars, AfterFrame
<1>2. /\ DOMAIN published = 1 .. n /\ DOMAIN published' = 1 .. n + 1 /\ n \in Nat
      /\ \A i \in 1 .. n : published'[i] = published[i]
      /\ published'[n + 1].kind = "timestamp" /\ published'[n + 1].time = Time(backSlot)
  BY SendsFrame, OrderTypes
<1> HIDE DEF n
<1>3. BackInFlight /\ ~BackInFlight' /\ (FrontInFlight' <=> FrontInFlight)
  BY <1>1 DEF FrontInFlight, BackInFlight, FrontCarrying, FrontPopping
<1>4. 1 .. n + 1 = 1 .. n \cup {n + 1} /\ n + 1 \notin 1 .. n
  BY <1>2
<1>5. Stamps' = Stamps \cup {n + 1} /\ Stamps \subseteq 1 .. n
  BY <1>2, <1>4 DEF Stamps
<1>6. Announced' = Announced \cup {Time(backSlot)}
  BY <1>2, <1>5 DEF Announced
<1>7. \A i \in Stamps : published[i].time \in Announced
  BY DEF Announced
<1>8. Time(backSlot) \in Flying /\ Time(backSlot) \in Nat
  BY <1>3, OrderTypes
<1>9. \A done \in Announced : done < Time(backSlot)
  BY <1>8 DEF OrderInv
<1>10. \A i, j \in Stamps' : i < j => published'[i].time < published'[j].time
  <2> SUFFICES ASSUME NEW i \in Stamps', NEW j \in Stamps', i < j
               PROVE  published'[i].time < published'[j].time
    OBVIOUS
  <2>1. i \in Stamps /\ i \in 1 .. n
    BY <1>2, <1>5
  <2>2. CASE j = n + 1
    BY <1>2, <1>7, <1>9, <2>1, <2>2
  <2>3. CASE j \in Stamps
    BY <1>2, <1>5, <2>1, <2>3 DEF OrderInv
  <2> QED
    BY <1>5, <2>2, <2>3
<1>11. Flying = Flying' \cup {Time(backSlot)}
  BY <1>1, <1>3 DEF Flying, Time
<1>12. \A cpi \in Flying' : Time(backSlot) < cpi
  BY <1>1, <1>3 DEF Flying, Time, OrderInv
<1>13. \A done \in Announced', cpi \in Flying' : done < cpi
  BY <1>6, <1>11, <1>12 DEF OrderInv
<1>14. Announced' \cup Flying' = Announced \cup Flying
  BY <1>6, <1>11
<1> QED
  BY <1>1, <1>3, <1>10, <1>13, <1>14 DEF OrderInv, Time

LEMMA InitOrder == Init => FramesTyped /\ OrderInv
<1> SUFFICES ASSUME Init PROVE FramesTyped /\ OrderInv
  OBVIOUS
<1>1. FramesTyped
  BY EmptySeq DEF Init, FramesTyped
<1>2. /\ ~FrontInFlight /\ ~BackInFlight /\ filteredSlots = <<>> /\ published = <<>>
      /\ taken = <<>> /\ dropped = {}
  BY DEF Init, FrontInFlight, BackInFlight, FrontCarrying, FrontPopping
<1>3. Flying = {} /\ Stamps = {} /\ Announced = {}
  BY <1>2 DEF Flying, Elements, Stamps, Announced
<1> QED
  BY <1>1, <1>2, <1>3 DEF OrderInv, Elements

LEMMA StepOrder ==
  WellFormed /\ SlotsConserved /\ FramesTyped /\ OrderInv /\ [Next]_vars => OrderInv'
<1> SUFFICES ASSUME WellFormed, SlotsConserved, FramesTyped, OrderInv, [Next]_vars PROVE OrderInv'
  OBVIOUS
<1>1. CASE FrontReset
  BY <1>1, OrderReset
<1>2. CASE FrontPass
  BY <1>2, OrderPass
<1>3. CASE FrontFail
  BY <1>3, OrderFail
<1>4. CASE BackPopFiltered
  BY <1>4, OrderTake
<1>5. CASE BackSend /\ backPc = "timestamp"
  BY <1>5, OrderAnnounce
<1>6. CASE FrontPopFree \/ FrontLock \/ FrontWait \/ FrontPop \/ FrontUnlock \/ FrontLatch \/ FrontDrop
  <2>1. frontIdle /\ ~FrontReset
    BY <1>6 DEF FrontPopFree, FrontLock, FrontWait, FrontPop, FrontUnlock, FrontLatch,
                FrontExchange, FrontLoad, FrontDrop, FrontReset
  <2>2. filteredSlots' = filteredSlots /\ taken' = taken /\ dropped' = dropped
    BY <1>6 DEF FrontPopFree, FrontLock, FrontWait, FrontPop, FrontUnlock, FrontLatch,
                FrontExchange, FrontLoad, FrontDrop, slotVars
  <2>3. /\ FrontInFlight' <=> FrontInFlight
        /\ FrontInFlight => frontSlot' = frontSlot
    BY <1>6 DEF FrontPopFree, FrontLock, FrontWait, FrontPop, FrontUnlock, FrontLatch,
                FrontExchange, FrontLoad, FrontDrop, FrontInFlight, FrontCarrying, FrontPopping
  <2>4. published' = published /\ backPc' = backPc /\ backSlot' = backSlot
    BY <2>1 DEF frontIdle, backVars
  <2>5. Stamps' = Stamps
    BY <2>4 DEF Stamps
  <2>6. \A s \in Slots : slot'[s].time = slot[s].time
    BY <2>1, TimesKept
  <2> QED
    BY <2>2, <2>3, <2>4, <2>5, <2>6, OrderKept DEF BackInFlight
<1>7. CASE Capture \/ Retune \/ UNCHANGED vars
  <2>1. UNCHANGED <<frontVars, backVars, slotVars>>
    BY <1>7 DEF Capture, StreamCallback, CaptureLock, CapturePush, CaptureUnlock, captureIdle,
                Retune, RetuneDevice, RetuneStore, retuneIdle, vars
  <2> QED
    BY <2>1, OrderKept DEF frontVars, backVars, slotVars, Stamps, FrontInFlight, BackInFlight
<1>8. CASE BackProcess \/ BackRelease \/ (BackSend /\ backPc # "timestamp")
  <2>1. backIdle /\ filteredSlots' = filteredSlots
    BY <1>8 DEF BackProcess, BackRelease, BackSend
  <2>2. frontPc' = frontPc /\ frontSlot' = frontSlot /\ taken' = taken /\ dropped' = dropped
    BY <2>1 DEF backIdle, frontVars
  <2>3. /\ BackInFlight' <=> BackInFlight
        /\ BackInFlight => backSlot' = backSlot
    BY <1>8 DEF BackProcess, BackRelease, BackSend, BackInFlight, AfterFrame, Kinds
  <2>4. Stamps' = Stamps /\ \A i \in Stamps : published'[i].time = published[i].time
    <3>1. CASE BackSend /\ backPc # "timestamp"
      <4> DEFINE n == Len(published)
      <4>1. /\ DOMAIN published = 1 .. n /\ DOMAIN published' = 1 .. n + 1 /\ n \in Nat
            /\ \A i \in 1 .. n : published'[i] = published[i]
            /\ published'[n + 1].kind # "timestamp"
        BY <3>1, SendsFrame, OrderTypes
      <4> HIDE DEF n
      <4>2. 1 .. n + 1 = 1 .. n \cup {n + 1}
        BY <4>1
      <4> QED
        BY <4>1, <4>2 DEF Stamps
    <3>2. CASE BackProcess \/ BackRelease
      BY <3>2 DEF BackProcess, BackRelease, Stamps
    <3> QED
      BY <1>8, <3>1, <3>2
  <2>5. ~FrontReset
    BY <1>8, <2>2 DEF FrontReset, BackProcess, BackRelease, BackSend
  <2>6. \A s \in Slots : slot'[s].time = slot[s].time
    BY <2>5, TimesKept
  <2> QED
    BY <2>1, <2>2, <2>3, <2>4, <2>6, OrderKept DEF FrontInFlight
<1> QED
  BY <1>1, <1>2, <1>3, <1>4, <1>5, <1>6, <1>7, <1>8
     DEF Next, Front, FrontExtract, Back

\* The oldest CPI, the queue and the newest one, as one sequence.
LEMMA Joined ==
  ASSUME NEW a \in Seq(Nat), NEW q \in Seq(Nat), NEW b \in Seq(Nat),
         Len(a) \in {0, 1}, Len(b) \in {0, 1}, Increasing(q),
         Len(a) = 1 => \A t \in Elements(q) \cup Elements(b) : a[1] < t,
         Len(b) = 1 => \A t \in Elements(q) : t < b[1]
  PROVE  /\ Elements(a \o q \o b) = Elements(a) \cup Elements(q) \cup Elements(b)
         /\ Increasing(a \o q \o b)
<1> DEFINE l == a \o q
           m == l \o b
<1>1. /\ l \in Seq(Nat) /\ Len(l) = Len(a) + Len(q)
      /\ \A i \in 1 .. Len(a) + Len(q) : l[i] = IF i <= Len(a) THEN a[i] ELSE q[i - Len(a)]
  BY ConcatProperties
<1> HIDE DEF l
<1>2. /\ m \in Seq(Nat) /\ Len(m) = Len(l) + Len(b)
      /\ \A i \in 1 .. Len(l) + Len(b) : m[i] = IF i <= Len(l) THEN l[i] ELSE b[i - Len(l)]
  <2>1. l \in Seq(Nat)
    BY <1>1
  <2> QED
    BY <2>1, ConcatProperties
<1> HIDE DEF m
<1>3. /\ DOMAIN a = 1 .. Len(a) /\ DOMAIN q = 1 .. Len(q) /\ DOMAIN b = 1 .. Len(b)
      /\ Len(a) \in Nat /\ Len(q) \in Nat /\ Len(b) \in Nat
  OBVIOUS
<1>4. DOMAIN m = 1 .. Len(a) + Len(q) + Len(b)
  BY <1>1, <1>2, <1>3
<1>5. \A i \in 1 .. Len(a) : a[i] \in Elements(a) /\ i \in DOMAIN m /\ m[i] = a[i]
  <2> SUFFICES ASSUME NEW i \in 1 .. Len(a)
               PROVE  a[i] \in Elements(a) /\ i \in DOMAIN m /\ m[i] = a[i]
    OBVIOUS
  <2>1. a[i] \in Elements(a)
    BY <1>3 DEF Elements
  <2>2. i \in 1 .. Len(a) + Len(q) /\ i <= Len(a)
    BY <1>3
  <2>3. l[i] = a[i]
    BY <1>1, <2>2
  <2>4. i \in 1 .. Len(l) + Len(b) /\ i <= Len(l) /\ i \in DOMAIN m
    BY <1>1, <1>3, <1>4, <2>2
  <2>5. m[i] = l[i]
    BY <1>2, <2>4
  <2> QED
    BY <2>1, <2>3, <2>4, <2>5
<1>6. \A i \in 1 .. Len(q) : q[i] \in Elements(q) /\ i + Len(a) \in DOMAIN m /\ m[i + Len(a)] = q[i]
  <2> SUFFICES ASSUME NEW i \in 1 .. Len(q)
               PROVE  q[i] \in Elements(q) /\ i + Len(a) \in DOMAIN m /\ m[i + Len(a)] = q[i]
    OBVIOUS
  <2>1. q[i] \in Elements(q)
    BY <1>3 DEF Elements
  <2>2. i + Len(a) \in 1 .. Len(a) + Len(q) /\ ~(i + Len(a) <= Len(a)) /\ i + Len(a) - Len(a) = i
    <3>1. \A x, y, z \in Nat : x \in 1 .. y => x + z \in 1 .. z + y /\ ~(x + z <= z) /\ x + z - z = x
      OBVIOUS
    <3>2. i \in Nat /\ i \in 1 .. Len(q) /\ Len(q) \in Nat /\ Len(a) \in Nat
      BY <1>3
    <3> QED
      BY ONLY <3>1, <3>2
  <2>3. l[i + Len(a)] = q[i]
    <3> DEFINE k == i + Len(a)
    <3>1. k \in 1 .. Len(a) + Len(q) /\ ~(k <= Len(a)) /\ k - Len(a) = i
      BY <2>2
    <3> HIDE DEF k
    <3>2. l[k] = q[k - Len(a)]
      BY <1>1, <3>1
    <3> QED
      BY <3>1, <3>2 DEF k
  <2>4. i + Len(a) \in 1 .. Len(l) + Len(b) /\ i + Len(a) <= Len(l)
    BY <1>1, <1>3, <2>2
  <2>5. m[i + Len(a)] = l[i + Len(a)]
    BY <1>2, <2>4
  <2> QED
    BY <1>1, <1>4, <2>1, <2>3, <2>4, <2>5
<1>7. Len(b) = 1 => /\ b[1] \in Elements(b) /\ Len(a) + Len(q) + 1 \in DOMAIN m
                    /\ m[Len(a) + Len(q) + 1] = b[1]
  <2> SUFFICES ASSUME Len(b) = 1
               PROVE  /\ b[1] \in Elements(b) /\ Len(a) + Len(q) + 1 \in DOMAIN m
                      /\ m[Len(a) + Len(q) + 1] = b[1]
    OBVIOUS
  <2>1. b[1] \in Elements(b)
    BY <1>3 DEF Elements
  <2>2. Len(l) + 1 \in 1 .. Len(l) + Len(b) /\ ~(Len(l) + 1 <= Len(l)) /\ Len(l) + 1 - Len(l) = 1
    BY <1>1, <1>3
  <2> QED
    BY <1>1, <1>2, <1>4, <2>1, <2>2
<1>8. \A i \in DOMAIN m : \/ i \in 1 .. Len(a)
                          \/ \E j \in 1 .. Len(q) : i = j + Len(a)
                          \/ Len(b) = 1 /\ i = Len(a) + Len(q) + 1
  <2> DEFINE n == Len(a)
             k == Len(q)
             d == Len(b)
  <2>1. n \in Nat /\ k \in Nat /\ d \in {0, 1}
    BY <1>3
  <2> HIDE DEF n, k, d
  <2>2. ASSUME NEW i \in 1 .. n + k + d
        PROVE  i \in 1 .. n \/ (\E j \in 1 .. k : i = j + n) \/ (d = 1 /\ i = n + k + 1)
    <3>1. i \in 1 .. n \/ (i - n \in 1 .. k /\ i = (i - n) + n) \/ (d = 1 /\ i = n + k + 1)
      BY <2>1
    <3> QED
      BY <3>1
  <2> QED
    BY <1>4, <2>2 DEF n, k, d
<1>9. Elements(m) \subseteq Elements(a) \cup Elements(q) \cup Elements(b)
  <2> SUFFICES ASSUME NEW i \in DOMAIN m PROVE m[i] \in Elements(a) \cup Elements(q) \cup Elements(b)
    BY DEF Elements
  <2> QED
    BY <1>5, <1>6, <1>7, <1>8
<1>10. Elements(a) \cup Elements(q) \cup Elements(b) \subseteq Elements(m)
  <2>1. Elements(a) \subseteq Elements(m)
    BY <1>3, <1>5 DEF Elements
  <2>2. Elements(q) \subseteq Elements(m)
    BY <1>3, <1>6 DEF Elements
  <2>3. Elements(b) \subseteq Elements(m)
    BY <1>3, <1>7 DEF Elements
  <2> QED
    BY <2>1, <2>2, <2>3
<1>11. Increasing(m)
  <2> SUFFICES ASSUME NEW i \in DOMAIN m, NEW k \in DOMAIN m, i < k PROVE m[i] < m[k]
    BY DEF Increasing
  <2>1. CASE i \in 1 .. Len(a)
    <3>1. i = 1 /\ Len(a) = 1 /\ m[i] = a[1]
      BY <1>3, <1>5, <2>1
    <3>2. CASE k \in 1 .. Len(a)
      BY <1>3, <3>1, <3>2
    <3>3. CASE \E j \in 1 .. Len(q) : k = j + Len(a)
      BY <1>6, <3>1, <3>3
    <3>4. CASE Len(b) = 1 /\ k = Len(a) + Len(q) + 1
      BY <1>7, <3>1, <3>4
    <3> QED
      BY <1>8, <3>2, <3>3, <3>4
  <2>2. CASE \E j \in 1 .. Len(q) : i = j + Len(a)
    <3> PICK j \in 1 .. Len(q) : i = j + Len(a)
      BY <2>2
    <3>1. m[i] = q[j] /\ q[j] \in Elements(q)
      BY <1>6
    <3>2. CASE k \in 1 .. Len(a)
      BY <1>3, <3>2
    <3>3. CASE \E h \in 1 .. Len(q) : k = h + Len(a)
      <4> PICK h \in 1 .. Len(q) : k = h + Len(a)
        BY <3>3
      <4>1. j < h
        BY <1>3
      <4> QED
        BY <1>3, <1>6, <3>1, <4>1 DEF Increasing
    <3>4. CASE Len(b) = 1 /\ k = Len(a) + Len(q) + 1
      BY <1>7, <3>1, <3>4
    <3> QED
      BY <1>8, <3>2, <3>3, <3>4
  <2>3. CASE Len(b) = 1 /\ i = Len(a) + Len(q) + 1
    BY <1>3, <1>4, <2>3
  <2> QED
    BY <1>8, <2>1, <2>2, <2>3
<1> QED
  BY <1>9, <1>10, <1>11 DEF l, m

LEMMA OrderInFlight ==
  ASSUME WellFormed, SlotsConserved, FramesTyped, OrderInv
  PROVE  Elements(InFlight) = Flying /\ Increasing(InFlight)
<1> DEFINE a == IF BackInFlight THEN <<Time(backSlot)>> ELSE <<>>
           q == [i \in DOMAIN filteredSlots |-> Time(filteredSlots[i])]
           b == IF FrontInFlight THEN <<Time(frontSlot)>> ELSE <<>>
<1>1. InFlight = a \o q \o b
  <2>1. FrontInFlight <=> Extracted \/ frontPc \in {"pop_1", "pop_2"}
    BY DEF FrontInFlight, Extracted, FrontCarrying, FrontPopping
  <2>2. ~BackInFlight <=> backSlot = NoSlot \/ backPc = "release"
    BY DEF BackInFlight, WellFormed, PcInv
  <2> QED
    BY <2>1, <2>2 DEF InFlight, Time
<1>2. /\ FrontInFlight => Time(frontSlot) \in Nat
      /\ BackInFlight => Time(backSlot) \in Nat
      /\ \A s \in Elements(filteredSlots) : Time(s) \in Nat
  BY OrderTypes
<1>3. /\ a \in Seq(Nat) /\ Len(a) = IF BackInFlight THEN 1 ELSE 0
      /\ BackInFlight => a[1] = Time(backSlot)
      /\ Elements(a) = IF BackInFlight THEN {Time(backSlot)} ELSE {}
  BY <1>2 DEF Elements
<1>4. /\ b \in Seq(Nat) /\ Len(b) = IF FrontInFlight THEN 1 ELSE 0
      /\ FrontInFlight => b[1] = Time(frontSlot)
      /\ Elements(b) = IF FrontInFlight THEN {Time(frontSlot)} ELSE {}
  BY <1>2 DEF Elements
<1>5. /\ q \in Seq(Nat) /\ DOMAIN q = DOMAIN filteredSlots
      /\ Elements(q) = {Time(s) : s \in Elements(filteredSlots)}
  <2>1. DOMAIN filteredSlots = 1 .. Len(filteredSlots) /\ Len(filteredSlots) \in Nat
    BY OrderTypes
  <2>2. \A i \in 1 .. Len(filteredSlots) : Time(filteredSlots[i]) \in Nat
    BY <1>2, OrderTypes
  <2>3. q \in Seq(Nat)
    BY <2>1, <2>2, IsASeq
  <2> QED
    BY <2>3 DEF Elements
<1>6. Increasing(q)
  BY <1>5 DEF Increasing, OrderInv
<1>7. Len(a) = 1 => \A t \in Elements(q) \cup Elements(b) : a[1] < t
  BY <1>3, <1>4, <1>5 DEF OrderInv
<1>8. Len(b) = 1 => \A t \in Elements(q) : t < b[1]
  BY <1>4, <1>5 DEF OrderInv
<1> HIDE DEF a, q, b
<1>9. /\ Elements(a \o q \o b) = Elements(a) \cup Elements(q) \cup Elements(b)
      /\ Increasing(a \o q \o b)
  BY <1>3, <1>4, <1>5, <1>6, <1>7, <1>8, Joined
<1> QED
  BY <1>1, <1>3, <1>4, <1>5, <1>9 DEF Flying

\* Every CPI is announced or dropped once, in the order of its extract.
THEOREM CpisInOrder == Spec => []ExactlyOnceInOrder
<1> DEFINE Inv == WellFormed /\ SlotsConserved /\ FramesTyped /\ OrderInv
<1>1. Init => Inv
  BY InitWellFormed, InitSlotsConserved, InitOrder
<1>2. Inv /\ [Next]_vars => Inv'
  BY StepWellFormed, StepSlotsConserved, StepFrames, StepOrder
<1>3. Inv => ExactlyOnceInOrder
  <2> SUFFICES ASSUME Inv PROVE ExactlyOnceInOrder
    OBVIOUS
  <2>1. DOMAIN taken = 1 .. Len(taken)
    BY DEF WellFormed, TypeOK
  <2> QED
    BY <2>1, OrderInFlight DEF OrderInv, ExactlyOnceInOrder
<1> QED
  BY <1>1, <1>2, <1>3, PTL DEF Spec

--------------------------------------------------------------------------------
(* A CPI's frames go out before its time stamp                             *)

DataKinds == IF config.isDetection THEN {"iqdata", "map", "detection"} ELSE {"iqdata", "map"}

\* The frames that precede the next one.
Before == [iqdata |-> {}, map |-> {"iqdata"}, detection |-> {"iqdata", "map"},
           timing |-> DataKinds, timestamp |-> DataKinds \cup {"timing"}]

FramesSent ==
  backPc \in Kinds => \A k \in Before[backPc] :
    \E j \in DOMAIN published : published[j].kind = k /\ published[j].time = Time(backSlot)

\* While the back stage has a CPI, its time stamp stays.
LEMMA BackTimeKept ==
  ASSUME WellFormed, SlotsConserved, [Next]_vars, backPc # "pop_filtered"
  PROVE  NewTime(backSlot) = Time(backSlot)
<1>1. backSlot \in Slots
  BY BackSlotIsSlot
<1>2. CASE FrontReset
  <2>1. backSlot # frontSlot
    BY <1>1, <1>2, FrontSlotIsSlot DEF FrontReset, SlotsConserved
  <2> QED
    BY <1>1, <1>2, <2>1, FrontWrites DEF Front, FrontExtract, Time, NewTime
<1>3. CASE ~FrontReset
  BY <1>1, <1>3, TimesKept DEF Time, NewTime
<1> QED
  BY <1>2, <1>3

\* The back stage's program counter moves with its own steps only.
LEMMA OthersKeepBack ==
  ASSUME [Next]_vars, ~Back
  PROVE  UNCHANGED <<config, backPc, backSlot, fc, published>>
<1>1. Front => frontIdle
  BY DEF Front, FrontPopFree, FrontLock, FrontWait, FrontExtract, FrontReset, FrontPop, FrontUnlock,
         FrontLatch, FrontExchange, FrontLoad, FrontPass, FrontFail, FrontDrop
<1>2. Capture => captureIdle
  BY DEF Capture, StreamCallback, CaptureLock, CapturePush, CaptureUnlock
<1>3. Retune => retuneIdle
  BY DEF Retune, RetuneDevice, RetuneStore
<1> QED
  BY <1>1, <1>2, <1>3 DEF Next, frontIdle, captureIdle, retuneIdle, vars, backVars

LEMMA BackKeepsOthers ==
  Back => UNCHANGED <<config, buffer, lock, captureVars, frontVars, tuneVars>>
BY DEF Back, BackPopFiltered, BackProcess, BackSend, BackRelease, backIdle

LEMMA StepFramesSent ==
  ASSUME WellFormed, SlotsConserved, FramesTyped, FramesSent, TimestampAfterData, [Next]_vars
  PROVE  FramesSent' /\ TimestampAfterData'
<1>1. CASE BackSend
  <2> DEFINE n == Len(published)
  <2>1. /\ backPc \in Kinds /\ backPc' = AfterFrame[backPc] /\ backSlot' = backSlot
        /\ config' = config
    BY <1>1 DEF BackSend, backIdle
  <2>2. /\ DOMAIN published = 1 .. n /\ DOMAIN published' = 1 .. n + 1 /\ n \in Nat
        /\ \A i \in 1 .. n : published'[i] = published[i]
        /\ published'[n + 1].kind = backPc /\ published'[n + 1].time = Time(backSlot)
    BY <1>1, SendsFrame DEF FramesTyped
  <2> HIDE DEF n
  <2>3. NewTime(backSlot) = Time(backSlot)
    BY <2>1, BackTimeKept DEF Kinds
  <2>4. \A k \in Before[backPc] \cup {backPc} :
          \E j \in 1 .. n + 1 : published'[j].kind = k /\ published'[j].time = Time(backSlot)
    <3>1. \A k \in Before[backPc] :
            \E j \in 1 .. n : published'[j].kind = k /\ published'[j].time = Time(backSlot)
      BY <2>1, <2>2 DEF FramesSent
    <3>2. 1 .. n \subseteq 1 .. n + 1 /\ n + 1 \in 1 .. n + 1
      BY <2>2
    <3> QED
      BY <2>2, <3>1, <3>2
  <2>5. backPc' \in Kinds => Before'[backPc'] \subseteq Before[backPc] \cup {backPc}
    BY <2>1 DEF Kinds, AfterFrame, Before, DataKinds
  <2>6. FramesSent'
    BY <2>1, <2>2, <2>3, <2>4, <2>5 DEF FramesSent, Time, NewTime
  <2>7. TimestampAfterData'
    <3> DEFINE All == IF config.isDetection THEN Kinds ELSE Kinds \ {"detection"}
    <3> SUFFICES ASSUME NEW i \in 1 .. n + 1, published'[i].kind = "timestamp", NEW k \in All
                 PROVE  \E j \in 1 .. i : published'[j].kind = k /\ published'[j].time = published'[i].time
      BY <2>1, <2>2 DEF TimestampAfterData
    <3>1. CASE i = n + 1
      <4>1. backPc = "timestamp"
        BY <2>2, <3>1
      <4>2. All = Before["timestamp"] \cup {"timestamp"}
        BY DEF Kinds, Before, DataKinds
      <4> HIDE DEF All
      <4> QED
        BY <2>2, <2>4, <3>1, <4>1, <4>2
    <3>2. CASE i # n + 1
      <4>1. i \in 1 .. n /\ 1 .. i \subseteq 1 .. n
        BY <2>2, <3>2
      <4>2. published'[i] = published[i] /\ \A j \in 1 .. i : published'[j] = published[j]
        BY <2>2, <4>1
      <4>3. \E j \in 1 .. i : published[j].kind = k /\ published[j].time = published[i].time
        BY <2>2, <4>1, <4>2 DEF TimestampAfterData
      <4> QED
        BY <4>2, <4>3
    <3> QED
      BY <3>1, <3>2
  <2> QED
    BY <2>6, <2>7
<1>2. CASE ~BackSend
  <2>1. published' = published
    BY <1>2, OthersSendNothing
  <2>2. config' = config
    BY OthersKeepBack, BackKeepsOthers
  <2>3. CASE Back
    <3>1. backPc' \in {"process", "iqdata", "pop_filtered"}
      BY <1>2, <2>3 DEF Back, BackPopFiltered, BackProcess, BackRelease
    <3> QED
      BY <2>1, <2>2, <3>1 DEF FramesSent, TimestampAfterData, Before, Kinds
  <2>4. CASE ~Back
    <3>1. backPc' = backPc /\ backSlot' = backSlot
      BY <2>4, OthersKeepBack
    <3>2. backPc \in Kinds => NewTime(backSlot) = Time(backSlot)
      BY BackTimeKept DEF Kinds
    <3>3. Before' = Before
      BY <2>2 DEF Before, DataKinds
    <3>4. FramesSent'
      BY <2>1, <3>1, <3>2, <3>3 DEF FramesSent, Time, NewTime
    <3>5. TimestampAfterData'
      BY <2>1, <2>2 DEF TimestampAfterData
    <3> QED
      BY <3>4, <3>5
  <2> QED
    BY <2>3, <2>4
<1> QED
  BY <1>1, <1>2

\* Who sees a CPI's time stamp finds all its frames sent.
THEOREM FramesBeforeTimestamp == Spec => []TimestampAfterData
<1> DEFINE Inv == WellFormed /\ SlotsConserved /\ FramesTyped /\ FramesSent /\ TimestampAfterData
<1>1. Init => Inv
  <2>1. Init => FramesSent /\ TimestampAfterData
    BY DEF Init, FramesSent, TimestampAfterData, Kinds
  <2> QED
    BY <2>1, InitWellFormed, InitSlotsConserved, InitOrder
<1>2. Inv /\ [Next]_vars => Inv'
  BY StepWellFormed, StepSlotsConserved, StepFrames, StepFramesSent
<1>3. Inv => TimestampAfterData
  OBVIOUS
<1> QED
  BY <1>1, <1>2, <1>3, PTL DEF Spec

--------------------------------------------------------------------------------
(* A timing report is that of one CPI                                      *)

FrontNames == IF config.isClutter THEN {"extract_buffer", "clutter_filter"} ELSE {"extract_buffer"}
BackNames  == FrontNames \cup {"pipeline_wait"} \cup Elements(BackStages)

\* A slot's timings name these stages, each once.
Names(s, stages) ==
  Distinct(slot[s].timingName) /\ Elements(slot[s].timingName) = stages

NamesInv ==
  /\ frontPc \in FrontPopping \cup {"unlock_1", "unlock_2"} => Names(frontSlot, {})
  /\ frontPc \in {"exchange", "load", "filter"} => Names(frontSlot, {"extract_buffer"})
  /\ \A s \in Elements(filteredSlots) : Names(s, FrontNames)
  /\ backPc = "process" => Names(backSlot, FrontNames \cup {"pipeline_wait"})
  /\ backPc \in {"iqdata", "map", "detection", "timing"} => Names(backSlot, BackNames)

\* Joining two queues that share nothing.
LEMMA JoinElements ==
  ASSUME NEW S, NEW p \in Seq(S), NEW q \in Seq(S), Elements(p) \cap Elements(q) = {},
         Distinct(p), Distinct(q)
  PROVE  /\ p \o q \in Seq(S) /\ Distinct(p \o q)
         /\ Elements(p \o q) = Elements(p) \cup Elements(q)
<1> DEFINE n == Len(p)
           k == Len(q)
           r == p \o q
<1>1. /\ r \in Seq(S) /\ Len(r) = n + k
      /\ \A i \in 1 .. n + k : r[i] = IF i <= n THEN p[i] ELSE q[i - n]
  BY ConcatProperties
<1>2. n \in Nat /\ k \in Nat /\ DOMAIN p = 1 .. n /\ DOMAIN q = 1 .. k /\ DOMAIN r = 1 .. n + k
  BY <1>1
<1> HIDE DEF n, k, r
<1>3. ASSUME NEW i \in 1 .. n + k
      PROVE  \/ i \in 1 .. n /\ r[i] = p[i]
             \/ i - n \in 1 .. k /\ i \notin 1 .. n /\ r[i] = q[i - n]
  <2>1. CASE i <= n
    <3>1. i \in 1 .. n
      BY <1>2, <2>1
    <3> QED
      BY <1>1, <2>1, <3>1
  <2>2. CASE ~(i <= n)
    <3>1. i \notin 1 .. n /\ i - n \in 1 .. k
      BY <1>2, <2>2
    <3> QED
      BY <1>1, <2>2, <3>1
  <2> QED
    BY <2>1, <2>2
<1>4. ASSUME NEW i \in 1 .. n PROVE i \in 1 .. n + k /\ r[i] = p[i] /\ p[i] \in Elements(p)
  <2>1. i \in 1 .. n + k /\ i <= n
    BY <1>2
  <2>2. p[i] \in Elements(p)
    BY <1>2 DEF Elements
  <2> QED
    BY <1>1, <2>1, <2>2
<1>5. ASSUME NEW i \in 1 .. k PROVE i + n \in 1 .. n + k /\ r[i + n] = q[i] /\ q[i] \in Elements(q)
  <2>1. i + n \in 1 .. n + k /\ ~(i + n <= n) /\ i + n - n = i
    BY <1>2
  <2>2. q[i] \in Elements(q)
    BY <1>2 DEF Elements
  <2>3. r[i + n] = q[i]
    <3> DEFINE h == i + n
    <3> HIDE DEF h
    <3>1. h \in 1 .. n + k /\ ~(h <= n) /\ h - n = i
      BY <1>2, <2>1 DEF h
    <3>2. r[h] = q[h - n]
      BY <1>1, <3>1
    <3> QED
      BY <3>1, <3>2 DEF h
  <2> QED
    BY <2>1, <2>2, <2>3
<1>6. Elements(r) = Elements(p) \cup Elements(q)
  <2>1. Elements(r) \subseteq Elements(p) \cup Elements(q)
    BY <1>2, <1>3 DEF Elements
  <2>2. ASSUME NEW x \in Elements(p) PROVE x \in Elements(r)
    <3>1. PICK i \in 1 .. n : x = p[i]
      BY <1>2 DEF Elements
    <3>2. i \in DOMAIN r /\ r[i] = x
      BY <1>2, <1>4, <3>1
    <3> QED
      BY <3>2 DEF Elements
  <2>3. ASSUME NEW x \in Elements(q) PROVE x \in Elements(r)
    <3>1. PICK i \in 1 .. k : x = q[i]
      BY <1>2 DEF Elements
    <3>2. i + n \in DOMAIN r /\ r[i + n] = x
      BY <1>2, <1>5, <3>1
    <3> QED
      BY <3>2 DEF Elements
  <2> QED
    BY <2>1, <2>2, <2>3
<1>7. Distinct(r)
  <2> SUFFICES ASSUME NEW i \in 1 .. n + k, NEW j \in 1 .. n + k, r[i] = r[j] PROVE i = j
    BY <1>2 DEF Distinct
  <2>1. CASE i \in 1 .. n /\ j \in 1 .. n
    BY <1>2, <1>4, <2>1 DEF Distinct
  <2>2. CASE i \notin 1 .. n /\ j \notin 1 .. n
    <3>1. i - n \in 1 .. k /\ j - n \in 1 .. k /\ q[i - n] = q[j - n]
      BY <1>3, <2>2
    <3>2. i - n = j - n
      BY <1>2, <3>1 DEF Distinct
    <3> QED
      BY <1>2, <3>2
  <2>3. ASSUME NEW a \in 1 .. n + k, NEW b \in 1 .. n + k, a \in 1 .. n, b \notin 1 .. n
        PROVE  r[a] # r[b]
    <3>1. r[a] \in Elements(p)
      BY <1>4, <2>3
    <3>2. r[b] \in Elements(q)
      BY <1>2, <1>3, <2>3 DEF Elements
    <3> QED
      BY <3>1, <3>2
  <2> QED
    BY <2>1, <2>2, <2>3
<1> QED
  BY <1>1, <1>6, <1>7 DEF r

LEMMA BackStagesElements ==
  /\ Distinct(BackStages)
  /\ Elements(BackStages) = {"spectrum", "ambiguity_processing"}
       \cup (IF config.isDetection THEN {"detector"} ELSE {})
<1>1. CASE config.isDetection
  BY <1>1 DEF BackStages, Distinct, Elements
<1>2. CASE ~config.isDetection
  BY <1>2 DEF BackStages, Distinct, Elements
<1> QED
  BY <1>1, <1>2

\* What the front stage adds.
LEMMA FrontNamesInv ==
  ASSUME WellFormed, SlotsConserved, NamesInv, Front
  PROVE  NamesInv'
<1>1. UNCHANGED <<config, backPc, backSlot>>
  BY DEF Front, FrontPopFree, FrontLock, FrontWait, FrontExtract, FrontReset, FrontPop, FrontUnlock,
         FrontLatch, FrontExchange, FrontLoad, FrontPass, FrontFail, FrontDrop, frontIdle, backVars
<1>2. FrontNames' = FrontNames /\ BackNames' = BackNames
  BY <1>1 DEF FrontNames, BackNames, BackStages, Elements
<1>3. /\ \A s \in Elements(filteredSlots) : s \in Slots /\ s # frontSlot
      /\ backPc # "pop_filtered" => backSlot \in Slots /\ backSlot # frontSlot
      /\ filteredSlots \in Seq(Slots)
  <2>1. filteredSlots \in Seq(Slots) /\ Elements(filteredSlots) \subseteq Slots
    BY DEF WellFormed, TypeOK, Elements
  <2> QED
    BY <2>1, BackSlotIsSlot DEF SlotsConserved
<1>4. \A s \in Slots : s # frontSlot => slot'[s] = slot[s]
  BY FrontWrites
<1>5. /\ \A s \in Elements(filteredSlots) : Names(s, FrontNames)'
      /\ backPc = "process" => Names(backSlot, FrontNames \cup {"pipeline_wait"})'
      /\ backPc \in {"iqdata", "map", "detection", "timing"} => Names(backSlot, BackNames)'
  BY <1>1, <1>2, <1>3, <1>4 DEF NamesInv, Names
<1> DEFINE new == slot'[frontSlot].timingName
           old == slot[frontSlot].timingName
<1>6. frontPc # "pop_free" => /\ frontSlot \in Slots /\ old \in Seq(Stages)
                              /\ FrontReset => new = <<>>
                              /\ frontPc = "unlock_2" => new = Append(old, "extract_buffer")
                              /\ FrontPass => new = IF config.isClutter THEN Append(old, "clutter_filter")
                                                                        ELSE old
                              /\ ~FrontReset /\ frontPc # "unlock_2" /\ ~FrontPass => new = old
  BY FrontFields, FrontSlotIsSlot DEF Slot
<1> HIDE DEF new, old
<1>7. CASE FrontPass
  <2>1. /\ frontPc = "filter" /\ frontPc' = "pop_free" /\ filteredSlots' = Append(filteredSlots, frontSlot)
    BY <1>7 DEF FrontPass
  <2>2. Elements(filteredSlots') = Elements(filteredSlots) \cup {frontSlot}
    BY <1>3, <1>6, <2>1, AppendElements
  <2>3. Distinct(old) /\ Elements(old) = {"extract_buffer"}
    BY <2>1 DEF NamesInv, Names, old
  <2>4. Distinct(new) /\ Elements(new) = FrontNames
    <3>1. "clutter_filter" \in Stages /\ "clutter_filter" \notin Elements(old)
      BY <2>3 DEF Stages
    <3>2. old \in Seq(Stages)
      BY <1>6, <2>1
    <3>3. CASE config.isClutter
      <4>1. new = Append(old, "clutter_filter")
        BY <1>6, <1>7, <2>1, <3>3
      <4>2. Distinct(new) /\ Elements(new) = Elements(old) \cup {"clutter_filter"}
        BY <2>3, <3>1, <3>2, <4>1, AppendElements
      <4> QED
        BY <2>3, <3>3, <4>2 DEF FrontNames
    <3>4. CASE ~config.isClutter
      BY <1>6, <1>7, <2>1, <2>3, <3>4 DEF FrontNames
    <3> QED
      BY <3>3, <3>4
  <2>5. \A s \in Elements(filteredSlots') : Names(s, FrontNames)'
    BY <1>2, <1>5, <2>2, <2>4 DEF Names, new
  <2> QED
    BY <1>1, <1>5, <2>1, <2>5 DEF NamesInv, FrontPopping
<1>8. CASE ~FrontPass
  <2>1. filteredSlots' = filteredSlots
    BY <1>8 DEF Front, FrontPopFree, FrontLock, FrontWait, FrontExtract, FrontReset, FrontPop, FrontUnlock,
         FrontLatch, FrontExchange, FrontLoad, FrontFail, FrontDrop, slotVars
  <2>2. frontPc' \in FrontPopping \cup {"unlock_1", "unlock_2"} =>
          frontSlot' = frontSlot /\ Distinct(new) /\ Elements(new) = {}
    <3> SUFFICES ASSUME frontPc' \in FrontPopping \cup {"unlock_1", "unlock_2"}
                 PROVE  frontSlot' = frontSlot /\ Distinct(new) /\ Elements(new) = {}
      OBVIOUS
    <3>1. CASE FrontReset
      BY <1>6, <3>1 DEF FrontReset, Distinct, Elements
    <3>2. CASE ~FrontReset
      <4>1. /\ frontPc \in FrontPopping \cup {"unlock_1"} /\ frontSlot' = frontSlot
        BY <1>8, <3>2 DEF Front, FrontPopFree, FrontLock, FrontWait, FrontExtract, FrontPop, FrontUnlock,
             FrontLatch, FrontExchange, FrontLoad, FrontFail, FrontDrop, FrontPopping
      <4> QED
        BY <1>6, <1>8, <3>2, <4>1 DEF NamesInv, Names, old, FrontPopping
    <3> QED
      BY <3>1, <3>2
  <2>3. frontPc' \in {"exchange", "load", "filter"} =>
          frontSlot' = frontSlot /\ Distinct(new) /\ Elements(new) = {"extract_buffer"}
    <3> SUFFICES ASSUME frontPc' \in {"exchange", "load", "filter"}
                 PROVE  frontSlot' = frontSlot /\ Distinct(new) /\ Elements(new) = {"extract_buffer"}
      OBVIOUS
    <3>1. frontPc \in {"unlock_2", "exchange", "load"} /\ frontSlot' = frontSlot /\ ~FrontReset
      BY <1>8 DEF Front, FrontPopFree, FrontLock, FrontWait, FrontExtract, FrontReset, FrontPop, FrontUnlock,
             FrontLatch, FrontExchange, FrontLoad, FrontFail, FrontDrop
    <3>2. CASE frontPc = "unlock_2"
      <4>1. Distinct(old) /\ Elements(old) = {} /\ new = Append(old, "extract_buffer")
        BY <1>6, <3>2 DEF NamesInv, Names, old
      <4> QED
        BY <1>6, <3>1, <3>2, <4>1, AppendElements DEF Stages
    <3>3. CASE frontPc # "unlock_2"
      BY <1>6, <1>8, <3>1, <3>3 DEF NamesInv, Names, old
    <3> QED
      BY <3>2, <3>3
  <2> QED
    BY <1>1, <1>2, <1>5, <2>1, <2>2, <2>3 DEF NamesInv, Names, new
<1> QED
  BY <1>7, <1>8

\* What the back stage adds.
LEMMA BackNamesInv ==
  ASSUME WellFormed, SlotsConserved, NamesInv, Back
  PROVE  NamesInv'
<1>1. UNCHANGED <<config, frontPc, frontSlot>>
  BY BackKeepsOthers DEF frontVars
<1>2. FrontNames' = FrontNames /\ BackNames' = BackNames
  BY <1>1 DEF FrontNames, BackNames, BackStages, Elements
<1> DEFINE it  == IF BackPopFiltered THEN Head(filteredSlots) ELSE backSlot
           new == slot'[it].timingName
           old == slot[it].timingName
<1>3. /\ it \in Slots /\ old \in Seq(Stages)
      /\ \A s \in Slots : s # it => slot'[s] = slot[s]
      /\ BackPopFiltered => new = Append(old, "pipeline_wait")
      /\ backPc = "process" => new = old \o BackStages
      /\ backPc \in {"iqdata", "map", "detection", "timestamp", "release"} => new = old
  BY BackFields DEF Slot
<1>a. /\ BackPopFiltered => it = Head(filteredSlots)
      /\ ~BackPopFiltered => it = backSlot
  OBVIOUS
<1> HIDE DEF new, old, it
<1>4. frontPc # "pop_free" => frontSlot \in Slots /\ frontSlot # it
  <2>1. BackPopFiltered => it \in Elements(filteredSlots)
    BY <1>a, TailElements DEF BackPopFiltered, WellFormed, TypeOK
  <2> QED
    BY <1>a, <1>3, <2>1, FrontSlotIsSlot DEF SlotsConserved
<1>5. /\ frontPc \in FrontPopping \cup {"unlock_1", "unlock_2"} => Names(frontSlot, {})'
      /\ frontPc \in {"exchange", "load", "filter"} => Names(frontSlot, {"extract_buffer"})'
  BY <1>1, <1>3, <1>4 DEF NamesInv, Names, FrontPopping
<1>6. \A s \in Elements(filteredSlots') :
        Distinct(slot'[s].timingName) /\ Elements(slot'[s].timingName) = FrontNames
  <2>1. Elements(filteredSlots') \subseteq Elements(filteredSlots) /\ it \notin Elements(filteredSlots')
    <3>1. CASE BackPopFiltered
      <4>1. filteredSlots' = Tail(filteredSlots) /\ it = Head(filteredSlots) /\ filteredSlots # <<>>
        BY <1>a, <3>1 DEF BackPopFiltered
      <4> QED
        BY <4>1, TailElements DEF SlotsConserved, WellFormed, TypeOK
    <3>2. CASE ~BackPopFiltered
      BY <1>a, <1>3, <3>2 DEF Back, BackProcess, BackSend, BackRelease, SlotsConserved
    <3> QED
      BY <3>1, <3>2
  <2>2. Elements(filteredSlots) \subseteq Slots
    BY DEF WellFormed, TypeOK, Elements
  <2> QED
    BY <1>3, <2>1, <2>2 DEF NamesInv, Names
<1>7. /\ backPc' = "process" => /\ backSlot' = it /\ Distinct(new)
                                /\ Elements(new) = FrontNames \cup {"pipeline_wait"}
      /\ backPc' \in {"iqdata", "map", "detection", "timing"} =>
           backSlot' = it /\ Distinct(new) /\ Elements(new) = BackNames
  <2>1. CASE BackPopFiltered
    <3>1. /\ backPc' = "process" /\ backSlot' = it /\ it \in Elements(filteredSlots)
      BY <1>a, <2>1, TailElements DEF BackPopFiltered, WellFormed, TypeOK
    <3>2. Distinct(old) /\ Elements(old) = FrontNames
      BY <3>1 DEF NamesInv, Names, old
    <3>3. "pipeline_wait" \notin FrontNames /\ "pipeline_wait" \in Stages
      BY DEF FrontNames, Stages
    <3>4. "pipeline_wait" \notin Elements(old) /\ old \in Seq(Stages) /\ new = Append(old, "pipeline_wait")
      BY <1>3, <2>1, <3>2, <3>3
    <3>5. Distinct(new) /\ Elements(new) = Elements(old) \cup {"pipeline_wait"}
      BY <3>2, <3>3, <3>4, AppendElements
    <3> QED
      BY <3>1, <3>2, <3>5
  <2>2. CASE BackProcess
    <3>1. backPc = "process" /\ backPc' = "iqdata" /\ backSlot' = backSlot /\ it = backSlot
      BY <1>a, <2>2 DEF BackProcess, BackPopFiltered
    <3>2. Distinct(old) /\ Elements(old) = FrontNames \cup {"pipeline_wait"} /\ new = old \o BackStages
      BY <1>3, <3>1 DEF NamesInv, Names, old
    <3>3. BackStages \in Seq(Stages) /\ Distinct(BackStages)
          /\ (FrontNames \cup {"pipeline_wait"}) \cap Elements(BackStages) = {}
      BY BackStagesType, BackStagesElements DEF FrontNames
    <3>4. Elements(old) \cap Elements(BackStages) = {} /\ Distinct(old) /\ old \in Seq(Stages)
      BY <1>3, <3>2, <3>3
    <3>5. Distinct(new) /\ Elements(new) = Elements(old) \cup Elements(BackStages)
      BY <3>2, <3>3, <3>4, JoinElements
    <3>6. Elements(new) = BackNames
      BY <3>2, <3>5 DEF BackNames
    <3> QED
      BY <3>1, <3>5, <3>6
  <2>3. CASE BackSend
    <3>1. /\ backPc \in Kinds /\ backPc' = AfterFrame[backPc] /\ backSlot' = backSlot /\ it = backSlot
      BY <1>a, <2>3 DEF BackSend, BackPopFiltered, Kinds
    <3>2. /\ backPc' # "process"
          /\ backPc' \in {"iqdata", "map", "detection", "timing"} => backPc \in {"iqdata", "map", "detection"}
      BY <3>1 DEF Kinds, AfterFrame
    <3> QED
      BY <1>3, <3>1, <3>2 DEF NamesInv, Names, old
  <2>4. CASE BackRelease
    BY <2>4 DEF BackRelease
  <2> QED
    BY <2>1, <2>2, <2>3, <2>4 DEF Back
<1> QED
  BY <1>1, <1>2, <1>5, <1>6, <1>7 DEF NamesInv, Names, new

LEMMA StepNames == WellFormed /\ SlotsConserved /\ NamesInv /\ [Next]_vars => NamesInv'
<1> SUFFICES ASSUME WellFormed, SlotsConserved, NamesInv, [Next]_vars PROVE NamesInv'
  OBVIOUS
<1>1. CASE Capture \/ Retune \/ UNCHANGED vars
  <2>1. UNCHANGED <<config, frontVars, backVars, slotVars>>
    BY <1>1 DEF Capture, StreamCallback, CaptureLock, CapturePush, CaptureUnlock, captureIdle,
                Retune, RetuneDevice, RetuneStore, retuneIdle, vars
  <2>2. FrontNames' = FrontNames /\ BackNames' = BackNames
    BY <2>1 DEF FrontNames, BackNames, BackStages, Elements
  <2> QED
    BY <2>1, <2>2 DEF frontVars, backVars, slotVars, NamesInv, Names
<1> QED
  BY <1>1, FrontNamesInv, BackNamesInv DEF Next

\* A report leaves the waits out, and nothing else.
LEMMA ReportedElements ==
  ASSUME NEW t \in Seq(Stages), Distinct(t)
  PROVE  Distinct(Reported(t)) /\ Elements(Reported(t)) = Elements(t) \ {"pipeline_wait"}
BY DEF Reported, Distinct, Elements

LEMMA StepReports ==
  ASSUME WellFormed, FramesTyped, NamesInv, OneCpiPerReport, [Next]_vars
  PROVE  OneCpiPerReport'
<1>0. config' = config
  BY OthersKeepBack, BackKeepsOthers
<1>1. CASE BackSend
  <2> DEFINE n == Len(published)
             closing == <<"output_radar_data", "cpi", "duty_cycle">>
             all == slot[backSlot].timingName \o closing
             whole(m) == /\ Distinct(m.names) /\ "pipeline_wait" \notin Elements(m.names)
                         /\ Elements(m.names) = {"extract_buffer", "output_radar_data", "cpi", "duty_cycle"}
                              \cup Elements(BackStages)
                              \cup (IF config.isClutter THEN {"clutter_filter"} ELSE {})
  <2>1. /\ DOMAIN published = 1 .. n /\ DOMAIN published' = 1 .. n + 1 /\ n \in Nat
        /\ \A i \in 1 .. n : published'[i] = published[i]
        /\ published'[n + 1].kind = backPc /\ published'[n + 1].names = NextNames
    BY <1>1, SendsFrame DEF FramesTyped
  <2>2. 1 .. n + 1 = 1 .. n \cup {n + 1}
    BY <2>1
  <2>3. Elements(published') = Elements(published) \cup {published'[n + 1]}
    BY <2>1, <2>2 DEF Elements
  <2>4. \A m \in Elements(published) : m.kind = "timing" => whole(m)
    BY DEF OneCpiPerReport
  <2>5. backPc = "timing" => whole(published'[n + 1])
    <3> SUFFICES ASSUME backPc = "timing" PROVE whole(published'[n + 1])
      OBVIOUS
    <3>1. slot[backSlot].timingName \in Seq(Stages)
      BY BackSlotIsSlot DEF Slot
    <3>2. closing \in Seq(Stages) /\ Distinct(closing)
          /\ Elements(closing) = {"output_radar_data", "cpi", "duty_cycle"}
      BY DEF Stages, Distinct, Elements
    <3>3. /\ Distinct(slot[backSlot].timingName) /\ Elements(slot[backSlot].timingName) = BackNames
      BY DEF NamesInv, Names
    <3>4. BackNames \cap {"output_radar_data", "cpi", "duty_cycle"} = {}
      BY BackStagesElements DEF BackNames, FrontNames
    <3> HIDE DEF closing
    <3>5. /\ all \in Seq(Stages) /\ Distinct(all)
          /\ Elements(all) = BackNames \cup {"output_radar_data", "cpi", "duty_cycle"}
      BY <3>1, <3>2, <3>3, <3>4, JoinElements
    <3>6. NextNames = Reported(all)
      BY DEF NextNames, closing
    <3> HIDE DEF all
    <3>7. /\ Distinct(NextNames)
          /\ Elements(NextNames) = (BackNames \cup {"output_radar_data", "cpi", "duty_cycle"}) \ {"pipeline_wait"}
      BY <3>5, <3>6, ReportedElements
    <3>8. "pipeline_wait" \notin Elements(BackStages)
      BY BackStagesElements
    <3> QED
      BY <2>1, <3>7, <3>8 DEF BackNames, FrontNames
  <2>6. Elements(BackStages)' = Elements(BackStages)
    BY <1>0 DEF BackStages, Elements
  <2> HIDE DEF n
  <2> QED
    BY <1>0, <2>1, <2>3, <2>4, <2>5, <2>6 DEF OneCpiPerReport
<1>2. CASE ~BackSend
  <2>1. published' = published
    BY <1>2, OthersSendNothing
  <2> QED
    BY <1>0, <2>1 DEF OneCpiPerReport, BackStages, Elements
<1> QED
  BY <1>1, <1>2

\* A timing report names every stage of its CPI once, and nothing of another.
THEOREM ReportsAreOfOneCpi == Spec => []OneCpiPerReport
<1> DEFINE Inv == WellFormed /\ SlotsConserved /\ FramesTyped /\ NamesInv /\ OneCpiPerReport
<1>1. Init => Inv
  <2>1. Init => NamesInv /\ OneCpiPerReport
    BY DEF Init, NamesInv, OneCpiPerReport, Elements, FrontPopping
  <2> QED
    BY <2>1, InitWellFormed, InitSlotsConserved, InitOrder
<1>2. Inv /\ [Next]_vars => Inv'
  BY StepWellFormed, StepSlotsConserved, StepFrames, StepNames, StepReports
<1>3. Inv => OneCpiPerReport
  OBVIOUS
<1> QED
  BY <1>1, <1>2, <1>3, PTL DEF Spec

--------------------------------------------------------------------------------
(* No retune is lost                                                       *)

\* A frequency that is pending, latched or queued is one that was announced.
TuneInv ==
  /\ fcChanged \/ frontPc = "load" \/ retunePc = "store_flag" => currentFc # NoFc
  /\ frontPc = "load" => slot[frontSlot].fcChanged
  /\ frontPc = "filter" /\ slot[frontSlot].fcChanged => currentFc # NoFc /\ slot[frontSlot].fc # NoFc
  /\ \A s \in Elements(filteredSlots) : slot[s].fcChanged => slot[s].fc # NoFc

\* Where the frequency announced last is: pending, latched by the CPI at the
\* filter, carried by the last retuned CPI of the queue, or adopted.
Pending     == fcChanged \/ frontPc = "load"
Latched     == frontPc = "filter" /\ slot[frontSlot].fcChanged
AnnouncedFc == IF currentFc = NoFc THEN InitFc ELSE currentFc
PathInv ==
  retunePc # "store_flag" /\ ~Pending =>
    IF Latched THEN slot[frontSlot].fc = AnnouncedFc
    ELSE /\ Retuned = {} => fc = AnnouncedFc
         /\ \A i \in Retuned : (\A j \in Retuned : j <= i) => slot[filteredSlots[i]].fc = AnnouncedFc

\* What a slot carries is written by the front stage alone.
LEMMA CarriedKept ==
  ASSUME WellFormed, [Next]_vars
  PROVE  /\ \A s \in Slots : s # frontSlot \/ ~(FrontReset \/ FrontLatch) =>
              slot'[s].fcChanged = slot[s].fcChanged /\ slot'[s].fc = slot[s].fc
<1>1. CASE Front
  <2>1. \A s \in Slots : s # frontSlot => slot'[s] = slot[s]
    BY <1>1, FrontWrites
  <2>2. ASSUME ~(FrontReset \/ FrontLatch), frontPc # "pop_free"
        PROVE  slot'[frontSlot].fcChanged = slot[frontSlot].fcChanged /\ slot'[frontSlot].fc = slot[frontSlot].fc
    <3>1. frontPc \notin {"exchange", "load"}
      BY <1>1, <2>2 DEF Front, FrontPopFree, FrontLock, FrontWait, FrontExtract, FrontPop,
                        FrontUnlock, FrontPass, FrontFail, FrontDrop
    <3> QED
      BY <1>1, <2>2, <3>1, FrontFields
  <2>3. frontPc = "pop_free" => slot' = slot
    BY <1>1, FrontWrites DEF Front, FrontLock, FrontWait, FrontExtract, FrontReset, FrontPop, FrontUnlock,
       FrontLatch, FrontExchange, FrontLoad, FrontPass, FrontFail, FrontDrop
  <2> QED
    BY <2>1, <2>2, <2>3
<1>2. CASE Back
  BY <1>2, BackFields
<1>3. CASE Capture \/ Retune \/ UNCHANGED vars
  BY <1>3 DEF Capture, StreamCallback, CaptureLock, CapturePush, CaptureUnlock, captureIdle,
              Retune, RetuneDevice, RetuneStore, retuneIdle, vars, slotVars
<1> QED
  BY <1>1, <1>2, <1>3 DEF Next

\* The slots of the queue are neither the front stage's nor the back stage's.
LEMMA QueueApart ==
  ASSUME WellFormed, SlotsConserved
  PROVE  /\ filteredSlots \in Seq(Slots) /\ Len(filteredSlots) \in Nat
         /\ DOMAIN filteredSlots = 1 .. Len(filteredSlots)
         /\ \A i \in 1 .. Len(filteredSlots) : filteredSlots[i] \in Elements(filteredSlots)
         /\ \A s \in Elements(filteredSlots) : s \in Slots /\ s # frontSlot /\ s # backSlot
<1>1. filteredSlots \in Seq(Slots) /\ Elements(filteredSlots) \subseteq Slots
  BY DEF WellFormed, TypeOK, Elements
<1> QED
  BY <1>1 DEF SlotsConserved, Elements

\* The steps of the front stage that only move its program counter, or that
\* touch neither what its slot carries nor the queue.
FrontMinor == FrontPopFree \/ FrontLock \/ FrontWait \/ FrontReset \/ FrontPop \/ FrontUnlock \/ FrontDrop

LEMMA MinorKeeps ==
  ASSUME WellFormed, SlotsConserved, FrontMinor
  PROVE  /\ UNCHANGED <<filteredSlots, fcChanged, retunePc, currentFc, fc>>
         /\ frontPc \notin {"exchange", "load", "filter"} /\ frontPc' \notin {"load", "filter"}
         /\ \A s \in Elements(filteredSlots) :
              slot'[s].fcChanged = slot[s].fcChanged /\ slot'[s].fc = slot[s].fc
<1>1. UNCHANGED <<filteredSlots, fcChanged, retunePc, currentFc, fc>>
  BY DEF FrontMinor, FrontPopFree, FrontLock, FrontWait, FrontReset, FrontPop, FrontUnlock, FrontDrop,
         frontIdle, backVars, slotVars
<1>2. frontPc \notin {"exchange", "load", "filter"} /\ frontPc' \notin {"load", "filter"}
  BY DEF FrontMinor, FrontPopFree, FrontLock, FrontWait, FrontReset, FrontPop, FrontUnlock, FrontDrop
<1>3. Front
  BY DEF FrontMinor, Front, FrontExtract
<1> QED
  BY <1>1, <1>2, <1>3, QueueApart, FrontWrites

\* The front stage's slot carries what it latched.
LEMMA LatchCarries ==
  ASSUME WellFormed, SlotsConserved, TuneInv, FrontLatch
  PROVE  /\ UNCHANGED <<filteredSlots, frontSlot, retunePc, currentFc, fc>>
         /\ \A s \in Elements(filteredSlots) :
              slot'[s].fcChanged = slot[s].fcChanged /\ slot'[s].fc = slot[s].fc
         /\ FrontExchange => /\ frontPc = "exchange" /\ fcChanged' = FALSE
                             /\ frontPc' = IF fcChanged THEN "load" ELSE "filter"
                             /\ slot'[frontSlot].fcChanged = fcChanged
         /\ FrontLoad => /\ frontPc = "load" /\ frontPc' = "filter" /\ fcChanged' = fcChanged
                         /\ slot'[frontSlot].fcChanged = TRUE /\ slot'[frontSlot].fc = currentFc
<1>1. /\ UNCHANGED <<filteredSlots, frontSlot, retunePc, currentFc, fc>>
      /\ FrontExchange => /\ frontPc = "exchange" /\ fcChanged' = FALSE
                          /\ frontPc' = IF fcChanged THEN "load" ELSE "filter"
      /\ FrontLoad => /\ frontPc = "load" /\ frontPc' = "filter" /\ fcChanged' = fcChanged
  BY DEF FrontLatch, FrontExchange, FrontLoad, frontIdle, backVars
<1>2. Front /\ ~FrontReset /\ frontPc # "pop_free"
  BY DEF FrontLatch, FrontExchange, FrontLoad, Front, FrontReset
<1>3. \A s \in Elements(filteredSlots) : slot'[s] = slot[s]
  BY <1>2, QueueApart, FrontWrites
<1>4. slot[frontSlot] \in Slot
  BY <1>2, FrontSlotIsSlot
<1> QED
  BY <1>1, <1>2, <1>3, <1>4, FrontFields DEF TuneInv, Slot

\* Handing on: what the CPI carries goes to the end of the queue.
LEMMA PassCarries ==
  ASSUME WellFormed, SlotsConserved, FrontPass
  PROVE  /\ UNCHANGED <<fcChanged, retunePc, currentFc, fc>>
         /\ frontPc = "filter" /\ frontPc' = "pop_free"
         /\ filteredSlots' \in Seq(Slots) /\ frontSlot \in Slots
         /\ DOMAIN filteredSlots' = 1 .. Len(filteredSlots) + 1
         /\ Len(filteredSlots') = Len(filteredSlots) + 1
         /\ \A i \in 1 .. Len(filteredSlots) : filteredSlots'[i] = filteredSlots[i]
         /\ filteredSlots'[Len(filteredSlots) + 1] = frontSlot
         /\ Elements(filteredSlots') = Elements(filteredSlots) \cup {frontSlot}
         /\ \A s \in Elements(filteredSlots') :
              slot'[s].fcChanged = slot[s].fcChanged /\ slot'[s].fc = slot[s].fc
<1>1. /\ UNCHANGED <<fcChanged, retunePc, currentFc, fc>>
      /\ frontPc = "filter" /\ frontPc' = "pop_free"
      /\ filteredSlots' = Append(filteredSlots, frontSlot)
  BY DEF FrontPass, frontIdle, backVars
<1>2. frontSlot \in Slots
  BY <1>1, FrontSlotIsSlot
<1>3. /\ filteredSlots' \in Seq(Slots)
      /\ Len(filteredSlots') = Len(filteredSlots) + 1
      /\ \A i \in 1 .. Len(filteredSlots) : filteredSlots'[i] = filteredSlots[i]
      /\ filteredSlots'[Len(filteredSlots) + 1] = frontSlot
      /\ Elements(filteredSlots') = Elements(filteredSlots) \cup {frontSlot}
  BY <1>1, <1>2, QueueApart, AppendProperties, AppendElements
<1>4. DOMAIN filteredSlots' = 1 .. Len(filteredSlots) + 1
  BY <1>3
<1>5. \A s \in Slots : slot'[s].fcChanged = slot[s].fcChanged /\ slot'[s].fc = slot[s].fc
  <2>1. ~(FrontReset \/ FrontLatch)
    BY <1>1 DEF FrontReset, FrontLatch, FrontExchange, FrontLoad
  <2> QED
    BY <2>1, CarriedKept DEF Next, Front
<1>6. \A s \in Elements(filteredSlots') : s \in Slots
  BY <1>2, <1>3, QueueApart
<1> QED
  BY <1>1, <1>2, <1>3, <1>4, <1>5, <1>6

\* Adopting: the oldest CPI of the queue, with what it carries.
LEMMA TakeCarries ==
  ASSUME WellFormed, SlotsConserved, BackPopFiltered
  PROVE  /\ UNCHANGED <<frontPc, frontSlot, fcChanged, retunePc, currentFc>>
         /\ filteredSlots' \in Seq(Slots) /\ filteredSlots # <<>>
         /\ filteredSlots' = Tail(filteredSlots) /\ Head(filteredSlots) = filteredSlots[1]
         /\ Len(filteredSlots) \in Nat \ {0}
         /\ Len(filteredSlots') = Len(filteredSlots) - 1
         /\ DOMAIN filteredSlots' = 1 .. Len(filteredSlots) - 1
         /\ \A i \in 1 .. Len(filteredSlots) - 1 : filteredSlots'[i] = filteredSlots[i + 1]
         /\ Elements(filteredSlots') \subseteq Elements(filteredSlots)
         /\ fc' = IF slot[filteredSlots[1]].fcChanged THEN slot[filteredSlots[1]].fc ELSE fc
         /\ \A s \in Slots : slot'[s].fcChanged = slot[s].fcChanged /\ slot'[s].fc = slot[s].fc
<1>1. /\ UNCHANGED <<frontPc, frontSlot, fcChanged, retunePc, currentFc>> /\ filteredSlots # <<>>
      /\ filteredSlots' = Tail(filteredSlots)
      /\ fc' = IF slot[Head(filteredSlots)].fcChanged THEN slot[Head(filteredSlots)].fc ELSE fc
  BY DEF BackPopFiltered, backIdle, frontVars, tuneVars
<1>2. filteredSlots \in Seq(Slots) /\ Len(filteredSlots) \in Nat
  BY QueueApart
<1>3. /\ filteredSlots' \in Seq(Slots) /\ Len(filteredSlots) \in Nat \ {0}
      /\ Len(filteredSlots') = Len(filteredSlots) - 1
      /\ \A i \in 1 .. Len(filteredSlots) - 1 : filteredSlots'[i] = filteredSlots[i + 1]
      /\ Elements(filteredSlots') \subseteq Elements(filteredSlots)
      /\ Head(filteredSlots) = filteredSlots[1]
  BY <1>1, <1>2, HeadTailProperties, TailElements
<1>4. DOMAIN filteredSlots' = 1 .. Len(filteredSlots) - 1
  BY <1>3
<1>5. ~(FrontReset \/ FrontLatch)
  BY <1>1 DEF FrontReset, FrontLatch, FrontExchange, FrontLoad
<1> QED
  BY <1>1, <1>3, <1>4, <1>5, CarriedKept DEF Next, Back

\* The back stage's other steps, and those of capture, touch none of it.
BackMinor == BackProcess \/ BackSend \/ BackRelease

LEMMA BackMinorKeeps ==
  ASSUME WellFormed, SlotsConserved, [Next]_vars, BackMinor \/ Capture \/ Retune \/ UNCHANGED vars
  PROVE  /\ UNCHANGED <<filteredSlots, frontPc, frontSlot, fc>>
         /\ ~Retune => UNCHANGED <<fcChanged, retunePc, currentFc>>
         /\ \A s \in Slots : slot'[s].fcChanged = slot[s].fcChanged /\ slot'[s].fc = slot[s].fc
<1>1. /\ UNCHANGED <<filteredSlots, frontPc, frontSlot, fc>>
      /\ ~Retune => UNCHANGED <<fcChanged, retunePc, currentFc>>
  BY DEF BackMinor, BackProcess, BackSend, BackRelease, backIdle, frontVars, tuneVars,
         Capture, StreamCallback, CaptureLock, CapturePush, CaptureUnlock, captureIdle, backVars, slotVars,
         Retune, RetuneDevice, RetuneStore, retuneIdle, vars
<1>2. ~FrontReset /\ ~FrontLatch
  BY <1>1 DEF FrontReset, FrontLatch, FrontExchange, FrontLoad
<1> QED
  BY <1>1, <1>2, CarriedKept

\* Every step of the radar loop, seen by a retune.
LEMMA TuneSteps ==
  ASSUME [Next]_vars
  PROVE  \/ FrontMinor \/ FrontLatch \/ FrontPass \/ FrontFail \/ BackPopFiltered
         \/ BackMinor \/ Capture \/ Retune \/ UNCHANGED vars
BY DEF Next, Front, FrontExtract, FrontMinor, Back, BackMinor

LEMMA FailHandsBack ==
  FrontFail => /\ UNCHANGED <<slot, filteredSlots, frontSlot, retunePc, currentFc, fc>>
               /\ frontPc = "filter" /\ frontPc' = "drop"
               /\ fcChanged' = (fcChanged \/ slot[frontSlot].fcChanged)
BY DEF FrontFail, frontIdle, backVars, slotVars

LEMMA RetuneTells ==
  Retune => \/ /\ retunePc = "idle" /\ retunePc' = "store_fc" /\ UNCHANGED <<fcChanged, currentFc>>
            \/ /\ retunePc = "store_fc" /\ retunePc' = "store_flag"
               /\ currentFc' = deviceFc /\ fcChanged' = fcChanged
            \/ /\ retunePc = "store_flag" /\ retunePc' = "idle"
               /\ currentFc' = currentFc /\ fcChanged' = TRUE
BY DEF Retune, RetuneDevice, RetuneStore

LEMMA StepTune == WellFormed /\ SlotsConserved /\ TuneInv /\ [Next]_vars => TuneInv'
<1> SUFFICES ASSUME WellFormed, SlotsConserved, TuneInv, [Next]_vars PROVE TuneInv'
  OBVIOUS
<1>1. CASE FrontMinor
  BY <1>1, MinorKeeps DEF TuneInv
<1>2. CASE FrontLatch
  <2>1. FrontExchange \/ FrontLoad
    BY <1>2 DEF FrontLatch
  <2> QED
    BY <1>2, <2>1, LatchCarries DEF TuneInv
<1>3. CASE FrontPass
  BY <1>3, PassCarries DEF TuneInv
<1>4. CASE FrontFail
  BY <1>4, FailHandsBack DEF TuneInv
<1>5. CASE BackPopFiltered
  <2>1. /\ \A s \in Elements(filteredSlots') : slot'[s].fcChanged => slot'[s].fc # NoFc
    BY <1>5, TakeCarries, QueueApart DEF TuneInv
  <2>2. frontPc # "pop_free" => frontSlot \in Slots
    BY FrontSlotIsSlot
  <2> QED
    BY <1>5, <2>1, <2>2, TakeCarries DEF TuneInv
<1>6. CASE BackMinor \/ Capture \/ UNCHANGED vars
  <2>1. frontPc # "pop_free" => frontSlot \in Slots
    BY FrontSlotIsSlot
  <2>2. UNCHANGED <<fcChanged, retunePc, currentFc>>
    BY <1>6 DEF BackMinor, BackProcess, BackSend, BackRelease, backIdle, tuneVars,
                Capture, StreamCallback, CaptureLock, CapturePush, CaptureUnlock, captureIdle, vars
  <2>3. \A s \in Elements(filteredSlots) : s \in Slots
    BY QueueApart
  <2>4. /\ UNCHANGED <<filteredSlots, frontPc, frontSlot, fc>>
        /\ \A s \in Slots : slot'[s].fcChanged = slot[s].fcChanged /\ slot'[s].fc = slot[s].fc
    BY <1>6, BackMinorKeeps
  <2> QED
    BY <2>1, <2>2, <2>3, <2>4 DEF TuneInv
<1>7. CASE Retune
  <2>1. UNCHANGED <<filteredSlots, frontPc, frontSlot, slot>>
    BY <1>7 DEF Retune, RetuneDevice, RetuneStore, retuneIdle, frontVars, slotVars
  <2>2. deviceFc # NoFc
    BY PipelineAssumption DEF WellFormed, TypeOK
  <2> QED
    BY <1>7, <2>1, <2>2, RetuneTells DEF TuneInv
<1> QED
  BY <1>1, <1>2, <1>3, <1>4, <1>5, <1>6, <1>7, TuneSteps

LEMMA StepPath == WellFormed /\ SlotsConserved /\ TuneInv /\ PathInv /\ [Next]_vars => PathInv'
<1> SUFFICES ASSUME WellFormed, SlotsConserved, TuneInv, PathInv, [Next]_vars,
                    retunePc' # "store_flag", ~Pending'
             PROVE  IF Latched' THEN slot'[frontSlot'].fc = AnnouncedFc'
                    ELSE /\ Retuned' = {} => fc' = AnnouncedFc'
                         /\ \A i \in Retuned' : (\A j \in Retuned' : j <= i) =>
                              slot'[filteredSlots'[i]].fc = AnnouncedFc'
  BY DEF PathInv
<1> DEFINE InQueue == /\ Retuned = {} => fc = AnnouncedFc
                      /\ \A i \in Retuned : (\A j \in Retuned : j <= i) =>
                              slot[filteredSlots[i]].fc = AnnouncedFc
<1> USE DEF Pending, Latched
<1>0. filteredSlots' = filteredSlots /\ (\A s \in Elements(filteredSlots) : slot'[s].fcChanged = slot[s].fcChanged)
        => Retuned' = Retuned /\ \A i \in Retuned : filteredSlots[i] \in Elements(filteredSlots)
  BY QueueApart DEF Retuned
<1>1. CASE FrontMinor
  <2>1. AnnouncedFc' = AnnouncedFc /\ Retuned' = Retuned
        /\ \A i \in Retuned : slot'[filteredSlots[i]].fc = slot[filteredSlots[i]].fc
    BY <1>0, <1>1, MinorKeeps DEF AnnouncedFc
  <2>2. ~Latched' /\ InQueue
    BY <1>1, MinorKeeps DEF PathInv
  <2> QED
    BY <1>1, <2>1, <2>2, MinorKeeps
<1>2. CASE FrontLatch
  <2>0. /\ AnnouncedFc' = AnnouncedFc /\ Retuned' = Retuned
        /\ \A i \in Retuned : slot'[filteredSlots[i]].fc = slot[filteredSlots[i]].fc
    BY <1>0, <1>2, LatchCarries DEF AnnouncedFc
  <2>1. CASE FrontExchange
    <3>1. ~fcChanged /\ frontPc = "exchange" /\ ~Latched'
      BY <1>2, <2>1, LatchCarries
    <3>2. InQueue
      BY <1>2, <3>1, LatchCarries DEF PathInv
    <3> QED
      BY <1>2, <2>0, <3>1, <3>2, LatchCarries
  <2>2. CASE FrontLoad
    BY <1>2, <2>0, <2>2, LatchCarries DEF TuneInv, AnnouncedFc
  <2> QED
    BY <1>2, <2>1, <2>2 DEF FrontLatch
<1>3. CASE FrontPass
  <2> DEFINE n == Len(filteredSlots)
  <2>1. AnnouncedFc' = AnnouncedFc /\ ~Latched' /\ frontPc = "filter" /\ ~fcChanged
    BY <1>3, PassCarries DEF AnnouncedFc
  <2>2. /\ DOMAIN filteredSlots' = 1 .. n + 1 /\ DOMAIN filteredSlots = 1 .. n /\ n \in Nat
        /\ \A i \in 1 .. n : /\ filteredSlots'[i] = filteredSlots[i]
                             /\ slot'[filteredSlots[i]].fcChanged = slot[filteredSlots[i]].fcChanged
                             /\ slot'[filteredSlots[i]].fc = slot[filteredSlots[i]].fc
        /\ filteredSlots'[n + 1] = frontSlot
        /\ slot'[frontSlot].fcChanged = slot[frontSlot].fcChanged
        /\ slot'[frontSlot].fc = slot[frontSlot].fc
        /\ fc' = fc /\ retunePc' = retunePc
    BY <1>3, PassCarries, QueueApart
  <2> HIDE DEF n
  <2>3. 1 .. n + 1 = 1 .. n \cup {n + 1} /\ Retuned \subseteq 1 .. n
    BY <2>2 DEF Retuned
  <2>4. CASE slot[frontSlot].fcChanged
    <3>1. n + 1 \in Retuned' /\ slot[frontSlot].fc = AnnouncedFc
      BY <2>1, <2>2, <2>3, <2>4 DEF Retuned, PathInv
    <3>2. \A i \in Retuned' : (\A j \in Retuned' : j <= i) => i = n + 1
      BY <2>2, <2>3, <3>1 DEF Retuned
    <3> QED
      BY <2>1, <2>2, <3>1, <3>2
  <2>5. CASE ~slot[frontSlot].fcChanged
    <3>1. Retuned' = Retuned
      BY <2>2, <2>3, <2>5 DEF Retuned
    <3>2. InQueue
      BY <2>1, <2>2, <2>5 DEF PathInv
    <3> QED
      BY <2>1, <2>2, <2>3, <3>1, <3>2
  <2> QED
    BY <2>4, <2>5
<1>4. CASE FrontFail
  <2>1. /\ ~fcChanged /\ ~slot[frontSlot].fcChanged /\ ~Latched' /\ AnnouncedFc' = AnnouncedFc
        /\ Retuned' = Retuned /\ UNCHANGED <<slot, filteredSlots, fc, retunePc>> /\ frontPc = "filter"
    BY <1>4, FailHandsBack DEF AnnouncedFc, Retuned
  <2>2. InQueue
    BY <2>1 DEF PathInv
  <2> QED
    BY <2>1, <2>2
<1>5. CASE BackPopFiltered
  <2> DEFINE n == Len(filteredSlots)
  <2>1. /\ UNCHANGED <<frontPc, frontSlot, fcChanged, retunePc, currentFc>>
        /\ AnnouncedFc' = AnnouncedFc
        /\ \A s \in Slots : slot'[s].fcChanged = slot[s].fcChanged /\ slot'[s].fc = slot[s].fc
    BY <1>5, TakeCarries DEF AnnouncedFc
  <2>2. frontPc = "filter" => frontSlot \in Slots
    BY FrontSlotIsSlot
  <2>3. Latched' <=> Latched
    BY <2>1, <2>2
  <2>4. CASE Latched
    BY <2>1, <2>2, <2>3, <2>4 DEF PathInv
  <2>5. CASE ~Latched
    <3>1. InQueue
      BY <2>1, <2>5 DEF PathInv
    <3>2. /\ n \in Nat \ {0} /\ DOMAIN filteredSlots = 1 .. n /\ DOMAIN filteredSlots' = 1 .. n - 1
          /\ \A i \in 1 .. n - 1 : filteredSlots'[i] = filteredSlots[i + 1]
          /\ \A i \in 1 .. n : filteredSlots[i] \in Slots
          /\ fc' = IF slot[filteredSlots[1]].fcChanged THEN slot[filteredSlots[1]].fc ELSE fc
      BY <1>5, TakeCarries, QueueApart
    <3> HIDE DEF n
    <3>3. \A i \in 1 .. n - 1 : i + 1 \in 1 .. n /\ (i \in Retuned' <=> i + 1 \in Retuned)
      <4> SUFFICES ASSUME NEW i \in 1 .. n - 1
                   PROVE  i + 1 \in 1 .. n /\ (i \in Retuned' <=> i + 1 \in Retuned)
        OBVIOUS
      <4>1. i + 1 \in 1 .. n
        BY <3>2
      <4>2. slot'[filteredSlots'[i]].fcChanged = slot[filteredSlots[i + 1]].fcChanged
        BY <2>1, <3>2, <4>1
      <4> QED
        BY <3>2, <4>1, <4>2 DEF Retuned
    <3>4. Retuned' \subseteq 1 .. n - 1 /\ Retuned \subseteq 1 .. n
      BY <3>2 DEF Retuned
    <3>5. ASSUME NEW i \in Retuned', \A j \in Retuned' : j <= i
          PROVE  slot'[filteredSlots'[i]].fc = AnnouncedFc'
      <4>1. i \in 1 .. n - 1 /\ i + 1 \in 1 .. n /\ i + 1 \in Retuned
        BY <3>3, <3>4, <3>5
      <4>2. \A k \in Retuned : k <= i + 1
        <5> SUFFICES ASSUME NEW k \in Retuned, ~(k <= i + 1) PROVE FALSE
          OBVIOUS
        <5>1. k - 1 \in 1 .. n - 1 /\ (k - 1) + 1 = k /\ ~(k - 1 <= i)
          BY <3>2, <3>4, <4>1
        <5> QED
          BY <3>3, <3>5, <5>1
      <4>3. slot[filteredSlots[i + 1]].fc = AnnouncedFc
        BY <3>1, <4>1, <4>2
      <4> QED
        BY <2>1, <3>2, <4>1, <4>3
    <3>6. ASSUME Retuned' = {} PROVE fc' = AnnouncedFc
      <4>1. \A k \in Retuned : k = 1
        <5> SUFFICES ASSUME NEW k \in Retuned, k # 1 PROVE FALSE
          OBVIOUS
        <5>1. k - 1 \in 1 .. n - 1 /\ (k - 1) + 1 = k
          BY <3>2, <3>4
        <5> QED
          BY <3>3, <3>6, <5>1
      <4>2. CASE 1 \in Retuned
        <5>1. slot[filteredSlots[1]].fcChanged
          BY <4>2 DEF Retuned
        <5> QED
          BY <3>1, <3>2, <4>1, <4>2, <5>1
      <4>3. CASE 1 \notin Retuned
        <5>1. Retuned = {}
          BY <4>1, <4>3
        <5>2. ~slot[filteredSlots[1]].fcChanged
          BY <3>2, <4>3 DEF Retuned
        <5> QED
          BY <3>1, <3>2, <5>1, <5>2
      <4> QED
        BY <4>2, <4>3
    <3> QED
      BY <2>1, <2>3, <2>5, <3>5, <3>6
  <2> QED
    BY <2>4, <2>5
<1>6. CASE BackMinor \/ Capture \/ Retune \/ UNCHANGED vars
  <2>1. /\ UNCHANGED <<filteredSlots, frontPc, frontSlot, fc>>
        /\ ~Retune => UNCHANGED <<fcChanged, retunePc, currentFc>>
        /\ \A s \in Slots : slot'[s].fcChanged = slot[s].fcChanged /\ slot'[s].fc = slot[s].fc
    BY <1>6, BackMinorKeeps
  <2>2. UNCHANGED <<fcChanged, currentFc>> /\ retunePc # "store_flag"
    <3>1. CASE Retune
      BY <3>1, RetuneTells
    <3>2. CASE ~Retune
      BY <2>1, <3>2
    <3> QED
      BY <3>1, <3>2
  <2>3. AnnouncedFc' = AnnouncedFc
    BY <2>2 DEF AnnouncedFc
  <2>4. frontPc = "filter" => frontSlot \in Slots
    BY FrontSlotIsSlot
  <2>5. \A s \in Elements(filteredSlots) : s \in Slots
    BY QueueApart
  <2>6. Retuned' = Retuned /\ \A i \in Retuned : filteredSlots[i] \in Slots
    BY <1>0, <2>1, <2>5
  <2> QED
    BY <2>1, <2>2, <2>3, <2>4, <2>6 DEF PathInv
<1> QED
  BY <1>1, <1>2, <1>3, <1>4, <1>5, <1>6, TuneSteps

\* A set of positions has a last one.
LEMMA LastOf ==
  ASSUME NEW n \in Nat, NEW S \in SUBSET (1 .. n), S # {}
  PROVE  \E i \in S : \A j \in S : j <= i
<1> DEFINE T == {n - i : i \in S}
<1>1. T \subseteq Nat /\ T # {}
  <2>1. \A i \in 1 .. n : n - i \in Nat
    OBVIOUS
  <2> QED
    BY <2>1
<1>2. PICK x \in T : \A y \in T : <<y, x>> \notin OpToRel(<, Nat)
  BY <1>1, NatLessThanWellFounded, WFMin
<1>3. PICK i \in S : x = n - i
  OBVIOUS
<1>4. \A y \in T : ~(y < x)
  BY <1>1, <1>2 DEF OpToRel
<1>5. \A j \in S : j <= i
  <2> SUFFICES ASSUME NEW j \in S PROVE j <= i
    OBVIOUS
  <2>1. n - j \in T
    OBVIOUS
  <2>2. ~(n - j < n - i)
    BY <1>3, <1>4, <2>1
  <2> QED
    BY <2>2
<1> QED
  BY <1>5

\* The frequency announced last is the one the radar loop ends at.
THEOREM NoRetuneLost == Spec => []RetuneNeverLost
<1> DEFINE Inv == WellFormed /\ SlotsConserved /\ TuneInv /\ PathInv
<1>1. Init => Inv
  <2> SUFFICES ASSUME Init PROVE TuneInv /\ PathInv
    BY InitWellFormed, InitSlotsConserved
  <2>1. TuneInv
    BY DEF Init, TuneInv, Elements
  <2>2. Retuned = {} /\ ~Latched /\ AnnouncedFc = InitFc
    BY DEF Init, Retuned, Latched, AnnouncedFc
  <2> QED
    BY <2>1, <2>2 DEF Init, PathInv
<1>2. Inv /\ [Next]_vars => Inv'
  BY StepWellFormed, StepSlotsConserved, StepTune, StepPath
<1>3. Inv => RetuneNeverLost
  <2> SUFFICES ASSUME Inv, retunePc = "idle" PROVE UpcomingFc = AnnouncedFc
    BY DEF RetuneNeverLost, AnnouncedFc
  <2>1. CASE Pending
    BY <2>1 DEF UpcomingFc, Pending, AnnouncedFc, TuneInv
  <2>2. CASE ~Pending /\ Latched
    BY <2>2 DEF UpcomingFc, Pending, Latched, PathInv
  <2>3. CASE ~Pending /\ ~Latched /\ Retuned = {}
    BY <2>3 DEF UpcomingFc, Pending, Latched, PathInv
  <2>4. CASE ~Pending /\ ~Latched /\ Retuned # {}
    <3> DEFINE last == CHOOSE i \in Retuned : \A j \in Retuned : j <= i
    <3>1. Retuned \subseteq 1 .. Len(filteredSlots) /\ Len(filteredSlots) \in Nat
      BY QueueApart DEF Retuned
    <3>2. last \in Retuned /\ \A j \in Retuned : j <= last
      BY <2>4, <3>1, LastOf
    <3>3. UpcomingFc = slot[filteredSlots[last]].fc
      BY <2>4 DEF UpcomingFc, Pending, Latched
    <3> HIDE DEF last
    <3> QED
      BY <2>4, <3>2, <3>3 DEF PathInv
  <2> QED
    BY <2>1, <2>2, <2>3, <2>4
<1> QED
  BY <1>1, <1>2, <1>3, PTL DEF Spec

--------------------------------------------------------------------------------
(* The radar loop implements TuneHandoff                                   *)

\* The variables of TuneHandoff that are not the radar loop's own.
Filtering == IF frontPc = "filter" THEN <<Carried(frontSlot)>> ELSE <<>>
Queue     == [i \in DOMAIN filteredSlots |-> Carried(filteredSlots[i])]
NewCarried(s) == IF slot'[s].fcChanged THEN slot'[s].fc ELSE NoFc

\* While the front stage has a slot, the queue has room for it.
LEMMA QueueHasRoom ==
  ASSUME WellFormed, SlotsConserved, frontPc # "pop_free"
  PROVE  Len(filteredSlots) < Cardinality(Slots)
<1> DEFINE n == Len(filteredSlots)
           others == Slots \ {frontSlot}
<1>1. /\ IsFiniteSet(Slots) /\ frontSlot \in Slots /\ n \in Nat
      /\ filteredSlots \in [1 .. n -> others]
  <2>1. /\ filteredSlots \in [1 .. n -> Slots] /\ n \in Nat
        /\ \A i \in 1 .. n : filteredSlots[i] # frontSlot
    BY QueueApart
  <2> QED
    BY <2>1, FrontSlotIsSlot, PipelineAssumption
<1>2. \A i, j \in 1 .. n : filteredSlots[i] = filteredSlots[j] => i = j
  BY QueueApart DEF SlotsConserved, Distinct
<1>3. filteredSlots \in Injection(1 .. n, others)
  BY <1>1, <1>2 DEF Injection, IsInjective
<1>4. /\ IsFiniteSet(others) /\ Cardinality(others) = Cardinality(Slots) - 1
      /\ Cardinality(Slots) \in Nat
  BY <1>1, FS_RemoveElement, FS_CardinalityType
<1>5. Cardinality(1 .. n) = n
  BY <1>1, FS_Interval
<1>6. Cardinality(1 .. n) <= Cardinality(others)
  BY <1>3, <1>4, FS_Injection
<1> QED
  BY <1>1, <1>4, <1>5, <1>6

\* What the slots of the queue carry, as a queue.
LEMMA QueueCarries ==
  ASSUME WellFormed, SlotsConserved
  PROVE  /\ Queue \in Seq(Fcs \cup {NoFc}) /\ Len(Queue) = Len(filteredSlots)
         /\ \A i \in 1 .. Len(filteredSlots) : Queue[i] = Carried(filteredSlots[i])
<1>1. /\ DOMAIN filteredSlots = 1 .. Len(filteredSlots) /\ Len(filteredSlots) \in Nat
      /\ \A i \in 1 .. Len(filteredSlots) : filteredSlots[i] \in Slots
  BY QueueApart
<1>2. \A s \in Slots : Carried(s) \in Fcs \cup {NoFc}
  BY DEF WellFormed, TypeOK, Slot, Carried
<1>3. Queue \in Seq(Fcs \cup {NoFc})
  BY <1>1, <1>2, IsASeq DEF Queue
<1> QED
  BY <1>1, <1>3 DEF Queue

\* A step that leaves alone what the queue carries leaves the queue alone.
LEMMA QueueKept ==
  ASSUME filteredSlots' = filteredSlots,
         \A s \in Elements(filteredSlots) :
           slot'[s].fcChanged = slot[s].fcChanged /\ slot'[s].fc = slot[s].fc
  PROVE  Queue' = Queue
<1>1. \A i \in DOMAIN filteredSlots : NewCarried(filteredSlots[i]) = Carried(filteredSlots[i])
  BY DEF NewCarried, Carried, Elements
<1>2. Queue' = [i \in DOMAIN filteredSlots |-> NewCarried(filteredSlots[i])]
  BY DEF Queue, Carried, NewCarried
<1> QED
  BY <1>1, <1>2 DEF Queue

LEMMA InitHandoff == Init => Handoff!Init
BY DEF Init, Handoff!Init

LEMMA StepHandoff ==
  WellFormed /\ SlotsConserved /\ TuneInv /\ [Next]_vars => [Handoff!Next]_(Handoff!vars)
<1> SUFFICES ASSUME WellFormed, SlotsConserved, TuneInv, [Next]_vars
             PROVE  Handoff!Next \/ UNCHANGED Handoff!vars
  OBVIOUS
<1> USE DEF Pending
<1>0. UNCHANGED <<currentFc, retunePc, Pending, Filtering, Queue, fc>> => UNCHANGED Handoff!vars
  BY DEF Handoff!vars, Filtering, Queue
<1>1. CASE FrontMinor
  <2>1. UNCHANGED <<currentFc, retunePc, Pending, fc>> /\ Filtering = <<>> /\ Filtering' = <<>>
    BY <1>1, MinorKeeps DEF Filtering
  <2>2. Queue' = Queue
    BY <1>1, MinorKeeps, QueueKept
  <2> QED
    BY <1>0, <2>1, <2>2
<1>2. CASE FrontLatch
  <2>1. UNCHANGED <<currentFc, retunePc, fc>> /\ Queue' = Queue
    BY <1>2, LatchCarries, QueueKept
  <2>2. Len(Queue) < Cardinality(Slots)
    BY <1>2, QueueHasRoom, QueueCarries DEF FrontLatch, FrontExchange, FrontLoad
  <2>3. CASE FrontExchange /\ fcChanged
    BY <1>0, <1>2, <2>1, <2>3, LatchCarries DEF Filtering
  <2>4. CASE FrontExchange /\ ~fcChanged
    <3>1. /\ Filtering = <<>> /\ ~Pending /\ ~Pending' /\ Filtering' = <<NoFc>>
      BY <1>2, <2>4, LatchCarries DEF Filtering, Carried
    <3> QED
      BY <2>1, <2>2, <3>1 DEF Handoff!Next, Handoff!Take, Filtering, Queue
  <2>5. CASE FrontLoad
    <3>1. /\ Filtering = <<>> /\ Pending /\ Pending' \in BOOLEAN /\ Filtering' = <<currentFc>>
      BY <1>2, <2>5, LatchCarries DEF Filtering, Carried, WellFormed, TypeOK
    <3> QED
      BY <2>1, <2>2, <3>1 DEF Handoff!Next, Handoff!Take, Filtering, Queue
  <2> QED
    BY <1>2, <2>3, <2>4, <2>5 DEF FrontLatch
<1>3. CASE FrontPass
  <2> DEFINE n == Len(filteredSlots)
  <2>1. /\ UNCHANGED <<currentFc, retunePc, Pending, fc>>
        /\ Filtering = <<Carried(frontSlot)>> /\ Filtering' = <<>>
    BY <1>3, PassCarries DEF Filtering
  <2>2. /\ Queue \in Seq(Fcs \cup {NoFc}) /\ Len(Queue) = n /\ n \in Nat
        /\ \A i \in 1 .. n : Queue[i] = Carried(filteredSlots[i])
        /\ Queue = [i \in 1 .. n |-> Carried(filteredSlots[i])]
    BY QueueCarries, QueueApart DEF Queue
  <2>3. /\ DOMAIN filteredSlots' = 1 .. n + 1 /\ filteredSlots'[n + 1] = frontSlot
        /\ \A i \in 1 .. n : filteredSlots'[i] = filteredSlots[i]
        /\ \A i \in 1 .. n : NewCarried(filteredSlots[i]) = Carried(filteredSlots[i])
        /\ NewCarried(frontSlot) = Carried(frontSlot)
    BY <1>3, PassCarries, QueueApart DEF NewCarried, Carried
  <2> HIDE DEF n
  <2>4. Queue' = [i \in 1 .. n + 1 |-> IF i = n + 1 THEN Carried(frontSlot) ELSE Queue[i]]
    <3>1. Queue' = [i \in 1 .. n + 1 |-> NewCarried(filteredSlots'[i])]
      BY <2>3 DEF Queue, Carried, NewCarried
    <3>2. \A i \in 1 .. n + 1 : i # n + 1 => i \in 1 .. n
      BY <2>2
    <3>3. \A i \in 1 .. n + 1 : NewCarried(filteredSlots'[i]) = IF i = n + 1 THEN Carried(frontSlot) ELSE Queue[i]
      BY <2>2, <2>3, <3>2
    <3> QED
      BY <3>1, <3>3
  <2>5. Carried(frontSlot) \in Fcs \cup {NoFc}
    BY <1>3, PassCarries DEF WellFormed, TypeOK, Slot, Carried
  <2>6. Queue' = Queue \o <<Carried(frontSlot)>>
    <3> DEFINE c == Carried(frontSlot)
               r == Queue \o <<c>>
    <3>1. /\ r \in Seq(Fcs \cup {NoFc}) /\ Len(r) = n + 1
          /\ \A i \in 1 .. n + 1 : r[i] = IF i <= n THEN Queue[i] ELSE <<c>>[i - n]
      BY <2>2, <2>5, ConcatProperties
    <3>2. DOMAIN r = 1 .. n + 1 /\ r = [i \in 1 .. n + 1 |-> r[i]]
      BY <3>1
    <3> HIDE DEF r
    <3>3. \A i \in 1 .. n + 1 : r[i] = IF i = n + 1 THEN c ELSE Queue[i]
      <4> SUFFICES ASSUME NEW i \in 1 .. n + 1 PROVE r[i] = IF i = n + 1 THEN c ELSE Queue[i]
        OBVIOUS
      <4>1. CASE i = n + 1
        <5>1. ~(i <= n) /\ i - n = 1
          BY <2>2, <4>1
        <5>2. r[i] = <<c>>[i - n]
          BY <3>1, <5>1
        <5> QED
          BY <4>1, <5>1, <5>2
      <4>2. CASE i # n + 1
        BY <2>2, <3>1, <4>2
      <4> QED
        BY <4>1, <4>2
    <3> QED
      BY <2>4, <3>2, <3>3 DEF r
  <2> QED
    BY <2>1, <2>6 DEF Handoff!Next, Handoff!Pass, Filtering, Queue
<1>4. CASE FrontFail
  <2>1. /\ UNCHANGED <<slot, filteredSlots, currentFc, retunePc, fc>>
        /\ frontPc = "filter" /\ frontPc' = "drop"
        /\ fcChanged' = (fcChanged \/ slot[frontSlot].fcChanged)
    BY <1>4, FailHandsBack
  <2>2. Filtering = <<Carried(frontSlot)>> /\ Filtering' = <<>> /\ Queue' = Queue
    BY <2>1 DEF Filtering, Queue, Carried
  <2>3. slot[frontSlot].fcChanged <=> Carried(frontSlot) # NoFc
    BY <2>1 DEF TuneInv, Carried
  <2>4. Pending' = (Pending \/ Filtering # <<NoFc>>)
    BY <2>1, <2>2, <2>3
  <2> QED
    BY <2>1, <2>2, <2>4 DEF Handoff!Next, Handoff!Drop, Filtering, Queue
<1>5. CASE BackPopFiltered
  <2> DEFINE n == Len(filteredSlots)
  <2>1. /\ UNCHANGED <<frontPc, frontSlot, fcChanged, retunePc, currentFc>>
        /\ n \in Nat \ {0} /\ DOMAIN filteredSlots' = 1 .. n - 1
        /\ \A i \in 1 .. n - 1 : filteredSlots'[i] = filteredSlots[i + 1]
        /\ fc' = IF slot[filteredSlots[1]].fcChanged THEN slot[filteredSlots[1]].fc ELSE fc
        /\ \A s \in Slots : NewCarried(s) = Carried(s)
    BY <1>5, TakeCarries DEF NewCarried, Carried
  <2>2. Filtering' = Filtering
    BY <2>1, FrontSlotIsSlot DEF Filtering, Carried, NewCarried
  <2>3. /\ Queue \in Seq(Fcs \cup {NoFc}) /\ Len(Queue) = n
        /\ \A i \in 1 .. n : Queue[i] = Carried(filteredSlots[i]) /\ filteredSlots[i] \in Slots
        /\ filteredSlots[1] \in Elements(filteredSlots)
    BY <2>1, QueueCarries, QueueApart
  <2>4. Queue # <<>> /\ Head(Queue) = Carried(filteredSlots[1])
    BY <2>1, <2>3
  <2>5. fc' = IF Head(Queue) = NoFc THEN fc ELSE Head(Queue)
    BY <2>1, <2>3, <2>4 DEF TuneInv, Carried
  <2> HIDE DEF n
  <2>6. Queue' = Tail(Queue)
    <3>1. Queue' = [i \in 1 .. n - 1 |-> NewCarried(filteredSlots'[i])]
      BY <2>1 DEF Queue, Carried, NewCarried
    <3>2. \A i \in 1 .. n - 1 : i + 1 \in 1 .. n
      BY <2>1
    <3>3. \A i \in 1 .. n - 1 : NewCarried(filteredSlots'[i]) = Queue[i + 1]
      BY <2>1, <2>3, <3>2
    <3>4. /\ Tail(Queue) \in Seq(Fcs \cup {NoFc}) /\ Len(Tail(Queue)) = n - 1
          /\ \A i \in 1 .. n - 1 : Tail(Queue)[i] = Queue[i + 1]
      BY <2>3, <2>4, HeadTailProperties
    <3> DEFINE r == Tail(Queue)
    <3>5. r \in [1 .. n - 1 -> Fcs \cup {NoFc}] /\ \A i \in 1 .. n - 1 : r[i] = Queue[i + 1]
      BY <3>4, LenProperties
    <3> HIDE DEF r
    <3>6. r = [i \in 1 .. n - 1 |-> Queue[i + 1]]
      BY <3>5
    <3> QED
      BY <3>1, <3>3, <3>6 DEF r
  <2> QED
    BY <2>1, <2>2, <2>4, <2>5, <2>6 DEF Handoff!Next, Handoff!Adopt, Filtering, Queue
<1>6. CASE BackMinor \/ Capture \/ Retune \/ UNCHANGED vars
  <2>1. /\ UNCHANGED <<filteredSlots, frontPc, frontSlot, fc>>
        /\ ~Retune => UNCHANGED <<fcChanged, retunePc, currentFc>>
        /\ \A s \in Slots : slot'[s].fcChanged = slot[s].fcChanged /\ slot'[s].fc = slot[s].fc
    BY <1>6, BackMinorKeeps
  <2>2. Queue' = Queue
    BY <2>1, QueueApart, QueueKept
  <2>3. Filtering' = Filtering
    BY <2>1, FrontSlotIsSlot DEF Filtering, Carried
  <2>4. CASE ~Retune
    BY <1>0, <2>1, <2>2, <2>3, <2>4
  <2>5. CASE Retune
    <3>1. CASE retunePc = "idle"
      BY <1>0, <2>1, <2>2, <2>3, <2>5, <3>1, RetuneTells DEF Handoff!vars, Filtering, Queue
    <3>2. CASE retunePc = "store_fc"
      <4>1. /\ retunePc' = "store_flag" /\ currentFc' = deviceFc /\ deviceFc \in Fcs
            /\ Pending' = Pending
        BY <2>1, <2>5, <3>2, RetuneTells DEF WellFormed, TypeOK
      <4>2. Handoff!Store(deviceFc)
        BY <2>1, <2>2, <2>3, <3>2, <4>1 DEF Handoff!Store, Filtering, Queue
      <4> QED
        BY <4>1, <4>2 DEF Handoff!Next
    <3>3. CASE retunePc = "store_flag"
      <4>1. retunePc' = "idle" /\ currentFc' = currentFc /\ Pending' = TRUE
        BY <2>5, <3>3, RetuneTells
      <4> QED
        BY <2>1, <2>2, <2>3, <3>3, <4>1 DEF Handoff!Next, Handoff!Announce, Filtering, Queue
    <3> QED
      BY <2>5, <3>1, <3>2, <3>3, RetuneTells
  <2> QED
    BY <2>4, <2>5
<1> QED
  BY <1>1, <1>2, <1>3, <1>4, <1>5, <1>6, TuneSteps

\* A retune is handed over as TuneHandoff says.
THEOREM RetuneHandoff == Spec => ImplementsHandoff
<1> DEFINE Inv == WellFormed /\ SlotsConserved /\ TuneInv
<1>1. Init => Inv
  BY InitWellFormed, InitSlotsConserved DEF Init, TuneInv, Elements
<1>2. Inv /\ [Next]_vars => Inv'
  BY StepWellFormed, StepSlotsConserved, StepTune
<1> HIDE DEF Inv
<1>3. Inv /\ [Next]_vars => [Handoff!Next]_(Handoff!vars)
  BY StepHandoff DEF Inv
<1> QED
  BY <1>1, <1>2, <1>3, InitHandoff, PTL DEF Spec, ImplementsHandoff, Handoff!Spec

--------------------------------------------------------------------------------
(* The two channels of a CPI are aligned                                   *)

\* n samples that arrived one after another.
Run(q, first, n) == Len(q) = n /\ \A i \in 1 .. n : q[i] = first + i - 1

\* The newest sample of a capture buffer, and the oldest.
Newest(c) == IF c = 2 /\ capturePc = "push_2" THEN captured - 1 ELSE captured
Oldest(c) == Newest(c) + 1 - Len(buffer[c])

BufferInv ==
  /\ \A c \in Channels : Len(buffer[c]) <= BufferSize /\ Run(buffer[c], Oldest(c), Len(buffer[c]))
  /\ capturePc # "push_2" /\ frontPc # "pop_2" => Len(buffer[1]) = Len(buffer[2])
  /\ capturePc = "push_2" => Len(buffer[1]) = IF Len(buffer[2]) = BufferSize THEN BufferSize
                                                                         ELSE Len(buffer[2]) + 1
  /\ frontPc = "pop_2" => Len(buffer[2]) = Len(buffer[1]) + 1

Empty(s) == slot[s].x = <<>> /\ slot[s].y = <<>>
Whole(s) == /\ Run(slot[s].x, taken[Time(s)], NSamples)
            /\ Run(slot[s].y, taken[Time(s)], NSamples)

\* The channels of a slot are empty until its CPI is extracted.
EmptyInv ==
  /\ \A s \in Elements(freeSlots) : Empty(s)
  /\ frontPc \in {"lock_first", "lock_second", "check", "retry"} => Empty(frontSlot)

\* The front stage works on the newest CPI, and what it has popped of the two
\* channels so far goes on where the buffers begin.
FrontTime == FrontInFlight => Time(frontSlot) = Len(taken) /\ Len(taken) > 0
Started   == taken[Len(taken)]
PoppingInv ==
  frontPc \in FrontPopping =>
    /\ toPop <= NSamples /\ Oldest(2) = Started + NSamples - toPop
    /\ Run(slot[frontSlot].x, Started, IF frontPc = "pop_1" THEN NSamples - toPop
                                                            ELSE NSamples - toPop + 1)
    /\ Run(slot[frontSlot].y, Started, NSamples - toPop)

WholeInv ==
  /\ Extracted => Whole(frontSlot)
  /\ \A s \in Elements(filteredSlots) : Whole(s)
  /\ backPc = "process" => Whole(backSlot)

\* A CPI ends before the next one starts, and before the samples still in
\* the buffers.
TakenInv ==
  /\ \A i, j \in DOMAIN taken : i < j => taken[i] + NSamples <= taken[j]
  /\ frontPc \notin FrontPopping => \A i \in DOMAIN taken : taken[i] + NSamples <= Oldest(1)

ChannelsInv == EmptyInv /\ FrontTime /\ PoppingInv /\ WholeInv /\ TakenInv

\* Popping the oldest of a run.
LEMMA RunTail ==
  ASSUME NEW q \in Seq(Nat), NEW first \in Int, NEW n \in Nat \ {0}, Run(q, first, n)
  PROVE  Head(q) = first /\ Tail(q) \in Seq(Nat) /\ Run(Tail(q), first + 1, n - 1)
<1>1. q # <<>> /\ Head(q) = q[1] /\ q[1] = first /\ Len(q) = n
  BY DEF Run
<1>2. /\ Tail(q) \in Seq(Nat) /\ Len(Tail(q)) = n - 1
      /\ \A i \in 1 .. n - 1 : Tail(q)[i] = q[i + 1]
  BY <1>1, HeadTailProperties
<1>3. \A i \in 1 .. n - 1 : q[i + 1] = (first + 1) + i - 1
  <2> SUFFICES ASSUME NEW i \in 1 .. n - 1 PROVE q[i + 1] = (first + 1) + i - 1
    OBVIOUS
  <2>1. i + 1 \in 1 .. n
    OBVIOUS
  <2> QED
    BY <2>1 DEF Run
<1> QED
  BY <1>1, <1>2, <1>3 DEF Run

\* Appending the next sample to a run.
LEMMA RunAppend ==
  ASSUME NEW q \in Seq(Nat), NEW first \in Int, NEW n \in Nat, Run(q, first, n),
         NEW sample \in Nat, sample = first + n
  PROVE  Append(q, sample) \in Seq(Nat) /\ Run(Append(q, sample), first, n + 1)
<1>1. /\ Append(q, sample) \in Seq(Nat) /\ Len(Append(q, sample)) = n + 1
      /\ \A i \in 1 .. n : Append(q, sample)[i] = q[i]
      /\ Append(q, sample)[n + 1] = sample
  BY AppendProperties DEF Run
<1>2. \A i \in 1 .. n + 1 : Append(q, sample)[i] = first + i - 1
  <2> SUFFICES ASSUME NEW i \in 1 .. n + 1 PROVE Append(q, sample)[i] = first + i - 1
    OBVIOUS
  <2>1. CASE i = n + 1
    BY <1>1, <2>1
  <2>2. CASE i # n + 1
    <3>1. i \in 1 .. n
      BY <2>2
    <3> QED
      BY <1>1, <3>1 DEF Run
  <2> QED
    BY <2>1, <2>2
<1> QED
  BY <1>1, <1>2 DEF Run

\* Pushing it to a bounded one.
LEMMA RunPushed ==
  ASSUME NEW q \in Seq(Nat), NEW first \in Int, NEW n \in Nat, Run(q, first, n),
         NEW size \in Nat \ {0}, n <= size, NEW sample \in Nat, sample = first + n
  PROVE  IF n = size THEN Run(Pushed(q, size, sample), first + 1, n)
                     ELSE Run(Pushed(q, size, sample), first, n + 1)
<1>0. Len(q) = n
  BY DEF Run
<1>1. CASE n = size
  <2>1. Tail(q) \in Seq(Nat) /\ Run(Tail(q), first + 1, n - 1)
    BY <1>1, RunTail
  <2>2. sample = (first + 1) + (n - 1) /\ n - 1 \in Nat /\ first + 1 \in Int
    BY <1>1
  <2>3. Run(Append(Tail(q), sample), first + 1, (n - 1) + 1)
    BY <2>1, <2>2, RunAppend
  <2>4. (n - 1) + 1 = n
    OBVIOUS
  <2> QED
    BY <1>0, <1>1, <2>3, <2>4 DEF Pushed
<1>2. CASE n # size
  BY <1>0, <1>2, RunAppend DEF Pushed
<1> QED
  BY <1>1, <1>2

\* The driver's callback and the front stage are never at the buffers together.
LEMMA NotTogether ==
  ASSUME MutexInv
  PROVE  ~(capturePc \in CapturePushing /\ frontPc \in {"check"} \cup FrontPopping)
BY DEF MutexInv, FrontHolds, CaptureHolds, Channels, CapturePushing, FrontPopping

\* A callback's step puts the next sample into one of the buffers.
LEMMA PushKeepsRuns ==
  ASSUME WellFormed, MutexInv, BufferInv, CapturePush
  PROVE  BufferInv' /\ Oldest(1)' >= Oldest(1)
<1>1. /\ buffer \in [Channels -> Seq(Nat)] /\ captured \in Nat
      /\ buffer[1] \in Seq(Nat) /\ buffer[2] \in Seq(Nat)
      /\ Len(buffer[1]) \in Nat /\ Len(buffer[2]) \in Nat
  BY DEF WellFormed, TypeOK, Channels
<1>2. BufferSize \in Nat \ {0}
  BY PipelineAssumption
<1>3. frontPc' = frontPc /\ frontPc \notin FrontPopping
  BY NotTogether DEF CapturePush, CapturePushing, captureIdle, frontVars
<1>4. /\ Len(buffer[1]) <= BufferSize /\ Run(buffer[1], Oldest(1), Len(buffer[1]))
      /\ Len(buffer[2]) <= BufferSize /\ Run(buffer[2], Oldest(2), Len(buffer[2]))
      /\ Oldest(1) \in Int /\ Oldest(2) \in Int
  BY <1>1 DEF BufferInv, Channels, Oldest, Newest
<1>5. CASE capturePc = "push_1"
  <2> DEFINE p == Pushed(buffer[1], BufferSize, captured + 1)
  <2>1. /\ captured' = captured + 1 /\ capturePc' = "push_2"
        /\ buffer' = [buffer EXCEPT ![1] = p]
    BY <1>5 DEF CapturePush
  <2>2. captured + 1 \in Nat /\ captured + 1 = Oldest(1) + Len(buffer[1])
    BY <1>1, <1>5 DEF Oldest, Newest
  <2>3. IF Len(buffer[1]) = BufferSize THEN Run(p, Oldest(1) + 1, Len(buffer[1]))
                                       ELSE Run(p, Oldest(1), Len(buffer[1]) + 1)
    BY <1>1, <1>2, <1>4, <2>2, RunPushed
  <2> HIDE DEF p
  <2>4. buffer'[1] = p /\ buffer'[2] = buffer[2]
    BY <1>1, <2>1 DEF Channels
  <2>5. Len(buffer[1]) = Len(buffer[2])
    BY <1>3, <1>5 DEF BufferInv, FrontPopping
  <2>6. Len(p) = IF Len(buffer[1]) = BufferSize THEN BufferSize ELSE Len(buffer[1]) + 1
    BY <2>3 DEF Run
  <2>7. Oldest(2)' = Oldest(2)
    BY <1>1, <1>5, <2>1, <2>4 DEF Oldest, Newest
  <2>8. Oldest(1)' = IF Len(buffer[1]) = BufferSize THEN Oldest(1) + 1 ELSE Oldest(1)
    <3> DEFINE before == Len(buffer[1])
               after  == Len(p)
    <3>1. Oldest(1)' = captured + 1 + 1 - after /\ Oldest(1) = captured + 1 - before
      BY <1>5, <2>1, <2>4 DEF Oldest, Newest
    <3>2. /\ before \in Nat /\ captured \in Nat
          /\ after = IF before = BufferSize THEN before ELSE before + 1
      BY <1>1, <2>6
    <3> HIDE DEF before, after
    <3>3. /\ after = before => Oldest(1)' = Oldest(1) + 1
          /\ after = before + 1 => Oldest(1)' = Oldest(1)
      BY <3>1, <3>2
    <3> QED
      BY <3>2, <3>3 DEF before
  <2>9. Len(p) <= BufferSize /\ Run(p, Oldest(1)', Len(p))
    BY <1>1, <1>2, <1>4, <2>3, <2>6, <2>8
  <2>10. \A c \in Channels : Len(buffer'[c]) <= BufferSize /\ Run(buffer'[c], Oldest(c)', Len(buffer'[c]))
    BY <1>4, <2>4, <2>7, <2>9 DEF Channels
  <2> QED
    BY <1>1, <1>3, <1>4, <2>1, <2>4, <2>5, <2>6, <2>8, <2>10 DEF BufferInv, FrontPopping
<1>6. CASE capturePc = "push_2"
  <2> DEFINE p == Pushed(buffer[2], BufferSize, captured)
  <2>1. /\ captured' = captured /\ capturePc' \in {"unlock_1", "push_1"}
        /\ buffer' = [buffer EXCEPT ![2] = p]
    BY <1>6 DEF CapturePush
  <2>2. captured = Oldest(2) + Len(buffer[2])
    BY <1>1, <1>6 DEF Oldest, Newest
  <2>3. IF Len(buffer[2]) = BufferSize THEN Run(p, Oldest(2) + 1, Len(buffer[2]))
                                       ELSE Run(p, Oldest(2), Len(buffer[2]) + 1)
    BY <1>1, <1>2, <1>4, <2>2, RunPushed
  <2> HIDE DEF p
  <2>4. buffer'[2] = p /\ buffer'[1] = buffer[1]
    BY <1>1, <2>1 DEF Channels
  <2>5. Len(buffer[1]) = IF Len(buffer[2]) = BufferSize THEN BufferSize ELSE Len(buffer[2]) + 1
    BY <1>6 DEF BufferInv
  <2>6. Len(p) = IF Len(buffer[2]) = BufferSize THEN BufferSize ELSE Len(buffer[2]) + 1
    BY <2>3 DEF Run
  <2>7. Oldest(1)' = Oldest(1)
    BY <1>1, <1>6, <2>1, <2>4 DEF Oldest, Newest
  <2>8. Oldest(2)' = IF Len(buffer[2]) = BufferSize THEN Oldest(2) + 1 ELSE Oldest(2)
    <3> DEFINE before == Len(buffer[2])
               after  == Len(p)
    <3>1. Oldest(2)' = captured + 1 - after /\ Oldest(2) = captured - 1 + 1 - before
      BY <1>6, <2>1, <2>4 DEF Oldest, Newest
    <3>2. /\ before \in Nat /\ captured \in Nat
          /\ after = IF before = BufferSize THEN before ELSE before + 1
      BY <1>1, <2>6
    <3> HIDE DEF before, after
    <3>3. /\ after = before => Oldest(2)' = Oldest(2) + 1
          /\ after = before + 1 => Oldest(2)' = Oldest(2)
      BY <3>1, <3>2
    <3> QED
      BY <3>2, <3>3 DEF before
  <2>9. Len(p) <= BufferSize /\ Run(p, Oldest(2)', Len(p))
    BY <1>1, <1>2, <1>4, <2>3, <2>6, <2>8
  <2>10. \A c \in Channels : Len(buffer'[c]) <= BufferSize /\ Run(buffer'[c], Oldest(c)', Len(buffer'[c]))
    BY <1>4, <2>4, <2>7, <2>9 DEF Channels
  <2> QED
    BY <1>1, <1>3, <1>4, <2>1, <2>4, <2>5, <2>6, <2>7, <2>10 DEF BufferInv, FrontPopping
<1> QED
  BY <1>5, <1>6 DEF CapturePush

\* A pop takes the oldest sample of one of them.
LEMMA PopKeepsRuns ==
  ASSUME WellFormed, MutexInv, BufferInv, FrontPop
  PROVE  /\ BufferInv'
         /\ frontPc = "pop_1" => /\ Head(buffer[1]) = Oldest(1) /\ Oldest(1) = Oldest(2)
                                 /\ Oldest(1)' = Oldest(1) + 1 /\ Oldest(2)' = Oldest(2)
         /\ frontPc = "pop_2" => /\ Head(buffer[2]) = Oldest(2) /\ Oldest(1) = Oldest(2) + 1
                                 /\ Oldest(1)' = Oldest(1) /\ Oldest(2)' = Oldest(2) + 1
<1>1. /\ buffer \in [Channels -> Seq(Nat)] /\ captured \in Nat
      /\ buffer[1] \in Seq(Nat) /\ buffer[2] \in Seq(Nat)
      /\ Len(buffer[1]) \in Nat /\ Len(buffer[2]) \in Nat /\ toPop \in Nat
  BY DEF WellFormed, TypeOK, Channels
<1>2. capturePc' = capturePc /\ captured' = captured
  BY DEF FrontPop, frontIdle, captureVars
<1>3. capturePc \notin CapturePushing
  BY NotTogether DEF FrontPop, FrontPopping
<1>4. /\ Len(buffer[1]) <= BufferSize /\ Run(buffer[1], Oldest(1), Len(buffer[1]))
      /\ Len(buffer[2]) <= BufferSize /\ Run(buffer[2], Oldest(2), Len(buffer[2]))
      /\ Oldest(1) \in Int /\ Oldest(2) \in Int
  BY <1>1 DEF BufferInv, Channels, Oldest, Newest
<1>5. Newest(1) = captured /\ Newest(2) = captured /\ Newest(1)' = captured /\ Newest(2)' = captured
  BY <1>2, <1>3 DEF Newest, CapturePushing
<1>6. CASE frontPc = "pop_1"
  <2>1. buffer' = [buffer EXCEPT ![1] = Tail(buffer[1])] /\ frontPc' = "pop_2"
    BY <1>6 DEF FrontPop
  <2>2. Len(buffer[1]) > 0
    BY <1>1, <1>6 DEF WellFormed, PcInv
  <2>3. /\ Head(buffer[1]) = Oldest(1) /\ Run(Tail(buffer[1]), Oldest(1) + 1, Len(buffer[1]) - 1)
    BY <1>1, <1>4, <2>2, RunTail
  <2>4. buffer'[1] = Tail(buffer[1]) /\ buffer'[2] = buffer[2]
    BY <1>1, <2>1 DEF Channels
  <2>5. Len(buffer'[1]) = Len(buffer[1]) - 1
    BY <2>3, <2>4 DEF Run
  <2>6. Oldest(1)' = Oldest(1) + 1 /\ Oldest(2)' = Oldest(2)
    BY <1>1, <1>5, <2>4, <2>5 DEF Oldest
  <2>7. Len(buffer[1]) = Len(buffer[2])
    BY <1>3, <1>6 DEF BufferInv, CapturePushing
  <2>8. Oldest(1) = Oldest(2)
    BY <1>5, <2>7 DEF Oldest
  <2>9. Len(buffer'[1]) <= BufferSize /\ Run(buffer'[1], Oldest(1)', Len(buffer'[1]))
    BY <1>1, <1>4, <2>3, <2>4, <2>5, <2>6, PipelineAssumption
  <2>10. \A c \in Channels : Len(buffer'[c]) <= BufferSize /\ Run(buffer'[c], Oldest(c)', Len(buffer'[c]))
    BY <1>4, <2>4, <2>6, <2>9 DEF Channels
  <2> QED
    BY <1>1, <1>2, <1>3, <1>6, <2>1, <2>3, <2>4, <2>5, <2>6, <2>7, <2>8, <2>10
       DEF BufferInv, CapturePushing
<1>7. CASE frontPc = "pop_2"
  <2>1. buffer' = [buffer EXCEPT ![2] = Tail(buffer[2])] /\ frontPc' \in {"unlock_1", "pop_1"}
    BY <1>7 DEF FrontPop
  <2>2. Len(buffer[2]) > 0
    BY <1>1, <1>7 DEF WellFormed, PcInv
  <2>3. /\ Head(buffer[2]) = Oldest(2) /\ Run(Tail(buffer[2]), Oldest(2) + 1, Len(buffer[2]) - 1)
    BY <1>1, <1>4, <2>2, RunTail
  <2>4. buffer'[2] = Tail(buffer[2]) /\ buffer'[1] = buffer[1]
    BY <1>1, <2>1 DEF Channels
  <2>5. Len(buffer'[2]) = Len(buffer[2]) - 1
    BY <2>3, <2>4 DEF Run
  <2>6. Oldest(2)' = Oldest(2) + 1 /\ Oldest(1)' = Oldest(1)
    BY <1>1, <1>5, <2>4, <2>5 DEF Oldest
  <2>7. Len(buffer[2]) = Len(buffer[1]) + 1
    BY <1>7 DEF BufferInv
  <2>8. Oldest(1) = Oldest(2) + 1
    BY <1>1, <1>5, <2>7 DEF Oldest
  <2>9. Len(buffer'[2]) <= BufferSize /\ Run(buffer'[2], Oldest(2)', Len(buffer'[2]))
    BY <1>1, <1>4, <2>3, <2>4, <2>5, <2>6, PipelineAssumption
  <2>10. \A c \in Channels : Len(buffer'[c]) <= BufferSize /\ Run(buffer'[c], Oldest(c)', Len(buffer'[c]))
    BY <1>4, <2>4, <2>6, <2>9 DEF Channels
  <2> QED
    BY <1>1, <1>2, <1>3, <1>7, <2>1, <2>3, <2>4, <2>5, <2>6, <2>7, <2>8, <2>10
       DEF BufferInv, CapturePushing
<1> QED
  BY <1>6, <1>7 DEF FrontPop

\* No other step touches the buffers.
LEMMA OthersKeepBuffers ==
  ASSUME BufferInv, [Next]_vars, ~CapturePush, ~FrontPop
  PROVE  BufferInv' /\ Oldest(1)' = Oldest(1) /\ Oldest(2)' = Oldest(2)
<1>1. buffer' = buffer /\ captured' = captured
  BY DEF Next, Front, FrontPopFree, FrontLock, FrontWait, FrontExtract, FrontReset, FrontUnlock,
         FrontLatch, FrontExchange, FrontLoad, FrontPass, FrontFail, FrontDrop, frontIdle, captureVars,
         Capture, StreamCallback, CaptureLock, CaptureUnlock, Retune, RetuneDevice, RetuneStore,
         retuneIdle, Back, BackPopFiltered, BackProcess, BackSend, BackRelease, backIdle, vars
<1>2. capturePc' = "push_2" <=> capturePc = "push_2"
  BY DEF Next, Front, FrontPopFree, FrontLock, FrontWait, FrontExtract, FrontReset, FrontUnlock,
         FrontLatch, FrontExchange, FrontLoad, FrontPass, FrontFail, FrontDrop, frontIdle, captureVars,
         Capture, StreamCallback, CaptureLock, CaptureUnlock, Retune, RetuneDevice, RetuneStore,
         retuneIdle, Back, BackPopFiltered, BackProcess, BackSend, BackRelease, backIdle, vars
<1>3. frontPc' = "pop_2" <=> frontPc = "pop_2"
  BY DEF Next, Front, FrontPopFree, FrontLock, FrontWait, FrontExtract, FrontReset, FrontUnlock,
         FrontLatch, FrontExchange, FrontLoad, FrontPass, FrontFail, FrontDrop, frontVars,
         Capture, StreamCallback, CaptureLock, CaptureUnlock, captureIdle, Retune, RetuneDevice, RetuneStore,
         retuneIdle, Back, BackPopFiltered, BackProcess, BackSend, BackRelease, backIdle, vars
<1>4. \A c \in Channels : Oldest(c)' = Oldest(c)
  BY <1>1, <1>2 DEF Oldest, Newest
<1> QED
  BY <1>1, <1>2, <1>3, <1>4 DEF BufferInv, Channels

LEMMA StepBuffers == WellFormed /\ MutexInv /\ BufferInv /\ [Next]_vars => BufferInv'
BY PushKeepsRuns, PopKeepsRuns, OthersKeepBuffers

\* A stage pops samples into its slot, drains its channels or empties them.
LEMMA ChannelsWritten ==
  ASSUME WellFormed, [Next]_vars, NEW s \in Slots
  PROVE  \/ slot'[s].x = slot[s].x /\ slot'[s].y = slot[s].y
         \/ s = frontSlot /\ FrontPop
         \/ s = frontSlot /\ FrontDrop /\ slot'[s].x = <<>> /\ slot'[s].y = <<>>
         \/ s = backSlot /\ BackProcess
         \/ s = backSlot /\ BackRelease /\ slot'[s].x = <<>> /\ slot'[s].y = <<>>
<1>1. CASE Front
  <2>1. CASE FrontPopFree \/ s # frontSlot
    BY <1>1, <2>1, FrontWrites
  <2>2. CASE ~FrontPopFree /\ s = frontSlot
    <3>1. frontPc # "pop_free"
      BY <1>1, <2>2 DEF Front, FrontLock, FrontWait, FrontExtract, FrontReset, FrontPop, FrontUnlock,
                        FrontLatch, FrontExchange, FrontLoad, FrontPass, FrontFail, FrontDrop
    <3>2. frontPc \in FrontPopping => FrontPop
      BY <1>1, <2>2 DEF Front, FrontLock, FrontWait, FrontExtract, FrontReset, FrontUnlock, FrontPopping,
                        FrontLatch, FrontExchange, FrontLoad, FrontPass, FrontFail, FrontDrop
    <3>3. frontPc = "drop" => FrontDrop
      BY <1>1, <2>2 DEF Front, FrontLock, FrontWait, FrontExtract, FrontReset, FrontPop, FrontUnlock,
                        FrontLatch, FrontExchange, FrontLoad, FrontPass, FrontFail
    <3> QED
      BY <1>1, <2>2, <3>1, <3>2, <3>3, FrontFields DEF FrontPopping
  <2> QED
    BY <2>1, <2>2
<1>2. CASE Back
  <2>1. CASE BackPopFiltered
    <3>1. backPc = "pop_filtered"
      BY <2>1 DEF BackPopFiltered
    <3> QED
      BY <1>2, <2>1, <3>1, BackFields
  <2>2. CASE ~BackPopFiltered
    <3>1. /\ backPc = "process" => BackProcess
          /\ backPc = "release" => BackRelease
      BY <1>2, <2>2 DEF Back, BackProcess, BackSend, BackRelease, Kinds
    <3> QED
      BY <1>2, <2>2, <3>1, BackFields
  <2> QED
    BY <2>1, <2>2
<1>3. CASE Capture \/ Retune \/ UNCHANGED vars
  BY <1>3 DEF Capture, StreamCallback, CaptureLock, CapturePush, CaptureUnlock, captureIdle,
              Retune, RetuneDevice, RetuneStore, retuneIdle, vars, slotVars
<1> QED
  BY <1>1, <1>2, <1>3 DEF Next

\* A slot becomes free when the CPI it carried is dropped or released.
LEMMA SlotsFreed ==
  ASSUME WellFormed, [Next]_vars, NEW s \in Elements(freeSlots')
  PROVE  \/ s \in Elements(freeSlots)
         \/ s = frontSlot /\ FrontDrop
         \/ s = backSlot /\ BackRelease
<1>1. freeSlots \in Seq(Slots)
  BY DEF WellFormed, TypeOK
<1>2. CASE FrontPopFree
  BY <1>1, <1>2, TailElements DEF FrontPopFree
<1>3. CASE FrontDrop
  <2>1. frontSlot \in Slots
    BY <1>3, FrontSlotIsSlot DEF FrontDrop
  <2> QED
    BY <1>1, <1>3, <2>1, AppendElements DEF FrontDrop
<1>4. CASE BackRelease
  <2>1. backSlot \in Slots
    BY <1>4, BackSlotIsSlot DEF BackRelease
  <2> QED
    BY <1>1, <1>4, <2>1, AppendElements DEF BackRelease
<1>5. CASE ~FrontPopFree /\ ~FrontDrop /\ ~BackRelease
  <2>1. freeSlots' = freeSlots
    BY <1>5 DEF Next, Front, FrontLock, FrontWait, FrontExtract, FrontReset, FrontPop, FrontUnlock,
           FrontLatch, FrontExchange, FrontLoad, FrontPass, FrontFail, slotVars,
           Capture, StreamCallback, CaptureLock, CapturePush, CaptureUnlock, captureIdle, Retune,
           RetuneDevice, RetuneStore, retuneIdle, Back, BackPopFiltered, BackProcess, BackSend, vars
  <2> QED
    BY <2>1
<1> QED
  BY <1>2, <1>3, <1>4, <1>5

\* Only the front stage moves its program counter and works on another slot.
LEMMA OthersKeepFront ==
  ASSUME [Next]_vars, ~Front
  PROVE  UNCHANGED <<frontPc, frontSlot, toPop, taken>>
BY DEF Next, Capture, StreamCallback, CaptureLock, CapturePush, CaptureUnlock, captureIdle, Retune,
       RetuneDevice, RetuneStore, retuneIdle, Back, BackPopFiltered, BackProcess, BackSend, BackRelease,
       backIdle, frontVars, vars

\* How the front stage's program counter moves.
LEMMA FrontMoves ==
  ASSUME [Next]_vars
  PROVE  /\ frontPc' \in {"lock_first", "lock_second", "check", "retry"} =>
              \/ FrontPopFree
              \/ /\ frontPc \in {"lock_first", "lock_second", "check", "retry"}
                 /\ frontSlot' = frontSlot /\ ~FrontPop /\ ~FrontDrop
         /\ frontPc' \in FrontPopping =>
              \/ FrontReset \/ FrontPop
              \/ frontPc \in FrontPopping /\ UNCHANGED <<frontPc, frontSlot, toPop, taken>> /\ ~Front
         /\ Extracted' => \/ FrontPop /\ frontPc = "pop_2" /\ frontPc' = "unlock_1"
                          \/ Extracted /\ frontSlot' = frontSlot /\ ~FrontPop /\ ~FrontDrop
         /\ ~FrontReset => /\ taken' = taken
                           /\ FrontInFlight' => FrontInFlight /\ frontSlot' = frontSlot
<1>1. CASE ~Front
  <2>1. ~FrontReset /\ ~FrontPop /\ ~FrontDrop
    BY <1>1 DEF Front, FrontExtract
  <2> QED
    BY <1>1, <2>1, OthersKeepFront DEF Extracted, FrontInFlight
<1>2. CASE Front
  BY <1>2 DEF Front, FrontPopFree, FrontLock, FrontWait, FrontExtract, FrontReset, FrontPop, FrontUnlock,
              FrontLatch, FrontExchange, FrontLoad, FrontPass, FrontFail, FrontDrop, Extracted,
              FrontInFlight, FrontCarrying, FrontPopping
<1> QED
  BY <1>1, <1>2

\* A slot is empty until its CPI is extracted.
LEMMA StepEmpty == WellFormed /\ SlotsConserved /\ EmptyInv /\ [Next]_vars => EmptyInv'
<1> SUFFICES ASSUME WellFormed, SlotsConserved, EmptyInv, [Next]_vars PROVE EmptyInv'
  OBVIOUS
<1> DEFINE NewEmpty(s) == slot'[s].x = <<>> /\ slot'[s].y = <<>>
<1>1. Elements(freeSlots) \subseteq Slots /\ freeSlots \in Seq(Slots)
  BY DEF WellFormed, TypeOK, Elements
<1>2. ASSUME NEW s \in Elements(freeSlots') PROVE NewEmpty(s)
  <2>1. CASE s \in Elements(freeSlots)
    <3>1. s \in Slots /\ s # frontSlot /\ s # backSlot /\ Empty(s)
      BY <1>1, <2>1 DEF SlotsConserved, EmptyInv
    <3> QED
      BY <3>1, ChannelsWritten DEF Empty
  <2>2. CASE s = frontSlot /\ FrontDrop
    <3>1. s \in Slots /\ frontPc = "drop" /\ Front
      BY <2>2, FrontSlotIsSlot DEF FrontDrop, Front
    <3> QED
      BY <2>2, <3>1, FrontFields
  <2>3. CASE s = backSlot /\ BackRelease
    <3>1. s \in Slots /\ backPc = "release" /\ Back /\ ~BackPopFiltered
      BY <2>3, BackSlotIsSlot DEF BackRelease, BackPopFiltered, Back
    <3> QED
      BY <2>3, <3>1, BackFields
  <2> QED
    BY <2>1, <2>2, <2>3, SlotsFreed
<1>3. ASSUME frontPc' \in {"lock_first", "lock_second", "check", "retry"} PROVE NewEmpty(frontSlot')
  <2>1. CASE FrontPopFree
    <3>1. /\ frontSlot' \in Elements(freeSlots) /\ slot' = slot
      BY <1>1, <2>1, TailElements DEF FrontPopFree
    <3> QED
      BY <3>1 DEF EmptyInv, Empty
  <2>2. CASE /\ frontPc \in {"lock_first", "lock_second", "check", "retry"}
             /\ frontSlot' = frontSlot /\ ~FrontPop /\ ~FrontDrop
    <3>1. frontSlot \in Slots /\ frontSlot # backSlot /\ Empty(frontSlot)
      BY <2>2, FrontSlotIsSlot DEF SlotsConserved, EmptyInv
    <3> QED
      BY <2>2, <3>1, ChannelsWritten DEF Empty
  <2> QED
    BY <1>3, <2>1, <2>2, FrontMoves
<1> QED
  BY <1>2, <1>3 DEF EmptyInv, Empty

\* The front stage's CPI is the newest.
LEMMA StepFrontTime == WellFormed /\ FrontTime /\ [Next]_vars => FrontTime'
<1> SUFFICES ASSUME WellFormed, FrontTime, [Next]_vars, FrontInFlight'
             PROVE  NewTime(frontSlot') = Len(taken') /\ Len(taken') > 0
  BY DEF FrontTime, Time, NewTime
<1>1. Len(taken) \in Nat /\ taken \in Seq(Nat)
  BY DEF WellFormed, TypeOK
<1>2. CASE FrontReset
  <2>1. frontPc # "pop_free" /\ Front /\ frontSlot' = frontSlot
    BY <1>2 DEF FrontReset, Front, FrontExtract
  <2>2. slot'[frontSlot].time = <<Len(taken) + 1>>
    BY <1>2, <2>1, FrontFields
  <2>3. Len(taken') = Len(taken) + 1
    <3>1. Len(buffer[1]) > 0 /\ buffer[1] \in Seq(Nat)
      BY <1>2, PipelineAssumption DEF FrontReset, EnoughSamples, Channels, WellFormed, TypeOK
    <3>2. taken' = Append(taken, Head(buffer[1])) /\ Head(buffer[1]) \in Nat
      BY <1>2, <3>1 DEF FrontReset
    <3> QED
      BY <1>1, <3>2, AppendProperties
  <2> QED
    BY <1>1, <2>1, <2>2, <2>3 DEF NewTime
<1>3. CASE ~FrontReset
  <2>1. taken' = taken /\ FrontInFlight /\ frontSlot' = frontSlot
    BY <1>3, FrontMoves
  <2>2. frontSlot \in Slots
    BY <2>1, FrontSlotIsSlot DEF FrontInFlight, FrontCarrying, FrontPopping
  <2>3. Time(frontSlot) = Len(taken) /\ Len(taken) > 0
    BY <2>1 DEF FrontTime
  <2> QED
    BY <1>3, <2>1, <2>2, <2>3, TimesKept DEF NewTime, Time
<1> QED
  BY <1>2, <1>3

\* A CPI starts where the buffers begin, and the channels of its slot grow
\* with the pops.
LEMMA StepPopping ==
  ASSUME WellFormed, MutexInv, SlotsConserved, BufferInv, EmptyInv, FrontTime, PoppingInv,
         [Next]_vars
  PROVE  PoppingInv'
<1> SUFFICES ASSUME frontPc' \in FrontPopping
             PROVE  /\ toPop' <= NSamples /\ Oldest(2)' = taken'[Len(taken')] + NSamples - toPop'
                    /\ Run(slot'[frontSlot'].x, taken'[Len(taken')],
                           IF frontPc' = "pop_1" THEN NSamples - toPop' ELSE NSamples - toPop' + 1)
                    /\ Run(slot'[frontSlot'].y, taken'[Len(taken')], NSamples - toPop')
  BY DEF PoppingInv, Started, FrontPopping
<1>1. /\ taken \in Seq(Nat) /\ Len(taken) \in Nat /\ toPop \in Nat /\ NSamples \in Nat \ {0}
      /\ buffer[1] \in Seq(Nat) /\ buffer[2] \in Seq(Nat) /\ captured \in Nat
      /\ Len(buffer[1]) \in Nat /\ Len(buffer[2]) \in Nat
  BY PipelineAssumption DEF WellFormed, TypeOK, Channels
<1>2. CASE FrontReset
  <2>1. frontPc = "check" /\ Front /\ frontSlot' = frontSlot /\ frontPc' = "pop_1" /\ toPop' = NSamples
    BY <1>2 DEF FrontReset, Front, FrontExtract
  <2>2. ~CapturePush /\ ~FrontPop /\ capturePc # "push_2"
    BY <2>1, NotTogether DEF CapturePush, FrontPop, CapturePushing
  <2>3. Len(buffer[1]) > NSamples
    BY <1>2 DEF FrontReset, EnoughSamples, Channels
  <2>4. Run(buffer[1], Oldest(1), Len(buffer[1])) /\ Len(buffer[1]) = Len(buffer[2])
    BY <2>1, <2>2 DEF BufferInv, Channels
  <2>5. Oldest(1) \in Int /\ Oldest(2) = Oldest(1)
    BY <1>1, <2>2, <2>4 DEF Oldest, Newest
  <2>6. Head(buffer[1]) = Oldest(1) /\ Head(buffer[1]) \in Nat
    <3>1. Len(buffer[1]) \in Nat \ {0} /\ buffer[1] # <<>>
      BY <1>1, <2>3
    <3> QED
      BY <1>1, <2>4, <2>5, <3>1, RunTail
  <2>7. Len(taken') = Len(taken) + 1 /\ taken'[Len(taken) + 1] = Oldest(1)
    BY <1>1, <1>2, <2>6, AppendProperties DEF FrontReset
  <2>8. Oldest(2)' = Oldest(2)
    BY <2>2, OthersKeepBuffers
  <2>9. slot'[frontSlot].x = <<>> /\ slot'[frontSlot].y = <<>>
    BY <2>1, FrontFields DEF EmptyInv, Empty
  <2>10. Run(<<>>, Oldest(1), NSamples - NSamples)
    BY <1>1 DEF Run
  <2> QED
    BY <1>1, <2>1, <2>5, <2>7, <2>8, <2>9, <2>10
<1>3. CASE FrontPop
  <2> DEFINE it == frontSlot
             n  == NSamples - toPop
  <2>1. /\ Front /\ frontPc \in FrontPopping /\ frontSlot' = it /\ taken' = taken
        /\ frontPc # "pop_free" /\ ~FrontReset
    BY <1>3 DEF FrontPop, Front, FrontExtract, FrontPopping, FrontReset
  <2>2. it \in Slots /\ slot[it].x \in Seq(Nat) /\ slot[it].y \in Seq(Nat)
    BY <2>1, FrontSlotIsSlot DEF Slot
  <2>3. /\ toPop > 0 /\ toPop <= NSamples /\ Oldest(2) = Started + n
    BY <1>1, <2>1 DEF PoppingInv, WellFormed, PcInv, FrontPopping
  <2>4. n \in Nat /\ n < NSamples
    BY <1>1, <2>3
  <2>5. Started \in Int /\ Oldest(1) \in Int /\ Oldest(2) \in Int
    <3>1. Oldest(2) \in Int /\ Oldest(1) \in Int
      BY <1>1 DEF Oldest, Newest
    <3>2. FrontInFlight
      BY <2>1 DEF FrontInFlight, FrontCarrying, FrontPopping
    <3>3. Started \in Nat
      BY <1>1, <3>2 DEF FrontTime, Started
    <3> QED
      BY <3>1, <3>3
  <2>6. taken'[Len(taken')] = Started
    BY <2>1 DEF Started
  <2>7. CASE frontPc = "pop_1"
    <3>1. /\ Head(buffer[1]) = Oldest(1) /\ Oldest(1) = Oldest(2) /\ Oldest(2)' = Oldest(2)
      BY <1>3, <2>7, PopKeepsRuns
    <3>2. /\ slot'[it].x = Pushed(slot[it].x, NSamples, Head(buffer[1])) /\ slot'[it].y = slot[it].y
      BY <2>1, <2>7, FrontFields
    <3>3. Run(slot[it].x, Started, n) /\ Run(slot[it].y, Started, n)
      BY <2>1, <2>7 DEF PoppingInv
    <3>4. Len(buffer[1]) > 0
      BY <1>1, <2>3, <2>7 DEF WellFormed, PcInv
    <3>5. Head(buffer[1]) \in Nat /\ Head(buffer[1]) = Started + n
      BY <1>1, <2>3, <3>1, <3>4
    <3>6. Pushed(slot[it].x, NSamples, Head(buffer[1])) = Append(slot[it].x, Head(buffer[1]))
      BY <1>1, <2>4, <3>3 DEF Run, Pushed
    <3> HIDE DEF n
    <3>7. Run(slot'[it].x, Started, n + 1)
      BY <2>2, <2>4, <2>5, <3>2, <3>3, <3>5, <3>6, RunAppend
    <3>8. frontPc' = "pop_2" /\ toPop' = toPop
      BY <1>3, <2>7 DEF FrontPop
    <3> QED
      BY <2>1, <2>3, <2>6, <3>1, <3>2, <3>3, <3>7, <3>8 DEF n
  <2>8. CASE frontPc = "pop_2"
    <3>1. Head(buffer[2]) = Oldest(2) /\ Oldest(2)' = Oldest(2) + 1
      BY <1>3, <2>8, PopKeepsRuns
    <3>2. /\ slot'[it].x = slot[it].x /\ slot'[it].y = Pushed(slot[it].y, NSamples, Head(buffer[2]))
      BY <2>1, <2>8, FrontFields
    <3>3. Run(slot[it].x, Started, n + 1) /\ Run(slot[it].y, Started, n)
      BY <2>1, <2>8 DEF PoppingInv
    <3>4. Len(buffer[2]) > 0
      BY <1>1, <2>3, <2>8 DEF WellFormed, PcInv
    <3>5. Head(buffer[2]) \in Nat /\ Head(buffer[2]) = Started + n
      BY <1>1, <2>3, <3>1, <3>4
    <3>6. Pushed(slot[it].y, NSamples, Head(buffer[2])) = Append(slot[it].y, Head(buffer[2]))
      BY <1>1, <2>4, <3>3 DEF Run, Pushed
    <3> HIDE DEF n
    <3>7. Run(slot'[it].y, Started, n + 1)
      BY <2>2, <2>4, <2>5, <3>2, <3>3, <3>5, <3>6, RunAppend
    <3>8. frontPc' = "pop_1" /\ toPop' = toPop - 1
      BY <1>3, <2>1, <2>8 DEF FrontPop, FrontPopping
    <3>9. NSamples - toPop' = n + 1 /\ toPop' <= NSamples
      BY <1>1, <2>3, <3>8 DEF n
    <3>10. Oldest(2)' = Started + (n + 1)
      BY <2>3, <2>4, <2>5, <3>1
    <3>11. Oldest(2)' = Started + NSamples - toPop'
      BY <1>1, <2>5, <3>8, <3>9, <3>10
    <3> QED
      BY <2>1, <2>6, <3>2, <3>3, <3>7, <3>8, <3>9, <3>11
  <2> QED
    BY <2>1, <2>7, <2>8 DEF FrontPopping
<1>4. CASE frontPc \in FrontPopping /\ UNCHANGED <<frontPc, frontSlot, toPop, taken>> /\ ~Front
  <2>1. ~CapturePush /\ ~FrontPop /\ ~FrontDrop
    BY <1>4, NotTogether DEF CapturePush, CapturePushing, Front, FrontExtract
  <2>2. Oldest(2)' = Oldest(2)
    BY <2>1, OthersKeepBuffers
  <2>3. frontSlot \in Slots /\ frontSlot # backSlot
    BY <1>4, FrontSlotIsSlot DEF SlotsConserved, FrontPopping
  <2>4. slot'[frontSlot].x = slot[frontSlot].x /\ slot'[frontSlot].y = slot[frontSlot].y
    BY <2>1, <2>3, ChannelsWritten
  <2> QED
    BY <1>4, <2>2, <2>4 DEF PoppingInv, Started
<1> QED
  BY <1>2, <1>3, <1>4, FrontMoves

\* A slot whose channels, time stamp and place are left alone keeps its CPI.
LEMMA WholeKept ==
  ASSUME WellFormed, [Next]_vars, NEW s \in Slots, Whole(s), Time(s) \in 1 .. Len(taken),
         slot'[s].time = slot[s].time, slot'[s].x = slot[s].x, slot'[s].y = slot[s].y
  PROVE  /\ Run(slot'[s].x, taken'[NewTime(s)], NSamples)
         /\ Run(slot'[s].y, taken'[NewTime(s)], NSamples)
<1>1. taken \in Seq(Nat)
  BY DEF WellFormed, TypeOK
<1>2. taken'[Time(s)] = taken[Time(s)]
  <2>1. CASE FrontReset
    <3>1. Head(buffer[1]) \in Nat
      <4>1. buffer[1] \in Seq(Nat) /\ Len(buffer[1]) > 0
        BY <2>1, PipelineAssumption DEF FrontReset, EnoughSamples, Channels, WellFormed, TypeOK
      <4> QED
        BY <4>1
    <3> QED
      BY <1>1, <2>1, <3>1, AppendProperties DEF FrontReset
  <2>2. CASE ~FrontReset
    BY <2>2, FrontMoves
  <2> QED
    BY <2>1, <2>2
<1>3. NewTime(s) = Time(s)
  BY DEF NewTime, Time
<1> QED
  BY <1>2, <1>3 DEF Whole

\* What joins and leaves the queue of filtered CPIs.
LEMMA QueueMoves ==
  ASSUME WellFormed, [Next]_vars
  PROVE  /\ Elements(filteredSlots) \subseteq Slots
         /\ \A s \in Elements(filteredSlots') :
              s \in Elements(filteredSlots) \/ (s = frontSlot /\ FrontPass)
         /\ backPc' = "process" =>
              \/ (BackPopFiltered /\ backSlot' \in Elements(filteredSlots))
              \/ (backPc = "process" /\ backSlot' = backSlot /\ ~Back)
<1>1. filteredSlots \in Seq(Slots) /\ Elements(filteredSlots) \subseteq Slots
  BY DEF WellFormed, TypeOK, Elements
<1>2. CASE FrontPass
  <2>1. frontSlot \in Slots
    BY <1>2, FrontSlotIsSlot DEF FrontPass
  <2>2. backPc' = backPc /\ backSlot' = backSlot /\ ~Back
    BY <1>2 DEF FrontPass, frontIdle, backVars, Back, BackPopFiltered, BackProcess, BackSend, BackRelease,
                backIdle, frontVars
  <2> QED
    BY <1>1, <1>2, <2>1, <2>2, AppendElements DEF FrontPass
<1>3. CASE BackPopFiltered
  BY <1>1, <1>3, TailElements DEF BackPopFiltered
<1>4. CASE ~FrontPass /\ ~BackPopFiltered
  <2>1. filteredSlots' = filteredSlots
    BY <1>4 DEF Next, Front, FrontPopFree, FrontLock, FrontWait, FrontExtract, FrontReset, FrontPop, FrontUnlock,
           FrontLatch, FrontExchange, FrontLoad, FrontFail, FrontDrop, slotVars,
           Capture, StreamCallback, CaptureLock, CapturePush, CaptureUnlock, captureIdle, Retune,
           RetuneDevice, RetuneStore, retuneIdle, Back, BackProcess, BackSend, BackRelease, vars
  <2>2. CASE Back
    BY <1>1, <1>4, <2>1, <2>2 DEF Back, BackProcess, BackSend, BackRelease, AfterFrame, Kinds
  <2>3. CASE ~Back
    BY <1>1, <2>1, <2>3, OthersKeepBack
  <2> QED
    BY <2>2, <2>3
<1> QED
  BY <1>2, <1>3, <1>4

\* An extracted CPI is whole, and stays so until the back stage drains it.
LEMMA StepWhole ==
  ASSUME WellFormed, MutexInv, SlotsConserved, FramesTyped, OrderInv, BufferInv, FrontTime, PoppingInv,
         WholeInv, [Next]_vars
  PROVE  WholeInv'
<1> DEFINE NewWhole(s) == /\ Run(slot'[s].x, taken'[NewTime(s)], NSamples)
                          /\ Run(slot'[s].y, taken'[NewTime(s)], NSamples)
<1>1. ASSUME NEW s \in Slots, Whole(s), Time(s) \in Flying, ~FrontReset,
             ~(s = frontSlot /\ (FrontPop \/ FrontDrop)), ~(s = backSlot /\ (BackProcess \/ BackRelease))
      PROVE  NewWhole(s)
  BY <1>1, OrderTypes, ChannelsWritten, TimesKept, WholeKept
<1>2. ASSUME NEW s \in Slots, Whole(s), Time(s) \in Flying, s # frontSlot, FrontReset
      PROVE  NewWhole(s)
  <2>1. Front
    BY <1>2 DEF Front, FrontExtract
  <2> QED
    BY <1>2, <2>1, OrderTypes, FrontWrites, WholeKept
<1>3. ASSUME Extracted' PROVE NewWhole(frontSlot')
  <2>1. CASE FrontPop /\ frontPc = "pop_2" /\ frontPc' = "unlock_1"
    <3>1. /\ toPop = 1 /\ frontSlot' = frontSlot /\ taken' = taken /\ Front /\ frontPc # "pop_free"
          /\ ~FrontReset /\ frontPc \in FrontPopping /\ FrontInFlight
      BY <2>1 DEF FrontPop, Front, FrontExtract, FrontReset, WellFormed, TypeOK, PcInv, FrontPopping,
                  FrontInFlight, FrontCarrying
    <3>2. frontSlot \in Slots /\ slot[frontSlot].y \in Seq(Nat) /\ NSamples \in Nat \ {0}
      BY <3>1, FrontSlotIsSlot, PipelineAssumption DEF Slot
    <3>3. /\ slot'[frontSlot].x = slot[frontSlot].x
          /\ slot'[frontSlot].y = Pushed(slot[frontSlot].y, NSamples, Head(buffer[2]))
          /\ slot'[frontSlot].time = slot[frontSlot].time
      BY <2>1, <3>1, FrontFields
    <3>4. /\ Oldest(2) = Started + NSamples - 1
          /\ Run(slot[frontSlot].x, Started, NSamples - 1 + 1)
          /\ Run(slot[frontSlot].y, Started, NSamples - 1)
      BY <2>1, <3>1 DEF PoppingInv
    <3>5. Head(buffer[2]) = Oldest(2) /\ Started \in Nat
      <4>1. taken \in Seq(Nat) /\ Len(taken) \in Nat \ {0}
        BY <3>1 DEF FrontTime, WellFormed, TypeOK
      <4> QED
        BY <2>1, <4>1, PopKeepsRuns DEF Started
    <3>6. Head(buffer[2]) \in Nat /\ Head(buffer[2]) = Started + (NSamples - 1) /\ NSamples - 1 \in Nat
      BY <3>2, <3>4, <3>5
    <3>7. Pushed(slot[frontSlot].y, NSamples, Head(buffer[2])) = Append(slot[frontSlot].y, Head(buffer[2]))
      BY <3>2, <3>4 DEF Run, Pushed
    <3>8. Run(slot'[frontSlot].y, Started, (NSamples - 1) + 1)
      <4> DEFINE q == slot[frontSlot].y
                 n == NSamples - 1
                 sample == Head(buffer[2])
      <4>1. /\ q \in Seq(Nat) /\ n \in Nat /\ sample \in Nat /\ sample = Started + n /\ Started \in Int
            /\ Run(q, Started, n) /\ slot'[frontSlot].y = Append(q, sample)
        BY <3>2, <3>3, <3>4, <3>5, <3>6, <3>7
      <4> HIDE DEF q, n, sample
      <4>2. Run(Append(q, sample), Started, n + 1)
        BY <4>1, RunAppend
      <4> QED
        BY <4>1, <4>2 DEF n
    <3>9. (NSamples - 1) + 1 = NSamples
      BY <3>2
    <3>10. taken'[NewTime(frontSlot)] = Started
      BY <3>1, <3>3 DEF FrontTime, Started, NewTime, Time
    <3> QED
      BY <3>1, <3>3, <3>4, <3>8, <3>9, <3>10
  <2>2. CASE Extracted /\ frontSlot' = frontSlot /\ ~FrontPop /\ ~FrontDrop
    <3>1. /\ frontSlot \in Slots /\ frontSlot # backSlot /\ Whole(frontSlot) /\ Time(frontSlot) \in Flying
          /\ ~FrontReset
      BY <2>2, FrontSlotIsSlot, OrderTypes
         DEF SlotsConserved, WholeInv, Extracted, FrontInFlight, FrontCarrying, FrontPopping, FrontReset
    <3> QED
      BY <1>1, <2>2, <3>1
  <2> QED
    BY <1>3, <2>1, <2>2, FrontMoves
<1>4. ASSUME NEW s \in Elements(filteredSlots) PROVE NewWhole(s)
  <2>1. s \in Slots /\ Whole(s) /\ Time(s) \in Flying /\ s # frontSlot /\ s # backSlot
    BY <1>4, OrderTypes DEF WholeInv, SlotsConserved
  <2> QED
    BY <1>1, <1>2, <2>1
<1>5. ASSUME NEW s \in Elements(filteredSlots') PROVE NewWhole(s)
  <2>1. CASE s = frontSlot /\ FrontPass
    <3>1. /\ frontSlot \in Slots /\ frontSlot # backSlot /\ Whole(frontSlot) /\ Time(frontSlot) \in Flying
          /\ ~FrontReset /\ ~FrontPop /\ ~FrontDrop
      BY <2>1, FrontSlotIsSlot, OrderTypes
         DEF SlotsConserved, WholeInv, Extracted, FrontInFlight, FrontCarrying, FrontPopping, FrontPass,
             FrontReset, FrontPop, FrontDrop
    <3> QED
      BY <1>1, <2>1, <3>1
  <2> QED
    BY <1>4, <2>1, QueueMoves
<1>6. ASSUME backPc' = "process" PROVE NewWhole(backSlot')
  <2>1. CASE backPc = "process" /\ backSlot' = backSlot /\ ~Back
    <3>1. /\ backSlot \in Slots /\ backSlot # frontSlot /\ Whole(backSlot) /\ Time(backSlot) \in Flying
          /\ ~BackProcess /\ ~BackRelease
      BY <2>1, BackSlotIsSlot, OrderTypes DEF SlotsConserved, WholeInv, BackInFlight, Back
    <3> QED
      BY <1>1, <1>2, <2>1, <3>1
  <2> QED
    BY <1>4, <1>6, <2>1, QueueMoves
<1> QED
  BY <1>3, <1>5, <1>6 DEF WholeInv, Whole, Time, NewTime

\* A CPI starts after the one before it ends.
LEMMA StepTaken ==
  ASSUME WellFormed, MutexInv, BufferInv, FrontTime, PoppingInv, TakenInv, [Next]_vars
  PROVE  TakenInv'
<1>1. /\ taken \in Seq(Nat) /\ Len(taken) \in Nat /\ DOMAIN taken = 1 .. Len(taken)
      /\ \A i \in 1 .. Len(taken) : taken[i] \in Nat
      /\ NSamples \in Nat \ {0} /\ Oldest(1) \in Int /\ Oldest(2) \in Int
  BY PipelineAssumption DEF WellFormed, TypeOK, Channels, Oldest, Newest
<1>2. CASE FrontReset
  <2>1. frontPc = "check" /\ frontPc' = "pop_1" /\ frontPc \notin FrontPopping
    BY <1>2 DEF FrontReset, FrontPopping
  <2>2. Head(buffer[1]) = Oldest(1) /\ Head(buffer[1]) \in Nat
    <3>1. buffer[1] \in Seq(Nat) /\ Len(buffer[1]) \in Nat \ {0} /\ buffer[1] # <<>>
      BY <1>1, <1>2 DEF FrontReset, EnoughSamples, Channels, WellFormed, TypeOK
    <3>2. Run(buffer[1], Oldest(1), Len(buffer[1]))
      BY DEF BufferInv, Channels
    <3> QED
      BY <1>1, <3>1, <3>2, RunTail
  <2>3. /\ Len(taken') = Len(taken) + 1 /\ taken' \in Seq(Nat)
        /\ \A i \in 1 .. Len(taken) : taken'[i] = taken[i]
        /\ taken'[Len(taken) + 1] = Oldest(1)
    BY <1>1, <1>2, <2>2, AppendProperties DEF FrontReset
  <2>4. \A i \in 1 .. Len(taken) : taken[i] + NSamples <= Oldest(1)
    BY <1>1, <2>1 DEF TakenInv
  <2>5. ASSUME NEW i \in 1 .. Len(taken) + 1, NEW j \in 1 .. Len(taken) + 1, i < j
        PROVE  taken'[i] + NSamples <= taken'[j]
    <3>1. i \in 1 .. Len(taken)
      BY <1>1, <2>5
    <3>2. CASE j = Len(taken) + 1
      BY <2>3, <2>4, <3>1, <3>2
    <3>3. CASE j # Len(taken) + 1
      <4>1. j \in 1 .. Len(taken)
        BY <1>1, <3>3
      <4> QED
        BY <1>1, <2>3, <2>5, <3>1, <4>1 DEF TakenInv
    <3> QED
      BY <3>2, <3>3
  <2>6. DOMAIN taken' = 1 .. Len(taken) + 1
    BY <2>3
  <2> QED
    BY <2>1, <2>5, <2>6 DEF TakenInv, FrontPopping
<1>3. CASE ~FrontReset
  <2>1. taken' = taken
    BY <1>3, FrontMoves
  <2>2. ASSUME frontPc \notin FrontPopping, NEW i \in 1 .. Len(taken)
        PROVE  taken[i] + NSamples <= Oldest(1)'
    <3>1. ~FrontPop /\ taken[i] + NSamples <= Oldest(1)
      BY <1>1, <2>2 DEF TakenInv, FrontPop, FrontPopping
    <3>2. CASE CapturePush
      <4>1. Oldest(1)' >= Oldest(1)
        BY <3>2, PushKeepsRuns
      <4>2. Oldest(1)' \in Int
        <5>1. buffer' \in [Channels -> Seq(Nat)] /\ captured' \in Nat
          BY StepWellFormed DEF WellFormed, TypeOK
        <5> QED
          BY <5>1 DEF Oldest, Newest, Channels
      <4> QED
        BY <1>1, <3>1, <4>1, <4>2
    <3>3. CASE ~CapturePush
      BY <3>1, <3>3, OthersKeepBuffers
    <3> QED
      BY <3>2, <3>3
  <2>3. ASSUME frontPc \in FrontPopping, frontPc' \notin FrontPopping, NEW i \in 1 .. Len(taken)
        PROVE  taken[i] + NSamples <= Oldest(1)'
    <3>1. FrontPop /\ frontPc = "pop_2" /\ toPop = 1
      <4>1. Front
        BY <2>3, OthersKeepFront
      <4>2. FrontPop
        BY <2>3, <4>1
           DEF Front, FrontPopFree, FrontLock, FrontWait, FrontExtract, FrontReset, FrontUnlock,
               FrontLatch, FrontExchange, FrontLoad, FrontPass, FrontFail, FrontDrop, FrontPopping
      <4>3. frontPc = "pop_2" /\ toPop' = toPop - 1 /\ toPop' = 0 /\ toPop \in Nat
        BY <2>3, <4>2 DEF FrontPop, FrontPopping, WellFormed, TypeOK
      <4> QED
        BY <4>2, <4>3
    <3>2. Oldest(1)' = Oldest(1) /\ Oldest(1) = Oldest(2) + 1
      BY <3>1, PopKeepsRuns
    <3>3. Oldest(2) = Started + NSamples - 1
      BY <2>3, <3>1 DEF PoppingInv
    <3>4. Started = taken[Len(taken)] /\ Len(taken) > 0
      BY <3>1 DEF Started, FrontTime, FrontInFlight, FrontCarrying, FrontPopping
    <3>5. Oldest(1)' = taken[Len(taken)] + NSamples
      BY <1>1, <3>2, <3>3, <3>4
    <3>6. CASE i = Len(taken)
      BY <1>1, <3>5, <3>6
    <3>7. CASE i # Len(taken)
      <4>1. i < Len(taken) /\ Len(taken) \in 1 .. Len(taken)
        <5> DEFINE n == Len(taken)
        <5>1. n \in Nat /\ n > 0 /\ i \in 1 .. n /\ i # n
          BY <1>1, <2>3, <3>4, <3>7
        <5> HIDE DEF n
        <5>2. i < n /\ n \in 1 .. n
          BY <5>1
        <5> QED
          BY <5>2 DEF n
      <4>2. taken[i] + NSamples <= taken[Len(taken)]
        BY <1>1, <4>1 DEF TakenInv
      <4> QED
        BY <1>1, <3>5, <4>1, <4>2
    <3> QED
      BY <3>6, <3>7
  <2> QED
    BY <1>1, <2>1, <2>2, <2>3 DEF TakenInv
<1> QED
  BY <1>2, <1>3

\* Both channels of a CPI hold the same, consecutive, samples, and a CPI
\* starts after the one before it ends.
THEOREM ChannelsOfCpiAligned == Spec => []ChannelsAligned
<1> DEFINE Inv == /\ WellFormed /\ MutexInv /\ SlotsConserved /\ FramesTyped /\ OrderInv
                  /\ BufferInv /\ ChannelsInv
<1>1. Init => Inv
  <2> SUFFICES ASSUME Init PROVE Inv
    OBVIOUS
  <2>1. WellFormed /\ MutexInv /\ SlotsConserved /\ FramesTyped /\ OrderInv
    BY InitWellFormed, InitMutex, InitSlotsConserved, InitOrder
  <2>2. BufferInv
    BY PipelineAssumption DEF Init, BufferInv, Run, Oldest, Newest, Channels
  <2>3. FrontTime /\ PoppingInv /\ WholeInv /\ TakenInv
    BY DEF Init, FrontTime, FrontInFlight, FrontCarrying, FrontPopping, PoppingInv, WholeInv, Extracted,
           TakenInv, Elements
  <2>4. EmptyInv
    <3>1. slot = [s \in Slots |-> EmptySlot] /\ Elements(freeSlots) = Slots /\ frontPc = "pop_free"
      BY DEF Init
    <3> QED
      BY <3>1 DEF EmptyInv, Empty, EmptySlot
  <2> QED
    BY <2>1, <2>2, <2>3, <2>4 DEF ChannelsInv
<1>2. Inv /\ [Next]_vars => Inv'
  BY StepWellFormed, StepMutex, StepSlotsConserved, StepFrames, StepOrder, StepBuffers, StepEmpty,
     StepFrontTime, StepPopping, StepWhole, StepTaken DEF ChannelsInv
<1>3. Inv => ChannelsAligned
  <2> SUFFICES ASSUME Inv PROVE ChannelsAligned
    OBVIOUS
  <2>1. ASSUME NEW s \in Slots, Whole(s) PROVE WholeCpi(s)
    <3>1. slot[s].x \in Seq(Nat) /\ slot[s].y \in Seq(Nat)
      BY DEF WellFormed, TypeOK, Slot
    <3>2. /\ DOMAIN slot[s].x = 1 .. NSamples /\ DOMAIN slot[s].y = 1 .. NSamples
          /\ \A i \in 1 .. NSamples : slot[s].x[i] = taken[slot[s].time[1]] + i - 1
          /\ \A i \in 1 .. NSamples : slot[s].y[i] = taken[slot[s].time[1]] + i - 1
      BY <2>1, <3>1 DEF Whole, Run, Time
    <3>3. /\ slot[s].x = [i \in 1 .. NSamples |-> slot[s].x[i]]
          /\ slot[s].y = [i \in 1 .. NSamples |-> slot[s].y[i]]
      BY <3>1, <3>2, LenProperties
    <3> QED
      BY <3>2, <3>3 DEF WholeCpi
  <2>2. /\ Extracted => frontSlot \in Slots
        /\ backPc = "process" => backSlot \in Slots
        /\ Elements(filteredSlots) \subseteq Slots
    BY FrontSlotIsSlot, BackSlotIsSlot DEF Extracted, WellFormed, TypeOK, Elements
  <2> QED
    BY <2>1, <2>2 DEF ChannelsAligned, ChannelsInv, WholeInv, TakenInv
<1> QED
  BY <1>1, <1>2, <1>3, PTL DEF Spec
================================================================================
