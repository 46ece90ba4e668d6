------------------------------ MODULE CpiPipeline ------------------------------
(***************************************************************************)
(* The radar loop of blah2.cpp: the SDR driver's callback fills two capture*)
(* buffers, the front stage (thread t2) cuts them into CPIs and clutter    *)
(* filters them, the back stage (thread t3) processes and publishes them,  *)
(* and the retune thread (Capture.cpp) announces a new centre frequency.   *)
(*                                                                         *)
(* Four threads, one program counter each.  A step is one operation another*)
(* thread can see: a mutex taken or released, a sample pushed or popped, an*)
(* atomic exchanged, a slot handed over, a frame sent.  What a thread does *)
(* to a slot it alone holds is folded into the step before the next visible*)
(* one.                                                                    *)
(*                                                                         *)
(* A sample is the number of its arrival.  A CPI is the number of its      *)
(* extract, which is also its time stamp: time[0] is the start of the      *)
(* extract.                                                                *)
(***************************************************************************)
EXTENDS Fifo, FiniteSets

CONSTANTS
  Slots,          \* the slots of the pipeline; kPipelineDepth of them
  NSamples,       \* samples of one CPI, nSamples = fs * tCpi
  BufferSize,     \* samples a capture buffer holds, fs * tBuffer
  MaxBlock,       \* bound: samples a driver callback delivers at most
  MaxSamples,     \* bound: samples that ever arrive
  Fcs,            \* centre frequencies
  InitFc,         \* the frequency of the configuration file
  NoFc,           \* the 0 that TuneState and CpiSlot start with
  MaxRetunes,     \* bound: retunes that change the frequency
  NoSlot,         \* a stage that holds no slot
  Drained         \* samples of a CPI that Ambiguity drains

ASSUME PipelineAssumption ==
  /\ NSamples \in Nat \ {0} /\ BufferSize \in Nat \ {0}
  /\ MaxBlock \in Nat \ {0} /\ MaxSamples \in Nat /\ MaxRetunes \in Nat
  /\ Drained \in 0 .. NSamples
  /\ InitFc \in Fcs /\ NoFc \notin Fcs
  /\ IsFiniteSet(Slots) /\ NoSlot \notin Slots

VARIABLES
  config,         \* isClutter and isDetection of the configuration file
  buffer,         \* the two capture buffers, reference and surveillance
  lock,           \* the mutex of each capture buffer: its holder
  captured,       \* the samples that have arrived
  capturePc, toPush,
  frontPc, frontSlot, toPop,
  backPc, backSlot, fc,
  slot, freeSlots, filteredSlots,
  retunePc, retunes, deviceFc, fcChanged, currentFc,
  taken,          \* history: the first sample of each CPI, in extract order
  dropped,        \* history: the CPIs the clutter filter failed on
  published       \* history: the frames sent, in order

captureVars == <<captured, capturePc, toPush>>
frontVars   == <<frontPc, frontSlot, toPop, taken, dropped>>
backVars    == <<backPc, backSlot, fc, published>>
slotVars    == <<slot, freeSlots, filteredSlots>>
tuneVars    == <<retunePc, retunes, deviceFc, fcChanged, currentFc>>
vars == <<config, buffer, lock, captureVars, frontVars, backVars, slotVars, tuneVars>>

Elements(q) == {q[i] : i \in DOMAIN q}
Distinct(q) == \A i, j \in DOMAIN q : q[i] = q[j] => i = j

Channels == {1, 2}
Threads  == {"capture", "front"}
Nobody   == "nobody"
Kinds    == {"iqdata", "map", "detection", "timing", "timestamp"}

--------------------------------------------------------------------------------
(* Slots and queues                                                        *)

Stages == {"extract_buffer", "clutter_filter", "pipeline_wait", "spectrum",
           "ambiguity_processing", "detector", "output_radar_data", "cpi", "duty_cycle"}

\* CpiSlot.  timingTime runs in step with timingName and is left out.
Slot == [x : Seq(Nat), y : Seq(Nat), time : Seq(Nat), timingName : Seq(Stages),
         fcChanged : BOOLEAN, fc : Fcs \cup {NoFc}]

EmptySlot == [x |-> <<>>, y |-> <<>>, time |-> <<>>, timingName |-> <<>>,
              fcChanged |-> FALSE, fc |-> NoFc]

\* Mutant of Reset: the timings of the slot's last CPI stay.
ResetKeepsTimings(s) == [EmptySlot EXCEPT !.x = s.x, !.y = s.y, !.timingName = s.timingName]

\* CpiSlot::reset leaves the two channels alone.
Reset(s) == [EmptySlot EXCEPT !.x = s.x, !.y = s.y]

\* timing_helper: the stage that just ended is appended to the CPI's timings.
Timed(s, name) == [s EXCEPT !.timingName = Append(@, name)]

Cleared(s) == [s EXCEPT !.x = <<>>, !.y = <<>>]

--------------------------------------------------------------------------------
(* The capture buffers' mutexes                                            *)

\* Mutant of Acquire: the mutex does not exclude.
AcquireHeld(thread, c) == lock' = [lock EXCEPT ![c] = thread]

Acquire(thread, c) == lock[c] = Nobody /\ lock' = [lock EXCEPT ![c] = thread]
Release(c) == lock' = [lock EXCEPT ![c] = Nobody]

\* The order in which each thread takes the two mutexes.
CaptureLockOrder == <<1, 2>>
\* Mutant of FrontLockOrder: the front stage takes them the other way round.
FrontLockSwapped == <<2, 1>>

FrontLockOrder   == <<1, 2>>

--------------------------------------------------------------------------------
Init ==
  /\ config \in [isClutter : BOOLEAN, isDetection : BOOLEAN]
  /\ buffer = [c \in Channels |-> <<>>]
  /\ lock = [c \in Channels |-> Nobody]
  /\ captured = 0 /\ capturePc = "idle" /\ toPush = 0
  /\ frontPc = "pop_free" /\ frontSlot = NoSlot /\ toPop = 0
  /\ backPc = "pop_filtered" /\ backSlot = NoSlot /\ fc = InitFc
  /\ slot = [s \in Slots |-> EmptySlot]
  /\ freeSlots \in [1 .. Cardinality(Slots) -> Slots]
  /\ Distinct(freeSlots) /\ Elements(freeSlots) = Slots
  /\ filteredSlots = <<>>
  /\ retunePc = "idle" /\ retunes = 0 /\ deviceFc = InitFc /\ fcChanged = FALSE /\ currentFc = NoFc
  /\ taken = <<>> /\ dropped = {} /\ published = <<>>

--------------------------------------------------------------------------------
(* The capture thread: RspDuo::stream_b_callback                           *)

captureIdle == UNCHANGED <<config, frontVars, backVars, slotVars, tuneVars>>

\* The driver delivers a block of samples of both tuners.
StreamCallback ==
  /\ capturePc = "idle"
  /\ \E block \in 1 .. MaxBlock :
       /\ captured + block <= MaxSamples
       /\ toPush' = block
  /\ capturePc' = "lock_first"
  /\ UNCHANGED <<captured, buffer, lock>> /\ captureIdle

CaptureLock ==
  /\ \/ /\ capturePc = "lock_first" /\ Acquire("capture", CaptureLockOrder[1])
        /\ capturePc' = "lock_second"
     \/ /\ capturePc = "lock_second" /\ Acquire("capture", CaptureLockOrder[2])
        /\ capturePc' = "push_1"
  /\ UNCHANGED <<captured, toPush, buffer>> /\ captureIdle

\* One sample of the reference channel, then its partner of the surveillance
\* channel.
CapturePush ==
  /\ \/ /\ capturePc = "push_1"
        /\ captured' = captured + 1
        /\ buffer' = [buffer EXCEPT ![1] = Pushed(@, BufferSize, captured')]
        /\ capturePc' = "push_2" /\ UNCHANGED toPush
     \/ /\ capturePc = "push_2"
        /\ buffer' = [buffer EXCEPT ![2] = Pushed(@, BufferSize, captured)]
        /\ toPush' = toPush - 1
        /\ capturePc' = IF toPush' = 0 THEN "unlock_1" ELSE "push_1"
        /\ UNCHANGED captured
  /\ UNCHANGED lock /\ captureIdle

CaptureUnlock ==
  /\ \/ /\ capturePc = "unlock_1" /\ Release(1) /\ capturePc' = "unlock_2"
     \/ /\ capturePc = "unlock_2" /\ Release(2) /\ capturePc' = "idle"
  /\ UNCHANGED <<captured, toPush, buffer>> /\ captureIdle

--------------------------------------------------------------------------------
(* The front stage: thread t2 of blah2.cpp                                 *)

frontIdle == UNCHANGED <<config, captureVars, backVars, retunePc, retunes, deviceFc,
                         currentFc>>

FrontPopFree ==
  /\ frontPc = "pop_free" /\ freeSlots # <<>>
  /\ frontSlot' = Head(freeSlots) /\ freeSlots' = Tail(freeSlots)
  /\ frontPc' = "lock_first"
  /\ UNCHANGED <<buffer, lock, toPop, taken, dropped, slot, filteredSlots, fcChanged>>
  /\ frontIdle

FrontLock ==
  /\ \/ /\ frontPc = "lock_first" /\ Acquire("front", FrontLockOrder[1])
        /\ frontPc' = "lock_second"
     \/ /\ frontPc = "lock_second" /\ Acquire("front", FrontLockOrder[2])
        /\ frontPc' = "check"
  /\ UNCHANGED <<buffer, frontSlot, toPop, taken, dropped, slotVars, fcChanged>>
  /\ frontIdle

\* The test is for more than a CPI in both buffers, not for a whole CPI.
EnoughSamples == \A c \in Channels : Len(buffer[c]) > NSamples

\* Too few samples: both mutexes go back, and the stage sleeps before it
\* takes them again.
FrontWait ==
  /\ \/ /\ frontPc = "check" /\ ~EnoughSamples /\ Release(1) /\ frontPc' = "retry"
     \/ /\ frontPc = "retry" /\ Release(2) /\ frontPc' = "lock_first"
  /\ UNCHANGED <<buffer, frontSlot, toPop, taken, dropped, slotVars, fcChanged>>
  /\ frontIdle

\* A CPI is there: the slot is readied and stamped.
FrontReset ==
  /\ frontPc = "check" /\ EnoughSamples
  /\ slot' = [slot EXCEPT ![frontSlot] = [Reset(@) EXCEPT !.time = <<Len(taken) + 1>>]]
  /\ taken' = Append(taken, Head(buffer[1]))
  /\ toPop' = NSamples /\ frontPc' = "pop_1"
  /\ UNCHANGED <<buffer, lock, frontSlot, dropped, freeSlots, filteredSlots, fcChanged>>
  /\ frontIdle

FrontPop ==
  /\ \/ /\ frontPc = "pop_1"
        /\ slot' = [slot EXCEPT ![frontSlot].x = Pushed(@, NSamples, Head(buffer[1]))]
        /\ buffer' = [buffer EXCEPT ![1] = Tail(@)]
        /\ frontPc' = "pop_2" /\ UNCHANGED toPop
     \/ /\ frontPc = "pop_2"
        /\ slot' = [slot EXCEPT ![frontSlot].y = Pushed(@, NSamples, Head(buffer[2]))]
        /\ buffer' = [buffer EXCEPT ![2] = Tail(@)]
        /\ toPop' = toPop - 1
        /\ frontPc' = IF toPop' = 0 THEN "unlock_1" ELSE "pop_1"
  /\ UNCHANGED <<lock, frontSlot, taken, dropped, freeSlots, filteredSlots, fcChanged>>
  /\ frontIdle

FrontUnlock ==
  /\ \/ /\ frontPc = "unlock_1" /\ Release(1) /\ frontPc' = "unlock_2"
        /\ UNCHANGED slot
     \/ /\ frontPc = "unlock_2" /\ Release(2) /\ frontPc' = "exchange"
        /\ slot' = [slot EXCEPT ![frontSlot] = Timed(@, "extract_buffer")]
  /\ UNCHANGED <<buffer, frontSlot, toPop, taken, dropped, freeSlots, filteredSlots,
                 fcChanged>>
  /\ frontIdle

\* A pending retune is latched: the flag and the frequency are two atomics,
\* read one after the other.
FrontExchange ==
  /\ frontPc = "exchange"
  /\ slot' = [slot EXCEPT ![frontSlot].fcChanged = fcChanged]
  /\ fcChanged' = FALSE
  /\ frontPc' = IF fcChanged THEN "load" ELSE "filter"
  /\ UNCHANGED <<buffer, lock, frontSlot, toPop, taken, dropped, freeSlots, filteredSlots>>
  /\ frontIdle

FrontLoad ==
  /\ frontPc = "load"
  /\ slot' = [slot EXCEPT ![frontSlot].fc = currentFc]
  /\ frontPc' = "filter"
  /\ UNCHANGED <<buffer, lock, frontSlot, toPop, taken, dropped, freeSlots, filteredSlots,
                 fcChanged>>
  /\ frontIdle

\* The clutter filter passes, or is switched off, and the CPI goes to the
\* back stage.
FrontPass ==
  /\ frontPc = "filter"
  /\ LET done == IF config.isClutter THEN Timed(slot[frontSlot], "clutter_filter")
                                     ELSE slot[frontSlot]
     IN  slot' = [slot EXCEPT ![frontSlot] = done]
  /\ filteredSlots' = Append(filteredSlots, frontSlot)
  /\ frontSlot' = NoSlot /\ frontPc' = "pop_free"
  /\ UNCHANGED <<buffer, lock, toPop, taken, dropped, freeSlots, fcChanged>>
  /\ frontIdle

\* Mutant of FrontFail: the retune the CPI had latched goes with it.
FrontFailSwallows ==
  /\ frontPc = "filter" /\ config.isClutter
  /\ dropped' = dropped \cup {slot[frontSlot].time[1]}
  /\ frontPc' = "drop"
  /\ UNCHANGED <<buffer, lock, frontSlot, toPop, taken, slotVars, fcChanged>>
  /\ frontIdle

\* The clutter filter fails: the CPI is dropped, and a retune it had latched
\* is handed back first.
FrontFail ==
  /\ frontPc = "filter" /\ config.isClutter
  /\ fcChanged' = (fcChanged \/ slot[frontSlot].fcChanged)
  /\ dropped' = dropped \cup {slot[frontSlot].time[1]}
  /\ frontPc' = "drop"
  /\ UNCHANGED <<buffer, lock, frontSlot, toPop, taken, slotVars>>
  /\ frontIdle

\* Mutant of FrontDrop: the slot of a dropped CPI is not returned.
FrontDropLeaks ==
  /\ frontPc = "drop"
  /\ slot' = [slot EXCEPT ![frontSlot] = Cleared(@)]
  /\ frontSlot' = NoSlot /\ frontPc' = "pop_free"
  /\ UNCHANGED <<buffer, lock, toPop, taken, dropped, freeSlots, filteredSlots, fcChanged>>
  /\ frontIdle

FrontDrop ==
  /\ frontPc = "drop"
  /\ slot' = [slot EXCEPT ![frontSlot] = Cleared(@)]
  /\ freeSlots' = Append(freeSlots, frontSlot)
  /\ frontSlot' = NoSlot /\ frontPc' = "pop_free"
  /\ UNCHANGED <<buffer, lock, toPop, taken, dropped, filteredSlots, fcChanged>>
  /\ frontIdle

--------------------------------------------------------------------------------
(* The back stage: thread t3 of blah2.cpp                                  *)

backIdle == UNCHANGED <<config, buffer, lock, captureVars, frontVars, tuneVars>>

\* Mutant of BackPopFiltered: the stage takes the newest filtered CPI.
BackPopNewest ==
  /\ backPc = "pop_filtered" /\ filteredSlots # <<>>
  /\ backSlot' = filteredSlots[Len(filteredSlots)]
  /\ filteredSlots' = SubSeq(filteredSlots, 1, Len(filteredSlots) - 1)
  /\ slot' = [slot EXCEPT ![backSlot'] = Timed(@, "pipeline_wait")]
  /\ fc' = IF slot[backSlot'].fcChanged THEN slot[backSlot'].fc ELSE fc
  /\ backPc' = "process"
  /\ UNCHANGED <<published, freeSlots>> /\ backIdle

\* The stage takes the oldest filtered CPI and adopts the frequency latched
\* with it.
BackPopFiltered ==
  /\ backPc = "pop_filtered" /\ filteredSlots # <<>>
  /\ backSlot' = Head(filteredSlots) /\ filteredSlots' = Tail(filteredSlots)
  /\ slot' = [slot EXCEPT ![backSlot'] = Timed(@, "pipeline_wait")]
  /\ fc' = IF slot[backSlot'].fcChanged THEN slot[backSlot'].fc ELSE fc
  /\ backPc' = "process"
  /\ UNCHANGED <<published, freeSlots>> /\ backIdle

\* What the stages of the back thread add to a CPI's timings.
BackStages == IF config.isDetection
                THEN <<"spectrum", "ambiguity_processing", "detector">>
                ELSE <<"spectrum", "ambiguity_processing">>

\* Spectrum, ambiguity and detection.  The ambiguity stage drains both
\* channels but for its last, partial batch.
Processed(s) == [s EXCEPT !.x = SubSeq(@, Drained + 1, Len(@)),
                          !.y = SubSeq(@, Drained + 1, Len(@)),
                          !.timingName = @ \o BackStages]

BackProcess ==
  /\ backPc = "process"
  /\ slot' = [slot EXCEPT ![backSlot] = Processed(@)]
  /\ backPc' = "iqdata"
  /\ UNCHANGED <<backSlot, fc, published, freeSlots, filteredSlots>> /\ backIdle

\* Mutant of AfterFrame: the time stamp goes out before the timings.
AfterFrameStampEarly ==
  [iqdata |-> "map", map |-> IF config.isDetection THEN "detection" ELSE "timestamp",
   detection |-> "timestamp", timestamp |-> "timing", timing |-> "release"]

\* What follows each frame of a CPI; detections are sent only when detection
\* is on.
AfterFrame ==
  [iqdata |-> "map", map |-> IF config.isDetection THEN "detection" ELSE "timing",
   detection |-> "timing", timing |-> "timestamp", timestamp |-> "release"]

\* The timings of a report: all but the wait between the stages.
Reported(timings) ==
  [i \in {j \in DOMAIN timings : timings[j] # "pipeline_wait"} |-> timings[i]]

\* Every frame is stamped with the CPI's time[0].  After the data frames the
\* timings are closed with the CPI's cost and the duty cycle.
BackSend ==
  /\ backPc \in Kinds
  /\ LET s == slot[backSlot]
         timings == s.timingName \o <<"output_radar_data", "cpi", "duty_cycle">>
     IN  /\ published' = Append(published,
              [kind |-> backPc, time |-> s.time[1], fc |-> fc,
               names |-> IF backPc = "timing" THEN Reported(timings) ELSE <<>>])
         /\ slot' = IF backPc = "timing"
                      THEN [slot EXCEPT ![backSlot].timingName = timings] ELSE slot
  /\ backPc' = AfterFrame[backPc]
  /\ UNCHANGED <<backSlot, fc, freeSlots, filteredSlots>> /\ backIdle

\* Mutant of BackRelease: the slot is not returned to the free list.
BackReleaseLeaks ==
  /\ backPc = "release"
  /\ slot' = [slot EXCEPT ![backSlot] = Cleared(@)]
  /\ backSlot' = NoSlot /\ backPc' = "pop_filtered"
  /\ UNCHANGED <<fc, published, freeSlots, filteredSlots>> /\ backIdle

BackRelease ==
  /\ backPc = "release"
  /\ slot' = [slot EXCEPT ![backSlot] = Cleared(@)]
  /\ freeSlots' = Append(freeSlots, backSlot)
  /\ backSlot' = NoSlot /\ backPc' = "pop_filtered"
  /\ UNCHANGED <<fc, published, filteredSlots>> /\ backIdle

--------------------------------------------------------------------------------
(* The retune thread of Capture::process, seen from the radar loop: a      *)
(* retune that changed the frequency of the tuners is announced in two     *)
(* stores.                                                                 *)

retuneIdle == UNCHANGED <<config, buffer, lock, captureVars, frontVars, backVars, slotVars>>

\* RspDuo::retune has moved the tuners.
RetuneDevice ==
  /\ retunePc = "idle" /\ retunes < MaxRetunes
  /\ \E f \in Fcs \ {deviceFc} : deviceFc' = f
  /\ retunes' = retunes + 1 /\ retunePc' = "store_fc"
  /\ UNCHANGED <<fcChanged, currentFc>> /\ retuneIdle

\* Mutant of RetuneStore: the flag is raised before the frequency is stored.
RetuneStoreFlagFirst ==
  /\ \/ /\ retunePc = "store_fc" /\ fcChanged' = TRUE
        /\ retunePc' = "store_flag" /\ UNCHANGED currentFc
     \/ /\ retunePc = "store_flag" /\ currentFc' = deviceFc
        /\ retunePc' = "idle" /\ UNCHANGED fcChanged
  /\ UNCHANGED <<retunes, deviceFc>> /\ retuneIdle

RetuneStore ==
  /\ \/ /\ retunePc = "store_fc" /\ currentFc' = deviceFc
        /\ retunePc' = "store_flag" /\ UNCHANGED fcChanged
     \/ /\ retunePc = "store_flag" /\ fcChanged' = TRUE
        /\ retunePc' = "idle" /\ UNCHANGED currentFc
  /\ UNCHANGED <<retunes, deviceFc>> /\ retuneIdle

--------------------------------------------------------------------------------
Capture == StreamCallback \/ CaptureLock \/ CapturePush \/ CaptureUnlock
FrontExtract == FrontReset \/ FrontPop \/ FrontUnlock
FrontLatch == FrontExchange \/ FrontLoad
Front == \/ FrontPopFree \/ FrontLock \/ FrontWait \/ FrontExtract
         \/ FrontLatch \/ FrontPass \/ FrontFail \/ FrontDrop
Back == BackPopFiltered \/ BackProcess \/ BackSend \/ BackRelease
Retune == RetuneDevice \/ RetuneStore

Next == Capture \/ Front \/ Back \/ Retune

Spec == Init /\ [][Next]_vars

\* The operating system runs every thread that can run.  A mutex is handed
\* to a thread that keeps asking for it while the other keeps returning it:
\* the front stage sleeps a millisecond between two tries.
Fairness ==
  /\ WF_vars(CapturePush \/ CaptureUnlock) /\ SF_vars(CaptureLock)
  /\ WF_vars(FrontPopFree \/ FrontWait \/ FrontExtract \/ FrontLatch \/ FrontDrop)
  /\ SF_vars(FrontLock) /\ WF_vars(FrontPass)
  /\ WF_vars(Back) /\ WF_vars(RetuneStore)

FairSpec == Spec /\ Fairness

--------------------------------------------------------------------------------
(* Type invariant                                                          *)

FrontPcs == {"pop_free", "lock_first", "lock_second", "check", "retry", "pop_1", "pop_2",
             "unlock_1", "unlock_2", "exchange", "load", "filter", "drop"}
CapturePcs == {"idle", "lock_first", "lock_second", "push_1", "push_2",
               "unlock_1", "unlock_2"}
BackPcs == {"pop_filtered", "process", "release"} \cup Kinds

IsFrame(m) ==
  /\ m.kind \in Kinds /\ m.time \in Nat /\ m.fc \in Fcs \cup {NoFc}
  /\ \A i \in DOMAIN m.names : m.names[i] \in Stages

\* Every variable holds a value of its C++ type.
TypeOK ==
  /\ config \in [isClutter : BOOLEAN, isDetection : BOOLEAN]
  /\ buffer \in [Channels -> Seq(Nat)]
  /\ lock \in [Channels -> Threads \cup {Nobody}]
  /\ captured \in Nat /\ capturePc \in CapturePcs /\ toPush \in Nat
  /\ frontPc \in FrontPcs /\ frontSlot \in Slots \cup {NoSlot} /\ toPop \in Nat
  /\ backPc \in BackPcs /\ backSlot \in Slots \cup {NoSlot} /\ fc \in Fcs \cup {NoFc}
  /\ slot \in [Slots -> Slot]
  /\ freeSlots \in Seq(Slots) /\ filteredSlots \in Seq(Slots)
  /\ retunePc \in {"idle", "store_fc", "store_flag"} /\ retunes \in Nat
  /\ deviceFc \in Fcs /\ fcChanged \in BOOLEAN /\ currentFc \in Fcs \cup {NoFc}
  /\ taken \in Seq(Nat) /\ dropped \subseteq Nat
  /\ \A i \in DOMAIN published : IsFrame(published[i])

--------------------------------------------------------------------------------
(* Safety                                                                  *)

\* Every slot is in exactly one place: the free list, the hands of the front
\* stage, the queue of filtered CPIs or the hands of the back stage.  A slot
\* handed on while it is still written, handed on twice, or not returned
\* after a failed filter would break this (blah2.cpp:254-312, 454-456).
SlotsConserved ==
  /\ Distinct(freeSlots) /\ Distinct(filteredSlots)
  /\ Elements(freeSlots) \cap Elements(filteredSlots) = {}
  /\ {frontSlot, backSlot} \cap (Elements(freeSlots) \cup Elements(filteredSlots)) = {}
  /\ frontSlot = backSlot => frontSlot = NoSlot
  /\ Slots = (Elements(freeSlots) \cup Elements(filteredSlots)
                \cup {frontSlot, backSlot}) \ {NoSlot}

\* The CPIs on their way: extracted, neither dropped nor announced as done.
\* Oldest first.
Extracted == frontPc \in {"unlock_1", "unlock_2", "exchange", "load", "filter"}
InFlight == LET ord(s) == slot[s].time[1]
                back  == IF backSlot = NoSlot \/ backPc = "release" THEN <<>>
                                                                    ELSE <<ord(backSlot)>>
                front == IF Extracted \/ frontPc \in {"pop_1", "pop_2"}
                           THEN <<ord(frontSlot)>> ELSE <<>>
            IN  back \o [i \in DOMAIN filteredSlots |-> ord(filteredSlots[i])] \o front

\* The CPIs announced as done, by the position of their time stamp.
Stamps == {i \in DOMAIN published : published[i].kind = "timestamp"}
Announced == {published[i].time : i \in Stamps}
Increasing(q) == \A i, j \in DOMAIN q : i < j => q[i] < q[j]

\* Every CPI is finished exactly once and in the order it was captured: the
\* announced CPIs followed by those in flight never go back, and with the
\* dropped ones they are all the CPIs ever extracted (CpiPipeline.h:5-8;
\* TestCpiPipeline.cpp "back stage saw every CPI exactly once").
ExactlyOnceInOrder ==
  /\ \A i, j \in Stamps : i < j => published[i].time < published[j].time
  /\ Increasing(InFlight)
  /\ \A done \in Announced, cpi \in Elements(InFlight) : done < cpi
  /\ (Announced \cup Elements(InFlight)) \cap dropped = {}
  /\ Announced \cup Elements(InFlight) \cup dropped = DOMAIN taken

\* The two channels of a CPI hold the same, consecutive, samples, and a CPI
\* starts after the one before it ends: a callback that came between the
\* pops of the two channels, or an overflow of one buffer only, would shift
\* the surveillance channel against the reference.
WholeCpi(s) == /\ slot[s].x = [i \in 1 .. NSamples |-> taken[slot[s].time[1]] + i - 1]
               /\ slot[s].y = slot[s].x
ChannelsAligned ==
  /\ Extracted => WholeCpi(frontSlot)
  /\ \A s \in Elements(filteredSlots) : WholeCpi(s)
  /\ backPc = "process" => WholeCpi(backSlot)
  /\ \A i, j \in DOMAIN taken : i < j => taken[i] + NSamples <= taken[j]

\* The frequency the radar will have once everything in flight is through.
Retuned == {i \in DOMAIN filteredSlots : slot[filteredSlots[i]].fcChanged}
UpcomingFc ==
  IF fcChanged \/ frontPc = "load" THEN currentFc
  ELSE IF frontPc = "filter" /\ slot[frontSlot].fcChanged THEN slot[frontSlot].fc
  ELSE IF Retuned # {} THEN slot[filteredSlots[CHOOSE i \in Retuned : \A j \in Retuned : j <= i]].fc
  ELSE fc

\* A retune is never lost and never overtaken by an older one: while none is
\* being announced, what is pending, latched, queued or adopted ends at the
\* frequency announced last, whatever CPIs the filter dropped meanwhile
\* (blah2.cpp:286-304; TestCpiPipeline.cpp's failing CPI).
RetuneNeverLost ==
  retunePc = "idle" => UpcomingFc = (IF currentFc = NoFc THEN InitFc ELSE currentFc)

\* When a CPI's time stamp goes out, so have all its frames: the stash and
\* the web pages fetch a CPI's data on a change of the time stamp.
TimestampAfterData ==
  \A i \in DOMAIN published : published[i].kind = "timestamp" =>
    \A k \in IF config.isDetection THEN Kinds ELSE Kinds \ {"detection"} :
      \E j \in 1 .. i : published[j].kind = k /\ published[j].time = published[i].time

\* A timing report is that of one CPI: every stage once, the wait between the
\* stages left out, nothing of the CPI the slot carried before.
OneCpiPerReport ==
  \A m \in Elements(published) : m.kind = "timing" =>
    /\ Distinct(m.names) /\ "pipeline_wait" \notin Elements(m.names)
    /\ Elements(m.names) = {"extract_buffer", "output_radar_data", "cpi", "duty_cycle"}
         \cup Elements(BackStages)
         \cup (IF config.isClutter THEN {"clutter_filter"} ELSE {})

\* The two threads that take both mutexes never wait for each other.
NoLockCycle ==
  ~ /\ capturePc = "lock_second" /\ lock[CaptureLockOrder[2]] = "front"
    /\ frontPc = "lock_second" /\ lock[FrontLockOrder[2]] = "capture"

--------------------------------------------------------------------------------
(* Liveness                                                                *)

\* The driver's callback always returns: the radar loop never keeps it from
\* the capture buffers for good.
CallbackReturns == capturePc # "idle" ~> capturePc = "idle"

\* A CPI that passed the filter is announced, and its slot comes back.
FilteredIsAnnounced ==
  \A s \in Slots : s \in Elements(filteredSlots) ~> s \in Elements(freeSlots)

--------------------------------------------------------------------------------
(* The radar loop implements TuneHandoff: a latch under way counts as a    *)
(* retune still pending, and a CPI is at the filter from the end of its    *)
(* latch until it is handed over or dropped.                               *)

Carried(s) == IF slot[s].fcChanged THEN slot[s].fc ELSE NoFc

Handoff == INSTANCE TuneHandoff WITH
  Depth      <- Cardinality(Slots),
  announcing <- retunePc = "store_flag",
  pending    <- fcChanged \/ frontPc = "load",
  filtering  <- IF frontPc = "filter" THEN <<Carried(frontSlot)>> ELSE <<>>,
  queue      <- [i \in DOMAIN filteredSlots |-> Carried(filteredSlots[i])]

\* Every behaviour of the radar loop is one TuneHandoff allows.
ImplementsHandoff == Handoff!Spec

================================================================================
