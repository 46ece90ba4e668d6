-------------------------------- MODULE PeakHold -------------------------------
(***************************************************************************)
(* The peak level of a tuner: a stream callback raises it to the peak of   *)
(* each block of samples (RspDuo.cpp:815-828, 893-904), while the thread   *)
(* that reports it takes it and starts it over (RspDuo.cpp:147-154).  The  *)
(* two tuners have such a level each and share nothing.                    *)
(***************************************************************************)
EXTENDS Integers

CONSTANT FullScale      \* largest short: 32767

ASSUME FullScaleAssumption == FullScale \in Nat

VARIABLES
  peakPc,         \* the stream callback
  block,          \* the samples scanned so far, of the block in hand or the last
  blockPeak, prev,
  hold,           \* peak_hold_a_fg, or peak_hold_b_fg
  taken           \* the largest level reported since the block began

peakVars == <<peakPc, block, blockPeak, prev, hold, taken>>

Lowest == -FullScale - 1
Shorts == Lowest .. FullScale
Larger(p, q) == IF p < q THEN q ELSE p
Abs(x) == IF x < 0 THEN -x ELSE x
\* (short) of an int: the one absolute value that is no short wraps around.
Short(i) == IF i > FullScale THEN i - 2 * (FullScale + 1) ELSE i

Magnitude(x) == Short(Abs(x))

PeakInit ==
  /\ peakPc = "idle" /\ block = {} /\ blockPeak = 0 /\ prev = 0 /\ hold = 0 /\ taken = 0

--------------------------------------------------------------------------------
BlockBegins ==
  /\ peakPc = "idle" /\ peakPc' = "scan"
  /\ block' = {} /\ blockPeak' = 0 /\ taken' = 0 /\ UNCHANGED <<prev, hold>>

ScanSample ==
  /\ peakPc = "scan"
  /\ \E x \in Shorts : block' = block \cup {x} /\ blockPeak' = Larger(blockPeak, Magnitude(x))
  /\ UNCHANGED <<peakPc, prev, hold, taken>>

LoadHold ==
  /\ peakPc = "scan" /\ peakPc' = "raise" /\ prev' = hold
  /\ UNCHANGED <<block, blockPeak, hold, taken>>

\* Mutant of Raise: one attempt.
RaiseOnce ==
  /\ peakPc = "raise" /\ peakPc' = "idle"
  /\ hold' = IF blockPeak > prev /\ hold = prev THEN blockPeak ELSE hold
  /\ UNCHANGED <<block, blockPeak, prev, taken>>

\* The peak replaces the level it was compared with; otherwise, and now and
\* then for no reason, it is compared with the level there is now.
Raise ==
  /\ peakPc = "raise"
  /\ \/ blockPeak <= prev /\ peakPc' = "idle" /\ UNCHANGED <<prev, hold>>
     \/ blockPeak > prev /\ hold = prev /\ hold' = blockPeak /\ peakPc' = "idle" /\ UNCHANGED prev
     \/ blockPeak > prev /\ prev' = hold /\ UNCHANGED <<peakPc, hold>>
  /\ UNCHANGED <<block, blockPeak, taken>>

\* RspDuo::get_peak_dbfs
TakePeak ==
  /\ taken' = Larger(taken, hold) /\ hold' = 0
  /\ UNCHANGED <<peakPc, block, blockPeak, prev>>

--------------------------------------------------------------------------------
PeakNext == BlockBegins \/ ScanSample \/ LoadHold \/ Raise \/ TakePeak

PeakSpec == PeakInit /\ [][PeakNext]_peakVars

--------------------------------------------------------------------------------
\* Every variable holds a value of its type.
PeakTypeOK ==
  /\ peakPc \in {"idle", "scan", "raise"} /\ block \subseteq Shorts
  /\ blockPeak \in 0 .. FullScale /\ prev \in 0 .. FullScale
  /\ hold \in 0 .. FullScale /\ taken \in 0 .. FullScale

Counted(x) == Abs(x) <= hold \/ Abs(x) <= taken

\* No block is lost between the callback and the report: when the callback is
\* through with it, each of its samples is in a level reported since the block
\* began or in the one reported next, wherever the reports fall
\* (RspDuo.cpp:72-74, 813-816).  The lowest sample is left out: its absolute
\* value fits no short and stays negative (line 821), so it raises no level.
NoPeakLost == peakPc = "idle" => \A x \in block \ {Lowest} : Counted(x)

================================================================================
