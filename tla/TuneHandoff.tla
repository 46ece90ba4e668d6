------------------------------ MODULE TuneHandoff ------------------------------
(***************************************************************************)
(* What the radar loop promises of a retune, with the samples, the slots,  *)
(* the mutexes and the frames left out: a frequency that was announced is  *)
(* adopted by the back stage after every CPI taken before it, and a CPI    *)
(* dropped by the clutter filter does not take it along.  CpiPipeline      *)
(* implements it.                                                          *)
(***************************************************************************)
EXTENDS Naturals, Sequences

CONSTANTS
  Depth,          \* slots
  Fcs, InitFc,    \* frequencies, and the one of the configuration
  NoFc            \* none of them

VARIABLES
  currentFc,      \* TuneState::currentFc
  announcing,     \* the frequency is stored, the flag is not
  pending,        \* the flag is raised, or lowered by a latch still under way
  filtering,      \* the CPI at the clutter filter, if any: the frequency it
                  \* carries, or NoFc
  queue,          \* the same of the filtered CPIs, oldest first
  fc              \* the frequency of the back stage

vars == <<currentFc, announcing, pending, filtering, queue, fc>>

Init ==
  /\ currentFc = NoFc /\ announcing = FALSE /\ pending = FALSE
  /\ filtering = <<>> /\ queue = <<>> /\ fc = InitFc

\* Capture's retune thread stores the frequency, then raises the flag.
Store(f) ==
  /\ ~announcing
  /\ currentFc' = f /\ announcing' = TRUE
  /\ UNCHANGED <<pending, filtering, queue, fc>>

Announce ==
  /\ announcing /\ announcing' = FALSE /\ pending' = TRUE
  /\ UNCHANGED <<currentFc, filtering, queue, fc>>

\* The front stage takes a CPI and latches what is pending.  An announcement
\* that came between its two reads is delivered now and stays pending: it may
\* be adopted twice, never lost.
Take ==
  /\ filtering = <<>> /\ Len(queue) < Depth
  /\ filtering' = <<IF pending THEN currentFc ELSE NoFc>>
  /\ pending' \in {FALSE, pending}
  /\ UNCHANGED <<currentFc, announcing, queue, fc>>

Pass ==
  /\ filtering # <<>>
  /\ queue' = queue \o filtering /\ filtering' = <<>>
  /\ UNCHANGED <<currentFc, announcing, pending, fc>>

Drop ==
  /\ filtering # <<>>
  /\ pending' = (pending \/ filtering # <<NoFc>>) /\ filtering' = <<>>
  /\ UNCHANGED <<currentFc, announcing, queue, fc>>

Adopt ==
  /\ queue # <<>>
  /\ fc' = IF Head(queue) = NoFc THEN fc ELSE Head(queue)
  /\ queue' = Tail(queue)
  /\ UNCHANGED <<currentFc, announcing, pending, filtering>>

Next == (\E f \in Fcs : Store(f)) \/ Announce \/ Take \/ Pass \/ Drop \/ Adopt

Spec == Init /\ [][Next]_vars

================================================================================
