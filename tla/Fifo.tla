---------------------------------- MODULE Fifo ---------------------------------
(***************************************************************************)
(* What a bounded queue of samples does when it is pushed: the queue of    *)
(* IqData.h, as a sequence with the oldest sample first.  IqData.tla shows *)
(* that the ring of IqData.cpp implements it; CpiPipeline.tla uses it for  *)
(* the capture buffers and for the two channels of a slot.                 *)
(***************************************************************************)
EXTENDS Naturals, Sequences

\* IqData::push_back: the newest sample goes to the back, and a full queue
\* drops its oldest sample to make room.
Pushed(q, n, sample) ==
  IF Len(q) = n THEN Append(Tail(q), sample) ELSE Append(q, sample)

================================================================================
