------------------------------- MODULE BoundedFifo -----------------------------
(***************************************************************************)
(* What IqData promises: a first-in first-out queue of at most n samples   *)
(* that makes room by dropping its oldest sample.                          *)
(***************************************************************************)
EXTENDS Fifo

CONSTANTS n, Samples

VARIABLES
  queue,          \* oldest sample first
  popped          \* what the last pop returned, or <<>>

vars == <<queue, popped>>

Init == queue = <<>> /\ popped = <<>>

PushBack(sample) == queue' = Pushed(queue, n, sample) /\ UNCHANGED popped

PopFront ==
  /\ queue # <<>>
  /\ popped' = <<Head(queue)>> /\ queue' = Tail(queue)

Clear == queue' = <<>> /\ UNCHANGED popped

Next == (\E sample \in Samples : PushBack(sample)) \/ PopFront \/ Clear

Spec == Init /\ [][Next]_vars

================================================================================
