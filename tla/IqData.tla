--------------------------------- MODULE IqData --------------------------------
(***************************************************************************)
(* The sample queue of IqData.h and IqData.cpp: a ring over one buffer of  *)
(* n samples, allocated once, that pushing, popping and clearing only move *)
(* two indices over.  It implements BoundedFifo.                           *)
(*                                                                         *)
(* Indices are uint32_t; the index given to wrap is computed in 64 bits.   *)
(* U32 stands for 2^32, so that TLC can bring n up against it.             *)
(***************************************************************************)
EXTENDS Naturals, Sequences

CONSTANTS n, U32, Samples, Zero

ASSUME RingAssumption ==
  /\ U32 \in Nat /\ n \in Nat \ {0} /\ n < U32
  /\ Zero \in Samples

VARIABLES
  data,           \* the storage, indexed from 0
  head,           \* the index of the oldest sample held
  count,          \* the number of samples held
  popped          \* history: what the last pop returned, or <<>>

vars == <<data, head, count, popped>>

--------------------------------------------------------------------------------
(* Index arithmetic                                                        *)

\* Mutant of Index64: the sum is taken in 32 bits.
Index32(offset) == (head + offset) % U32

\* uint64_t(head) + offset: what 64 bits hold never overflows.
Index64(offset) == (head + offset) % (U32 * U32)

\* Mutant of wrap: the capacity itself is not wrapped.
WrapLate(index) == (IF index > n THEN index - n ELSE index) % U32

\* A conditional subtraction instead of a division, narrowed to uint32_t.
wrap(index) == (IF index >= n THEN index - n ELSE index) % U32

--------------------------------------------------------------------------------
(* Reads.  wrap bounds the index only below 2n, so an offset has to stay   *)
(* below n; at or past count the storage holds a stale sample.             *)

\* operator[]
At(i) == data[wrap(Index64(i))]

\* Mutant of FirstRun: the first run always goes to the end of the storage.
FirstRunToEnd == n - head

\* get_data copies two contiguous runs: from head to the end of the storage
\* or of the samples held, then what wrapped to its start.
FirstRun == IF count < n - head THEN count ELSE n - head
get_data == [i \in 1 .. FirstRun |-> data[head + i - 1]]
            \o [i \in 1 .. count - FirstRun |-> data[i - 1]]

--------------------------------------------------------------------------------
Init ==
  /\ data = [i \in 0 .. n - 1 |-> Zero]
  /\ head = 0 /\ count = 0 /\ popped = <<>>

\* A full ring writes over its oldest sample: the place of the front is also
\* the one past the back.
PushBack(sample) ==
  /\ \/ /\ count = n
        /\ data' = [data EXCEPT ![head] = sample]
        /\ head' = wrap(Index64(1)) /\ UNCHANGED count
     \/ /\ count # n
        /\ data' = [data EXCEPT ![wrap(Index64(count))] = sample]
        /\ count' = count + 1 /\ UNCHANGED head
  /\ UNCHANGED popped

\* An empty ring throws, which no caller of the radar loop can meet: it pops
\* no more than it has counted under the mutex.
PopFront ==
  /\ count # 0
  /\ popped' = <<data[head]>>
  /\ head' = wrap(Index64(1)) /\ count' = count - 1
  /\ UNCHANGED data

\* The samples stay in the storage.
Clear ==
  /\ head' = 0 /\ count' = 0
  /\ UNCHANGED <<data, popped>>

Next == (\E sample \in Samples : PushBack(sample)) \/ PopFront \/ Clear

Spec == Init /\ [][Next]_vars

--------------------------------------------------------------------------------
\* The indices stay in the ring, so that wrap's condition index < 2n holds at
\* every call (IqData.h:68-71).
TypeOK ==
  /\ data \in [0 .. n - 1 -> Samples]
  /\ head \in 0 .. n - 1 /\ count \in 0 .. n
  /\ popped = <<>> \/ \E sample \in Samples : popped = <<sample>>

\* The samples held, oldest first, as operator[] reads them.
Held == [i \in 1 .. count |-> At(i - 1)]

\* get_data and operator[] agree on the samples held, wherever the ring has
\* wrapped to.
CopyAgrees == get_data = Held

--------------------------------------------------------------------------------
(* The ring is the bounded queue of the samples operator[] reads.          *)

Queue == INSTANCE BoundedFifo WITH queue <- Held

\* Every behaviour of the ring is one of the bounded queue.
ImplementsFifo == Queue!Spec

================================================================================
