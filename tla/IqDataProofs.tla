------------------------------ MODULE IqDataProofs -----------------------------
(***************************************************************************)
(* Proofs about the ring of IqData for every capacity: the indices stay in *)
(* the storage, and the ring implements the bounded queue.                 *)
(***************************************************************************)
EXTENDS IqData, SequenceTheorems, TLAPS

--------------------------------------------------------------------------------
(* Index arithmetic                                                        *)

\* The place k after place h of the ring.
Place(h, k) == IF h + k >= n THEN h + k - n ELSE h + k

\* In 64 bits the sum of two ring indices does not overflow, and wrap reduces
\* it to the ring (IqData.h:68-77).
LEMMA WrapReduces ==
  ASSUME NEW h \in 0 .. n - 1, NEW k \in 0 .. n
  PROVE  /\ wrap((h + k) % (U32 * U32)) = Place(h, k)
         /\ Place(h, k) \in 0 .. n - 1
<1> USE RingAssumption
<1>1. n * 2 <= U32 * U32
  <2>1. U32 \in Nat /\ U32 >= n + 1 /\ U32 >= 2
    OBVIOUS
  <2>2. 2 * U32 <= U32 * U32
    BY <2>1, SMT
  <2> QED
    BY <2>1, <2>2
<1>2. h + k \in Nat /\ h + k < U32 * U32
  BY <1>1
<1>3. (h + k) % (U32 * U32) = h + k
  BY <1>2, SMT
<1>4. Place(h, k) \in 0 .. n - 1 /\ Place(h, k) < U32
  BY DEF Place
<1>5. Place(h, k) % U32 = Place(h, k)
  BY <1>4, SMT
<1> QED
  BY <1>3, <1>4, <1>5 DEF wrap, Place

\* The indices the operations compute: one past the oldest sample, and one
\* past the newest.
LEMMA NextIndices ==
  ASSUME TypeOK
  PROVE  /\ wrap(Index64(1)) = Place(head, 1) /\ Place(head, 1) \in 0 .. n - 1
         /\ wrap(Index64(count)) = Place(head, count) /\ Place(head, count) \in 0 .. n - 1
<1>1. 1 \in 0 .. n /\ count \in 0 .. n /\ head \in 0 .. n - 1
  BY RingAssumption DEF TypeOK
<1> QED
  BY <1>1, WrapReduces DEF Index64

--------------------------------------------------------------------------------
(* The type invariant                                                      *)

\* The indices of IqData stay in the storage, whatever is pushed, popped and
\* cleared: wrap is never called with an index of 2n or more.
THEOREM TypeCorrect == Spec => []TypeOK
<1> USE RingAssumption
<1>1. Init => TypeOK
  BY DEF Init, TypeOK
<1>2. TypeOK /\ [Next]_vars => TypeOK'
  <2> SUFFICES ASSUME TypeOK, [Next]_vars PROVE TypeOK'
    OBVIOUS
  <2> USE DEF TypeOK
  <2>1. ASSUME NEW sample \in Samples, PushBack(sample) PROVE TypeOK'
    <3>1. wrap(Index64(1)) \in 0 .. n - 1 /\ wrap(Index64(count)) \in 0 .. n - 1
      BY NextIndices
    <3> QED
      BY <2>1, <3>1 DEF PushBack
  <2>2. CASE PopFront
    <3>1. wrap(Index64(1)) \in 0 .. n - 1
      BY NextIndices
    <3>2. data[head] \in Samples
      OBVIOUS
    <3> QED
      BY <2>2, <3>1, <3>2 DEF PopFront
  <2>3. CASE Clear
    BY <2>3 DEF Clear
  <2>4. CASE UNCHANGED vars
    BY <2>4 DEF vars
  <2> QED
    BY <2>1, <2>2, <2>3, <2>4 DEF Next
<1> QED
  BY <1>1, <1>2, PTL DEF Spec

--------------------------------------------------------------------------------
(* The samples a ring holds, as a sequence                                 *)

Ring(d, h, c) == [i \in 1 .. c |-> d[Place(h, i - 1)]]

LEMMA RingSeq ==
  ASSUME NEW d \in [0 .. n - 1 -> Samples], NEW h \in 0 .. n - 1, NEW c \in 0 .. n
  PROVE  Ring(d, h, c) \in Seq(Samples) /\ Len(Ring(d, h, c)) = c
<1> USE RingAssumption
<1>1. \A i \in 1 .. c : d[Place(h, i - 1)] \in Samples
  <2> TAKE i \in 1 .. c
  <2>1. Place(h, i - 1) \in 0 .. n - 1
    BY DEF Place
  <2> QED
    BY <2>1
<1> QED
  BY <1>1 DEF Ring

\* Room is left: the new sample is the last one.
LEMMA RingPush ==
  ASSUME NEW d \in [0 .. n - 1 -> Samples], NEW h \in 0 .. n - 1, NEW c \in 0 .. n - 1,
         NEW sample \in Samples
  PROVE  Ring([d EXCEPT ![Place(h, c)] = sample], h, c + 1) = Append(Ring(d, h, c), sample)
<1> USE RingAssumption
<1> DEFINE e == [d EXCEPT ![Place(h, c)] = sample]
           s == Ring(d, h, c)
           t == Ring(e, h, c + 1)
<1>1. /\ Place(h, c) \in 0 .. n - 1 /\ e \in [0 .. n - 1 -> Samples]
      /\ c + 1 \in 0 .. n /\ c \in 0 .. n
  BY DEF Place
<1>2. s \in Seq(Samples) /\ Len(s) = c /\ t \in Seq(Samples) /\ Len(t) = c + 1
  BY <1>1, RingSeq
<1>3. /\ Append(s, sample) \in Seq(Samples) /\ Len(Append(s, sample)) = c + 1
      /\ \A i \in 1 .. c : Append(s, sample)[i] = s[i]
      /\ Append(s, sample)[c + 1] = sample
  BY <1>2, AppendProperties
<1>4. ASSUME NEW i \in 1 .. c + 1 PROVE t[i] = Append(s, sample)[i]
  <2>1. t[i] = e[Place(h, i - 1)]
    BY DEF Ring
  <2>2. Place(h, c) \in 0 .. n - 1 /\ Place(h, i - 1) \in 0 .. n - 1
    BY DEF Place
  <2>3. CASE i = c + 1
    BY <2>1, <2>2, <2>3, <1>3
  <2>4. CASE i \in 1 .. c
    <3>1. Place(h, i - 1) # Place(h, c)
      BY <2>4 DEF Place
    <3>2. s[i] = d[Place(h, i - 1)]
      BY <2>4 DEF Ring
    <3> QED
      BY <2>1, <2>2, <3>1, <3>2, <2>4, <1>3
  <2>5. i = c + 1 \/ i \in 1 .. c
    OBVIOUS
  <2> QED
    BY <2>3, <2>4, <2>5
<1> HIDE DEF s, t
<1>5. t = Append(s, sample)
  BY <1>2, <1>3, <1>4, SeqEqual
<1> QED
  BY <1>5 DEF s, t

\* The oldest sample is the one at head, and the rest starts one further on.
LEMMA RingPop ==
  ASSUME NEW d \in [0 .. n - 1 -> Samples], NEW h \in 0 .. n - 1, NEW c \in 1 .. n
  PROVE  /\ Ring(d, h, c) # <<>>
         /\ Head(Ring(d, h, c)) = d[h]
         /\ Tail(Ring(d, h, c)) = Ring(d, Place(h, 1), c - 1)
<1> USE RingAssumption
<1> DEFINE s == Ring(d, h, c)
           t == Ring(d, Place(h, 1), c - 1)
<1>1. Place(h, 1) \in 0 .. n - 1 /\ c - 1 \in 0 .. n /\ c \in 0 .. n
  BY DEF Place
<1>2. s \in Seq(Samples) /\ Len(s) = c /\ t \in Seq(Samples) /\ Len(t) = c - 1
  BY <1>1, RingSeq
<1>3. s # <<>> /\ Head(s) = s[1]
  BY <1>2
<1>4. s[1] = d[h]
  BY DEF Ring, Place
<1>5. /\ Tail(s) \in Seq(Samples) /\ Len(Tail(s)) = c - 1
      /\ \A i \in 1 .. c - 1 : Tail(s)[i] = s[i + 1]
  BY <1>2, <1>3, HeadTailProperties
<1>6. ASSUME NEW i \in 1 .. c - 1 PROVE Tail(s)[i] = t[i]
  <2>1. s[i + 1] = d[Place(h, i)] /\ t[i] = d[Place(Place(h, 1), i - 1)]
    BY DEF Ring
  <2>2. Place(Place(h, 1), i - 1) = Place(h, i)
    BY DEF Place
  <2> QED
    BY <1>5, <2>1, <2>2
<1> HIDE DEF s, t
<1>7. Tail(s) = t
  BY <1>2, <1>5, <1>6, SeqEqual
<1> QED
  BY <1>3, <1>4, <1>7 DEF s, t

\* No room is left: writing the new sample over the oldest and moving on is
\* dropping the oldest and appending the new one.
LEMMA RingPushFull ==
  ASSUME NEW d \in [0 .. n - 1 -> Samples], NEW h \in 0 .. n - 1, NEW sample \in Samples
  PROVE  Ring([d EXCEPT ![h] = sample], Place(h, 1), n) = Append(Tail(Ring(d, h, n)), sample)
<1> USE RingAssumption
<1> DEFINE g == Place(h, 1)
           e == [d EXCEPT ![h] = sample]
<1>1. g \in 0 .. n - 1 /\ n \in 1 .. n /\ n - 1 \in 0 .. n - 1
  BY DEF Place
<1>2. Place(g, n - 1) = h
  BY DEF Place
<1>3. Tail(Ring(d, h, n)) = Ring(d, g, n - 1)
  BY <1>1, RingPop
<1>4. Ring([d EXCEPT ![Place(g, n - 1)] = sample], g, (n - 1) + 1)
        = Append(Ring(d, g, n - 1), sample)
  BY <1>1, RingPush
<1>5. (n - 1) + 1 = n
  OBVIOUS
<1> QED
  BY <1>2, <1>3, <1>4, <1>5

--------------------------------------------------------------------------------
(* The samples held                                                        *)

\* Before and after a step, operator[] reads the samples of the ring.
LEMMA HeldIsRing ==
  /\ TypeOK => Held = Ring(data, head, count)
  /\ TypeOK' => Held' = Ring(data', head', count')
<1> USE RingAssumption
<1>1. ASSUME TypeOK PROVE Held = Ring(data, head, count)
  <2>1. ASSUME NEW i \in 1 .. count PROVE At(i - 1) = data[Place(head, i - 1)]
    <3>1. i - 1 \in 0 .. n /\ head \in 0 .. n - 1
      BY <1>1 DEF TypeOK
    <3>2. wrap((head + (i - 1)) % (U32 * U32)) = Place(head, i - 1)
      BY <3>1, WrapReduces
    <3> QED
      BY <3>2 DEF At, Index64
  <2> QED
    BY <2>1 DEF Held, Ring
<1>2. ASSUME TypeOK' PROVE Held' = Ring(data', head', count')
  <2>1. ASSUME NEW i \in 1 .. count' PROVE At(i - 1)' = data'[Place(head', i - 1)]
    <3>1. i - 1 \in 0 .. n /\ head' \in 0 .. n - 1
      BY <1>2 DEF TypeOK
    <3>2. wrap((head' + (i - 1)) % (U32 * U32)) = Place(head', i - 1)
      BY <3>1, WrapReduces
    <3> QED
      BY <3>2 DEF At, Index64
  <2> QED
    BY <2>1 DEF Held, Ring
<1> QED
  BY <1>1, <1>2

\* Copied out in two runs or read one by one, the samples held are the same.
THEOREM CopyIsHeld == Spec => []CopyAgrees
<1> USE RingAssumption
<1>1. TypeOK => CopyAgrees
  <2> SUFFICES ASSUME TypeOK PROVE get_data = Held
    BY DEF CopyAgrees
  <2> DEFINE a == [i \in 1 .. FirstRun |-> data[head + i - 1]]
             b == [i \in 1 .. count - FirstRun |-> data[i - 1]]
             r == Ring(data, head, count)
  <2>1. FirstRun \in Nat /\ FirstRun <= count /\ FirstRun <= n - head
    BY DEF FirstRun, TypeOK
  <2>2. a \in Seq(Samples) /\ Len(a) = FirstRun
    BY <2>1 DEF TypeOK
  <2>3. b \in Seq(Samples) /\ Len(b) = count - FirstRun
    BY <2>1 DEF TypeOK, FirstRun
  <2>4. r \in Seq(Samples) /\ Len(r) = count
    BY RingSeq DEF TypeOK
  <2>5. /\ a \o b \in Seq(Samples) /\ Len(a \o b) = count
        /\ \A i \in 1 .. count : (a \o b)[i] = IF i <= FirstRun THEN a[i] ELSE b[i - FirstRun]
    <3> HIDE DEF a, b
    <3>1. /\ a \o b \in Seq(Samples) /\ Len(a \o b) = Len(a) + Len(b)
          /\ \A i \in 1 .. Len(a) + Len(b) :
               (a \o b)[i] = IF i <= Len(a) THEN a[i] ELSE b[i - Len(a)]
      BY <2>2, <2>3, ConcatProperties
    <3>2. Len(a) + Len(b) = count
      BY <2>1, <2>2, <2>3 DEF TypeOK
    <3> QED
      BY <2>2, <3>1, <3>2
  <2>6. ASSUME NEW i \in 1 .. count PROVE (a \o b)[i] = r[i]
    <3>1. r[i] = data[Place(head, i - 1)]
      BY DEF Ring
    <3>2. CASE i <= FirstRun
      <4>1. (a \o b)[i] = data[head + i - 1]
        BY <2>1, <2>5, <3>2
      <4>2. Place(head, i - 1) = head + i - 1
        BY <2>1, <3>2 DEF Place, TypeOK
      <4> QED
        BY <4>1, <4>2, <3>1
    <3>3. CASE i > FirstRun
      <4>1. FirstRun = n - head /\ i - FirstRun \in 1 .. count - FirstRun
        BY <3>3, <2>1 DEF FirstRun, TypeOK
      <4>2. (a \o b)[i] = b[i - FirstRun]
        <5>1. ~(i <= FirstRun)
          BY <2>1, <3>3 DEF TypeOK
        <5> HIDE DEF a, b
        <5> QED
          BY <2>5, <5>1
      <4>3. b[i - FirstRun] = data[i - FirstRun - 1]
        BY <4>1, <2>1 DEF TypeOK
      <4>4. Place(head, i - 1) = i - FirstRun - 1
        BY <4>1 DEF Place, TypeOK
      <4> QED
        BY <4>2, <4>3, <4>4, <3>1
    <3> QED
      BY <2>1, <3>2, <3>3 DEF TypeOK
  <2> HIDE DEF a, b, r
  <2>7. a \o b = r
    BY <2>4, <2>5, <2>6, SeqEqual
  <2> QED
    BY <2>7, HeldIsRing DEF get_data, a, b, r
<1> QED
  BY <1>1, TypeCorrect, PTL

--------------------------------------------------------------------------------
(* The ring implements the bounded queue                                   *)

\* Every step of IqData is a step of BoundedFifo on the samples held, or
\* leaves them and the last pop alone.
LEMMA StepRefines ==
  ASSUME TypeOK, TypeOK', [Next]_vars PROVE [Queue!Next]_(Queue!vars)
<1> USE RingAssumption
<1> DEFINE ring == Ring(data, head, count)
<1>1. Held = ring /\ Held' = Ring(data', head', count')
  BY HeldIsRing
<1>2. ring \in Seq(Samples) /\ Len(ring) = count
  BY RingSeq DEF TypeOK
<1>3. wrap(Index64(1)) = Place(head, 1) /\ wrap(Index64(count)) = Place(head, count)
  BY NextIndices
<1>4. ASSUME NEW sample \in Samples, PushBack(sample) PROVE Queue!PushBack(sample)
  <2>1. CASE count = n
    <3>1. data' = [data EXCEPT ![head] = sample] /\ head' = Place(head, 1) /\ count' = n
      BY <1>4, <1>3, <2>1 DEF PushBack
    <3>2. Held' = Append(Tail(ring), sample)
      BY <1>1, <3>1, <2>1, RingPushFull DEF TypeOK
    <3> QED
      BY <1>1, <1>2, <1>4, <2>1, <3>2 DEF PushBack, Queue!PushBack, Queue!Pushed
  <2>2. CASE count # n
    <3>1. /\ data' = [data EXCEPT ![Place(head, count)] = sample]
          /\ head' = head /\ count' = count + 1
      BY <1>4, <1>3, <2>2 DEF PushBack
    <3>2. count \in 0 .. n - 1
      BY <2>2 DEF TypeOK
    <3>3. Ring([data EXCEPT ![Place(head, count)] = sample], head, count + 1)
            = Append(ring, sample)
      BY <3>2, RingPush DEF TypeOK
    <3>4. Held' = Append(ring, sample)
      BY <1>1, <3>1, <3>3
    <3> QED
      BY <1>1, <1>2, <1>4, <2>2, <3>4 DEF PushBack, Queue!PushBack, Queue!Pushed
  <2> QED
    BY <2>1, <2>2
<1>5. ASSUME PopFront PROVE Queue!PopFront
  <2>1. count \in 1 .. n /\ data' = data /\ head' = Place(head, 1) /\ count' = count - 1
    BY <1>5, <1>3 DEF PopFront, TypeOK
  <2>2. ring # <<>> /\ Head(ring) = data[head] /\ Tail(ring) = Held'
    BY <1>1, <2>1, RingPop DEF TypeOK
  <2> QED
    BY <1>1, <1>5, <2>2 DEF PopFront, Queue!PopFront
<1>6. ASSUME Clear PROVE Queue!Clear
  <2>1. Held' = <<>>
    BY <1>1, <1>6 DEF Clear, Ring
  <2> QED
    BY <1>6, <2>1 DEF Clear, Queue!Clear
<1>7. ASSUME UNCHANGED vars PROVE UNCHANGED Queue!vars
  BY <1>1, <1>7 DEF vars, Queue!vars
<1> QED
  BY <1>4, <1>5, <1>6, <1>7 DEF Next, Queue!Next

\* IqData is a first-in first-out queue of at most n samples that drops its
\* oldest sample to make room (IqData.h:4-7), for every capacity below 2^32.
THEOREM RingImplementsFifo == Spec => ImplementsFifo
<1>1. Init => Queue!Init
  <2> SUFFICES ASSUME Init PROVE Held = <<>> /\ popped = <<>>
    BY DEF Queue!Init
  <2> QED
    BY DEF Init, Held
<1>2. TypeOK /\ TypeOK' /\ [Next]_vars => [Queue!Next]_(Queue!vars)
  BY StepRefines
<1> QED
  BY <1>1, <1>2, TypeCorrect, PTL DEF Spec, ImplementsFifo, Queue!Spec

================================================================================
