----------------------------- MODULE RfStatusProofs ----------------------------
(***************************************************************************)
(* Overloads are counted once, Updates of two threads never mix, and the   *)
(* report to the API withholds and invents no overload, for any number of  *)
(* overloads, retunes and restarts; and no peak gets lost, for any width of*)
(* a sample.                                                               *)
(***************************************************************************)
EXTENDS Overload, OverloadReport, PeakHold, SequenceTheorems, TLAPS

Kinds == {"fc", "gain", "agc"} \cup Tuners

\* Whoever is in the middle of its Updates holds the mutex, and the Update
\* the driver is carrying out is the first that its thread has left.
MutexInv ==
  /\ \A thread \in Threads : Making(thread) => mutex = thread
  /\ api \in Threads => Making(api) /\ updates[api] # <<>>

Has(q, t) == \E i \in DOMAIN q : q[i] = t
InTodo(t) == Has(todo, t)
\* The tuners whose onset is noted by the level and not by the count yet, or
\* by neither.
ToCount(t) == /\ InTodo(t) /\ event.detected
              /\ ~overload[t] \/ (callbackPc = "count" /\ t = Head(todo))

\* What the callback has not got to yet lies in the event in hand.
CountInv ==
  /\ todo \in {<<>>, <<"A">>, <<"B">>, <<"A", "B">>}
  /\ callbackPc = "idle" => todo = <<>>
  /\ callbackPc = "count" => todo # <<>> /\ event.detected /\ overload[Head(todo)]
  /\ \A t \in Tuners :
       /\ overloaded[t] /\ ~announced[t] => onsets[t] < MaxOnsets
       /\ InTodo(t) => announced[t] = event.detected
       /\ ~InTodo(t) => overload[t] = announced[t]
       /\ onsets[t] = overloadCount[t] + (IF ToCount(t) THEN 1 ELSE 0)

IInv == TypeOK /\ MutexInv /\ CountInv

LEMMA OnlyIs ==
  ASSUME NEW set \in SUBSET Tuners
  PROVE  /\ Only(set) \in {<<>>, <<"A">>, <<"B">>, <<"A", "B">>}
         /\ \A t \in Tuners : Has(Only(set), t) <=> t \in set
<1>1. CASE set = Tuners
  <2>1. set # {"A"} /\ set # {"B"}
    BY <1>1 DEF Tuners
  <2>2. Only(set) = <<"A", "B">>
    BY <1>1, <2>1 DEF Only
  <2> QED
    BY <1>1, <2>2 DEF Has, Tuners
<1>2. CASE set = {"A"}
  <2>1. Only(set) = <<"A">>
    BY <1>2 DEF Only, Tuners
  <2> QED
    BY <1>2, <2>1 DEF Has, Tuners
<1>3. CASE set = {"B"}
  <2>1. Only(set) = <<"B">>
    BY <1>3 DEF Only, Tuners
  <2> QED
    BY <1>3, <2>1 DEF Has, Tuners
<1>4. CASE set = {}
  <2>1. Only(set) = <<>>
    BY <1>4 DEF Only, Tuners
  <2> QED
    BY <1>4, <2>1 DEF Has, Tuners
<1> QED
  BY <1>1, <1>2, <1>3, <1>4 DEF Tuners

\* The same for what is left to do, one tuner further.
LEMMA QueueTyped ==
  ASSUME NEW q \in {<<>>, <<"A">>, <<"B">>, <<"A", "B">>}
  PROVE  /\ q \in Seq(Tuners) /\ q \in Seq(Kinds)
         /\ q # <<>> => /\ Tail(q) \in {<<>>, <<"A">>, <<"B">>, <<"A", "B">>} /\ Head(q) \in Tuners
                        /\ Has(q, Head(q))
                        /\ \A t \in Tuners : Has(Tail(q), t) <=> t # Head(q) /\ Has(q, t)
<1>1. CASE q = <<>>
  BY <1>1
<1>2. CASE q = <<"A">>
  BY <1>2 DEF Has, Tuners, Kinds
<1>3. CASE q = <<"B">>
  BY <1>3 DEF Has, Tuners, Kinds
<1>4. CASE q = <<"A", "B">>
  <2>1. Head(q) = "A" /\ Tail(q) = <<"B">>
    BY <1>4
  <2> QED
    BY <1>4, <2>1 DEF Has, Tuners, Kinds
<1> QED
  BY <1>1, <1>2, <1>3, <1>4

LEMMA InitIInv == Init => IInv
<1> SUFFICES ASSUME Init PROVE IInv
  OBVIOUS
<1> USE OverloadAssumption DEF Init
<1>1. TypeOK
  <2>1. updates \in [Threads -> Seq(Kinds)]
    <3>1. Restage \in Seq(Kinds) /\ <<>> \in Seq(Kinds)
      BY DEF Restage, Kinds
    <3> QED
      BY <3>1
  <2>2. todo \in Seq(Tuners) /\ event \in [tuners : SUBSET Tuners, detected : BOOLEAN]
    OBVIOUS
  <2>3. onsets \in Counts /\ overloadCount \in Counts
    BY DEF Counts
  <2>4. /\ overloaded \in [Tuners -> BOOLEAN] /\ announced \in [Tuners -> BOOLEAN]
        /\ unacked \in [Tuners -> BOOLEAN] /\ overload \in [Tuners -> BOOLEAN]
    OBVIOUS
  <2>5. /\ api \in Threads \cup {Nobody} /\ mutex \in Threads \cup {Nobody}
    BY DEF Threads
  <2>6. ackPending \subseteq Tuners /\ deviceReady \in BOOLEAN
    OBVIOUS
  <2>7. retunes \in 0 .. MaxRetunes
    OBVIOUS
  <2> QED
    BY <2>1, <2>2, <2>3, <2>4, <2>5, <2>6, <2>7 DEF TypeOK, Kinds
<1>2. MutexInv
  BY DEF MutexInv, Making, Pc, Threads, Nobody
<1>3. CountInv
  BY DEF CountInv, Has, InTodo, ToCount, Tuners
<1> QED
  BY <1>1, <1>2, <1>3 DEF IInv

\* What happens on one side leaves the invariant of the other alone.
LEMMA MutexFrame ==
  MutexInv /\ UNCHANGED <<api, mutex, updates, controlPc, retunePc>> => MutexInv'
BY DEF MutexInv, Making, Pc

LEMMA CountFrame ==
  CountInv /\ UNCHANGED <<driverVars, callbackVars>> /\ unacked' = unacked => CountInv'
BY DEF CountInv, Has, InTodo, ToCount, driverVars, callbackVars


LEMMA SignalKeepsIInv == IInv /\ Signal => IInv'
<1> SUFFICES ASSUME IInv, Signal PROVE IInv'
  OBVIOUS
<1> USE DEF IInv, Signal, driverIdle
<1>1. TypeOK'
  BY DEF TypeOK
<1>2. MutexInv'
  BY MutexFrame
<1>3. CountInv'
  BY OverloadAssumption DEF CountInv, Has, InTodo, ToCount, TypeOK, Counts
<1> QED
  BY <1>1, <1>2, <1>3

LEMMA AnnounceKeepsIInv == IInv /\ Announce => IInv'
<1> SUFFICES ASSUME IInv, Announce PROVE IInv'
  OBVIOUS
<1> USE DEF IInv
<1>1. PICK tuners \in (SUBSET Tuners) \ {{}}, detected \in BOOLEAN :
        /\ \A t \in tuners : overloaded[t] = detected /\ (unacked[t] \/ announced[t] # detected)
        /\ event' = [tuners |-> tuners, detected |-> detected]
        /\ todo' = Only(tuners)
        /\ announced' = [t \in Tuners |-> IF t \in tuners THEN detected ELSE announced[t]]
        /\ unacked' = [t \in Tuners |-> t \in tuners \/ unacked[t]]
        /\ onsets' = [t \in Tuners |-> IF t \in tuners /\ detected /\ ~announced[t]
                                         THEN onsets[t] + 1 ELSE onsets[t]]
  BY DEF Announce
<1>2. /\ callbackPc = "idle" /\ callbackPc' = "level"
      /\ UNCHANGED <<overloaded, overload, overloadCount>>
      /\ UNCHANGED <<api, mutex, updates, controlPc, retunePc>>
      /\ UNCHANGED <<ackPending, deviceReady, retunes>>
  BY DEF Announce, driverIdle
<1>3. /\ todo' \in {<<>>, <<"A">>, <<"B">>, <<"A", "B">>}
      /\ \A t \in Tuners : InTodo(t)' <=> t \in tuners
  BY <1>1, OnlyIs DEF InTodo
<1>4. \A t \in Tuners : ~InTodo(t) /\ ~ToCount(t)
  BY <1>2 DEF CountInv, Has, InTodo, ToCount
<1>5. \A t \in Tuners : ToCount(t)' <=> t \in tuners /\ detected /\ ~overload[t]
  BY <1>1, <1>2, <1>3 DEF ToCount
<1>6. CountInv'
  <2> SUFFICES ASSUME NEW t \in Tuners
               PROVE  /\ overloaded'[t] /\ ~announced'[t] => onsets'[t] < MaxOnsets
                      /\ InTodo(t)' => announced'[t] = event'.detected
                      /\ ~InTodo(t)' => overload'[t] = announced'[t]
                      /\ onsets'[t] = overloadCount'[t] + (IF ToCount(t)' THEN 1 ELSE 0)
    BY <1>2, <1>3 DEF CountInv
  <2>1. /\ overload[t] = announced[t] /\ onsets[t] = overloadCount[t] /\ onsets[t] \in Nat
        /\ overloadCount[t] \in Nat
        /\ overloaded[t] /\ ~announced[t] => onsets[t] < MaxOnsets
    BY <1>4, OverloadAssumption DEF CountInv, TypeOK, Counts
  <2>2. CASE t \in tuners
    BY <1>1, <1>2, <1>3, <1>5, <2>1, <2>2
  <2>3. CASE t \notin tuners
    BY <1>1, <1>2, <1>3, <1>5, <2>1, <2>3
  <2> QED
    BY <2>2, <2>3
<1>7. TypeOK'
  <2>1. onsets' \in Counts
    <3>1. \A t \in Tuners : onsets[t] \in 0 .. MaxOnsets
      BY DEF TypeOK, Counts
    <3>2. \A t \in tuners : detected /\ ~announced[t] => onsets[t] < MaxOnsets
      BY <1>1 DEF CountInv
    <3> QED
      BY <1>1, <3>1, <3>2, OverloadAssumption DEF Counts
  <2>2. todo' \in Seq(Tuners)
    BY <1>3, QueueTyped
  <2> QED
    BY <1>1, <1>2, <2>1, <2>2 DEF TypeOK
<1> QED
  BY <1>2, <1>6, <1>7, MutexFrame

\* The level, the count and the return of the callback.
LEMMA LevelKeepsIInv == IInv /\ CallbackLevel => IInv'
<1> SUFFICES ASSUME IInv, CallbackLevel PROVE IInv'
  OBVIOUS
<1> USE DEF IInv
<1> DEFINE h == Head(todo)
<1>1. /\ callbackPc = "level" /\ todo # <<>>
      /\ overload' = [overload EXCEPT ![h] = event.detected]
      /\ IF event.detected /\ ~overload[h] THEN callbackPc' = "count" /\ todo' = todo
                                           ELSE todo' = Tail(todo) /\ callbackPc' = callbackPc
      /\ UNCHANGED <<overloaded, announced, unacked, onsets, event, overloadCount>>
      /\ UNCHANGED <<ackPending, deviceReady, api, mutex, updates, controlPc, retunePc, retunes>>
  BY DEF CallbackLevel, callbackIdle, updateVars
<1>2. h \in Tuners /\ InTodo(h)
  BY <1>1, QueueTyped DEF CountInv, InTodo
<1>3. /\ Tail(todo) \in {<<>>, <<"A">>, <<"B">>, <<"A", "B">>}
      /\ todo' \in {<<>>, <<"A">>, <<"B">>, <<"A", "B">>}
  BY <1>1, QueueTyped DEF CountInv
<1>4. TypeOK'
  <2>1. todo' \in Seq(Tuners)
    BY <1>3, QueueTyped
  <2>2. overload' \in [Tuners -> BOOLEAN]
    BY <1>1 DEF TypeOK
  <2> QED
    BY <1>1, <2>1, <2>2 DEF TypeOK
<1>tail. \A t \in Tuners : Has(Tail(todo), t) <=> InTodo(t) /\ t # h
  <2>1. todo \in {<<>>, <<"A">>, <<"B">>, <<"A", "B">>} /\ todo # <<>>
    BY <1>1 DEF CountInv
  <2> QED
    BY <2>1, QueueTyped DEF InTodo
<1>5. \A t \in Tuners : InTodo(t)' <=> InTodo(t) /\ (todo' = todo \/ t # h)
  <2>1. CASE todo' = todo
    BY <2>1 DEF InTodo
  <2>2. CASE todo' # todo
    <3>1. todo' = Tail(todo)
      BY <1>1, <2>2
    <3>2. \A t \in Tuners : InTodo(t)' <=> Has(Tail(todo), t)
      BY <3>1 DEF InTodo
    <3> QED
      BY <1>tail, <2>2, <3>2
  <2> QED
    BY <2>1, <2>2
<1> HIDE DEF h
<1>6. event.detected \in BOOLEAN /\ announced[h] = event.detected
  BY <1>2 DEF TypeOK, CountInv
<1>7. CountInv'
  <2> SUFFICES ASSUME NEW t \in Tuners
               PROVE  /\ InTodo(t)' => announced[t] = event.detected
                      /\ ~InTodo(t)' => overload'[t] = announced[t]
                      /\ onsets[t] = overloadCount[t] + (IF ToCount(t)' THEN 1 ELSE 0)
    <3>1. callbackPc' = "count" => todo' # <<>> /\ event.detected /\ overload'[Head(todo')]
      BY <1>1, <1>2 DEF TypeOK, h
    <3>2. callbackPc' = "idle" => todo' = <<>>
      BY <1>1
    <3> QED
      BY <1>1, <1>3, <3>1, <3>2 DEF CountInv
  <2>1. InTodo(t)' => announced[t] = event.detected
    BY <1>5 DEF CountInv
  <2>2. overload'[t] = IF t = h THEN event.detected ELSE overload[t]
    BY <1>1, <1>2 DEF TypeOK
  <2>3. ~InTodo(t)' => overload'[t] = announced[t]
    BY <1>5, <1>6, <2>2 DEF CountInv
  <2>4. ToCount(t)' <=> ToCount(t)
    <3>1. CASE event.detected /\ ~overload[h]
      BY <1>1, <1>2, <1>5, <2>2, <3>1 DEF ToCount, h
    <3>2. CASE ~(event.detected /\ ~overload[h])
      BY <1>1, <1>2, <1>5, <2>2, <3>2 DEF ToCount, h
    <3> QED
      BY <3>1, <3>2
  <2> QED
    BY <2>1, <2>3, <2>4 DEF CountInv
<1> QED
  BY <1>1, <1>4, <1>7, MutexFrame

LEMMA CountKeepsIInv == IInv /\ CallbackCount => IInv'
<1> SUFFICES ASSUME IInv, CallbackCount PROVE IInv'
  OBVIOUS
<1> USE DEF IInv
<1> DEFINE h == Head(todo)
<1>1. /\ callbackPc = "count" /\ callbackPc' = "level" /\ todo' = Tail(todo)
      /\ overloadCount' = [overloadCount EXCEPT ![h] = @ + 1]
      /\ UNCHANGED <<overloaded, announced, unacked, onsets, event, overload>>
      /\ UNCHANGED <<ackPending, deviceReady, api, mutex, updates, controlPc, retunePc, retunes>>
  BY DEF CallbackCount, callbackIdle, updateVars
<1>2. todo # <<>> /\ event.detected /\ overload[h]
  BY <1>1 DEF CountInv
<1>3. h \in Tuners /\ InTodo(h) /\ todo' \in {<<>>, <<"A">>, <<"B">>, <<"A", "B">>}
  BY <1>1, <1>2, QueueTyped DEF CountInv, InTodo
<1>tail. \A t \in Tuners : Has(Tail(todo), t) <=> InTodo(t) /\ t # h
  <2>1. todo \in {<<>>, <<"A">>, <<"B">>, <<"A", "B">>} /\ todo # <<>>
    BY <1>2 DEF CountInv
  <2> QED
    BY <2>1, QueueTyped DEF InTodo
<1>4. \A t \in Tuners : InTodo(t)' <=> InTodo(t) /\ t # h
  <2>1. \A t \in Tuners : InTodo(t)' <=> Has(Tail(todo), t)
    BY <1>1 DEF InTodo
  <2> QED
    BY <1>tail, <2>1
<1>5. ToCount(h)
  BY <1>1, <1>2, <1>3 DEF ToCount
<1> HIDE DEF h
<1>6. \A t \in Tuners : /\ onsets[t] \in 0 .. MaxOnsets /\ overloadCount[t] \in 0 .. MaxOnsets
                        /\ onsets[t] = overloadCount[t] + (IF ToCount(t) THEN 1 ELSE 0)
  BY DEF TypeOK, Counts, CountInv
<1>7. TypeOK'
  <2>1. todo' \in Seq(Tuners)
    BY <1>3, QueueTyped
  <2>2. overloadCount[h] + 1 \in 0 .. MaxOnsets
    BY <1>3, <1>5, <1>6
  <2>3. overloadCount' \in Counts
    BY <1>1, <2>2 DEF TypeOK, Counts
  <2> QED
    BY <1>1, <2>1, <2>3 DEF TypeOK
<1>8. CountInv'
  <2> SUFFICES ASSUME NEW t \in Tuners
               PROVE  /\ InTodo(t)' => announced[t] = event.detected
                      /\ ~InTodo(t)' => overload[t] = announced[t]
                      /\ onsets[t] = overloadCount'[t] + (IF ToCount(t)' THEN 1 ELSE 0)
    BY <1>1, <1>3 DEF CountInv
  <2>1. InTodo(t)' => announced[t] = event.detected
    BY <1>4 DEF CountInv
  <2>2. ~InTodo(t)' => overload[t] = announced[t]
    <3>1. announced[h] = event.detected /\ overload[h] \in BOOLEAN /\ event.detected \in BOOLEAN
      BY <1>3 DEF CountInv, TypeOK
    <3>2. CASE t = h
      BY <1>2, <3>1, <3>2
    <3>3. CASE t # h
      BY <1>4, <3>3 DEF CountInv
    <3> QED
      BY <3>2, <3>3
  <2>3. ToCount(t)' <=> ToCount(t) /\ t # h
    BY <1>1, <1>4 DEF ToCount, h
  <2>4. overloadCount'[t] = IF t = h THEN overloadCount[h] + 1 ELSE overloadCount[t]
    BY <1>1 DEF TypeOK, Counts
  <2>5. onsets[t] = overloadCount'[t] + (IF ToCount(t)' THEN 1 ELSE 0)
    <3>1. CASE t = h
      BY <1>5, <1>6, <2>3, <2>4, <3>1
    <3>2. CASE t # h
      BY <1>6, <2>3, <2>4, <3>2
    <3> QED
      BY <3>1, <3>2
  <2> QED
    BY <2>1, <2>2, <2>5
<1> QED
  BY <1>1, <1>7, <1>8, MutexFrame

LEMMA ReturnKeepsIInv == IInv /\ CallbackReturn => IInv'
<1> SUFFICES ASSUME IInv, CallbackReturn PROVE IInv'
  OBVIOUS
<1> USE DEF IInv, CallbackReturn, callbackIdle, updateVars
<1>1. TypeOK'
  BY DEF TypeOK
<1>2. CountInv'
  BY DEF CountInv, Has, InTodo, ToCount
<1> QED
  BY <1>1, <1>2, MutexFrame

\* The Updates, the control loop and the retune thread leave the counts alone.
LEMMA UpdateKeepsIInv == IInv /\ Updates => IInv'
<1> SUFFICES ASSUME IInv, Updates PROVE IInv'
  OBVIOUS
<1> USE DEF IInv, updateIdle, callbackVars
<1>1. CountInv'
  BY DEF Updates, CallUpdate, UpdateReturns, UpdateFails, Unlock, CountInv, InTodo, ToCount
<1>2. CASE CallUpdate
  <2>1. TypeOK'
    BY <1>2 DEF CallUpdate, TypeOK
  <2>2. MutexInv'
    BY <1>2 DEF CallUpdate, MutexInv, Making, Pc
  <2> QED
    BY <1>1, <2>1, <2>2
<1>3. CASE UpdateReturns \/ UpdateFails
  <2>1. api \in Threads /\ updates[api] \in Seq(Kinds) /\ updates[api] # <<>>
    BY <1>3 DEF UpdateReturns, UpdateFails, TypeOK, MutexInv, Kinds
  <2>2. Tail(updates[api]) \in Seq(Kinds) /\ <<>> \in Seq(Kinds)
    BY <2>1
  <2>3. updates' \in [Threads -> Seq(Kinds)]
    BY <1>3, <2>2 DEF UpdateReturns, UpdateFails, TypeOK, Kinds
  <2>4. TypeOK'
    BY <1>3, <2>3 DEF UpdateReturns, UpdateFails, TypeOK, Kinds
  <2>5. MutexInv'
    BY <1>3 DEF UpdateReturns, UpdateFails, MutexInv, Making, Pc, Threads, Nobody
  <2> QED
    BY <1>1, <2>4, <2>5
<1>4. CASE Unlock
  <2>1. TypeOK'
    BY <1>4 DEF Unlock, TypeOK
  <2>2. PICK thread \in Threads :
          /\ Making(thread) /\ updates[thread] = <<>> /\ mutex' = Nobody
          /\ IF thread = "control"
               THEN controlPc' = (IF controlPc = "restage" THEN "ready" ELSE "tick") /\ UNCHANGED retunePc
               ELSE retunePc' = "poll" /\ UNCHANGED controlPc
    BY <1>4 DEF Unlock
  <2>3. api # thread /\ UNCHANGED <<api, updates>>
    BY <1>4, <2>2 DEF Unlock, MutexInv
  <2>4. \A other \in Threads : Making(other)' => other # thread /\ Making(other)
    BY <2>2 DEF Making, Pc, Threads
  <2>5. \A other \in Threads : Making(other) => other = thread
    BY <2>2 DEF MutexInv
  <2>6. api \notin Threads
    BY <2>2, <2>3, <2>5 DEF MutexInv
  <2>7. MutexInv'
    BY <2>3, <2>4, <2>5, <2>6 DEF MutexInv
  <2> QED
    BY <1>1, <2>1, <2>7
<1> QED
  BY <1>2, <1>3, <1>4 DEF Updates

LEMMA ControlKeepsIInv == IInv /\ Control => IInv'
<1> SUFFICES ASSUME IInv, Control PROVE IInv'
  OBVIOUS
<1> USE DEF IInv, controlIdle, Control, ControlReady, ControlTick, ControlLock
<1>1. CountInv'
  BY DEF CountInv, Has, InTodo, ToCount, driverVars, callbackVars
<1>2. Only(ackPending) \in Seq(Kinds)
  <2>1. ackPending \in SUBSET Tuners
    BY DEF TypeOK
  <2>2. Only(ackPending) \in {<<>>, <<"A">>, <<"B">>, <<"A", "B">>}
    BY <2>1, OnlyIs
  <2> QED
    BY <2>2, QueueTyped
<1>3. TypeOK'
  <2>1. updates \in [Threads -> Seq(Kinds)]
    BY DEF TypeOK, Kinds
  <2>2. updates' = updates \/ updates' = [updates EXCEPT !["control"] = Only(ackPending)]
    OBVIOUS
  <2>3. updates' \in [Threads -> Seq(Kinds)]
    BY <1>2, <2>1, <2>2
  <2>4. /\ controlPc' \in {"restage", "ready", "tick", "lock", "update"}
        /\ ackPending' \subseteq Tuners /\ mutex' \in Threads \cup {Nobody}
        /\ deviceReady' \in BOOLEAN
    BY DEF TypeOK, Threads
  <2>5. UNCHANGED <<overloaded, announced, unacked, onsets, api, callbackPc, event, todo,
                    overload, overloadCount, retunePc, retunes>>
    BY DEF driverVars, callbackVars
  <2> HIDE DEF controlIdle, Control, ControlReady, ControlTick, ControlLock
  <2> QED
    BY <2>3, <2>4, <2>5 DEF TypeOK, Kinds
<1>4. MutexInv'
  BY DEF MutexInv, Making, Pc, Threads, Nobody, TypeOK
<1> QED
  BY <1>1, <1>3, <1>4

LEMMA RetuneKeepsIInv == IInv /\ (RetunePoll \/ RetuneLock) => IInv'
<1> SUFFICES ASSUME IInv, RetunePoll \/ RetuneLock PROVE IInv'
  OBVIOUS
<1> USE DEF IInv, retuneIdle, RetunePoll, RetuneLock
<1>1. CountInv'
  BY DEF CountInv, Has, InTodo, ToCount, driverVars, callbackVars
<1>2. TypeOK'
  <2>1. RetuneBatches \subseteq Seq(Kinds)
    BY DEF RetuneBatches, Kinds
  <2>2. updates' \in [Threads -> Seq(Kinds)]
    BY <2>1 DEF TypeOK, Kinds
  <2>3. retunes' \in 0 .. MaxRetunes
    BY OverloadAssumption DEF TypeOK
  <2> QED
    BY <2>2, <2>3 DEF TypeOK, driverVars, callbackVars, Kinds, Threads
<1>3. MutexInv'
  BY DEF MutexInv, Making, Pc, Threads, Nobody, TypeOK
<1> QED
  BY <1>1, <1>2, <1>3

LEMMA StepIInv == IInv /\ [Next]_vars => IInv'
<1>1. IInv /\ UNCHANGED vars => IInv'
  BY DEF IInv, TypeOK, MutexInv, CountInv, Making, Pc, InTodo, ToCount, vars, driverVars, callbackVars, updateVars
<1> QED
  BY <1>1, SignalKeepsIInv, AnnounceKeepsIInv, LevelKeepsIInv, CountKeepsIInv, ReturnKeepsIInv,
     UpdateKeepsIInv, ControlKeepsIInv, RetuneKeepsIInv DEF Next, Callback

LEMMA SpecIInv == Spec => []IInv
BY InitIInv, StepIInv, PTL DEF Spec

\* Every variable keeps its type, and no tuner is counted more overloads than
\* it had.
THEOREM TypeCorrect == Spec => []TypeOK
<1>1. IInv => TypeOK
  BY DEF IInv
<1> QED
  BY <1>1, SpecIInv, PTL

\* The Updates of the control loop and of the retune thread never mix, for
\* any number of overloads and retunes (RspDuo.cpp:164, 276-279, 324).
THEOREM UpdatesExclude == Spec => []OneUpdateAtATime
<1>1. IInv => OneUpdateAtATime
  BY DEF IInv, MutexInv, OneUpdateAtATime, Threads
<1> QED
  BY <1>1, SpecIInv, PTL

\* When the callback has returned every overload announced so far is counted
\* once, however often the driver repeated it (RspDuo.cpp:942-956).
THEOREM OnsetsAreCounted == Spec => []OnsetsCounted
<1>1. IInv => OnsetsCounted
  <2> SUFFICES ASSUME IInv, callbackPc = "idle" PROVE overloadCount = onsets
    BY DEF OnsetsCounted
  <2>1. \A t \in Tuners : ~ToCount(t)
    BY DEF IInv, CountInv, ToCount, Has, InTodo
  <2>2. \A t \in Tuners : overloadCount[t] = onsets[t]
    BY <2>1, OverloadAssumption DEF IInv, CountInv, TypeOK, Counts
  <2> QED
    BY <2>2 DEF IInv, TypeOK, Counts
<1> QED
  BY <1>1, SpecIInv, PTL

--------------------------------------------------------------------------------
(* What a thread that loads the levels and the counts may see              *)

\* The tuner the callback has still to count.
Counting == IF callbackPc = "count" THEN {Head(todo)} ELSE {}

LEMMA LevelInits == Init => Level!LevelInit
BY DEF Init, Level!LevelInit, Tuners, Level!BothTuners

\* An action that is not the callback's shows nothing.
LEMMA LevelFrame ==
  UNCHANGED <<overload, overloadCount, Counting>> => [Level!LevelNext]_(Level!levelVars)
BY DEF Level!levelVars, Counting

\* The callback exchanges a level: it rises, or it falls, or it was so.
LEMMA LevelMoves ==
  ASSUME IInv, CallbackLevel
  PROVE  [Level!LevelNext]_(Level!levelVars)
<1> DEFINE h == Head(todo)
<1>1. /\ callbackPc = "level" /\ todo # <<>>
      /\ overload' = [overload EXCEPT ![h] = event.detected]
      /\ IF event.detected /\ ~overload[h] THEN callbackPc' = "count" /\ todo' = todo
                                           ELSE callbackPc' = callbackPc
      /\ overloadCount' = overloadCount /\ onsets' = onsets /\ event' = event
  BY DEF CallbackLevel, callbackIdle
<1>2. h \in Tuners /\ InTodo(h) /\ event.detected \in BOOLEAN
  BY <1>1, QueueTyped DEF IInv, TypeOK, CountInv, InTodo
<1>3. overload \in [Tuners -> BOOLEAN] /\ overloadCount \in [Tuners -> 0 .. MaxOnsets]
  BY DEF IInv, TypeOK, Counts
<1>4. CASE event.detected /\ ~overload[h]
  <2>1. overloadCount[h] < MaxOnsets
    <3>1. ToCount(h)
      BY <1>2, <1>4 DEF ToCount
    <3>2. onsets[h] = overloadCount[h] + 1
      BY <1>2, <3>1 DEF IInv, CountInv
    <3>3. onsets[h] \in 0 .. MaxOnsets
      BY <1>2 DEF IInv, TypeOK, Counts
    <3> QED
      BY <1>2, <1>3, <3>2, <3>3, OverloadAssumption
  <2>2. Level!Rise(h)
    BY <1>1, <1>4, <2>1 DEF Level!Rise
  <2> QED
    BY <1>2, <2>2 DEF Level!LevelNext, Level!BothTuners, Tuners
<1>5. CASE ~event.detected /\ overload[h]
  <2>1. Level!Fall(h)
    BY <1>1, <1>2, <1>5 DEF Level!Fall
  <2> QED
    BY <1>2, <2>1 DEF Level!LevelNext, Level!BothTuners, Tuners
<1>6. CASE event.detected = overload[h]
  <2>1. overload' = overload
    BY <1>1, <1>2, <1>3, <1>6
  <2> QED
    BY <1>1, <1>6, <2>1, LevelFrame DEF Counting
<1> QED
  BY <1>2, <1>3, <1>4, <1>5, <1>6

LEMMA LevelCounts ==
  ASSUME IInv, CallbackCount
  PROVE  [Level!LevelNext]_(Level!levelVars)
<1> DEFINE h == Head(todo)
<1>1. /\ callbackPc = "count" /\ callbackPc' = "level" /\ overload' = overload
      /\ overloadCount' = [overloadCount EXCEPT ![h] = @ + 1]
  BY DEF CallbackCount, callbackIdle
<1>2. h \in Tuners
  BY <1>1, QueueTyped DEF IInv, CountInv
<1>3. Level!Count(h)
  BY <1>1 DEF Level!Count
<1> QED
  BY <1>2, <1>3 DEF Level!LevelNext, Level!BothTuners, Tuners

LEMMA LevelSteps == IInv /\ [Next]_vars => [Level!LevelNext]_(Level!levelVars)
<1> SUFFICES ASSUME IInv, [Next]_vars PROVE [Level!LevelNext]_(Level!levelVars)
  OBVIOUS
<1>1. CASE CallbackLevel
  BY <1>1, LevelMoves
<1>2. CASE CallbackCount
  BY <1>2, LevelCounts
<1>3. CASE CallbackReturn
  BY <1>3, LevelFrame DEF CallbackReturn, callbackIdle, Counting
<1>4. CASE Signal
  BY <1>4, LevelFrame DEF Signal, driverIdle, Counting
<1>5. CASE Announce
  BY <1>5, LevelFrame DEF Announce, driverIdle, Counting
<1>6. CASE Updates
  BY <1>6, LevelFrame DEF Updates, CallUpdate, UpdateReturns, UpdateFails, Unlock, updateIdle,
     callbackVars, Counting
<1>7. CASE Control
  BY <1>7, LevelFrame DEF Control, ControlReady, ControlTick, ControlLock, controlIdle,
     callbackVars, Counting
<1>8. CASE RetunePoll \/ RetuneLock
  BY <1>8, LevelFrame DEF RetunePoll, RetuneLock, retuneIdle, callbackVars, Counting
<1>9. CASE UNCHANGED vars
  BY <1>9, LevelFrame DEF vars, callbackVars, Counting
<1> QED
  BY <1>1, <1>2, <1>3, <1>4, <1>5, <1>6, <1>7, <1>8, <1>9 DEF Next, Callback

\* The callback implements what the report takes it for: a level rises, the
\* count follows, and a level falls, whatever the driver repeats and joins in
\* one event (RspDuo.cpp:941-956).
THEOREM LevelIsImplemented == Spec => LevelIsAsLoaded
<1>1. Init => Level!LevelInit
  BY LevelInits
<1>2. IInv /\ [Next]_vars => [Level!LevelNext]_(Level!levelVars)
  BY LevelSteps
<1> QED
  BY <1>1, <1>2, SpecIInv, PTL DEF Spec, LevelIsAsLoaded, Level!LevelSpec

--------------------------------------------------------------------------------
(* The report                                                              *)

\* Reports go out in the order of the looks: the API is never behind the last
\* report that was answered, and never ahead of the look in hand, unless it has
\* nothing, or what it has is from before blah2 started.
Between(low, high) == \A t \in BothTuners : low[t] <= high[t]
OrderInv ==
  /\ Between(last.count, look.count) /\ Between(look.count, onsetCount)
  /\ reported /\ overloadStatus # None =>
       Between(last.count, overloadStatus.count) /\ Between(overloadStatus.count, look.count)

ReportInv ==
  /\ ReportTypeOK /\ OrderInv
  /\ \A t \in BothTuners : counting = {t} => onsetCount[t] < MaxEpisodes

LEMMA QuietTyped == Quiet \in Looks /\ Quiet.count = [t \in BothTuners |-> 0] /\ Quiet.level = [t \in BothTuners |-> FALSE]
BY DEF Quiet, Looks

\* How the order is used.
LEMMA BetweenTransitive ==
  ASSUME NEW low \in [BothTuners -> Nat], NEW mid \in [BothTuners -> Nat],
         NEW high \in [BothTuners -> Nat], Between(low, mid), Between(mid, high)
  PROVE  Between(low, high)
BY DEF Between

LEMMA BetweenSelf == ASSUME NEW c \in [BothTuners -> Nat] PROVE Between(c, c)
BY DEF Between

LEMMA BetweenBoth ==
  ASSUME NEW c \in [BothTuners -> Nat], NEW d \in [BothTuners -> Nat], Between(c, d), Between(d, c)
  PROVE  c = d
<1>1. \A t \in BothTuners : c[t] = d[t]
  BY DEF Between
<1> QED
  BY <1>1

\* The types, as the steps below use them.
LEMMA ReportTypes ==
  ASSUME ReportTypeOK
  PROVE  /\ onsetCount \in [BothTuners -> Nat] /\ onsetCount \in [BothTuners -> 0 .. MaxEpisodes]
         /\ level \in [BothTuners -> BOOLEAN]
         /\ look \in Looks /\ look.count \in [BothTuners -> Nat] /\ look.level \in [BothTuners -> BOOLEAN]
         /\ last \in Looks /\ last.count \in [BothTuners -> Nat] /\ last.level \in [BothTuners -> BOOLEAN]
         /\ overloadStatus # None => overloadStatus \in Looks /\ overloadStatus.count \in [BothTuners -> Nat]
         /\ at \in BothTuners /\ reported \in BOOLEAN
<1>1. onsetCount \in [BothTuners -> 0 .. MaxEpisodes]
  BY DEF ReportTypeOK
<1>2. onsetCount \in [BothTuners -> Nat]
  BY <1>1
<1> QED
  BY <1>1, <1>2 DEF ReportTypeOK, Looks

LEMMA ReportInits == ReportInit => ReportInv
<1> SUFFICES ASSUME ReportInit PROVE ReportInv
  OBVIOUS
<1>0. /\ level = [t \in BothTuners |-> FALSE] /\ onsetCount = [t \in BothTuners |-> 0] /\ counting = {}
      /\ reportPc = "level" /\ at = "A" /\ look = Quiet /\ last = Quiet /\ reported = FALSE
      /\ overloadStatus = None /\ restarts = [process \in {"blah2", "api"} |-> 0]
  BY DEF ReportInit, LevelInit
<1>1. ReportTypeOK
  <2>1. 0 \in 0 .. MaxEpisodes /\ 0 \in 0 .. MaxRestarts
    BY EpisodesAssumption, ReportAssumption
  <2>2. \E t \in BothTuners : counting \in {{}, {t}}
    BY <1>0 DEF BothTuners
  <2>3. onsetCount \in [BothTuners -> 0 .. MaxEpisodes] /\ restarts \in [{"blah2", "api"} -> 0 .. MaxRestarts]
    BY <1>0, <2>1
  <2> QED
    BY <1>0, <2>2, <2>3, QuietTyped DEF ReportTypeOK, BothTuners
<1>2. OrderInv
  BY <1>0, QuietTyped DEF OrderInv, Between
<1>3. \A t \in BothTuners : counting # {t}
  BY <1>0
<1> QED
  BY <1>1, <1>2, <1>3 DEF ReportInv

\* The callback lets the counts grow under the look.
LEMMA EventKeepsReportInv == ReportInv /\ Event => ReportInv'
<1> SUFFICES ASSUME ReportInv, Event PROVE ReportInv'
  OBVIOUS
<1>1. UNCHANGED <<reportPc, at, look, last, reported, overloadStatus, restarts>>
  BY DEF Event, threadVars
<1>2. /\ onsetCount \in [BothTuners -> 0 .. MaxEpisodes] /\ level \in [BothTuners -> BOOLEAN]
      /\ \A t \in BothTuners : counting = {t} => onsetCount[t] < MaxEpisodes
      /\ look.count \in [BothTuners -> Nat]
  BY ReportTypes DEF ReportInv
<1>3. PICK t \in BothTuners : Rise(t) \/ Count(t) \/ Fall(t)
  BY DEF Event, LevelNext
<1>4. /\ level' \in [BothTuners -> BOOLEAN] /\ onsetCount' \in [BothTuners -> 0 .. MaxEpisodes]
      /\ counting' \in {{}, {t}} /\ Between(onsetCount, onsetCount')
      /\ \A u \in BothTuners : counting' = {u} => onsetCount'[u] < MaxEpisodes
  <2>1. CASE Rise(t)
    BY <1>2, <2>1 DEF Rise, Between
  <2>2. CASE Count(t)
    <3>1. onsetCount[t] < MaxEpisodes /\ onsetCount' = [onsetCount EXCEPT ![t] = @ + 1]
          /\ counting' = {} /\ level' = level
      BY <1>2, <2>2 DEF Count
    <3>2. onsetCount[t] \in 0 .. MaxEpisodes /\ onsetCount[t] + 1 \in 0 .. MaxEpisodes
      BY <1>2, <3>1, EpisodesAssumption
    <3> QED
      BY <1>2, <3>1, <3>2, EpisodesAssumption DEF Between
  <2>3. CASE Fall(t)
    BY <1>2, <2>3 DEF Fall, Between
  <2> QED
    BY <1>3, <2>1, <2>2, <2>3
<1>5. ReportTypeOK'
  BY <1>1, <1>4 DEF ReportInv, ReportTypeOK
<1>6. OrderInv'
  <2>1. Between(look.count, onsetCount')
    <3>1. Between(look.count, onsetCount) /\ onsetCount \in [BothTuners -> Nat] /\ onsetCount' \in [BothTuners -> Nat]
      BY <1>2, <1>4 DEF ReportInv, OrderInv
    <3> QED
      BY <1>2, <1>4, <3>1, BetweenTransitive
  <2> QED
    BY <1>1, <2>1 DEF ReportInv, OrderInv
<1> QED
  BY <1>4, <1>5, <1>6 DEF ReportInv

\* A load brings the look up to date at one tuner.
LEMMA LoadKeepsReportInv == ReportInv /\ Loads => ReportInv'
<1> SUFFICES ASSUME ReportInv, Loads PROVE ReportInv'
  OBVIOUS
<1>1. UNCHANGED <<level, onsetCount, counting, last, reported, overloadStatus, restarts>>
  BY DEF Loads, LookAtLevel, LookAtCount, lookIdle, levelVars
<1>2. ReportTypeOK /\ OrderInv
  BY DEF ReportInv
<1>3. /\ look' \in Looks /\ Between(look.count, look'.count) /\ Between(look'.count, onsetCount)
      /\ at' \in BothTuners /\ reportPc' \in {"level", "count", "decide"}
  <2>1. CASE LookAtLevel
    <3>1. look' = [look EXCEPT !.level[at] = level[at]]
      BY <2>1 DEF LookAtLevel
    <3>2. look' \in Looks /\ look'.count = look.count
      BY <1>2, <3>1, ReportTypes DEF Looks
    <3>3. at' \in BothTuners /\ reportPc' \in {"level", "count", "decide"}
      BY <2>1 DEF LookAtLevel, BothTuners
    <3> QED
      BY <1>2, <3>2, <3>3, ReportTypes, BetweenSelf DEF OrderInv
  <2>2. CASE LookAtCount
    <3>1. look' = [look EXCEPT !.count[at] = onsetCount[at]]
      BY <2>2 DEF LookAtCount
    <3>2. look' \in Looks /\ look'.count = [look.count EXCEPT ![at] = onsetCount[at]]
      BY <1>2, <3>1, ReportTypes DEF Looks
    <3>3. at' \in BothTuners /\ reportPc' \in {"level", "count", "decide"}
      BY <2>2 DEF LookAtCount, BothTuners
    <3>4. Between(look.count, look'.count) /\ Between(look'.count, onsetCount)
      BY <1>2, <3>2, ReportTypes DEF OrderInv, Between
    <3> QED
      BY <3>2, <3>3, <3>4
  <2> QED
    BY <2>1, <2>2 DEF Loads
<1>4. ReportTypeOK'
  BY <1>1, <1>2, <1>3 DEF ReportTypeOK
<1>5. OrderInv'
  <2>1. look'.count \in [BothTuners -> Nat]
    BY <1>3 DEF Looks
  <2>2. Between(last.count, look'.count)
    BY <1>2, <1>3, <2>1, ReportTypes, BetweenTransitive DEF OrderInv
  <2>3. ASSUME reported, overloadStatus # None
        PROVE  Between(last.count, overloadStatus.count) /\ Between(overloadStatus.count, look'.count)
    BY <1>2, <1>3, <2>1, <2>3, ReportTypes, BetweenTransitive DEF OrderInv
  <2> QED
    BY <1>1, <1>3, <2>2, <2>3 DEF OrderInv
<1> QED
  BY <1>1, <1>4, <1>5 DEF ReportInv

\* What is posted is the look in hand, whether the answer comes or not.
LEMMA PostKeepsReportInv == ReportInv /\ (Skip \/ Post) => ReportInv'
<1> SUFFICES ASSUME ReportInv, Skip \/ Post PROVE ReportInv'
  OBVIOUS
<1>1. UNCHANGED <<level, onsetCount, counting, at, look, restarts>> /\ reportPc' = "level"
  BY DEF Skip, Post, Delivered, Unanswered, reportIdle, levelVars
<1>2. ReportTypeOK /\ OrderInv
  BY DEF ReportInv
<1>3. Between(look.count, look.count)
  BY <1>2, ReportTypes, BetweenSelf
<1>4. CASE Delivered
  <2>1. overloadStatus' = look /\ last' = look /\ reported' = TRUE
    BY <1>4 DEF Delivered
  <2>2. ReportTypeOK'
    BY <1>1, <1>2, <2>1 DEF ReportTypeOK
  <2>3. OrderInv'
    BY <1>1, <1>2, <1>3, <2>1 DEF OrderInv
  <2> QED
    BY <1>1, <2>2, <2>3 DEF ReportInv
<1>5. CASE Skip \/ Unanswered
  <2>1. overloadStatus' \in {look, overloadStatus} /\ UNCHANGED <<last, reported>>
    BY <1>5 DEF Skip, Unanswered
  <2>2. ReportTypeOK'
    BY <1>1, <1>2, <2>1 DEF ReportTypeOK
  <2>3. OrderInv'
    BY <1>1, <1>2, <1>3, <2>1 DEF OrderInv
  <2> QED
    BY <1>1, <2>2, <2>3 DEF ReportInv
<1> QED
  BY <1>4, <1>5 DEF Post

LEMMA RestartKeepsReportInv == ReportInv /\ (Blah2Restarts \/ ApiRestarts) => ReportInv'
<1> SUFFICES ASSUME ReportInv, Blah2Restarts \/ ApiRestarts PROVE ReportInv'
  OBVIOUS
<1>1. ReportTypeOK /\ OrderInv
  BY DEF ReportInv
<1>2. CASE Blah2Restarts
  <2>1. /\ level' = [t \in BothTuners |-> FALSE] /\ onsetCount' = [t \in BothTuners |-> 0]
        /\ counting' = {} /\ reportPc' = "level" /\ at' = "A" /\ look' = Quiet /\ last' = Quiet
        /\ reported' = FALSE /\ overloadStatus' = overloadStatus
        /\ restarts["blah2"] < MaxRestarts
        /\ restarts' = [restarts EXCEPT !["blah2"] = @ + 1]
    BY <1>2, QuietTyped DEF Blah2Restarts
  <2>2. restarts' \in [{"blah2", "api"} -> 0 .. MaxRestarts]
    BY <1>1, <2>1, ReportAssumption DEF ReportTypeOK
  <2>3. \E t \in BothTuners : counting' \in {{}, {t}}
    BY <2>1 DEF BothTuners
  <2>4. onsetCount' \in [BothTuners -> 0 .. MaxEpisodes]
    BY <2>1, EpisodesAssumption
  <2>5. ReportTypeOK'
    BY <1>1, <2>1, <2>2, <2>3, <2>4, QuietTyped DEF ReportTypeOK, BothTuners
  <2>6. OrderInv'
    BY <2>1, QuietTyped DEF OrderInv, Between
  <2>7. \A t \in BothTuners : counting' # {t}
    BY <2>1
  <2> QED
    BY <2>5, <2>6, <2>7 DEF ReportInv
<1>3. CASE ApiRestarts
  <2>1. /\ UNCHANGED <<level, onsetCount, counting, reportPc, at, look, last, reported>>
        /\ overloadStatus' = None
        /\ restarts["api"] < MaxRestarts
        /\ restarts' = [restarts EXCEPT !["api"] = @ + 1]
    BY <1>3 DEF ApiRestarts, levelVars, threadVars
  <2>2. restarts' \in [{"blah2", "api"} -> 0 .. MaxRestarts]
    BY <1>1, <2>1, ReportAssumption DEF ReportTypeOK
  <2>3. ReportTypeOK'
    BY <1>1, <2>1, <2>2 DEF ReportTypeOK
  <2>4. OrderInv'
    BY <1>1, <2>1 DEF OrderInv
  <2> QED
    BY <2>1, <2>3, <2>4 DEF ReportInv
<1> QED
  BY <1>2, <1>3

LEMMA SpecReportInv == ReportSpec => []ReportInv
<1>1. ReportInv /\ UNCHANGED reportVars => ReportInv'
  BY DEF ReportInv, ReportTypeOK, OrderInv, reportVars, levelVars, threadVars
<1>2. ReportInv /\ [ReportNext]_reportVars => ReportInv'
  BY <1>1, EventKeepsReportInv, LoadKeepsReportInv, PostKeepsReportInv, RestartKeepsReportInv
  DEF ReportNext
<1> QED
  BY <1>2, ReportInits, PTL DEF ReportSpec

\* Every variable of the report keeps its type.
THEOREM ReportTypeCorrect == ReportSpec => []ReportTypeOK
<1>1. ReportInv => ReportTypeOK
  BY DEF ReportInv
<1> QED
  BY <1>1, SpecReportInv, PTL

\* Once blah2 has reported, the API counts no overload of a process before it;
\* and a look that finds no news withholds none: the API, if it has a report at
\* all, has each overload the look has counted, whichever posts and answers
\* were lost and whichever process restarted (Capture.cpp:165-187).
THEOREM ReportsAreTrue == ReportSpec => []ReportIsTrue
<1>1. ReportInv => ReportIsTrue
  <2> SUFFICES ASSUME ReportInv, reported, overloadStatus # None
               PROVE  /\ Between(overloadStatus.count, onsetCount)
                      /\ ~Changed => overloadStatus.count = look.count
    BY DEF ReportIsTrue, Between
  <2>1. /\ Between(last.count, overloadStatus.count) /\ Between(overloadStatus.count, look.count)
        /\ Between(look.count, onsetCount)
        /\ overloadStatus.count \in [BothTuners -> Nat] /\ look.count \in [BothTuners -> Nat]
        /\ onsetCount \in [BothTuners -> Nat]
    BY ReportTypes DEF ReportInv, OrderInv
  <2>2. Between(overloadStatus.count, onsetCount)
    BY <2>1, BetweenTransitive
  <2>3. ASSUME ~Changed PROVE overloadStatus.count = look.count
    <3>1. look.count = last.count
      BY <2>3 DEF Changed
    <3> QED
      BY <2>1, <3>1, BetweenBoth
  <2> QED
    BY <2>2, <2>3
<1> QED
  BY <1>1, SpecReportInv, PTL

--------------------------------------------------------------------------------
(* The peak levels                                                         *)

\* A level that the callback has compared with is there, or was reported.
Kept(p) == p <= hold \/ p <= taken
PeakInv ==
  /\ PeakTypeOK
  /\ \A x \in block \ {Lowest} : Abs(x) <= blockPeak
  /\ peakPc = "raise" => Kept(prev)
  /\ peakPc = "idle" => Kept(blockPeak)

\* The wrapped sample is no peak, and every other one is its own magnitude.
LEMMA MagnitudeIs ==
  ASSUME NEW x \in Shorts
  PROVE  /\ Magnitude(x) \in Int /\ Magnitude(x) <= FullScale
         /\ x # Lowest => Magnitude(x) = Abs(x)
BY FullScaleAssumption DEF Shorts, Lowest, Magnitude, Short, Abs

LEMMA PeakInits == PeakInit => PeakInv
BY FullScaleAssumption DEF PeakInit, PeakInv, PeakTypeOK, Kept

LEMMA ScanKeepsPeakInv == PeakInv /\ (BlockBegins \/ ScanSample \/ LoadHold) => PeakInv'
<1> SUFFICES ASSUME PeakInv, BlockBegins \/ ScanSample \/ LoadHold PROVE PeakInv'
  OBVIOUS
<1>1. CASE BlockBegins
  BY <1>1, FullScaleAssumption DEF BlockBegins, PeakInv, PeakTypeOK
<1>2. CASE ScanSample
  <2>1. PICK x \in Shorts : block' = block \cup {x} /\ blockPeak' = Larger(blockPeak, Magnitude(x))
    BY <1>2 DEF ScanSample
  <2>2. blockPeak' \in 0 .. FullScale /\ blockPeak <= blockPeak' /\ Magnitude(x) <= blockPeak'
    BY <2>1, MagnitudeIs, FullScaleAssumption DEF PeakInv, PeakTypeOK, Larger
  <2>3. ASSUME NEW y \in block' \ {Lowest} PROVE Abs(y) <= blockPeak'
    <3>1. y \in Shorts /\ Abs(y) \in Int
      BY <2>1, FullScaleAssumption DEF PeakInv, PeakTypeOK, Shorts, Lowest, Abs
    <3>2. CASE y = x
      BY <2>2, <3>2, MagnitudeIs
    <3>3. CASE y \in block
      <4>1. Abs(y) <= blockPeak
        BY <3>3 DEF PeakInv
      <4> QED
        BY <2>2, <3>1, <4>1, FullScaleAssumption DEF PeakInv, PeakTypeOK
    <3> QED
      BY <2>1, <3>2, <3>3
  <2> QED
    BY <1>2, <2>1, <2>2, <2>3 DEF ScanSample, PeakInv, PeakTypeOK
<1>3. CASE LoadHold
  BY <1>3, FullScaleAssumption DEF LoadHold, PeakInv, PeakTypeOK, Kept
<1> QED
  BY <1>1, <1>2, <1>3

LEMMA RaiseKeepsPeakInv == PeakInv /\ Raise => PeakInv'
<1> SUFFICES ASSUME PeakInv, Raise PROVE PeakInv'
  OBVIOUS
<1>1. peakPc = "raise" /\ UNCHANGED <<block, blockPeak, taken>> /\ Kept(prev)
  BY DEF Raise, PeakInv
<1>2. CASE blockPeak <= prev /\ peakPc' = "idle" /\ UNCHANGED <<prev, hold>>
  BY <1>1, <1>2, FullScaleAssumption DEF PeakInv, PeakTypeOK, Kept
<1>3. CASE blockPeak > prev /\ hold = prev /\ hold' = blockPeak /\ peakPc' = "idle" /\ UNCHANGED prev
  BY <1>1, <1>3, FullScaleAssumption DEF PeakInv, PeakTypeOK, Kept
<1>4. CASE blockPeak > prev /\ prev' = hold /\ UNCHANGED <<peakPc, hold>>
  BY <1>1, <1>4, FullScaleAssumption DEF PeakInv, PeakTypeOK, Kept
<1> QED
  BY <1>2, <1>3, <1>4 DEF Raise

\* What is taken out of the level goes into a report.
LEMMA TakeKeepsPeakInv == PeakInv /\ TakePeak => PeakInv'
<1> SUFFICES ASSUME PeakInv, TakePeak PROVE PeakInv'
  OBVIOUS
<1>1. /\ taken' = Larger(taken, hold) /\ hold' = 0
      /\ UNCHANGED <<peakPc, block, blockPeak, prev>>
  BY DEF TakePeak
<1>2. /\ hold \in 0 .. FullScale /\ taken \in 0 .. FullScale /\ taken' \in 0 .. FullScale
      /\ taken <= taken' /\ hold <= taken'
  BY <1>1, FullScaleAssumption DEF PeakInv, PeakTypeOK, Larger
<1>3. \A p \in 0 .. FullScale : Kept(p) => p <= hold' \/ p <= taken'
  BY <1>2, FullScaleAssumption DEF Kept
<1>4. PeakTypeOK'
  BY <1>1, <1>2, FullScaleAssumption DEF PeakInv, PeakTypeOK
<1>5. prev \in 0 .. FullScale /\ blockPeak \in 0 .. FullScale
  BY DEF PeakInv, PeakTypeOK
<1>6. /\ peakPc = "raise" => prev <= hold' \/ prev <= taken'
      /\ peakPc = "idle" => blockPeak <= hold' \/ blockPeak <= taken'
  BY <1>3, <1>5 DEF PeakInv
<1> QED
  BY <1>1, <1>4, <1>6 DEF PeakInv, Kept

LEMMA SpecPeakInv == PeakSpec => []PeakInv
<1>1. PeakInv /\ UNCHANGED peakVars => PeakInv'
  BY DEF PeakInv, PeakTypeOK, Kept, peakVars
<1>2. PeakInv /\ [PeakNext]_peakVars => PeakInv'
  BY <1>1, ScanKeepsPeakInv, RaiseKeepsPeakInv, TakeKeepsPeakInv DEF PeakNext
<1> QED
  BY <1>2, PeakInits, PTL DEF PeakSpec

\* Every variable of a tuner's peak keeps its type: no level passes full scale.
THEOREM PeakTypeCorrect == PeakSpec => []PeakTypeOK
<1>1. PeakInv => PeakTypeOK
  BY DEF PeakInv
<1> QED
  BY <1>1, SpecPeakInv, PTL

\* A sample above the lowest is in a level that was reported since its block
\* began or is reported next, wherever the reports fall (RspDuo.cpp:813-828).
THEOREM PeaksAreKept == PeakSpec => []NoPeakLost
<1>1. PeakInv => NoPeakLost
  <2> SUFFICES ASSUME PeakInv, peakPc = "idle", NEW x \in block \ {Lowest} PROVE Counted(x)
    BY DEF NoPeakLost
  <2>1. (\A y \in block \ {Lowest} : Abs(y) <= blockPeak) /\ Kept(blockPeak)
    BY Zenon DEF PeakInv
  <2>2. Abs(x) \in Int /\ blockPeak \in Int /\ hold \in Int /\ taken \in Int
    BY FullScaleAssumption DEF PeakInv, PeakTypeOK, Shorts, Lowest, Abs
  <2>3. Abs(x) <= blockPeak
    BY <2>1
  <2> QED
    BY <2>1, <2>2, <2>3 DEF Kept, Counted
<1> QED
  BY <1>1, SpecPeakInv, PTL

================================================================================
