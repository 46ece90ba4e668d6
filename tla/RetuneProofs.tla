------------------------------ MODULE RetuneProofs ------------------------------
(***************************************************************************)
(* Proofs about the live retune for any number of requests, attempts and   *)
(* restarts of either process: types, that the attempts at a request end   *)
(* whatever becomes of the posts, and that what the API reports as applied *)
(* is what the tuners have.                                                *)
(***************************************************************************)
EXTENDS Retune, TLAPS

--------------------------------------------------------------------------------
(* The inductive invariant                                                 *)

\* Requests are numbered as they are made: one that the API offers is the
\* last one made, and the same request always has the same generation.
Numbering ==
  /\ retune.generation <= requests
  /\ retune.generation > 0 => retune.id = requests
  /\ retune.generation > 0 /\ retune.id = reading.id => retune = reading
  /\ reading.id <= requests

\* blah2 counts at least as many attempts at its request as it made, and
\* retires the generation of every request it is done with.
Counting ==
  /\ attempted = reading.generation
  /\ \A i \in Requests : tried[i] <= MaxAttempts /\ (i > reading.id => tried[i] = 0)
  /\ \A i \in done : i <= reading.id
  /\ reading.id \in done => lastApplied >= reading.generation
  /\ reading.id \notin done => tried[reading.id] <= attempts
  /\ pc = "tune" => reading.id \notin done
  /\ pc # "tune" /\ reading.id \notin done => pc = "poll" /\ attempts < MaxAttempts

IInv == TypeOK /\ Numbering /\ Counting

--------------------------------------------------------------------------------

LEMMA InitIInv == Init => IInv
<1> SUFFICES ASSUME Init PROVE IInv
  OBVIOUS
<1> USE RetuneAssumption DEF Init, Seed, Requests
<1>1. TypeOK
  BY DEF TypeOK, RequestType, Unready
<1>2. Numbering /\ Counting
  BY DEF Numbering, Counting
<1> QED
  BY <1>1, <1>2 DEF IInv

\* The API's side: a request takes a number no attempt was made at.
LEMMA ApiKeepsIInv == IInv /\ (Request \/ ApiRestart) => IInv'
<1> SUFFICES ASSUME IInv, Request \/ ApiRestart PROVE IInv'
  OBVIOUS
<1>1. TypeOK /\ Numbering /\ Counting
  BY DEF IInv
<1>2. /\ retune \in RequestType /\ reading \in RequestType
      /\ requests \in Nat /\ MaxRequests \in Nat /\ 0 \in Requests
      /\ \A i \in Nat : i \in Requests <=> i <= MaxRequests
  BY <1>1, RetuneAssumption DEF TypeOK, Requests
<1>3. CASE Request
  <2>1. PICK fc \in Fcs, gain \in Gains :
             retune' = [id |-> requests + 1, generation |-> retune.generation + 1,
                        fc |-> fc, gain |-> gain]
    BY <1>3 DEF Request
  <2>2. /\ requests' = requests + 1 /\ requests < MaxRequests /\ retuneRejection' = None
        /\ UNCHANGED <<retuneStatus, apiRestarts, blah2Vars>>
    BY <1>3 DEF Request
  <2>3. /\ retune.generation \in Nat /\ retune.generation <= requests
        /\ reading.id \in Nat /\ reading.id <= requests
    BY <1>1, <1>2 DEF Numbering, RequestType, Requests
  <2>4. requests' \in Requests /\ retune.generation + 1 \in Requests
    BY <1>2, <2>2, <2>3
  <2>5. retune' \in RequestType
    BY <2>1, <2>2, <2>4 DEF RequestType
  <2>6. retune'.id = requests' /\ retune'.generation <= requests'
    BY <1>2, <2>1, <2>2, <2>3
  <2>7. TypeOK'
    BY <1>1, <2>2, <2>4, <2>5 DEF TypeOK, blah2Vars
  <2>8. Numbering'
    BY <1>2, <2>2, <2>3, <2>6 DEF Numbering, blah2Vars
  <2>9. Counting'
    BY <1>1, <2>2 DEF Counting, blah2Vars
  <2> QED
    BY <2>7, <2>8, <2>9 DEF IInv
<1>4. CASE ApiRestart
  <2>1. /\ retune' = Seed /\ retuneStatus' = None /\ retuneRejection' = None
        /\ apiRestarts < MaxApiRestarts /\ apiRestarts' = apiRestarts + 1
        /\ UNCHANGED <<requests, blah2Vars>>
    BY <1>4 DEF ApiRestart
  <2>2. Seed \in RequestType /\ Seed.generation = 0
    BY <1>2, RetuneAssumption DEF Seed, RequestType
  <2>3. TypeOK'
    BY <1>1, <2>1, <2>2, RetuneAssumption DEF TypeOK, blah2Vars
  <2>4. Numbering'
    BY <1>1, <1>2, <2>1, <2>2 DEF Numbering, blah2Vars
  <2>5. Counting'
    BY <1>1, <2>1 DEF Counting, blah2Vars
  <2> QED
    BY <2>3, <2>4, <2>5 DEF IInv
<1> QED
  BY <1>3, <1>4

\* A poll takes up a request: the last one again, with an attempt left, or a
\* new one.
LEMMA FetchKeepsIInv == IInv /\ Fetch => IInv'
<1> SUFFICES ASSUME IInv, Fetch PROVE IInv'
  OBVIOUS
<1> USE RetuneAssumption DEF IInv, RequestType, Requests
<1>1. /\ retune.generation > lastApplied /\ retune.generation > 0 /\ lastApplied \in Nat
      /\ retune.generation \in Nat /\ retune.id \in Requests /\ reading.id \in Requests
  BY DEF Fetch, Pending, Offered, TypeOK
<1>2. retune.id = requests /\ retune.id >= reading.id
  BY <1>1 DEF Numbering, TypeOK
<1>3. CASE retune.id = reading.id
  <2>1. retune = reading /\ attempted = retune.generation
    BY <1>1, <1>3 DEF Numbering, Counting
  <2>2. reading.id \notin done /\ attempts < MaxAttempts /\ tried[reading.id] <= attempts
    BY <1>1, <2>1 DEF Counting, Fetch
  <2>3. attempts' = attempts + 1 /\ tried' = [tried EXCEPT ![reading.id] = @ + 1]
    BY <2>1 DEF Fetch
  <2>4. TypeOK'
    <3>1. /\ retune \in RequestType /\ retune.generation \in Requests
          /\ attempts' \in 0 .. MaxAttempts
      <4>1. retune \in RequestType
        BY ONLY TypeOK DEF TypeOK
      <4>2. retune.generation \in Requests
        BY ONLY <4>1 DEF RequestType
      <4>3. attempts \in 0 .. MaxAttempts /\ MaxAttempts \in Nat
        BY ONLY TypeOK, RetuneAssumption DEF TypeOK, RetuneAssumption
      <4>4. attempts' \in 0 .. MaxAttempts
        BY ONLY <2>2, <2>3, <4>3
      <4> QED
        BY ONLY <4>1, <4>2, <4>4
    <3>2. tried' \in [Requests -> Nat]
      BY <2>3 DEF TypeOK
    <3>3. /\ reading' = retune /\ attempted' = retune.generation /\ pc' = "tune"
          /\ UNCHANGED <<apiVars, lastApplied, device, currentFc, boot, done>>
      BY DEF Fetch
    <3>4. TypeOK
      OBVIOUS
    <3> QED
      BY ONLY <3>1, <3>2, <3>3, <3>4 DEF TypeOK, apiVars
  <2>5. Numbering'
    BY <2>1 DEF Fetch, Numbering, apiVars
  <2>6. /\ reading' = reading /\ pc' = "tune" /\ attempted' = reading.generation
        /\ UNCHANGED <<lastApplied, done>>
    BY <2>1 DEF Fetch
  <2>7. \A i \in Requests : i # reading.id => tried'[i] = tried[i]
    BY <2>3 DEF TypeOK
  <2>8. tried'[reading.id] = tried[reading.id] + 1 /\ tried[reading.id] \in Nat /\ attempts \in Nat
    BY <1>1, <2>3 DEF TypeOK
  <2>9. \A i \in Requests : tried'[i] <= MaxAttempts /\ (i > reading.id => tried'[i] = 0)
    BY <1>1, <2>2, <2>7, <2>8 DEF Counting
  <2>10. Counting'
    BY <2>2, <2>3, <2>6, <2>8, <2>9 DEF Counting
  <2> QED
    BY <2>4, <2>5, <2>10
<1>4. CASE retune.id > reading.id
  <2>1. retune.id \notin done /\ tried[retune.id] = 0
    BY <1>1, <1>4 DEF Counting, TypeOK
  <2>2. attempts' \in 1 .. MaxAttempts
    BY <1>1 DEF Fetch, Counting, TypeOK
  <2>3. /\ tried' = [tried EXCEPT ![retune.id] = 1] /\ tried' \in [Requests -> Nat]
        /\ reading' = retune /\ pc' = "tune" /\ attempted' = retune.generation
        /\ UNCHANGED <<apiVars, lastApplied, device, currentFc, boot, done>>
    BY <1>1, <2>1 DEF Fetch, TypeOK
  <2>4. TypeOK'
    <3>1. retune \in RequestType /\ retune.generation \in Requests
      BY DEF TypeOK
    <3>2. attempts' \in 0 .. MaxAttempts
      BY <2>2
    <3>3. TypeOK
      OBVIOUS
    <3> QED
      BY ONLY <2>3, <3>1, <3>2, <3>3 DEF TypeOK, apiVars
  <2>5. Numbering'
    <3>1. retune' = retune /\ requests' = requests /\ reading' = retune
      BY <2>3 DEF apiVars
    <3>2. retune.generation <= requests /\ retune.id = requests /\ requests \in Nat
      BY <1>2 DEF Numbering, TypeOK
    <3> QED
      BY ONLY <3>1, <3>2 DEF Numbering
  <2>6. Counting'
    <3>1. /\ Counting /\ Requests \subseteq Nat /\ retune.id \in Requests /\ reading.id \in Requests
          /\ done \subseteq Requests /\ tried \in [Requests -> Nat] /\ MaxAttempts \in Nat \ {0}
          /\ attempts' \in Nat /\ attempts' >= 1
      BY <1>1, <2>2 DEF TypeOK
    <3> QED
      BY ONLY <1>4, <2>1, <2>3, <3>1 DEF Counting
  <2> QED
    BY <2>4, <2>5, <2>6
<1> QED
  BY <1>1, <1>2, <1>3, <1>4

\* An attempt ends: applied, or failed with or without another one left.
LEMMA TuneKeepsIInv == IInv /\ Tune => IInv'
<1> SUFFICES ASSUME IInv, Tune PROVE IInv'
  OBVIOUS
<1>1. /\ pc = "tune" /\ reading \in RequestType /\ device'.ready \in BOOLEAN
      /\ UNCHANGED <<apiVars, reading, attempted, boot, tried>>
      /\ \/ GiveUp
         \/ /\ lastApplied' = reading.generation /\ attempts' = 0
            /\ done' = done \cup {reading.id} /\ pc' = "ack"
  BY DEF Tune, TuneNotReady, TuneRefused, TuneApplied, tuneIdle, IInv, TypeOK
<1>2. /\ device' \in [ready : BOOLEAN, fc : Fcs, gainA : Gains, gainB : Gains]
      /\ currentFc' \in Fcs \cup {NoFc}
  BY DEF Tune, TuneNotReady, TuneRefused, TuneApplied, IInv, TypeOK, RequestType
<1>3. TypeOK'
  <2>1. /\ lastApplied' \in Requests /\ attempts' \in 0 .. MaxAttempts /\ done' \subseteq Requests
        /\ pc' \in {"poll", "tune", "ack", "reject"}
    <3>1. CASE GiveUp
      BY <1>1, <3>1 DEF GiveUp, IInv, TypeOK, RequestType
    <3>2. CASE ~GiveUp
      BY <1>1, <3>2, RetuneAssumption DEF IInv, TypeOK, RequestType
    <3> QED
      BY <3>1, <3>2
  <2> QED
    BY <1>1, <1>2, <2>1 DEF IInv, TypeOK, apiVars
<1>4. Numbering'
  BY <1>1 DEF IInv, Numbering, apiVars
<1>5. Counting'
  <2>1. /\ reading.id \in Nat /\ reading.generation \in Nat /\ attempts \in Nat /\ MaxAttempts \in Nat
        /\ Counting /\ reading.id \notin done
    BY <1>1, RetuneAssumption DEF IInv, Counting, TypeOK, RequestType, Requests
  <2>2. CASE pc' = "poll"
    <3>1. attempts < MaxAttempts /\ UNCHANGED <<lastApplied, attempts, done>>
      BY <1>1, <2>1, <2>2 DEF GiveUp
    <3> QED
      BY <1>1, <2>1, <2>2, <3>1 DEF Counting
  <2>3. CASE pc' # "poll"
    <3>1. /\ done' = done \cup {reading.id} /\ lastApplied' = reading.generation
          /\ pc' \in {"ack", "reject"}
      BY <1>1, <2>3 DEF GiveUp
    <3> QED
      BY <1>1, <2>1, <2>3, <3>1 DEF Counting
  <2> QED
    BY <2>2, <2>3
<1> QED
  BY <1>3, <1>4, <1>5 DEF IInv

LEMMA PostKeepsIInv == IInv /\ Post => IInv'
<1> SUFFICES ASSUME IInv, Post PROVE IInv'
  OBVIOUS
<1>1. postDone /\ pc \in {"ack", "reject"}
  BY DEF Post, PostAck, PostReject, PostLost
<1>2. /\ retuneStatus' \in [request : RequestType, boot : 0 .. MaxRestarts] \cup {None}
      /\ retuneRejection' \in RequestType \cup {None}
  BY DEF Post, PostAck, PostReject, PostLost, IInv, TypeOK
<1>3. TypeOK'
  BY <1>1, <1>2 DEF postDone, IInv, TypeOK
<1>4. Numbering' /\ Counting'
  BY <1>1 DEF postDone, IInv, Numbering, Counting
<1> QED
  BY <1>3, <1>4 DEF IInv

LEMMA BootKeepsIInv == IInv /\ (DeviceReady \/ Restart) => IInv'
<1> SUFFICES ASSUME IInv, DeviceReady \/ Restart PROVE IInv'
  OBVIOUS
<1> USE RetuneAssumption DEF IInv, TypeOK, RequestType, Requests, apiVars
<1>1. CASE DeviceReady
  BY <1>1 DEF DeviceReady, Numbering, Counting
<1>2. CASE Restart
  <2>1. TypeOK'
    BY <1>2 DEF Restart, Seed, Unready
  <2>2. Numbering' /\ Counting'
    BY <1>2 DEF Restart, Seed, Numbering, Counting
  <2> QED
    BY <2>1, <2>2
<1> QED
  BY <1>1, <1>2

LEMMA StepIInv == IInv /\ [Next]_vars => IInv'
<1>1. IInv /\ UNCHANGED vars => IInv'
  BY DEF IInv, TypeOK, Numbering, Counting, vars, apiVars, blah2Vars, Requests, RequestType
<1> QED
  BY <1>1, ApiKeepsIInv, FetchKeepsIInv, TuneKeepsIInv, PostKeepsIInv, BootKeepsIInv DEF Next

LEMMA SpecIInv == Spec => []IInv
BY InitIInv, StepIInv, PTL DEF Spec

\* Every variable of the retune keeps its type, and no generation is counted
\* more than MAX_RETUNE_ATTEMPTS attempts.
THEOREM TypeCorrect == Spec => []TypeOK
<1>1. IInv => TypeOK
  BY DEF IInv
<1> QED
  BY <1>1, SpecIInv, PTL

\* Whatever is refused, lost or restarted, a boot of blah2 tries a request at
\* most MAX_RETUNE_ATTEMPTS times, and not after it applied it or gave it up.
THEOREM AttemptsEnd == Spec => []RetriesEnd
<1>1. IInv => RetriesEnd
  BY DEF IInv, Counting, RetriesEnd
<1> QED
  BY <1>1, SpecIInv, PTL

--------------------------------------------------------------------------------
(* The acknowledged tuning                                                 *)

\* A request is acknowledged once it is tuned, and by a boot that is then
\* done with it.
AckInv ==
  /\ pc = "ack" => Tuned(reading) /\ reading.id \in done
  /\ retuneStatus # None => retuneStatus.boot <= boot
  /\ retuneStatus # None /\ retuneStatus.boot = boot => retuneStatus.request.id \in done

LEMMA StepAck ==
  ASSUME IInv, IInv', AckInv, StatusIsTruth, [Next]_vars
  PROVE  AckInv' /\ StatusIsTruth'
<1>1. /\ boot \in Nat /\ reading \in RequestType
      /\ device \in [ready : BOOLEAN, fc : Fcs, gainA : Gains, gainB : Gains]
  BY RetuneAssumption DEF IInv, TypeOK
<1>2. CASE Request \/ ApiRestart
  <2>1. UNCHANGED blah2Vars /\ (retuneStatus' = retuneStatus \/ retuneStatus' = None)
    BY <1>2 DEF Request, ApiRestart
  <2> QED
    BY <2>1 DEF AckInv, StatusIsTruth, Tuned, blah2Vars
\* blah2 never takes up again what it is done with.
<1>3. CASE Fetch
  <2>1. pc' = "tune" /\ UNCHANGED <<retuneStatus, boot, done>>
    BY <1>3 DEF Fetch, apiVars
  <2>2. reading'.id \notin done
    BY <2>1 DEF IInv, Counting
  <2> QED
    BY <2>1, <2>2 DEF AckInv, StatusIsTruth
<1>4. CASE Tune
  <2>1. /\ pc = "tune" /\ UNCHANGED <<retuneStatus, boot, reading>> /\ done \subseteq done'
        /\ TuneApplied \/ pc' # "ack"
    BY <1>4 DEF Tune, TuneNotReady, TuneRefused, TuneApplied, GiveUp, tuneIdle, apiVars
  <2>2. reading.id \notin done
    BY <2>1 DEF IInv, Counting
  <2>3. ~(retuneStatus # None /\ retuneStatus.boot = boot /\ retuneStatus.request.id = reading.id)
    BY <2>2 DEF AckInv
  <2>4. TuneApplied => Tuned(reading)' /\ reading.id \in done'
    BY <1>1, <2>1 DEF TuneApplied, Tuned
  <2> QED
    BY <2>1, <2>3, <2>4 DEF AckInv, StatusIsTruth
<1>5. CASE Post
  <2>1. /\ pc' = "poll" /\ UNCHANGED <<boot, done, reading, device>>
        /\ retuneStatus' = retuneStatus
             \/ (pc = "ack" /\ retuneStatus' = [request |-> reading, boot |-> boot])
    BY <1>5 DEF Post, PostAck, PostReject, PostLost, postDone
  <2>2. CASE retuneStatus' = retuneStatus
    BY <2>1, <2>2 DEF AckInv, StatusIsTruth, Tuned
  <2>3. CASE pc = "ack" /\ retuneStatus' = [request |-> reading, boot |-> boot]
    <3>1. retuneStatus'.request = reading /\ retuneStatus'.boot = boot
      BY <2>3
    <3>2. Tuned(reading) /\ reading.id \in done
      BY <2>3 DEF AckInv
    <3> QED
      BY <1>1, <2>1, <3>1, <3>2 DEF AckInv, StatusIsTruth, Tuned
  <2> QED
    BY <2>1, <2>2, <2>3
<1>6. CASE DeviceReady
  <2>1. /\ UNCHANGED <<retuneStatus, pc, boot, done, reading>>
        /\ device'.fc = device.fc /\ device'.gainA = device.gainA /\ device'.gainB = device.gainB
    BY <1>1, <1>6 DEF DeviceReady, apiVars
  <2> QED
    BY <2>1 DEF AckInv, StatusIsTruth, Tuned
<1>7. CASE Restart
  <2>1. pc' = "poll" /\ retuneStatus' = retuneStatus /\ boot' = boot + 1
    BY <1>7 DEF Restart, apiVars
  <2>2. retuneStatus # None => retuneStatus.boot \in Nat /\ retuneStatus.boot <= boot
    BY RetuneAssumption DEF IInv, TypeOK, AckInv
  <2> QED
    BY <1>1, <2>1, <2>2 DEF AckInv, StatusIsTruth
<1>8. CASE UNCHANGED vars
  BY <1>8 DEF AckInv, StatusIsTruth, Tuned, vars, apiVars, blah2Vars
<1> QED
  BY <1>2, <1>3, <1>4, <1>5, <1>6, <1>7, <1>8 DEF Next

\* The tuning the API reports as applied is that of both tuners, until the
\* boot of blah2 that applied it takes up another request or ends.
THEOREM StatusTellsTheTuning == Spec => []StatusIsTruth
<1>1. Init => AckInv /\ StatusIsTruth
  BY DEF Init, AckInv, StatusIsTruth
<1>2. IInv /\ IInv' /\ AckInv /\ StatusIsTruth /\ [Next]_vars => AckInv' /\ StatusIsTruth'
  BY StepAck
<1> QED
  BY <1>1, <1>2, SpecIInv, PTL DEF Spec
================================================================================
