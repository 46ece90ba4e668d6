------------------------------- MODULE AdsbProofs ------------------------------
(***************************************************************************)
(* The cache of the aircraft keeps what its time says, for any duration of *)
(* the cache, the timeout, the fetches and their overlaps: the times in    *)
(* the cache are those of the requests, never of the answers, so a caller  *)
(* that finds the cache young enough is given aircraft as young.  No       *)
(* position in it is of a later time than the present.  And what is        *)
(* computed from it is right: an echo gets the name of the aircraft it     *)
(* came from, and the map shows the aircraft where it is.                  *)
(***************************************************************************)
EXTENDS Adsb, TLAPS

RequestFields == {"state", "target", "off", "called", "echo", "payload"}

\* A call that waits knows when it was made.
IsRequest(r) == DOMAIN r = RequestFields /\ r.called \in Nat

\* The time of the cache is that of the request that filled it.
CacheInv ==
  /\ callers \subseteq Callers
  /\ now \in Nat /\ lastFetchTime \in Nat /\ aircraftCache.asked = lastFetchTime
  /\ DOMAIN call = Callers
  /\ \A c \in Callers : call[c] = Idle \/ IsRequest(call[c])

IInv == CacheInv /\ AircraftFresh

LEMMA InitIInv == Init => IInv
BY AdsbAssumption DEF Init, IInv, CacheInv, AircraftFresh, Empty, Idle

LEMMA CallKeepsIInv == IInv /\ (\E c \in callers : GetCachedAircraft(c)) => IInv'
<1> SUFFICES ASSUME IInv, NEW c \in callers, GetCachedAircraft(c) PROVE IInv'
  OBVIOUS
<1> USE AdsbAssumption DEF IInv, CacheInv
<1>1. /\ callers' \subseteq Callers /\ now' \in Nat /\ lastFetchTime' \in Nat
      /\ aircraftCache'.asked = lastFetchTime'
  BY DEF GetCachedAircraft, rigid
<1>2. PICK off : LET echo    == EchoOf(plane, now - Lag)
                     request == [state |-> "asked", target |-> now - Lag, off |-> off, called |-> now,
                                 echo |-> [echo EXCEPT !.delay = @ + off], payload |-> None]
                 IN IF now - lastFetchTime > CacheInterval
                      THEN call' = [call EXCEPT ![c] = request] /\ result' = None
                      ELSE Finish(c, request, aircraftCache)
  BY DEF GetCachedAircraft
<1> DEFINE request == [state |-> "asked", target |-> now - Lag, off |-> off, called |-> now,
                       echo |-> [EchoOf(plane, now - Lag) EXCEPT !.delay = @ + off], payload |-> None]
<1>3. CASE now - lastFetchTime > CacheInterval
  <2>1. call' = [call EXCEPT ![c] = request] /\ result' = None
    BY <1>2, <1>3
  <2>2. IsRequest(request)
    BY DEF IsRequest, RequestFields
  <2> HIDE DEF request
  <2>3. CacheInv'
    BY <1>1, <2>1, <2>2
  <2>4. AircraftFresh'
    BY <2>1 DEF AircraftFresh
  <2> QED
    BY <2>3, <2>4
<1>4. CASE ~(now - lastFetchTime > CacheInterval)
  <2>1. Finish(c, request, aircraftCache)
    BY <1>2, <1>4
  <2>2. CacheInv'
    BY <1>1, <2>1 DEF Finish
  <2>3. result'.called = now /\ result'.asked = lastFetchTime
    BY <2>1 DEF Finish, Use
  <2>4. AircraftFresh'
    BY <1>4, <2>3 DEF AircraftFresh
  <2> QED
    BY <2>2, <2>4
<1> QED
  BY <1>3, <1>4

\* However a fetch ends, its call's time becomes the cache's.
LEMMA ResumeKeepsIInv ==
  ASSUME IInv, NEW c \in callers, call[c] # Idle, NEW aircraft, Resume(c, aircraft)
  PROVE  IInv'
<1> USE DEF IInv, CacheInv
<1> DEFINE cache == [aircraft |-> aircraft, asked |-> call[c].called]
<1>1. aircraftCache' = cache /\ lastFetchTime' = call[c].called /\ Finish(c, call[c], cache)
  BY DEF Resume
<1>2. call[c].called \in Nat
  BY DEF IsRequest
<1>3. CacheInv'
  BY <1>1, <1>2 DEF Resume, Finish, rigid
<1>4. result'.called = call[c].called /\ result'.asked = call[c].called
  BY <1>1 DEF Finish, Use
<1>5. AircraftFresh'
  BY <1>2, <1>4, AdsbAssumption DEF AircraftFresh
<1> QED
  BY <1>3, <1>5

LEMMA WaitKeepsIInv == IInv /\ (\E c \in callers : Answer(c) \/ Fetch(c)) => IInv'
<1> SUFFICES ASSUME IInv, NEW c \in callers, Answer(c) \/ Fetch(c) PROVE IInv'
  OBVIOUS
<1>1. call[c].state # "idle" => call[c] # Idle
  BY DEF Idle
<1>2. CASE Answer(c)
  <2>1. PICK ages : call' = [call EXCEPT ![c].state = "answered", ![c].payload = Payload(ages[1], ages[2])]
    BY <1>2 DEF Answer
  <2> DEFINE payload == Payload(ages[1], ages[2])
             answered == [call[c] EXCEPT !.state = "answered", !.payload = payload]
  <2> HIDE DEF payload
  <2>2. c \in Callers /\ IsRequest(call[c])
    BY <1>1, <1>2 DEF Answer, IInv, CacheInv
  <2>3. call' = [call EXCEPT ![c] = answered]
    BY <2>1 DEF payload
  <2>4. IsRequest(answered)
    BY <2>2 DEF IsRequest, RequestFields
  <2> HIDE DEF answered
  <2>5. CacheInv'
    BY <1>2, <2>2, <2>3, <2>4 DEF Answer, IInv, CacheInv, rigid
  <2> QED
    BY <1>2, <2>5 DEF Answer, IInv, AircraftFresh
<1>3. CASE End(c)
  BY <1>1, <1>3, ResumeKeepsIInv DEF End
<1>4. CASE Error(c)
  BY <1>1, <1>4, ResumeKeepsIInv DEF Error
<1>5. CASE Timeout(c)
  BY <1>1, <1>5, ResumeKeepsIInv DEF Timeout
<1>6. CASE Cut(c)
  <2> DEFINE cut == [call[c] EXCEPT !.state = "cut"]
  <2>1. c \in Callers /\ IsRequest(call[c])
    BY <1>1, <1>6 DEF Cut, IInv, CacheInv
  <2>2. call' = [call EXCEPT ![c] = cut]
    BY <1>6 DEF Cut
  <2>3. IsRequest(cut)
    BY <2>1 DEF IsRequest, RequestFields
  <2> HIDE DEF cut
  <2>4. CacheInv'
    BY <1>6, <2>1, <2>2, <2>3 DEF Cut, IInv, CacheInv, rigid
  <2> QED
    BY <1>6, <2>4 DEF Cut, IInv, AircraftFresh
<1> QED
  BY <1>2, <1>3, <1>4, <1>5, <1>6 DEF Fetch

LEMMA StepIInv == IInv /\ [Next]_vars => IInv'
<1>1. IInv /\ Tick => IInv'
  BY DEF IInv, CacheInv, AircraftFresh, Tick, rigid
<1>2. IInv /\ UNCHANGED vars => IInv'
  BY DEF IInv, CacheInv, AircraftFresh, vars, rigid
<1> QED
  BY <1>1, <1>2, CallKeepsIInv, WaitKeepsIInv DEF Next

\* No caller is given aircraft that were asked for more than CACHE_INTERVAL
\* before it called, however many fetches overlap and however late, in which
\* order and with what outcome they end (server.js:468-475).
THEOREM AircraftAreFresh == Spec => []AircraftFresh
<1>1. IInv => AircraftFresh
  BY DEF IInv
<1> QED
  BY <1>1, InitIInv, StepIInv, PTL DEF Spec

--------------------------------------------------------------------------------
(* Types                                                                   *)

\* The reports of a payload were made before they were sent, and their
\* positions before that.
IsPayload(p) ==
  /\ p.now = None \/ (p.now \in Int /\ p.now <= now)
  /\ \A i \in DOMAIN p.aircraft : p.aircraft[i].seen_pos = None \/ p.aircraft[i].seen_pos \in Nat

IsPast(aircraft) ==
  \A i \in DOMAIN aircraft : aircraft[i].timestamp \in Int /\ aircraft[i].timestamp <= now

IsPastRequest(r) ==
  /\ r.state \in {"asked", "answered", "cut"} /\ r.called <= now
  /\ r.state = "answered" => IsPayload(r.payload)

TypeInv ==
  /\ [config |-> config, plane |-> plane, callers |-> callers] \in Scenes
  /\ now <= MaxTime /\ lastFetchTime <= now
  /\ IsPast(aircraftCache.aircraft)
  /\ \A c \in Callers : call[c] = Idle \/ IsPastRequest(call[c])
  /\ result # None => result.caller \in Callers /\ result.called \in Times /\ result.asked \in Times

Types == CacheInv /\ TypeInv

\* Before the first fetch there is nothing in the cache.
LEMMA InitTypes == Init => Types
<1> SUFFICES ASSUME Init PROVE Types
  OBVIOUS
<1> USE AdsbAssumption DEF Init
<1>1. CacheInv
  BY InitIInv DEF IInv
<1>2. PICK scene \in Scenes : config = scene.config /\ plane = scene.plane /\ callers = scene.callers
  OBVIOUS
<1>3. [config |-> config, plane |-> plane, callers |-> callers] \in Scenes
  BY <1>2
<1>4. IsPast(aircraftCache.aircraft)
  BY DEF IsPast, Empty
<1> QED
  BY <1>1, <1>3, <1>4 DEF Types, TypeInv

\* What is past stays past, and so does a payload.
LEMMA PastStays ==
  ASSUME now \in Nat, now' \in Nat, now <= now'
  PROVE  /\ \A aircraft : IsPast(aircraft) => \A i \in DOMAIN aircraft : aircraft[i].timestamp \in Int /\ aircraft[i].timestamp <= now'
         /\ \A p : IsPayload(p) =>
              /\ p.now = None \/ (p.now \in Int /\ p.now <= now')
              /\ \A i \in DOMAIN p.aircraft : p.aircraft[i].seen_pos = None \/ p.aircraft[i].seen_pos \in Nat
<1>1. \A t \in Int : t <= now => t <= now'
  OBVIOUS
<1> QED
  BY <1>1 DEF IsPast, IsPayload

\* The time of a position is the payload's, or else the answer's, less the
\* age of the position: never later than the present.
LEMMA StampedIsPast ==
  ASSUME now \in Nat, NEW p, IsPayload(p)
  PROVE  IsPast(StampPositionTimes(p, now))
<1> DEFINE stamped == StampPositionTimes(p, now)
<1>1. DOMAIN stamped = DOMAIN p.aircraft
  BY DEF StampPositionTimes
<1>2. ASSUME NEW i \in DOMAIN p.aircraft
      PROVE  stamped[i].timestamp \in Int /\ stamped[i].timestamp <= now
  <2>1. stamped[i].timestamp = Or(p.now, now) - Or(p.aircraft[i].seen_pos, 0)
    BY DEF StampPositionTimes
  <2>2. Or(p.now, now) \in Int /\ Or(p.now, now) <= now
    BY DEF IsPayload, Or
  <2>3. Or(p.aircraft[i].seen_pos, 0) \in Nat
    BY DEF IsPayload, Or
  <2> HIDE DEF stamped
  <2> QED
    BY <2>1, <2>2, <2>3
<1> QED
  BY <1>1, <1>2 DEF IsPast

\* A second passes.
LEMMA TickKeepsTypes == Types /\ Tick => TypeInv'
<1> SUFFICES ASSUME Types, Tick PROVE TypeInv'
  OBVIOUS
<1> USE AdsbAssumption DEF Types
<1>1. /\ now \in Nat /\ now' = now + 1 /\ now' <= MaxTime /\ result' = None /\ lastFetchTime \in Nat
      /\ UNCHANGED <<config, plane, callers, aircraftCache, lastFetchTime, call>>
  BY DEF Tick, rigid, CacheInv
<1>2. now \in Nat /\ now' \in Nat /\ now <= now'
  BY <1>1
<1>3. IsPast(aircraftCache.aircraft)'
  BY <1>1, <1>2, PastStays DEF TypeInv, IsPast
<1>4. ASSUME NEW c \in Callers PROVE call'[c] = Idle \/ IsPastRequest(call[c])'
  <2>1. CASE call[c] # Idle
    <3>1. IsPastRequest(call[c]) /\ IsRequest(call[c])
      BY <2>1 DEF TypeInv, CacheInv
    <3>2. call[c].called \in Nat /\ call[c].called <= now'
      BY <1>1, <3>1 DEF IsRequest, IsPastRequest
    <3>3. IsPayload(call[c].payload) => IsPayload(call[c].payload)'
      BY <1>1, <1>2, PastStays DEF IsPayload
    <3> QED
      BY <1>1, <3>1, <3>2, <3>3 DEF IsPastRequest
  <2> QED
    BY <1>1, <2>1
<1>5. lastFetchTime' <= now'
  BY <1>1 DEF TypeInv
<1> QED
  BY <1>1, <1>3, <1>4, <1>5 DEF TypeInv

\* Between two seconds a step changes one call at most, and with it the
\* cache and the result.
LEMMA StepAtATime ==
  ASSUME Types, UNCHANGED <<config, plane, callers, now>>, NEW c \in Callers,
         lastFetchTime' <= now, IsPast(aircraftCache'.aircraft),
         \A d \in Callers : d # c => call'[d] = call[d],
         call'[c] = Idle \/ IsPastRequest(call'[c]),
         result' # None => result'.caller \in Callers /\ result'.called \in Times /\ result'.asked \in Times
  PROVE  TypeInv'
<1>1. ASSUME NEW d \in Callers PROVE call'[d] = Idle \/ IsPastRequest(call'[d])
  BY DEF Types, TypeInv
<1>2. \A r : IsPastRequest(r) => /\ r.state \in {"asked", "answered", "cut"} /\ r.called <= now'
                                 /\ r.state = "answered" => IsPayload(r.payload)
  BY DEF IsPastRequest
<1>3. \A d \in Callers : call'[d] = Idle \/ IsPastRequest(call[d])'
  BY <1>1, <1>2 DEF IsPastRequest, IsPayload
<1>4. IsPast(aircraftCache.aircraft)'
  BY DEF IsPast
<1> QED
  BY <1>3, <1>4 DEF Types, TypeInv

\* The times of a request and of the cache are times.
LEMMA UseIsTyped ==
  ASSUME NEW c \in Callers, NEW r, NEW cache, r.called \in Times, cache.asked \in Times
  PROVE  LET u == Use(c, r, cache)
         IN  u.caller \in Callers /\ u.called \in Times /\ u.asked \in Times
BY DEF Use

\* A caller asks, and is answered from the cache or begins to wait.
LEMMA CallKeepsTypes == Types /\ (\E c \in callers : GetCachedAircraft(c)) => TypeInv'
<1> SUFFICES ASSUME Types, NEW c \in callers, GetCachedAircraft(c) PROVE TypeInv'
  OBVIOUS
<1> USE AdsbAssumption
<1>1. /\ c \in Callers /\ now \in Nat /\ now <= MaxTime /\ lastFetchTime \in Nat /\ lastFetchTime <= now
      /\ aircraftCache.asked = lastFetchTime /\ DOMAIN call = Callers
      /\ IsPast(aircraftCache.aircraft)
  BY DEF Types, CacheInv, TypeInv
<1>2. UNCHANGED <<config, plane, callers, now, aircraftCache, lastFetchTime>>
  BY DEF GetCachedAircraft, rigid
<1>3. PICK off : LET echo    == EchoOf(plane, now - Lag)
                     request == [state |-> "asked", target |-> now - Lag, off |-> off, called |-> now,
                                 echo |-> [echo EXCEPT !.delay = @ + off], payload |-> None]
                 IN IF now - lastFetchTime > CacheInterval
                      THEN call' = [call EXCEPT ![c] = request] /\ result' = None
                      ELSE Finish(c, request, aircraftCache)
  BY DEF GetCachedAircraft
<1> DEFINE request == [state |-> "asked", target |-> now - Lag, off |-> off, called |-> now,
                       echo |-> [EchoOf(plane, now - Lag) EXCEPT !.delay = @ + off], payload |-> None]
<1>4. IsPastRequest(request) /\ request.called = now
  BY <1>1 DEF IsPastRequest
<1>5. \/ call' = [call EXCEPT ![c] = request] /\ result' = None
      \/ call' = [call EXCEPT ![c] = Idle] /\ result' = Use(c, request, aircraftCache)
  BY <1>3 DEF Finish
<1> HIDE DEF request
<1>6. /\ \A d \in Callers : d # c => call'[d] = call[d]
      /\ call'[c] = Idle \/ IsPastRequest(call'[c])
  BY <1>1, <1>4, <1>5
<1>7. now \in Times /\ lastFetchTime \in Times
  BY <1>1 DEF Times
<1>8. result' # None => result'.caller \in Callers /\ result'.called \in Times /\ result'.asked \in Times
  BY <1>1, <1>4, <1>5, <1>7, UseIsTyped
<1>9. lastFetchTime' <= now /\ IsPast(aircraftCache'.aircraft)
  BY <1>1, <1>2
<1> QED
  BY <1>1, <1>2, <1>6, <1>8, <1>9, StepAtATime

\* A fetch ends, with positions of the past or none.
LEMMA ResumeKeepsTypes ==
  ASSUME Types, NEW c \in callers, call[c] # Idle, NEW aircraft, IsPast(aircraft), Resume(c, aircraft)
  PROVE  TypeInv'
<1> USE AdsbAssumption
<1>1. /\ c \in Callers /\ now \in Nat /\ now <= MaxTime /\ DOMAIN call = Callers
      /\ IsRequest(call[c]) /\ IsPastRequest(call[c])
  BY DEF Types, CacheInv, TypeInv
<1>2. call[c].called \in Nat /\ call[c].called <= now /\ call[c].called \in Times
  BY <1>1 DEF IsRequest, IsPastRequest, Times
<1> DEFINE cache == [aircraft |-> aircraft, asked |-> call[c].called]
<1>3. /\ aircraftCache' = cache /\ lastFetchTime' = call[c].called
      /\ result' = Use(c, call[c], cache) /\ call' = [call EXCEPT ![c] = Idle]
      /\ UNCHANGED <<config, plane, callers, now>>
  BY DEF Resume, Finish, rigid
<1>4. cache.asked = call[c].called /\ cache.aircraft = aircraft
  OBVIOUS
<1> HIDE DEF cache
<1>5. result'.caller \in Callers /\ result'.called \in Times /\ result'.asked \in Times
  BY <1>1, <1>2, <1>3, <1>4, UseIsTyped
<1>6. call'[c] = Idle /\ \A d \in Callers : d # c => call'[d] = call[d]
  BY <1>1, <1>3
<1> QED
  BY <1>1, <1>2, <1>3, <1>4, <1>5, <1>6, StepAtATime

\* tar1090 answers, in time, late or not at all.
LEMMA WaitKeepsTypes == Types /\ (\E c \in callers : Answer(c) \/ Fetch(c)) => TypeInv'
<1> SUFFICES ASSUME Types, NEW c \in callers, Answer(c) \/ Fetch(c) PROVE TypeInv'
  OBVIOUS
<1> USE AdsbAssumption
<1>1. /\ c \in Callers /\ now \in Nat /\ DOMAIN call = Callers /\ lastFetchTime <= now
      /\ IsPast(aircraftCache.aircraft)
  BY DEF Types, CacheInv, TypeInv
<1>2. call[c].state # "idle" => call[c] # Idle
  BY DEF Idle
<1>3. call[c] # Idle => IsRequest(call[c]) /\ IsPastRequest(call[c])
  BY <1>1 DEF Types, CacheInv, TypeInv
<1>4. IsPast(<<>>)
  BY DEF IsPast
<1>5. CASE Answer(c)
  <2>1. PICK ages \in Ages : call' = [call EXCEPT ![c].state = "answered", ![c].payload = Payload(ages[1], ages[2])]
    BY <1>5 DEF Answer
  <2>2. ages[1] \in Nat /\ ages[2] \in Nat
    BY <2>1
  <2> DEFINE payload == Payload(ages[1], ages[2])
             answered == [call[c] EXCEPT !.state = "answered", !.payload = payload]
  <2>3. IsPayload(payload)
    <3>1. payload.now = (IF config.stamped THEN now - ages[1] ELSE None)
      BY DEF Payload
    <3>2. payload.now = None \/ (payload.now \in Int /\ payload.now <= now)
      BY <1>1, <2>2, <3>1
    <3>3. \A i \in DOMAIN payload.aircraft : payload.aircraft[i].seen_pos = ages[2]
      BY DEF Payload, Report
    <3> QED
      BY <2>2, <3>2, <3>3 DEF IsPayload
  <2> HIDE DEF payload
  <2>4. IsRequest(call[c]) /\ IsPastRequest(call[c])
    BY <1>2, <1>3, <1>5 DEF Answer
  <2>5. call' = [call EXCEPT ![c] = answered]
    BY <2>1 DEF payload
  <2>6. IsPastRequest(answered)
    BY <2>3, <2>4 DEF IsRequest, RequestFields, IsPastRequest
  <2> HIDE DEF answered
  <2>7. call'[c] = answered /\ \A d \in Callers : d # c => call'[d] = call[d]
    BY <1>1, <2>5
  <2>8. UNCHANGED <<config, plane, callers, now, aircraftCache, lastFetchTime>> /\ result' = None
    BY <1>5 DEF Answer, rigid
  <2> QED
    BY <1>1, <2>6, <2>7, <2>8, StepAtATime
<1>6. CASE End(c)
  <2>1. call[c] # Idle /\ call[c].state = "answered" /\ Resume(c, StampPositionTimes(call[c].payload, now))
    BY <1>2, <1>6 DEF End
  <2>2. IsPast(StampPositionTimes(call[c].payload, now))
    BY <1>1, <1>3, <2>1, StampedIsPast DEF IsPastRequest
  <2> QED
    BY <2>1, <2>2, ResumeKeepsTypes
<1>7. CASE Error(c) \/ Timeout(c)
  <2>1. call[c] # Idle /\ Resume(c, <<>>)
    BY <1>2, <1>7 DEF Error, Timeout
  <2> QED
    BY <1>4, <2>1, ResumeKeepsTypes
<1>8. CASE Cut(c)
  <2> DEFINE cut == [call[c] EXCEPT !.state = "cut"]
  <2>1. IsRequest(call[c]) /\ IsPastRequest(call[c])
    BY <1>2, <1>3, <1>8 DEF Cut
  <2>2. call' = [call EXCEPT ![c] = cut]
    BY <1>8 DEF Cut
  <2>3. IsPastRequest(cut)
    BY <2>1 DEF IsRequest, RequestFields, IsPastRequest
  <2> HIDE DEF cut
  <2>4. call'[c] = cut /\ \A d \in Callers : d # c => call'[d] = call[d]
    BY <1>1, <2>2
  <2>5. UNCHANGED <<config, plane, callers, now, aircraftCache, lastFetchTime>> /\ result' = None
    BY <1>8 DEF Cut, rigid
  <2> QED
    BY <1>1, <2>3, <2>4, <2>5, StepAtATime
<1> QED
  BY <1>5, <1>6, <1>7, <1>8 DEF Fetch

\* Every step keeps the types.
LEMMA StepTypes == Types /\ IInv /\ [Next]_vars => Types'
<1> SUFFICES ASSUME Types, IInv, [Next]_vars PROVE Types'
  OBVIOUS
<1>1. CacheInv'
  BY StepIInv DEF IInv
<1>2. CASE UNCHANGED vars
  <2>1. UNCHANGED <<config, plane, callers, now, aircraftCache, lastFetchTime, call, result>>
    BY <1>2 DEF vars, rigid
  <2>2. \A v : IsPayload(v)' <=> IsPayload(v)
    BY <2>1 DEF IsPayload
  <2> QED
    BY <1>1, <2>1, <2>2 DEF Types, TypeInv, IsPast, IsPastRequest
<1>3. CASE Next
  <2>1. CASE Tick
    BY <1>1, <2>1, TickKeepsTypes DEF Types
  <2>2. ASSUME NEW c \in callers, GetCachedAircraft(c) \/ Answer(c) \/ Fetch(c)
        PROVE  TypeInv'
    BY <2>2, CallKeepsTypes, WaitKeepsTypes
  <2> QED
    BY <1>1, <1>3, <2>1, <2>2 DEF Next, Types
<1> QED
  BY <1>1, <1>2, <1>3 DEF Types, TypeInv

\* Every variable holds a value of its type, and no position in the cache is
\* of a later time than the present, however old tar1090's data and the
\* positions in them are and however late they come.
THEOREM TypeCorrect == Spec => []TypeOK
<1>1. Types => TypeOK
  <2> SUFFICES ASSUME Types PROVE TypeOK
    OBVIOUS
  <2>1. now \in Times /\ lastFetchTime \in Times /\ aircraftCache.asked \in Times
    BY AdsbAssumption DEF Types, CacheInv, TypeInv, Times
  <2>2. \A c \in Callers : call[c].state \in CallStates
    BY DEF Types, TypeInv, IsPastRequest, Idle, CallStates
  <2> QED
    BY <2>1, <2>2 DEF Types, TypeInv, IsPast, TypeOK
<1> QED
  BY <1>1, InitTypes, StepTypes, InitIInv, StepIInv, PTL DEF Spec

--------------------------------------------------------------------------------
(* Where an aircraft is                                                    *)

\* What the API holds of an aircraft whose position is of time t.
Sighting(p, t) ==
  [f \in Fields \union {"timestamp"} |-> IF f = "timestamp" THEN t ELSE Report(p, t, 0)[f]]

LEMMA PlaneTypes ==
  ASSUME NEW p, IsPlane(p), NEW t \in Int
  PROVE  /\ North(p.gs, p.track) \in Int
         /\ PlaneAt(p, t).lat = p.lat + North(p.gs, p.track) * t /\ PlaneAt(p, t).lat \in Int
         /\ PlaneAt(p, t).alt = p.alt + p.climb * t /\ PlaneAt(p, t).alt \in Int
<1>1. North(p.gs, p.track) \in Int
  BY DEF North, IsPlane
<1> QED
  BY <1>1 DEF PlaneAt, IsPlane

LEMMA SightingFields ==
  ASSUME NEW p, IsPlane(p), NEW t \in Int
  PROVE  LET ac == Sighting(p, t)
         IN  /\ ac \in Records
             /\ ac.timestamp = t /\ ac.hex = p.hex /\ ac.lat = PlaneAt(p, t).lat /\ ac.gs = p.gs /\ ac.track = p.track
             /\ ac.alt_geom = (IF p.hasGeom THEN PlaneAt(p, t).alt ELSE None)
             /\ ac.alt_baro \in {PlaneAt(p, t).alt, Ground, None}
             /\ p.baro = "number" => ac.alt_baro = PlaneAt(p, t).alt
             /\ ac.geom_rate = (IF p.rate = "geom" THEN p.climb ELSE None)
             /\ ac.baro_rate = (IF p.rate = "baro" THEN p.climb ELSE None)
<1> DEFINE ac == Sighting(p, t)
           r  == Report(p, t, 0)
<1>1. /\ r.hex = p.hex /\ r.lat = PlaneAt(p, t).lat /\ r.gs = p.gs /\ r.track = p.track
      /\ r.alt_geom = (IF p.hasGeom THEN PlaneAt(p, t).alt ELSE None)
      /\ r.alt_baro \in {PlaneAt(p, t).alt, Ground, None}
      /\ p.baro = "number" => r.alt_baro = PlaneAt(p, t).alt
      /\ r.geom_rate = (IF p.rate = "geom" THEN p.climb ELSE None)
      /\ r.baro_rate = (IF p.rate = "baro" THEN p.climb ELSE None)
  BY DEF Report
<1> HIDE DEF r
<1>2. /\ DOMAIN ac = Fields \union {"timestamp"} /\ ac.timestamp = t
      /\ ac.hex = r.hex /\ ac.lat = r.lat /\ ac.gs = r.gs /\ ac.track = r.track /\ ac.alt_geom = r.alt_geom
      /\ ac.alt_baro = r.alt_baro /\ ac.geom_rate = r.geom_rate /\ ac.baro_rate = r.baro_rate
  BY DEF Sighting, Fields, r
<1>3. ac = [f \in Fields \union {"timestamp"} |-> ac[f]]
  BY DEF Sighting
<1> HIDE DEF ac
<1>4. \A f \in Fields \union {"timestamp"} : ac[f] \in Int \union STRING \union {None, Ground}
  <2>1. /\ p.hex \in STRING /\ p.gs \in Int /\ p.climb \in Int /\ p.track \in Int \union {None}
        /\ PlaneAt(p, t).lat \in Int /\ PlaneAt(p, t).alt \in Int
    BY PlaneTypes DEF IsPlane
  <2>2. /\ ac.timestamp \in Int /\ ac.hex \in STRING /\ ac.lat \in Int /\ ac.gs \in Int
        /\ ac.track \in Int \union {None} /\ ac.alt_geom \in Int \union {None}
        /\ ac.alt_baro \in Int \union {None, Ground}
        /\ ac.geom_rate \in Int \union {None} /\ ac.baro_rate \in Int \union {None}
    BY <1>1, <1>2, <2>1
  <2> QED
    BY <2>2 DEF Fields
<1>5. ac \in Records
  BY <1>3, <1>4 DEF Records
<1> QED
  BY <1>1, <1>2, <1>5 DEF ac

\* A position moved to another time of a straight flight is the position of
\* that time, whatever it was taken from.
LEMMA ProjectedPlane ==
  ASSUME NEW p, IsPlane(p), NEW t \in Int, NEW target \in Int, NEW maxSeconds \in Nat, NEW ac,
         ac.timestamp = t, ac.lat = PlaneAt(p, t).lat, ac.gs = p.gs, ac.track = p.track,
         p.gs # 0, p.track # None, VerticalRate(ac) = p.climb,
         IF IsNumber(ac.alt_geom) THEN ac.alt_geom = PlaneAt(p, t).alt
                                  ELSE IsNumber(ac.alt_baro) /\ ac.alt_baro = PlaneAt(p, t).alt
  PROVE  ExtrapolatePosition(ac, target, maxSeconds) =
           IF Abs(target - t) > maxSeconds THEN None
           ELSE [lat |-> PlaneAt(p, target).lat, alt |-> PlaneAt(p, target).alt]
<1> DEFINE v == North(p.gs, p.track)
<1>1. v \in Int /\ p.lat \in Int /\ p.alt \in Int /\ p.climb \in Int
  BY PlaneTypes DEF IsPlane
<1>2. /\ PlaneAt(p, t).lat = p.lat + v * t /\ PlaneAt(p, target).lat = p.lat + v * target
      /\ PlaneAt(p, t).alt = p.alt + p.climb * t /\ PlaneAt(p, target).alt = p.alt + p.climb * target
  BY PlaneTypes
<1> HIDE DEF v
<1>3. PlaneAt(p, t).lat + v * (target - t) = PlaneAt(p, target).lat
  BY <1>1, <1>2
<1>4. PlaneAt(p, t).alt + p.climb * (target - t) = PlaneAt(p, target).alt
  BY <1>1, <1>2
<1>5. ~Falsy(ac.gs) /\ ac.track # None
  BY AdsbTruthAssumption DEF Falsy, IsPlane
<1> QED
  BY <1>3, <1>4, <1>5 DEF ExtrapolatePosition, v

\* Away from the sites the way by the aircraft grows or shrinks by its speed.
LEMMA WayGrows ==
  ASSUME NEW p, IsPlane(p), NEW t \in Int, NEW site \in Int, StaysOff(p, t, site)
  PROVE  Abs(PlaneAt(p, t).lat - site) - Abs(PlaneAt(p, t + 1).lat - site)
           = Sign(site - PlaneAt(p, t).lat) * North(p.gs, p.track)
<1> DEFINE v == North(p.gs, p.track)
           here == PlaneAt(p, t).lat
           next == PlaneAt(p, t + 1).lat
<1>1. v \in Int /\ here \in Int /\ next = here + v
  <2>1. v \in Int /\ here = p.lat + v * t /\ next = p.lat + v * (t + 1) /\ p.lat \in Int
    <3>1. t + 1 \in Int
      OBVIOUS
    <3> QED
      BY <3>1, PlaneTypes DEF IsPlane
  <2> HIDE DEF v, here, next
  <2> QED
    BY <2>1
<1>2. (here > site /\ next >= site) \/ (here < site /\ next <= site)
  BY DEF StaysOff
<1> HIDE DEF v, here, next
<1>3. Abs(here - site) - Abs(next - site) = Sign(site - here) * v
  BY <1>1, <1>2 DEF Abs, Sign
<1> QED
  BY <1>3 DEF v, here, next

\* The delay and the Doppler computed from where an aircraft is are those of
\* an echo of it.
LEMMA ComputedEcho ==
  ASSUME NEW p, IsPlane(p), p.gs # 0, p.track \notin {None, 0}, NEW t \in Int,
         config.rx \in Int, config.tx \in Int, NEW ac,
         ac.lat = PlaneAt(p, t).lat, ac.alt_geom = PlaneAt(p, t).alt, ac.gs = p.gs, ac.track = p.track,
         ac.geom_rate = p.climb, ac.lat # 0, ac.alt_geom > 0,
         StaysOff(p, t, config.rx), StaysOff(p, t, config.tx)
  PROVE  /\ ComputeBistaticDelay(ac, config.rx, config.tx) = EchoOf(p, t).delay
         /\ ComputeBistaticDoppler(ac, config.rx, config.tx) = EchoOf(p, t).doppler
         /\ EchoOf(p, t).delay \in Int /\ EchoOf(p, t).doppler \in Int
<1> DEFINE v == North(p.gs, p.track)
           rx == config.rx
           tx == config.tx
           here == PlaneAt(p, t)
           next == PlaneAt(p, t + 1)
<1> USE AdsbTruthAssumption
<1>1. /\ v \in Int /\ here.lat \in Int /\ here.alt \in Int /\ next.lat \in Int /\ p.climb \in Int
      /\ next.alt = here.alt + p.climb
  <2>1. /\ v \in Int /\ p.climb \in Int /\ p.alt \in Int /\ here.lat \in Int /\ next.lat \in Int
        /\ here.alt = p.alt + p.climb * t /\ next.alt = p.alt + p.climb * (t + 1)
    <3>1. t + 1 \in Int
      OBVIOUS
    <3> QED
      BY <3>1, PlaneTypes DEF IsPlane
  <2> HIDE DEF here, next, v
  <2>2. next.alt = here.alt + p.climb /\ here.alt \in Int /\ next.alt \in Int
    BY <2>1
  <2> QED
    BY <2>1, <2>2
<1>2. Altitude(ac) = here.alt /\ IsNumber(Altitude(ac)) /\ Altitude(ac) # 0
  BY <1>1 DEF Altitude, Or, IsNumber
<1>3. ~Falsy(ac.lat) /\ ~Falsy(ac.gs) /\ ~Falsy(ac.track)
  BY <1>1 DEF Falsy, IsPlane
<1>4. /\ DistanceTo(rx, ac) = Abs(here.lat - rx) + here.alt /\ DistanceTo(rx, ac) >= Near
      /\ DistanceTo(tx, ac) = Abs(here.lat - tx) + here.alt /\ DistanceTo(tx, ac) >= Near
  BY <1>2 DEF DistanceTo, StaysOff
<1>5. /\ Abs(here.lat - rx) - Abs(next.lat - rx) = Sign(rx - here.lat) * v
      /\ Abs(here.lat - tx) - Abs(next.lat - tx) = Sign(tx - here.lat) * v
  BY WayGrows
<1>6. /\ EchoOf(p, t).delay = Abs(here.lat - rx) + Abs(here.lat - tx) + 2 * here.alt - Abs(rx - tx)
      /\ EchoOf(p, t).doppler = (Abs(here.lat - rx) + Abs(here.lat - tx) + 2 * here.alt - Abs(rx - tx))
                                - (Abs(next.lat - rx) + Abs(next.lat - tx) + 2 * next.alt - Abs(rx - tx))
  BY DEF EchoOf, WayBy
<1>7. \A n \in Int : Abs(n) \in Int
  BY DEF Abs
<1>8. ComputeBistaticDelay(ac, rx, tx) = DistanceTo(rx, ac) + DistanceTo(tx, ac) - Abs(rx - tx)
  BY <1>2, <1>3 DEF ComputeBistaticDelay
<1>9. ComputeBistaticDoppler(ac, rx, tx) = Sign(rx - here.lat) * v + Sign(tx - here.lat) * v - 2 * p.climb
  <2>1. ac.geom_rate # None
    BY <1>1
  <2>2. ~(DistanceTo(rx, ac) < Near) /\ ~(DistanceTo(tx, ac) < Near)
    BY <1>1, <1>4, <1>7
  <2> QED
    BY <1>2, <1>3, <2>1, <2>2 DEF ComputeBistaticDoppler
<1> DEFINE a == Abs(here.lat - rx)
           b == Abs(here.lat - tx)
           c == Abs(next.lat - rx)
           d == Abs(next.lat - tx)
           e == Abs(rx - tx)
<1>10. a \in Int /\ b \in Int /\ c \in Int /\ d \in Int /\ e \in Int
  BY <1>1, <1>7
<1>11. ComputeBistaticDoppler(ac, rx, tx) = (a - c) + (b - d) - 2 * p.climb
  BY <1>5, <1>9
<1> HIDE DEF a, b, c, d, e, here, next, v
<1>12. (a + here.alt) + (b + here.alt) - e = a + b + 2 * here.alt - e
  BY <1>1, <1>10
<1>13. (a - c) + (b - d) - 2 * p.climb = (a + b + 2 * here.alt - e) - (c + d + 2 * next.alt - e)
  BY <1>1, <1>10
<1>14. (a + b + 2 * here.alt - e) \in Int /\ (a - c) + (b - d) - 2 * p.climb \in Int
  BY <1>1, <1>10
<1>15. EchoOf(p, t).delay = a + b + 2 * here.alt - e
  BY <1>6 DEF a, b, e
<1>16. EchoOf(p, t).doppler = (a + b + 2 * here.alt - e) - (c + d + 2 * next.alt - e)
  BY <1>6 DEF a, b, c, d, e
<1>17. ComputeBistaticDelay(ac, rx, tx) = (a + here.alt) + (b + here.alt) - e
  BY <1>4, <1>8 DEF a, b, e
<1> QED
  BY <1>11, <1>12, <1>13, <1>14, <1>15, <1>16, <1>17

--------------------------------------------------------------------------------
(* Which aircraft an echo belongs to                                       *)

\* The rate and the altitude of what is reported well are the aircraft's.
LEMMA WellSighted ==
  ASSUME NEW p, IsPlane(p), WellReported(p), NEW t \in Int
  PROVE  LET ac == Sighting(p, t)
         IN  /\ VerticalRate(ac) = p.climb
             /\ IF IsNumber(ac.alt_geom) THEN ac.alt_geom = PlaneAt(p, t).alt
                                         ELSE IsNumber(ac.alt_baro) /\ ac.alt_baro = PlaneAt(p, t).alt
<1> DEFINE ac == Sighting(p, t)
<1>1. /\ ac.alt_geom = (IF p.hasGeom THEN PlaneAt(p, t).alt ELSE None)
      /\ p.baro = "number" => ac.alt_baro = PlaneAt(p, t).alt
      /\ ac.geom_rate = (IF p.rate = "geom" THEN p.climb ELSE None)
      /\ ac.baro_rate = (IF p.rate = "baro" THEN p.climb ELSE None)
  BY SightingFields
<1>2. PlaneAt(p, t).alt \in Int /\ PlaneAt(p, t).alt \notin {None, Ground} /\ p.climb \in Int /\ p.climb # None
  BY PlaneTypes, AdsbTruthAssumption DEF IsPlane
<1>3. /\ p.hasGeom \/ p.baro = "number"
      /\ p.climb = 0 \/ p.rate # "none"
      /\ p.rate \in {"geom", "baro", "none"}
  BY DEF WellReported, IsPlane
<1> HIDE DEF ac
<1>4. VerticalRate(ac) = p.climb
  BY <1>1, <1>2, <1>3 DEF VerticalRate, Or
<1>5. IF IsNumber(ac.alt_geom) THEN ac.alt_geom = PlaneAt(p, t).alt
                               ELSE IsNumber(ac.alt_baro) /\ ac.alt_baro = PlaneAt(p, t).alt
  BY <1>1, <1>2, <1>3 DEF IsNumber
<1> QED
  BY <1>4, <1>5 DEF ac

\* What is projected is a record, with an altitude and a rate that are numbers.
LEMMA ProjectedFields ==
  ASSUME NEW p, IsPlane(p), NEW t \in Int, NEW target \in Int,
         NEW pos, pos = ExtrapolatePosition(Sighting(p, t), target, MatchMaxPositionAge), pos # None,
         NEW ac, ac = ProjectForMatch(Sighting(p, t), target)
  PROVE  /\ pos.lat \in Int /\ pos.alt \in Int
         /\ ac \in Records /\ ac # None /\ ac.hex = p.hex /\ ac.lat = pos.lat /\ ac.alt_geom = pos.alt
         /\ ac.gs = p.gs /\ ac.track = p.track /\ ac.geom_rate = VerticalRate(Sighting(p, t)) /\ ac.geom_rate \in Int
<1> DEFINE at == Sighting(p, t)
<1> USE AdsbTruthAssumption
<1>1. /\ at \in Records /\ at.timestamp = t /\ at.hex = p.hex /\ at.lat \in Int /\ at.gs = p.gs /\ at.track = p.track
      /\ at.alt_geom \in Int \union {None} /\ at.alt_baro \in Int \union {None, Ground}
      /\ at.geom_rate \in Int \union {None} /\ at.baro_rate \in Int \union {None}
  <2>1. /\ PlaneAt(p, t).lat \in Int /\ PlaneAt(p, t).alt \in Int /\ p.climb \in Int
    BY PlaneTypes DEF IsPlane
  <2> QED
    BY <2>1, SightingFields
<1>2. North(at.gs, at.track) \in Int
  BY <1>1, PlaneTypes
<1> HIDE DEF at
<1>3. VerticalRate(at) \in Int
  BY <1>1 DEF VerticalRate, Or
<1> DEFINE base == IF IsNumber(at.alt_geom) THEN at.alt_geom ELSE IF IsNumber(at.alt_baro) THEN at.alt_baro ELSE 0
<1>4. base \in Int
  BY <1>1 DEF IsNumber
<1>5. pos = [lat |-> at.lat + North(at.gs, at.track) * (target - at.timestamp),
             alt |-> base + VerticalRate(at) * (target - at.timestamp)]
  BY DEF ExtrapolatePosition, at
<1> HIDE DEF base
<1>6. pos.lat \in Int /\ pos.alt \in Int
  BY <1>1, <1>2, <1>3, <1>4, <1>5
<1>7. ac = [at EXCEPT !.lat = pos.lat, !.alt_geom = pos.alt, !.geom_rate = VerticalRate(at)]
  BY DEF ProjectForMatch, at
<1> DEFINE Value == Int \union STRING \union {None, Ground}
<1>8. at \in [Fields \union {"timestamp"} -> Value] /\ {"lat", "alt_geom", "geom_rate"} \subseteq Fields
  BY <1>1 DEF Records, Fields
<1>9. pos.lat \in Value /\ pos.alt \in Value /\ VerticalRate(at) \in Value
  BY <1>3, <1>6
<1>10. ac \in [Fields \union {"timestamp"} -> Value]
  <2> HIDE DEF Value
  <2> QED
    BY <1>7, <1>8, <1>9
<1>11. ac \in Records /\ ac # None
  BY <1>10 DEF Records
<1>12. /\ ac.lat = pos.lat /\ ac.alt_geom = pos.alt /\ ac.geom_rate = VerticalRate(at)
       /\ ac.hex = at.hex /\ ac.gs = at.gs /\ ac.track = at.track
  BY <1>7, <1>8 DEF Fields
<1> QED
  BY <1>1, <1>3, <1>6, <1>11, <1>12 DEF at

\* Of a projected aircraft delay and Doppler are numbers, or not known.
LEMMA ComputedTypes ==
  ASSUME NEW ac, ac.lat \in Int, ac.alt_geom \in Int, ac.gs \in Int, ac.track \in Int \union {None}, ac.geom_rate \in Int,
         NEW rx \in Int, NEW tx \in Int
  PROVE  /\ ComputeBistaticDelay(ac, rx, tx) \in Int \union {None}
         /\ ComputeBistaticDoppler(ac, rx, tx) \in Int \union {None}
<1> USE AdsbTruthAssumption
<1>1. \A n \in Int : Abs(n) \in Int /\ Sign(n) \in {-1, 0, 1}
  BY DEF Abs, Sign
<1>2. Altitude(ac) \in Int
  BY DEF Altitude, Or
<1>3. DistanceTo(rx, ac) \in Int /\ DistanceTo(tx, ac) \in Int /\ Abs(rx - tx) \in Int
  BY <1>1, <1>2 DEF DistanceTo
<1>4. North(ac.gs, ac.track) \in Int
  BY DEF North
<1> DEFINE v == North(ac.gs, ac.track)
           toward(site) == Sign(site - ac.lat) * v
<1>5. ASSUME NEW site \in Int PROVE toward(site) \in Int
  <2>1. Sign(site - ac.lat) \in {-1, 0, 1}
    BY <1>1
  <2> HIDE DEF v
  <2> QED
    BY <1>4, <2>1 DEF v
<1>6. /\ (IF ac.geom_rate = None THEN 0 ELSE ac.geom_rate) \in Int
      /\ toward(rx) \in Int /\ toward(tx) \in Int
  BY <1>5
<1> HIDE DEF toward
<1>7. toward(rx) + toward(tx) - 2 * (IF ac.geom_rate = None THEN 0 ELSE ac.geom_rate) \in Int
  BY <1>6
<1>8. ComputeBistaticDoppler(ac, rx, tx) \in {None, toward(rx) + toward(tx) - 2 * (IF ac.geom_rate = None THEN 0 ELSE ac.geom_rate)}
  BY DEF ComputeBistaticDoppler, toward, v
<1>9. ComputeBistaticDelay(ac, rx, tx) \in Int \union {None}
  BY <1>3 DEF ComputeBistaticDelay
<1> QED
  BY <1>7, <1>8, <1>9

\* Both aircraft were seen at t.
BothSeen(aircraft, t) ==
  /\ DOMAIN aircraft = 1 .. 2
  /\ aircraft[1] = Sighting(plane, t) /\ aircraft[2] = Sighting(Other, t)

\* The sites are known, and at the time the reflecting aircraft is well away
\* from them.
InSight(target) ==
  /\ config.rx \in Int /\ config.tx \in Int
  /\ IsPlane(plane) /\ plane.hex # Other.hex
  /\ WellReported(plane) =>
       /\ PlaneAt(plane, target).lat # 0 /\ PlaneAt(plane, target).alt > 0
       /\ StaysOff(plane, target, config.rx) /\ StaysOff(plane, target, config.tx)

\* The reflecting aircraft keeps the first place if it can be projected, and
\* is then where its echo came from; the other one keeps the second, if any.
LEMMA AircraftProjected ==
  ASSUME NEW target \in Int, InSight(target), WellReported(plane), NEW t \in Int, NEW aircraft, BothSeen(aircraft, t)
  PROVE  LET at == AircraftAtTimestamp(aircraft, target)
         IN  /\ DOMAIN at \subseteq {1, 2}
             /\ 1 \in DOMAIN at <=> Abs(target - t) <= MatchMaxPositionAge
             /\ 1 \in DOMAIN at =>
                  /\ 1 \in Candidates(at, config.rx, config.tx) /\ at[1].hex = plane.hex
                  /\ ComputeBistaticDelay(at[1], config.rx, config.tx) = EchoOf(plane, target).delay
                  /\ ComputeBistaticDoppler(at[1], config.rx, config.tx) = EchoOf(plane, target).doppler
             /\ 2 \in DOMAIN at =>
                  /\ at[2].hex = Other.hex
                  /\ ComputeBistaticDelay(at[2], config.rx, config.tx) \in Int \union {None}
                  /\ ComputeBistaticDoppler(at[2], config.rx, config.tx) \in Int \union {None}
             /\ EchoOf(plane, target).delay \in Int /\ EchoOf(plane, target).doppler \in Int
<1> DEFINE at == AircraftAtTimestamp(aircraft, target)
           project(i) == ProjectForMatch(aircraft[i], target)
           first == ExtrapolatePosition(Sighting(plane, t), target, MatchMaxPositionAge)
           second == ExtrapolatePosition(Sighting(Other, t), target, MatchMaxPositionAge)
           there == [lat |-> PlaneAt(plane, target).lat, alt |-> PlaneAt(plane, target).alt]
<1> USE AdsbTruthAssumption
<1>1. at = [i \in {j \in DOMAIN aircraft : project(j) # None} |-> project(i)]
  BY DEF AircraftAtTimestamp
<1>2. DOMAIN aircraft = {1, 2}
  BY DEF BothSeen
<1> HIDE DEF at
<1>3. IsPlane(plane) /\ IsPlane(Other) /\ plane.gs # 0 /\ plane.track \notin {None, 0}
  BY FlightAssumption DEF InSight, WellReported
<1>4. PlaneAt(plane, target).lat \in Int /\ PlaneAt(plane, target).alt \in Int /\ there # None
  <2>1. PlaneAt(plane, target).lat \in Int /\ PlaneAt(plane, target).alt \in Int
    BY <1>3, PlaneTypes
  <2>2. there \in Positions
    BY <2>1 DEF Positions
  <2> QED
    BY <2>1, <2>2
<1>5. first = IF Abs(target - t) > MatchMaxPositionAge THEN None ELSE there
  <2> DEFINE seen == Sighting(plane, t)
  <2>1. seen.timestamp = t /\ seen.lat = PlaneAt(plane, t).lat /\ seen.gs = plane.gs /\ seen.track = plane.track
    BY <1>3, SightingFields
  <2>2. /\ VerticalRate(seen) = plane.climb
        /\ IF IsNumber(seen.alt_geom) THEN seen.alt_geom = PlaneAt(plane, t).alt
                                      ELSE IsNumber(seen.alt_baro) /\ seen.alt_baro = PlaneAt(plane, t).alt
    BY <1>3, WellSighted
  <2> HIDE DEF seen
  <2>3. ExtrapolatePosition(seen, target, MatchMaxPositionAge)
          = IF Abs(target - t) > MatchMaxPositionAge THEN None ELSE there
    BY <1>3, <2>1, <2>2, ProjectedPlane
  <2> QED
    BY <2>3 DEF seen
<1>6. project(1) = IF first = None THEN None ELSE [Sighting(plane, t) EXCEPT !.lat = first.lat, !.alt_geom = first.alt, !.geom_rate = VerticalRate(Sighting(plane, t))]
  BY DEF BothSeen, ProjectForMatch
<1>7. project(2) = IF second = None THEN None ELSE [Sighting(Other, t) EXCEPT !.lat = second.lat, !.alt_geom = second.alt, !.geom_rate = VerticalRate(Sighting(Other, t))]
  BY DEF BothSeen, ProjectForMatch
<1>8. first # None => /\ project(1) # None /\ project(1).hex = plane.hex /\ project(1).lat = there.lat
                      /\ project(1).alt_geom = there.alt /\ project(1).gs = plane.gs /\ project(1).track = plane.track
                      /\ project(1).geom_rate = plane.climb
  <2>1. project(1) = ProjectForMatch(Sighting(plane, t), target)
    BY DEF BothSeen
  <2>2. VerticalRate(Sighting(plane, t)) = plane.climb
    BY <1>3, WellSighted
  <2>3. first # None => first.lat = there.lat /\ first.alt = there.alt
    BY <1>5
  <2> HIDE DEF project, first, there
  <2> QED
    BY <1>3, <2>1, <2>2, <2>3, ProjectedFields DEF first
<1>9. project(2) # None => /\ project(2).hex = Other.hex /\ project(2).lat \in Int
                           /\ project(2).alt_geom \in Int /\ project(2).gs \in Int /\ project(2).track \in Int \union {None}
                           /\ project(2).geom_rate \in Int
  <2>1. project(2) = ProjectForMatch(Sighting(Other, t), target)
    BY DEF BothSeen
  <2>2. Other.gs \in Int /\ Other.track \in Int \union {None}
    BY <1>3 DEF IsPlane
  <2>3. project(2) # None => second # None
    BY <1>7
  <2> HIDE DEF project, second
  <2> QED
    BY <1>3, <2>1, <2>2, <2>3, ProjectedFields DEF second
<1>10. 1 \in DOMAIN at <=> Abs(target - t) <= MatchMaxPositionAge
  <2>1. Abs(target - t) \in Int
    BY DEF Abs
  <2>2. first # None <=> Abs(target - t) <= MatchMaxPositionAge
    BY <1>4, <1>5, <2>1
  <2>3. project(1) # None <=> first # None
    BY <1>6, <1>8
  <2> HIDE DEF project, first
  <2> QED
    BY <1>1, <1>2, <2>2, <2>3
<1>11. ASSUME NEW i \in DOMAIN at PROVE at[i] = project(i) /\ project(i) # None /\ i \in {1, 2}
  BY <1>1, <1>2
<1> DEFINE rx == config.rx
           tx == config.tx
<1>12. rx \in Int /\ tx \in Int
  BY DEF InSight
<1>13. ASSUME NEW ac, ac.lat = there.lat, ac.alt_geom = there.alt, ac.gs = plane.gs, ac.track = plane.track,
              ac.geom_rate = plane.climb
       PROVE  /\ ComputeBistaticDelay(ac, rx, tx) = EchoOf(plane, target).delay
              /\ ComputeBistaticDoppler(ac, rx, tx) = EchoOf(plane, target).doppler
              /\ EchoOf(plane, target).delay \in Int /\ EchoOf(plane, target).doppler \in Int
              /\ ~Falsy(ac.lat) /\ ~Falsy(ac.alt_geom)
  <2>1. /\ ac.lat # 0 /\ ac.alt_geom > 0 /\ ac.lat \in Int /\ ac.alt_geom \in Int
        /\ StaysOff(plane, target, config.rx) /\ StaysOff(plane, target, config.tx)
    BY <1>4, <1>13 DEF InSight
  <2>2. ~Falsy(ac.lat) /\ ~Falsy(ac.alt_geom)
    BY <2>1 DEF Falsy
  <2> QED
    BY <1>3, <1>12, <1>13, <2>1, <2>2, ComputedEcho
<1>14. EchoOf(plane, target).delay \in Int /\ EchoOf(plane, target).doppler \in Int
  <2> DEFINE ac == [lat |-> there.lat, alt_geom |-> there.alt, gs |-> plane.gs, track |-> plane.track, geom_rate |-> plane.climb]
  <2>1. /\ ac.lat = there.lat /\ ac.alt_geom = there.alt /\ ac.gs = plane.gs /\ ac.track = plane.track
        /\ ac.geom_rate = plane.climb
    OBVIOUS
  <2> HIDE DEF ac
  <2> QED
    BY <1>13, <2>1
<1>15. ASSUME 1 \in DOMAIN at
       PROVE  /\ 1 \in Candidates(at, rx, tx) /\ at[1].hex = plane.hex
              /\ ComputeBistaticDelay(at[1], rx, tx) = EchoOf(plane, target).delay
              /\ ComputeBistaticDoppler(at[1], rx, tx) = EchoOf(plane, target).doppler
  <2>1. at[1] = project(1) /\ first # None
    BY <1>6, <1>11, <1>15
  <2> HIDE DEF project, first, there
  <2>2. /\ at[1].hex = plane.hex /\ ~Falsy(at[1].lat) /\ ~Falsy(at[1].alt_geom)
        /\ ComputeBistaticDelay(at[1], rx, tx) = EchoOf(plane, target).delay
        /\ ComputeBistaticDoppler(at[1], rx, tx) = EchoOf(plane, target).doppler
    BY <1>8, <1>13, <2>1
  <2>3. EchoOf(plane, target).delay # None /\ EchoOf(plane, target).doppler # None
    BY <1>14
  <2> QED
    BY <1>15, <2>2, <2>3 DEF Candidates
<1>16. ASSUME 2 \in DOMAIN at
       PROVE  /\ at[2].hex = Other.hex
              /\ ComputeBistaticDelay(at[2], rx, tx) \in Int \union {None}
              /\ ComputeBistaticDoppler(at[2], rx, tx) \in Int \union {None}
  <2>1. at[2] = project(2) /\ project(2) # None
    BY <1>11, <1>16
  <2> HIDE DEF project
  <2> QED
    BY <1>9, <1>12, <2>1, ComputedTypes
<1> QED
  BY <1>10, <1>11, <1>14, <1>15, <1>16 DEF at

\* An echo of the aircraft is named after it while its position is not too
\* old, one from elsewhere never is.
LEMMA EchoIsNamed ==
  ASSUME NEW target \in Int, InSight(target), WellReported(plane), NEW t \in Int, NEW aircraft, BothSeen(aircraft, t),
         NEW off \in {0, Offset}, NEW echo,
         echo.delay = EchoOf(plane, target).delay + off, echo.doppler = EchoOf(plane, target).doppler
  PROVE  MatchDetection(echo, AircraftAtTimestamp(aircraft, target), config.rx, config.tx) = plane.hex
           <=> off = 0 /\ Abs(target - t) <= MatchMaxPositionAge
<1> DEFINE at            == AircraftAtTimestamp(aircraft, target)
           rx            == config.rx
           tx            == config.tx
           delayErr(i)   == Abs(echo.delay - ComputeBistaticDelay(at[i], rx, tx))
           dopplerErr(i) == Abs(echo.doppler - ComputeBistaticDoppler(at[i], rx, tx))
           within        == {i \in Candidates(at, rx, tx) : delayErr(i) < DelayTol /\ dopplerErr(i) < DopplerTol}
           score(i)      == delayErr(i) * DopplerTol + dopplerErr(i) * DelayTol
           best          == {i \in within : \A j \in within : score(i) < score(j) \/ (score(i) = score(j) /\ i <= j)}
           match         == MatchDetection(echo, at, rx, tx)
<1>1. match = IF within = {} THEN None ELSE at[CHOOSE i \in best : TRUE].hex
  BY DEF MatchDetection
<1> HIDE DEF match, at
<1>2. /\ DOMAIN at \subseteq {1, 2}
      /\ 1 \in DOMAIN at <=> Abs(target - t) <= MatchMaxPositionAge
      /\ 1 \in DOMAIN at =>
           /\ 1 \in Candidates(at, rx, tx) /\ at[1].hex = plane.hex
           /\ ComputeBistaticDelay(at[1], rx, tx) = EchoOf(plane, target).delay
           /\ ComputeBistaticDoppler(at[1], rx, tx) = EchoOf(plane, target).doppler
      /\ 2 \in DOMAIN at =>
           /\ at[2].hex = Other.hex
           /\ ComputeBistaticDelay(at[2], rx, tx) \in Int \union {None}
           /\ ComputeBistaticDoppler(at[2], rx, tx) \in Int \union {None}
      /\ EchoOf(plane, target).delay \in Int /\ EchoOf(plane, target).doppler \in Int
  BY AircraftProjected DEF at
<1>3. Candidates(at, rx, tx) \subseteq DOMAIN at
  BY DEF Candidates
<1>4. \A n \in Int : Abs(n) \in Nat
  BY DEF Abs
<1>5. /\ DelayTol \in Nat /\ DopplerTol \in Nat /\ DelayTol > 0 /\ DopplerTol > 0
      /\ Offset \in Nat /\ Offset >= DelayTol /\ None \notin Int
  BY AdsbTruthAssumption, AdsbAssumption, FlightAssumption
<1>6. 1 \in DOMAIN at => delayErr(1) = off /\ dopplerErr(1) = 0
  BY <1>2, <1>5 DEF Abs
<1>7. 2 \in within => delayErr(2) \in Nat /\ dopplerErr(2) \in Nat /\ score(2) \in Nat
  <2> SUFFICES ASSUME 2 \in within PROVE delayErr(2) \in Nat /\ dopplerErr(2) \in Nat /\ score(2) \in Nat
    OBVIOUS
  <2>1. 2 \in DOMAIN at
    BY <1>3
  <2>2. ComputeBistaticDelay(at[2], rx, tx) # None /\ ComputeBistaticDoppler(at[2], rx, tx) # None
    BY DEF Candidates
  <2>3. delayErr(2) \in Nat /\ dopplerErr(2) \in Nat
    BY <1>2, <1>4, <1>5, <2>1, <2>2
  <2> HIDE DEF delayErr, dopplerErr
  <2> QED
    BY <1>5, <2>3
<1>8. plane.hex # Other.hex /\ plane.hex # None
  BY AdsbTruthAssumption DEF InSight, IsPlane
<1>9. CASE off = 0 /\ Abs(target - t) <= MatchMaxPositionAge
  <2>1. 1 \in within /\ delayErr(1) = 0 /\ dopplerErr(1) = 0
    BY <1>2, <1>5, <1>6, <1>9
  <2>2. within \subseteq {1, 2}
    BY <1>2, <1>3
  <2> HIDE DEF delayErr, dopplerErr, within
  <2>3. score(1) = 0
    BY <1>5, <2>1
  <2> HIDE DEF score
  <2>4. best = {1}
    <3>1. 1 \in best
      <4>1. \A j \in within : score(1) < score(j) \/ (score(1) = score(j) /\ 1 <= j)
        BY <1>7, <2>2, <2>3
      <4> QED
        BY <2>1, <4>1
    <3>2. ASSUME 2 \in best PROVE FALSE
      <4>1. 2 \in within /\ score(2) \in Nat
        BY <1>7, <3>2
      <4>2. score(2) < score(1) \/ (score(2) = score(1) /\ 2 <= 1)
        BY <2>1, <3>2
      <4> QED
        BY <2>3, <4>1, <4>2
    <3> HIDE DEF best
    <3>3. best \subseteq within
      BY DEF best
    <3> QED
      BY <2>2, <3>1, <3>2, <3>3
  <2>5. (CHOOSE i \in best : TRUE) = 1
    BY <2>4
  <2>6. match = at[1].hex /\ 1 \in DOMAIN at
    BY <1>1, <1>2, <1>9, <2>1, <2>5
  <2> QED
    BY <1>2, <1>9, <2>6 DEF match, at
<1>10. CASE ~(off = 0 /\ Abs(target - t) <= MatchMaxPositionAge)
  <2>1. 1 \notin within
    <3> SUFFICES ASSUME 1 \in within PROVE FALSE
      OBVIOUS
    <3>1. 1 \in DOMAIN at /\ delayErr(1) < DelayTol
      BY <1>3
    <3> QED
      BY <1>2, <1>5, <1>6, <1>10, <3>1
  <2>2. within \subseteq {2}
    BY <1>2, <1>3, <2>1
  <2> HIDE DEF within, score
  <2>3. within = {} \/ best = {2}
    <3> SUFFICES ASSUME 2 \in within PROVE best = {2}
      BY <2>2
    <3>1. \A j \in within : score(2) < score(j) \/ (score(2) = score(j) /\ 2 <= j)
      BY <2>2
    <3>2. 2 \in best
      BY <3>1
    <3> HIDE DEF best
    <3>3. best \subseteq within
      BY DEF best
    <3> QED
      BY <2>2, <3>2, <3>3
  <2>4. match # plane.hex
    <3>1. CASE within = {}
      BY <1>1, <1>8, <3>1
    <3>2. CASE within # {}
      <4>1. (CHOOSE i \in best : TRUE) = 2 /\ 2 \in within
        BY <2>2, <2>3, <3>2
      <4>2. 2 \in DOMAIN at
        BY <1>3, <4>1 DEF within
      <4> QED
        BY <1>1, <1>2, <1>8, <3>2, <4>1, <4>2
    <3> QED
      BY <3>1, <3>2
  <2> QED
    BY <1>10, <2>4 DEF match, at
<1> QED
  BY <1>9, <1>10

\* An aircraft on the map, if its vertical rate is one that gets there, is
\* where its echo comes from.
LEMMA ShownInSight ==
  ASSUME NEW target \in Int, InSight(target), WellReported(plane), NEW t \in Int, NEW aircraft, BothSeen(aircraft, t),
         plane.climb = 0 \/ plane.rate = "geom",
         NEW shown \in ShowAircraft(aircraft, target, config.rx, config.tx), shown.hex = plane.hex
  PROVE  shown.delay = EchoOf(plane, target).delay /\ shown.doppler = EchoOf(plane, target).doppler
<1> DEFINE rx == config.rx
           tx == config.tx
           ac(i) == [aircraft[i] EXCEPT !.baro_rate = None]
           pos(i) == ExtrapolatePosition(ac(i), target, MaxExtrapolation)
           here(i) == [ac(i) EXCEPT !.lat = pos(i).lat, !.alt_geom = pos(i).alt, !.gs = OrZero(@), !.track = OrZero(@),
                                    !.geom_rate = VerticalRate(ac(i))]
<1> USE AdsbTruthAssumption
<1>1. IsPlane(plane) /\ IsPlane(Other) /\ plane.gs # 0 /\ plane.track \notin {None, 0} /\ plane.hex # Other.hex
  BY FlightAssumption DEF InSight, WellReported
<1>2. PICK i \in DOMAIN aircraft :
        /\ shown = ExtrapolateAdsbData(ac(i), target, rx, tx)
        /\ shown # None
  BY DEF ShowAircraft
<1>3. /\ pos(i) # None
      /\ shown = [hex |-> ac(i).hex, delay |-> OrZero(ComputeBistaticDelay(here(i), rx, tx)),
                  doppler |-> OrZero(ComputeBistaticDoppler(here(i), rx, tx))]
  BY <1>2 DEF ExtrapolateAdsbData
<1>4. i \in {1, 2} /\ aircraft[1] = Sighting(plane, t) /\ aircraft[2] = Sighting(Other, t)
  BY DEF BothSeen
<1> DEFINE seen == Sighting(plane, t)
<1>5. i = 1
  <2>1. ASSUME i = 2 PROVE FALSE
    <3>1. ac(i).hex = Sighting(Other, t).hex
      <4>1. Sighting(Other, t) \in Records
        BY <1>1, SightingFields
      <4>2. ac(i) = [Sighting(Other, t) EXCEPT !.baro_rate = None]
        BY <1>4, <2>1
      <4> QED
        BY <4>1, <4>2 DEF Records, Fields
    <3>2. Sighting(Other, t).hex = Other.hex
      BY <1>1, SightingFields
    <3>3. shown.hex = ac(i).hex
      BY <1>3
    <3> QED
      BY <1>1, <3>1, <3>2, <3>3
  <2> QED
    BY <1>4, <2>1
<1>6. /\ seen \in Records
      /\ seen.timestamp = t /\ seen.hex = plane.hex /\ seen.lat = PlaneAt(plane, t).lat /\ seen.gs = plane.gs
      /\ seen.track = plane.track
      /\ seen.alt_geom = (IF plane.hasGeom THEN PlaneAt(plane, t).alt ELSE None)
      /\ plane.baro = "number" => seen.alt_baro = PlaneAt(plane, t).alt
      /\ seen.geom_rate = (IF plane.rate = "geom" THEN plane.climb ELSE None)
  BY <1>1, SightingFields
<1>7. IF IsNumber(seen.alt_geom) THEN seen.alt_geom = PlaneAt(plane, t).alt
                                 ELSE IsNumber(seen.alt_baro) /\ seen.alt_baro = PlaneAt(plane, t).alt
  BY <1>1, WellSighted
<1> DEFINE a == ac(1)
<1>8. a = [seen EXCEPT !.baro_rate = None]
  BY <1>4
<1> HIDE DEF seen, ac
<1>9. /\ a \in Records
      /\ a.timestamp = t /\ a.lat = PlaneAt(plane, t).lat /\ a.gs = plane.gs /\ a.track = plane.track
      /\ a.geom_rate = seen.geom_rate /\ a.alt_geom = seen.alt_geom /\ a.alt_baro = seen.alt_baro /\ a.baro_rate = None
  BY <1>6, <1>8 DEF Records, Fields
<1> HIDE DEF a
<1>10. VerticalRate(a) = plane.climb
  <2>1. plane.climb \in Int /\ plane.climb # None
    BY <1>1 DEF IsPlane
  <2> QED
    BY <1>6, <1>9, <2>1 DEF VerticalRate, Or
<1>11. ExtrapolatePosition(a, target, MaxExtrapolation)
         = IF Abs(target - t) > MaxExtrapolation THEN None
           ELSE [lat |-> PlaneAt(plane, target).lat, alt |-> PlaneAt(plane, target).alt]
  <2>1. IF IsNumber(a.alt_geom) THEN a.alt_geom = PlaneAt(plane, t).alt
                                ELSE IsNumber(a.alt_baro) /\ a.alt_baro = PlaneAt(plane, t).alt
    BY <1>7, <1>9
  <2> QED
    BY <1>1, <1>9, <1>10, <2>1, ProjectedPlane
<1> DEFINE h == here(1)
           where == pos(1)
<1>12. where.lat = PlaneAt(plane, target).lat /\ where.alt = PlaneAt(plane, target).alt
  BY <1>3, <1>5, <1>11 DEF a
<1>13. h = [a EXCEPT !.lat = where.lat, !.alt_geom = where.alt, !.gs = OrZero(@), !.track = OrZero(@),
                     !.geom_rate = VerticalRate(a)]
  BY DEF a
<1> HIDE DEF where, pos
<1>14. /\ h.lat = PlaneAt(plane, target).lat /\ h.alt_geom = PlaneAt(plane, target).alt
       /\ h.gs = OrZero(plane.gs) /\ h.track = OrZero(plane.track) /\ h.geom_rate = plane.climb
  <2> HIDE DEF h
  <2> QED
    BY <1>9, <1>10, <1>12, <1>13 DEF Records, Fields
<1> HIDE DEF h
<1>15. OrZero(plane.gs) = plane.gs /\ OrZero(plane.track) = plane.track
  BY <1>1 DEF OrZero, IsPlane
<1>16. /\ h.lat # 0 /\ h.alt_geom > 0 /\ config.rx \in Int /\ config.tx \in Int
       /\ StaysOff(plane, target, config.rx) /\ StaysOff(plane, target, config.tx)
  BY <1>14 DEF InSight
<1>17. /\ ComputeBistaticDelay(h, rx, tx) = EchoOf(plane, target).delay
       /\ ComputeBistaticDoppler(h, rx, tx) = EchoOf(plane, target).doppler
       /\ EchoOf(plane, target).delay \in Int /\ EchoOf(plane, target).doppler \in Int
  BY <1>1, <1>14, <1>15, <1>16, ComputedEcho
<1>18. /\ shown.delay = OrZero(ComputeBistaticDelay(h, rx, tx))
       /\ shown.doppler = OrZero(ComputeBistaticDoppler(h, rx, tx))
  BY <1>3, <1>5 DEF h
<1> QED
  BY <1>17, <1>18 DEF OrZero

\* It is on the map exactly while its position is young enough.
LEMMA ShownWhileYoung ==
  ASSUME NEW target \in Int, InSight(target), WellReported(plane), NEW t \in Int, NEW aircraft, BothSeen(aircraft, t)
  PROVE  {shown \in ShowAircraft(aircraft, target, config.rx, config.tx) : shown.hex = plane.hex} # {}
           <=> Abs(target - t) <= MaxExtrapolation
<1> DEFINE rx == config.rx
           tx == config.tx
           ac(i) == [aircraft[i] EXCEPT !.baro_rate = None]
           pos(i) == ExtrapolatePosition(ac(i), target, MaxExtrapolation)
           here(i) == [ac(i) EXCEPT !.lat = pos(i).lat, !.alt_geom = pos(i).alt, !.gs = OrZero(@), !.track = OrZero(@),
                                    !.geom_rate = VerticalRate(ac(i))]
           show(i) == ExtrapolateAdsbData(ac(i), target, rx, tx)
<1> USE AdsbTruthAssumption
<1>1. /\ IsPlane(plane) /\ IsPlane(Other) /\ plane.gs # 0 /\ plane.track # None /\ plane.hex # Other.hex
      /\ rx \in Int /\ tx \in Int /\ plane.gs \in Int /\ plane.track \in Int \union {None} /\ plane.hex \in STRING
  BY FlightAssumption DEF InSight, WellReported, IsPlane
<1>2. DOMAIN aircraft = {1, 2} /\ aircraft[1] = Sighting(plane, t) /\ aircraft[2] = Sighting(Other, t)
  BY DEF BothSeen
<1>3. ASSUME NEW p, IsPlane(p), NEW i \in {1, 2}, aircraft[i] = Sighting(p, t)
      PROVE  /\ ac(i) \in Records /\ ac(i).hex = p.hex /\ ac(i).timestamp = t /\ ac(i).lat \in Int
             /\ ac(i).gs = p.gs /\ ac(i).track = p.track /\ ac(i).baro_rate = None
             /\ ac(i).alt_geom \in Int \union {None} /\ ac(i).alt_baro \in Int \union {None, Ground}
             /\ ac(i).geom_rate \in Int \union {None}
  <2> DEFINE seen == Sighting(p, t)
  <2>1. PlaneAt(p, t).lat \in Int /\ PlaneAt(p, t).alt \in Int /\ p.climb \in Int
    BY <1>3, PlaneTypes DEF IsPlane
  <2>2. /\ seen \in Records /\ seen.timestamp = t /\ seen.hex = p.hex /\ seen.lat \in Int /\ seen.gs = p.gs
        /\ seen.track = p.track /\ seen.alt_geom \in Int \union {None} /\ seen.alt_baro \in Int \union {None, Ground}
        /\ seen.geom_rate \in Int \union {None}
    BY <1>3, <2>1, SightingFields
  <2>3. ac(i) = [seen EXCEPT !.baro_rate = None]
    BY <1>3
  <2> HIDE DEF seen, ac
  <2> QED
    BY <2>2, <2>3 DEF Records, Fields
<1> DEFINE a == ac(1)
<1>4. /\ a \in Records /\ a.hex = plane.hex /\ a.timestamp = t /\ a.lat \in Int /\ a.gs = plane.gs /\ a.track = plane.track
      /\ a.alt_geom \in Int \union {None} /\ a.alt_baro \in Int \union {None, Ground}
      /\ a.geom_rate \in Int \union {None} /\ a.baro_rate = None
  BY <1>1, <1>2, <1>3
<1>5. ac(2).hex = Other.hex
  BY <1>1, <1>2, <1>3
<1> HIDE DEF ac
<1>6. ASSUME NEW i \in {1, 2}, show(i) # None PROVE show(i).hex = ac(i).hex /\ pos(i) # None
  BY <1>6 DEF ExtrapolateAdsbData
<1>7. ShowAircraft(aircraft, target, rx, tx) = {show(i) : i \in {1, 2}} \ {None}
  BY <1>2 DEF ShowAircraft, ac
<1> DEFINE v == North(a.gs, a.track)
           base == IF IsNumber(a.alt_geom) THEN a.alt_geom ELSE IF IsNumber(a.alt_baro) THEN a.alt_baro ELSE 0
<1> HIDE DEF a
<1>8. v \in Int /\ base \in Int /\ VerticalRate(a) \in Int /\ ~Falsy(a.gs) /\ a.track # None
  BY <1>1, <1>4, PlaneTypes DEF IsNumber, VerticalRate, Or, Falsy
<1>9. ExtrapolatePosition(a, target, MaxExtrapolation)
        = IF Abs(target - t) > MaxExtrapolation THEN None
          ELSE [lat |-> a.lat + v * (target - t), alt |-> base + VerticalRate(a) * (target - t)]
  BY <1>4, <1>8 DEF ExtrapolatePosition
<1> HIDE DEF v, base
<1> DEFINE there == [lat |-> a.lat + v * (target - t), alt |-> base + VerticalRate(a) * (target - t)]
<1>10. there \in Positions /\ there.lat \in Int /\ there.alt \in Int
  <2>1. there.lat \in Int /\ there.alt \in Int
    BY <1>4, <1>8
  <2> QED
    BY <2>1 DEF Positions
<1>11. pos(1) # None <=> Abs(target - t) <= MaxExtrapolation
  <2>1. Abs(target - t) \in Int
    BY DEF Abs
  <2> HIDE DEF there
  <2>2. pos(1) = IF Abs(target - t) > MaxExtrapolation THEN None ELSE there
    BY <1>9 DEF there, a
  <2> QED
    BY <1>10, <2>1, <2>2
<1>12. ASSUME pos(1) # None PROVE show(1) # None
  <2> DEFINE h == here(1)
             where == pos(1)
  <2>1. where = there
    BY <1>9, <1>12 DEF a
  <2> HIDE DEF there
  <2>2. h = [a EXCEPT !.lat = where.lat, !.alt_geom = where.alt, !.gs = OrZero(@), !.track = OrZero(@),
                      !.geom_rate = VerticalRate(a)]
    BY DEF a
  <2> HIDE DEF where, h, pos
  <2>3. OrZero(a.gs) \in Int /\ OrZero(a.track) \in Int
    BY <1>1, <1>4 DEF OrZero
  <2>4. /\ h.lat \in Int /\ h.alt_geom \in Int /\ h.gs \in Int /\ h.track \in Int \union {None} /\ h.geom_rate \in Int
    BY <1>4, <1>8, <1>10, <2>1, <2>2, <2>3 DEF Records, Fields
  <2>5. /\ OrZero(ComputeBistaticDelay(h, rx, tx)) \in Int /\ OrZero(ComputeBistaticDoppler(h, rx, tx)) \in Int
    BY <1>1, <2>4, ComputedTypes DEF OrZero
  <2>6. show(1) = [hex |-> ac(1).hex, delay |-> OrZero(ComputeBistaticDelay(h, rx, tx)),
                   doppler |-> OrZero(ComputeBistaticDoppler(h, rx, tx))]
    BY <1>12 DEF ExtrapolateAdsbData, pos, h
  <2>7. show(1) \in Shown
    BY <1>1, <1>4, <2>5, <2>6 DEF Shown, a
  <2> QED
    BY <2>7
<1>13. show(1) # None <=> pos(1) # None
  BY <1>6, <1>12
<1> DEFINE mine == {shown \in ShowAircraft(aircraft, target, rx, tx) : shown.hex = plane.hex}
<1>14. ASSUME show(1) # None PROVE mine # {}
  <2>1. show(1).hex = plane.hex
    BY <1>4, <1>6, <1>14 DEF a
  <2> HIDE DEF show
  <2> QED
    BY <1>7, <1>14, <2>1
<1>15. ASSUME NEW shown \in mine PROVE show(1) # None
  <2>1. PICK i \in {1, 2} : shown = show(i) /\ show(i) # None
    BY <1>7
  <2>2. show(i).hex = ac(i).hex
    BY <1>6, <2>1
  <2>3. i = 1
    BY <1>1, <1>5, <2>1, <2>2
  <2> QED
    BY <2>1, <2>3
<1> QED
  BY <1>11, <1>13, <1>14, <1>15

--------------------------------------------------------------------------------
(* What the calls carry                                                    *)

\* Nothing, or both aircraft at some time.
Sighted(aircraft) == aircraft = <<>> \/ \E t \in Int : BothSeen(aircraft, t)

\* An answer tells when it was collected, and where the aircraft were before.
IsAnswer(p) ==
  \E sent \in Int, seen \in Nat :
    p = [now |-> sent, aircraft |-> <<Report(plane, sent - seen, seen), Report(Other, sent - seen, seen)>>]

\* What a caller asks about, and what it has been answered.
Asked(r) ==
  /\ r.target \in -Lag .. MaxTime /\ r.off \in {0, Offset}
  /\ r.echo = [EchoOf(plane, r.target) EXCEPT !.delay = @ + r.off]
  /\ config.stamped /\ r.state = "answered" => IsAnswer(r.payload)

\* What came of it.
Led(u) ==
  /\ u.target \in -Lag .. MaxTime /\ u.off \in {0, Offset}
  /\ config.stamped => Sighted(u.aircraft)
  /\ u.answer =
       IF u.caller = "detection"
         THEN MatchDetection([EchoOf(plane, u.target) EXCEPT !.delay = @ + u.off],
                             AircraftAtTimestamp(u.aircraft, u.target), config.rx, config.tx)
         ELSE ShowAircraft(u.aircraft, u.target, config.rx, config.tx)

FlightInv ==
  /\ \A c \in Callers : call[c] # Idle => AdsbTruthAvailable /\ Asked(call[c])
  /\ config.stamped => Sighted(aircraftCache.aircraft)
  /\ result # None => AdsbTruthAvailable /\ Led(result)

\* The time put to a position is the one it was taken at.
LEMMA StampedIsSeen ==
  ASSUME NEW p, IsAnswer(p) PROVE Sighted(StampPositionTimes(p, now))
<1>1. PICK sent \in Int, seen \in Nat :
        p = [now |-> sent, aircraft |-> <<Report(plane, sent - seen, seen), Report(Other, sent - seen, seen)>>]
  BY DEF IsAnswer
<1> DEFINE stamped == StampPositionTimes(p, now)
           t == sent - seen
<1>2. /\ p.now = sent /\ DOMAIN p.aircraft = 1 .. 2
      /\ p.aircraft[1] = Report(plane, t, seen) /\ p.aircraft[2] = Report(Other, t, seen)
  BY <1>1
<1>3. Or(p.now, now) = sent /\ Or(seen, 0) = seen
  BY <1>2, AdsbTruthAssumption DEF Or
<1>4. ASSUME NEW q PROVE /\ Report(q, t, seen).seen_pos = seen
                         /\ \A f \in Fields : Report(q, t, seen)[f] = Report(q, t, 0)[f]
  BY DEF Report, Fields
<1>5. ASSUME NEW i \in DOMAIN p.aircraft, NEW q, p.aircraft[i] = Report(q, t, seen)
      PROVE  stamped[i] = Sighting(q, t)
  <2>1. stamped[i] = [f \in Fields \union {"timestamp"} |->
                       IF f = "timestamp" THEN Or(p.now, now) - Or(p.aircraft[i].seen_pos, 0) ELSE p.aircraft[i][f]]
    BY DEF StampPositionTimes
  <2>2. Or(p.now, now) - Or(p.aircraft[i].seen_pos, 0) = t
    BY <1>3, <1>4, <1>5
  <2>3. \A f \in (Fields \union {"timestamp"}) \ {"timestamp"} : p.aircraft[i][f] = Report(q, t, 0)[f]
    BY <1>4, <1>5
  <2> HIDE DEF stamped, t
  <2> QED
    BY <2>1, <2>2, <2>3 DEF Sighting
<1>6. DOMAIN stamped = 1 .. 2
  BY <1>2 DEF StampPositionTimes
<1>7. stamped[1] = Sighting(plane, t) /\ stamped[2] = Sighting(Other, t) /\ t \in Int
  BY <1>2, <1>5
<1> QED
  BY <1>6, <1>7 DEF BothSeen, Sighted

LEMMA InitFlight == Init => FlightInv
BY DEF Init, FlightInv, Sighted, Empty

\* A step of one caller leaves the other as it was.
LEMMA FlightGoesOn ==
  ASSUME FlightInv, UNCHANGED rigid, NEW c \in Callers,
         \A d \in Callers : d # c => call'[d] = call[d],
         call'[c] # Idle => AdsbTruthAvailable /\ Asked(call'[c]),
         config.stamped => Sighted(aircraftCache'.aircraft),
         result' # None => AdsbTruthAvailable /\ Led(result')
  PROVE  FlightInv'
<1>1. UNCHANGED <<config, plane>>
  BY DEF rigid
<1>2. \A p : IsAnswer(p) => IsAnswer(p)'
  BY <1>1 DEF IsAnswer
<1>3. ASSUME NEW d \in Callers, call'[d] # Idle PROVE AdsbTruthAvailable' /\ Asked(call[d])'
  <2>1. AdsbTruthAvailable /\ Asked(call'[d])
    BY <1>3 DEF FlightInv
  <2> QED
    BY <1>1, <1>2, <2>1 DEF AdsbTruthAvailable, HasLocation, Asked, EchoOf, WayBy
<1>4. Sighted(aircraftCache.aircraft)' <=> Sighted(aircraftCache'.aircraft)
  BY <1>1 DEF Sighted, BothSeen
<1>5. ASSUME result' # None PROVE AdsbTruthAvailable' /\ Led(result)'
  <2>1. AdsbTruthAvailable /\ Led(result')
    BY <1>5
  <2>2. Sighted(result.aircraft)' <=> Sighted(result'.aircraft)
    BY <1>1 DEF Sighted, BothSeen
  <2> QED
    BY <1>1, <2>1, <2>2 DEF AdsbTruthAvailable, HasLocation, Led, EchoOf, WayBy
<1> QED
  BY <1>1, <1>3, <1>4, <1>5 DEF FlightInv

\* What is used is what was asked.
LEMMA UseLed ==
  ASSUME NEW c \in Callers, NEW r, Asked(r), NEW cache, config.stamped => Sighted(cache.aircraft)
  PROVE  Led(Use(c, r, cache))
BY DEF Led, Use, Asked, Callers

LEMMA CallKeepsFlight == Types /\ FlightInv /\ (\E c \in callers : GetCachedAircraft(c)) => FlightInv'
<1> SUFFICES ASSUME Types, FlightInv, NEW c \in callers, GetCachedAircraft(c) PROVE FlightInv'
  OBVIOUS
<1> USE AdsbAssumption
<1>1. c \in Callers /\ now \in Nat /\ now <= MaxTime /\ DOMAIN call = Callers
  BY DEF Types, CacheInv, TypeInv
<1>2. AdsbTruthAvailable /\ UNCHANGED rigid /\ aircraftCache' = aircraftCache
  BY DEF GetCachedAircraft
<1>3. PICK off \in {0, Offset} :
        LET echo    == EchoOf(plane, now - Lag)
            request == [state |-> "asked", target |-> now - Lag, off |-> off, called |-> now,
                        echo |-> [echo EXCEPT !.delay = @ + off], payload |-> None]
        IN IF now - lastFetchTime > CacheInterval
             THEN call' = [call EXCEPT ![c] = request] /\ result' = None
             ELSE Finish(c, request, aircraftCache)
  BY DEF GetCachedAircraft
<1> DEFINE request == [state |-> "asked", target |-> now - Lag, off |-> off, called |-> now,
                       echo |-> [EchoOf(plane, now - Lag) EXCEPT !.delay = @ + off], payload |-> None]
<1>4. Asked(request)
  <2>1. now - Lag \in -Lag .. MaxTime
    BY <1>1
  <2> QED
    BY <2>1 DEF Asked
<1>5. \/ call' = [call EXCEPT ![c] = request] /\ result' = None
      \/ call' = [call EXCEPT ![c] = Idle] /\ result' = Use(c, request, aircraftCache)
  BY <1>3 DEF Finish
<1> HIDE DEF request
<1>6. config.stamped => Sighted(aircraftCache.aircraft)
  BY DEF FlightInv
<1>7. Led(Use(c, request, aircraftCache))
  BY <1>1, <1>4, <1>6, UseLed
<1>8. /\ \A d \in Callers : d # c => call'[d] = call[d]
      /\ call'[c] \in {Idle, request} /\ result' \in {None, Use(c, request, aircraftCache)}
  BY <1>1, <1>5
<1> QED
  BY <1>1, <1>2, <1>4, <1>6, <1>7, <1>8, FlightGoesOn

LEMMA ResumeKeepsFlight ==
  ASSUME Types, FlightInv, NEW c \in callers, call[c] # Idle, NEW aircraft, config.stamped => Sighted(aircraft),
         Resume(c, aircraft)
  PROVE  FlightInv'
<1> USE AdsbAssumption
<1>1. c \in Callers /\ DOMAIN call = Callers
  BY DEF Types, CacheInv
<1>2. AdsbTruthAvailable /\ Asked(call[c])
  BY <1>1 DEF FlightInv
<1> DEFINE cache == [aircraft |-> aircraft, asked |-> call[c].called]
<1>3. /\ aircraftCache' = cache /\ result' = Use(c, call[c], cache) /\ call' = [call EXCEPT ![c] = Idle]
      /\ UNCHANGED rigid
  BY DEF Resume, Finish
<1>4. cache.aircraft = aircraft
  OBVIOUS
<1> HIDE DEF cache
<1>5. Led(Use(c, call[c], cache))
  BY <1>1, <1>2, <1>4, UseLed
<1>6. call'[c] = Idle /\ \A d \in Callers : d # c => call'[d] = call[d]
  BY <1>1, <1>3
<1> QED
  BY <1>1, <1>2, <1>3, <1>4, <1>5, <1>6, FlightGoesOn

LEMMA WaitKeepsFlight == Types /\ FlightInv /\ (\E c \in callers : Answer(c) \/ Fetch(c)) => FlightInv'
<1> SUFFICES ASSUME Types, FlightInv, NEW c \in callers, Answer(c) \/ Fetch(c) PROVE FlightInv'
  OBVIOUS
<1> USE AdsbAssumption
<1>1. c \in Callers /\ now \in Nat /\ DOMAIN call = Callers
  BY DEF Types, CacheInv
<1>2. call[c].state # "idle" => call[c] # Idle
  BY DEF Idle
<1>3. call[c] # Idle => IsRequest(call[c]) /\ AdsbTruthAvailable /\ Asked(call[c])
  BY <1>1 DEF Types, CacheInv, FlightInv
<1>4. Sighted(<<>>)
  BY DEF Sighted
<1>5. config.stamped => Sighted(aircraftCache.aircraft)
  BY DEF FlightInv
<1>6. CASE Answer(c)
  <2>1. PICK ages \in Ages : call' = [call EXCEPT ![c].state = "answered", ![c].payload = Payload(ages[1], ages[2])]
    BY <1>6 DEF Answer
  <2>2. ages[1] \in Nat /\ ages[2] \in Nat
    BY <2>1
  <2> DEFINE payload == Payload(ages[1], ages[2])
             answered == [call[c] EXCEPT !.state = "answered", !.payload = payload]
             sent == now - ages[1]
  <2>3. config.stamped => IsAnswer(payload)
    <3>1. config.stamped =>
            payload = [now |-> sent, aircraft |-> <<Report(plane, sent - ages[2], ages[2]), Report(Other, sent - ages[2], ages[2])>>]
      BY DEF Payload
    <3>2. sent \in Int
      BY <1>1, <2>2
    <3> HIDE DEF payload, sent
    <3> QED
      BY <2>2, <3>1, <3>2 DEF IsAnswer
  <2> HIDE DEF payload
  <2>4. call' = [call EXCEPT ![c] = answered]
    BY <2>1 DEF payload
  <2>5. IsRequest(call[c]) /\ AdsbTruthAvailable /\ Asked(call[c])
    BY <1>2, <1>3, <1>6 DEF Answer
  <2>6. Asked(answered)
    BY <2>3, <2>5 DEF Asked, IsRequest, RequestFields
  <2> HIDE DEF answered
  <2>7. call'[c] = answered /\ \A d \in Callers : d # c => call'[d] = call[d]
    BY <1>1, <2>4
  <2>8. UNCHANGED rigid /\ aircraftCache' = aircraftCache /\ result' = None
    BY <1>6 DEF Answer
  <2> QED
    BY <1>1, <1>5, <2>5, <2>6, <2>7, <2>8, FlightGoesOn
<1>7. CASE End(c)
  <2>1. config.stamped => Sighted(StampPositionTimes(call[c].payload, now))
    BY <1>2, <1>3, <1>7, StampedIsSeen DEF End, Asked
  <2> QED
    BY <1>2, <1>7, <2>1, ResumeKeepsFlight DEF End
<1>8. CASE Error(c) \/ Timeout(c)
  <2>1. call[c] # Idle /\ Resume(c, <<>>)
    BY <1>2, <1>8 DEF Error, Timeout
  <2> QED
    BY <1>4, <2>1, ResumeKeepsFlight
<1>9. CASE Cut(c)
  <2> DEFINE cut == [call[c] EXCEPT !.state = "cut"]
  <2>1. IsRequest(call[c]) /\ AdsbTruthAvailable /\ Asked(call[c])
    BY <1>2, <1>3, <1>9 DEF Cut
  <2>2. call' = [call EXCEPT ![c] = cut]
    BY <1>9 DEF Cut
  <2>3. Asked(cut)
    BY <2>1 DEF Asked, IsRequest, RequestFields
  <2> HIDE DEF cut
  <2>4. call'[c] = cut /\ \A d \in Callers : d # c => call'[d] = call[d]
    BY <1>1, <2>2
  <2>5. UNCHANGED rigid /\ aircraftCache' = aircraftCache /\ result' = None
    BY <1>9 DEF Cut
  <2> QED
    BY <1>1, <1>5, <2>1, <2>3, <2>4, <2>5, FlightGoesOn
<1> QED
  BY <1>6, <1>7, <1>8, <1>9 DEF Fetch

LEMMA StillFlight == FlightInv /\ UNCHANGED <<rigid, aircraftCache, call>> /\ (result' = None \/ result' = result) => FlightInv'
<1> SUFFICES ASSUME FlightInv, UNCHANGED <<rigid, aircraftCache, call>>, result' = None \/ result' = result PROVE FlightInv'
  OBVIOUS
<1>1. "map" \in Callers
  BY DEF Callers
<1> QED
  BY <1>1, FlightGoesOn DEF FlightInv

LEMMA StepFlight == Types /\ FlightInv /\ [Next]_vars => FlightInv'
<1> SUFFICES ASSUME Types, FlightInv, [Next]_vars PROVE FlightInv'
  OBVIOUS
<1>1. CASE UNCHANGED vars
  BY <1>1, StillFlight DEF vars
<1>2. CASE Tick
  BY <1>2, StillFlight DEF Tick
<1>3. ASSUME NEW c \in callers, GetCachedAircraft(c) \/ Answer(c) \/ Fetch(c) PROVE FlightInv'
  BY <1>3, CallKeepsFlight, WaitKeepsFlight
<1> QED
  BY <1>1, <1>2, <1>3 DEF Next

\* At every time that is asked about the aircraft flies as it is assumed to.
LEMMA AlwaysInSight ==
  ASSUME Types, AdsbTruthAvailable, NEW target \in -Lag .. MaxTime
  PROVE  InSight(target)
<1> DEFINE scene == [config |-> config, plane |-> plane, callers |-> callers]
<1>1. scene \in Scenes
  BY DEF Types, TypeInv
<1>2. scene.config = config /\ scene.plane = plane
  OBVIOUS
<1> HIDE DEF scene
<1>3. config.rx # None /\ config.tx # None
  BY DEF AdsbTruthAvailable, HasLocation, IsCoordinate
<1>4. /\ IsPlane(plane) /\ plane.hex # Other.hex
      /\ {config.rx, config.tx} \subseteq Int \union {None}
      /\ None \notin {config.rx, config.tx} /\ WellReported(plane) =>
           /\ PlaneAt(plane, target).lat # 0 /\ PlaneAt(plane, target).alt > 0
           /\ \A site \in {config.rx, config.tx} : StaysOff(plane, target, site)
  BY <1>1, <1>2, FlightAssumption
<1> QED
  BY <1>3, <1>4 DEF InSight

\* Of a position whose age is known, the age is that of both aircraft.
LEMMA AgeOfSighting ==
  ASSUME NEW u, Led(u), AgeKnown(u)
  PROVE  u.target \in Int /\ \E t \in Int : BothSeen(u.aircraft, t) /\ Age(u) = Abs(u.target - t)
<1>1. PICK t \in Int : BothSeen(u.aircraft, t)
  BY DEF Led, AgeKnown, Sighted
<1>2. u.aircraft[1].timestamp = t
  BY <1>1 DEF BothSeen, Sighting
<1>3. u.target \in Int
  BY AdsbAssumption DEF Led
<1> QED
  BY <1>1, <1>2, <1>3 DEF Age

\* An echo gets the name of the aircraft it came from, and no other echo
\* does, for every way the aircraft may fly clear of the sites, every delay of
\* the data on its way and every age up to MATCH_MAX_POSITION_AGE_S
\* (server.js:358-366, extrapolation.js:120-190, adsb_match.js:23-65).
THEOREM EchoesAreMatched == Spec => []EchoIsMatched
<1>1. Types /\ FlightInv => EchoIsMatched
  <2> SUFFICES ASSUME Types, FlightInv, result # None, result.caller = "detection", AgeKnown(result), WellReported(plane)
               PROVE  result.answer = plane.hex <=> result.off = 0 /\ Age(result) <= MatchMaxPositionAge
    BY DEF EchoIsMatched
  <2>1. AdsbTruthAvailable /\ Led(result)
    BY DEF FlightInv
  <2>2. result.target \in -Lag .. MaxTime /\ result.off \in {0, Offset}
    BY <2>1 DEF Led
  <2>3. InSight(result.target)
    BY <2>1, <2>2, AlwaysInSight
  <2>4. PICK t \in Int : BothSeen(result.aircraft, t) /\ Age(result) = Abs(result.target - t)
    BY <2>1, AgeOfSighting
  <2>5. result.target \in Int
    BY <2>1, AgeOfSighting
  <2> DEFINE echo == [EchoOf(plane, result.target) EXCEPT !.delay = @ + result.off]
  <2>6. result.answer = MatchDetection(echo, AircraftAtTimestamp(result.aircraft, result.target), config.rx, config.tx)
    BY <2>1 DEF Led
  <2>7. echo.delay = EchoOf(plane, result.target).delay + result.off /\ echo.doppler = EchoOf(plane, result.target).doppler
    BY DEF EchoOf
  <2> HIDE DEF echo
  <2> QED
    BY <2>2, <2>3, <2>4, <2>5, <2>6, <2>7, EchoIsNamed
<1> QED
  BY <1>1, InitTypes, StepTypes, InitIInv, StepIInv, InitFlight, StepFlight, PTL DEF Spec

\* An aircraft is on the map exactly while its position is no older than
\* MAX_EXTRAPOLATION_S, and where an echo of it would come from at the very
\* time asked for, in delay and Doppler, unless it climbs at a rate the route
\* leaves out (server.js:594-654, extrapolation.js:192-240).
THEOREM AircraftAreShown == Spec => []ShownWhereItIs
<1>1. Types /\ FlightInv => ShownWhereItIs
  <2> SUFFICES ASSUME Types, FlightInv, result # None, result.caller = "map", AgeKnown(result), WellReported(plane)
               PROVE  LET shown == {ac \in result.answer : ac.hex = plane.hex}
                          echo  == EchoOf(plane, result.target)
                      IN /\ shown # {} <=> Age(result) <= MaxExtrapolation
                         /\ plane.climb = 0 \/ plane.rate = "geom" =>
                              \A ac \in shown : ac.delay = echo.delay /\ ac.doppler = echo.doppler
    BY DEF ShownWhereItIs
  <2>1. AdsbTruthAvailable /\ Led(result)
    BY DEF FlightInv
  <2>2. InSight(result.target)
    BY <2>1, AlwaysInSight DEF Led
  <2>3. PICK t \in Int : BothSeen(result.aircraft, t) /\ Age(result) = Abs(result.target - t)
    BY <2>1, AgeOfSighting
  <2>4. result.target \in Int
    BY <2>1, AgeOfSighting
  <2>5. result.answer = ShowAircraft(result.aircraft, result.target, config.rx, config.tx)
    BY <2>1 DEF Led
  <2> QED
    BY <2>2, <2>3, <2>4, <2>5, ShownInSight, ShownWhileYoung
<1> QED
  BY <1>1, InitTypes, StepTypes, InitIInv, StepIInv, InitFlight, StepFlight, PTL DEF Spec

================================================================================
