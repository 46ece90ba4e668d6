--------------------------------- MODULE Adsb ----------------------------------
(***************************************************************************)
(* The aircraft that the API takes for truth: server.js fetches them from  *)
(* tar1090, keeps them for a second, and uses them to name the echoes of a *)
(* detection frame and to show them on the map.  What is computed from an  *)
(* aircraft is in AdsbTruth.                                               *)
(*                                                                         *)
(* Two callers ask for the aircraft, each of which may find the cache too  *)
(* old and wait for a fetch of its own: the listener of the detections and *)
(* /api/adsb2dd.  tar1090 answers late, not at all, with nothing of use,   *)
(* or with half an answer.  It may pass on data it fetched a while ago.    *)
(* The aircraft fly straight on; times are in seconds.                     *)
(***************************************************************************)
EXTENDS AdsbTruth

CONSTANTS
  CacheInterval,  \* CACHE_INTERVAL
  HttpTimeout,    \* HTTP_TIMEOUT
  Scenes,         \* configuration, aircraft that reflects, callers there are
  Other,          \* another aircraft, which is always there
  Ages,           \* bound: ages of tar1090's data and of a position in them
  Lag,            \* how old a CPI is when it is published
  Offset,         \* how far an echo of something else is from the aircraft's
  MaxTime         \* bound of the clock

Callers == {"detection", "map"}

ASSUME AdsbAssumption ==
  /\ CacheInterval \in Nat /\ HttpTimeout \in Nat \ {0} /\ MaxTime \in Nat
  /\ Ages \subseteq Nat \X Nat /\ Lag \in Nat /\ Offset \in Nat \ {0}
  /\ CacheInterval < MaxTime
  /\ \A scene \in Scenes :
       /\ scene = [config |-> scene.config, plane |-> scene.plane, callers |-> scene.callers]
       /\ scene.callers \subseteq Callers

VARIABLES
  config,         \* truth.adsb.enabled, the sites; whether tar1090 gives `now'
  plane,          \* the aircraft that reflects
  callers,        \* the listener, and the route if a page asks it
  now,            \* Date.now()
  aircraftCache,  \* with the time of the request that filled it
  lastFetchTime,
  call,           \* of each caller, while it waits
  result          \* history: what the last step led to, if a call ended with it

rigid == <<config, plane, callers>>
vars == <<rigid, now, aircraftCache, lastFetchTime, call, result>>

--------------------------------------------------------------------------------
(* What really flies, and what is said of it                               *)

PlaneAt(p, t) == [lat |-> p.lat + North(p.gs, p.track) * t, alt |-> p.alt + p.climb * t]

\* An echo of it: the way of the signal, and how much shorter it is a second
\* later.
WayBy(p, t) == LET at == PlaneAt(p, t)
               IN Abs(at.lat - config.rx) + Abs(at.lat - config.tx) + 2 * at.alt - Abs(config.rx - config.tx)
EchoOf(p, t) == [delay |-> WayBy(p, t), doppler |-> WayBy(p, t) - WayBy(p, t + 1)]

\* A record of tar1090: some feeds lack an altitude or a rate.
Report(p, t, seen) ==
  [hex |-> p.hex, lat |-> PlaneAt(p, t).lat, gs |-> p.gs, track |-> p.track, seen_pos |-> seen,
   alt_geom |-> IF p.hasGeom THEN PlaneAt(p, t).alt ELSE None,
   alt_baro |-> CASE p.baro = "number" -> PlaneAt(p, t).alt [] p.baro = "ground" -> Ground [] OTHER -> None,
   geom_rate |-> IF p.rate = "geom" THEN p.climb ELSE None,
   baro_rate |-> IF p.rate = "baro" THEN p.climb ELSE None]

\* The payload of data that is `age' old, with positions `seen' older.
Payload(age, seen) ==
  [now |-> IF config.stamped THEN now - age ELSE None,
   aircraft |-> <<Report(plane, now - age - seen, seen), Report(Other, now - age - seen, seen)>>]

\* The API knows enough of the aircraft: where it flies to, how high it is,
\* and how fast it climbs if it does.  A track of exactly 0 counts as none.
WellReported(p) ==
  /\ p.gs # 0 /\ p.track \notin {None, 0} /\ (p.hasGeom \/ p.baro = "number")
  /\ p.climb = 0 \/ p.rate # "none"

\* What is one of the aircraft.
IsPlane(p) ==
  /\ p.hex \in STRING /\ p.track \in Int \union {None}
  /\ p.lat \in Int /\ p.alt \in Int /\ p.gs \in Int /\ p.climb \in Int
  /\ p.hasGeom \in BOOLEAN /\ p.baro \in {"number", "ground", "none"} /\ p.rate \in {"geom", "baro", "none"}

\* From t on it is on one side of the site for a second, and not too near.
StaysOff(p, t, site) ==
  LET here == PlaneAt(p, t)
      next == PlaneAt(p, t + 1)
  IN /\ (here.lat > site /\ next.lat >= site) \/ (here.lat < site /\ next.lat <= site)
     /\ Abs(here.lat - site) + here.alt >= Near

\* What is known well enough to be projected flies above the ground, and past
\* no site: at a site the speed of the way jumps, and the way of a second is
\* not its speed.  What makes the other echoes is beyond the tolerance.
ASSUME FlightAssumption ==
  /\ IsPlane(Other) /\ Offset >= DelayTol
  /\ \A scene \in Scenes :
       LET p     == scene.plane
           sites == {scene.config.rx, scene.config.tx}
       IN /\ IsPlane(p) /\ p.hex # Other.hex
          /\ sites \subseteq Int \union {None}
          /\ None \notin sites /\ WellReported(p) =>
               \A t \in -Lag .. MaxTime :
                 /\ PlaneAt(p, t).lat # 0 /\ PlaneAt(p, t).alt > 0
                 /\ \A site \in sites : StaysOff(p, t, site)

--------------------------------------------------------------------------------
Idle == [state |-> "idle"]
Empty == [aircraft |-> <<>>, asked |-> 0]

Init ==
  /\ \E scene \in Scenes : config = scene.config /\ plane = scene.plane /\ callers = scene.callers
  /\ now = CacheInterval + 1
  /\ aircraftCache = Empty /\ lastFetchTime = 0
  /\ call = [c \in Callers |-> Idle] /\ result = None

Tick ==
  /\ now < MaxTime
  /\ now' = now + 1 /\ result' = None
  /\ UNCHANGED <<rigid, aircraftCache, lastFetchTime, call>>

IsCoordinate(x) == x # None
HasLocation == IsCoordinate(config.rx) /\ IsCoordinate(config.tx)
AdsbTruthAvailable == config.enabled /\ HasLocation

\* What a caller does with the aircraft: the listener matches the echo at its
\* time, the route moves them all to the time it was given.
Use(c, request, cache) ==
  [caller |-> c, target |-> request.target, off |-> request.off, called |-> request.called,
   asked |-> cache.asked, aircraft |-> cache.aircraft,
   answer |-> IF c = "detection"
     THEN MatchDetection(request.echo, AircraftAtTimestamp(cache.aircraft, request.target), config.rx, config.tx)
     ELSE ShowAircraft(cache.aircraft, request.target, config.rx, config.tx)]

Finish(c, request, cache) ==
  /\ result' = Use(c, request, cache)
  /\ call' = [call EXCEPT ![c] = Idle]

\* A caller asks for the aircraft of a time, the listener with an echo of the
\* aircraft or of something else: getCachedAircraft up to its await.  Without
\* truth the frame goes on as it is, and the route answers 400.
GetCachedAircraft(c) ==
  /\ call[c] = Idle /\ AdsbTruthAvailable /\ now + HttpTimeout <= MaxTime
  /\ \E off \in IF c = "detection" THEN {0, Offset} ELSE {0} :
       LET echo    == EchoOf(plane, now - Lag)
           request == [state |-> "asked", target |-> now - Lag, off |-> off, called |-> now,
                       echo |-> [echo EXCEPT !.delay = @ + off], payload |-> None]
       IN IF now - lastFetchTime > CacheInterval
            THEN /\ call' = [call EXCEPT ![c] = request]
                 /\ result' = None
            ELSE Finish(c, request, aircraftCache)
  /\ UNCHANGED <<rigid, now, aircraftCache, lastFetchTime>>

\* tar1090 begins its answer.
Answer(c) ==
  /\ call[c].state = "asked"
  /\ \E ages \in Ages :
       call' = [call EXCEPT ![c].state = "answered", ![c].payload = Payload(ages[1], ages[2])]
  /\ result' = None
  /\ UNCHANGED <<rigid, now, aircraftCache, lastFetchTime>>

\* Mutant of Resume: the time is taken when the answer is there.
ResumeLate(c, aircraft) ==
  LET cache == [aircraft |-> aircraft, asked |-> call[c].called] IN
  /\ aircraftCache' = cache /\ lastFetchTime' = now
  /\ Finish(c, call[c], cache)
  /\ UNCHANGED <<rigid, now>>

\* The rest of getCachedAircraft: the time of the cache is that of the call.
Resume(c, aircraft) ==
  LET cache == [aircraft |-> aircraft, asked |-> call[c].called] IN
  /\ aircraftCache' = cache /\ lastFetchTime' = call[c].called
  /\ Finish(c, call[c], cache)
  /\ UNCHANGED <<rigid, now>>

\* 'end', with JSON.
End(c) == call[c].state = "answered" /\ Resume(c, StampPositionTimes(call[c].payload, now))

\* 'error', or what came is not JSON: no aircraft.
Error(c) == call[c].state \in {"asked", "answered"} /\ Resume(c, <<>>)

\* HTTP_TIMEOUT is the idle timeout of the socket: every piece of an answer
\* starts it over, so it fires this long after the call or later.

\* Mutant of Timeout: the request is given up, and nobody told.
TimeoutUnresolved(c) ==
  /\ call[c].state \in {"asked", "answered"} /\ now >= call[c].called + HttpTimeout
  /\ call' = [call EXCEPT ![c].state = "destroyed"] /\ result' = None
  /\ UNCHANGED <<rigid, now, aircraftCache, lastFetchTime>>

Timeout(c) ==
  /\ call[c].state \in {"asked", "answered"} /\ now >= call[c].called + HttpTimeout
  /\ Resume(c, <<>>)

\* The connection ends within the answer.  There is no 'end' then, the
\* request has no 'error' any more, the answer's is not listened to, and no
\* socket is left to time out: the promise stays as it is.
Cut(c) ==
  /\ call[c].state = "answered"
  /\ call' = [call EXCEPT ![c].state = "cut"] /\ result' = None
  /\ UNCHANGED <<rigid, now, aircraftCache, lastFetchTime>>

Fetch(c) == End(c) \/ Error(c) \/ Timeout(c) \/ Cut(c)
Next == Tick \/ \E c \in callers : GetCachedAircraft(c) \/ Answer(c) \/ Fetch(c)

Spec == Init /\ [][Next]_vars

\* Time passes, and node's timers fire.  tar1090 owes no answer; it is only
\* taken not to send one piece by piece for ever, which would hold off the
\* idle timeout.
FairSpec == Spec /\ WF_vars(Tick) /\ \A c \in Callers : WF_vars(Timeout(c))

--------------------------------------------------------------------------------
Times == 0 .. MaxTime
CallStates == {"idle", "asked", "answered", "cut"}

\* Every variable holds a value of its type.
TypeOK ==
  /\ [config |-> config, plane |-> plane, callers |-> callers] \in Scenes /\ now \in Times
  /\ lastFetchTime \in Times /\ aircraftCache.asked \in Times
  /\ \A i \in DOMAIN aircraftCache.aircraft : aircraftCache.aircraft[i].timestamp <= now
  /\ \A c \in Callers : call[c].state \in CallStates
  /\ result # None => result.caller \in Callers /\ result.called \in Times /\ result.asked \in Times

\* However fetches overlap and in whatever order they end, no caller is given
\* aircraft that were asked for more than a second before it called; a cache
\* filled by a slow fetch is as old as its request (server.js:468-475).
AircraftFresh == result # None => result.asked >= result.called - CacheInterval

\* The age of the position when the echo came back; for a payload that does
\* not say how old it is nobody knows.
AgeKnown(r) == r.aircraft # <<>> /\ config.stamped
Age(r) == Abs(r.target - r.aircraft[1].timestamp)

\* An echo is named after the aircraft it came from, and one from elsewhere is
\* not, however old the position, up to the 20 s it is projected over:
\* through tar1090's cache, the flight's age in it, a slow answer and the
\* API's own cache (server.js:358-366, extrapolation.js:120-190).
EchoIsMatched ==
  result # None /\ result.caller = "detection" /\ AgeKnown(result) /\ WellReported(plane) =>
    (result.answer = plane.hex <=> result.off = 0 /\ Age(result) <= MatchMaxPositionAge)

\* An aircraft is on the map while its position is young enough to be
\* projected, and is shown where an echo of it would be at the time asked for,
\* in delay and in Doppler, if it does not climb or says so in geom_rate
\* (server.js:594-654, extrapolation.js:192-240).
ShownWhereItIs ==
  result # None /\ result.caller = "map" /\ AgeKnown(result) /\ WellReported(plane) =>
    LET shown == {ac \in result.answer : ac.hex = plane.hex}
        echo  == EchoOf(plane, result.target)
    IN /\ shown # {} <=> Age(result) <= MaxExtrapolation
       /\ plane.climb = 0 \/ plane.rate = "geom" =>
            \A ac \in shown : ac.delay = echo.delay /\ ac.doppler = echo.doppler

\* The listener and the route go on after a while, whatever becomes of the
\* fetch, unless tar1090 cuts an answer short, which nothing ends, or never
\* stops sending one (server.js:438-466).
WaitEnds == \A c \in Callers : call[c].state # "idle" ~> call[c].state \in {"idle", "cut"}

\* A climbing or descending aircraft is not given the Doppler of a level one
\* when its rate is reported in baro_rate (extrapolation.js:37-43).  On the
\* map it is: the records handed to the projection have no baro_rate.
ClimbIsShown ==
  result # None /\ result.caller = "map" /\ AgeKnown(result) /\ WellReported(plane) /\ plane.rate = "baro" =>
    \A shown \in result.answer : shown.hex = plane.hex => shown.doppler = EchoOf(plane, result.target).doppler

================================================================================
