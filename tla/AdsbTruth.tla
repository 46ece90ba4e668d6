------------------------------- MODULE AdsbTruth -------------------------------
(***************************************************************************)
(* What the API makes of an aircraft: where it is at a given time, the     *)
(* bistatic delay and Doppler an echo of it would have, and which aircraft *)
(* an echo belongs to (api/lib, api/bistatic.js).                          *)
(*                                                                         *)
(* The receiver, the illuminator and every aircraft lie on a north-south   *)
(* line, and distances are measured along it and upwards, so that they are *)
(* integers; a delay is the length of the way by the aircraft less that of *)
(* the direct one, a Doppler the speed at which it shrinks, both in whole  *)
(* units.  The code's conditions are kept as they are, JavaScript's notion *)
(* of what is missing included: a zero is as good as nothing to `!x'.      *)
(***************************************************************************)
EXTENDS Integers

CONSTANTS
  None,         \* null, undefined or not there
  Ground,       \* alt_baro of an aircraft on the ground, a string
  MaxExtrapolation,   \* MAX_EXTRAPOLATION_S
  MatchMaxPositionAge,  \* MATCH_MAX_POSITION_AGE_S
  DelayTol, DopplerTol,
  Near          \* the 100 m within which no Doppler is given

\* The fields of a record that are not the time of its position.
Fields == {"hex", "lat", "alt_geom", "alt_baro", "gs", "track", "geom_rate", "baro_rate"}
Records == [Fields \union {"timestamp"} -> Int \union STRING \union {None, Ground}]
Positions == [{"lat", "alt"} -> Int]
Shown == [{"hex", "delay", "doppler"} -> Int \union STRING]

\* What is missing is none of what may be there.
ASSUME AdsbTruthAssumption ==
  /\ None \notin Int \union STRING \union Records \union Positions \union Shown
  /\ Ground \notin Int \union {None}
  /\ MaxExtrapolation \in Nat /\ MatchMaxPositionAge \in Nat
  /\ DelayTol \in Nat \ {0} /\ DopplerTol \in Nat \ {0} /\ Near \in Nat

Falsy(x) == x \in {None, 0}
IsNumber(x) == x \notin {None, Ground}
Or(x, y) == IF x = None THEN y ELSE x       \* x ?? y

Abs(n) == IF n < 0 THEN -n ELSE n
Sign(n) == IF n < 0 THEN -1 ELSE IF n > 0 THEN 1 ELSE 0

\* Degrees from north to a speed along the line.
North(gs, track) == CASE track \in {0, 360} -> gs [] track = 180 -> -gs [] OTHER -> 0

--------------------------------------------------------------------------------
(* bistatic.js                                                             *)

Altitude(ac) == Or(ac.alt_geom, ac.alt_baro)
DistanceTo(site, ac) == Abs(ac.lat - site) + Altitude(ac)

\* A string is no altitude: what is computed from it is NaN, which is not
\* null but within no tolerance.
ComputeBistaticDelay(ac, rx, tx) ==
  IF Falsy(ac.lat) \/ ~IsNumber(Altitude(ac)) \/ Altitude(ac) = 0 THEN None
  ELSE DistanceTo(rx, ac) + DistanceTo(tx, ac) - Abs(rx - tx)

\* The only vertical rate it reads is geom_rate.
ComputeBistaticDoppler(ac, rx, tx) ==
  IF \/ Falsy(ac.lat) \/ ~IsNumber(Altitude(ac)) \/ Altitude(ac) = 0 \/ Falsy(ac.gs) \/ Falsy(ac.track)
     \/ DistanceTo(rx, ac) < Near \/ DistanceTo(tx, ac) < Near
  THEN None
  ELSE LET toward(site) == Sign(site - ac.lat) * North(ac.gs, ac.track)
       IN toward(rx) + toward(tx) - 2 * (IF ac.geom_rate = None THEN 0 ELSE ac.geom_rate)

--------------------------------------------------------------------------------
(* lib/extrapolation.js                                                    *)

VerticalRate(ac) == Or(ac.geom_rate, Or(ac.baro_rate, 0))

ExtrapolatePosition(ac, target, maxSeconds) ==
  LET dt   == target - ac.timestamp
      base == IF IsNumber(ac.alt_geom) THEN ac.alt_geom ELSE IF IsNumber(ac.alt_baro) THEN ac.alt_baro ELSE 0
  IN IF Abs(dt) > maxSeconds \/ Falsy(ac.gs) \/ ac.track = None THEN None
     ELSE [lat |-> ac.lat + North(ac.gs, ac.track) * dt, alt |-> base + VerticalRate(ac) * dt]

ProjectForMatch(ac, target) ==
  LET pos == ExtrapolatePosition(ac, target, MatchMaxPositionAge)
  IN IF pos = None THEN None
     ELSE [ac EXCEPT !.lat = pos.lat, !.alt_geom = pos.alt, !.geom_rate = VerticalRate(ac)]

\* The aircraft a frame is compared against.  The others cannot be projected
\* to its time; without a time they are all taken as reported.  Those that are
\* left keep their places, as all that counts later is who comes first.
AircraftAtTimestamp(aircraft, target) ==
  IF target = None THEN aircraft
  ELSE LET project(i) == ProjectForMatch(aircraft[i], target)
       IN [i \in {j \in DOMAIN aircraft : project(j) # None} |-> project(i)]

\* Mutant of StampPositionTimes: ages are counted from the answer's arrival.
StampPositionTimesOnArrival(payload, receivedAt) ==
  [i \in DOMAIN payload.aircraft |->
     [f \in Fields \union {"timestamp"} |->
        IF f = "timestamp" THEN receivedAt - payload.aircraft[i].seen_pos ELSE payload.aircraft[i][f]]]

StampPositionTimes(payload, receivedAt) ==
  [i \in DOMAIN payload.aircraft |->
     [f \in Fields \union {"timestamp"} |->
        IF f = "timestamp" THEN Or(payload.now, receivedAt) - Or(payload.aircraft[i].seen_pos, 0)
                           ELSE payload.aircraft[i][f]]]

--------------------------------------------------------------------------------
(* lib/adsb_match.js                                                       *)

Candidates(aircraft, rx, tx) ==
  LET known(ac) == /\ ~Falsy(ac.lat) /\ ~(Falsy(ac.alt_geom) /\ Falsy(ac.alt_baro))
                   /\ ComputeBistaticDelay(ac, rx, tx) # None /\ ComputeBistaticDoppler(ac, rx, tx) # None
  IN {i \in DOMAIN aircraft : known(aircraft[i])}

\* The aircraft an echo is nearest to among those within both tolerances, the
\* first of them if they tie.
MatchDetection(echo, aircraft, rx, tx) ==
  LET delayErr(i)  == Abs(echo.delay - ComputeBistaticDelay(aircraft[i], rx, tx))
      dopplerErr(i) == Abs(echo.doppler - ComputeBistaticDoppler(aircraft[i], rx, tx))
      within       == {i \in Candidates(aircraft, rx, tx) : delayErr(i) < DelayTol /\ dopplerErr(i) < DopplerTol}
      score(i)     == delayErr(i) * DopplerTol + dopplerErr(i) * DelayTol
      best         == {i \in within : \A j \in within : score(i) < score(j) \/ (score(i) = score(j) /\ i <= j)}
  IN IF within = {} THEN None ELSE aircraft[CHOOSE i \in best : TRUE].hex

--------------------------------------------------------------------------------
(* /api/adsb2dd: lib/geometry.js and extrapolateAdsbData                   *)

\* geometry.js answers zero where bistatic.js answers null.
OrZero(x) == IF x = None THEN 0 ELSE x

\* Mutant of ExtrapolateAdsbData: the delay is that of the reported position.
ExtrapolateAdsbDataDelay(ac, target, rx, tx) ==
  LET pos  == ExtrapolatePosition(ac, target, MaxExtrapolation)
      here == [ac EXCEPT !.lat = pos.lat, !.alt_geom = pos.alt, !.gs = OrZero(@), !.track = OrZero(@),
                         !.geom_rate = VerticalRate(ac)]
  IN IF pos = None THEN None
     ELSE [hex |-> ac.hex, delay |-> OrZero(ComputeBistaticDelay(ac, rx, tx)),
           doppler |-> OrZero(ComputeBistaticDoppler(here, rx, tx))]

\* One aircraft as it is shown.  Where it cannot be projected it has neither
\* delay nor Doppler, and the page leaves it out.
ExtrapolateAdsbData(ac, target, rx, tx) ==
  LET pos  == ExtrapolatePosition(ac, target, MaxExtrapolation)
      here == [ac EXCEPT !.lat = pos.lat, !.alt_geom = pos.alt, !.gs = OrZero(@), !.track = OrZero(@),
                         !.geom_rate = VerticalRate(ac)]
  IN IF pos = None THEN None
     ELSE [hex |-> ac.hex, delay |-> OrZero(ComputeBistaticDelay(here, rx, tx)),
           doppler |-> OrZero(ComputeBistaticDoppler(here, rx, tx))]

\* fetchFromTar1090AndExtrapolate: the records it hands on have no baro_rate.
ShowAircraft(aircraft, target, rx, tx) ==
  LET shown(i) == ExtrapolateAdsbData([aircraft[i] EXCEPT !.baro_rate = None], target, rx, tx)
  IN {shown(i) : i \in DOMAIN aircraft} \ {None}

================================================================================
