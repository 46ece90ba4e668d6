-------------------------------- MODULE MCAdsb ---------------------------------
(* An aircraft in every state of completeness, flying to or from the sites,
   another one elsewhere, and fetches that take longer than the cache lasts. *)
EXTENDS Adsb

Plane(lat, track, climb, hasGeom, baro, rate) ==
  [hex |-> "a", lat |-> lat, alt |-> 9, gs |-> 2, track |-> track, climb |-> climb,
   hasGeom |-> hasGeom, baro |-> baro, rate |-> rate]

\* Everything known; one altitude or rate missing, or it taxies; no heading
\* or speed.
Complete == {Plane(40, t, c, TRUE, "number", "geom") : t \in {180, 360}, c \in {-1, 0}}
Partial  == {Plane(200, 180, c, g, b, r) :
               c \in {0, 1}, g \in {FALSE}, b \in {"number", "ground"}, r \in {"baro", "none"}}
Odd      == {Plane(200, t, 0, TRUE, "none", "none") : t \in {None, 0, 180}}
              \union {[Plane(200, 180, 0, TRUE, "number", "none") EXCEPT !.gs = 0]}
Airliner == [Plane(300, 360, 0, TRUE, "number", "geom") EXCEPT !.hex = "b"]

Sites == [enabled |-> TRUE, rx |-> 100, tx |-> 120, stamped |-> TRUE]
Scene(conf, p, cs) == [config |-> conf, plane |-> p, callers |-> cs]

\* One caller at a time for every aircraft, both for one, and the
\* configurations that there is less to see in.
AllScenes ==
  {Scene(Sites, p, {c}) : p \in Complete \union Partial \union Odd, c \in {"detection", "map"}}
    \union {Scene(Sites, Plane(40, 180, 0, TRUE, "number", "geom"), {"detection", "map"})}
    \union {Scene(conf, Plane(40, 360, 0, TRUE, "number", "geom"), {"detection"}) :
              conf \in {[Sites EXCEPT !.enabled = FALSE], [Sites EXCEPT !.tx = None], [Sites EXCEPT !.stamped = FALSE]}}

\* Of the data in tar1090, and of the position in them.
PairsOfAges == {<<0, 0>>, <<2, 0>>, <<1, 2>>}

================================================================================
