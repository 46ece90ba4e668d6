------------------------------- MODULE MCPollers -------------------------------
(* Three CPIs, with a gap longer than the window, and a restart of the API.
   The pollers' requests have the same code: they overlap in one of the
   stashes; the API restarts under the pages that build their plot anew.    *)
EXTENDS Pollers

Overlapping == [k \in Kinds |-> IF k = "iqdata" THEN 2 ELSE 1]
Boots       == [k \in Kinds |-> IF k \in {"timing", "maxhold"} THEN 2 ELSE 1]

================================================================================
