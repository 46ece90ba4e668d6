------------------------------ MODULE OverloadLevel ----------------------------
(***************************************************************************)
(* What other threads may see of the overloads: of each tuner a level and a*)
(* count.  The event callback raises a level first and counts it next, and *)
(* is at one tuner at a time.                                              *)
(***************************************************************************)
EXTENDS Naturals

CONSTANT MaxEpisodes    \* bound: overloads of each tuner

ASSUME EpisodesAssumption == MaxEpisodes \in Nat

VARIABLES
  level, onsetCount, \* overload_a_fg, overload_count_a_fg and those of B
  counting        \* the tuner whose level is up and whose count is not

levelVars == <<level, onsetCount, counting>>

BothTuners == {"A", "B"}

LevelInit ==
  /\ level = [t \in BothTuners |-> FALSE] /\ onsetCount = [t \in BothTuners |-> 0]
  /\ counting = {}

Rise(t) ==
  /\ counting = {} /\ ~level[t] /\ onsetCount[t] < MaxEpisodes
  /\ level' = [level EXCEPT ![t] = TRUE] /\ counting' = {t} /\ UNCHANGED onsetCount

Count(t) ==
  /\ counting = {t}
  /\ onsetCount' = [onsetCount EXCEPT ![t] = @ + 1] /\ counting' = {} /\ UNCHANGED level

Fall(t) ==
  /\ counting = {} /\ level[t]
  /\ level' = [level EXCEPT ![t] = FALSE] /\ UNCHANGED <<onsetCount, counting>>

LevelNext == \E t \in BothTuners : Rise(t) \/ Count(t) \/ Fall(t)

LevelSpec == LevelInit /\ [][LevelNext]_levelVars

================================================================================
