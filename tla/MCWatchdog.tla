------------------------------ MODULE MCWatchdog -------------------------------
(* The watchdog with the deployed grace and staleness, a shorter period    *)
(* between the checks and a shorter timeout of the calibration lock, in    *)
(* the same order.                                                         *)
EXTENDS Watchdog

================================================================================
