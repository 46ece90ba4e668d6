-------------------------------- MODULE MCRetune --------------------------------
(* Retune for TLC: the configurations give every constant a small set of   *)
(* model values, MAX_RETUNE_ATTEMPTS its deployed value.                   *)
EXTENDS Retune
================================================================================
