------------------------------ MODULE MCOverload -------------------------------
(* One overload of each tuner and one retune: an overload can meet the      *)
(* re-stage, the retune, its own end and the other tuner's overload.        *)
EXTENDS Overload

================================================================================
