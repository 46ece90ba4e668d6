----------------------------- MODULE MCCpiPipeline -----------------------------
(* The radar loop with two slots, CPIs of two samples and capture buffers  *)
(* of a CPI and a half, as deployed.                                       *)
EXTENDS CpiPipeline, TLC

SlotSymmetry == Permutations(Slots)

================================================================================
