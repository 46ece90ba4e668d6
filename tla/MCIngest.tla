------------------------------- MODULE MCIngest --------------------------------
(* Three CPIs of two pieces a frame, and one restart of blah2.              *)
EXTENDS Ingest

================================================================================
