------------------------------- MODULE MCCapture -------------------------------
(* Three small machines of the capture side that share no variable: the ring *)
(* of samples, the report of overloads and the peak of a tuner.  TLC runs    *)
(* them one at a time.                                                       *)
(*                                                                           *)
(* The ring is one short of what its index type counts, so that an index     *)
(* summed in the index type overflows.  An overload can come and go between  *)
(* two looks, or between the loads of one, in each life of blah2; each       *)
(* process restarts once.  Samples of three bits make a block any set of the *)
(* values -4 .. 3.                                                           *)
EXTENDS IqData, OverloadReport, PeakHold

VARIABLE machine

MCInit == Init /\ ReportInit /\ PeakInit /\ machine \in {"ring", "report", "peak"}

MCNext ==
  /\ \/ machine = "ring" /\ Next /\ UNCHANGED <<reportVars, peakVars>>
     \/ machine = "report" /\ ReportNext /\ UNCHANGED <<vars, peakVars>>
     \/ machine = "peak" /\ PeakNext /\ UNCHANGED <<vars, reportVars>>
  /\ UNCHANGED machine

\* The liveness is that of the report.
MCSpec ==
  /\ MCInit /\ [][MCNext]_<<vars, reportVars, peakVars, machine>>
  /\ ReportFairness

================================================================================
