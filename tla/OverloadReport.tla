------------------------------ MODULE OverloadReport ---------------------------
(***************************************************************************)
(* The report of the overloads: the retune thread of Capture::process looks*)
(* at the levels and the counts of both tuners every 250 ms and posts what *)
(* has changed, or what has not every two seconds; the API keeps the last  *)
(* report.  Posts and their answers get lost, and both processes restart.  *)
(*                                                                         *)
(* The poll for a retune that comes before each look is in Retune.         *)
(***************************************************************************)
EXTENDS OverloadLevel

CONSTANTS
  MaxRestarts,    \* bound: restarts of blah2, and of the API
  None

\* What a look finds, and what a report says.
Looks == [level : [BothTuners -> BOOLEAN], count : [BothTuners -> Nat]]

ASSUME ReportAssumption == MaxRestarts \in Nat /\ None \notin Looks

VARIABLES
  reportPc, at,   \* the thread, and the tuner it loads next
  look,           \* overloadA, overloadB, countA, countB
  last, reported, \* lastOverloadA ... lastOverloadCountB, overloadReported
  overloadStatus, \* of the API: the last report, None for null
  restarts        \* of blah2 and of the API

threadVars == <<reportPc, at, look, last, reported>>
reportVars == <<levelVars, threadVars, overloadStatus, restarts>>

Quiet == [level |-> [t \in BothTuners |-> FALSE], count |-> [t \in BothTuners |-> 0]]

ReportInit ==
  /\ LevelInit
  /\ reportPc = "level" /\ at = "A" /\ look = Quiet /\ last = Quiet /\ reported = FALSE
  /\ overloadStatus = None /\ restarts = [process \in {"blah2", "api"} |-> 0]

--------------------------------------------------------------------------------
\* The event callback comes in between any two loads.
Event == LevelNext /\ UNCHANGED <<threadVars, overloadStatus, restarts>>

lookIdle == UNCHANGED <<levelVars, last, reported, overloadStatus, restarts>>

\* RspDuo::get_overload
LookAtLevel ==
  /\ reportPc = "level"
  /\ look' = [look EXCEPT !.level[at] = level[at]]
  /\ IF at = "A" THEN at' = "B" /\ UNCHANGED reportPc
                 ELSE at' = "A" /\ reportPc' = "count"
  /\ lookIdle

\* RspDuo::get_overload_counts
LookAtCount ==
  /\ reportPc = "count"
  /\ look' = [look EXCEPT !.count[at] = onsetCount[at]]
  /\ IF at = "A" THEN at' = "B" /\ UNCHANGED reportPc
                 ELSE at' = "A" /\ reportPc' = "decide"
  /\ lookIdle

\* Mutant of Changed: a count that moved under a level that did not is no news.
ChangedLevel == ~reported \/ look.level # last.level

Changed == ~reported \/ look.level # last.level \/ look.count # last.count

--------------------------------------------------------------------------------
\* Nothing is new, and the last report is not two seconds old.
Skip ==
  /\ reportPc = "decide" /\ ~Changed
  /\ reportPc' = "level" /\ UNCHANGED <<levelVars, at, look, last, reported, overloadStatus, restarts>>

reportIdle == UNCHANGED <<levelVars, at, look, restarts>>

\* A report gets to the API, and its answer back.
Delivered ==
  /\ reportPc = "decide" /\ overloadStatus' = look /\ last' = look /\ reported' = TRUE
  /\ reportPc' = "level" /\ reportIdle

\* It gets to the API and the answer is lost, or it is lost itself.
Unanswered ==
  /\ reportPc = "decide" /\ overloadStatus' \in {look, overloadStatus} /\ UNCHANGED <<last, reported>>
  /\ reportPc' = "level" /\ reportIdle

\* Mutant of Post: no heartbeat.
PostNews == Changed /\ (Delivered \/ Unanswered)

\* There is news, or it is time for the heartbeat, and any look may be the
\* first that is two seconds after the last report.
Post == Delivered \/ Unanswered

--------------------------------------------------------------------------------
\* A new process counts from zero and has reported nothing.
Blah2Restarts ==
  /\ restarts["blah2"] < MaxRestarts /\ restarts' = [restarts EXCEPT !["blah2"] = @ + 1]
  /\ level' = Quiet.level /\ onsetCount' = Quiet.count /\ counting' = {}
  /\ reportPc' = "level" /\ at' = "A" /\ look' = Quiet /\ last' = Quiet /\ reported' = FALSE
  /\ UNCHANGED overloadStatus

ApiRestarts ==
  /\ restarts["api"] < MaxRestarts /\ restarts' = [restarts EXCEPT !["api"] = @ + 1]
  /\ overloadStatus' = None /\ UNCHANGED <<levelVars, threadVars>>

--------------------------------------------------------------------------------
Loads == LookAtLevel \/ LookAtCount
ReportNext == Event \/ Loads \/ Skip \/ Post \/ Blah2Restarts \/ ApiRestarts

ReportSpec == ReportInit /\ [][ReportNext]_reportVars

\* The callback and the thread run.  Looks that post come again and again, be
\* it for the heartbeat, and not all they post is lost.
ReportFairness ==
  /\ \A t \in BothTuners : WF_reportVars(Count(t) /\ Event)
  /\ WF_reportVars(Loads) /\ WF_reportVars(Skip \/ Post) /\ SF_reportVars(Post /\ Delivered)

--------------------------------------------------------------------------------
\* Every variable holds a value of its type.
ReportTypeOK ==
  /\ level \in [BothTuners -> BOOLEAN] /\ onsetCount \in [BothTuners -> 0 .. MaxEpisodes]
  /\ \E t \in BothTuners : counting \in {{}, {t}}
  /\ reportPc \in {"level", "count", "decide"} /\ at \in BothTuners
  /\ look \in Looks /\ last \in Looks /\ reported \in BOOLEAN
  /\ overloadStatus \in Looks \cup {None} /\ restarts \in [{"blah2", "api"} -> 0 .. MaxRestarts]

\* Once this process has reported, the API counts no overload that it did not
\* have, so those of the process before are gone; and when a look finds no news,
\* the API has every overload that look has counted, also those that came and
\* went with the level down at both looks, and whichever posts and answers
\* were lost.  The API may have restarted, and then says that it has nothing
\* (Capture.cpp:152-158, 165-171, 176-184).
ReportIsTrue ==
  reported /\ overloadStatus # None =>
    /\ \A t \in BothTuners : overloadStatus.count[t] <= onsetCount[t]
    /\ reportPc = "decide" /\ ~Changed => overloadStatus.count = look.count

\* An overload that is counted is counted by the API in the end, across its
\* restarts, unless blah2 restarts (Capture.cpp:148-149, 165-171).
EpisodesAreReported ==
  \A t \in BothTuners, k \in 1 .. MaxEpisodes :
    onsetCount[t] = k ~> (overloadStatus # None /\ overloadStatus.count[t] >= k) \/ onsetCount[t] = 0

================================================================================
