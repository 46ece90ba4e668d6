-------------------------------- MODULE Pollers --------------------------------
(***************************************************************************)
(* The clients that follow the time stamp.  Every 100 ms a poller of the   *)
(* stash asks /api/timestamp, and when the text differs from the one it    *)
(* saw last it fetches the CPI's frame and adds it to a history.  A page   *)
(* does the same with the history, and plots it.                           *)
(*                                                                         *)
(* Four stashes, each with its page, differ in what they keep and how they *)
(* draw; they do not touch each other, so a behaviour follows one of them. *)
(* The stamps and the frames reach the API over sockets of their own, and  *)
(* what one read brings is served as one text (see Ingest): a text is the  *)
(* sequence of the CPIs whose bytes it holds, and only a text of one CPI   *)
(* is JSON.  The timer does not wait for the last answer, so requests may  *)
(* overlap and be answered in any order.                                   *)
(***************************************************************************)
EXTENDS Integers, Sequences, FiniteSets, SequencesExt

CONSTANTS
  Cpis,         \* bound: CPIs that are sent
  MaxRead,      \* bound: stamps or frames in one read
  MaxRequests,  \* bound, by stash: its requests that overlap
  MaxAnswers,   \* bound: answers on their way to the page
  MaxBoots,     \* bound, by stash: starts of the API
  Gap,          \* seconds that blah2 may stay silent, otherwise one
  Window,       \* `time` of the detection stash: seconds that are kept
  NCpi          \* nCpi of the other stashes: CPIs that are kept

Kinds == {"detection", "iqdata", "maxhold", "timing"}

ASSUME PollersAssumption ==
  /\ Cpis \in Nat /\ MaxRead \in Nat \ {0} 
  /\ MaxRequests \in [Kinds -> Nat \ {0}] /\ MaxBoots \in [Kinds -> Nat \ {0}] /\ MaxAnswers \in Nat \ {0}
  /\ Gap \in Nat \ {0} /\ Window \in Nat /\ NCpi \in Nat \ {0}

VARIABLES
  kind,         \* which stash, and with it which page
  xVariable,    \* the x axis of plot_detection
  boot,         \* starts of the API
  cpis,         \* what blah2 sent: the time of each CPI and the stages it timed
  read,         \* CPIs whose stamp, and whose frame, the API has read
  served,       \* timestamp, and the frame the stash asks for
  ts,           \* of the stash: the stamp it saw last
  requests,     \* of the stash, in flight
  series,       \* what the stash holds: CPIs, for the timings by stage
  timestamp,    \* of the page: the stamp it saw last
  answers,      \* on their way to the page
  page          \* what is plotted

apiVars == <<boot, cpis, read, served>>
stashVars == <<ts, requests, series>>
pageVars == <<timestamp, answers, page>>
vars == <<kind, xVariable, apiVars, stashVars, pageVars>>

Texts == Seq(1 .. Cpis)

\* The keys of a CPI's timings: some stages exist in some builds only.
Stages == {{"timestamp", "cpi"}, {"timestamp", "cpi", "detector"}}
Keys(cpi) == IF kind = "timing" THEN cpis[cpi].stages ELSE {"data"}

KeepLast(s, n) == IF Len(s) > n THEN SubSeq(s, Len(s) - n + 1, Len(s)) ELSE s

Nothing == <<>>     \* the stash's output before its first CPI
NewPage ==
  [signature |-> IF kind = "timing" THEN {} ELSE {"3 rows"}, built |-> FALSE,
   traces |-> [k \in {"data"} |-> <<>>], drawn |-> Nothing, early |-> FALSE]

--------------------------------------------------------------------------------
Init ==
  /\ kind \in Kinds
  /\ xVariable \in IF kind = "detection" THEN {"timestamp", "delay"} ELSE {"timestamp"}
  /\ boot = 1 /\ cpis = <<>>
  /\ read = [stamp |-> 0, frame |-> 0] /\ served = [stamp |-> <<>>, frame |-> <<>>]
  /\ ts = <<>> /\ requests = <<>> /\ series = Nothing
  /\ timestamp = <<-1>> /\ answers = <<>> /\ page = NewPage

--------------------------------------------------------------------------------
(* blah2 and the listeners                                                 *)

\* The end of the back stage: the frames of a CPI, then its stamp.  Another
\* build or configuration may have been started in between.
Send ==
  /\ Len(cpis) < Cpis
  /\ \E gap \in IF kind = "detection" /\ cpis # <<>> THEN {1, Gap} ELSE {1},
        stages \in IF kind = "timing" THEN Stages ELSE {{}} :
       cpis' = Append(cpis, [stages |-> stages,
         time |-> gap + (IF cpis = <<>> THEN 0 ELSE cpis[Len(cpis)].time)])
  /\ UNCHANGED <<kind, xVariable, boot, read, served, stashVars, pageVars>>

\* A listener publishes what a read returned: for the stamps whatever it is,
\* for the frames once it ends in '}'.
Publish(what) ==
  \E n \in 1 .. MaxRead :
    /\ read[what] + n <= Len(cpis)
    /\ served' = [served EXCEPT ![what] = [i \in 1 .. n |-> read[what] + i]]
    /\ read' = [read EXCEPT ![what] = @ + n]
    /\ UNCHANGED <<kind, xVariable, boot, cpis, stashVars, pageVars>>

\* The API ends, with the stash, its requests and what was on the way to it,
\* and starts again, and so does blah2, which does not connect twice.  The
\* page stays open.
Restart ==
  /\ boot < MaxBoots[kind]
  /\ boot' = boot + 1
  /\ read' = [stamp |-> Len(cpis), frame |-> Len(cpis)]
  /\ served' = [stamp |-> <<>>, frame |-> <<>>]
  /\ ts' = <<>> /\ requests' = <<>> /\ series' = Nothing
  /\ answers' = <<>>
  /\ UNCHANGED <<kind, xVariable, cpis, timestamp, page>>

--------------------------------------------------------------------------------
(* The stashes                                                             *)

\* The timer fires and /api/timestamp answers.  Of an empty answer the stash
\* is told nothing, as a body of no bytes has no 'data' event.
Poll ==
  /\ Len(requests) < MaxRequests[kind] /\ served.stamp # <<>>
  /\ requests' = Append(requests, [step |-> "stamp", text |-> served.stamp])
  /\ UNCHANGED <<kind, xVariable, apiVars, ts, series, pageVars>>

Ask == [step |-> "ask", text |-> <<>>]

\* Mutant of Stamp: a poller fetches one frame at a time.
StampOneFetch ==
  \E i \in DOMAIN requests :
    /\ requests[i].step = "stamp"
    /\ ts' = requests[i].text
    /\ requests' = IF ts' # ts /\ \A j \in DOMAIN requests : requests[j].step = "stamp"
                     THEN [requests EXCEPT ![i] = Ask] ELSE RemoveAt(requests, i)
    /\ UNCHANGED <<kind, xVariable, apiVars, series, pageVars>>

\* The stamp arrives: another one is remembered, and its frame asked for.
Stamp ==
  \E i \in DOMAIN requests :
    /\ requests[i].step = "stamp"
    /\ ts' = requests[i].text
    /\ requests' = IF ts' # ts THEN [requests EXCEPT ![i] = Ask] ELSE RemoveAt(requests, i)
    /\ UNCHANGED <<kind, xVariable, apiVars, series, pageVars>>

\* The route of the frame answers.
Answer ==
  \E i \in DOMAIN requests :
    /\ requests[i].step = "ask"
    /\ requests' = [requests EXCEPT ![i] = [step |-> "data", text |-> served.frame]]
    /\ UNCHANGED <<kind, xVariable, apiVars, ts, series, pageVars>>

\* A CPI older than the window by the stamp.  Two stamps read as one number
\* are a time far ahead.
Overdue(stamp, cpi) == IF Len(stamp) = 1 THEN cpis[stamp[1]].time - cpis[cpi].time > Window ELSE TRUE

\* The entries that go: after i calls of shift() the loop looks at entry i
\* (from zero) of what is left, and stops at its end or at one not overdue.
Shifts(h, stamp) ==
  CHOOSE i \in 0 .. Len(h) :
    /\ ~(i < Len(h) - i /\ Overdue(stamp, h[2 * i + 1]))
    /\ \A j \in 0 .. i - 1 : j < Len(h) - j /\ Overdue(stamp, h[2 * j + 1])

\* Mutant of Thinned: the newest entry is looked at.
ThinnedByNewest(h, stamp) == IF Overdue(stamp, h[Len(h)]) THEN Tail(h) ELSE h
Thinned(h, stamp) == SubSeq(h, Shifts(h, stamp) + 1, Len(h))

History(key) == IF key \in DOMAIN series THEN series[key] ELSE <<>>

PushDetection(cpi) == [data |-> Thinned(Append(History("data"), cpi), ts)]

PushIqdata(cpi)  == [data |-> KeepLast(Append(History("data"), cpi), NCpi)]
PushMaxhold(cpi) == [data |-> KeepLast(Append(History("data"), cpi), NCpi)]

\* Mutant of PushTiming: a stage that is not reported any more is kept.
PushTimingKeeps(cpi) ==
  [k \in DOMAIN series \union Keys(cpi) |->
     IF k \in Keys(cpi) THEN KeepLast(Append(History(k), cpi), NCpi) ELSE series[k]]
PushTiming(cpi) == [k \in Keys(cpi) |-> KeepLast(Append(History(k), cpi), NCpi)]

Pushed(cpi) == CASE kind = "detection" -> PushDetection(cpi)
                 [] kind = "iqdata"    -> PushIqdata(cpi)
                 [] kind = "maxhold"   -> PushMaxhold(cpi)
                 [] kind = "timing"    -> PushTiming(cpi)

\* The frame has arrived.  One that does not parse is logged, and its stamp
\* stays seen.
Take ==
  \E i \in DOMAIN requests :
    LET text == requests[i].text IN
    /\ requests[i].step = "data"
    /\ requests' = RemoveAt(requests, i)
    /\ series' = IF Len(text) = 1 THEN Pushed(text[1]) ELSE series
    /\ UNCHANGED <<kind, xVariable, apiVars, ts, pageVars>>

--------------------------------------------------------------------------------
(* The pages                                                               *)

Traces(answer) == IF kind = "timing" THEN [k \in DOMAIN answer \ {"timestamp"} |-> answer[k]]
                  ELSE IF answer = Nothing THEN [data |-> <<>>] ELSE answer

\* A page builds its plot when the signature of the answer differs from the
\* last one's, and otherwise gives the traces it has new values.  What the
\* callback needs and does not find ends it, with the signature noted.
\* `drawn' and `early' are history: the last answer that was plotted, and
\* whether an answer the callback failed on came before the first.
Redraw(answer, signature, complete) ==
  IF ~complete THEN [page EXCEPT !.signature = signature, !.early = @ \/ page.drawn = Nothing]
  ELSE IF signature # page.signature
    THEN [page EXCEPT !.signature = signature, !.drawn = answer, !.built = TRUE, !.traces = Traces(answer)]
    ELSE [page EXCEPT !.drawn = answer,
                      !.traces = [k \in DOMAIN @ |-> IF k \in DOMAIN Traces(answer) THEN Traces(answer)[k] ELSE <<>>]]

\* Mutant of PlotTiming: the number of rows, which the timings have not got.
PlotTimingRows(answer) == Redraw(answer, {"undefined"}, answer # Nothing)
PlotTiming(answer)    == Redraw(answer, DOMAIN answer \ {"timestamp"}, answer # Nothing)
PlotDetection(answer) == Redraw(answer, {"undefined"}, answer # Nothing \/ xVariable # "timestamp")
PlotSpectrum(answer)  == Redraw(answer, {"undefined"}, answer # Nothing)
PlotMap(answer)       == IF answer = Nothing THEN page ELSE Redraw(answer, {"rows"}, TRUE)

Plotted(answer) == CASE kind = "detection" -> PlotDetection(answer)
                     [] kind = "iqdata"    -> PlotSpectrum(answer)
                     [] kind = "maxhold"   -> PlotMap(answer)
                     [] kind = "timing"    -> PlotTiming(answer)

\* The page's timer: a stamp that differs (an empty one, too) is remembered,
\* and the history asked for.  It is one step: while the page waits the
\* stamps and the history only go on, and it looks again.
Refresh ==
  /\ Len(answers) < MaxAnswers /\ timestamp # served.stamp
  /\ timestamp' = served.stamp
  /\ answers' = Append(answers, series)
  /\ UNCHANGED <<kind, xVariable, apiVars, stashVars, page>>

\* An answer arrives, or is lost: .fail does nothing.
Draw ==
  \E i \in DOMAIN answers :
    /\ answers' = RemoveAt(answers, i)
    /\ page' \in {Plotted(answers[i]), page}
    /\ UNCHANGED <<kind, xVariable, apiVars, stashVars, timestamp>>

--------------------------------------------------------------------------------
Stash == Poll \/ Stamp \/ Answer \/ Take
Page  == Refresh \/ Draw
Next  == Send \/ Publish("stamp") \/ Publish("frame") \/ Restart \/ Stash \/ Page

Spec == Init /\ [][Next]_vars

\* The timers of the API's own process fire and its routes answer.  Nothing
\* is owed by blah2 or a browser.
FairSpec == Spec /\ WF_vars(Poll) /\ WF_vars(Stamp) /\ WF_vars(Answer) /\ WF_vars(Take)

--------------------------------------------------------------------------------
KeyNames == {"data"} \union UNION Stages

\* Every variable holds a value of its type, and the stashes but the one of
\* the detections no more than nCpi CPIs.
TypeOK ==
  /\ kind \in Kinds /\ xVariable \in {"timestamp", "delay"} /\ boot \in 1 .. MaxBoots[kind]
  /\ cpis \in Seq([stages : Stages \union {{}}, time : Nat]) /\ Len(cpis) <= Cpis
  /\ \A what \in {"stamp", "frame"} : read[what] \in 0 .. Len(cpis) /\ served[what] \in Texts
  /\ ts \in Texts /\ Len(requests) <= MaxRequests[kind]
  /\ \A i \in DOMAIN requests : requests[i].step \in {"stamp", "ask", "data"} /\ requests[i].text \in Texts
  /\ timestamp \in Texts \union {<<-1>>} /\ Len(answers) <= MaxAnswers
  /\ DOMAIN series \subseteq KeyNames /\ \A k \in DOMAIN series : series[k] \in Texts
  /\ \A k \in DOMAIN series : kind # "detection" => Len(series[k]) <= NCpi
  /\ page.built \in BOOLEAN /\ page.early \in BOOLEAN
  /\ \A k \in DOMAIN page.traces : page.traces[k] \in Texts

\* Whatever stages come and go, every line of the timing stash ends with the
\* newest CPI it took: no line is frozen at an older one and looks live
\* (stash/timing.js:31-40).  They need not begin together: the page draws a
\* stage that came later against the times of the CPIs before it.
SeriesEndTogether ==
  kind = "timing" =>
    \A j, k \in DOMAIN series : series[j][Len(series[j])] = series[k][Len(series[k])]

Ordered(h) == \A i, j \in DOMAIN h : i < j => cpis[h[i]].time <= cpis[h[j]].time
OverdueIn(h) == Cardinality({i \in DOMAIN h : Overdue(ts, h[i])})

\* Each CPI the detection stash takes rids it of at least half of what is
\* older than its window, and of nothing else, as long as the answers came in
\* the order of the CPIs.  The loop calls shift() while it counts up, and so
\* leaves the other half to the next CPI (stash/detection.js:39-49).
HalfGoes ==
  \A i \in DOMAIN requests :
    LET text   == requests[i].text
        before == Append(History("data"), text[1])
        after  == series'["data"]
        gone   == Len(before) - Len(after) IN
    kind = "detection" /\ UNCHANGED boot /\ requests[i].step = "data" /\ requests' = RemoveAt(requests, i)
      /\ Len(text) = 1 /\ Ordered(before)
      => /\ after = SubSeq(before, gone + 1, Len(before))
         /\ \A j \in 1 .. gone : Overdue(ts, before[j])
         /\ 2 * OverdueIn(after) <= OverdueIn(before)

\* No step of any behaviour keeps more of the window (stash/detection.js:39-49).
WindowThinned == [][HalfGoes]_vars

\* A CPI whose frame is served when its stamp is, and that the poller has not
\* seen, is taken into the history, or a newer one is, while its stamp stays
\* served, also when requests overlap and are answered out of order.  Not so
\* when two frames were read as one text (stash/detection.js:23-74 and its
\* three copies).
FreshCpiIsTaken ==
  \A k \in 1 .. Cpis :
    (served.stamp = <<k>> /\ Len(served.frame) = 1 /\ served.frame[1] >= k /\ ts # <<k>>)
    ~> \/ \E key \in DOMAIN series : \E i \in DOMAIN series[key] : series[key][i] >= k
       \/ served.stamp # <<k>> \/ Len(served.frame) > 1

\* A page plots what the stash told it last: every stage that was reported and
\* no other, with the values of that answer.  It is a plot of that data once
\* it had an answer, unless it was opened before the stash had any: the time
\* axes of plot_detection then stay on the empty heat map they begin with
\* (plot_timing.js:2-5, 118-186; plot_detection.js:100-138).
TracesAreSeries ==
  page.drawn # Nothing => page.traces = Traces(page.drawn) /\ (page.built \/ page.early)

================================================================================
