------------------------------ MODULE PollersProofs ----------------------------
(***************************************************************************)
(* Proofs about the clients that follow the time stamp, for any number of  *)
(* CPIs, of requests that overlap and of starts of the API, any window and *)
(* any length of the histories, however stamps and frames are read and     *)
(* answered: what a stash holds and what its page plots, and how far the   *)
(* window of the detections lags behind.                                   *)
(***************************************************************************)
EXTENDS Pollers, FiniteSetTheorems, SequenceTheorems, WellFoundedInduction, TLAPS

--------------------------------------------------------------------------------
(* The inductive invariant                                                 *)

\* A text holds CPIs that were sent, and a history those that were taken,
\* under one of the sets of keys that a CPI may have.
Sent      == Seq(1 .. Len(cpis))
KeySets   == IF kind = "timing" THEN Stages ELSE {{"data"}}
Histories == {Nothing} \cup UNION {[K -> Sent] : K \in KeySets}

\* What a plot has lines of, and what a page may note of an answer.
Lines      == {{"data"}, {"cpi"}, {"cpi", "detector"}}
Signatures == {{}, {"3 rows"}, {"rows"}, {"undefined"}} \cup Lines

ApiInv ==
  /\ kind \in Kinds /\ xVariable \in {"timestamp", "delay"} /\ boot \in 1 .. MaxBoots[kind]
  /\ cpis \in Seq([stages : Stages \cup {{}}, time : Nat]) /\ Len(cpis) <= Cpis
  /\ kind = "timing" => \A i \in 1 .. Len(cpis) : cpis[i].stages \in Stages
  /\ read \in [stamp : 0 .. Len(cpis), frame : 0 .. Len(cpis)]
  /\ served \in [stamp : Sent, frame : Sent]

Requests == [step : {"stamp", "ask", "data"}, text : Sent]
StashInv ==
  /\ ts \in Sent /\ requests \in Seq(Requests) /\ Len(requests) <= MaxRequests[kind]
  /\ series \in Histories
  /\ \A k \in DOMAIN series : kind # "detection" => Len(series[k]) <= NCpi

Pages == [signature : Signatures, built : BOOLEAN, early : BOOLEAN,
          drawn : Histories, traces : UNION {[K -> Sent] : K \in Lines}]

\* The signature a page noted is that of the lines it has, unless a callback
\* failed on an answer since: then it is one that no answer with CPIs has.
\* The other kinds of plot have one line, whatever they note.
Signed(p) ==
  /\ kind = "timing" => p.signature = {} \/ (p.signature = DOMAIN p.traces /\ p.built)
  /\ kind # "timing" => /\ DOMAIN p.traces = {"data"}
                        /\ p.signature # {"3 rows"} => p.built \/ p.early

Shown(p) == p.drawn # Nothing => p.traces = Traces(p.drawn) /\ (p.built \/ p.early)

PageInv ==
  /\ timestamp \in Sent \cup {<<-1>>} /\ answers \in Seq(Histories) /\ Len(answers) <= MaxAnswers
  /\ page \in Pages /\ Signed(page) /\ Shown(page)

IInv == ApiInv /\ StashInv /\ PageInv /\ SeriesEndTogether

--------------------------------------------------------------------------------
(* Sequences                                                               *)

\* What RemoveAt leaves.
LEMMA Removed ==
  ASSUME NEW S, NEW s \in Seq(S), NEW i \in DOMAIN s
  PROVE  LET r == RemoveAt(s, i)
         IN  /\ r \in Seq(S) /\ Len(r) = Len(s) - 1
             /\ \A j \in 1 .. Len(s) - 1 : r[j] = IF j < i THEN s[j] ELSE s[j + 1]
<1> DEFINE a == SubSeq(s, 1, i - 1)
           b == SubSeq(s, i + 1, Len(s))
<1>1. Len(s) \in Nat /\ i \in 1 .. Len(s) /\ \A j \in 1 .. Len(s) : s[j] \in S
  BY LenProperties, ElementOfSeq
<1>2. a \in Seq(S) /\ Len(a) = i - 1 /\ \A j \in 1 .. i - 1 : a[j] = s[j]
  <2>1. \A j \in 1 .. i - 1 : s[j] \in S
    BY <1>1
  <2>2. /\ a \in Seq(S) /\ Len(a) = IF 1 <= i - 1 THEN i - 1 - 1 + 1 ELSE 0
        /\ \A j \in 1 .. i - 1 - 1 + 1 : a[j] = s[1 + j - 1]
    BY <1>1, <2>1, SubSeqProperties
  <2> QED
    BY <1>1, <2>2
<1>3. /\ b \in Seq(S) /\ Len(b) = Len(s) - i
      /\ \A j \in 1 .. Len(s) - i : b[j] = s[i + j]
  <2>1. \A j \in i + 1 .. Len(s) : s[j] \in S
    BY <1>1
  <2>2. /\ b \in Seq(S) /\ Len(b) = IF i + 1 <= Len(s) THEN Len(s) - (i + 1) + 1 ELSE 0
        /\ \A j \in 1 .. Len(s) - (i + 1) + 1 : b[j] = s[i + 1 + j - 1]
    BY <1>1, <2>1, SubSeqProperties
  <2> QED
    BY <1>1, <2>2
<1> HIDE DEF a, b
<1>4. /\ a \o b \in Seq(S) /\ Len(a \o b) = Len(a) + Len(b)
      /\ \A j \in 1 .. Len(a) + Len(b) : (a \o b)[j] = IF j <= Len(a) THEN a[j] ELSE b[j - Len(a)]
  BY <1>2, <1>3, ConcatProperties
<1>5. ASSUME NEW j \in 1 .. Len(s) - 1
      PROVE  (a \o b)[j] = IF j < i THEN s[j] ELSE s[j + 1]
  <2>1. j \in 1 .. Len(a) + Len(b)
    BY <1>1, <1>2, <1>3
  <2>2. CASE j < i
    BY <1>1, <1>2, <1>4, <2>1, <2>2
  <2>3. CASE ~(j < i)
    <3>1. ~(j <= Len(a)) /\ j - Len(a) \in 1 .. Len(s) - i /\ i + (j - Len(a)) = j + 1
      BY <1>1, <1>2, <2>3
    <3>2. (a \o b)[j] = b[j - Len(a)]
      BY <1>4, <2>1, <3>1
    <3> QED
      BY <1>3, <2>3, <3>1, <3>2
  <2> QED
    BY <2>2, <2>3
<1>6. RemoveAt(s, i) = a \o b
  BY DEF RemoveAt, a, b
<1>7. Len(a \o b) = Len(s) - 1
  BY <1>1, <1>2, <1>3, <1>4
<1> QED
  BY <1>4, <1>5, <1>6, <1>7

\* A history that is cut to a length ends as it did.
LEMMA Kept ==
  ASSUME NEW S, NEW h \in Seq(S), NEW n \in Nat \ {0}
  PROVE  LET k == KeepLast(h, n)
         IN  /\ k \in Seq(S) /\ Len(k) <= n
             /\ h # <<>> => Len(k) \in 1 .. n /\ k[Len(k)] = h[Len(h)]
<1>1. Len(h) \in Nat /\ \A j \in 1 .. Len(h) : h[j] \in S
  BY LenProperties, ElementOfSeq
<1>2. h # <<>> => Len(h) > 0
  BY EmptySeq
<1>3. CASE Len(h) > n
  <2> DEFINE m == Len(h) - n + 1
  <2>1. m \in Int /\ m \in 2 .. Len(h)
    BY <1>1, <1>3
  <2>2. \A j \in m .. Len(h) : h[j] \in S
    BY <1>1, <2>1
  <2>3. /\ SubSeq(h, m, Len(h)) \in Seq(S)
        /\ Len(SubSeq(h, m, Len(h))) = IF m <= Len(h) THEN Len(h) - m + 1 ELSE 0
        /\ \A j \in 1 .. Len(h) - m + 1 : SubSeq(h, m, Len(h))[j] = h[m + j - 1]
    <3> HIDE DEF m
    <3> QED
      BY <1>1, <2>1, <2>2, SubSeqProperties
  <2>4. Len(h) - m + 1 = n /\ m + n - 1 = Len(h)
    BY <1>1
  <2>5. KeepLast(h, n) = SubSeq(h, m, Len(h))
    BY <1>3 DEF KeepLast
  <2> HIDE DEF m
  <2> QED
    BY <2>1, <2>3, <2>4, <2>5
<1>4. CASE ~(Len(h) > n)
  BY <1>1, <1>2, <1>4 DEF KeepLast
<1> QED
  BY <1>3, <1>4

--------------------------------------------------------------------------------
(* Texts and histories                                                     *)

\* The assumption on the constants, by the kind of stash.
LEMMA Constants ==
  /\ Cpis \in Nat /\ MaxRead \in Nat \ {0} /\ Window \in Nat /\ NCpi \in Nat \ {0}
  /\ \A k \in Kinds : MaxRequests[k] \in Nat \ {0} /\ MaxBoots[k] \in Nat \ {0}
  /\ MaxAnswers \in Nat \ {0} /\ Gap \in Nat \ {0}
BY PollersAssumption DEF PollersAssumption

\* A history has something in it: it is not the output before the first CPI.
LEMMA HistoryForm ==
  ASSUME NEW h \in Histories
  PROVE  \/ h = Nothing /\ DOMAIN h = {}
         \/ /\ h # Nothing
            /\ \E K \in KeySets : h \in [K -> Sent] /\ DOMAIN h = K
            /\ kind # "timing" => DOMAIN h = {"data"} /\ h \in [{"data"} -> Sent]
            /\ kind = "timing" => "cpi" \in DOMAIN h /\ "timestamp" \in DOMAIN h
<1>1. DOMAIN Nothing = {}
  BY DEF Nothing
<1>2. CASE h # Nothing
  <2>1. PICK K \in KeySets : h \in [K -> Sent]
    BY <1>2 DEF Histories
  <2>2. DOMAIN h = K
    BY <2>1
  <2>3. kind # "timing" => K = {"data"}
    BY <2>1 DEF KeySets
  <2>4. kind = "timing" => "cpi" \in K /\ "timestamp" \in K
    BY <2>1 DEF KeySets, Stages
  <2> QED
    BY <1>2, <2>1, <2>2, <2>3, <2>4
<1> QED
  BY <1>1, <1>2

\* More CPIs are sent: texts and histories remain such.
LEMMA SentGrows ==
  ASSUME kind' = kind, Len(cpis) \in Nat, Len(cpis') \in Nat, Len(cpis) <= Len(cpis')
  PROVE  /\ Sent \subseteq Sent' /\ Histories \subseteq Histories' /\ Requests \subseteq Requests'
         /\ Pages \subseteq Pages'
         /\ Seq(Requests) \subseteq Seq(Requests') /\ Seq(Histories) \subseteq Seq(Histories')
<1>1. Sent \subseteq Sent'
  <2>1. 1 .. Len(cpis) \subseteq 1 .. Len(cpis')
    OBVIOUS
  <2>2. ASSUME NEW s \in Seq(1 .. Len(cpis)) PROVE s \in Seq(1 .. Len(cpis'))
    BY <2>1, SeqMonotonic
  <2> QED
    BY <2>2 DEF Sent
<1>2. \A K : [K -> Sent] \subseteq [K -> Sent']
  BY <1>1
<1>3. KeySets' = KeySets
  BY DEF KeySets
<1>4. Histories \subseteq Histories'
  BY <1>2, <1>3 DEF Histories
<1>5. Requests \subseteq Requests'
  BY <1>1 DEF Requests
<1>6. Pages \subseteq Pages'
  <2>1. UNION {[K -> Sent] : K \in Lines} \subseteq UNION {[K -> Sent'] : K \in Lines}
    BY <1>2
  <2> QED
    BY <1>4, <2>1 DEF Pages
<1>7. Seq(Requests) \subseteq Seq(Requests')
  BY <1>5, SeqMonotonic
<1>8. Seq(Histories) \subseteq Seq(Histories')
  BY <1>4, SeqMonotonic
<1> QED
  BY <1>1, <1>4, <1>5, <1>6, <1>7, <1>8

\* Nothing is sent: the sets are the same.
LEMMA SentStays ==
  ASSUME UNCHANGED <<kind, cpis>>
  PROVE  /\ Sent' = Sent /\ Histories' = Histories /\ Requests' = Requests /\ Pages' = Pages
         /\ Len(cpis') = Len(cpis)
BY DEF Sent, KeySets, Histories, Requests, Pages

--------------------------------------------------------------------------------
\* It holds before the first CPI.
LEMMA InitIInv == Init => IInv
<1> SUFFICES ASSUME Init PROVE IInv
  OBVIOUS
<1> USE Constants DEF Init
<1>1. Len(cpis) = 0 /\ <<>> \in Sent /\ <<>> \in Seq(Requests) /\ <<>> \in Seq(Histories)
  BY EmptySeq DEF Sent
<1>2. Nothing \in Histories /\ DOMAIN Nothing = {}
  BY DEF Histories, Nothing
<1>3. ApiInv
  BY <1>1, EmptySeq DEF ApiInv, Kinds
<1>4. StashInv
  BY <1>1, <1>2, Len(<<>>) = 0, EmptySeq DEF StashInv, Kinds
<1>5. NewPage \in Pages
  <2>1. [k \in {"data"} |-> <<>>] \in [{"data"} -> Sent] /\ {"data"} \in Lines
    BY <1>1 DEF Lines
  <2>2. NewPage.signature \in Signatures
    BY DEF NewPage, Signatures
  <2>3. [k \in {"data"} |-> <<>>] \in UNION {[K -> Sent] : K \in Lines}
    BY <2>1
  <2> QED
    BY <1>2, <2>2, <2>3 DEF NewPage, Pages
<1>6. PageInv
  <2>1. Signed(page) /\ Shown(page)
    BY DEF NewPage, Signed, Shown
  <2>2. Len(answers) <= MaxAnswers
    BY <1>1
  <2> QED
    BY <1>1, <1>5, <2>1, <2>2 DEF PageInv
<1>7. SeriesEndTogether
  BY <1>2 DEF SeriesEndTogether
<1> QED
  BY <1>3, <1>4, <1>6, <1>7 DEF IInv

--------------------------------------------------------------------------------
(* The steps outside the stash                                             *)

\* What a step leaves alone stays well formed.
LEMMA StashStays ==
  ASSUME IInv, UNCHANGED <<kind, stashVars>>, Len(cpis') \in Nat, Len(cpis) <= Len(cpis')
  PROVE  StashInv' /\ SeriesEndTogether'
<1>1. Len(cpis) \in Nat
  BY LenProperties DEF IInv, ApiInv
<1>2. Sent \subseteq Sent' /\ Histories \subseteq Histories' /\ Seq(Requests) \subseteq Seq(Requests')
  BY <1>1, SentGrows
<1>3. StashInv'
  BY <1>2 DEF IInv, StashInv, stashVars
<1>4. SeriesEndTogether'
  BY DEF IInv, SeriesEndTogether, stashVars
<1> QED
  BY <1>3, <1>4

\* What a page plots stays what it was when CPIs are sent.
LEMMA PageStays ==
  ASSUME IInv, UNCHANGED <<kind, page>>, Len(cpis') \in Nat, Len(cpis) <= Len(cpis'),
         timestamp' \in Sent' \cup {<<-1>>}, answers' \in Seq(Histories'), Len(answers') <= MaxAnswers
  PROVE  PageInv'
<1>1. Len(cpis) \in Nat
  BY LenProperties DEF IInv, ApiInv
<1>2. Pages \subseteq Pages'
  BY <1>1, SentGrows
<1>3. page' \in Pages'
  BY <1>2 DEF IInv, PageInv
<1>4. Signed(page)' /\ Shown(page)'
  BY DEF IInv, PageInv, Signed, Shown, Traces
<1> QED
  BY <1>3, <1>4 DEF PageInv

\* blah2 sends a CPI: it is later than the others, and has stages if it is timed.
LEMMA SendKeepsIInv == IInv /\ Send => IInv'
<1> SUFFICES ASSUME IInv, Send PROVE IInv'
  OBVIOUS
<1> USE Constants
<1> DEFINE Cpi == [stages : Stages \cup {{}}, time : Nat]
<1>1. cpis \in Seq(Cpi) /\ Len(cpis) \in Nat /\ kind \in Kinds
  BY LenProperties DEF IInv, ApiInv
<1>2. PICK gap \in (IF kind = "detection" /\ cpis # <<>> THEN {1, Gap} ELSE {1}),
           stages \in (IF kind = "timing" THEN Stages ELSE {{}}) :
        cpis' = Append(cpis, [stages |-> stages,
                  time |-> gap + (IF cpis = <<>> THEN 0 ELSE cpis[Len(cpis)].time)])
  BY DEF Send
<1> DEFINE new == [stages |-> stages, time |-> gap + (IF cpis = <<>> THEN 0 ELSE cpis[Len(cpis)].time)]
<1>3. new \in Cpi
  <2>1. gap \in Nat
    BY <1>2, {1, Gap} \subseteq Nat
  <2>2. cpis # <<>> => cpis[Len(cpis)] \in Cpi
    <3> HIDE DEF Cpi
    <3>1. cpis # <<>> => Len(cpis) \in 1 .. Len(cpis)
      BY <1>1, EmptySeq
    <3> QED
      BY <1>1, <3>1, ElementOfSeq
  <2>3. (IF cpis = <<>> THEN 0 ELSE cpis[Len(cpis)].time) \in Nat
    BY <2>2
  <2>4. stages \in Stages \cup {{}}
    BY <1>2
  <2>5. gap + (IF cpis = <<>> THEN 0 ELSE cpis[Len(cpis)].time) \in Nat
    BY ONLY <2>1, <2>3
  <2> QED
    BY ONLY <2>4, <2>5
<1>4. new.stages = stages
  OBVIOUS
<1> HIDE DEF new
<1>5. cpis' = Append(cpis, new)
  BY <1>2 DEF new
<1>6. /\ cpis' \in Seq(Cpi) /\ Len(cpis') = Len(cpis) + 1
      /\ \A i \in 1 .. Len(cpis) : cpis'[i] = cpis[i]
      /\ cpis'[Len(cpis) + 1] = new
  <2> HIDE DEF Cpi
  <2> QED
    BY <1>1, <1>3, <1>5, AppendProperties
<1>7. Len(cpis') \in Nat /\ Len(cpis) <= Len(cpis')
  BY <1>1, <1>6
<1>8. Sent \subseteq Sent' /\ Seq(Histories) \subseteq Seq(Histories')
  BY <1>1, <1>7, SentGrows DEF Send
<1>9. ApiInv'
  <2>1. kind' = kind /\ xVariable' = xVariable /\ boot' = boot /\ read' = read /\ served' = served
    BY DEF Send
  <2>2. Len(cpis') <= Cpis
    BY <1>1, <1>6 DEF Send
  <2>3. kind' = "timing" => \A i \in 1 .. Len(cpis') : cpis'[i].stages \in Stages
    <3> SUFFICES ASSUME kind = "timing", NEW i \in 1 .. Len(cpis') PROVE cpis'[i].stages \in Stages
      BY <2>1
    <3>1. CASE i \in 1 .. Len(cpis)
      BY <1>6, <3>1 DEF IInv, ApiInv
    <3>2. CASE i = Len(cpis) + 1
      BY <1>2, <1>4, <1>6, <3>2
    <3> QED
      BY <1>1, <1>6, <3>1, <3>2
  <2>4. read' \in [stamp : 0 .. Len(cpis'), frame : 0 .. Len(cpis')]
    BY <1>1, <1>6, <2>1 DEF IInv, ApiInv
  <2>5. served' \in [stamp : Sent', frame : Sent']
    BY <1>8, <2>1 DEF IInv, ApiInv
  <2> QED
    BY <1>6, <2>1, <2>2, <2>3, <2>4, <2>5 DEF IInv, ApiInv
<1>10. StashInv' /\ SeriesEndTogether'
  BY <1>7, StashStays DEF Send
<1>11. PageInv'
  <2>1. UNCHANGED <<kind, page>> /\ timestamp' = timestamp /\ answers' = answers
    BY DEF Send, pageVars
  <2>2. timestamp' \in Sent' \cup {<<-1>>} /\ answers' \in Seq(Histories') /\ Len(answers') <= MaxAnswers
    BY <1>8, <2>1 DEF IInv, PageInv
  <2> QED
    BY <1>7, <2>1, <2>2, PageStays
<1> QED
  BY <1>9, <1>10, <1>11 DEF IInv

\* A listener publishes CPIs that were sent.
LEMMA PublishKeepsIInv == \A what \in {"stamp", "frame"} : IInv /\ Publish(what) => IInv'
<1> SUFFICES ASSUME NEW what \in {"stamp", "frame"}, IInv, Publish(what) PROVE IInv'
  OBVIOUS
<1> USE Constants
<1>1. /\ read \in [stamp : 0 .. Len(cpis), frame : 0 .. Len(cpis)]
      /\ served \in [stamp : Sent, frame : Sent]
      /\ Len(cpis) \in Nat
  BY LenProperties DEF IInv, ApiInv
<1>2. PICK n \in 1 .. MaxRead :
        /\ read[what] + n <= Len(cpis)
        /\ served' = [served EXCEPT ![what] = [i \in 1 .. n |-> read[what] + i]]
        /\ read' = [read EXCEPT ![what] = @ + n]
        /\ UNCHANGED <<kind, xVariable, boot, cpis, stashVars, pageVars>>
  BY DEF Publish
<1>3. read[what] \in Nat
  BY <1>1
<1>4. [i \in 1 .. n |-> read[what] + i] \in Sent
  <2>1. \A i \in 1 .. n : read[what] + i \in 1 .. Len(cpis)
    BY <1>1, <1>2, <1>3
  <2>2. [i \in 1 .. n |-> read[what] + i] \in [1 .. n -> 1 .. Len(cpis)] /\ n \in Nat
    BY <2>1
  <2> QED
    BY <2>2 DEF Sent
<1>5. served' \in [stamp : Sent, frame : Sent]
  BY <1>1, <1>2, <1>4
<1>6. read' \in [stamp : 0 .. Len(cpis), frame : 0 .. Len(cpis)]
  BY <1>1, <1>2, <1>3
<1>7. Sent' = Sent /\ Histories' = Histories /\ Len(cpis') = Len(cpis)
  BY <1>2, SentStays
<1>8. ApiInv'
  BY <1>2, <1>5, <1>6, <1>7 DEF IInv, ApiInv
<1>9. StashInv' /\ SeriesEndTogether'
  BY <1>1, <1>2, <1>7, StashStays
<1>10. PageInv'
  <2>1. UNCHANGED <<kind, page>> /\ timestamp' = timestamp /\ answers' = answers
    BY <1>2 DEF pageVars
  <2>2. timestamp' \in Sent' \cup {<<-1>>} /\ answers' \in Seq(Histories') /\ Len(answers') <= MaxAnswers
    BY <1>7, <2>1 DEF IInv, PageInv
  <2> QED
    BY <1>1, <1>7, <2>1, <2>2, PageStays
<1> QED
  BY <1>8, <1>9, <1>10 DEF IInv

\* The API starts again with an empty stash, under the page that stays.
LEMMA RestartKeepsIInv == IInv /\ Restart => IInv'
<1> SUFFICES ASSUME IInv, Restart PROVE IInv'
  OBVIOUS
<1> USE Constants
<1>1. Len(cpis) \in Nat /\ kind \in Kinds /\ kind' = kind /\ cpis' = cpis
  BY LenProperties DEF IInv, ApiInv, Restart
<1>2. Sent' = Sent /\ Histories' = Histories /\ Requests' = Requests
  BY <1>1, SentStays
<1>3. <<>> \in Sent /\ <<>> \in Seq(Requests) /\ <<>> \in Seq(Histories) /\ Len(<<>>) = 0
  BY EmptySeq DEF Sent
<1>4. Nothing \in Histories /\ DOMAIN Nothing = {}
  BY DEF Histories, Nothing
<1>5. ApiInv'
  <2>1. boot' \in 1 .. MaxBoots[kind]
    BY <1>1 DEF IInv, ApiInv, Restart
  <2>2. read' \in [stamp : 0 .. Len(cpis), frame : 0 .. Len(cpis)]
    BY <1>1 DEF Restart
  <2>3. served' \in [stamp : Sent, frame : Sent]
    BY <1>3 DEF Restart
  <2>4. xVariable' = xVariable
    BY DEF Restart
  <2> QED
    BY <1>1, <1>2, <2>1, <2>2, <2>3, <2>4 DEF IInv, ApiInv
<1>6. StashInv'
  <2>1. ts' = <<>> /\ requests' = <<>> /\ series' = Nothing
    BY DEF Restart
  <2>2. 0 <= MaxRequests[kind]
    BY <1>1
  <2> QED
    BY <1>1, <1>2, <1>3, <1>4, <2>1, <2>2 DEF StashInv
<1>7. SeriesEndTogether'
  BY <1>4 DEF Restart, SeriesEndTogether
<1>8. PageInv'
  <2>1. UNCHANGED <<kind, page>> /\ timestamp' = timestamp /\ answers' = <<>>
    BY DEF Restart
  <2>2. timestamp' \in Sent' \cup {<<-1>>} /\ answers' \in Seq(Histories') /\ Len(answers') <= MaxAnswers
    BY <1>2, <1>3, <2>1 DEF IInv, PageInv
  <2>3. Len(cpis') \in Nat /\ Len(cpis) <= Len(cpis')
    BY <1>1
  <2> QED
    BY <2>1, <2>2, <2>3, PageStays
<1> QED
  BY <1>5, <1>6, <1>7, <1>8 DEF IInv

--------------------------------------------------------------------------------
(* The steps of the stash                                                  *)

\* A step of the stash leaves the API and the page alone.
LEMMA StashStep ==
  ASSUME IInv, UNCHANGED <<kind, xVariable, apiVars, pageVars>>, StashInv', SeriesEndTogether'
  PROVE  IInv'
<1>1. UNCHANGED <<kind, xVariable, boot, cpis, read, served, timestamp, answers, page>>
  BY DEF apiVars, pageVars
<1>2. Len(cpis) \in Nat /\ Sent' = Sent /\ Histories' = Histories /\ Len(cpis') = Len(cpis)
  BY <1>1, SentStays, LenProperties DEF IInv, ApiInv
<1>3. ApiInv'
  BY <1>1, <1>2 DEF IInv, ApiInv
<1>4. PageInv'
  BY <1>1, <1>2, PageStays DEF IInv, PageInv
<1> QED
  BY <1>3, <1>4 DEF IInv

\* A request of the stash brings the stamp that is served.
LEMMA PollKeepsIInv == IInv /\ Poll => IInv'
<1> SUFFICES ASSUME IInv, Poll PROVE IInv'
  OBVIOUS
<1> DEFINE r == [step |-> "stamp", text |-> served.stamp]
<1>1. r \in Requests
  BY DEF IInv, ApiInv, Requests
<1>2. requests \in Seq(Requests)
  BY DEF IInv, StashInv
<1>3. requests' = Append(requests, r) /\ Len(requests) < MaxRequests[kind]
  BY DEF Poll
<1> HIDE DEF r
<1>4. requests' \in Seq(Requests) /\ Len(requests') = Len(requests) + 1
  BY <1>1, <1>2, <1>3, AppendProperties
<1>5. Len(requests') <= MaxRequests[kind]
  BY <1>2, <1>3, <1>4, Constants, LenProperties DEF IInv, ApiInv
<1>6. UNCHANGED <<kind, xVariable, apiVars, ts, series, pageVars>> /\ UNCHANGED <<kind, cpis>>
  BY DEF Poll, apiVars
<1>7. Sent' = Sent /\ Histories' = Histories /\ Requests' = Requests
  BY <1>6, SentStays
<1>8. StashInv'
  BY <1>4, <1>5, <1>6, <1>7 DEF IInv, StashInv
<1>9. SeriesEndTogether'
  BY <1>6 DEF IInv, SeriesEndTogether
<1> QED
  BY <1>6, <1>8, <1>9, StashStep

\* A request of the stash ends, or goes on to its next step.
LEMMA RequestMoves ==
  ASSUME IInv, NEW i \in DOMAIN requests, NEW r \in Requests,
         requests' \in {RemoveAt(requests, i), [requests EXCEPT ![i] = r]}
  PROVE  /\ requests[i] \in Requests
         /\ requests' \in Seq(Requests) /\ Len(requests') <= MaxRequests[kind]
<1>1. /\ requests \in Seq(Requests) /\ Len(requests) <= MaxRequests[kind]
      /\ Len(requests) \in Nat /\ i \in 1 .. Len(requests) /\ kind \in Kinds
  BY LenProperties DEF IInv, ApiInv, StashInv
<1>2. MaxRequests[kind] \in Nat
  BY <1>1, Constants
<1>3. requests[i] \in Requests
  BY <1>1, ElementOfSeq
<1>4. CASE requests' = RemoveAt(requests, i)
  <2>1. requests' \in Seq(Requests) /\ Len(requests') = Len(requests) - 1
    BY <1>1, <1>4, Removed
  <2> QED
    BY <1>1, <1>2, <1>3, <2>1
<1>5. CASE requests' = [requests EXCEPT ![i] = r]
  <2>1. requests' \in Seq(Requests) /\ Len(requests') = Len(requests)
    BY <1>1, <1>5, ExceptSeq
  <2> QED
    BY <1>1, <1>3, <2>1
<1> QED
  BY <1>4, <1>5

\* The stamp is remembered, and its frame asked for or not.
LEMMA StampKeepsIInv == IInv /\ Stamp => IInv'
<1> SUFFICES ASSUME IInv, Stamp PROVE IInv'
  OBVIOUS
<1>1. PICK i \in DOMAIN requests :
        /\ ts' = requests[i].text
        /\ requests' = IF ts' # ts THEN [requests EXCEPT ![i] = Ask] ELSE RemoveAt(requests, i)
        /\ UNCHANGED <<kind, xVariable, apiVars, series, pageVars>>
  BY DEF Stamp
<1>2. Ask \in Requests
  BY EmptySeq DEF Ask, Requests, Sent
<1>3. requests[i] \in Requests /\ requests' \in Seq(Requests) /\ Len(requests') <= MaxRequests[kind]
  BY <1>1, <1>2, RequestMoves
<1>4. ts' \in Sent
  BY <1>1, <1>3 DEF Requests
<1>5. Sent' = Sent /\ Histories' = Histories /\ Requests' = Requests
  BY <1>1, SentStays DEF apiVars
<1>6. StashInv'
  BY <1>1, <1>3, <1>4, <1>5 DEF IInv, StashInv
<1>7. SeriesEndTogether'
  BY <1>1 DEF IInv, SeriesEndTogether
<1> QED
  BY <1>1, <1>6, <1>7, StashStep

\* The frame that is served is on its way to the stash.
LEMMA AnswerKeepsIInv == IInv /\ Answer => IInv'
<1> SUFFICES ASSUME IInv, Answer PROVE IInv'
  OBVIOUS
<1> DEFINE r == [step |-> "data", text |-> served.frame]
<1>1. PICK i \in DOMAIN requests :
        /\ requests' = [requests EXCEPT ![i] = r]
        /\ UNCHANGED <<kind, xVariable, apiVars, ts, series, pageVars>>
  BY DEF Answer
<1>2. r \in Requests
  BY DEF IInv, ApiInv, Requests
<1> HIDE DEF r
<1>3. requests' \in Seq(Requests) /\ Len(requests') <= MaxRequests[kind]
  BY <1>1, <1>2, RequestMoves
<1>4. Sent' = Sent /\ Histories' = Histories /\ Requests' = Requests
  BY <1>1, SentStays DEF apiVars
<1>5. StashInv'
  BY <1>1, <1>3, <1>4 DEF IInv, StashInv
<1>6. SeriesEndTogether'
  BY <1>1 DEF IInv, SeriesEndTogether
<1> QED
  BY <1>1, <1>5, <1>6, StashStep

\* The history under a key, and with one more CPI.
LEMMA HistoryGrows ==
  ASSUME IInv, NEW key, NEW cpi \in 1 .. Len(cpis)
  PROVE  /\ History(key) \in Sent /\ Len(History(key)) \in Nat
         /\ LET h == Append(History(key), cpi)
            IN  /\ h \in Sent /\ h # <<>> /\ Len(h) = Len(History(key)) + 1 /\ h[Len(h)] = cpi
                /\ \A i \in 1 .. Len(History(key)) : h[i] = History(key)[i]
<1>1. series \in Histories
  BY DEF IInv, StashInv
<1>2. History(key) \in Sent
  <2>1. CASE key \in DOMAIN series
    <3>1. PICK K \in KeySets : series \in [K -> Sent]
      BY <1>1, <2>1, HistoryForm
    <3> QED
      BY <2>1, <3>1 DEF History
  <2>2. CASE key \notin DOMAIN series
    BY <2>2, EmptySeq DEF History, Sent
  <2> QED
    BY <2>1, <2>2
<1> DEFINE old == History(key)
           h == Append(old, cpi)
<1> HIDE DEF old
<1>3. old \in Seq(1 .. Len(cpis)) /\ Len(old) \in Nat
  BY <1>2, LenProperties DEF old, Sent
<1>4. /\ h \in Seq(1 .. Len(cpis)) /\ h # <<>> /\ Len(h) = Len(old) + 1
      /\ \A i \in 1 .. Len(old) : h[i] = old[i]
      /\ h[Len(old) + 1] = cpi
  BY <1>3, AppendProperties
<1> QED
  BY <1>3, <1>4 DEF old, Sent

\* A history that is kept to nCpi CPIs takes one more.
LEMMA KeptHistoryGrows ==
  ASSUME IInv, NEW key, NEW cpi \in 1 .. Len(cpis)
  PROVE  LET k == KeepLast(Append(History(key), cpi), NCpi)
         IN  k \in Sent /\ Len(k) \in 1 .. NCpi /\ k[Len(k)] = cpi
<1> DEFINE h == Append(History(key), cpi)
<1>1. h \in Sent /\ h # <<>> /\ h[Len(h)] = cpi
  BY HistoryGrows
<1> HIDE DEF h
<1>2. /\ KeepLast(h, NCpi) \in Seq(1 .. Len(cpis)) /\ Len(KeepLast(h, NCpi)) \in 1 .. NCpi
      /\ KeepLast(h, NCpi)[Len(KeepLast(h, NCpi))] = h[Len(h)]
  BY <1>1, Kept, Constants DEF Sent
<1> QED
  BY <1>1, <1>2 DEF Sent, h

--------------------------------------------------------------------------------
(* The window of the detections                                            *)

\* A set of numbers has a least one.
LEMMA LeastOf ==
  ASSUME NEW T \in SUBSET Nat, T # {}
  PROVE  \E x \in T : \A y \in T : x <= y
<1>1. PICK x \in T : \A y \in T : <<y, x>> \notin OpToRel(<, Nat)
  BY NatLessThanWellFounded, WFMin
<1>2. \A y \in T : ~(y < x)
  BY <1>1 DEF OpToRel
<1> QED
  BY <1>2

\* The loop over the history ends: within it, or at its end.
LEMMA ShiftsEnd ==
  ASSUME NEW S, NEW h \in Seq(S), NEW stamp
  PROVE  LET i == Shifts(h, stamp)
         IN  /\ i \in 0 .. Len(h)
             /\ ~(i < Len(h) - i /\ Overdue(stamp, h[2 * i + 1]))
             /\ \A j \in 0 .. i - 1 : j < Len(h) - j /\ Overdue(stamp, h[2 * j + 1])
<1>1. Len(h) \in Nat
  BY LenProperties
<1> DEFINE Goes(j) == j < Len(h) - j /\ Overdue(stamp, h[2 * j + 1])
           T == {i \in 0 .. Len(h) : ~Goes(i)}
<1>2. Len(h) \in T /\ T \subseteq Nat
  BY <1>1
<1>3. PICK i \in T : \A y \in T : i <= y
  <2> HIDE DEF T
  <2> QED
    BY <1>2, LeastOf
<1>4. i \in 0 .. Len(h) /\ ~Goes(i) /\ \A j \in 0 .. i - 1 : Goes(j)
  <2> HIDE DEF Goes
  <2>1. i \in 0 .. Len(h) /\ ~Goes(i)
    OBVIOUS
  <2>2. ASSUME NEW j \in 0 .. i - 1 PROVE Goes(j)
    <3>1. j \in 0 .. Len(h) /\ ~(i <= j)
      BY <1>1, <2>1
    <3> QED
      BY <1>3, <3>1
  <2> QED
    BY <2>1, <2>2
<1>5. \E k \in 0 .. Len(h) : ~Goes(k) /\ \A j \in 0 .. k - 1 : Goes(j)
  <2> HIDE DEF Goes
  <2> QED
    BY <1>4
<1> QED
  BY <1>5 DEF Shifts

\* What is left is the end of the history.
LEMMA ThinnedIsTheEnd ==
  ASSUME NEW S, NEW h \in Seq(S), NEW stamp
  PROVE  LET i == Shifts(h, stamp)
             t == Thinned(h, stamp)
         IN  /\ t \in Seq(S) /\ Len(t) = Len(h) - i
             /\ \A k \in 1 .. Len(h) - i : t[k] = h[i + k]
<1> DEFINE i == Shifts(h, stamp)
<1>1. Len(h) \in Nat /\ i \in 0 .. Len(h) /\ \A j \in 1 .. Len(h) : h[j] \in S
  BY ShiftsEnd, LenProperties, ElementOfSeq
<1>2. Thinned(h, stamp) = SubSeq(h, i + 1, Len(h))
  BY DEF Thinned
<1> HIDE DEF i
<1>3. \A j \in i + 1 .. Len(h) : h[j] \in S
  BY <1>1
<1>4. /\ SubSeq(h, i + 1, Len(h)) \in Seq(S)
      /\ Len(SubSeq(h, i + 1, Len(h))) = IF i + 1 <= Len(h) THEN Len(h) - (i + 1) + 1 ELSE 0
      /\ \A k \in 1 .. Len(h) - (i + 1) + 1 : SubSeq(h, i + 1, Len(h))[k] = h[i + 1 + k - 1]
  BY <1>1, <1>3, SubSeqProperties
<1>5. \A k \in 1 .. Len(h) - i : SubSeq(h, i + 1, Len(h))[k] = h[i + k]
  BY <1>1, <1>4
<1>6. Len(SubSeq(h, i + 1, Len(h))) = Len(h) - i
  BY <1>1, <1>4
<1> QED
  BY <1>2, <1>4, <1>5, <1>6 DEF i

\* The older a CPI, the sooner it is overdue.
LEMMA OlderIsOverdue ==
  ASSUME IInv, NEW stamp \in Sent, NEW a \in 1 .. Len(cpis), NEW b \in 1 .. Len(cpis),
         cpis[b].time <= cpis[a].time, Overdue(stamp, a)
  PROVE  Overdue(stamp, b)
<1> DEFINE Cpi == [stages : Stages \cup {{}}, time : Nat]
<1>1. \A i \in 1 .. Len(cpis) : cpis[i] \in Cpi
  <2> HIDE DEF Cpi
  <2>1. cpis \in Seq(Cpi)
    BY DEF IInv, ApiInv, Cpi
  <2> QED
    BY <2>1, ElementOfSeq
<1>2. \A i \in 1 .. Len(cpis) : cpis[i].time \in Int
  BY <1>1
<1>3. CASE Len(stamp) = 1
  <2>1. stamp[1] \in 1 .. Len(cpis)
    <3>1. 1 \in 1 .. Len(stamp)
      BY <1>3
    <3> QED
      BY <3>1, ElementOfSeq DEF Sent
  <2> HIDE DEF Cpi
  <2>2. cpis[stamp[1]].time \in Int /\ cpis[a].time \in Int /\ cpis[b].time \in Int
    BY <1>2, <2>1
  <2>3. cpis[stamp[1]].time - cpis[a].time > Window
    BY <1>3 DEF Overdue
  <2>4. cpis[stamp[1]].time - cpis[b].time > Window
    BY <2>2, <2>3, Constants
  <2> QED
    BY <1>3, <2>4 DEF Overdue
<1>4. CASE Len(stamp) # 1
  BY <1>4 DEF Overdue
<1> QED
  BY <1>3, <1>4

\* As many entries go as are looked at, from every second place: all that go
\* are overdue, and at most as many overdue ones stay.
LEMMA WindowHalves ==
  ASSUME IInv, NEW h \in Sent, Ordered(h)
  PROVE  LET i == Shifts(h, ts)
         IN  /\ \A j \in 1 .. i : Overdue(ts, h[j])
             /\ 2 * OverdueIn(Thinned(h, ts)) <= OverdueIn(h)
<1> DEFINE i == Shifts(h, ts)
           t == Thinned(h, ts)
<1>1. /\ Len(h) \in Nat /\ DOMAIN h = 1 .. Len(h)
      /\ \A j \in 1 .. Len(h) : h[j] \in 1 .. Len(cpis)
      /\ ts \in Sent
  BY LenProperties, ElementOfSeq DEF Sent, IInv, StashInv
<1>2. /\ i \in 0 .. Len(h)
      /\ ~(i < Len(h) - i /\ Overdue(ts, h[2 * i + 1]))
      /\ \A j \in 0 .. i - 1 : j < Len(h) - j /\ Overdue(ts, h[2 * j + 1])
  BY ShiftsEnd DEF Sent
<1>3. /\ t \in Seq(1 .. Len(cpis)) /\ Len(t) = Len(h) - i
      /\ \A k \in 1 .. Len(h) - i : t[k] = h[i + k]
  BY ThinnedIsTheEnd DEF Sent
<1> HIDE DEF i, t
<1>4. DOMAIN t = 1 .. Len(h) - i
  BY <1>3, LenProperties
<1>5. ASSUME NEW a \in 1 .. Len(h), NEW b \in 1 .. Len(h), b <= a, Overdue(ts, h[a])
      PROVE  Overdue(ts, h[b])
  <2>1. CASE a = b
    BY <1>5, <2>1
  <2>2. CASE b < a
    <3>1. cpis[h[b]].time <= cpis[h[a]].time
      BY <1>1, <2>2 DEF Ordered
    <3>2. h[a] \in 1 .. Len(cpis) /\ h[b] \in 1 .. Len(cpis)
      BY <1>1
    <3> QED
      BY <1>1, <1>5, <3>1, <3>2, OlderIsOverdue
  <2> QED
    BY <1>1, <1>5, <2>1, <2>2
<1>6. \A j \in 1 .. i : Overdue(ts, h[j])
  <2> SUFFICES ASSUME NEW j \in 1 .. i PROVE Overdue(ts, h[j])
    OBVIOUS
  <2>1. i - 1 \in 0 .. i - 1
    BY <1>2
  <2>2. i - 1 < Len(h) - (i - 1) /\ Overdue(ts, h[2 * (i - 1) + 1])
    BY <1>2, <2>1
  <2>3. 2 * (i - 1) + 1 \in 1 .. Len(h) /\ j \in 1 .. Len(h) /\ j <= 2 * (i - 1) + 1
    BY <1>1, <1>2, <2>2
  <2> QED
    BY <1>5, <2>2, <2>3
<1> DEFINE A == {k \in DOMAIN t : Overdue(ts, t[k])}
           B == {k \in DOMAIN h : Overdue(ts, h[k])}
           C == {i + k : k \in A}
<1>7. A \subseteq 1 .. i
  <2> SUFFICES ASSUME NEW k \in A, ~(k <= i) PROVE FALSE
    BY <1>2, <1>4
  <2>1. k \in 1 .. Len(h) - i /\ Overdue(ts, h[i + k])
    BY <1>3, <1>4
  <2>2. i < Len(h) - i
    BY <1>1, <1>2, <2>1
  <2>3. 2 * i + 1 \in 1 .. Len(h) /\ i + k \in 1 .. Len(h) /\ 2 * i + 1 <= i + k
    BY <1>1, <1>2, <2>1, <2>2
  <2>4. Overdue(ts, h[2 * i + 1])
    BY <1>5, <2>1, <2>3
  <2> QED
    BY <1>2, <2>2, <2>4
<1>8. IsFiniteSet(A) /\ Cardinality(A) \in Nat /\ Cardinality(A) <= i
  <2>1. IsFiniteSet(1 .. i) /\ Cardinality(1 .. i) = i
    BY <1>1, <1>2, FS_Interval
  <2> HIDE DEF A
  <2> QED
    BY <1>7, <2>1, FS_Subset, FS_CardinalityType
<1>9. IsFiniteSet(C) /\ Cardinality(C) = Cardinality(A)
  <2>1. A \subseteq Int /\ i \in Int
    BY <1>1, <1>2, <1>4
  <2> HIDE DEF A
  <2> DEFINE f == [k \in A |-> i + k]
  <2>2. f \in Bijection(A, C)
    <3>1. f \in [A -> C]
      OBVIOUS
    <3>2. \A x, y \in A : f[x] = f[y] => x = y
      BY <2>1
    <3>3. \A y \in C : \E x \in A : f[x] = y
      OBVIOUS
    <3> QED
      BY <3>1, <3>2, <3>3 DEF Bijection, Injection, Surjection, IsInjective
  <2>3. ExistsBijection(A, C)
    BY <2>2 DEF ExistsBijection
  <2> QED
    BY <1>8, <2>3, FS_Bijection
<1>10. (1 .. i) \cup C \subseteq B /\ (1 .. i) \cap C = {}
  <2>1. ASSUME NEW k \in A
        PROVE  i + k \in 1 .. Len(h) /\ i + k > i /\ Overdue(ts, h[i + k])
    <3>1. k \in 1 .. Len(h) - i /\ Overdue(ts, t[k])
      BY <1>4
    <3>2. t[k] = h[i + k]
      BY <1>3, <3>1
    <3> HIDE DEF A, B, C
    <3> QED
      BY <1>1, <1>2, <3>1, <3>2
  <2>2. C \subseteq B
    BY <1>1, <2>1
  <2>3. 1 .. i \subseteq B
    BY <1>1, <1>2, <1>6
  <2>4. \A c \in C : c > i
    BY <2>1
  <2>5. (1 .. i) \cap C = {}
    <3> HIDE DEF C
    <3> QED
      BY <1>1, <1>2, <2>4
  <2> QED
    BY <2>2, <2>3, <2>5
<1>11. IsFiniteSet(B)
  <2>1. IsFiniteSet(1 .. Len(h)) /\ B \in SUBSET (1 .. Len(h))
    BY <1>1, FS_Interval
  <2> QED
    BY <2>1, FS_Subset
<1> HIDE DEF A, B, C
<1>12. Cardinality((1 .. i) \cup C) = i + Cardinality(C) /\ IsFiniteSet((1 .. i) \cup C)
  <2>1. IsFiniteSet(1 .. i) /\ Cardinality(1 .. i) = i
    BY <1>1, <1>2, FS_Interval
  <2>2. Cardinality((1 .. i) \cap C) = 0
    BY <1>10, FS_EmptySet
  <2>3. /\ IsFiniteSet((1 .. i) \cup C)
        /\ Cardinality((1 .. i) \cup C)
             = Cardinality(1 .. i) + Cardinality(C) - Cardinality((1 .. i) \cap C)
    BY <1>9, <2>1, FS_Union
  <2> QED
    BY <1>2, <1>8, <1>9, <2>1, <2>2, <2>3
<1>13. i + Cardinality(A) <= Cardinality(B) /\ Cardinality(B) \in Nat
  BY <1>9, <1>10, <1>11, <1>12, FS_Subset, FS_CardinalityType
<1>14. 2 * Cardinality(A) <= Cardinality(B)
  BY <1>1, <1>2, <1>8, <1>13
<1>15. OverdueIn(t) = Cardinality(A) /\ OverdueIn(h) = Cardinality(B)
  BY DEF OverdueIn, A, B
<1> QED
  BY <1>6, <1>14, <1>15 DEF i, t

--------------------------------------------------------------------------------
(* A CPI is taken                                                          *)

\* Whatever the stash, its histories end with the CPI and keep their length.
LEMMA PushedKeeps ==
  ASSUME IInv, NEW cpi \in 1 .. Len(cpis)
  PROVE  LET p == Pushed(cpi)
         IN  /\ p \in Histories
             /\ \A k \in DOMAIN p : kind # "detection" => Len(p[k]) <= NCpi
             /\ kind = "timing" => \A k \in DOMAIN p : p[k][Len(p[k])] = cpi
<1> DEFINE kept(key) == KeepLast(Append(History(key), cpi), NCpi)
<1>1. \A key : kept(key) \in Sent /\ Len(kept(key)) <= NCpi /\ kept(key)[Len(kept(key))] = cpi
  BY KeptHistoryGrows, Constants
<1> HIDE DEF kept
<1>2. kind \in Kinds
  BY DEF IInv, ApiInv
<1>3. CASE kind = "timing"
  <2>1. Keys(cpi) \in Stages
    BY <1>3 DEF Keys, IInv, ApiInv
  <2>2. Pushed(cpi) = [k \in Keys(cpi) |-> kept(k)]
    BY <1>3 DEF Pushed, PushTiming, kept
  <2> DEFINE p == [k \in Keys(cpi) |-> kept(k)]
  <2>3. p \in [Keys(cpi) -> Sent] /\ DOMAIN p = Keys(cpi) /\ \A k \in DOMAIN p : p[k] = kept(k)
    BY <1>1
  <2>4. p \in Histories
    BY <1>3, <2>1, <2>3 DEF Histories, KeySets
  <2> HIDE DEF p
  <2>5. Pushed(cpi) = p
    BY <2>2 DEF p
  <2> QED
    BY <1>1, <2>3, <2>4, <2>5
<1>4. CASE kind \in {"iqdata", "maxhold"}
  <2> DEFINE p == [data |-> kept("data")]
  <2>1. Pushed(cpi) = p
    BY <1>4 DEF Pushed, PushIqdata, PushMaxhold, kept
  <2>2. p \in [{"data"} -> Sent] /\ DOMAIN p = {"data"} /\ p["data"] = kept("data")
    BY <1>1
  <2>3. p \in Histories
    BY <1>4, <2>2 DEF Histories, KeySets
  <2> HIDE DEF p
  <2> QED
    BY <1>1, <1>4, <2>1, <2>2, <2>3
<1>5. CASE kind = "detection"
  <2> DEFINE h == Append(History("data"), cpi)
             t == Thinned(h, ts)
             p == [data |-> t]
  <2>1. h \in Sent
    BY HistoryGrows
  <2>2. t \in Sent
    <3> HIDE DEF h
    <3> QED
      BY <2>1, ThinnedIsTheEnd DEF Sent
  <2>3. Pushed(cpi) = p
    BY <1>5 DEF Pushed, PushDetection
  <2> HIDE DEF t
  <2>4. p \in [{"data"} -> Sent]
    BY <2>2
  <2>5. p \in Histories
    BY <1>5, <2>4 DEF Histories, KeySets
  <2> QED
    BY <1>5, <2>3, <2>5
<1> QED
  BY <1>2, <1>3, <1>4, <1>5 DEF Kinds

\* A text of one CPI is pushed, and any other leaves the history as it is.
LEMMA TakeKeepsIInv == IInv /\ Take => IInv'
<1> SUFFICES ASSUME IInv, Take PROVE IInv'
  OBVIOUS
<1>1. PICK i \in DOMAIN requests :
        /\ requests' = RemoveAt(requests, i)
        /\ series' = IF Len(requests[i].text) = 1 THEN Pushed(requests[i].text[1]) ELSE series
        /\ UNCHANGED <<kind, xVariable, apiVars, ts, pageVars>>
  BY DEF Take
<1>2. requests[i] \in Requests /\ requests' \in Seq(Requests) /\ Len(requests') <= MaxRequests[kind]
  <2>1. [step |-> "ask", text |-> <<>>] \in Requests
    BY EmptySeq DEF Requests, Sent
  <2> QED
    BY <1>1, <2>1, RequestMoves
<1>3. Sent' = Sent /\ Histories' = Histories /\ Requests' = Requests /\ kind' = kind
  BY <1>1, SentStays DEF apiVars
<1>4. CASE Len(requests[i].text) = 1
  <2> DEFINE cpi == requests[i].text[1]
  <2>1. cpi \in 1 .. Len(cpis)
    <3>1. requests[i].text \in Seq(1 .. Len(cpis)) /\ 1 \in 1 .. Len(requests[i].text)
      BY <1>2, <1>4 DEF Requests, Sent
    <3> QED
      BY <3>1, ElementOfSeq
  <2> HIDE DEF cpi
  <2>2. series' = Pushed(cpi)
    BY <1>1, <1>4 DEF cpi
  <2>3. /\ series' \in Histories
        /\ \A k \in DOMAIN series' : kind # "detection" => Len(series'[k]) <= NCpi
        /\ kind = "timing" => \A k \in DOMAIN series' : series'[k][Len(series'[k])] = cpi
    BY <2>1, <2>2, PushedKeeps
  <2>4. StashInv'
    BY <1>1, <1>2, <1>3, <2>3 DEF IInv, StashInv
  <2>5. SeriesEndTogether'
    BY <1>3, <2>3 DEF SeriesEndTogether
  <2> QED
    BY <1>1, <2>4, <2>5, StashStep
<1>5. CASE Len(requests[i].text) # 1
  <2>1. series' = series
    BY <1>1, <1>5
  <2>2. StashInv'
    BY <1>1, <1>2, <1>3, <2>1 DEF IInv, StashInv
  <2>3. SeriesEndTogether'
    BY <1>3, <2>1 DEF IInv, SeriesEndTogether
  <2> QED
    BY <1>1, <2>2, <2>3, StashStep
<1> QED
  BY <1>4, <1>5

--------------------------------------------------------------------------------
(* The steps of the page                                                   *)

\* What the page does with an answer leaves it as it should be.
LEMMA PlottedKeeps ==
  ASSUME IInv, NEW answer \in Histories
  PROVE  LET p == Plotted(answer) IN p \in Pages /\ Signed(p) /\ Shown(p)
<1>1. page \in Pages /\ Signed(page) /\ Shown(page) /\ kind \in Kinds
  BY DEF IInv, ApiInv, PageInv
<1>2. /\ page.built \in BOOLEAN /\ page.early \in BOOLEAN /\ page.drawn \in Histories
      /\ page.signature \in Signatures
      /\ page.traces \in UNION {[K -> Sent] : K \in Lines}
  BY <1>1 DEF Pages
<1>3. <<>> \in Sent
  BY EmptySeq DEF Sent
<1> DEFINE signature == CASE kind = "timing"  -> DOMAIN answer \ {"timestamp"}
                          [] kind = "maxhold" -> {"rows"}
                          [] OTHER            -> {"undefined"}
           complete  == \/ answer # Nothing
                        \/ kind = "detection" /\ xVariable # "timestamp"
           fails  == [page EXCEPT !.signature = signature, !.early = @ \/ page.drawn = Nothing]
           builds == [page EXCEPT !.signature = signature, !.drawn = answer, !.built = TRUE,
                                  !.traces = Traces(answer)]
           values == [k \in DOMAIN page.traces |->
                        IF k \in DOMAIN Traces(answer) THEN Traces(answer)[k] ELSE <<>>]
           draws  == [page EXCEPT !.drawn = answer, !.traces = values]
<1>4. signature \in Signatures
  <2>1. kind = "timing" => signature \in {{}, {"cpi"}, {"cpi", "detector"}}
    <3> SUFFICES ASSUME kind = "timing" PROVE DOMAIN answer \ {"timestamp"} \in {{}, {"cpi"}, {"cpi", "detector"}}
      OBVIOUS
    <3>1. CASE answer = Nothing
      BY <3>1, HistoryForm
    <3>2. CASE answer # Nothing
      <4>1. DOMAIN answer \in Stages
        BY <3>2, HistoryForm DEF KeySets
      <4> QED
        BY <4>1 DEF Stages
    <3> QED
      BY <3>1, <3>2
  <2>2. kind # "timing" => signature \in {{"rows"}, {"undefined"}}
    OBVIOUS
  <2> HIDE DEF signature
  <2> QED
    BY <2>1, <2>2 DEF Signatures, Lines
<1>5. ASSUME complete
      PROVE  /\ Traces(answer) \in UNION {[K -> Sent] : K \in Lines}
             /\ Traces(answer) = [k \in DOMAIN Traces(answer) |-> Traces(answer)[k]]
             /\ kind # "timing" => DOMAIN Traces(answer) = {"data"}
             /\ kind = "timing" => DOMAIN Traces(answer) = signature /\ signature # {}
  <2>1. CASE kind = "timing"
    <3>1. PICK K \in Stages : answer \in [K -> Sent] /\ DOMAIN answer = K
      BY <1>5, <2>1, HistoryForm DEF KeySets
    <3>2. Traces(answer) \in [K \ {"timestamp"} -> Sent] /\ DOMAIN Traces(answer) = K \ {"timestamp"}
      BY <2>1, <3>1 DEF Traces
    <3>3. K \ {"timestamp"} \in Lines /\ K \ {"timestamp"} # {}
      BY <3>1 DEF Stages, Lines
    <3> QED
      BY <2>1, <3>1, <3>2, <3>3
  <2>2. CASE kind # "timing"
    <3>1. Traces(answer) \in [{"data"} -> Sent]
      BY <1>3, <2>2, HistoryForm DEF Traces
    <3>2. {"data"} \in Lines
      BY DEF Lines
    <3> QED
      BY <2>2, <3>1, <3>2
  <2> QED
    BY <2>1, <2>2
<1>6. /\ complete \/ kind # "maxhold" => Plotted(answer) = Redraw(answer, signature, complete)
      /\ ~complete /\ kind = "maxhold" => Plotted(answer) = page
  BY <1>1 DEF Plotted, PlotTiming, PlotDetection, PlotSpectrum, PlotMap, Kinds
<1>7. ~complete /\ kind = "timing" => signature = {}
  BY HistoryForm
<1>8. kind # "timing" => signature # {"3 rows"}
  OBVIOUS
<1> HIDE DEF signature, complete
<1>9. CASE ~complete
  <2>1. CASE kind = "maxhold"
    BY <1>1, <1>6, <1>9, <2>1
  <2>2. CASE kind # "maxhold"
    <3>1. Plotted(answer) = fails
      BY <1>6, <1>9, <2>2 DEF Redraw
    <3>2. /\ fails.signature = signature /\ fails.early = (page.early \/ page.drawn = Nothing)
          /\ fails.built = page.built /\ fails.drawn = page.drawn /\ fails.traces = page.traces
      BY <1>1 DEF Pages
    <3>3. fails \in Pages
      BY <1>1, <1>4 DEF Pages
    <3> HIDE DEF fails
    <3>4. Signed(fails)
      BY <1>1, <1>7, <1>9, <3>2 DEF Signed, Shown
    <3>5. Shown(fails)
      BY <1>1, <3>2 DEF Shown
    <3> QED
      BY <3>1, <3>3, <3>4, <3>5
  <2> QED
    BY <2>1, <2>2
<1>10. CASE complete /\ signature # page.signature
  <2>1. Plotted(answer) = builds
    BY <1>6, <1>10 DEF Redraw
  <2>2. /\ builds.signature = signature /\ builds.early = page.early /\ builds.built = TRUE
        /\ builds.drawn = answer /\ builds.traces = Traces(answer)
    BY <1>1 DEF Pages
  <2>3. builds \in Pages
    BY <1>1, <1>4, <1>5, <1>10 DEF Pages
  <2> HIDE DEF builds
  <2>4. Signed(builds) /\ Shown(builds)
    BY <1>5, <1>10, <2>2 DEF Signed, Shown
  <2> QED
    BY <2>1, <2>3, <2>4
<1>11. CASE complete /\ signature = page.signature
  <2>1. Plotted(answer) = draws
    BY <1>6, <1>11 DEF Redraw
  <2>2. DOMAIN page.traces = DOMAIN Traces(answer)
    BY <1>1, <1>5, <1>11 DEF Signed
  <2>3. values = Traces(answer)
    BY <1>5, <1>11, <2>2
  <2>4. page.built \/ page.early
    BY <1>1, <1>5, <1>8, <1>11 DEF Signed
  <2> HIDE DEF values
  <2>5. /\ draws.signature = page.signature /\ draws.early = page.early /\ draws.built = page.built
        /\ draws.drawn = answer /\ draws.traces = values
    BY <1>1 DEF Pages
  <2>6. draws \in Pages
    BY <1>1, <1>5, <1>11, <2>3 DEF Pages
  <2> HIDE DEF draws
  <2>7. Signed(draws) /\ Shown(draws)
    BY <1>1, <2>2, <2>3, <2>4, <2>5 DEF Signed, Shown
  <2> QED
    BY <2>1, <2>6, <2>7
<1> QED
  BY <1>9, <1>10, <1>11

\* A step of the page leaves the API and the stash alone.
LEMMA PageStep ==
  ASSUME IInv, UNCHANGED <<kind, xVariable, apiVars, stashVars>>, PageInv'
  PROVE  IInv'
<1>1. UNCHANGED <<kind, xVariable, boot, cpis, read, served>>
  BY DEF apiVars
<1>2. Len(cpis) \in Nat /\ Sent' = Sent /\ Len(cpis') = Len(cpis)
  BY <1>1, SentStays, LenProperties DEF IInv, ApiInv
<1>3. ApiInv'
  BY <1>1, <1>2 DEF IInv, ApiInv
<1>4. StashInv' /\ SeriesEndTogether'
  BY <1>1, <1>2, StashStays
<1> QED
  BY <1>3, <1>4 DEF IInv

\* The page is answered with what the stash holds.
LEMMA RefreshKeepsIInv == IInv /\ Refresh => IInv'
<1> SUFFICES ASSUME IInv, Refresh PROVE IInv'
  OBVIOUS
<1>1. UNCHANGED <<kind, xVariable, apiVars, stashVars, page>> /\ UNCHANGED <<kind, cpis>>
  BY DEF Refresh, apiVars
<1>2. Sent' = Sent /\ Histories' = Histories /\ Len(cpis') = Len(cpis) /\ Len(cpis) \in Nat
  BY <1>1, SentStays, LenProperties DEF IInv, ApiInv
<1>3. answers \in Seq(Histories) /\ series \in Histories /\ answers' = Append(answers, series)
      /\ Len(answers) < MaxAnswers
  BY DEF IInv, PageInv, StashInv, Refresh
<1>4. answers' \in Seq(Histories) /\ Len(answers') = Len(answers) + 1 /\ Len(answers) \in Nat
  BY <1>3, AppendProperties, LenProperties
<1>5. Len(answers') <= MaxAnswers
  BY <1>3, <1>4, Constants
<1>6. timestamp' \in Sent
  BY DEF Refresh, IInv, ApiInv
<1>7. PageInv'
  BY <1>1, <1>2, <1>4, <1>5, <1>6, PageStays
<1> QED
  BY <1>1, <1>7, PageStep

\* An answer is plotted, out of turn or not, or lost.
LEMMA DrawKeepsIInv == IInv /\ Draw => IInv'
<1> SUFFICES ASSUME IInv, Draw PROVE IInv'
  OBVIOUS
<1>1. PICK i \in DOMAIN answers :
        /\ answers' = RemoveAt(answers, i)
        /\ page' \in {Plotted(answers[i]), page}
        /\ UNCHANGED <<kind, xVariable, apiVars, stashVars, timestamp>>
  BY DEF Draw
<1>2. /\ Sent' = Sent /\ Histories' = Histories /\ Pages' = Pages
      /\ UNCHANGED <<kind, cpis>>
  BY <1>1, SentStays DEF apiVars
<1>3. /\ answers \in Seq(Histories) /\ Len(answers) \in Nat /\ Len(answers) <= MaxAnswers
      /\ DOMAIN answers = 1 .. Len(answers)
  BY LenProperties DEF IInv, PageInv
<1>4. answers[i] \in Histories /\ answers' \in Seq(Histories) /\ Len(answers') = Len(answers) - 1
  BY <1>1, <1>3, ElementOfSeq, Removed
<1>5. Len(answers') <= MaxAnswers
  BY <1>3, <1>4, Constants
<1>6. page' \in Pages /\ Signed(page') /\ Shown(page')
  BY <1>1, <1>4, PlottedKeeps DEF IInv, PageInv
<1>7. Signed(page)' /\ Shown(page)'
  BY <1>2, <1>6 DEF Signed, Shown, Traces
<1>8. PageInv'
  BY <1>1, <1>2, <1>4, <1>5, <1>6, <1>7 DEF IInv, PageInv
<1> QED
  BY <1>1, <1>8, PageStep

--------------------------------------------------------------------------------
\* Every step keeps the invariant.
LEMMA NextKeepsIInv == IInv /\ [Next]_vars => IInv'
<1> SUFFICES ASSUME IInv, [Next]_vars PROVE IInv'
  OBVIOUS
<1>1. CASE UNCHANGED vars
  <2>1. UNCHANGED <<kind, xVariable, apiVars, pageVars, ts, requests, series>>
    BY <1>1 DEF vars, stashVars
  <2>2. Sent' = Sent /\ Histories' = Histories /\ Requests' = Requests
    BY <2>1, SentStays DEF apiVars
  <2>3. StashInv' /\ SeriesEndTogether'
    BY <2>1, <2>2 DEF IInv, StashInv, SeriesEndTogether
  <2> QED
    BY <2>1, <2>3, StashStep
<1>2. CASE Next
  BY <1>2, SendKeepsIInv, PublishKeepsIInv, RestartKeepsIInv, PollKeepsIInv, StampKeepsIInv,
     AnswerKeepsIInv, TakeKeepsIInv, RefreshKeepsIInv, DrawKeepsIInv DEF Next, Stash, Page
<1> QED
  BY <1>1, <1>2

\* The invariant holds in every state.
LEMMA AlwaysIInv == Spec => []IInv
BY InitIInv, NextKeepsIInv, PTL DEF Spec

\* What was sent is within the bound, so the sets of the invariant are the types.
LEMMA IInvTypes == IInv => TypeOK
<1> SUFFICES ASSUME IInv PROVE TypeOK
  OBVIOUS
<1>1. Len(cpis) \in Nat /\ Len(cpis) <= Cpis /\ Cpis \in Nat
  BY Constants, LenProperties DEF IInv, ApiInv
<1>2. Sent \subseteq Texts
  <2>1. 1 .. Len(cpis) \subseteq 1 .. Cpis
    BY <1>1
  <2> QED
    BY <2>1, SeqMonotonic DEF Sent, Texts
<1>3. /\ kind \in Kinds /\ xVariable \in {"timestamp", "delay"} /\ boot \in 1 .. MaxBoots[kind]
      /\ cpis \in Seq([stages : Stages \cup {{}}, time : Nat]) /\ Len(cpis) <= Cpis
      /\ \A what \in {"stamp", "frame"} : read[what] \in 0 .. Len(cpis) /\ served[what] \in Texts
  BY <1>2 DEF IInv, ApiInv
<1>4. /\ ts \in Texts /\ Len(requests) <= MaxRequests[kind]
      /\ \A i \in DOMAIN requests : requests[i].step \in {"stamp", "ask", "data"} /\ requests[i].text \in Texts
  <2>1. \A i \in DOMAIN requests : requests[i] \in Requests
    BY LenProperties, ElementOfSeq DEF IInv, StashInv
  <2> QED
    BY <1>2, <2>1 DEF IInv, StashInv, Requests
<1>5. /\ timestamp \in Texts \cup {<<-1>>} /\ Len(answers) <= MaxAnswers
      /\ page.built \in BOOLEAN /\ page.early \in BOOLEAN
      /\ \A k \in DOMAIN page.traces : page.traces[k] \in Texts
  BY <1>2 DEF IInv, PageInv, Pages
<1>6. /\ DOMAIN series \subseteq KeyNames /\ \A k \in DOMAIN series : series[k] \in Texts
      /\ \A k \in DOMAIN series : kind # "detection" => Len(series[k]) <= NCpi
  <2>1. series \in Histories /\ \A k \in DOMAIN series : kind # "detection" => Len(series[k]) <= NCpi
    BY DEF IInv, StashInv
  <2>2. CASE series = Nothing
    BY <2>1, <2>2, HistoryForm
  <2>3. CASE series # Nothing
    <3>1. PICK K \in KeySets : series \in [K -> Sent] /\ DOMAIN series = K
      BY <2>1, <2>3, HistoryForm
    <3>2. K \subseteq KeyNames
      BY <3>1 DEF KeySets, KeyNames
    <3> QED
      BY <1>2, <2>1, <3>1, <3>2
  <2> QED
    BY <2>2, <2>3
<1> QED
  BY <1>3, <1>4, <1>5, <1>6 DEF TypeOK

\* Taking either of two entries out leaves the same only if they are equal.
LEMMA SameRemoved ==
  ASSUME NEW S, NEW s \in Seq(S), NEW a \in DOMAIN s, NEW b \in DOMAIN s,
         a < b, RemoveAt(s, a) = RemoveAt(s, b)
  PROVE  s[a] = s[b]
<1>1. /\ Len(s) \in Nat /\ a \in 1 .. Len(s) /\ b \in 1 .. Len(s)
      /\ \A j \in 1 .. Len(s) - 1 : (IF j < a THEN s[j] ELSE s[j + 1]) = (IF j < b THEN s[j] ELSE s[j + 1])
  <2>1. Len(s) \in Nat /\ DOMAIN s = 1 .. Len(s)
    BY LenProperties
  <2>2. \A j \in 1 .. Len(s) - 1 : RemoveAt(s, a)[j] = IF j < a THEN s[j] ELSE s[j + 1]
    BY Removed
  <2>3. \A j \in 1 .. Len(s) - 1 : RemoveAt(s, b)[j] = IF j < b THEN s[j] ELSE s[j + 1]
    BY Removed
  <2> QED
    BY <2>1, <2>2, <2>3
<1>2. \A j \in a .. b - 1 : s[j + 1] = s[j]
  <2> SUFFICES ASSUME NEW j \in a .. b - 1 PROVE s[j + 1] = s[j]
    OBVIOUS
  <2>1. j \in 1 .. Len(s) - 1 /\ ~(j < a) /\ j < b
    BY <1>1
  <2> QED
    BY <1>1, <2>1
<1> DEFINE T == {j \in a .. b : s[j] # s[a]}
<1>3. T \subseteq Nat
  BY <1>1
<1>4. SUFFICES ASSUME s[a] # s[b] PROVE FALSE
  OBVIOUS
<1>5. b \in T
  BY <1>1, <1>4
<1>6. PICK x \in T : \A y \in T : x <= y
  <2> HIDE DEF T
  <2> QED
    BY <1>3, <1>5, LeastOf
<1>7. x \in a + 1 .. b /\ s[x] # s[a]
  BY <1>1
<1>8. x - 1 \in a .. b - 1 /\ x - 1 \notin T
  BY <1>1, <1>3, <1>6, <1>7
<1>9. s[x - 1] = s[a] /\ s[x] = s[x - 1]
  BY <1>1, <1>2, <1>7, <1>8
<1> QED
  BY <1>7, <1>9

\* A step after which a request that had its frame is gone has taken it,
\* unless the API was started again.
LEMMA GoneIsTaken ==
  ASSUME IInv, Next, NEW i \in DOMAIN requests, requests[i].step = "data",
         requests' = RemoveAt(requests, i), boot' = boot, Len(requests[i].text) = 1
  PROVE  series' = Pushed(requests[i].text[1]) /\ requests[i].text[1] \in 1 .. Len(cpis)
<1>1. /\ requests \in Seq(Requests) /\ Len(requests) \in Nat /\ DOMAIN requests = 1 .. Len(requests)
  BY LenProperties DEF IInv, StashInv
<1>2. Len(requests') = Len(requests) - 1
  BY <1>1, Removed
<1>3. requests[i] \in Requests
  BY <1>1, ElementOfSeq
<1>4. requests[i].text[1] \in 1 .. Len(cpis)
  <2>1. requests[i].text \in Seq(1 .. Len(cpis)) /\ 1 \in 1 .. Len(requests[i].text)
    BY <1>3 DEF Requests, Sent
  <2> QED
    BY <2>1, ElementOfSeq
<1>5. ASSUME NEW j \in DOMAIN requests, requests' = RemoveAt(requests, j)
      PROVE  requests[j] = requests[i]
  <2>1. CASE j < i
    BY <1>1, <1>5, <2>1, SameRemoved
  <2>2. CASE i < j
    BY <1>1, <1>5, <2>2, SameRemoved
  <2>3. CASE i = j
    BY <2>3
  <2> QED
    BY <1>1, <2>1, <2>2, <2>3
<1>6. ASSUME requests' = requests PROVE FALSE
  BY <1>1, <1>2, <1>6
<1>7. ASSUME NEW j \in DOMAIN requests, NEW r, requests' = [requests EXCEPT ![j] = r] PROVE FALSE
  <2>1. Len(requests') = Len(requests)
    <3>1. DOMAIN requests' = 1 .. Len(requests)
      BY <1>1, <1>7
    <3>2. requests' \in Seq(Requests)
      BY <1>1, Removed
    <3>3. DOMAIN requests' = 1 .. Len(requests') /\ Len(requests') \in Nat
      BY <3>2, LenProperties
    <3> QED
      BY <1>1, <3>1, <3>3
  <2> QED
    BY <1>1, <1>2, <2>1
<1>8. CASE Send
  BY <1>6, <1>8 DEF Send, stashVars
<1>9. CASE Publish("stamp") \/ Publish("frame")
  BY <1>6, <1>9 DEF Publish, stashVars
<1>10. CASE Restart
  BY <1>10 DEF Restart, IInv, ApiInv
<1>11. CASE Poll
  <2>1. PICK r : requests' = Append(requests, r)
    BY <1>11 DEF Poll
  <2>2. Len(requests') = Len(requests) + 1
    BY <1>1, <2>1
  <2> QED
    BY <1>1, <1>2, <2>2
<1>12. CASE Stamp
  <2>1. PICK j \in DOMAIN requests :
          /\ requests[j].step = "stamp"
          /\ requests' = [requests EXCEPT ![j] = Ask] \/ requests' = RemoveAt(requests, j)
    BY <1>12 DEF Stamp
  <2> QED
    BY <1>5, <1>7, <2>1
<1>13. CASE Answer
  BY <1>7, <1>13 DEF Answer
<1>14. CASE Take
  <2>1. PICK j \in DOMAIN requests :
          /\ requests' = RemoveAt(requests, j)
          /\ series' = IF Len(requests[j].text) = 1 THEN Pushed(requests[j].text[1]) ELSE series
    BY <1>14 DEF Take
  <2>2. requests[j] = requests[i]
    BY <1>5, <2>1
  <2> QED
    BY <1>4, <2>1, <2>2
<1>15. CASE Refresh
  BY <1>6, <1>15 DEF Refresh, stashVars
<1>16. CASE Draw
  BY <1>6, <1>16 DEF Draw, stashVars
<1> QED
  BY <1>8, <1>9, <1>10, <1>11, <1>12, <1>13, <1>14, <1>15, <1>16 DEF Next, Stash, Page

\* A step rids the window of its half.
LEMMA NextThins == IInv /\ Next => HalfGoes
<1> SUFFICES ASSUME IInv, Next, NEW i \in DOMAIN requests, kind = "detection", boot' = boot,
                    requests[i].step = "data", requests' = RemoveAt(requests, i),
                    Len(requests[i].text) = 1,
                    Ordered(Append(History("data"), requests[i].text[1]))
             PROVE  LET before == Append(History("data"), requests[i].text[1])
                        after  == series'["data"]
                        gone   == Len(before) - Len(after)
                    IN  /\ after = SubSeq(before, gone + 1, Len(before))
                        /\ \A j \in 1 .. gone : Overdue(ts, before[j])
                        /\ 2 * OverdueIn(after) <= OverdueIn(before)
  BY DEF HalfGoes
<1> DEFINE cpi == requests[i].text[1]
           before == Append(History("data"), cpi)
           n == Shifts(before, ts)
<1>1. series' = Pushed(cpi) /\ cpi \in 1 .. Len(cpis)
  BY GoneIsTaken
<1>2. before \in Sent
  <2> HIDE DEF cpi
  <2> QED
    BY <1>1, HistoryGrows
<1>3. series'["data"] = Thinned(before, ts)
  BY <1>1 DEF Pushed, PushDetection
<1>4. Ordered(before)
  OBVIOUS
<1> HIDE DEF before
<1>5. /\ \A j \in 1 .. n : Overdue(ts, before[j])
      /\ 2 * OverdueIn(Thinned(before, ts)) <= OverdueIn(before)
  BY <1>2, <1>4, WindowHalves
<1>6. Len(Thinned(before, ts)) = Len(before) - n /\ Len(before) \in Nat /\ n \in 0 .. Len(before)
  BY <1>2, ThinnedIsTheEnd, ShiftsEnd, LenProperties DEF Sent
<1> HIDE DEF n
<1>7. Len(before) - Len(series'["data"]) = n
  BY <1>3, <1>6
<1>8. series'["data"] = SubSeq(before, n + 1, Len(before))
  BY <1>3 DEF Thinned, n
<1> QED
  BY <1>3, <1>5, <1>7, <1>8 DEF before

--------------------------------------------------------------------------------
(* The theorems                                                            *)

\* Every variable holds a value of its type, and a history that is kept to
\* nCpi CPIs never holds more, for any number of requests that overlap.
THEOREM TypeCorrect == Spec => []TypeOK
<1>1. IInv => TypeOK
  BY IInvTypes
<1> QED
  BY <1>1, AlwaysIInv, PTL

\* No line of the timing stash is frozen at a CPI older than the others end
\* with, whatever stages come and go between CPIs and builds.
THEOREM LinesEndTogether == Spec => []SeriesEndTogether
<1>1. IInv => SeriesEndTogether
  BY DEF IInv
<1> QED
  BY <1>1, AlwaysIInv, PTL

\* A page plots what the stash told it last, also when answers overtake each
\* other, are lost, or come from a stash that was started again.
THEOREM PageShowsItsAnswer == Spec => []TracesAreSeries
<1>1. IInv => TracesAreSeries
  BY DEF IInv, PageInv, Shown, TracesAreSeries
<1> QED
  BY <1>1, AlwaysIInv, PTL

\* Each CPI the detection stash takes rids it of at least half of what is
\* overdue and of nothing else, however long its history and its window.
THEOREM HalfOfTheWindowGoes == Spec => WindowThinned
<1>1. IInv /\ [Next]_vars => [HalfGoes]_vars
  BY NextThins
<1> QED
  BY <1>1, AlwaysIInv, PTL DEF Spec, WindowThinned

================================================================================
