------------------------------ MODULE IngestProofs -----------------------------
(***************************************************************************)
(* Proofs about the frames on their way from blah2 to the API and on to the*)
(* tracker, for any number of pieces of a frame, of frames and of starts of*)
(* blah2, however the bytes are read: the map that is served ends with a   *)
(* whole frame, no listener sits on a finished one, and the tracker gets   *)
(* frames, each once and in order.                                         *)
(***************************************************************************)
EXTENDS Ingest, SequenceTheorems, TLAPS

--------------------------------------------------------------------------------
(* Types                                                                   *)

Types == TypeOK /\ sending.frame > 0

LEMMA Constants == Parts \in Nat \ {0} /\ Frames \in Nat /\ MaxBoots \in Nat \ {0}
BY IngestAssumption

\* A read takes the first bytes of a socket and leaves the others.
LEMMA Read ==
  ASSUME TypeOK, NEW kind \in Kinds, NEW chunk \in Chunks(kind)
  PROVE  LET w == wire[kind]
             n == Len(chunk)
             rest == Rest(kind, chunk)
         IN  /\ chunk \in Texts /\ n \in 1 .. Len(w) /\ Len(w) \in Nat
             /\ \A i \in 1 .. n : chunk[i] = w[i]
             /\ rest \in [Kinds -> Texts]
             /\ \A k \in Kinds : k # kind => rest[k] = wire[k]
             /\ Len(rest[kind]) = Len(w) - n
             /\ \A i \in 1 .. Len(w) - n : rest[kind][i] = w[n + i]
<1> DEFINE w == wire[kind]
           rest == Rest(kind, chunk)
<1>1. w \in Seq(Piece) /\ Len(w) \in Nat /\ DOMAIN w = 1 .. Len(w) /\ wire \in [Kinds -> Texts]
  BY LenProperties DEF TypeOK, Texts
<1>2. PICK n \in 1 .. Len(w) : chunk = SubSeq(w, 1, n)
  BY <1>1 DEF Chunks
<1>3. \A i \in 1 .. Len(w) : w[i] \in Piece
  BY <1>1, ElementOfSeq
<1>4. chunk \in Seq(Piece) /\ Len(chunk) = n /\ \A i \in 1 .. n : chunk[i] = w[i]
  <2>1. \A i \in 1 .. n : w[i] \in Piece
    BY <1>1, <1>3
  <2>2. /\ SubSeq(w, 1, n) \in Seq(Piece)
        /\ Len(SubSeq(w, 1, n)) = IF 1 <= n THEN n - 1 + 1 ELSE 0
        /\ \A i \in 1 .. n - 1 + 1 : SubSeq(w, 1, n)[i] = w[1 + i - 1]
    <3> HIDE DEF w
    <3> QED
      BY <1>1, <2>1, SubSeqProperties
  <2> QED
    BY <1>1, <1>2, <2>2
<1>5. rest[kind] = SubSeq(w, n + 1, Len(w)) /\ \A k \in Kinds : k # kind => rest[k] = wire[k]
  BY <1>1, <1>4 DEF Rest
<1>6. /\ rest[kind] \in Seq(Piece) /\ Len(rest[kind]) = Len(w) - n
      /\ \A i \in 1 .. Len(w) - n : rest[kind][i] = w[n + i]
  <2>1. \A i \in n + 1 .. Len(w) : w[i] \in Piece
    BY <1>1, <1>3
  <2>2. /\ SubSeq(w, n + 1, Len(w)) \in Seq(Piece)
        /\ Len(SubSeq(w, n + 1, Len(w))) = IF n + 1 <= Len(w) THEN Len(w) - (n + 1) + 1 ELSE 0
        /\ \A i \in 1 .. Len(w) - (n + 1) + 1 : SubSeq(w, n + 1, Len(w))[i] = w[n + 1 + i - 1]
    <3> HIDE DEF w
    <3> QED
      BY <1>1, <2>1, SubSeqProperties
  <2> HIDE DEF w, rest
  <2>3. /\ (IF n + 1 <= Len(w) THEN Len(w) - (n + 1) + 1 ELSE 0) = Len(w) - n
        /\ Len(w) - (n + 1) + 1 = Len(w) - n
        /\ \A i \in 1 .. Len(w) - n : n + 1 + i - 1 = n + i
    <3>1. ASSUME NEW l \in Nat, NEW m \in 1 .. l
          PROVE  /\ (IF m + 1 <= l THEN l - (m + 1) + 1 ELSE 0) = l - m
                 /\ l - (m + 1) + 1 = l - m
                 /\ \A i \in 1 .. l - m : m + 1 + i - 1 = m + i
      OBVIOUS
    <3> QED
      BY <1>1, <3>1
  <2>4. Len(rest[kind]) = Len(w) - n /\ rest[kind] \in Seq(Piece)
    BY <1>5, <2>2, <2>3
  <2>5. ASSUME NEW i \in 1 .. Len(w) - n PROVE rest[kind][i] = w[n + i]
    BY <1>5, <2>2, <2>3
  <2> QED
    BY <2>4, <2>5
<1>7. rest \in [Kinds -> Texts]
  <2>1. rest = [wire EXCEPT ![kind] = rest[kind]]
    BY <1>1 DEF Rest
  <2> HIDE DEF rest
  <2> QED
    BY <1>1, <1>6, <2>1 DEF Texts
<1> QED
  BY <1>1, <1>4, <1>5, <1>6, <1>7 DEF Texts

\* What a listener has when a chunk has come.
LEMMA Gathered ==
  ASSUME TypeOK, NEW kind \in Kinds, NEW chunk \in Chunks(kind)
  PROVE  LET d == data[kind]
             text == d \o chunk
         IN  /\ d \in Texts /\ text \in Texts /\ Len(d) \in Nat
             /\ Len(text) = Len(d) + Len(chunk)
             /\ \A i \in 1 .. Len(d) : text[i] = d[i]
             /\ \A i \in 1 .. Len(chunk) : text[Len(d) + i] = chunk[i]
             /\ Last(text) = Last(chunk) /\ text # <<>>
<1> DEFINE d == data[kind]
           text == d \o chunk
<1>1. d \in Seq(Piece) /\ chunk \in Seq(Piece) /\ Len(chunk) \in Nat /\ Len(chunk) >= 1 /\ Len(d) \in Nat
  BY Read, LenProperties DEF TypeOK, Texts
<1> HIDE DEF d
<1>2. /\ text \in Seq(Piece) /\ Len(text) = Len(d) + Len(chunk)
      /\ \A i \in 1 .. Len(d) + Len(chunk) : text[i] = IF i <= Len(d) THEN d[i] ELSE chunk[i - Len(d)]
  BY <1>1, ConcatProperties
<1> HIDE DEF text
<1>3. ASSUME NEW i \in 1 .. Len(d) PROVE text[i] = d[i]
  <2>1. i \in 1 .. Len(d) + Len(chunk) /\ i <= Len(d)
    BY <1>1
  <2> QED
    BY <1>2, <2>1
<1>4. ASSUME NEW i \in 1 .. Len(chunk) PROVE text[Len(d) + i] = chunk[i]
  <2>1. Len(d) + i \in 1 .. Len(d) + Len(chunk) /\ ~(Len(d) + i <= Len(d)) /\ (Len(d) + i) - Len(d) = i
    BY <1>1, <1>4
  <2> QED
    BY <1>2, <2>1
<1>5. Last(text) = Last(chunk)
  BY <1>1, <1>2, <1>4 DEF Last
<1>6. text # <<>>
  BY <1>1, <1>2
<1> QED
  BY <1>1, <1>2, <1>3, <1>4, <1>5, <1>6 DEF Texts, d, text

\* blah2 goes on with the next piece.
LEMMA NextPiece ==
  ASSUME Types
  PROVE  LET s == sending
         IN  /\ s.frame \in Nat /\ s.kind \in Kinds /\ s.part \in 1 .. Parts
             /\ AfterPiece(s) \in [frame : Nat, kind : Kinds, part : 1 .. Parts]
             /\ IF s.part < Parts
                  THEN /\ AfterPiece(s).frame = s.frame /\ AfterPiece(s).kind = s.kind
                       /\ AfterPiece(s).part = s.part + 1
                  ELSE /\ s.part = Parts /\ AfterPiece(s).part = 1
                       /\ s.kind = "map" => AfterPiece(s).frame = s.frame /\ AfterPiece(s).kind = "detection"
                       /\ s.kind = "detection" => AfterPiece(s).frame = s.frame + 1
                                                  /\ AfterPiece(s).kind = "map"
<1> DEFINE s == sending
<1>1. s \in [frame : Nat, kind : Kinds, part : 1 .. Parts] /\ Parts \in Nat \ {0}
  BY Constants DEF Types, TypeOK
<1> HIDE DEF s
<1>2. s.frame \in Nat /\ s.kind \in Kinds /\ s.part \in 1 .. Parts /\ s.part \in Nat
  BY <1>1
<1>3. CASE s.part < Parts
  <2>1. AfterPiece(s) = [s EXCEPT !.part = @ + 1] /\ s.part + 1 \in 1 .. Parts
    BY <1>1, <1>2, <1>3 DEF AfterPiece
  <2> QED
    BY <1>1, <1>2, <1>3, <2>1 DEF s
<1>4. CASE ~(s.part < Parts)
  <2>1. AfterPiece(s) = AfterFrame(s) /\ s.part = Parts /\ 1 \in 1 .. Parts /\ s.frame + 1 \in Nat
    BY <1>1, <1>2, <1>4 DEF AfterPiece
  <2> QED
    BY <1>1, <1>2, <1>4, <2>1 DEF AfterFrame, Kinds, s
<1> QED
  BY <1>3, <1>4

\* What it sends is a piece.
LEMMA SentPiece ==
  ASSUME Types, Send
  PROVE  LET p == [boot |-> boot, frame |-> sending.frame, part |-> sending.part]
             k == sending.kind
             w == wire[k]
         IN  /\ k \in Kinds /\ p \in Piece /\ w \in Seq(Piece) /\ Len(w) \in Nat
             /\ wire' \in [Kinds -> Texts] /\ wire'[k] = Append(w, p)
             /\ \A other \in Kinds : other # k => wire'[other] = wire[other]
             /\ Len(wire'[k]) = Len(w) + 1 /\ wire'[k][Len(w) + 1] = p
             /\ \A i \in 1 .. Len(w) : wire'[k][i] = w[i]
<1> DEFINE p == [boot |-> boot, frame |-> sending.frame, part |-> sending.part]
           k == sending.kind
           w == wire[k]
<1>1. k \in Kinds /\ p \in Piece
  BY NextPiece, Constants DEF Send, Types, TypeOK, Piece
<1>2. w \in Seq(Piece) /\ Len(w) \in Nat /\ wire \in [Kinds -> Seq(Piece)]
  BY <1>1, LenProperties DEF Types, TypeOK, Texts
<1>3. wire' = [wire EXCEPT ![k] = Append(w, p)]
  BY DEF Send
<1> HIDE DEF p, k
<1>4. /\ Append(w, p) \in Seq(Piece) /\ Len(Append(w, p)) = Len(w) + 1 /\ Append(w, p)[Len(w) + 1] = p
      /\ \A i \in 1 .. Len(w) : Append(w, p)[i] = w[i]
  BY <1>1, <1>2, AppendProperties
<1>5. /\ wire' \in [Kinds -> Texts] /\ wire'[k] = Append(w, p)
      /\ \A other \in Kinds : other # k => wire'[other] = wire[other]
  BY <1>1, <1>2, <1>3, <1>4 DEF Texts
<1> QED
  BY <1>1, <1>2, <1>4, <1>5 DEF p, k

LEMMA InitTypes == Init => Types
<1> SUFFICES ASSUME Init PROVE Types
  OBVIOUS
<1>1. <<>> \in Texts /\ <<>> \in Seq(Texts)
  BY EmptySeq DEF Texts
<1>2. 1 \in 1 .. MaxBoots /\ 1 \in 1 .. Parts
  BY Constants
<1>3. sending \in [frame : Nat, kind : Kinds, part : 1 .. Parts] /\ sending.frame > 0
  BY <1>2 DEF Init, Kinds
<1>4. wire \in [Kinds -> Texts] /\ data \in [Kinds -> Texts] /\ served \in [Kinds -> Texts]
  BY <1>1 DEF Init
<1> QED
  BY <1>1, <1>2, <1>3, <1>4 DEF Init, Types, TypeOK

LEMMA StepTypes == Types /\ [Next]_vars => Types'
<1> SUFFICES ASSUME Types, [Next]_vars PROVE Types'
  OBVIOUS
<1>1. TypeOK /\ <<>> \in Texts
  BY EmptySeq DEF Types, Texts
<1>2. CASE Send
  <2>1. sending' = AfterPiece(sending) /\ wire' \in [Kinds -> Texts]
    BY <1>2, SentPiece DEF Send
  <2>2. sending' \in [frame : Nat, kind : Kinds, part : 1 .. Parts] /\ sending'.frame > 0
    <3>1. /\ AfterPiece(sending) \in [frame : Nat, kind : Kinds, part : 1 .. Parts]
          /\ AfterPiece(sending).frame = sending.frame \/ AfterPiece(sending).frame = sending.frame + 1
          /\ sending.frame \in Nat /\ sending.frame > 0
      BY NextPiece DEF Types, Kinds
    <3>2. AfterPiece(sending).frame > 0
      BY <3>1
    <3> QED
      BY <2>1, <3>1, <3>2
  <2> QED
    BY <1>2, <2>1, <2>2 DEF Send, Types, TypeOK
<1>3. CASE Restart
  <2>1. boot' \in 1 .. MaxBoots /\ 1 \in 1 .. Parts /\ sending.frame + 1 \in Nat
    BY <1>1, <1>3, Constants DEF Restart, TypeOK
  <2> QED
    BY <1>3, <2>1 DEF Restart, Types, TypeOK, Kinds
<1>4. CASE ReceiveMap
  <2>1. PICK chunk \in Chunks("map") :
          LET text == data["map"] \o chunk IN
          /\ wire' = Rest("map", chunk)
          /\ IF EndsFrame(chunk)
               THEN served' = [served EXCEPT !["map"] = text] /\ data' = [data EXCEPT !["map"] = <<>>]
               ELSE data' = [data EXCEPT !["map"] = text] /\ UNCHANGED served
    BY <1>4 DEF ReceiveMap
  <2>2. data["map"] \o chunk \in Texts /\ wire' \in [Kinds -> Texts]
    BY <1>1, <2>1, Read, Gathered DEF Kinds
  <2>3. data' \in [Kinds -> Texts] /\ served' \in [Kinds -> Texts]
    <3> DEFINE text == data["map"] \o chunk
    <3>1. /\ data' = [data EXCEPT !["map"] = text] \/ data' = [data EXCEPT !["map"] = <<>>]
          /\ served' = served \/ served' = [served EXCEPT !["map"] = text]
      BY <2>1
    <3>2. text \in Texts /\ <<>> \in Texts
      BY <2>2, EmptySeq DEF Texts
    <3>3. data \in [Kinds -> Texts] /\ served \in [Kinds -> Texts]
      BY <1>1 DEF TypeOK
    <3> HIDE DEF text
    <3> QED
      BY <3>1, <3>2, <3>3
  <2> QED
    BY <1>4, <2>2, <2>3 DEF ReceiveMap, Types, TypeOK, senderVars
<1>5. ASSUME NEW text \in Texts, matching' \in Texts, wire' \in [Kinds -> Texts],
             \/ Broken(text)
             \/ Matched(text)
             \/ data' = [data EXCEPT !["detection"] = text] /\ UNCHANGED <<served, forwarded>>,
             UNCHANGED <<truth, senderVars, trackerConnected>>
      PROVE  Types'
  <2>1. data' \in [Kinds -> Texts] /\ served' \in [Kinds -> Texts]
    BY <1>1, <1>5 DEF Broken, Matched, TypeOK, Kinds
  <2>2. forwarded' \in Seq(Texts)
    <3>1. forwarded \in Seq(Texts) /\ Append(forwarded, text) \in Seq(Texts)
      BY <1>1, <1>5, AppendProperties DEF TypeOK
    <3>2. forwarded' = forwarded \/ forwarded' = Append(forwarded, text)
      BY <1>5 DEF Broken, Matched, Forward
    <3> QED
      BY <3>1, <3>2
  <2> QED
    BY <1>5, <2>1, <2>2 DEF Types, TypeOK, senderVars
<1>6. CASE GatherDetection
  <2>1. PICK chunk \in Chunks("detection") :
          /\ wire' = Rest("detection", chunk)
          /\ data' = [data EXCEPT !["detection"] = @ \o chunk]
    BY <1>6 DEF GatherDetection
  <2>2. data["detection"] \o chunk \in Texts /\ wire' \in [Kinds -> Texts]
    BY <1>1, <2>1, Read, Gathered DEF Kinds
  <2> QED
    BY <1>1, <1>5, <1>6, <2>1, <2>2 DEF GatherDetection, TypeOK
<1>7. CASE ReceiveDetection
  <2>1. PICK chunk \in Chunks("detection") :
          LET text == data["detection"] \o chunk IN
          /\ wire' = Rest("detection", chunk)
          /\ \/ Broken(text) /\ UNCHANGED matching
             \/ Matched(text) /\ UNCHANGED matching
             \/ /\ data' = [data EXCEPT !["detection"] = text]
                /\ matching' = text /\ UNCHANGED <<served, forwarded>>
          /\ UNCHANGED <<truth, senderVars, trackerConnected>>
    BY <1>7 DEF ReceiveDetection
  <2>2. data["detection"] \o chunk \in Texts /\ wire' \in [Kinds -> Texts]
    BY <1>1, <2>1, Read, Gathered DEF Kinds
  <2>3. matching' \in Texts
    BY <1>1, <2>1, <2>2 DEF TypeOK
  <2> QED
    BY <1>5, <2>1, <2>2, <2>3
<1>8. CASE FinishDetection
  BY <1>1, <1>5, <1>8 DEF FinishDetection, TypeOK, Kinds
<1>9. CASE TrackerSocket \/ UNCHANGED vars
  BY <1>9 DEF TrackerSocket, Types, TypeOK, vars, senderVars
<1> QED
  BY <1>2, <1>3, <1>4, <1>6, <1>7, <1>8, <1>9 DEF Next, Listeners

\* Every variable keeps its type, and what blah2 sends next lies in a frame.
THEOREM TypeCorrect == Spec => []TypeOK
<1>1. Types => TypeOK
  BY DEF Types
<1> QED
  BY <1>1, InitTypes, StepTypes, PTL DEF Spec

--------------------------------------------------------------------------------
(* The invariants                                                          *)

\* Every piece of a text has the earlier pieces of its frame right before it.
Chain(text) ==
  \A i \in 1 .. Len(text) : \A j \in 1 .. text[i].part :
    LET before == i - text[i].part + j IN
    before >= 1 /\ text[before].part = j /\ text[before].frame = text[i].frame

\* The maps that are not served yet: what the listener holds, then what is on
\* its way.  They are cut only where a frame ends, or by a restart, which
\* leaves a frame without its tail and begins the next one at its head.
Stream == data["map"] \o wire["map"]

MapInv ==
  /\ Chain(Stream)
  /\ sending.kind = "map" /\ sending.part > 1 =>
       Stream # <<>> /\ Last(Stream).part = sending.part - 1 /\ Last(Stream).frame = sending.frame

\* Detections travel in the order they were captured.
Before(p, q) == p.frame < q.frame \/ (p.frame = q.frame /\ p.part < q.part)
OrderInv ==
  LET w == wire["detection"] IN
  /\ \A i, j \in 1 .. Len(w) : i < j => Before(w[i], w[j])
  /\ \A i \in 1 .. Len(w) :
       IF sending.kind = "detection" THEN Before(w[i], sending) ELSE w[i].frame < sending.frame

\* Frame f is behind: whatever is still to come is of a later frame.
Behind(f, coming, s) == f < s.frame /\ \A i \in 1 .. Len(coming) : f < coming[i].frame

\* It is older than what the listener holds.
Newer(f, waiting, held) ==
  IF waiting # <<>> THEN f < waiting[1].frame ELSE \A j \in 1 .. Len(held) : f < held[j].frame

\* What went to the tracker is behind, and older than what the listener holds.
ForwardInv ==
  /\ matching # <<>> => IsFrame(matching) /\ Behind(matching[1].frame, wire["detection"], sending)
  /\ \A i \in 1 .. Len(forwarded) :
       LET f == forwarded[i][1].frame IN
       /\ IsFrame(forwarded[i]) /\ Behind(f, wire["detection"], sending)
       /\ Newer(f, matching, data["detection"])
  /\ \A i, j \in 1 .. Len(forwarded) : i < j => forwarded[i][1].frame < forwarded[j][1].frame

--------------------------------------------------------------------------------
(* No frame is stranded                                                    *)

\* A listener keeps what it gathers only while no frame has ended, or while
\* the frame before is being matched.
LEMMA StepStranded == TypeOK /\ NoFrameStranded /\ [Next]_vars => NoFrameStranded'
<1> SUFFICES ASSUME TypeOK, NoFrameStranded, [Next]_vars PROVE NoFrameStranded'
  OBVIOUS
<1>1. data \in [Kinds -> Texts]
  BY DEF TypeOK
<1>2. CASE ReceiveMap
  <2>1. PICK chunk \in Chunks("map") :
          LET text == data["map"] \o chunk IN
          \/ EndsFrame(chunk) /\ data' = [data EXCEPT !["map"] = <<>>]
          \/ ~EndsFrame(chunk) /\ data' = [data EXCEPT !["map"] = text]
    BY <1>2 DEF ReceiveMap
  <2>2. Last(data["map"] \o chunk) = Last(chunk)
    BY <2>1, Gathered DEF Kinds
  <2>3. data'["detection"] = data["detection"] /\ (data'["map"] = <<>> \/ ~EndsFrame(data'["map"]))
    BY <1>1, <2>1, <2>2 DEF EndsFrame, Kinds
  <2> QED
    BY <1>2, <2>3 DEF ReceiveMap, NoFrameStranded, Kinds
<1>3. CASE GatherDetection
  <2>1. PICK chunk \in Chunks("detection") :
          /\ ~EndsFrame(chunk) \/ matching # <<>>
          /\ data' = [data EXCEPT !["detection"] = @ \o chunk]
          /\ UNCHANGED matching
    BY <1>3 DEF GatherDetection
  <2>2. Last(data["detection"] \o chunk) = Last(chunk)
    BY <2>1, Gathered DEF Kinds
  <2>3. data'["map"] = data["map"] /\ data'["detection"] = data["detection"] \o chunk
    BY <1>1, <2>1 DEF Kinds
  <2> QED
    BY <2>1, <2>2, <2>3 DEF NoFrameStranded, EndsFrame, Kinds
<1>4. CASE ReceiveDetection \/ FinishDetection
  <2>1. data'["map"] = data["map"] /\ (data'["detection"] = <<>> \/ matching' # <<>>)
    <3>1. CASE ReceiveDetection
      <4>1. PICK chunk \in Chunks("detection") :
              LET text == data["detection"] \o chunk IN
              \/ Broken(text)
              \/ Matched(text)
              \/ data' = [data EXCEPT !["detection"] = text] /\ matching' = text
        BY <3>1 DEF ReceiveDetection
      <4>2. data["detection"] \o chunk # <<>>
        BY <4>1, Gathered DEF Kinds
      <4> QED
        BY <1>1, <4>1, <4>2 DEF Broken, Matched, Kinds
    <3>2. CASE FinishDetection
      BY <1>1, <3>2 DEF FinishDetection, Broken, Matched, Kinds
    <3> QED
      BY <1>4, <3>1, <3>2
  <2> QED
    BY <2>1 DEF NoFrameStranded, Kinds
<1>5. CASE Send \/ Restart \/ TrackerSocket \/ UNCHANGED vars
  <2>1. UNCHANGED <<data, matching>>
    BY <1>5 DEF Send, Restart, TrackerSocket, vars
  <2> QED
    BY <2>1 DEF NoFrameStranded, EndsFrame, Last
<1> QED
  BY <1>2, <1>3, <1>4, <1>5 DEF Next, Listeners

\* No listener holds a text that ends with a whole frame unless it waits for
\* the aircraft (server.js:327-340, 353-377).
THEOREM NothingStranded == Spec => []NoFrameStranded
<1>1. Init => NoFrameStranded
  BY DEF Init, NoFrameStranded
<1> QED
  BY <1>1, TypeCorrect, StepStranded, PTL DEF Spec

--------------------------------------------------------------------------------
(* The detections, and what the tracker gets                               *)

Orders == Types /\ OrderInv

\* Whatever is on its way was sent before what is sent next, and before the
\* end of a frame comes all of it.
LEMMA WholeIsBehind ==
  ASSUME Orders, NEW i \in 1 .. Len(wire["detection"]), wire["detection"][i].part = Parts
  PROVE  /\ wire["detection"][i].frame < sending.frame
         /\ \A j \in 1 .. Len(wire["detection"]) : i < j => wire["detection"][i].frame < wire["detection"][j].frame
<1> DEFINE w == wire["detection"]
<1>1. w \in Seq(Piece) /\ Len(w) \in Nat /\ Parts \in Nat
  BY Constants, LenProperties DEF Orders, Types, TypeOK, Texts, Kinds
<1>2. sending.frame \in Nat /\ sending.part \in Nat /\ sending.part <= Parts
  BY NextPiece, <1>1 DEF Orders
<1>3. \A j \in 1 .. Len(w) : w[j].frame \in Nat /\ w[j].part \in Nat /\ w[j].part <= Parts
  <2>1. \A j \in 1 .. Len(w) : w[j] \in Piece
    BY <1>1, ElementOfSeq
  <2> QED
    BY <2>1, Constants DEF Piece
<1>4. w[i].frame < sending.frame
  BY <1>1, <1>2, <1>3 DEF Orders, OrderInv, Before
<1>5. ASSUME NEW j \in 1 .. Len(w), i < j PROVE w[i].frame < w[j].frame
  BY <1>1, <1>3, <1>5 DEF Orders, OrderInv, Before
<1> QED
  BY <1>4, <1>5

\* A read of the detections leaves what comes after it, in the same order.
LEMMA OrderAfterRead ==
  ASSUME Orders, NEW chunk \in Chunks("detection"), wire' = Rest("detection", chunk), UNCHANGED sending
  PROVE  OrderInv'
<1> DEFINE w == wire["detection"]
           n == Len(chunk)
<1>1. /\ Len(w) \in Nat /\ n \in 1 .. Len(w) /\ Len(w') = Len(w) - n
      /\ \A i \in 1 .. Len(w) - n : w'[i] = w[n + i]
  BY Read DEF Orders, Types, Kinds
<1>2. ASSUME NEW i \in 1 .. Len(w'), NEW j \in 1 .. Len(w'), i < j PROVE Before(w'[i], w'[j])
  <2>1. n + i \in 1 .. Len(w) /\ n + j \in 1 .. Len(w) /\ n + i < n + j
    BY <1>1, <1>2
  <2> QED
    BY <1>1, <2>1 DEF Orders, OrderInv
<1>3. ASSUME NEW i \in 1 .. Len(w')
      PROVE  IF sending'.kind = "detection" THEN Before(w'[i], sending') ELSE w'[i].frame < sending'.frame
  <2>1. n + i \in 1 .. Len(w)
    BY <1>1
  <2> QED
    BY <1>1, <2>1 DEF Orders, OrderInv
<1> QED
  BY <1>2, <1>3 DEF OrderInv

LEMMA StepOrder == Orders /\ [Next]_vars => OrderInv'
<1> SUFFICES ASSUME Orders, [Next]_vars PROVE OrderInv'
  OBVIOUS
<1> DEFINE w == wire["detection"]
           s == sending
<1>1. w \in Seq(Piece) /\ Len(w) \in Nat /\ TypeOK /\ Parts \in Nat
  BY Constants, LenProperties DEF Orders, Types, TypeOK, Texts, Kinds
<1>2. s.frame \in Nat /\ s.part \in Nat /\ s.kind \in Kinds
  BY NextPiece, Constants DEF Orders
<1>3. \A j \in 1 .. Len(w) : w[j].frame \in Nat /\ w[j].part \in Nat
  <2>1. \A j \in 1 .. Len(w) : w[j] \in Piece
    BY <1>1, ElementOfSeq
  <2> QED
    BY <2>1, Constants DEF Piece
<1>4. CASE Send
  <2>1. sending' = AfterPiece(s)
    BY <1>4 DEF Send
  <2>2. /\ s.part < Parts => s'.frame = s.frame /\ s'.kind = s.kind /\ s'.part = s.part + 1
        /\ ~(s.part < Parts) /\ s.kind = "map" => s'.frame = s.frame /\ s'.kind = "detection" /\ s'.part = 1
        /\ ~(s.part < Parts) /\ s.kind = "detection" => s'.frame = s.frame + 1 /\ s'.kind = "map"
    BY <2>1, NextPiece DEF Orders
  <2>3. CASE s.kind = "map"
    <3>1. w' = w
      BY <1>4, <2>3, SentPiece DEF Orders, Kinds
    <3>2. \A i \in 1 .. Len(w) : w[i].frame < s.frame
      BY <2>3 DEF Orders, OrderInv
    <3>3. s'.frame = s.frame
      BY <1>1, <1>2, <2>2, <2>3
    <3>4. \A i \in 1 .. Len(w') : w'[i].frame < s'.frame
      BY <3>1, <3>2, <3>3
    <3>5. \A i, j \in 1 .. Len(w') : i < j => Before(w'[i], w'[j])
      BY <3>1 DEF Orders, OrderInv
    <3> QED
      BY <3>4, <3>5 DEF OrderInv, Before
  <2>4. CASE s.kind = "detection"
    <3> DEFINE p == [boot |-> boot, frame |-> s.frame, part |-> s.part]
    <3>1. /\ Len(w') = Len(w) + 1 /\ w'[Len(w) + 1] = p
          /\ \A i \in 1 .. Len(w) : w'[i] = w[i]
      BY <1>4, <2>4, SentPiece DEF Orders, Kinds
    <3>2. p.frame = s.frame /\ p.part = s.part
      OBVIOUS
    <3>3. \A i \in 1 .. Len(w) : Before(w[i], s)
      BY <2>4 DEF Orders, OrderInv
    <3>4. ASSUME NEW i \in 1 .. Len(w'), NEW j \in 1 .. Len(w'), i < j PROVE Before(w'[i], w'[j])
      <4>1. i \in 1 .. Len(w) /\ w'[i] = w[i]
        BY <1>1, <3>1, <3>4
      <4>2. CASE j \in 1 .. Len(w)
        <5>1. Before(w[i], w[j])
          BY <3>4, <4>1, <4>2 DEF Orders, OrderInv
        <5>2. w'[j] = w[j]
          BY <3>1, <4>2
        <5> QED
          BY <4>1, <5>1, <5>2
      <4>3. CASE j = Len(w) + 1
        BY <3>1, <3>2, <3>3, <4>1, <4>3 DEF Before
      <4> QED
        BY <1>1, <3>1, <4>2, <4>3
    <3>5. ASSUME NEW i \in 1 .. Len(w')
          PROVE  IF s'.kind = "detection" THEN Before(w'[i], s') ELSE w'[i].frame < s'.frame
      <4>1. \/ i \in 1 .. Len(w) /\ w'[i].frame \in Nat /\ w'[i].part \in Nat /\ Before(w'[i], s)
            \/ w'[i].frame = s.frame /\ w'[i].part = s.part
        <5>1. CASE i \in 1 .. Len(w)
          <6>1. w'[i] = w[i] /\ Before(w[i], s)
            BY <3>1, <3>3, <5>1
          <6>2. w[i].frame \in Nat /\ w[i].part \in Nat
            BY <1>3, <5>1
          <6> QED
            BY <5>1, <6>1, <6>2
        <5>2. CASE i = Len(w) + 1
          BY <3>1, <3>2, <5>2
        <5> QED
          BY <1>1, <3>1, <5>1, <5>2
      <4>2. CASE s.part < Parts
        <5>1. s'.kind = "detection" /\ s'.frame = s.frame /\ s'.part = s.part + 1
          BY <2>2, <2>4, <4>2
        <5> HIDE DEF s
        <5> QED
          BY <1>2, <4>1, <5>1 DEF Before
      <4>3. CASE ~(s.part < Parts)
        <5>1. s'.kind = "map" /\ s'.frame = s.frame + 1
          BY <2>2, <2>4, <4>3
        <5> HIDE DEF s
        <5> QED
          BY <1>2, <4>1, <5>1 DEF Before
      <4> QED
        BY <4>2, <4>3
    <3> QED
      BY <3>4, <3>5 DEF OrderInv
  <2> QED
    BY <1>2, <2>3, <2>4 DEF Kinds
<1>5. CASE Restart
  <2>1. w' = w /\ s'.kind = "map" /\ s'.frame = s.frame + 1
    BY <1>5 DEF Restart
  <2>2. ASSUME NEW i \in 1 .. Len(w) PROVE w[i].frame < s.frame + 1
    BY <1>2, <1>3 DEF Orders, OrderInv, Before
  <2>3. \A i, j \in 1 .. Len(w') : i < j => Before(w'[i], w'[j])
    BY <2>1 DEF Orders, OrderInv
  <2>4. \A i \in 1 .. Len(w') : w'[i].frame < s'.frame
    BY <2>1, <2>2
  <2> QED
    BY <2>1, <2>3, <2>4 DEF OrderInv
<1>6. CASE GatherDetection \/ ReceiveDetection
  <2>1. PICK chunk \in Chunks("detection") : wire' = Rest("detection", chunk) /\ UNCHANGED sending
    BY <1>6 DEF GatherDetection, ReceiveDetection, senderVars
  <2> QED
    BY <2>1, OrderAfterRead
<1>7. CASE ReceiveMap
  <2>1. w' = w /\ UNCHANGED sending
    BY <1>1, <1>7, Read DEF ReceiveMap, Kinds, senderVars
  <2> QED
    BY <2>1 DEF Orders, OrderInv, Before
<1>8. CASE FinishDetection \/ TrackerSocket \/ UNCHANGED vars
  <2>1. UNCHANGED <<wire, sending>>
    BY <1>8 DEF FinishDetection, TrackerSocket, vars, senderVars
  <2> QED
    BY <2>1 DEF Orders, OrderInv, Before
<1> QED
  BY <1>4, <1>5, <1>6, <1>7, <1>8 DEF Next, Listeners

LEMMA OrdersHold == Spec => []Orders
<1>1. Init => OrderInv
  <2> SUFFICES ASSUME Init PROVE OrderInv
    OBVIOUS
  <2>1. wire["detection"] = <<>> /\ Len(wire["detection"]) = 0
    BY EmptySeq DEF Init, Kinds
  <2> QED
    BY <2>1 DEF OrderInv
<1>2. Init => Orders
  BY <1>1, InitTypes DEF Orders
<1>3. Orders /\ [Next]_vars => Orders'
  BY StepTypes, StepOrder DEF Orders
<1> QED
  BY <1>2, <1>3, PTL DEF Spec

\* Whatever happens, what is behind stays behind.
LEMMA StillBehind ==
  ASSUME Orders, [Next]_vars, NEW f \in Nat, Behind(f, wire["detection"], sending)
  PROVE  Behind(f, wire'["detection"], sending')
<1> DEFINE w == wire["detection"]
           s == sending
<1>1. w \in Seq(Piece) /\ Len(w) \in Nat /\ TypeOK /\ s.frame \in Nat /\ s.kind \in Kinds
  BY NextPiece, LenProperties DEF Orders, Types, TypeOK, Texts, Kinds
<1>2. CASE Send
  <2>1. s'.frame \in Nat /\ s'.frame >= s.frame
    <3>1. AfterPiece(s).frame = s.frame \/ AfterPiece(s).frame = s.frame + 1
      BY NextPiece DEF Orders, Kinds
    <3>2. s' = AfterPiece(s)
      BY <1>2 DEF Send
    <3> QED
      BY <1>1, <3>1, <3>2
  <2>2. f < s'.frame
    BY <1>1, <2>1 DEF Behind
  <2>3. CASE s.kind = "map"
    BY <1>2, <2>2, <2>3, SentPiece DEF Orders, Kinds, Behind
  <2>4. CASE s.kind = "detection"
    <3> DEFINE p == [boot |-> boot, frame |-> s.frame, part |-> s.part]
    <3>1. /\ Len(w') = Len(w) + 1 /\ w'[Len(w) + 1] = p
          /\ \A i \in 1 .. Len(w) : w'[i] = w[i]
      BY <1>2, <2>4, SentPiece DEF Orders, Kinds
    <3>2. p.frame = s.frame
      OBVIOUS
    <3>3. ASSUME NEW i \in 1 .. Len(w') PROVE f < w'[i].frame
      <4>1. i \in 1 .. Len(w) \/ i = Len(w) + 1
        BY <1>1, <3>1
      <4> QED
        BY <3>1, <3>2, <4>1 DEF Behind
    <3> QED
      BY <2>2, <3>3 DEF Behind
  <2> QED
    BY <1>1, <2>3, <2>4 DEF Kinds
<1>3. CASE Restart
  <2>1. w' = w /\ s'.frame = s.frame + 1
    BY <1>3 DEF Restart
  <2>2. f < s.frame + 1
    BY <1>1 DEF Behind
  <2> QED
    BY <2>1, <2>2 DEF Behind
<1>4. CASE GatherDetection \/ ReceiveDetection
  <2>1. PICK chunk \in Chunks("detection") : wire' = Rest("detection", chunk) /\ UNCHANGED sending
    BY <1>4 DEF GatherDetection, ReceiveDetection, senderVars
  <2>2. /\ Len(chunk) \in 1 .. Len(w) /\ Len(w') = Len(w) - Len(chunk)
        /\ \A i \in 1 .. Len(w) - Len(chunk) : w'[i] = w[Len(chunk) + i]
    BY <1>1, <2>1, Read DEF Kinds
  <2>3. ASSUME NEW i \in 1 .. Len(w') PROVE f < w'[i].frame
    <3>1. Len(chunk) + i \in 1 .. Len(w)
      BY <1>1, <2>2
    <3> QED
      BY <2>2, <3>1 DEF Behind
  <2> QED
    BY <2>1, <2>3 DEF Behind
<1>5. CASE ReceiveMap
  <2>1. w' = w /\ UNCHANGED sending
    BY <1>1, <1>5, Read DEF ReceiveMap, Kinds, senderVars
  <2> QED
    BY <2>1 DEF Behind
<1>6. CASE FinishDetection \/ TrackerSocket \/ UNCHANGED vars
  BY <1>6 DEF FinishDetection, TrackerSocket, vars, senderVars, Behind
<1> QED
  BY <1>2, <1>3, <1>4, <1>5, <1>6 DEF Next, Listeners

\* A frame that has been read whole is behind.
LEMMA ReadIsBehind ==
  ASSUME Orders, NEW chunk \in Chunks("detection"), EndsFrame(chunk),
         wire' = Rest("detection", chunk), UNCHANGED sending
  PROVE  Behind(Last(chunk).frame, wire'["detection"], sending')
<1> DEFINE w == wire["detection"]
           n == Len(chunk)
<1>1. /\ Len(w) \in Nat /\ n \in 1 .. Len(w) /\ Len(w') = Len(w) - n
      /\ \A i \in 1 .. n : chunk[i] = w[i]
      /\ \A i \in 1 .. Len(w) - n : w'[i] = w[n + i]
  BY Read DEF Orders, Types, Kinds
<1>2. Last(chunk) = w[n] /\ w[n].part = Parts
  <2>1. n \in 1 .. n
    BY <1>1
  <2> QED
    BY <1>1, <2>1 DEF Last, EndsFrame
<1>3. /\ w[n].frame < sending.frame
      /\ \A j \in 1 .. Len(w) : n < j => w[n].frame < w[j].frame
  BY <1>1, <1>2, WholeIsBehind
<1>4. ASSUME NEW i \in 1 .. Len(w') PROVE w[n].frame < w'[i].frame
  <2>1. n + i \in 1 .. Len(w) /\ n < n + i
    BY <1>1
  <2> QED
    BY <1>1, <1>3, <2>1
<1>5. \A i \in 1 .. Len(w') : Last(chunk).frame < w'[i].frame
  BY <1>2, <1>4
<1>6. Last(chunk).frame < sending'.frame
  BY <1>2, <1>3
<1>7. Last(chunk)' = Last(chunk)
  BY DEF Last
<1> QED
  BY <1>5, <1>6, <1>7 DEF Behind

\* Its name is that of its first piece.
LEMMA FrameName ==
  ASSUME NEW text \in Texts, text # <<>>, IsFrame(text)
  PROVE  text[1].frame \in Nat /\ Last(text).frame = text[1].frame
<1>1. Parts \in Nat \ {0} /\ Len(text) = Parts /\ DOMAIN text = 1 .. Parts
  BY Constants, LenProperties DEF IsFrame, Texts
<1>2. text[1] \in Piece
  BY <1>1, ElementOfSeq DEF Texts
<1> QED
  BY <1>1, <1>2, Constants DEF IsFrame, Last, Piece

\* Detections that the listener gathers while none is being matched are newer
\* than what the tracker has.
LEMMA GatheredIsNewer ==
  ASSUME Orders, NEW chunk \in Chunks("detection"), NEW f \in Nat, Behind(f, wire["detection"], sending),
         \A j \in 1 .. Len(data["detection"]) : f < data["detection"][j].frame
  PROVE  LET text == data["detection"] \o chunk IN \A j \in 1 .. Len(text) : f < text[j].frame
<1> DEFINE d == data["detection"]
           text == d \o chunk
<1>1. TypeOK /\ "detection" \in Kinds
  BY DEF Orders, Types, Kinds
<1>2. /\ Len(d) \in Nat /\ Len(text) = Len(d) + Len(chunk)
      /\ \A i \in 1 .. Len(d) : text[i] = d[i]
      /\ \A i \in 1 .. Len(chunk) : text[Len(d) + i] = chunk[i]
  BY <1>1, Gathered
<1>3. /\ Len(chunk) \in Nat /\ Len(wire["detection"]) \in Nat /\ Len(chunk) <= Len(wire["detection"])
      /\ \A i \in 1 .. Len(chunk) : chunk[i] = wire["detection"][i]
  BY <1>1, Read
<1>4. \A i \in 1 .. Len(chunk) : f < chunk[i].frame
  <2>1. \A i \in 1 .. Len(chunk) : i \in 1 .. Len(wire["detection"])
    BY <1>3
  <2> QED
    BY <1>3, <2>1 DEF Behind
<1>5. ASSUME NEW j \in 1 .. Len(text) PROVE f < text[j].frame
  <2>1. CASE j \in 1 .. Len(d)
    BY <1>2, <2>1
  <2>2. CASE ~(j \in 1 .. Len(d))
    <3>1. j - Len(d) \in 1 .. Len(chunk) /\ Len(d) + (j - Len(d)) = j
      BY <1>2, <1>3, <2>2
    <3> QED
      BY <1>2, <1>4, <3>1
  <2> QED
    BY <2>1, <2>2
<1> QED
  BY <1>5

Kept == Orders /\ ForwardInv

\* The frames that were forwarded have a number.
LEMMA Forwarded ==
  ASSUME Kept, NEW i \in 1 .. Len(forwarded)
  PROVE  /\ forwarded \in Seq(Texts) /\ Len(forwarded) \in Nat
         /\ IsFrame(forwarded[i]) /\ forwarded[i][1].frame \in Nat
         /\ Behind(forwarded[i][1].frame, wire["detection"], sending)
         /\ Newer(forwarded[i][1].frame, matching, data["detection"])
<1>1. forwarded \in Seq(Texts) /\ Len(forwarded) \in Nat
  BY LenProperties DEF Kept, Orders, Types, TypeOK
<1>2. forwarded[i] \in Texts
  BY <1>1, ElementOfSeq
<1>3. /\ IsFrame(forwarded[i]) /\ Behind(forwarded[i][1].frame, wire["detection"], sending)
      /\ Newer(forwarded[i][1].frame, matching, data["detection"])
  BY DEF Kept, ForwardInv, Newer
<1>4. forwarded[i] # <<>>
  BY <1>3, Constants, EmptySeq DEF IsFrame
<1> QED
  BY <1>1, <1>2, <1>3, <1>4, FrameName

\* A step that forwards nothing.
LEMMA NothingForwarded ==
  ASSUME Kept, [Next]_vars, UNCHANGED forwarded,
         \A f \in Nat : Behind(f, wire["detection"], sending) /\ Newer(f, matching, data["detection"])
                        => Newer(f, matching', data'["detection"]),
         matching' # <<>> =>
           IsFrame(matching') /\ Behind(matching'[1].frame, wire'["detection"], sending')
  PROVE  ForwardInv'
<1>1. ASSUME NEW i \in 1 .. Len(forwarded)
      PROVE  /\ IsFrame(forwarded[i]) /\ Behind(forwarded[i][1].frame, wire'["detection"], sending')
             /\ Newer(forwarded[i][1].frame, matching', data'["detection"])
  <2>1. \A f \in Nat : f = forwarded[i][1].frame =>
          Behind(f, wire'["detection"], sending') /\ Newer(f, matching', data'["detection"])
    BY Forwarded, StillBehind DEF Kept
  <2> QED
    BY <2>1, Forwarded
<1>2. \A i, j \in 1 .. Len(forwarded) : i < j => forwarded[i][1].frame < forwarded[j][1].frame
  BY DEF Kept, ForwardInv
<1>3. forwarded' = forwarded
  OBVIOUS
<1>4. \A i \in 1 .. Len(forwarded') :
        /\ IsFrame(forwarded'[i]) /\ Behind(forwarded'[i][1].frame, wire'["detection"], sending')
        /\ Newer(forwarded'[i][1].frame, matching', data'["detection"])
  BY <1>1, <1>3
<1>5. \A i, j \in 1 .. Len(forwarded') : i < j => forwarded'[i][1].frame < forwarded'[j][1].frame
  BY <1>2, <1>3
<1>6. matching' # <<>> => IsFrame(matching') /\ Behind(matching'[1].frame, wire'["detection"], sending')
  OBVIOUS
<1> QED
  BY <1>4, <1>5, <1>6 DEF ForwardInv

\* A step that forwards a frame which is newer than those before.
LEMMA OneForwarded ==
  ASSUME Kept, [Next]_vars, NEW text \in Texts, text # <<>>, IsFrame(text),
         forwarded' = Append(forwarded, text),
         Behind(text[1].frame, wire'["detection"], sending'),
         \A f \in Nat : Behind(f, wire["detection"], sending) /\ Newer(f, matching, data["detection"])
                        => f < text[1].frame,
         matching' = <<>>, data'["detection"] = <<>>
  PROVE  ForwardInv'
<1> DEFINE n == Len(forwarded)
<1>1. forwarded \in Seq(Texts) /\ n \in Nat
  BY LenProperties DEF Kept, Orders, Types, TypeOK
<1>2. /\ Len(forwarded') = n + 1 /\ forwarded'[n + 1] = text
      /\ \A i \in 1 .. n : forwarded'[i] = forwarded[i]
  BY <1>1, AppendProperties
<1>3. ASSUME NEW i \in 1 .. n
      PROVE  /\ IsFrame(forwarded[i]) /\ Behind(forwarded[i][1].frame, wire'["detection"], sending')
             /\ forwarded[i][1].frame < text[1].frame
  <2>1. PICK f \in Nat : f = forwarded[i][1].frame
    BY Forwarded
  <2>2. /\ Behind(f, wire["detection"], sending) /\ Newer(f, matching, data["detection"])
        /\ IsFrame(forwarded[i])
    BY <2>1, Forwarded
  <2>3. Behind(f, wire'["detection"], sending') /\ f < text[1].frame
    BY <2>2, StillBehind DEF Kept
  <2> QED
    BY <2>1, <2>2, <2>3
<1>4. \A i, j \in 1 .. n : i < j => forwarded[i][1].frame < forwarded[j][1].frame
  BY DEF Kept, ForwardInv
<1>5. ASSUME NEW i \in 1 .. n + 1
      PROVE  IsFrame(forwarded'[i]) /\ Behind(forwarded'[i][1].frame, wire'["detection"], sending')
  <2>1. CASE i \in 1 .. n
    BY <1>2, <1>3, <2>1
  <2>2. CASE i = n + 1
    BY <1>2, <2>2
  <2> QED
    BY <1>1, <2>1, <2>2
<1>6. ASSUME NEW i \in 1 .. n + 1, NEW j \in 1 .. n + 1, i < j
      PROVE  forwarded'[i][1].frame < forwarded'[j][1].frame
  <2>1. i \in 1 .. n
    BY <1>1, <1>6
  <2>2. CASE j \in 1 .. n
    BY <1>2, <1>4, <1>6, <2>1, <2>2
  <2>3. CASE j = n + 1
    BY <1>2, <1>3, <2>1, <2>3
  <2> QED
    BY <1>1, <2>2, <2>3
<1>7. \A f : Newer(f, matching', data'["detection"])
  BY DEF Newer
<1> QED
  BY <1>2, <1>5, <1>6, <1>7 DEF ForwardInv

LEMMA StepForward == Kept /\ [Next]_vars => ForwardInv'
<1> SUFFICES ASSUME Kept, [Next]_vars PROVE ForwardInv'
  OBVIOUS
<1> DEFINE d == data["detection"]
<1>1. /\ TypeOK /\ Orders /\ "detection" \in Kinds /\ "map" \in Kinds
      /\ data \in [Kinds -> Texts] /\ matching \in Texts
  BY DEF Kept, Orders, Types, TypeOK, Kinds
<1>2. matching # <<>> => /\ IsFrame(matching) /\ Behind(matching[1].frame, wire["detection"], sending)
                         /\ matching[1].frame \in Nat
  BY <1>1, FrameName DEF Kept, ForwardInv
<1>3. ASSUME UNCHANGED matching
      PROVE  matching' # <<>> =>
               IsFrame(matching') /\ Behind(matching'[1].frame, wire'["detection"], sending')
  <2>1. ASSUME matching # <<>> PROVE Behind(matching[1].frame, wire'["detection"], sending')
    BY <1>1, <1>2, <2>1, StillBehind
  <2> QED
    BY <1>2, <1>3, <2>1
<1>4. ASSUME UNCHANGED <<matching, forwarded>>, data'["detection"] = d PROVE ForwardInv'
  <2>1. \A f \in Nat : Newer(f, matching, data["detection"]) => Newer(f, matching', data'["detection"])
    BY <1>4 DEF Newer
  <2> QED
    BY <1>3, <1>4, <2>1, NothingForwarded
<1>5. CASE Send \/ Restart \/ TrackerSocket \/ UNCHANGED vars
  BY <1>4, <1>5 DEF Send, Restart, TrackerSocket, vars
<1>6. CASE ReceiveMap
  <2>1. data'["detection"] = d /\ UNCHANGED <<matching, forwarded>>
    BY <1>1, <1>6 DEF ReceiveMap
  <2> QED
    BY <1>4, <2>1
<1>7. CASE GatherDetection
  <2>1. PICK chunk \in Chunks("detection") :
          data' = [data EXCEPT !["detection"] = @ \o chunk] /\ UNCHANGED <<matching, forwarded>>
    BY <1>7 DEF GatherDetection
  <2>2. data'["detection"] = d \o chunk
    BY <1>1, <2>1
  <2>3. ASSUME NEW f \in Nat, Behind(f, wire["detection"], sending), Newer(f, matching, data["detection"])
        PROVE  Newer(f, matching', data'["detection"])
    BY <1>1, <2>1, <2>2, <2>3, GatheredIsNewer DEF Newer
  <2> QED
    BY <1>3, <2>1, <2>3, NothingForwarded
<1>8. ASSUME data'["detection"] = <<>>, matching' = <<>>
      PROVE  \A f \in Nat : Newer(f, matching', data'["detection"])
  <2>1. Len(data'["detection"]) = 0
    BY <1>8, EmptySeq
  <2> QED
    BY <1>8, <2>1 DEF Newer
<1>9. CASE ReceiveDetection
  <2>1. PICK chunk \in Chunks("detection") :
          LET text == d \o chunk IN
          /\ EndsFrame(chunk) /\ matching = <<>>
          /\ wire' = Rest("detection", chunk)
          /\ \/ Broken(text) /\ UNCHANGED matching
             \/ IsFrame(text) /\ Matched(text) /\ UNCHANGED matching
             \/ /\ IsFrame(text)
                /\ matching' = text /\ UNCHANGED <<served, forwarded>>
          /\ UNCHANGED sending
    BY <1>9 DEF ReceiveDetection, senderVars
  <2> DEFINE text == d \o chunk
  <2>2. text \in Texts /\ text # <<>> /\ Last(text) = Last(chunk) /\ Len(text) \in Nat /\ Len(text) >= 1
    BY <1>1, <2>1, Gathered, Read
  <2>3. Behind(Last(chunk).frame, wire'["detection"], sending')
    BY <1>1, <2>1, ReadIsBehind
  <2>4. ASSUME NEW f \in Nat, Behind(f, wire["detection"], sending), Newer(f, matching, data["detection"])
        PROVE  f < text[1].frame
    <3>1. \A j \in 1 .. Len(text) : f < text[j].frame
      BY <1>1, <2>1, <2>4, GatheredIsNewer DEF Newer
    <3> QED
      BY <2>2, <3>1
  <2>5. ASSUME IsFrame(text) PROVE Behind(text[1].frame, wire'["detection"], sending')
    <3>1. text[1].frame = Last(chunk).frame
      BY <2>2, <2>5, FrameName
    <3> HIDE DEF text
    <3> QED
      BY <2>3, <3>1
  <2>6. CASE Broken(text) /\ UNCHANGED matching
    <3>1. data'["detection"] = <<>> /\ matching' = <<>> /\ UNCHANGED forwarded
      BY <1>1, <2>1, <2>6 DEF Broken
    <3> QED
      BY <1>8, <3>1, NothingForwarded
  <2>7. CASE IsFrame(text) /\ Matched(text) /\ UNCHANGED matching
    <3>1. data'["detection"] = <<>> /\ matching' = <<>>
      BY <1>1, <2>1, <2>7 DEF Matched
    <3>2. forwarded' = forwarded \/ forwarded' = Append(forwarded, text)
      BY <2>7 DEF Matched, Forward
    <3> HIDE DEF text
    <3>3. CASE forwarded' = forwarded
      BY <1>8, <3>1, <3>3, NothingForwarded
    <3>4. CASE forwarded' = Append(forwarded, text)
      <4>1. /\ text \in Texts /\ text # <<>> /\ IsFrame(text)
            /\ Behind(text[1].frame, wire'["detection"], sending')
            /\ \A f \in Nat : Behind(f, wire["detection"], sending) /\ Newer(f, matching, data["detection"])
                              => f < text[1].frame
        BY <2>2, <2>4, <2>5, <2>7
      <4>2. ASSUME NEW frame, frame = text PROVE ForwardInv'
        BY <3>1, <3>4, <4>1, <4>2, OneForwarded
      <4> QED
        BY <4>2
    <3> QED
      BY <3>2, <3>3, <3>4
  <2>8. CASE IsFrame(text) /\ matching' = text /\ UNCHANGED <<served, forwarded>>
    <3> HIDE DEF text
    <3>1. \A f \in Nat : Behind(f, wire["detection"], sending) /\ Newer(f, matching, data["detection"])
                         => Newer(f, matching', data'["detection"])
      BY <2>2, <2>4, <2>8 DEF Newer
    <3> QED
      BY <2>5, <2>8, <3>1, NothingForwarded
  <2> QED
    BY <2>1, <2>6, <2>7, <2>8
<1>10. CASE FinishDetection
  <2>1. /\ data'["detection"] = <<>> /\ matching' = <<>>
        /\ forwarded' = forwarded \/ forwarded' = Append(forwarded, matching)
        /\ UNCHANGED sending /\ UNCHANGED wire
    BY <1>1, <1>10 DEF FinishDetection, Broken, Matched, Forward, senderVars
  <2>2. \A f \in Nat : Newer(f, matching, data["detection"]) => f < matching[1].frame
    BY <1>10 DEF FinishDetection, Newer
  <2>3. matching # <<>> /\ Behind(matching[1].frame, wire'["detection"], sending') /\ IsFrame(matching)
    BY <1>2, <1>10, <2>1 DEF FinishDetection
  <2>4. CASE forwarded' = forwarded
    BY <1>8, <2>1, <2>4, NothingForwarded
  <2>5. CASE forwarded' = Append(forwarded, matching)
    BY <1>1, <2>1, <2>2, <2>3, <2>5, OneForwarded
  <2> QED
    BY <2>1, <2>4, <2>5
<1> QED
  BY <1>5, <1>6, <1>7, <1>9, <1>10 DEF Next, Listeners

\* The tracker is sent whole frames, each once and in the order they were
\* captured, whether or not the API could parse what it served and wherever
\* the tracker was away (server.js:63-72, 356-377).
THEOREM TrackerFrames == Spec => []TrackerGetsFrames
<1>1. Init => ForwardInv
  <2> SUFFICES ASSUME Init PROVE ForwardInv
    OBVIOUS
  <2>1. matching = <<>> /\ Len(forwarded) = 0
    BY EmptySeq DEF Init
  <2> QED
    BY <2>1 DEF ForwardInv
<1>2. Orders /\ ForwardInv /\ [Next]_vars => ForwardInv'
  BY StepForward DEF Kept
<1>3. Orders /\ ForwardInv => TrackerGetsFrames
  <2> SUFFICES ASSUME Orders, ForwardInv PROVE TrackerGetsFrames
    OBVIOUS
  <2>1. DOMAIN forwarded = 1 .. Len(forwarded)
    BY LenProperties DEF Orders, Types, TypeOK
  <2> QED
    BY <2>1 DEF ForwardInv, TrackerGetsFrames
<1> QED
  BY <1>1, <1>2, <1>3, OrdersHold, PTL DEF Spec

--------------------------------------------------------------------------------
(* The maps                                                                *)

\* A chain grows by the first piece of a frame, or by the next of the last.
LEMMA ChainGrows ==
  ASSUME NEW old \in Texts, NEW new \in Texts, Chain(old), NEW piece \in Piece,
         Len(new) = Len(old) + 1, new[Len(old) + 1] = piece, \A i \in 1 .. Len(old) : new[i] = old[i],
         piece.part > 1 => old # <<>> /\ Last(old).part = piece.part - 1 /\ Last(old).frame = piece.frame
  PROVE  Chain(new)
<1> DEFINE n == Len(old)
<1>1. n \in Nat /\ Len(new) = n + 1 /\ piece.part \in Nat /\ piece.part >= 1 /\ (old # <<>> => n >= 1)
  BY Constants, LenProperties, EmptySeq DEF Texts, Piece
<1>2. \A i \in 1 .. n : new[i] = old[i] /\ old[i].part \in Nat /\ old[i] \in Piece
  <2>1. \A i \in 1 .. n : old[i] \in Piece
    BY ElementOfSeq DEF Texts
  <2> QED
    BY <2>1, Constants DEF Piece
<1> HIDE DEF n
<1>3. ASSUME NEW i \in 1 .. n, NEW j \in 1 .. new[i].part
      PROVE  LET before == i - new[i].part + j IN
             before >= 1 /\ new[before].part = j /\ new[before].frame = new[i].frame
  <2>1. /\ i - old[i].part + j >= 1 /\ old[i - old[i].part + j].part = j
        /\ old[i - old[i].part + j].frame = old[i].frame
    BY <1>2, <1>3 DEF Chain, n
  <2>2. i - old[i].part + j \in 1 .. n
    BY <1>1, <1>2, <1>3, <2>1
  <2> QED
    BY <1>2, <2>1, <2>2
<1>4. ASSUME NEW end, end = n + 1, NEW j \in 1 .. piece.part
      PROVE  LET before == end - piece.part + j IN
             before >= 1 /\ new[before].part = j /\ new[before].frame = piece.frame
  <2>1. CASE j = piece.part
    <3>1. end - piece.part + j = end /\ end >= 1
      BY <1>1, <1>4, <2>1
    <3>2. new[end] = piece
      BY <1>4 DEF n
    <3> QED
      BY <2>1, <3>1, <3>2
  <2>2. CASE j # piece.part
    <3>1. n >= 1 /\ old[n].part = piece.part - 1 /\ old[n].frame = piece.frame
      BY <1>1, <1>4, <2>2 DEF Last, n
    <3>2. n \in 1 .. n /\ j \in 1 .. old[n].part
      BY <1>1, <1>4, <2>2, <3>1
    <3>3. n - old[n].part + j = end - piece.part + j
      <4>1. \A a, b, c \in Int : a - (b - 1) + c = (a + 1) - b + c
        OBVIOUS
      <4>2. n \in Int /\ piece.part \in Int /\ j \in Int
        BY <1>1
      <4>3. n - (piece.part - 1) + j = (n + 1) - piece.part + j
        BY <4>1, <4>2
      <4> QED
        BY <1>4, <3>1, <4>3
    <3>4. /\ end - piece.part + j >= 1 /\ new[end - piece.part + j].part = j
          /\ new[end - piece.part + j].frame = new[n].frame
      <4>1. new[n].part = old[n].part
        BY <1>2, <3>2
      <4>2. j \in 1 .. new[n].part
        BY <3>2, <4>1
      <4>3. LET before == n - new[n].part + j IN
            before >= 1 /\ new[before].part = j /\ new[before].frame = new[n].frame
        BY <1>3, <3>2, <4>2
      <4> QED
        BY <3>3, <4>1, <4>3
    <3> QED
      BY <1>2, <3>1, <3>2, <3>4
  <2> QED
    BY <2>1, <2>2
<1> DEFINE Linked(i) == \A j \in 1 .. new[i].part :
                          LET before == i - new[i].part + j IN
                          before >= 1 /\ new[before].part = j /\ new[before].frame = new[i].frame
<1>5. \A i \in 1 .. n : Linked(i)
  BY <1>3
<1>6. Linked(n + 1)
  <2>1. PICK end : end = n + 1
    OBVIOUS
  <2>2. \A j \in 1 .. piece.part :
          LET before == end - piece.part + j IN
          before >= 1 /\ new[before].part = j /\ new[before].frame = piece.frame
    BY <1>4, <2>1
  <2>3. new[end] = piece
    BY <2>1 DEF n
  <2>4. Linked(end)
    BY <2>2, <2>3
  <2> HIDE DEF Linked
  <2> QED
    BY <2>1, <2>4
<1>7. \A i \in 1 .. Len(new) : Linked(i)
  <2> HIDE DEF Linked
  <2>1. \A i \in 1 .. n + 1 : i \in 1 .. n \/ i = n + 1
    BY <1>1
  <2> QED
    BY <1>1, <1>5, <1>6, <2>1
<1> QED
  BY <1>7 DEF Chain

\* Cut behind the last piece of a frame, a chain leaves a chain.
LEMMA ChainCut ==
  ASSUME NEW old \in Texts, NEW new \in Texts, Chain(old), NEW m \in 1 .. Len(old), old[m].part = Parts,
         Len(new) = Len(old) - m, \A i \in 1 .. Len(old) - m : new[i] = old[m + i]
  PROVE  Chain(new)
<1>1. Len(old) \in Nat /\ Parts \in Nat /\ m \in Nat
  BY Constants, LenProperties DEF Texts
<1>2. \A i \in 1 .. Len(old) : old[i].part \in Nat /\ old[i].part <= Parts
  <2>1. \A i \in 1 .. Len(old) : old[i] \in Piece
    BY ElementOfSeq DEF Texts
  <2> QED
    BY <2>1, Constants DEF Piece
<1>3. ASSUME NEW i \in 1 .. Len(new), NEW j \in 1 .. new[i].part
      PROVE  LET before == i - new[i].part + j IN
             before >= 1 /\ new[before].part = j /\ new[before].frame = new[i].frame
  <2> DEFINE part == old[m + i].part
             before == i - part + j
  <2>1. m + i \in 1 .. Len(old) /\ new[i] = old[m + i] /\ part \in Nat /\ part <= Parts /\ j \in 1 .. part
        /\ i \in Nat /\ j \in Nat /\ i >= 1
    BY <1>1, <1>2, <1>3
  <2>2. \A l \in 1 .. part : /\ (m + i) - part + l >= 1 /\ old[(m + i) - part + l].part = l
                             /\ old[(m + i) - part + l].frame = old[m + i].frame
    BY <2>1 DEF Chain
  <2> HIDE DEF part
  <2>3. before >= 1
    <3> SUFFICES ASSUME before < 1 PROVE FALSE
      BY <2>1
    <3>1. part - i \in 1 .. part /\ part - i < part /\ (m + i) - part + (part - i) = m
      BY <1>1, <2>1
    <3>2. old[m].part = part - i
      BY <2>2, <3>1
    <3> QED
      BY <1>1, <2>1, <3>1, <3>2
  <2>4. before \in 1 .. Len(new) /\ (m + i) - part + j = m + before
    <3>1. ASSUME NEW l \in Nat, NEW p \in Nat, NEW a \in 1 .. l, NEW c \in 1 .. p, NEW q \in Nat,
                 a - p + c >= 1
          PROVE  a - p + c \in 1 .. l /\ (q + a) - p + c = q + (a - p + c)
      BY <3>1
    <3>2. Len(new) \in Nat
      BY LenProperties DEF Texts
    <3> QED
      BY <1>1, <1>3, <2>1, <2>3, <3>1, <3>2
  <2>5. new[before] = old[m + before]
    BY <2>4
  <2> QED
    BY <2>1, <2>2, <2>3, <2>4, <2>5 DEF part
<1> QED
  BY <1>3 DEF Chain

\* The end of a chain that ends a frame is that frame.
LEMMA ChainEndsWhole ==
  ASSUME NEW chain \in Texts, Chain(chain), NEW text \in Texts, text # <<>>, Len(text) <= Len(chain),
         \A i \in 1 .. Len(text) : text[i] = chain[i], EndsFrame(text)
  PROVE  Len(text) >= Parts /\ IsFrame(SubSeq(text, Len(text) - Parts + 1, Len(text)))
<1> DEFINE m == Len(text)
           end == SubSeq(text, m - Parts + 1, m)
<1>1. m \in Nat /\ m >= 1 /\ Len(chain) \in Nat /\ Parts \in Nat /\ Parts >= 1
  BY Constants, LenProperties, EmptySeq DEF Texts
<1>2. m \in 1 .. Len(chain) /\ m \in 1 .. m /\ text[m] = chain[m] /\ chain[m].part = Parts
  BY <1>1 DEF EndsFrame, Last
<1>3. \A j \in 1 .. Parts : /\ m - Parts + j >= 1 /\ chain[m - Parts + j].part = j
                            /\ chain[m - Parts + j].frame = chain[m].frame
  BY <1>2 DEF Chain
<1> HIDE DEF m
<1>4. m - Parts + 1 >= 1 /\ m >= Parts
  BY <1>1, <1>3
<1>5. \A j \in 1 .. Parts : text[m - Parts + j].part = j /\ text[m - Parts + j].frame = chain[m].frame
  <2>1. \A j \in 1 .. Parts : m - Parts + j \in 1 .. m
    BY <1>1, <1>4
  <2> QED
    BY <1>3, <2>1 DEF m
<1>6. Len(end) = Parts /\ DOMAIN end = 1 .. Parts /\ \A j \in 1 .. Parts : end[j] = text[m - Parts + j]
  <2>1. \A i \in m - Parts + 1 .. m : text[i] \in Piece
    <3>1. \A i \in m - Parts + 1 .. m : i \in 1 .. m
      BY <1>1, <1>4
    <3> QED
      BY <3>1, ElementOfSeq DEF Texts, m
  <2>2. /\ end \in Seq(Piece)
        /\ Len(end) = IF m - Parts + 1 <= m THEN m - (m - Parts + 1) + 1 ELSE 0
        /\ \A j \in 1 .. m - (m - Parts + 1) + 1 : end[j] = text[m - Parts + 1 + j - 1]
    BY <1>1, <2>1, SubSeqProperties
  <2> HIDE DEF end
  <2>3. Len(end) = Parts /\ m - (m - Parts + 1) + 1 = Parts
        /\ \A j \in 1 .. Parts : m - Parts + 1 + j - 1 = m - Parts + j
    BY <1>1, <1>4, <2>2
  <2> QED
    BY <2>2, <2>3, LenProperties
<1> HIDE DEF end
<1>7. IsFrame(end)
  BY <1>1, <1>5, <1>6 DEF IsFrame
<1> QED
  BY <1>4, <1>7 DEF end, m

\* A text and what follows it.
LEMMA TextThenRest ==
  ASSUME NEW text \in Texts, NEW rest \in Texts
  PROVE  /\ text \o rest \in Texts /\ Len(text) \in Nat /\ Len(rest) \in Nat
         /\ Len(text \o rest) = Len(text) + Len(rest)
         /\ \A i \in 1 .. Len(text) : (text \o rest)[i] = text[i]
         /\ \A i \in 1 .. Len(rest) : (text \o rest)[Len(text) + i] = rest[i]
         /\ rest # <<>> => text \o rest # <<>> /\ Last(text \o rest) = Last(rest)
<1>1. text \in Seq(Piece) /\ rest \in Seq(Piece) /\ Len(text) \in Nat /\ Len(rest) \in Nat
  BY LenProperties DEF Texts
<1> DEFINE all == text \o rest
<1>2. /\ all \in Seq(Piece) /\ Len(all) = Len(text) + Len(rest)
      /\ \A i \in 1 .. Len(text) + Len(rest) : all[i] = IF i <= Len(text) THEN text[i] ELSE rest[i - Len(text)]
  BY <1>1, ConcatProperties
<1> HIDE DEF all
<1>3. \A i \in 1 .. Len(text) : all[i] = text[i]
  BY <1>1, <1>2
<1>4. ASSUME NEW i \in 1 .. Len(rest) PROVE all[Len(text) + i] = rest[i]
  <2>1. Len(text) + i \in 1 .. Len(text) + Len(rest) /\ ~(Len(text) + i <= Len(text)) /\ (Len(text) + i) - Len(text) = i
    BY <1>1, <1>4
  <2> QED
    BY <1>2, <2>1
<1>5. ASSUME rest # <<>> PROVE all # <<>> /\ Last(all) = Last(rest)
  <2>1. Len(rest) \in 1 .. Len(rest) /\ Len(rest) >= 1
    BY <1>1, <1>5, EmptySeq
  <2>2. Len(all) # 0
    BY <1>1, <1>2, <2>1
  <2> QED
    BY <1>2, <1>4, <2>1, <2>2, EmptySeq DEF Last
<1> QED
  BY <1>1, <1>2, <1>3, <1>4, <1>5 DEF Texts, all

\* A read splits what a socket holds.
LEMMA ReadSplits ==
  ASSUME TypeOK, NEW kind \in Kinds, NEW chunk \in Chunks(kind)
  PROVE  chunk \o Rest(kind, chunk)[kind] = wire[kind]
<1> DEFINE w == wire[kind]
<1>1. w \in Seq(Piece) /\ Len(w) \in Nat /\ DOMAIN w = 1 .. Len(w) /\ wire \in [Kinds -> Texts]
  BY LenProperties DEF TypeOK, Texts
<1>2. PICK n \in 1 .. Len(w) : chunk = SubSeq(w, 1, n)
  BY <1>1 DEF Chunks
<1>3. Len(chunk) = n
  <2>1. Len(chunk) = IF 1 <= n THEN n - 1 + 1 ELSE 0
    <3>1. \A i \in 1 .. n : w[i] \in Piece
      BY <1>1, <1>2, ElementOfSeq
    <3> HIDE DEF w
    <3> QED
      BY <1>1, <1>2, <3>1, SubSeqProperties
  <2> QED
    BY <1>1, <2>1
<1>4. Rest(kind, chunk)[kind] = SubSeq(w, n + 1, Len(w))
  BY <1>1, <1>3 DEF Rest
<1> HIDE DEF w
<1>5. 1 \in 1 .. Len(w) + 1 /\ n \in 1 - 1 .. Len(w) /\ Len(w) \in n .. Len(w)
  BY <1>1
<1>6. SubSeq(w, 1, n) \o SubSeq(w, n + 1, Len(w)) = SubSeq(w, 1, Len(w))
  BY <1>1, <1>5, ConcatAdjacentSubSeq
<1>7. SubSeq(w, 1, Len(w)) = w
  BY <1>1, SubSeqFull
<1> QED
  BY <1>2, <1>4, <1>6, <1>7 DEF w

\* The stream begins with what a listener has when a chunk has come.
LEMMA StreamSplits ==
  ASSUME TypeOK, NEW chunk \in Chunks("map")
  PROVE  LET text == data["map"] \o chunk
             rest == Rest("map", chunk)["map"]
         IN  text \in Texts /\ rest \in Texts /\ Stream = text \o rest
<1>1. /\ data["map"] \in Seq(Piece) /\ chunk \in Seq(Piece) /\ Rest("map", chunk)["map"] \in Seq(Piece)
      /\ data["map"] \o chunk \in Texts
  BY Read, Gathered DEF TypeOK, Texts, Kinds
<1>2. chunk \o Rest("map", chunk)["map"] = wire["map"]
  BY ReadSplits DEF Kinds
<1> DEFINE d == data["map"]
           rest == Rest("map", chunk)["map"]
<1> HIDE DEF d, rest
<1>3. d \in Seq(Piece) /\ chunk \in Seq(Piece) /\ rest \in Seq(Piece)
  BY <1>1 DEF d, rest
<1>4. (d \o chunk) \o rest = d \o (chunk \o rest)
  BY <1>3, ConcatAssociative
<1> QED
  BY <1>1, <1>2, <1>4 DEF Stream, Texts, d, rest

Maps == Types /\ MapInv

\* The stream grows by the piece that is sent.
LEMMA StreamGrows ==
  ASSUME Maps, Send, sending.kind = "map"
  PROVE  LET p == [boot |-> boot, frame |-> sending.frame, part |-> sending.part]
         IN  /\ p \in Piece /\ Stream \in Texts /\ Stream' \in Texts
             /\ Len(Stream') = Len(Stream) + 1 /\ Stream'[Len(Stream) + 1] = p
             /\ \A i \in 1 .. Len(Stream) : Stream'[i] = Stream[i]
             /\ Stream' # <<>> /\ Last(Stream') = p
<1> DEFINE p == [boot |-> boot, frame |-> sending.frame, part |-> sending.part]
           d == data["map"]
           w == wire["map"]
<1>1. p \in Piece /\ w \in Seq(Piece) /\ wire'["map"] = Append(w, p) /\ d \in Seq(Piece)
  BY SentPiece DEF Maps, Types, TypeOK, Texts, Kinds
<1>2. data' = data
  BY DEF Send
<1> HIDE DEF p, d, w
<1>3. Stream = d \o w /\ Stream' = d \o Append(w, p)
  BY <1>1, <1>2 DEF Stream, d, w
<1>4. Append(w, p) = w \o <<p>> /\ <<p>> \in Seq(Piece) /\ Append(w, p) \in Seq(Piece)
  BY <1>1, AppendIsConcat
<1>5. d \o (w \o <<p>>) = (d \o w) \o <<p>>
  BY <1>1, <1>4, ConcatAssociative
<1>6. d \o w \in Seq(Piece)
  BY <1>1, ConcatProperties
<1>7. Stream' = Append(Stream, p) /\ Stream \in Seq(Piece)
  BY <1>1, <1>3, <1>4, <1>5, <1>6, AppendIsConcat
<1> DEFINE old == Stream
           new == Stream'
<1> HIDE DEF old, new
<1>8. old \in Seq(Piece) /\ new = Append(old, p) /\ Len(old) \in Nat
  BY <1>7, LenProperties DEF old, new
<1>9. /\ new \in Seq(Piece) /\ new # <<>> /\ Len(new) = Len(old) + 1 /\ new[Len(old) + 1] = p
      /\ \A i \in 1 .. Len(old) : new[i] = old[i]
  BY <1>1, <1>8, AppendProperties
<1>10. Last(new) = p
  BY <1>9 DEF Last
<1> QED
  BY <1>1, <1>8, <1>9, <1>10 DEF Texts, old, new, p

LEMMA StepMaps == Maps /\ [Next]_vars => MapInv'
<1> SUFFICES ASSUME Maps, [Next]_vars PROVE MapInv'
  OBVIOUS
<1> DEFINE s == sending
<1>1. TypeOK /\ Types /\ Chain(Stream) /\ s.kind \in Kinds /\ s.part \in Nat /\ s.part >= 1 /\ Parts \in Nat
  BY NextPiece, Constants DEF Maps, Types, MapInv
<1>2. s.kind = "map" /\ s.part > 1 =>
        Stream # <<>> /\ Last(Stream).part = s.part - 1 /\ Last(Stream).frame = s.frame
  BY DEF Maps, MapInv
<1>3. ASSUME Stream' = Stream, UNCHANGED sending PROVE MapInv'
  BY <1>1, <1>2, <1>3 DEF MapInv, Chain, Last
<1>4. CASE Send
  <2>1. s' = AfterPiece(s)
    BY <1>4 DEF Send
  <2>2. CASE s.kind = "map"
    <3> DEFINE p == [boot |-> boot, frame |-> s.frame, part |-> s.part]
               old == Stream
               new == Stream'
    <3>1. /\ p \in Piece /\ old \in Texts /\ new \in Texts
          /\ Len(new) = Len(old) + 1 /\ new[Len(old) + 1] = p
          /\ \A i \in 1 .. Len(old) : new[i] = old[i]
          /\ new # <<>> /\ Last(new) = p
      BY <1>4, <2>2, StreamGrows
    <3>2. p.part = s.part /\ p.frame = s.frame
      OBVIOUS
    <3>3. p.part > 1 => old # <<>> /\ Last(old).part = p.part - 1 /\ Last(old).frame = p.frame
      BY <1>2, <2>2, <3>2
    <3> HIDE DEF p, old, new
    <3>4. Chain(new)
      BY <1>1, <3>1, <3>3, ChainGrows DEF old
    <3>5. s'.kind = "map" /\ s'.part > 1 =>
            new # <<>> /\ Last(new).part = s'.part - 1 /\ Last(new).frame = s'.frame
      <4>1. CASE s.part < Parts
        <5>1. s'.part = s.part + 1 /\ s'.frame = s.frame
          BY <1>1, <2>1, <4>1, NextPiece
        <5> QED
          BY <1>1, <3>1, <3>2, <5>1
      <4>2. CASE ~(s.part < Parts)
        <5>1. s'.part = 1
          BY <1>1, <2>1, <4>2, NextPiece
        <5> QED
          BY <5>1
      <4> QED
        BY <4>1, <4>2
    <3> QED
      BY <3>4, <3>5 DEF new, MapInv, Chain, Last
  <2>3. CASE s.kind = "detection"
    <3>1. Stream' = Stream
      BY <1>1, <1>4, <2>3, SentPiece DEF Send, Stream, Kinds
    <3>2. s'.kind = "map" => s'.part = 1
      BY <1>1, <2>1, <2>3, NextPiece
    <3> QED
      BY <1>1, <3>1, <3>2 DEF MapInv, Chain
  <2> QED
    BY <1>1, <2>2, <2>3 DEF Kinds
<1>5. CASE Restart
  <2>1. Stream' = Stream /\ s'.part = 1
    BY <1>5 DEF Restart, Stream
  <2> QED
    BY <1>1, <2>1 DEF MapInv, Chain
<1>6. CASE ReceiveMap
  <2>1. PICK chunk \in Chunks("map") :
          LET text == data["map"] \o chunk IN
          /\ wire' = Rest("map", chunk)
          /\ IF EndsFrame(chunk) THEN data' = [data EXCEPT !["map"] = <<>>]
                                 ELSE data' = [data EXCEPT !["map"] = text]
          /\ UNCHANGED sending
    BY <1>6 DEF ReceiveMap, senderVars
  <2> DEFINE text == data["map"] \o chunk
             rest == wire'["map"]
  <2>2. text \in Texts /\ rest \in Texts /\ Stream = text \o rest /\ data \in [Kinds -> Texts]
    BY <1>1, <2>1, StreamSplits DEF TypeOK
  <2>3. text # <<>> /\ Last(text) = Last(chunk)
    BY <1>1, <2>1, Gathered DEF Kinds
  <2>4. CASE ~EndsFrame(chunk)
    <3>1. data'["map"] = text
      BY <2>1, <2>2, <2>4 DEF Kinds
    <3>2. Stream' = text \o rest
      BY <3>1 DEF Stream
    <3> QED
      BY <1>3, <2>1, <2>2, <3>2
  <2>5. CASE EndsFrame(chunk)
    <3>1. data'["map"] = <<>>
      BY <2>1, <2>2, <2>5 DEF Kinds
    <3>2. Stream' = rest
      BY <2>2, <3>1, ConcatEmptySeq DEF Stream, Texts
    <3> DEFINE new == rest
               old == Stream
               gone == text
    <3>3. /\ gone \in Texts /\ new \in Texts /\ old = gone \o new /\ Chain(old) /\ gone # <<>>
          /\ gone[Len(gone)].part = Parts
      BY <1>1, <2>2, <2>3, <2>5 DEF EndsFrame, Last
    <3> HIDE DEF new, old, gone
    <3>4. /\ old \in Texts /\ Len(gone) \in Nat /\ Len(new) \in Nat /\ Len(old) = Len(gone) + Len(new)
          /\ \A i \in 1 .. Len(gone) : old[i] = gone[i]
          /\ \A i \in 1 .. Len(new) : old[Len(gone) + i] = new[i]
          /\ new # <<>> => old # <<>> /\ Last(old) = Last(new)
      BY <3>3, TextThenRest
    <3>5. Len(gone) \in 1 .. Len(old) /\ Len(gone) \in 1 .. Len(gone) /\ Len(old) - Len(gone) = Len(new)
      BY <3>3, <3>4, EmptySeq DEF Texts
    <3>6. Chain(new)
      BY <3>3, <3>4, <3>5, ChainCut
    <3>7. s.kind = "map" /\ s.part > 1 => new # <<>>
      <4> SUFFICES ASSUME s.kind = "map", s.part > 1, new = <<>> PROVE FALSE
        OBVIOUS
      <4>1. Len(new) = 0
        BY EmptySeq
      <4>2. Last(old) = gone[Len(gone)]
        BY <3>4, <3>5, <4>1 DEF Last
      <4>3. Last(old).part = s.part - 1 /\ s.part <= Parts
        BY <1>1, <1>2, NextPiece DEF old
      <4> QED
        BY <1>1, <3>3, <4>2, <4>3
    <3>8. s.kind = "map" /\ s.part > 1 =>
            new # <<>> /\ Last(new).part = s.part - 1 /\ Last(new).frame = s.frame
      BY <1>2, <3>4, <3>7 DEF old
    <3>9. Stream' = new /\ sending' = s
      BY <2>1, <3>2 DEF new
    <3> QED
      BY <3>6, <3>8, <3>9 DEF MapInv
  <2> QED
    BY <2>4, <2>5
<1>7. CASE GatherDetection \/ ReceiveDetection
  <2>1. PICK chunk \in Chunks("detection") : wire' = Rest("detection", chunk) /\ UNCHANGED sending
    BY <1>7 DEF GatherDetection, ReceiveDetection, senderVars
  <2>2. wire'["map"] = wire["map"]
    BY <1>1, <2>1, Read DEF Kinds
  <2>3. data'["map"] = data["map"]
    BY <1>1, <1>7 DEF GatherDetection, ReceiveDetection, Broken, Matched, TypeOK, Kinds
  <2> QED
    BY <1>3, <2>1, <2>2, <2>3 DEF Stream
<1>8. CASE FinishDetection \/ TrackerSocket \/ UNCHANGED vars
  <2>1. data'["map"] = data["map"] /\ UNCHANGED <<wire, sending>>
    BY <1>1, <1>8 DEF FinishDetection, TrackerSocket, vars, senderVars, Broken, Matched, TypeOK, Kinds
  <2> QED
    BY <1>3, <2>1 DEF Stream
<1> QED
  BY <1>4, <1>5, <1>6, <1>7, <1>8 DEF Next, Listeners

LEMMA StepMapEndsWhole == Maps /\ MapEndsWhole /\ [Next]_vars => MapEndsWhole'
<1> SUFFICES ASSUME Maps, MapEndsWhole, [Next]_vars PROVE MapEndsWhole'
  OBVIOUS
<1>1. TypeOK /\ Chain(Stream) /\ Stream \in Texts
  <2>1. TypeOK /\ Chain(Stream)
    BY DEF Maps, Types, MapInv
  <2>2. Stream \in Texts
    BY <2>1, TextThenRest DEF TypeOK, Stream, Kinds
  <2> QED
    BY <2>1, <2>2
<1>2. ASSUME served'["map"] = served["map"] PROVE MapEndsWhole'
  BY <1>2 DEF MapEndsWhole
<1>3. CASE ReceiveMap
  <2>1. PICK chunk \in Chunks("map") :
          \/ EndsFrame(chunk) /\ served' = [served EXCEPT !["map"] = data["map"] \o chunk]
          \/ UNCHANGED served
    BY <1>3 DEF ReceiveMap
  <2>2. CASE UNCHANGED served
    BY <1>2, <2>2
  <2>3. CASE EndsFrame(chunk) /\ served' = [served EXCEPT !["map"] = data["map"] \o chunk]
    <3> DEFINE text == data["map"] \o chunk
               rest == Rest("map", chunk)["map"]
               all == Stream
    <3>1. /\ text \in Texts /\ rest \in Texts /\ all = text \o rest
          /\ text # <<>> /\ Last(text) = Last(chunk)
      BY <1>1, <2>1, StreamSplits, Gathered DEF Kinds
    <3>2. EndsFrame(text)
      BY <2>3, <3>1 DEF EndsFrame
    <3>3. served'["map"] = text
      BY <1>1, <2>3 DEF TypeOK, Kinds
    <3>4. all \in Texts /\ Chain(all)
      BY <1>1
    <3> HIDE DEF text, rest, all
    <3>5. Len(text) <= Len(all) /\ \A i \in 1 .. Len(text) : text[i] = all[i]
      BY <3>1, TextThenRest
    <3>6. Len(text) >= Parts /\ IsFrame(SubSeq(text, Len(text) - Parts + 1, Len(text)))
      BY <3>1, <3>2, <3>4, <3>5, ChainEndsWhole
    <3> QED
      BY <3>3, <3>6 DEF MapEndsWhole
  <2> QED
    BY <2>1, <2>2, <2>3
<1>4. CASE ReceiveDetection \/ FinishDetection
  <2>1. served'["map"] = served["map"]
    BY <1>1, <1>4 DEF ReceiveDetection, FinishDetection, Broken, Matched, TypeOK, Kinds
  <2> QED
    BY <1>2, <2>1
<1>5. CASE Send \/ Restart \/ GatherDetection \/ TrackerSocket \/ UNCHANGED vars
  BY <1>2, <1>5 DEF Send, Restart, GatherDetection, TrackerSocket, vars
<1> QED
  BY <1>3, <1>4, <1>5 DEF Next, Listeners

\* Whatever was read in one piece, and wherever a restart cut a frame short,
\* the map that is served ends with a whole frame (server.js:327-340).
THEOREM MapsEndWhole == Spec => []MapEndsWhole
<1>1. Init => MapInv /\ MapEndsWhole
  <2> SUFFICES ASSUME Init PROVE MapInv /\ MapEndsWhole
    OBVIOUS
  <2>1. Stream = <<>> \o <<>> /\ served["map"] = <<>> /\ sending.part = 1
    BY DEF Init, Stream, Kinds
  <2>2. Len(Stream) = 0
    BY <2>1, ConcatEmptySeq, EmptySeq
  <2> QED
    BY <2>1, <2>2 DEF MapInv, Chain, MapEndsWhole
<1>2. Types /\ MapInv /\ [Next]_vars => MapInv'
  BY StepMaps DEF Maps
<1>3. Types /\ MapInv /\ MapEndsWhole /\ [Next]_vars => MapEndsWhole'
  BY StepMapEndsWhole DEF Maps
<1> QED
  BY <1>1, <1>2, <1>3, InitTypes, StepTypes, PTL DEF Spec
================================================================================
