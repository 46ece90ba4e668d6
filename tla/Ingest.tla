--------------------------------- MODULE Ingest --------------------------------
(***************************************************************************)
(* From the back stage to the API: blah2 writes each frame to a TCP socket *)
(* in chunks (Socket.cpp), the listeners of server.js glue what they read  *)
(* together again and serve it, and each detection frame goes on to the    *)
(* tracker.                                                                *)
(*                                                                         *)
(* The map listener stands for those of the timings and the IQ data too,   *)
(* which have the same code.  The detection listener differs: it parses    *)
(* the frame and may wait for the ADS-B aircraft before it answers, and the*)
(* socket goes on being read meanwhile.                                    *)
(*                                                                         *)
(* A piece is a run of a frame's bytes.  Only the last piece of a frame    *)
(* ends in '}': the frames are flat objects.                               *)
(***************************************************************************)
EXTENDS Naturals, Sequences

CONSTANTS
  Parts,        \* pieces of a frame
  Frames,       \* bound: CPIs that are sent
  MaxBoots      \* bound: starts of blah2

ASSUME IngestAssumption == Parts \in Nat \ {0} /\ Frames \in Nat /\ MaxBoots \in Nat \ {0}

VARIABLES
  truth,            \* adsbTruthAvailable(): the configuration asks for ADS-B truth
  boot,             \* starts of blah2; each opens its sockets anew
  sending,          \* what blah2 sends next: frame, kind and part
  wire,             \* the bytes between blah2 and the API, by socket
  data,             \* data_map and data_detection
  served,           \* map and detection, the texts the routes return
  matching,         \* the frame that waits for the aircraft; empty when none does
  trackerConnected,
  forwarded         \* history: what was written to the tracker

senderVars == <<boot, sending>>
vars == <<truth, senderVars, wire, data, served, matching, trackerConnected, forwarded>>

Kinds == {"map", "detection"}
Piece == [boot : 1 .. MaxBoots, frame : 1 .. Frames, part : 1 .. Parts]

Last(text) == text[Len(text)]
EndsFrame(text) == Last(text).part = Parts

\* The text is one frame, whole: JSON.parse accepts it.
IsFrame(text) ==
  /\ Len(text) = Parts
  /\ \A i \in DOMAIN text : text[i].part = i /\ text[i].frame = text[1].frame

\* What a read may return: some of the bytes that have arrived, never those
\* of two connections, and never none.
Chunks(kind) ==
  {SubSeq(wire[kind], 1, n) : n \in {m \in DOMAIN wire[kind] : wire[kind][m].boot = wire[kind][1].boot}}
Rest(kind, chunk) == [wire EXCEPT ![kind] = SubSeq(@, Len(chunk) + 1, Len(@))]

--------------------------------------------------------------------------------
Init ==
  /\ truth \in BOOLEAN
  /\ boot = 1 /\ sending = [frame |-> 1, kind |-> "map", part |-> 1]
  /\ wire = [k \in Kinds |-> <<>>] /\ data = [k \in Kinds |-> <<>>]
  /\ served = [k \in Kinds |-> <<>>] /\ matching = <<>>
  /\ trackerConnected = FALSE /\ forwarded = <<>>

--------------------------------------------------------------------------------
(* blah2                                                                   *)

\* The first piece of what follows a frame: a CPI's map, then its detections.
AfterFrame(s) == IF s.kind = "map" THEN [frame |-> s.frame, kind |-> "detection", part |-> 1]
                                   ELSE [frame |-> s.frame + 1, kind |-> "map", part |-> 1]

\* Socket::sendData writes a frame chunk by chunk.  Each write_some is taken to
\* deliver its chunk whole: the code does not look at the count returned, and
\* goes on with the next chunk after an error.
AfterPiece(s) == IF s.part < Parts THEN [s EXCEPT !.part = @ + 1] ELSE AfterFrame(s)

Send ==
  /\ sending.frame <= Frames
  /\ wire' = [wire EXCEPT ![sending.kind] =
       Append(@, [boot |-> boot, frame |-> sending.frame, part |-> sending.part])]
  /\ sending' = AfterPiece(sending)
  /\ UNCHANGED <<truth, boot, data, served, matching, trackerConnected, forwarded>>

\* blah2 dies, in the middle of a frame perhaps, and comes back with the next
\* CPI over new connections.  What it had written still arrives.
Restart ==
  /\ boot < MaxBoots /\ sending.frame < Frames
  /\ boot' = boot + 1
  /\ sending' = [frame |-> sending.frame + 1, kind |-> "map", part |-> 1]
  /\ UNCHANGED <<truth, wire, data, served, matching, trackerConnected, forwarded>>

--------------------------------------------------------------------------------
(* The listeners of server.js                                              *)

\* Mutants of ReceiveMap.  The first serves every chunk, as the listener of
\* the time stamps does; the second tests the text it had before the chunk.
ReceiveMapEveryChunk ==
  \E chunk \in Chunks("map") :
    /\ wire' = Rest("map", chunk)
    /\ served' = [served EXCEPT !["map"] = data["map"] \o chunk]
    /\ data' = [data EXCEPT !["map"] = <<>>]
    /\ UNCHANGED <<truth, senderVars, matching, trackerConnected, forwarded>>
ReceiveMapLate ==
  \E chunk \in Chunks("map") :
    /\ wire' = Rest("map", chunk)
    /\ IF data["map"] # <<>> /\ EndsFrame(data["map"])
         THEN served' = [served EXCEPT !["map"] = data["map"]] /\ data' = [data EXCEPT !["map"] = chunk]
         ELSE data' = [data EXCEPT !["map"] = @ \o chunk] /\ UNCHANGED served
    /\ UNCHANGED <<truth, senderVars, matching, trackerConnected, forwarded>>

\* The listener publishes what it has gathered when a chunk ends in '}'.
ReceiveMap ==
  \E chunk \in Chunks("map") :
    LET text == data["map"] \o chunk IN
    /\ wire' = Rest("map", chunk)
    /\ IF EndsFrame(chunk)
         THEN served' = [served EXCEPT !["map"] = text] /\ data' = [data EXCEPT !["map"] = <<>>]
         ELSE data' = [data EXCEPT !["map"] = text] /\ UNCHANGED served
    /\ UNCHANGED <<truth, senderVars, matching, trackerConnected, forwarded>>

\* forwardToTracker: nothing is kept for a tracker that is not there.
Forward(text) == forwarded' = IF trackerConnected THEN Append(forwarded, text) ELSE forwarded

\* Mutant of Broken: the forward has slipped below the catch.
BrokenForwards(text) ==
  /\ served' = [served EXCEPT !["detection"] = text]
  /\ data' = [data EXCEPT !["detection"] = <<>>]
  /\ Forward(text)

\* Mutant of Broken: only a frame that parses empties the buffer.
BrokenKeepsText(text) ==
  /\ served' = [served EXCEPT !["detection"] = text]
  /\ data' = [data EXCEPT !["detection"] = text]
  /\ UNCHANGED forwarded

\* The catch and the finally: the text is served as it came.
Broken(text) ==
  /\ served' = [served EXCEPT !["detection"] = text]
  /\ data' = [data EXCEPT !["detection"] = <<>>]
  /\ UNCHANGED forwarded

\* The end of the try and the finally: whatever the buffer holds by now goes.
Matched(frame) ==
  /\ served' = [served EXCEPT !["detection"] = frame]
  /\ data' = [data EXCEPT !["detection"] = <<>>]
  /\ Forward(frame)

\* A chunk that does not end a frame, or comes while a frame is being
\* matched, is only kept.
GatherDetection ==
  \E chunk \in Chunks("detection") :
    /\ ~EndsFrame(chunk) \/ matching # <<>>
    /\ wire' = Rest("detection", chunk)
    /\ data' = [data EXCEPT !["detection"] = @ \o chunk]
    /\ UNCHANGED <<truth, senderVars, served, matching, trackerConnected, forwarded>>

\* A frame ends: it is parsed, and matched against the aircraft if there are
\* any to be had.
ReceiveDetection ==
  \E chunk \in Chunks("detection") :
    LET text == data["detection"] \o chunk IN
    /\ EndsFrame(chunk) /\ matching = <<>>
    /\ wire' = Rest("detection", chunk)
    /\ \/ ~IsFrame(text) /\ Broken(text) /\ UNCHANGED matching
       \/ IsFrame(text) /\ ~truth /\ Matched(text) /\ UNCHANGED matching
       \/ /\ IsFrame(text) /\ truth
          /\ data' = [data EXCEPT !["detection"] = text]
          /\ matching' = text /\ UNCHANGED <<served, forwarded>>
    /\ UNCHANGED <<truth, senderVars, trackerConnected>>

\* The aircraft are there, from the cache or from tar1090 or, after its
\* timeout, none; or matching throws.  Adsb has what becomes of the fetch, and
\* the one case in which the listener goes on waiting.
FinishDetection ==
  /\ matching # <<>>
  /\ Matched(matching) \/ Broken(data["detection"])
  /\ matching' = <<>>
  /\ UNCHANGED <<truth, senderVars, wire, trackerConnected>>

\* connectToTracker and the events of its socket.
TrackerSocket ==
  /\ trackerConnected' = ~trackerConnected
  /\ UNCHANGED <<truth, senderVars, wire, data, served, matching, forwarded>>

--------------------------------------------------------------------------------
Listeners == ReceiveMap \/ GatherDetection \/ ReceiveDetection \/ FinishDetection
Next == Send \/ Restart \/ Listeners \/ TrackerSocket

Spec == Init /\ [][Next]_vars

\* blah2 keeps sending while it runs, and the event loop of the API serves
\* every socket that has bytes.  Restarts, the tracker and an end of the wait
\* for the aircraft are not owed.
FairSpec == Spec /\ WF_vars(Send) /\ WF_vars(ReceiveMap)

--------------------------------------------------------------------------------
Texts == Seq(Piece)

\* Every variable holds a value of its type; what blah2 sends next lies in a
\* frame.
TypeOK ==
  /\ truth \in BOOLEAN /\ boot \in 1 .. MaxBoots
  /\ sending \in [frame : Nat, kind : Kinds, part : 1 .. Parts]
  /\ wire \in [Kinds -> Texts] /\ data \in [Kinds -> Texts] /\ served \in [Kinds -> Texts]
  /\ matching \in Texts /\ trackerConnected \in BOOLEAN /\ forwarded \in Seq(Texts)

\* The map that is served always ends with a whole frame, however the bytes
\* were read and wherever a connection was cut: the newest frame is never
\* missing its head or its tail, so a bad text lasts one publication
\* (server.js:327-340).
MapEndsWhole ==
  LET text == served["map"] IN
  text # <<>> => Len(text) >= Parts /\ IsFrame(SubSeq(text, Len(text) - Parts + 1, Len(text)))

\* No listener sits on a finished frame: only the next chunk would wake it,
\* and the frame would spoil that one (server.js:353-377).
NoFrameStranded ==
  \A k \in Kinds : (k = "detection" => matching = <<>>) /\ data[k] # <<>> => ~EndsFrame(data[k])

\* The tracker is sent whole frames, each once, and in the order they were
\* captured, although the API serves what it could not parse and the tracker
\* comes and goes (server.js:63-72, 356-377).
TrackerGetsFrames ==
  /\ \A i \in DOMAIN forwarded : IsFrame(forwarded[i])
  /\ \A i, j \in DOMAIN forwarded : i < j => forwarded[i][1].frame < forwarded[j][1].frame

\* A map that blah2 wrote to its end is served, or a newer one is: also when
\* its end was read together with the start of the next map and that one was
\* cut off by a restart.
MapCatchesUp ==
  \A f \in 1 .. Frames :
    (\E i \in DOMAIN wire["map"] : wire["map"][i].frame = f /\ wire["map"][i].part = Parts)
      ~> (served["map"] # <<>> /\ Last(served["map"]).frame >= f)

\* What blah2 writes comes back out of its route unchanged, however the bytes
\* were split on the way in (test_ingest.js:2-3).  It does not: a read that
\* holds the end of a frame and the start of the next publishes neither.
ServedUnchanged == \A k \in Kinds : served[k] = <<>> \/ IsFrame(served[k])

================================================================================
