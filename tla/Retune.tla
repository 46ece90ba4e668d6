--------------------------------- MODULE Retune ---------------------------------
(***************************************************************************)
(* A live retune from the request to the tuners: the HTTP endpoints of     *)
(* api/server.js keep the last request under a growing generation, the     *)
(* retune thread of Capture.cpp polls them, RspDuo::retune updates the     *)
(* frequency and then the gain of each tuner, and the outcome is posted    *)
(* back.  Updates are refused by the driver, posts get lost, and either    *)
(* process restarts with none of its memory.                               *)
(*                                                                         *)
(* A gain stands for the gain reductions and the LNA state of a request;   *)
(* each tuner has its own.  A poll that fails or brings nothing new changes*)
(* nothing and is a stuttering step.                                       *)
(***************************************************************************)
EXTENDS Naturals, FiniteSets

CONSTANTS
  Fcs,            \* frequencies a request may ask for
  Fractional,     \* those of them that are not whole numbers of Hz
  Gains,          \* gain settings
  ConfigFc, ConfigGain,   \* the tuning of the configuration file
  NoFc,           \* the 0 that TuneState starts with
  MaxAttempts,    \* MAX_RETUNE_ATTEMPTS
  MaxRequests,    \* bound: requests ever made
  MaxRestarts,    \* bound: restarts of blah2
  MaxApiRestarts, \* bound: restarts of the API
  None            \* null

ASSUME RetuneAssumption ==
  /\ Fractional \subseteq Fcs /\ ConfigFc \in Fcs \ Fractional /\ NoFc \notin Fcs
  /\ ConfigGain \in Gains /\ MaxAttempts \in Nat \ {0}
  /\ MaxRequests \in Nat /\ MaxRestarts \in Nat /\ MaxApiRestarts \in Nat

VARIABLES
  retune,          \* API: the last request, its generation and (history) its number
  retuneStatus,    \* API: the last acknowledgement
  retuneRejection, \* API: the request blah2 gave up on
  requests, apiRestarts,
  pc, reading,     \* blah2: the retune thread, and the request it last took up
  lastApplied, attempted, attempts,
  device,          \* the tuners
  currentFc,       \* TuneState
  boot,            \* the number of times blah2 restarted
  tried,           \* history: attempts at each request in this boot of blah2
  done             \* history: the requests this boot applied or gave up

apiVars   == <<retune, retuneStatus, retuneRejection, requests, apiRestarts>>
blah2Vars == <<pc, reading, lastApplied, attempted, attempts, device, currentFc, boot,
               tried, done>>
vars == <<apiVars, blah2Vars>>

Requests == 0 .. MaxRequests

\* The tuning the API starts with: generation 0, nothing requested.
Seed == [id |-> 0, generation |-> 0, fc |-> ConfigFc, gain |-> ConfigGain]

\* The tuners on their way to the configured tuning, which they have by the
\* time the device is ready.
Unready == [ready |-> FALSE, fc |-> ConfigFc, gainA |-> ConfigGain, gainB |-> ConfigGain]

Init ==
  /\ retune = Seed /\ retuneStatus = None /\ retuneRejection = None
  /\ requests = 0 /\ apiRestarts = 0
  /\ pc = "poll" /\ reading = Seed
  /\ lastApplied = 0 /\ attempted = 0 /\ attempts = 0
  /\ device = Unready /\ currentFc = NoFc /\ boot = 0
  /\ tried = [i \in Requests |-> 0] /\ done = {}

--------------------------------------------------------------------------------
(* The API                                                                 *)

\* POST /capture/retune with a request that passes validate.
Request ==
  /\ requests < MaxRequests
  /\ \E fc \in Fcs, gain \in Gains :
       retune' = [id |-> requests + 1, generation |-> retune.generation + 1,
                  fc |-> fc, gain |-> gain]
  /\ requests' = requests + 1
  /\ retuneRejection' = None
  /\ UNCHANGED <<retuneStatus, apiRestarts, blah2Vars>>

\* The generation GET /capture/retune reports: 0 for one that was rejected.
Offered ==
  IF retuneRejection # None /\ retuneRejection.generation = retune.generation
    THEN 0 ELSE retune.generation

\* The API comes back with the tuning of the configuration file.
ApiRestart ==
  /\ apiRestarts < MaxApiRestarts /\ apiRestarts' = apiRestarts + 1
  /\ retune' = Seed /\ retuneStatus' = None /\ retuneRejection' = None
  /\ UNCHANGED <<requests, blah2Vars>>

--------------------------------------------------------------------------------
(* The retune thread of blah2                                              *)

\* A poll brings a generation above the last one retired.  The reply's
\* frequency is read with %u: a fraction ends the parse.
Pending == Offered > lastApplied /\ retune.fc \notin Fractional

\* Mutant of Fetch: a new generation goes on with the attempts of the last.
FetchKeepsCount ==
  /\ pc = "poll" /\ Pending
  /\ reading' = retune /\ attempted' = retune.generation
  /\ attempts' = IF attempts >= MaxAttempts THEN attempts ELSE attempts + 1
  /\ tried' = [tried EXCEPT ![retune.id] = @ + 1]
  /\ pc' = "tune"
  /\ UNCHANGED <<apiVars, lastApplied, device, currentFc, boot, done>>

Fetch ==
  /\ pc = "poll" /\ Pending
  /\ reading' = retune /\ attempted' = retune.generation
  /\ attempts' = IF attempted = retune.generation THEN attempts + 1 ELSE 1
  /\ tried' = [tried EXCEPT ![retune.id] = @ + 1]
  /\ pc' = "tune"
  /\ UNCHANGED <<apiVars, lastApplied, device, currentFc, boot, done>>

\* Mutant of GiveUp: the request is left to the API to retire.
GiveUpByPost ==
  IF attempts >= MaxAttempts
    THEN /\ done' = done \cup {reading.id} /\ attempts' = 0
         /\ pc' = "reject" /\ UNCHANGED lastApplied
    ELSE pc' = "poll" /\ UNCHANGED <<lastApplied, attempts, done>>

\* An attempt failed: the last one retires the generation.
GiveUp ==
  IF attempts >= MaxAttempts
    THEN /\ lastApplied' = reading.generation /\ done' = done \cup {reading.id}
         /\ pc' = "reject" /\ UNCHANGED attempts
    ELSE pc' = "poll" /\ UNCHANGED <<lastApplied, attempts, done>>

tuneIdle == UNCHANGED <<apiVars, reading, attempted, boot, tried>>

\* RspDuo::retune before process() has set the device up.
TuneNotReady ==
  /\ pc = "tune" /\ ~device.ready
  /\ GiveUp /\ UNCHANGED <<device, currentFc>> /\ tuneIdle

\* The driver refuses one of the updates.  The ones before it have been
\* made: the frequency, then the gain of tuner A.
Refusable == IF reading.fc = device.fc THEN {"gain_a", "gain_b"}
                                       ELSE {"fc", "gain_a", "gain_b"}
TuneRefused ==
  /\ pc = "tune" /\ device.ready
  /\ \E update \in Refusable :
       device' = [device EXCEPT !.fc    = IF update = "fc" THEN @ ELSE reading.fc,
                                !.gainA = IF update = "gain_b" THEN reading.gain ELSE @]
  /\ GiveUp /\ UNCHANGED currentFc /\ tuneIdle

\* Mutant of TuneApplied: the gain of tuner B is not checked.
TuneAppliedUnchecked ==
  /\ pc = "tune" /\ device.ready
  /\ \E gainB \in {device.gainB, reading.gain} :
       device' = [device EXCEPT !.fc = reading.fc, !.gainA = reading.gain, !.gainB = gainB]
  /\ currentFc' = IF reading.fc = device.fc THEN currentFc ELSE reading.fc
  /\ lastApplied' = reading.generation /\ attempts' = 0 /\ done' = done \cup {reading.id}
  /\ pc' = "ack"
  /\ tuneIdle

\* Every update is made.  A frequency this call changed is stored for the
\* radar loop; CpiPipeline has the flag that goes with it.
TuneApplied ==
  /\ pc = "tune" /\ device.ready
  /\ device' = [device EXCEPT !.fc = reading.fc, !.gainA = reading.gain, !.gainB = reading.gain]
  /\ currentFc' = IF reading.fc = device.fc THEN currentFc ELSE reading.fc
  /\ lastApplied' = reading.generation /\ attempts' = 0 /\ done' = done \cup {reading.id}
  /\ pc' = "ack"
  /\ tuneIdle

postDone == /\ pc' = "poll"
            /\ UNCHANGED <<retune, requests, apiRestarts, reading, lastApplied, attempted,
                           attempts, device, currentFc, boot, tried, done>>

\* POST /capture/retune/ack: whatever generation it is for is recorded.
PostAck ==
  /\ pc = "ack"
  /\ retuneStatus' = [request |-> reading, boot |-> boot]
  /\ UNCHANGED retuneRejection /\ postDone

\* POST /capture/retune/reject: only for the generation still pending.
PostReject ==
  /\ pc = "reject"
  /\ retuneRejection' = IF reading.generation = retune.generation THEN reading
                                                                  ELSE retuneRejection
  /\ UNCHANGED retuneStatus /\ postDone

\* The post does not arrive; its result is not looked at.
PostLost ==
  /\ pc \in {"ack", "reject"}
  /\ UNCHANGED <<retuneStatus, retuneRejection>> /\ postDone

--------------------------------------------------------------------------------
(* blah2 comes up and goes down                                            *)

\* RspDuo::process has initialised the device.
DeviceReady ==
  /\ ~device.ready /\ device' = [device EXCEPT !.ready = TRUE]
  /\ UNCHANGED <<apiVars, pc, reading, lastApplied, attempted, attempts, currentFc, boot,
                 tried, done>>

Restart ==
  /\ boot < MaxRestarts /\ boot' = boot + 1
  /\ pc' = "poll" /\ reading' = Seed
  /\ lastApplied' = 0 /\ attempted' = 0 /\ attempts' = 0
  /\ device' = Unready /\ currentFc' = NoFc
  /\ tried' = [i \in Requests |-> 0] /\ done' = {}
  /\ UNCHANGED apiVars

--------------------------------------------------------------------------------
Tune == TuneNotReady \/ TuneRefused \/ TuneApplied
Post == PostAck \/ PostReject \/ PostLost

Next == Request \/ ApiRestart \/ Fetch \/ Tune \/ Post \/ DeviceReady \/ Restart

Spec == Init /\ [][Next]_vars

\* The thread polls every 250 ms and a poll over the loopback interface gets
\* through sooner or later; retune and the posts return.
Fairness == WF_vars(Fetch) /\ WF_vars(Tune) /\ WF_vars(Post) /\ WF_vars(DeviceReady)

FairSpec == Spec /\ Fairness

--------------------------------------------------------------------------------
(* Properties                                                              *)

RequestType == [id : Requests, generation : Requests, fc : Fcs, gain : Gains]

\* Every variable holds a value of its type, and the count of attempts at a
\* generation stays within MAX_RETUNE_ATTEMPTS.
TypeOK ==
  /\ retune \in RequestType /\ reading \in RequestType
  /\ retuneStatus \in [request : RequestType, boot : 0 .. MaxRestarts] \cup {None}
  /\ retuneRejection \in RequestType \cup {None}
  /\ requests \in Requests /\ apiRestarts \in 0 .. MaxApiRestarts
  /\ pc \in {"poll", "tune", "ack", "reject"}
  /\ lastApplied \in Requests /\ attempted \in Requests /\ attempts \in 0 .. MaxAttempts
  /\ device \in [ready : BOOLEAN, fc : Fcs, gainA : Gains, gainB : Gains]
  /\ currentFc \in Fcs \cup {NoFc} /\ boot \in 0 .. MaxRestarts
  /\ tried \in [Requests -> Nat] /\ done \subseteq Requests

Tuned(r) == device.fc = r.fc /\ device.gainA = r.gain /\ device.gainB = r.gain

\* One boot of blah2 tries a request at most MAX_RETUNE_ATTEMPTS times and
\* never again once it was applied or given up, whatever becomes of the posts:
\* a request the device will not take does not hold the radio down
\* (Capture.cpp:14-19, 124-135).
RetriesEnd ==
  /\ \A i \in Requests : tried[i] <= MaxAttempts
  /\ pc = "tune" => reading.id \notin done

\* The tuning the API reports as applied is that of both tuners, until blah2
\* takes up another request or restarts (server.js, GET /capture/retune/status).
StatusIsTruth ==
  (retuneStatus # None /\ retuneStatus.boot = boot /\ retuneStatus.request.id = reading.id)
    => Tuned(retuneStatus.request)

\* A request that reaches blah2 takes effect unless it is superseded, tried
\* as often as is allowed, or rejected before.  This is for the first boot of
\* the API: one that restarts hands out the same generations again, and blah2
\* ignores those it retired and goes on counting the attempts at the others.
TakesEffect ==
  \A i \in Requests :
    (retune.id = i /\ Pending /\ apiRestarts = 0) ~>
      (retune.id # i \/ Tuned(retune) \/ tried[i] = MaxAttempts \/ Offered = 0)

\* TuneState.h:21: currentFc is "The center frequency (Hz) currently applied
\* to the device"; before the first change that is the configured one.
CurrentFcIsApplied ==
  pc = "ack" => device.fc = (IF currentFc = NoFc THEN ConfigFc ELSE currentFc)

================================================================================
