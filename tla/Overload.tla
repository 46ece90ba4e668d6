-------------------------------- MODULE Overload -------------------------------
(***************************************************************************)
(* RF overloads of the two tuners (RspDuo.cpp).  The driver                *)
(* announces an overload, or the end of one, through the event callback and*)
(* repeats itself until the control loop has acknowledged it with an       *)
(* Update; the retune thread makes Updates of its own.                     *)
(*                                                                         *)
(* The driver is external.  It serialises Updates, and none of them returns*)
(* while the event callback has not (RspDuo.cpp:929-934).                  *)
(***************************************************************************)
EXTENDS Naturals, Sequences

CONSTANTS
  MaxOnsets,      \* bound: overloads of each tuner
  MaxRetunes      \* bound: retunes that get as far as an Update

ASSUME OverloadAssumption == MaxOnsets \in Nat /\ MaxRetunes \in Nat

VARIABLES
  overloaded, announced, unacked, onsets,   \* the driver's side of each tuner
  api,            \* the thread whose Update the driver is carrying out
  callbackPc, event, todo,
  overload, overloadCount,  \* overload_a_fg, overload_count_a_fg and those of B
  ackPending,     \* overload_ack_pending_fg
  deviceReady,    \* device_ready_fg
  mutex,          \* sdrplay_update_mutex: its holder
  updates,        \* the Updates each thread has left to make
  controlPc,
  retunePc, retunes

driverVars   == <<overloaded, announced, unacked, onsets>>
callbackVars == <<callbackPc, event, todo, overload, overloadCount>>
updateVars   == <<api, mutex, updates>>
vars == <<driverVars, callbackVars, ackPending, deviceReady, updateVars,
          controlPc, retunePc, retunes>>

Tuners  == {"A", "B"}
Only(set) == CASE set = Tuners -> <<"A", "B">> [] set = {"A"} -> <<"A">> [] set = {"B"} -> <<"B">> [] OTHER -> <<>>
Threads == {"control", "retune"}
Nobody  == "nobody"

\* process() re-stages the gains and the AGC of both tuners after Init.
Restage == <<"gain", "gain", "agc", "agc">>
\* What RspDuo::retune sends: the frequency if it changes, then the gains.
RetuneBatches == {<<"fc", "gain", "gain">>, <<"gain", "gain">>}

--------------------------------------------------------------------------------
Init ==
  /\ overloaded = [t \in Tuners |-> FALSE] /\ announced = [t \in Tuners |-> FALSE]
  /\ unacked = [t \in Tuners |-> FALSE] /\ onsets = [t \in Tuners |-> 0]
  /\ api = Nobody /\ mutex = "control"
  /\ updates = [thread \in Threads |-> IF thread = "control" THEN Restage ELSE <<>>]
  /\ callbackPc = "idle" /\ event = [tuners |-> {}, detected |-> FALSE] /\ todo = <<>>
  /\ overload = [t \in Tuners |-> FALSE] /\ overloadCount = [t \in Tuners |-> 0]
  /\ ackPending = {} /\ deviceReady = FALSE
  /\ controlPc = "restage" /\ retunePc = "poll" /\ retunes = 0

--------------------------------------------------------------------------------
(* The driver                                                              *)

driverIdle == UNCHANGED <<overload, overloadCount, ackPending, deviceReady,
                          mutex, updates, controlPc, retunePc, retunes>>

\* The signal comes or goes.
Signal ==
  /\ \E t \in Tuners :
       /\ overloaded[t] \/ onsets[t] < MaxOnsets
       /\ overloaded' = [overloaded EXCEPT ![t] = ~@]
  /\ UNCHANGED <<announced, unacked, onsets, api, callbackPc, event, todo>> /\ driverIdle

\* The driver calls back with news, or repeats what is not acknowledged yet.
\* An event may be for both tuners at once.
Announce ==
  /\ callbackPc = "idle"
  /\ \E tuners \in (SUBSET Tuners) \ {{}}, detected \in BOOLEAN :
       /\ \A t \in tuners : overloaded[t] = detected /\ (unacked[t] \/ announced[t] # detected)
       /\ event' = [tuners |-> tuners, detected |-> detected]
       /\ todo' = Only(tuners)
       /\ announced' = [t \in Tuners |-> IF t \in tuners THEN detected ELSE announced[t]]
       /\ unacked' = [t \in Tuners |-> t \in tuners \/ unacked[t]]
       /\ onsets' = [t \in Tuners |-> IF t \in tuners /\ detected /\ ~announced[t]
                                        THEN onsets[t] + 1 ELSE onsets[t]]
  /\ callbackPc' = "level" /\ UNCHANGED <<overloaded, api>> /\ driverIdle

--------------------------------------------------------------------------------
(* RspDuo::event_callback                                                  *)

callbackIdle == UNCHANGED <<overloaded, announced, onsets, event, deviceReady,
                            updateVars, controlPc, retunePc, retunes>>

\* Mutant of CallbackLevel: every announcement of an overload counts.
CallbackLevelRepeats ==
  /\ callbackPc = "level" /\ todo # <<>>
  /\ overload' = [overload EXCEPT ![Head(todo)] = event.detected]
  /\ IF event.detected THEN callbackPc' = "count" /\ UNCHANGED todo
                       ELSE todo' = Tail(todo) /\ UNCHANGED callbackPc
  /\ UNCHANGED <<unacked, overloadCount, ackPending>> /\ callbackIdle

\* Mutant of CallbackLevel: the end of an overload counts as its onset does.
CallbackLevelBoth ==
  /\ callbackPc = "level" /\ todo # <<>>
  /\ overload' = [overload EXCEPT ![Head(todo)] = event.detected]
  /\ IF event.detected # overload[Head(todo)] THEN callbackPc' = "count" /\ UNCHANGED todo
                                              ELSE todo' = Tail(todo) /\ UNCHANGED callbackPc
  /\ UNCHANGED <<unacked, overloadCount, ackPending>> /\ callbackIdle

\* The level of a tuner is exchanged; only the onset of an overload counts.
CallbackLevel ==
  /\ callbackPc = "level" /\ todo # <<>>
  /\ overload' = [overload EXCEPT ![Head(todo)] = event.detected]
  /\ IF event.detected /\ ~overload[Head(todo)]
       THEN callbackPc' = "count" /\ UNCHANGED todo
       ELSE todo' = Tail(todo) /\ UNCHANGED callbackPc
  /\ UNCHANGED <<unacked, overloadCount, ackPending>> /\ callbackIdle

CallbackCount ==
  /\ callbackPc = "count"
  /\ overloadCount' = [overloadCount EXCEPT ![Head(todo)] = @ + 1]
  /\ todo' = Tail(todo) /\ callbackPc' = "level"
  /\ UNCHANGED <<unacked, overload, ackPending>> /\ callbackIdle

\* Mutant of CallbackReturn: the callback acknowledges with an Update of its
\* own, which queues behind the one under way.
CallbackReturnAcks ==
  /\ callbackPc = "level" /\ todo = <<>> /\ api = Nobody
  /\ unacked' = [t \in Tuners |-> unacked[t] /\ t \notin event.tuners]
  /\ callbackPc' = "idle"
  /\ UNCHANGED <<todo, overload, overloadCount, ackPending>> /\ callbackIdle

\* The acknowledgement is left to the control loop.
CallbackReturn ==
  /\ callbackPc = "level" /\ todo = <<>>
  /\ ackPending' = ackPending \cup event.tuners
  /\ callbackPc' = "idle"
  /\ UNCHANGED <<unacked, todo, overload, overloadCount>> /\ callbackIdle

--------------------------------------------------------------------------------
(* Updates: sdrplay_api_Update is called, and returns                      *)

updateIdle == UNCHANGED <<overloaded, announced, onsets, callbackVars, ackPending,
                          retunes>>

Pc(thread) == IF thread = "control" THEN controlPc ELSE retunePc
Making(thread) == Pc(thread) \in {"restage", "update"}

CallUpdate ==
  /\ api = Nobody
  /\ \E thread \in Threads :
       Making(thread) /\ updates[thread] # <<>> /\ api' = thread
  /\ UNCHANGED <<unacked, deviceReady, mutex, updates, controlPc, retunePc>> /\ updateIdle

\* An Update succeeds.  One of the acknowledgements settles its tuner.
UpdateReturns ==
  /\ api # Nobody /\ callbackPc = "idle"
  /\ updates' = [updates EXCEPT ![api] = Tail(@)]
  /\ unacked' = [t \in Tuners |-> unacked[t] /\ t # Head(updates[api])]
  /\ api' = Nobody
  /\ UNCHANGED <<deviceReady, mutex, controlPc, retunePc>> /\ updateIdle

\* An Update fails.  A failed acknowledgement is passed over, a failed retune
\* is given up; a failed re-stage would end the process.
UpdateFails ==
  /\ api # Nobody /\ callbackPc = "idle" /\ controlPc # "restage"
  /\ updates' = [updates EXCEPT ![api] = IF api = "control" THEN Tail(@) ELSE <<>>]
  /\ api' = Nobody
  /\ UNCHANGED <<unacked, deviceReady, mutex, controlPc, retunePc>> /\ updateIdle

\* The last of a thread's Updates is done and the mutex goes back.
Unlock ==
  /\ \E thread \in Threads :
       /\ Making(thread) /\ updates[thread] = <<>> /\ mutex' = Nobody
       /\ IF thread = "control"
            THEN controlPc' = (IF controlPc = "restage" THEN "ready" ELSE "tick") /\ UNCHANGED retunePc
            ELSE retunePc' = "poll" /\ UNCHANGED controlPc
  /\ UNCHANGED <<unacked, api, updates, deviceReady>> /\ updateIdle

--------------------------------------------------------------------------------
(* The control loop of RspDuo::process                                     *)

controlIdle == UNCHANGED <<driverVars, callbackVars, api, retunePc, retunes>>

ControlReady ==
  /\ controlPc = "ready" /\ deviceReady' = TRUE /\ controlPc' = "tick"
  /\ UNCHANGED <<ackPending, mutex, updates>> /\ controlIdle

\* send_overload_acks takes what is pending in one exchange.
ControlTick ==
  /\ controlPc = "tick" /\ ackPending # {}
  /\ ackPending' = {} /\ updates' = [updates EXCEPT !["control"] = Only(ackPending)]
  /\ controlPc' = "lock"
  /\ UNCHANGED <<deviceReady, mutex>> /\ controlIdle

\* Mutant of ControlLock: an acknowledgement does not wait for the mutex.
ControlLockNot ==
  /\ controlPc = "lock" /\ controlPc' = "update"
  /\ UNCHANGED <<ackPending, updates, deviceReady, mutex>> /\ controlIdle

ControlLock ==
  /\ controlPc = "lock" /\ mutex = Nobody
  /\ mutex' = "control" /\ controlPc' = "update"
  /\ UNCHANGED <<ackPending, updates, deviceReady>> /\ controlIdle

--------------------------------------------------------------------------------
(* The retune thread of Capture::process                                   *)

retuneIdle == UNCHANGED <<driverVars, callbackVars, ackPending, deviceReady, api, controlPc>>

\* A poll finds a retune, and the device is ready for it.
RetunePoll ==
  /\ retunePc = "poll" /\ deviceReady /\ retunes < MaxRetunes
  /\ retunePc' = "lock" /\ retunes' = retunes + 1
  /\ UNCHANGED <<mutex, updates>> /\ retuneIdle

RetuneLock ==
  /\ retunePc = "lock" /\ mutex = Nobody /\ mutex' = "retune"
  /\ \E batch \in RetuneBatches : updates' = [updates EXCEPT !["retune"] = batch]
  /\ retunePc' = "update"
  /\ UNCHANGED <<retunes>> /\ retuneIdle

--------------------------------------------------------------------------------
Callback == CallbackLevel \/ CallbackCount \/ CallbackReturn
Updates == CallUpdate \/ UpdateReturns \/ UpdateFails \/ Unlock
Control == ControlReady \/ ControlTick \/ ControlLock
Next == Signal \/ Announce \/ Callback \/ Updates \/ Control \/ RetunePoll \/ RetuneLock

Spec == Init /\ [][Next]_vars

\* The threads run, the driver repeats itself and carries out its Updates.
\* What may fail does not fail for ever: an acknowledgement that is made again
\* and again succeeds.
FairSpec ==
  /\ Spec
  /\ SF_vars(Announce) /\ WF_vars(Callback)
  /\ SF_vars(CallUpdate) /\ SF_vars(UpdateReturns) /\ WF_vars(Unlock)
  /\ WF_vars(ControlReady \/ ControlTick) /\ SF_vars(ControlLock)
  /\ SF_vars(RetuneLock)

--------------------------------------------------------------------------------
Counts == [Tuners -> 0 .. MaxOnsets]
\* Every variable holds a value of its type, and no count passes the number
\* of overloads there were.
TypeOK ==
  /\ overloaded \in [Tuners -> BOOLEAN] /\ announced \in [Tuners -> BOOLEAN]
  /\ unacked \in [Tuners -> BOOLEAN] /\ onsets \in Counts
  /\ api \in Threads \cup {Nobody} /\ mutex \in Threads \cup {Nobody}
  /\ updates \in [Threads -> Seq({"fc", "gain", "agc"} \cup Tuners)]
  /\ callbackPc \in {"idle", "level", "count"} /\ todo \in Seq(Tuners)
  /\ event \in [tuners : SUBSET Tuners, detected : BOOLEAN]
  /\ overload \in [Tuners -> BOOLEAN] /\ overloadCount \in Counts
  /\ ackPending \subseteq Tuners /\ deviceReady \in BOOLEAN
  /\ controlPc \in {"restage", "ready", "tick", "lock", "update"}
  /\ retunePc \in {"poll", "lock", "update"} /\ retunes \in 0 .. MaxRetunes

\* Two threads are never in the middle of their Updates at once: an
\* acknowledgement does not land inside a retune, nor either of them inside
\* the re-stage after Init (RspDuo.cpp:164, 276-279, 324).
OneUpdateAtATime == ~(Making("control") /\ Making("retune"))

\* Every overload the driver announced is counted, and once, however often
\* the driver repeats itself (RspDuo.cpp:942-956).
OnsetsCounted == callbackPc = "idle" => overloadCount = onsets

\* To a thread that loads levels and counts, the callback is at one tuner at a
\* time: a level rises, the count follows before anything else moves, and a
\* level falls (RspDuo.cpp:941-956).
Level == INSTANCE OverloadLevel WITH
           MaxEpisodes <- MaxOnsets, level <- overload, onsetCount <- overloadCount,
           counting <- IF callbackPc = "count" THEN {Head(todo)} ELSE {}
LevelIsAsLoaded == Level!LevelSpec

\* What the driver announced is acknowledged in the end, also when it was
\* announced in the middle of the re-stage or of a retune (RspDuo.cpp:188-191,
\* 922-938).
EventsAcked == \A t \in Tuners : unacked[t] ~> ~unacked[t]

================================================================================
