-------------------------------- MODULE Watchdog -------------------------------
(***************************************************************************)
(* The watchdog of blah2_rspduo_restart.bash: cron runs it every few       *)
(* minutes, and when the map the API serves is stale it takes the stack    *)
(* down, restarts the SDRplay service, from the second time in a row on    *)
(* resets the radio on USB, and brings the stack up again.                 *)
(*                                                                         *)
(* Around it run Docker, which restarts a blah2 that exits; the GUI, which *)
(* switches modes, restarts the stack and calibrates; and faults: a wedged *)
(* service or radio, and a restart of the API, after which blah2 writes to *)
(* closed sockets for good (Socket.cpp).  The GUI is external, and modelled*)
(* from what the script says of its files.                                 *)
(*                                                                         *)
(* Time passes in minutes, between the checks, which take less; ages stop  *)
(* at the value from which on they make no difference.                     *)
(***************************************************************************)
EXTENDS Naturals

CONSTANTS
  Grace, Stale,   \* GRACE_PERIOD_SECONDS, STALE_SECONDS
  LockTimeout,    \* CALIBRATE_LOCK_TIMEOUT_SECONDS
  Period,         \* what cron waits between two checks
  ResetFrom,      \* USB_RESET_FROM_RECOVERY
  MaxRestarts,    \* bound: restarts of one container by Docker
  MaxFaults,      \* bound: faults
  MaxGui,         \* bound: operations of the GUI
  None

ASSUME WatchdogAssumption ==
  /\ {Grace, Stale, LockTimeout, MaxRestarts, MaxFaults, MaxGui} \subseteq Nat /\ Grace > 0
  /\ Period \in Nat /\ Period > Grace /\ Period > Stale
  /\ ResetFrom \in Nat \ {0}
  /\ None \notin Nat \cup [restarts : Nat, uptime : Nat, deaf : BOOLEAN]

VARIABLES
  mode, calibrate, lock,    \* mode.txt, the age of calibrate.lock, restart.lock's holder
  container,      \* blah2's container
  map,            \* the age of the map the API serves
  wedge,          \* what is wedged, and whether blah2 exits over it
  restartState,   \* RESTART_STATE; whether it names the container there is
  recoveries,     \* RECOVERIES_STATE
  pc, looping, sinceCheck,
  faults, guiOps,
  crashed,        \* history: Docker restarted the container since the last look
  guiMet,         \* history: the GUI was done with the stack during this check
  unattended,     \* history: checks in a row that left a radar in trouble alone
  downs,          \* history: times the watchdog took the stack down since a check came upon a settled radar
  fruitless       \* history: recoveries since something last happened to the radar

guiVars   == <<mode, calibrate, guiOps>>
radarVars == <<container, map, wedge>>
fileVars  == <<restartState, recoveries>>
history   == <<crashed, guiMet, unattended, downs, fruitless>>
vars == <<guiVars, lock, radarVars, fileVars, pc, looping, sinceCheck, faults, history>>

Nobody == "nobody"
NewContainer == [restarts |-> 0, uptime |-> 0, deaf |-> FALSE]
Well == [part |-> "none", exits |-> FALSE]

\* blah2 has its radio and the API has its frames.
Streams == container # None /\ wedge.part = "none" /\ ~container.deaf

Older(age, limit) == IF age = None \/ age >= limit THEN age ELSE age + 1

\* Another container, or none: what is stored is not about it.
OtherContainer ==
  /\ restartState' = IF restartState = None THEN None ELSE [restartState EXCEPT !.same = FALSE]
  /\ crashed' = FALSE

--------------------------------------------------------------------------------
Init ==
  /\ mode = "radar" /\ calibrate = None /\ lock = Nobody
  /\ container = NewContainer /\ map = None /\ wedge = Well
  /\ restartState = None /\ recoveries = 0
  /\ pc = "idle" /\ looping = FALSE /\ sinceCheck = 0 /\ faults = 0 /\ guiOps = 0
  /\ crashed = FALSE /\ guiMet = FALSE
  /\ unattended = 0 /\ downs = 0 /\ fruitless = 0

--------------------------------------------------------------------------------
(* Docker, the faults and the GUI                                          *)

\* Docker starts an exited blah2 again, in the same container.
Restarted(c) == [restarts |-> c.restarts + 1, uptime |-> 0, deaf |-> FALSE]

\* A minute passes.  A blah2 that exits over what is wedged does so within it.
Minute ==
  /\ pc = "idle" /\ sinceCheck < Period /\ sinceCheck' = sinceCheck + 1
  /\ \/ /\ container # None /\ wedge.exits
        /\ container.restarts < MaxRestarts
        /\ container' = Restarted(container) /\ crashed' = TRUE
     \/ /\ container # None /\ ~wedge.exits
        /\ container' = [container EXCEPT !.uptime = Older(@, Grace)] /\ UNCHANGED crashed
     \/ container = None /\ UNCHANGED <<container, crashed>>
  /\ map' = IF Streams THEN 0 ELSE Older(map, Stale + 1)
  /\ unattended' = IF Streams THEN 0 ELSE unattended
  /\ calibrate' = Older(calibrate, LockTimeout)
  /\ UNCHANGED <<mode, guiOps, lock, wedge, fileVars, pc, looping, faults, guiMet, downs,
                 fruitless>>

Fault ==
  /\ faults < MaxFaults /\ faults' = faults + 1
  /\ \/ /\ wedge = Well /\ wedge' \in [part : {"service", "usb"}, exits : BOOLEAN]
        /\ UNCHANGED <<container, map, crashed>>
     \/ /\ container # None   \* the API restarts
        /\ map' = None /\ container' = [container EXCEPT !.deaf = TRUE]
        /\ UNCHANGED <<wedge, crashed>>
     \/ /\ container # None /\ container.restarts < MaxRestarts   \* blah2 exits once
        /\ container' = Restarted(container) /\ crashed' = TRUE
        /\ UNCHANGED <<wedge, map>>
  /\ unattended' = 0 /\ fruitless' = 0
  /\ UNCHANGED <<guiVars, lock, fileVars, pc, looping, sinceCheck, guiMet, downs>>

\* A mode switch or a restart by the GUI, under restart.lock.
GuiTakes ==
  /\ lock = Nobody /\ guiOps < MaxGui
  /\ lock' = "gui" /\ guiOps' = guiOps + 1 /\ mode' \in {"radar", "other"}
  /\ container' = None /\ map' = None /\ OtherContainer
  /\ UNCHANGED <<calibrate, wedge, recoveries, pc, looping, sinceCheck, faults, guiMet,
                 unattended, downs, fruitless>>
GuiDone ==
  /\ lock = "gui" /\ lock' = Nobody
  /\ container' = IF mode = "radar" THEN NewContainer ELSE None
  /\ wedge' \in {wedge} \cup (IF wedge.part = "service" THEN {Well} ELSE {})
  /\ guiMet' = TRUE /\ unattended' = 0 /\ fruitless' = 0
  /\ UNCHANGED <<guiVars, map, fileVars, pc, looping, sinceCheck, faults, crashed, downs>>

\* A calibration begins, ends, or dies and leaves its lock behind.
Calibrate ==
  /\ \/ /\ calibrate = None /\ mode = "radar" /\ container # None /\ guiOps < MaxGui
        /\ calibrate' = 0 /\ guiOps' = guiOps + 1
     \/ calibrate # None /\ calibrate' = None /\ UNCHANGED guiOps
  /\ UNCHANGED <<mode, lock, radarVars, fileVars, pc, looping, sinceCheck, faults, history>>

--------------------------------------------------------------------------------
(* A check                                                                 *)

checkIdle == UNCHANGED <<guiVars, radarVars, faults>>

\* The check ends with nothing done; it had no reason to act, or was in no
\* position to.
LeaveAlone == pc' = "idle" /\ unattended' = (IF Streams THEN 0 ELSE unattended + 1)
LeaveToOthers == pc' = "idle" /\ unattended' = 0

\* In the modes that stop blah2 on purpose, earlier recoveries are forgotten.
CheckMode ==
  /\ pc = "idle" /\ sinceCheck = Period /\ sinceCheck' = 0 /\ guiMet' = FALSE
  /\ IF mode = "radar"
       THEN pc' = "calibrate" /\ UNCHANGED <<recoveries, unattended, downs, fruitless>>
       ELSE LeaveToOthers /\ recoveries' = 0 /\ downs' = 0 /\ fruitless' = 0
  /\ UNCHANGED <<lock, restartState, looping, crashed>> /\ checkIdle

CheckCalibrate ==
  /\ pc = "calibrate"
  /\ IF calibrate # None /\ calibrate < LockTimeout
       THEN LeaveToOthers ELSE pc' = "restarts" /\ UNCHANGED unattended
  /\ UNCHANGED <<lock, fileVars, looping, sinceCheck, crashed, guiMet, downs, fruitless>>
  /\ checkIdle

\* Mutant of Stored: a new container is measured against the old one's count.
StoredOfAny == restartState.restarts
\* The count of the last look; a new container counts from 0.
Stored == IF restartState.same THEN restartState.restarts ELSE 0

CheckRestarts ==
  /\ pc = "restarts" /\ pc' = "grace"
  /\ looping' = (container # None /\ restartState # None /\ container.restarts > Stored)
  /\ IF container = None
       THEN UNCHANGED <<restartState, crashed>>
       ELSE restartState' = [same |-> TRUE, restarts |-> container.restarts] /\ crashed' = FALSE
  \* Without an earlier look there is nothing to tell a crash loop by.
  /\ unattended' = IF restartState = None THEN 0 ELSE unattended
  /\ UNCHANGED <<lock, recoveries, sinceCheck, guiMet, downs, fruitless>>
  /\ checkIdle

\* Mutants of InGrace: a crash loop does not end the grace period; there is
\* none.
InGraceAlways == container # None /\ container.uptime < Grace
InGraceNever == FALSE
InGrace == ~looping /\ container # None /\ container.uptime < Grace

CheckGrace ==
  /\ pc = "grace"
  /\ IF InGrace THEN LeaveAlone ELSE pc' = "map" /\ UNCHANGED unattended
  /\ UNCHANGED <<lock, fileVars, looping, sinceCheck, crashed, guiMet, downs, fruitless>>
  /\ checkIdle

\* The radar streams, and has since its grace period at least.
Settled == Streams /\ container.uptime >= Grace

CheckMap ==
  /\ pc = "map"
  /\ IF map # None /\ map <= Stale
       THEN LeaveAlone /\ recoveries' = 0
       ELSE pc' = "lock" /\ UNCHANGED <<recoveries, unattended>>
  /\ downs' = IF Settled THEN 0 ELSE downs
  /\ UNCHANGED <<lock, restartState, looping, sinceCheck, crashed, guiMet, fruitless>>
  /\ checkIdle

\* Mutant of TakeLock: a skipped check counts as a recovery.
TakeLockCounted ==
  /\ pc = "lock" /\ recoveries' = recoveries + 1
  /\ IF lock = Nobody
       THEN /\ lock' = "watchdog" /\ pc' = "down"
            /\ fruitless' = fruitless + 1 /\ UNCHANGED unattended
       ELSE LeaveToOthers /\ UNCHANGED <<lock, fruitless>>
  /\ UNCHANGED <<restartState, looping, sinceCheck, crashed, guiMet, downs>> /\ checkIdle

\* restart.lock is not waited for: whoever holds it restarts the stack.
TakeLock ==
  /\ pc = "lock"
  /\ IF lock = Nobody
       THEN /\ lock' = "watchdog" /\ recoveries' = recoveries + 1 /\ pc' = "down"
            /\ fruitless' = fruitless + 1 /\ UNCHANGED unattended
       ELSE LeaveToOthers /\ UNCHANGED <<lock, recoveries, fruitless>>
  /\ UNCHANGED <<restartState, looping, sinceCheck, crashed, guiMet, downs>> /\ checkIdle

--------------------------------------------------------------------------------
(* A recovery                                                              *)

recoveryIdle == UNCHANGED <<guiVars, recoveries, looping, sinceCheck, faults, guiMet,
                            fruitless>>

Down ==
  /\ pc = "down" /\ pc' = "sdrplay"
  /\ container' = None /\ map' = None /\ OtherContainer
  /\ downs' = downs + 1
  /\ UNCHANGED <<lock, wedge, unattended>> /\ recoveryIdle

\* Mutant of ResetsUsb: the reset waits for one recovery more.
ResetsUsbLate == recoveries > ResetFrom
ResetsUsb == recoveries >= ResetFrom

\* stop_sdrplay, reset_rspduo if it is time for it, start_sdrplay.
RestartSdrplay ==
  /\ pc = "sdrplay" /\ pc' = "up"
  /\ wedge' = IF wedge.part = "service" \/ ResetsUsb THEN Well ELSE wedge
  /\ UNCHANGED <<lock, container, map, restartState, crashed, unattended, downs>> /\ recoveryIdle

Up ==
  /\ pc = "up" /\ pc' = "idle" /\ lock' = Nobody
  /\ container' = NewContainer /\ unattended' = 0
  /\ UNCHANGED <<map, wedge, restartState, crashed, downs>> /\ recoveryIdle

--------------------------------------------------------------------------------
Surroundings == Minute \/ Fault \/ GuiTakes \/ GuiDone \/ Calibrate
Check == CheckMode \/ CheckCalibrate \/ CheckRestarts \/ CheckGrace \/ CheckMap \/ TakeLock
Recovery == Down \/ RestartSdrplay \/ Up

Next == Surroundings \/ Check \/ Recovery

Spec == Init /\ [][Next]_vars

--------------------------------------------------------------------------------
Containers == [restarts : 0 .. MaxRestarts, uptime : 0 .. Grace, deaf : BOOLEAN]

\* Every variable holds a value of its type.
TypeOK ==
  /\ mode \in {"radar", "other"} /\ calibrate \in {None} \cup (0 .. LockTimeout)
  /\ lock \in {Nobody, "gui", "watchdog"}
  /\ container \in {None} \cup Containers /\ map \in {None} \cup (0 .. Stale + 1)
  /\ wedge \in {Well} \cup [part : {"service", "usb"}, exits : BOOLEAN]
  /\ restartState \in {None} \cup [same : BOOLEAN, restarts : 0 .. MaxRestarts]
  /\ pc \in {"idle", "calibrate", "restarts", "grace", "map", "lock", "down", "sdrplay", "up"}
  /\ looping \in BOOLEAN /\ sinceCheck \in 0 .. Period
  /\ faults \in 0 .. MaxFaults /\ guiOps \in 0 .. MaxGui
  /\ crashed \in BOOLEAN /\ guiMet \in BOOLEAN
  /\ {recoveries, unattended, downs, fruitless} \subseteq Nat

\* A crash loop is found exactly when Docker restarted this very container
\* since the last look: a container that was recreated and has by now crashed
\* as often as the one before it is found too (lines 82-98).
CrashLoopFound ==
  [][pc = "restarts" /\ pc' = "grace" => looping' = (restartState # None /\ crashed)]_vars

\* A container is not taken down in its grace period, unless Docker has
\* restarted it since the last check, or the GUI has put it there while this
\* check was on its way (lines 100-109).
GraceKept ==
  pc = "down" => container = None \/ container.uptime >= Grace \/ looping \/ crashed \/ guiMet

\* A radar that is in trouble, and nobody else's business, is left alone by
\* one check in a row at most, once a first look has been stored: neither the grace period of a blah2 that keeps
\* crashing nor a map from before the trouble hides it for longer.
TroubleAttended == unattended <= 1

\* Whatever happened to the radar, two recoveries undo it if nothing more
\* happens: the count a USB reset waits for is not lost on the way.
ComesBack == fruitless <= ResetFrom

\* The radio is reset on USB only when this stop of the stack is at least the
\* second (ResetFrom) since a check came upon a radar that streams, whatever it
\* made of its map, or that was stopped on purpose: a check that was skipped is
\* no step towards it, and a spell of trouble that is over none either (lines
\* 39-41, 116-137, 222-230).
ResetsAreEarned == pc = "sdrplay" /\ ResetsUsb => downs >= ResetFrom

================================================================================
