----------------------------- MODULE WatchdogProofs ----------------------------
(***************************************************************************)
(* Proofs about the watchdog for any periods and timeouts in the order     *)
(* WatchdogAssumption puts them, any recovery from which the radio is reset*)
(* and any number of restarts, faults and operations of the GUI: it tells a*)
(* crash loop, keeps the grace period, attends to a radar in trouble and   *)
(* brings it back.                                                         *)
(***************************************************************************)
EXTENDS Watchdog, TLAPS

--------------------------------------------------------------------------------
(* Types                                                                   *)

RecoveryPcs == {"down", "sdrplay", "up"}

LEMMA Constants ==
  /\ Grace \in Nat /\ Stale \in Nat /\ LockTimeout \in Nat /\ Period \in Nat /\ ResetFrom \in Nat
  /\ MaxRestarts \in Nat /\ MaxFaults \in Nat /\ MaxGui \in Nat
  /\ Period > Grace /\ Period > Stale /\ Grace > 0 /\ ResetFrom >= 1 /\ None \notin Nat
BY WatchdogAssumption

\* What is not there is no container.
LEMMA ContainerFields ==
  ASSUME TypeOK
  PROVE  /\ NewContainer \in Containers /\ NewContainer # None
         /\ \A c \in Containers : /\ c # None /\ c.restarts \in Nat /\ c.restarts <= MaxRestarts
                                  /\ c.uptime \in Nat /\ c.uptime <= Grace /\ c.deaf \in BOOLEAN
         /\ container # None => container \in Containers
<1>1. Containers \subseteq [restarts : Nat, uptime : Nat, deaf : BOOLEAN]
  BY Constants DEF Containers
<1>2. NewContainer \in Containers
  BY Constants DEF NewContainer, Containers
<1> QED
  BY <1>1, <1>2, Constants, WatchdogAssumption DEF Containers, TypeOK

LEMMA OlderType ==
  ASSUME NEW limit \in Nat, NEW age \in {None} \cup (0 .. limit)
  PROVE  Older(age, limit) \in {None} \cup (0 .. limit)
BY Constants DEF Older

LEMMA RestartedType ==
  ASSUME NEW c \in Containers, c.restarts < MaxRestarts
  PROVE  Restarted(c) \in Containers /\ Restarted(c) # None /\ Restarted(c).restarts = c.restarts + 1
<1>1. c.restarts + 1 \in 0 .. MaxRestarts /\ 0 \in 0 .. Grace
  BY Constants DEF Containers
<1>2. Restarted(c) \in Containers
  BY <1>1 DEF Restarted, Containers
<1>3. Containers \subseteq [restarts : Nat, uptime : Nat, deaf : BOOLEAN]
  BY Constants DEF Containers
<1> QED
  BY <1>2, <1>3, WatchdogAssumption DEF Restarted

LEMMA InitType == Init => TypeOK
<1> SUFFICES ASSUME Init PROVE TypeOK
  OBVIOUS
<1>1. NewContainer \in Containers
  BY Constants DEF NewContainer, Containers
<1>2. wedge \in {Well} /\ map \in {None} /\ calibrate \in {None} /\ restartState \in {None}
  BY DEF Init
<1>3. /\ sinceCheck \in 0 .. Period /\ faults \in 0 .. MaxFaults /\ guiOps \in 0 .. MaxGui
      /\ {recoveries, unattended, downs, fruitless} \subseteq Nat
  BY Constants DEF Init
<1> QED
  BY <1>1, <1>2, <1>3 DEF Init, TypeOK

LEMMA OtherContainerType ==
  ASSUME TypeOK, OtherContainer
  PROVE  /\ restartState' \in {None} \cup [same : BOOLEAN, restarts : 0 .. MaxRestarts]
         /\ crashed' \in BOOLEAN
BY DEF TypeOK, OtherContainer

LEMMA SurroundingsTyped == TypeOK /\ Surroundings => TypeOK'
<1> SUFFICES ASSUME TypeOK, Surroundings PROVE TypeOK'
  OBVIOUS
<1>1. CASE Minute
  <2>1. container' \in {None} \cup Containers /\ crashed' \in BOOLEAN
    <3>1. ASSUME container # None
          PROVE  [container EXCEPT !.uptime = Older(@, Grace)] \in Containers
      <4>1. container \in [restarts : 0 .. MaxRestarts, uptime : 0 .. Grace, deaf : BOOLEAN]
        BY <3>1, ContainerFields DEF Containers
      <4>2. Older(container.uptime, Grace) \in 0 .. Grace
        BY <4>1, Constants DEF Older
      <4> QED
        BY <4>1, <4>2 DEF Containers
    <3> QED
      BY <1>1, <3>1, ContainerFields, RestartedType DEF Minute, TypeOK
  <2>2. /\ map' \in {None} \cup (0 .. Stale + 1) /\ calibrate' \in {None} \cup (0 .. LockTimeout)
        /\ unattended' \in Nat /\ sinceCheck' \in 0 .. Period
    BY <1>1, Constants, OlderType DEF Minute, TypeOK
  <2> QED
    BY <1>1, <2>1, <2>2 DEF Minute, TypeOK, fileVars
<1>2. CASE Fault
  <2>1. /\ container' \in {None} \cup Containers /\ crashed' \in BOOLEAN
        /\ map' \in {None} \cup (0 .. Stale + 1)
        /\ wedge' \in {Well} \cup [part : {"service", "usb"}, exits : BOOLEAN]
    <3>1. ASSUME container # None PROVE [container EXCEPT !.deaf = TRUE] \in Containers
      BY <3>1, ContainerFields DEF Containers
    <3> QED
      BY <1>2, <3>1, ContainerFields, RestartedType DEF Fault, TypeOK
  <2> QED
    BY <1>2, <2>1, Constants DEF Fault, TypeOK, guiVars, fileVars
<1>3. CASE GuiTakes
  <2>1. guiOps' \in 0 .. MaxGui /\ container' \in {None} /\ map' \in {None}
    BY <1>3, Constants DEF GuiTakes, TypeOK
  <2> QED
    BY <1>3, <2>1, OtherContainerType DEF GuiTakes, TypeOK
<1>4. CASE GuiDone
  BY <1>4, ContainerFields DEF GuiDone, TypeOK, guiVars, fileVars
<1>5. CASE Calibrate
  BY <1>5, Constants DEF Calibrate, TypeOK, radarVars, fileVars, history
<1> QED
  BY <1>1, <1>2, <1>3, <1>4, <1>5 DEF Surroundings

LEMMA CheckTyped == TypeOK /\ (Check \/ Recovery \/ UNCHANGED vars) => TypeOK'
<1> SUFFICES ASSUME TypeOK, Check \/ Recovery \/ UNCHANGED vars PROVE TypeOK'
  OBVIOUS
<1> USE DEF checkIdle, recoveryIdle, guiVars, radarVars, fileVars, LeaveAlone, LeaveToOthers
<1>1. CASE CheckMode
  <2>1. /\ sinceCheck' \in 0 .. Period /\ unattended' \in Nat /\ pc' \in {"idle", "calibrate"}
        /\ recoveries' \in Nat /\ downs' \in Nat /\ fruitless' \in Nat
    BY <1>1, Constants DEF CheckMode, TypeOK
  <2>2. {recoveries', unattended', downs', fruitless'} \subseteq Nat
    BY <2>1
  <2>3. UNCHANGED <<mode, calibrate, guiOps, lock, container, map, wedge, restartState, looping, crashed, faults>>
    BY <1>1 DEF CheckMode
  <2>4. guiMet' \in BOOLEAN
    BY <1>1 DEF CheckMode
  <2>5. pc' \in {"idle", "calibrate", "restarts", "grace", "map", "lock", "down", "sdrplay", "up"}
    BY <2>1
  <2> QED
    BY <2>1, <2>2, <2>3, <2>4, <2>5 DEF TypeOK
<1>2. CASE CheckCalibrate
  BY <1>2 DEF CheckCalibrate, TypeOK
<1>3. CASE CheckRestarts
  <2>1. container # None => container.restarts \in 0 .. MaxRestarts
    BY ContainerFields DEF Containers
  <2>2. /\ restartState' \in {None} \cup [same : BOOLEAN, restarts : 0 .. MaxRestarts]
        /\ crashed' \in BOOLEAN /\ unattended' \in Nat
    <3>1. container # None =>
            [same |-> TRUE, restarts |-> container.restarts] \in [same : BOOLEAN, restarts : 0 .. MaxRestarts]
      BY <2>1
    <3>2. crashed' \in BOOLEAN /\ unattended' \in Nat
      BY <1>3 DEF CheckRestarts, TypeOK
    <3> QED
      BY <1>3, <3>1, <3>2 DEF CheckRestarts, TypeOK
  <2>3. looping' \in BOOLEAN
    BY <1>3, Zenon DEF CheckRestarts
  <2> QED
    BY <1>3, <2>2, <2>3 DEF CheckRestarts, TypeOK
<1>4. CASE CheckGrace
  BY <1>4 DEF CheckGrace, TypeOK
<1>5. CASE CheckMap
  BY <1>5 DEF CheckMap, TypeOK
<1>6. CASE TakeLock
  BY <1>6 DEF TakeLock, TypeOK
<1>7. CASE Recovery
  <2>1. CASE Down
    BY <2>1, OtherContainerType DEF Down, TypeOK
  <2>2. CASE RestartSdrplay
    BY <2>2 DEF RestartSdrplay, TypeOK
  <2>3. CASE Up
    BY <2>3, ContainerFields DEF Up, TypeOK
  <2> QED
    BY <1>7, <2>1, <2>2, <2>3 DEF Recovery
<1>8. CASE UNCHANGED vars
  BY <1>8 DEF TypeOK, vars, history
<1> QED
  BY <1>1, <1>2, <1>3, <1>4, <1>5, <1>6, <1>7, <1>8 DEF Check

\* Every variable of the watchdog keeps its type.
THEOREM TypeCorrect == Spec => []TypeOK
<1>1. TypeOK /\ [Next]_vars => TypeOK'
  BY SurroundingsTyped, CheckTyped DEF Next
<1> QED
  BY <1>1, InitType, PTL DEF Spec

--------------------------------------------------------------------------------
(* Who has the stack                                                       *)

\* The watchdog recovers under restart.lock, neither it nor the GUI leaves a
\* container behind while it has the stack down, checks take no time, and only
\* a stale map leads to a recovery.
PlaceInv ==
  /\ pc \in RecoveryPcs <=> lock = "watchdog"
  /\ pc \in {"sdrplay", "up"} => container = None /\ map = None
  /\ lock = "gui" => container = None
  /\ pc # "idle" => sinceCheck = 0
  /\ pc = "lock" => map = None \/ map > Stale

LEMMA StepPlace == TypeOK /\ PlaceInv /\ [Next]_vars => PlaceInv'
<1> SUFFICES ASSUME TypeOK, PlaceInv, [Next]_vars PROVE PlaceInv'
  OBVIOUS
<1> USE DEF PlaceInv, RecoveryPcs
<1>1. CASE Minute
  BY <1>1 DEF Minute
<1>2. CASE Fault
  BY <1>2 DEF Fault
<1>3. CASE GuiTakes
  BY <1>3 DEF GuiTakes, Nobody
<1>4. CASE GuiDone
  BY <1>4 DEF GuiDone, Nobody
<1>5. CASE Calibrate
  BY <1>5 DEF Calibrate, radarVars
<1>6. CASE CheckMode
  BY <1>6 DEF CheckMode, LeaveToOthers, checkIdle, radarVars
<1>7. CASE CheckCalibrate
  BY <1>7 DEF CheckCalibrate, LeaveToOthers, checkIdle, radarVars
<1>8. CASE CheckRestarts
  BY <1>8 DEF CheckRestarts, checkIdle, radarVars
<1>9. CASE CheckGrace
  BY <1>9 DEF CheckGrace, LeaveAlone, checkIdle, radarVars
<1>10. CASE CheckMap
  <2>1. map \in {None} \cup Nat /\ Stale \in Nat
    BY Constants DEF TypeOK
  <2> QED
    BY <1>10, <2>1 DEF CheckMap, LeaveAlone, checkIdle, radarVars
<1>11. CASE TakeLock
  BY <1>11 DEF TakeLock, LeaveToOthers, checkIdle, radarVars, Nobody
<1>12. CASE Recovery
  BY <1>12 DEF Recovery, Down, RestartSdrplay, Up, recoveryIdle, Nobody
<1>13. CASE UNCHANGED vars
  BY <1>13 DEF vars, guiVars, radarVars, fileVars, history
<1> QED
  BY <1>1, <1>2, <1>3, <1>4, <1>5, <1>6, <1>7, <1>8, <1>9, <1>10, <1>11, <1>12, <1>13
     DEF Next, Surroundings, Check

\* The radar's own state changes only with its surroundings and a recovery.
LEMMA CheckKeepsRadar ==
  ASSUME Check
  PROVE  UNCHANGED <<mode, calibrate, guiOps, container, map, wedge, faults>>
BY DEF Check, CheckMode, CheckCalibrate, CheckRestarts, CheckGrace, CheckMap, TakeLock, checkIdle,
       guiVars, radarVars

--------------------------------------------------------------------------------
(* A crash loop                                                            *)

\* The stored count tells whether Docker restarted the container since.
LookInv ==
  /\ container = None => ~crashed /\ (restartState # None => ~restartState.same)
  /\ container # None /\ restartState # None =>
       Stored <= container.restarts /\ (crashed <=> container.restarts > Stored)

LEMMA LookTypes ==
  ASSUME TypeOK
  PROVE  /\ container # None => container.restarts \in Nat
         /\ restartState # None => /\ restartState.same \in BOOLEAN /\ restartState.restarts \in Nat
                                   /\ Stored \in Nat
                                   /\ [restartState EXCEPT !.same = FALSE].same = FALSE
<1>1. container # None => container.restarts \in Nat
  BY ContainerFields
<1> QED
  BY <1>1 DEF TypeOK, Stored

LEMMA StepLook == TypeOK /\ PlaceInv /\ LookInv /\ [Next]_vars => LookInv'
<1> SUFFICES ASSUME TypeOK, PlaceInv, LookInv, [Next]_vars PROVE LookInv'
  OBVIOUS
<1>1. ASSUME container' = container, crashed' = crashed, restartState' = restartState PROVE LookInv'
  BY <1>1 DEF LookInv, Stored
<1>2. ASSUME container # None, container' = Restarted(container), crashed' = TRUE,
             restartState' = restartState, container.restarts < MaxRestarts
      PROVE  LookInv'
  <2>1. container' # None /\ container'.restarts = container.restarts + 1
    BY <1>2, ContainerFields, RestartedType
  <2>2. restartState # None => Stored <= container.restarts
    BY <1>2 DEF LookInv
  <2> QED
    BY <1>2, <2>1, <2>2, LookTypes DEF LookInv, Stored
<1>3. ASSUME container # None, crashed' = crashed, restartState' = restartState,
             container' # None, container'.restarts = container.restarts
      PROVE  LookInv'
  BY <1>3 DEF LookInv, Stored
<1>4. ASSUME container' = None, OtherContainer PROVE LookInv'
  BY <1>4, LookTypes DEF LookInv, OtherContainer
<1>5. ASSUME container = None, container' = NewContainer, crashed' = crashed, restartState' = restartState
      PROVE  LookInv'
  <2>1. container' # None /\ container'.restarts = 0
    BY <1>5, ContainerFields DEF NewContainer
  <2>2. restartState # None => ~restartState.same
    BY <1>5 DEF LookInv
  <2> QED
    BY <1>5, <2>1, <2>2 DEF LookInv, Stored
<1>6. ASSUME container # None
      PROVE  /\ [container EXCEPT !.deaf = TRUE] # None
             /\ [container EXCEPT !.deaf = TRUE].restarts = container.restarts
             /\ [container EXCEPT !.uptime = Older(@, Grace)] # None
             /\ [container EXCEPT !.uptime = Older(@, Grace)].restarts = container.restarts
  <2>1. container \in [restarts : Nat, uptime : Nat, deaf : BOOLEAN]
    BY <1>6, ContainerFields, Constants DEF Containers
  <2>2. Older(container.uptime, Grace) \in Nat
    BY <2>1 DEF Older
  <2>3. /\ [container EXCEPT !.deaf = TRUE] \in [restarts : Nat, uptime : Nat, deaf : BOOLEAN]
        /\ [container EXCEPT !.uptime = Older(@, Grace)] \in [restarts : Nat, uptime : Nat, deaf : BOOLEAN]
    BY <2>1, <2>2
  <2> QED
    BY <2>1, <2>3, WatchdogAssumption
<1>7. CASE Minute
  BY <1>1, <1>2, <1>3, <1>6, <1>7 DEF Minute, fileVars
<1>8. CASE Fault
  BY <1>1, <1>2, <1>3, <1>6, <1>8 DEF Fault, fileVars
<1>9. CASE GuiTakes \/ Down
  BY <1>4, <1>9 DEF GuiTakes, Down
<1>10. CASE GuiDone \/ Up
  <2>1. container = None /\ container' \in {None, NewContainer} /\ UNCHANGED <<crashed, restartState>>
    BY <1>10 DEF GuiDone, Up, PlaceInv, fileVars, recoveryIdle
  <2> QED
    BY <1>1, <1>5, <2>1
<1>11. CASE Calibrate \/ RestartSdrplay
  BY <1>1, <1>11 DEF Calibrate, RestartSdrplay, radarVars, fileVars, history
<1>12. CASE CheckRestarts
  <2>1. container' = container
    BY <1>12 DEF CheckRestarts, checkIdle, radarVars
  <2>2. CASE container = None
    BY <1>1, <1>12, <2>1, <2>2 DEF CheckRestarts
  <2>3. CASE container # None
    <3>1. restartState' = [same |-> TRUE, restarts |-> container.restarts] /\ crashed' = FALSE
      BY <1>12, <2>3 DEF CheckRestarts
    <3> QED
      BY <2>1, <2>3, <3>1, LookTypes DEF LookInv, Stored
  <2> QED
    BY <2>2, <2>3
<1>13. CASE Check /\ ~CheckRestarts
  <2>1. UNCHANGED <<container, crashed, restartState>>
    BY <1>13, CheckKeepsRadar
       DEF Check, CheckMode, CheckCalibrate, CheckGrace, CheckMap, TakeLock, fileVars
  <2> QED
    BY <1>1, <2>1
<1>14. CASE UNCHANGED vars
  BY <1>1, <1>14 DEF vars, radarVars, fileVars, history
<1> QED
  BY <1>7, <1>8, <1>9, <1>10, <1>11, <1>12, <1>13, <1>14 DEF Next, Surroundings, Check, Recovery

\* A check finds a crash loop exactly when Docker restarted the container
\* there is since the last look.
THEOREM CrashLoopIsFound == Spec => CrashLoopFound
<1> DEFINE Inv == TypeOK /\ PlaceInv /\ LookInv
<1>1. Init => Inv
  BY InitType, ContainerFields DEF Init, PlaceInv, LookInv, RecoveryPcs, Nobody
<1>2. Inv /\ [Next]_vars => Inv'
  BY SurroundingsTyped, CheckTyped, StepPlace, StepLook DEF Next
<1>3. Inv /\ [Next]_vars =>
        [pc = "restarts" /\ pc' = "grace" => looping' = (restartState # None /\ crashed)]_vars
  <2> SUFFICES ASSUME Inv, Next, pc = "restarts", pc' = "grace"
               PROVE  looping' = (restartState # None /\ crashed)
    OBVIOUS
  <2>1. CheckRestarts
    BY DEF Next, Surroundings, Minute, Fault, GuiTakes, GuiDone, Calibrate, Check, CheckMode,
           CheckCalibrate, CheckGrace, CheckMap, TakeLock, LeaveAlone, LeaveToOthers,
           Recovery, Down, RestartSdrplay, Up
  <2>2. looping' = (container # None /\ restartState # None /\ container.restarts > Stored)
    BY <2>1 DEF CheckRestarts
  <2>3. crashed \in BOOLEAN
    BY DEF TypeOK
  <2> QED
    BY <2>2, <2>3, Zenon DEF LookInv
<1> QED
  BY <1>1, <1>2, <1>3, PTL DEF Spec, CrashLoopFound

--------------------------------------------------------------------------------
(* The grace period                                                        *)

\* Past the grace check there is a reason for it to be over.
GraceOver == container = None \/ container.uptime >= Grace \/ looping
GraceInv  == pc \in {"map", "lock", "down"} => GraceOver \/ crashed \/ guiMet

LEMMA StepGrace == TypeOK /\ GraceInv /\ [Next]_vars => GraceInv'
<1> SUFFICES ASSUME TypeOK, GraceInv, [Next]_vars PROVE GraceInv'
  OBVIOUS
<1>1. CASE Minute \/ CheckMode \/ CheckCalibrate \/ CheckRestarts \/ Recovery
  BY <1>1 DEF Minute, CheckMode, CheckCalibrate, CheckRestarts, Recovery, Down, RestartSdrplay, Up,
              LeaveToOthers, GraceInv
<1>2. CASE Fault
  <2>1. container # None => /\ container \in [restarts : Nat, uptime : Nat, deaf : BOOLEAN]
                            /\ [container EXCEPT !.deaf = TRUE].uptime = container.uptime
    BY ContainerFields, Constants DEF Containers
  <2>2. UNCHANGED <<pc, looping, guiMet>>
    BY <1>2 DEF Fault
  <2>3. \/ UNCHANGED <<container, crashed>>
        \/ container # None /\ container' = [container EXCEPT !.deaf = TRUE] /\ crashed' = crashed
        \/ crashed'
    BY <1>2 DEF Fault
  <2> QED
    BY <2>1, <2>2, <2>3 DEF GraceInv, GraceOver
<1>3. CASE GuiTakes
  BY <1>3 DEF GuiTakes, GraceInv, GraceOver
<1>4. CASE GuiDone
  BY <1>4 DEF GuiDone, GraceInv
<1>5. CASE Calibrate
  BY <1>5 DEF Calibrate, radarVars, history, GraceInv, GraceOver
<1>6. CASE CheckGrace
  <2>1. container' = container /\ UNCHANGED <<looping, crashed, guiMet>>
    BY <1>6 DEF CheckGrace, checkIdle, radarVars
  <2>2. pc' = "idle" \/ ~InGrace
    BY <1>6 DEF CheckGrace, LeaveAlone
  <2>3. ~InGrace => GraceOver
    <3>1. container # None => container.uptime \in Nat
      BY ContainerFields
    <3> QED
      BY <3>1, Constants DEF InGrace, GraceOver
  <2>4. pc' \in {"idle", "map"}
    BY <1>6 DEF CheckGrace, LeaveAlone
  <2> QED
    BY <2>1, <2>2, <2>3, <2>4 DEF GraceInv, GraceOver
<1>7. CASE CheckMap \/ TakeLock
  BY <1>7 DEF CheckMap, TakeLock, LeaveAlone, LeaveToOthers, checkIdle, radarVars, GraceInv, GraceOver
<1>8. CASE UNCHANGED vars
  BY <1>8 DEF vars, radarVars, history, GraceInv, GraceOver
<1> QED
  BY <1>1, <1>2, <1>3, <1>4, <1>5, <1>6, <1>7, <1>8 DEF Next, Surroundings, Check

\* A container is taken down in its grace period only if Docker restarted it,
\* or the GUI put it there while the check was on its way.
THEOREM GraceIsKept == Spec => []GraceKept
<1>1. Init => GraceInv
  BY DEF Init, GraceInv
<1>2. TypeOK /\ GraceInv /\ [Next]_vars => TypeOK' /\ GraceInv'
  BY SurroundingsTyped, CheckTyped, StepGrace DEF Next
<1>3. GraceInv => GraceKept
  BY DEF GraceInv, GraceOver, GraceKept
<1> QED
  BY <1>1, <1>2, <1>3, InitType, PTL DEF Spec

--------------------------------------------------------------------------------
(* The reset on USB                                                        *)

\* A radar that streams and was not started this minute has had its map taken
\* by the API, so a check that finds it settled finds its map fresh; and the
\* script is ahead of what it has done by the recovery it is about to begin.
EarnedInv ==
  /\ Streams /\ container.uptime > 0 => map = 0
  /\ recoveries <= IF pc = "down" THEN downs + 1 ELSE downs

LEMMA EarnedTypes ==
  ASSUME TypeOK
  PROVE  /\ recoveries \in Nat /\ downs \in Nat
         /\ container # None => container.uptime \in Nat
BY ContainerFields DEF TypeOK

\* Time and faults stop a stream or leave its map alone.
LEMMA SurroundingsEarned == TypeOK /\ PlaceInv /\ EarnedInv /\ Surroundings => EarnedInv'
<1> SUFFICES ASSUME TypeOK, PlaceInv, EarnedInv, Surroundings PROVE EarnedInv'
  OBVIOUS
<1>1. UNCHANGED <<pc, recoveries, downs>>
  BY DEF Surroundings, Minute, Fault, GuiTakes, GuiDone, Calibrate, fileVars, history
<1>2. ASSUME Streams' /\ container'.uptime > 0 => map' = 0 PROVE EarnedInv'
  BY <1>1, <1>2 DEF EarnedInv
<1>3. ASSUME container # None, container.restarts < MaxRestarts
      PROVE  Restarted(container).uptime = 0
  BY DEF Restarted
<1>4. CASE Minute
  <2>1. CASE Streams
    BY <1>2, <1>4, <2>1 DEF Minute
  <2>2. CASE ~Streams
    <3>1. wedge.exits => wedge.part # "none"
      BY DEF TypeOK, Well
    <3>2. wedge' = wedge
      BY <1>4 DEF Minute
    <3>3. container # None /\ ~wedge.exits /\ container.deaf => container'.deaf
      <4>1. container # None => container \in [restarts : Nat, uptime : Nat, deaf : BOOLEAN]
        BY ContainerFields, Constants DEF Containers
      <4> QED
        BY <1>4, <4>1 DEF Minute
    <3>4. container = None => container' = None
      BY <1>4 DEF Minute
    <3>5. ~Streams'
      BY <2>2, <3>1, <3>2, <3>3, <3>4 DEF Streams
    <3> QED
      BY <1>2, <3>5
  <2> QED
    BY <2>1, <2>2
<1>5. CASE Fault
  <2>1. CASE UNCHANGED <<container, map>>
    <3>1. wedge' = wedge \/ wedge'.part # "none"
      BY <1>5, <2>1 DEF Fault
    <3> QED
      BY <1>2, <2>1, <3>1 DEF EarnedInv, Streams
  <2>2. CASE container # None /\ container' = [container EXCEPT !.deaf = TRUE]
    <3>1. container'.deaf
      BY <2>2, ContainerFields, Constants DEF Containers
    <3> QED
      BY <1>2, <3>1 DEF Streams
  <2>3. CASE container # None /\ container' = Restarted(container)
    BY <1>2, <2>3 DEF Restarted
  <2> QED
    BY <1>5, <2>1, <2>2, <2>3 DEF Fault
<1>6. CASE GuiTakes
  BY <1>2, <1>6 DEF GuiTakes, Streams
<1>7. CASE GuiDone
  BY <1>2, <1>7 DEF GuiDone, NewContainer, Streams
<1>8. CASE Calibrate
  BY <1>2, <1>8 DEF Calibrate, radarVars, EarnedInv, Streams
<1> QED
  BY <1>4, <1>5, <1>6, <1>7, <1>8 DEF Surroundings

\* A check that comes upon a settled radar forgets the recoveries.
LEMMA StepEarned == TypeOK /\ PlaceInv /\ EarnedInv /\ [Next]_vars => EarnedInv'
<1> SUFFICES ASSUME TypeOK, PlaceInv, EarnedInv, [Next]_vars PROVE EarnedInv'
  OBVIOUS
<1> USE EarnedTypes
<1>1. CASE Surroundings
  BY <1>1, SurroundingsEarned
<1>2. ASSUME UNCHANGED <<container, map, wedge>>,
             recoveries' <= IF pc' = "down" THEN downs' + 1 ELSE downs'
      PROVE  EarnedInv'
  BY <1>2 DEF EarnedInv, Streams
<1>3. CASE Check
  <2>1. UNCHANGED <<container, map, wedge>>
    BY <1>3, CheckKeepsRadar
  <2>2. CASE CheckMode \/ CheckCalibrate \/ CheckRestarts
    <3>1. pc # "down" /\ pc' # "down" /\ (UNCHANGED <<recoveries, downs>> \/ (recoveries' = 0 /\ downs' = 0))
      BY <2>2 DEF CheckMode, CheckCalibrate, CheckRestarts, LeaveToOthers, fileVars
    <3> QED
      BY <1>2, <2>1, <3>1 DEF EarnedInv
  <2>3. CASE CheckGrace
    <3>1. pc = "grace" /\ pc' # "down" /\ recoveries' = recoveries
      BY <2>3 DEF CheckGrace, LeaveAlone, fileVars
    <3>2. downs' = downs
      BY <2>3 DEF CheckGrace
    <3> QED
      BY <1>2, <2>1, <3>1, <3>2 DEF EarnedInv
  <2>4. CASE CheckMap
    <3>1. pc = "map" /\ pc' # "down"
      BY <2>4 DEF CheckMap, LeaveAlone
    <3>2. downs' \in Nat /\ (~Settled => downs' = downs)
      BY <2>4 DEF CheckMap
    \* A settled radar is one whose map is fresh.
    <3>3. recoveries' = 0 \/ (~Settled /\ recoveries' = recoveries)
      <4>1. Settled => map = 0
        BY Constants DEF Settled, Streams, EarnedInv
      <4> QED
        BY <2>4, <4>1, Constants DEF CheckMap
    <3> QED
      BY <1>2, <2>1, <3>1, <3>2, <3>3 DEF EarnedInv
  <2>5. CASE TakeLock
    <3>1. /\ pc = "lock" /\ downs' = downs
          /\ \/ pc' = "down" /\ recoveries' = recoveries + 1
             \/ pc' = "idle" /\ recoveries' = recoveries
      BY <2>5 DEF TakeLock, LeaveToOthers
    <3> QED
      BY <1>2, <2>1, <3>1 DEF EarnedInv
  <2> QED
    BY <1>3, <2>2, <2>3, <2>4, <2>5 DEF Check
<1>4. CASE Down
  BY <1>4 DEF Down, recoveryIdle, EarnedInv, Streams
<1>5. CASE RestartSdrplay
  <2>1. container' = None /\ UNCHANGED <<recoveries, downs>> /\ pc = "sdrplay" /\ pc' = "up"
    BY <1>5 DEF RestartSdrplay, recoveryIdle, PlaceInv
  <2> QED
    BY <2>1 DEF EarnedInv, Streams
<1>6. CASE Up
  BY <1>6 DEF Up, recoveryIdle, EarnedInv, NewContainer
<1>7. CASE UNCHANGED vars
  BY <1>2, <1>7 DEF vars, radarVars, fileVars, history, EarnedInv
<1> QED
  BY <1>1, <1>3, <1>4, <1>5, <1>6, <1>7 DEF Next, Recovery

\* The radio is reset on USB only when the stack was really taken down
\* ResetFrom times since a check came upon a radar that streams.
THEOREM ResetIsEarned == Spec => []ResetsAreEarned
<1> DEFINE Inv == TypeOK /\ PlaceInv /\ EarnedInv
<1>1. Init => Inv
  BY InitType, ContainerFields DEF Init, PlaceInv, EarnedInv, NewContainer, RecoveryPcs, Nobody
<1>2. Inv /\ [Next]_vars => Inv'
  BY SurroundingsTyped, CheckTyped, StepPlace, StepEarned DEF Next
<1>3. Inv => ResetsAreEarned
  BY EarnedTypes, Constants DEF EarnedInv, ResetsUsb, ResetsAreEarned
<1> QED
  BY <1>1, <1>2, <1>3, PTL DEF Spec

--------------------------------------------------------------------------------
(* A radar in trouble                                                      *)

\* After a check that left a radar in trouble alone, the map ages and so does
\* the container, unless it keeps crashing: when the next check comes, neither
\* of them hides the trouble.
Overdue ==
  /\ map = None \/ map > Stale \/ map >= sinceCheck
  /\ \/ container = None
     \/ wedge.exits /\ (sinceCheck > 0 => crashed)
     \/ ~wedge.exits /\ (container.uptime >= Grace \/ container.uptime >= sinceCheck)

TroubleInv ==
  /\ unattended <= 1
  /\ unattended = 1 =>
       /\ ~Streams
       /\ pc = "idle" => Overdue
       /\ pc # "idle" => map = None \/ map > Stale
       /\ pc \in {"calibrate", "restarts"} => container = None \/ crashed \/ container.uptime >= Grace
       /\ pc = "grace" => GraceOver

LEMMA TroubleTypes ==
  ASSUME TypeOK
  PROVE  /\ map = None \/ map \in Nat
         /\ map # None => map \in Nat
         /\ unattended \in Nat /\ sinceCheck \in Nat /\ sinceCheck <= Period
         /\ container # None => container.uptime \in Nat /\ container.uptime <= Grace
BY ContainerFields, Constants DEF TypeOK

\* A minute brings an overdue radar nearer to its next check.
LEMMA MinuteOverdue ==
  ASSUME TypeOK, Overdue, Minute, ~Streams
  PROVE  Overdue'
<1>1. sinceCheck' = sinceCheck + 1 /\ sinceCheck \in Nat /\ wedge' = wedge
  BY TroubleTypes DEF Minute
<1>2. map' = None \/ map' > Stale \/ map' >= sinceCheck'
  <2>1. map' = IF map = None \/ map >= Stale + 1 THEN map ELSE map + 1
    BY DEF Minute, Older
  <2> QED
    BY <1>1, <2>1, TroubleTypes, Constants DEF Overdue
<1>3. CASE container = None
  BY <1>2, <1>3 DEF Minute, Overdue
<1>4. CASE container # None /\ wedge.exits
  BY <1>1, <1>2, <1>4 DEF Minute, Overdue
<1>5. CASE container # None /\ ~wedge.exits
  <2>1. container.uptime \in Nat /\ container \in Containers
    BY <1>5, ContainerFields
  <2>2. container' = [container EXCEPT !.uptime = Older(@, Grace)]
    BY <1>5 DEF Minute
  <2>3. container'.uptime = IF container.uptime >= Grace THEN container.uptime ELSE container.uptime + 1
    <3>1. container'.uptime = Older(container.uptime, Grace)
      BY <2>1, <2>2 DEF Containers
    <3>2. container.uptime # None
      BY <2>1, Constants
    <3> QED
      BY <3>1, <3>2 DEF Older
  <2>4. container.uptime >= Grace \/ container.uptime >= sinceCheck
    BY <1>5 DEF Overdue
  <2>5. container'.uptime >= Grace \/ container'.uptime >= sinceCheck'
    BY <1>1, <2>1, <2>3, <2>4, Constants
  <2> QED
    BY <1>1, <1>2, <1>5, <2>5 DEF Overdue
<1> QED
  BY <1>2, <1>3, <1>4, <1>5 DEF Overdue

LEMMA StepTrouble ==
  TypeOK /\ PlaceInv /\ LookInv /\ TroubleInv /\ [Next]_vars => TroubleInv'
<1> SUFFICES ASSUME TypeOK, PlaceInv, LookInv, TroubleInv, [Next]_vars PROVE TroubleInv'
  OBVIOUS
<1>0. unattended \in Nat /\ unattended <= 1
  BY TroubleTypes DEF TroubleInv
<1>1. ASSUME unattended' = 0 PROVE TroubleInv'
  BY <1>1 DEF TroubleInv
<1>2. ASSUME unattended' = unattended, UNCHANGED <<container, map, wedge, pc, crashed, looping, sinceCheck>>
      PROVE  TroubleInv'
  BY <1>2 DEF TroubleInv, Streams, Overdue, GraceOver
<1>3. CASE Minute
  <2>1. CASE Streams \/ unattended = 0
    BY <1>1, <1>3, <2>1 DEF Minute
  <2>2. CASE ~Streams /\ unattended = 1
    <3>1. /\ pc = "idle" /\ pc' = "idle" /\ unattended' = unattended /\ Overdue
          /\ wedge' = wedge
      BY <1>3, <2>2 DEF Minute, TroubleInv
    <3>2. ~Streams'
      <4>1. container # None => /\ container' # None
                                /\ container.deaf => container'.deaf \/ wedge.part # "none"
        <5>1. container # None => container \in [restarts : Nat, uptime : Nat, deaf : BOOLEAN]
          BY ContainerFields, Constants DEF Containers
        <5>2. wedge.exits => wedge.part # "none"
          BY DEF TypeOK, Well
        <5>3. container # None => container' # None
          <6>1. TypeOK'
            BY <1>3, SurroundingsTyped DEF Surroundings
          <6>2. ASSUME container # None
                PROVE  /\ [container EXCEPT !.uptime = Older(@, Grace)] # None
                       /\ Restarted(container) # None
            <7>1. Older(container.uptime, Grace) \in Nat
              BY <5>1, <6>2 DEF Older
            <7>2. Restarted(container) \in [restarts : Nat, uptime : Nat, deaf : BOOLEAN]
              BY <5>1, <6>2 DEF Restarted
            <7>3. [container EXCEPT !.uptime = Older(@, Grace)] \in [restarts : Nat, uptime : Nat, deaf : BOOLEAN]
              BY <5>1, <6>2, <7>1
            <7> QED
              BY <7>2, <7>3, WatchdogAssumption
          <6> QED
            BY <1>3, <6>2 DEF Minute
        <5>4. CASE wedge.exits
          BY <5>2, <5>3, <5>4
        <5>5. CASE ~wedge.exits
          BY <1>3, <5>1, <5>3, <5>5 DEF Minute
        <5> QED
          BY <5>4, <5>5
      <4>2. container = None => container' = None
        BY <1>3 DEF Minute
      <4> QED
        BY <2>2, <3>1, <4>1, <4>2 DEF Streams
    <3>3. Overdue'
      BY <1>3, <2>2, <3>1, MinuteOverdue
    <3> QED
      BY <1>0, <3>1, <3>2, <3>3 DEF TroubleInv
  <2> QED
    BY <1>0, <2>1, <2>2
<1>4. CASE Fault \/ GuiDone \/ Up
  BY <1>1, <1>4 DEF Fault, GuiDone, Up
<1>5. CASE GuiTakes
  BY <1>5 DEF GuiTakes, TroubleInv, Streams, Overdue, GraceOver
<1>6. CASE Calibrate
  BY <1>2, <1>6 DEF Calibrate, radarVars, history
<1>7. CASE CheckMode
  <2>1. CASE mode = "radar"
    <3>1. /\ pc = "idle" /\ sinceCheck = Period /\ pc' = "calibrate" /\ unattended' = unattended
          /\ UNCHANGED <<container, map, wedge, crashed, looping>>
      BY <1>7, <2>1 DEF CheckMode, checkIdle, radarVars
    <3>2. CASE unattended = 1
      <4>1. ~Streams /\ Overdue
        BY <3>1, <3>2 DEF TroubleInv
      <4>2. map = None \/ map > Stale
        BY <3>1, <4>1, TroubleTypes, Constants DEF Overdue
      <4>3. container = None \/ crashed \/ container.uptime >= Grace
        BY <3>1, <4>1, TroubleTypes, Constants DEF Overdue
      <4> QED
        BY <1>0, <3>1, <4>1, <4>2, <4>3 DEF TroubleInv, Streams
    <3> QED
      BY <1>0, <1>1, <3>1, <3>2
  <2>2. CASE mode # "radar"
    BY <1>1, <1>7, <2>2 DEF CheckMode, LeaveToOthers
  <2> QED
    BY <2>1, <2>2
<1>8. CASE CheckCalibrate
  <2>1. CASE pc' = "idle"
    BY <1>1, <1>8, <2>1 DEF CheckCalibrate, LeaveToOthers
  <2>2. CASE pc' # "idle"
    <3>1. /\ pc = "calibrate" /\ pc' = "restarts" /\ UNCHANGED <<unattended, container, map, wedge, crashed>>
      BY <1>8, <2>2 DEF CheckCalibrate, LeaveToOthers, checkIdle, radarVars
    <3> QED
      BY <3>1 DEF TroubleInv, Streams
  <2> QED
    BY <2>1, <2>2
<1>9. CASE CheckRestarts
  <2>1. CASE restartState = None \/ unattended = 0
    BY <1>1, <1>9, <2>1 DEF CheckRestarts
  <2>2. CASE restartState # None /\ unattended = 1
    <3>1. /\ pc = "restarts" /\ pc' = "grace" /\ UNCHANGED <<unattended, container, map, wedge>>
          /\ looping' = (container # None /\ restartState # None /\ container.restarts > Stored)
      BY <1>9, <2>2 DEF CheckRestarts, checkIdle, radarVars
    <3>2. /\ ~Streams /\ (map = None \/ map > Stale)
          /\ container = None \/ crashed \/ container.uptime >= Grace
      BY <2>2, <3>1 DEF TroubleInv
    <3>3. container # None /\ crashed => looping'
      BY <2>2, <3>1 DEF LookInv
    <3>4. GraceOver'
      BY <3>1, <3>2, <3>3 DEF GraceOver
    <3> QED
      BY <1>0, <3>1, <3>2, <3>4 DEF TroubleInv, Streams
  <2> QED
    BY <1>0, <2>1, <2>2
<1>10. ASSUME CheckGrace \/ CheckMap, unattended = 1 PROVE pc' # "idle" /\ unattended' = unattended
  <2>1. CASE CheckGrace
    <3>1. GraceOver /\ pc = "grace"
      BY <1>10, <2>1 DEF CheckGrace, TroubleInv
    <3>2. ~InGrace
      BY <3>1, TroubleTypes, Constants DEF GraceOver, InGrace
    <3> QED
      BY <2>1, <3>2 DEF CheckGrace
  <2>2. CASE CheckMap
    <3>1. map = None \/ map > Stale
      BY <1>10, <2>2 DEF CheckMap, TroubleInv
    <3> QED
      BY <2>2, <3>1, TroubleTypes, Constants DEF CheckMap
  <2> QED
    BY <1>10, <2>1, <2>2
<1>11. CASE CheckGrace \/ CheckMap
  <2>1. /\ UNCHANGED <<container, map, wedge, crashed, looping, sinceCheck>> /\ pc \in {"grace", "map"}
        /\ pc' \in {"idle", "map", "lock"}
    BY <1>11 DEF CheckGrace, CheckMap, LeaveAlone, checkIdle, radarVars
  <2>2. CASE unattended = 1
    <3>1. pc' \in {"map", "lock"} /\ unattended' = 1
      BY <1>10, <1>11, <2>1, <2>2
    <3> QED
      BY <2>1, <2>2, <3>1 DEF TroubleInv, Streams
  <2>3. CASE unattended = 0
    <3>1. sinceCheck = 0
      BY <2>1 DEF PlaceInv
    <3>2. unattended' = 0 \/ (pc' = "idle" /\ ~Streams /\ unattended' = 1)
      BY <1>11, <2>3 DEF CheckGrace, CheckMap, LeaveAlone
    <3>3. Overdue
      BY <3>1, TroubleTypes DEF Overdue
    <3> QED
      BY <1>1, <2>1, <3>2, <3>3 DEF TroubleInv, Overdue, Streams
  <2> QED
    BY <1>0, <2>2, <2>3
<1>12. CASE TakeLock
  BY <1>1, <1>12 DEF TakeLock, LeaveToOthers, checkIdle, radarVars, TroubleInv, Streams
<1>13. CASE Down
  BY <1>13 DEF Down, TroubleInv, Streams
<1>14. CASE RestartSdrplay
  <2>1. container = None /\ map = None
    BY <1>14 DEF RestartSdrplay, PlaceInv
  <2> QED
    BY <1>14, <2>1 DEF RestartSdrplay, TroubleInv, Streams
<1>15. CASE UNCHANGED vars
  BY <1>2, <1>15 DEF vars, radarVars, history
<1> QED
  BY <1>3, <1>4, <1>5, <1>6, <1>7, <1>8, <1>9, <1>11, <1>12, <1>13, <1>14, <1>15
     DEF Next, Surroundings, Check, Recovery

\* A radar in trouble is left alone by one check in a row at most.
THEOREM TroubleIsAttended == Spec => []TroubleAttended
<1> DEFINE Inv == TypeOK /\ PlaceInv /\ LookInv /\ TroubleInv
<1>1. Init => Inv
  BY InitType, ContainerFields DEF Init, PlaceInv, LookInv, TroubleInv, RecoveryPcs, Nobody
<1>2. Inv /\ [Next]_vars => Inv'
  BY SurroundingsTyped, CheckTyped, StepPlace, StepLook, StepTrouble DEF Next
<1>3. Inv => TroubleAttended
  BY DEF TroubleInv, TroubleAttended
<1> QED
  BY <1>1, <1>2, <1>3, PTL DEF Spec

--------------------------------------------------------------------------------
(* A radar comes back                                                      *)

\* Where a radar stands that the watchdog has recovered since something last
\* happened to it.  While it is not well the map stays away and every one of
\* those recoveries is counted; once it is, a fresh map keeps the watchdog off.
BeingRecovered == pc \in {"down", "sdrplay"} /\ recoveries >= fruitless
StillWedged ==
  /\ pc \notin {"down", "sdrplay"} /\ wedge.part = "usb" /\ map = None
  /\ recoveries >= fruitless /\ fruitless < ResetFrom
BackAgain ==
  /\ pc \notin {"down", "sdrplay"} /\ wedge.part = "none"
  /\ \/ pc = "up"
     \/ lock = "gui"
     \/ container # None /\ ~container.deaf /\ (map = 0 \/ (pc = "idle" /\ sinceCheck = 0))

ComeInv ==
  /\ fruitless <= ResetFrom
  /\ fruitless > 0 => BeingRecovered \/ StillWedged \/ BackAgain

LEMMA StepCome == TypeOK /\ PlaceInv /\ ComeInv /\ [Next]_vars => ComeInv'
<1> SUFFICES ASSUME TypeOK, PlaceInv, ComeInv, [Next]_vars PROVE ComeInv'
  OBVIOUS
<1>0. /\ fruitless \in Nat /\ recoveries \in Nat /\ ResetFrom \in Nat \ {0}
      /\ wedge.part \in {"none", "service", "usb"}
  BY Constants DEF TypeOK, Well
<1>1. ASSUME fruitless' = 0 PROVE ComeInv'
  BY <1>0, <1>1 DEF ComeInv
<1>2. ASSUME UNCHANGED <<pc, recoveries, fruitless, wedge, map, lock, container, sinceCheck>>
      PROVE  ComeInv'
  BY <1>2 DEF ComeInv, BeingRecovered, StillWedged, BackAgain
<1>3. CASE Minute
  <2>1. /\ pc = "idle" /\ UNCHANGED <<pc, recoveries, fruitless, wedge, lock>>
    BY <1>3 DEF Minute, fileVars
  <2>2. CASE fruitless > 0 /\ StillWedged
    <3>1. map' = None
      BY <1>3, <2>2 DEF Minute, Streams, Older, StillWedged
    <3> QED
      BY <2>1, <2>2, <3>1 DEF ComeInv, StillWedged
  <2>3. CASE fruitless > 0 /\ BackAgain /\ lock = "gui"
    BY <2>1, <2>3 DEF ComeInv, BackAgain
  <2>4. CASE fruitless > 0 /\ BackAgain /\ lock # "gui"
    <3>1. container # None /\ ~container.deaf /\ Streams
      BY <2>1, <2>4 DEF BackAgain, Streams
    <3>2. map' = 0
      BY <1>3, <3>1 DEF Minute
    <3>3. container' # None /\ ~container'.deaf
      <4>1. container \in [restarts : Nat, uptime : Nat, deaf : BOOLEAN]
        BY <3>1, ContainerFields, Constants DEF Containers
      <4>2. Older(container.uptime, Grace) \in Nat
        BY <4>1 DEF Older
      <4>3. /\ [container EXCEPT !.uptime = Older(@, Grace)] \in [restarts : Nat, uptime : Nat, deaf : BOOLEAN]
            /\ ~[container EXCEPT !.uptime = Older(@, Grace)].deaf
            /\ Restarted(container) \in [restarts : Nat, uptime : Nat, deaf : BOOLEAN]
            /\ ~Restarted(container).deaf
        BY <3>1, <4>1, <4>2 DEF Restarted
      <4> QED
        BY <1>3, <3>1, <4>3, WatchdogAssumption DEF Minute
    <3> QED
      BY <2>1, <2>4, <3>2, <3>3 DEF ComeInv, BackAgain
  <2> QED
    BY <1>0, <1>1, <2>1, <2>2, <2>3, <2>4 DEF ComeInv, BeingRecovered
<1>4. CASE Fault \/ GuiDone
  BY <1>1, <1>4 DEF Fault, GuiDone
<1>5. CASE GuiTakes
  <2>1. UNCHANGED <<pc, recoveries, fruitless, wedge>> /\ lock' = "gui" /\ map' = None
    BY <1>5 DEF GuiTakes
  <2>2. pc \notin RecoveryPcs
    BY <1>5 DEF GuiTakes, PlaceInv, Nobody
  <2> QED
    BY <2>1, <2>2 DEF ComeInv, BeingRecovered, StillWedged, BackAgain, RecoveryPcs
<1>6. CASE Calibrate
  BY <1>2, <1>6 DEF Calibrate, radarVars, fileVars, history
<1>7. CASE CheckMode
  <2>1. CASE mode = "radar"
    <3>1. /\ pc = "idle" /\ pc' = "calibrate" /\ sinceCheck = Period
          /\ UNCHANGED <<recoveries, fruitless, wedge, map, lock, container>>
      BY <1>7, <2>1 DEF CheckMode, checkIdle, radarVars
    <3>2. sinceCheck # 0
      BY <3>1, Constants
    <3> QED
      BY <3>1, <3>2 DEF ComeInv, BeingRecovered, StillWedged, BackAgain
  <2>2. CASE mode # "radar"
    BY <1>1, <1>7, <2>2 DEF CheckMode
  <2> QED
    BY <2>1, <2>2
<1>8. CASE CheckCalibrate \/ CheckRestarts \/ CheckGrace
  <2>1. /\ UNCHANGED <<recoveries, fruitless, wedge, map, lock, container, sinceCheck>>
        /\ pc \in {"calibrate", "restarts", "grace"} /\ pc' \in {"idle", "restarts", "grace", "map"}
    BY <1>8 DEF CheckCalibrate, CheckRestarts, CheckGrace, LeaveAlone, LeaveToOthers, checkIdle,
                radarVars, fileVars
  <2>2. sinceCheck = 0
    BY <2>1 DEF PlaceInv
  <2> QED
    BY <2>1, <2>2 DEF ComeInv, BeingRecovered, StillWedged, BackAgain
<1>9. CASE CheckMap
  <2>1. /\ UNCHANGED <<fruitless, wedge, map, lock, container, sinceCheck>>
        /\ pc = "map" /\ pc' \in {"idle", "lock"}
        /\ recoveries' = recoveries \/ map # None
    BY <1>9 DEF CheckMap, LeaveAlone, checkIdle, radarVars
  <2> QED
    BY <2>1 DEF ComeInv, BeingRecovered, StillWedged, BackAgain, PlaceInv
<1>10. CASE TakeLock
  <2>1. pc = "lock" /\ UNCHANGED <<wedge, map, container, sinceCheck>>
    BY <1>10 DEF TakeLock, checkIdle, radarVars
  <2>2. CASE lock # Nobody
    <3>1. pc' = "idle" /\ UNCHANGED <<lock, recoveries, fruitless>>
      BY <1>10, <2>2 DEF TakeLock, LeaveToOthers
    <3> QED
      BY <2>1, <3>1 DEF ComeInv, BeingRecovered, StillWedged, BackAgain
  <2>3. CASE lock = Nobody
    <3>1. pc' = "down" /\ recoveries' = recoveries + 1 /\ fruitless' = fruitless + 1
      BY <1>10, <2>3 DEF TakeLock
    \* A radar that is back has a fresh map.
    <3>2. ~BackAgain
      <4>1. map = None \/ map > Stale
        BY <2>1 DEF PlaceInv
      <4>2. map # 0
        BY <4>1, Constants
      <4> QED
        BY <2>1, <2>3, <4>2 DEF BackAgain, Nobody
    <3>3. fruitless > 0 => recoveries >= fruitless /\ fruitless < ResetFrom
      BY <2>1, <3>2 DEF ComeInv, BeingRecovered, StillWedged
    <3> QED
      BY <1>0, <3>1, <3>3 DEF ComeInv, BeingRecovered
  <2> QED
    BY <2>2, <2>3
<1>11. CASE Down
  BY <1>11 DEF Down, recoveryIdle, ComeInv, BeingRecovered, StillWedged, BackAgain
<1>12. CASE RestartSdrplay
  <2>1. /\ pc = "sdrplay" /\ pc' = "up" /\ UNCHANGED <<recoveries, fruitless, map>>
        /\ wedge' = IF wedge.part = "service" \/ recoveries >= ResetFrom THEN Well ELSE wedge
    BY <1>12 DEF RestartSdrplay, recoveryIdle, ResetsUsb
  <2>2. map = None
    BY <2>1 DEF PlaceInv
  <2>3. fruitless > 0 => recoveries >= fruitless
    BY <2>1 DEF ComeInv, BeingRecovered, StillWedged, BackAgain
  <2>4. CASE wedge'.part = "none"
    BY <2>1, <2>4 DEF ComeInv, BackAgain
  <2>5. CASE wedge'.part # "none"
    <3>1. wedge' = wedge /\ wedge.part = "usb" /\ recoveries < ResetFrom
      BY <1>0, <2>1, <2>5 DEF Well
    <3> QED
      BY <1>0, <2>1, <2>2, <2>3, <3>1 DEF ComeInv, StillWedged
  <2> QED
    BY <2>4, <2>5
<1>13. CASE Up
  <2>1. /\ pc = "up" /\ pc' = "idle" /\ UNCHANGED <<recoveries, fruitless, wedge, map, sinceCheck>>
        /\ container' = NewContainer
    BY <1>13 DEF Up, recoveryIdle
  <2>2. sinceCheck = 0
    BY <2>1 DEF PlaceInv
  <2>3. NewContainer # None /\ ~NewContainer.deaf
    BY ContainerFields DEF NewContainer
  <2> QED
    BY <2>1, <2>2, <2>3 DEF ComeInv, BeingRecovered, StillWedged, BackAgain
<1>14. CASE UNCHANGED vars
  BY <1>2, <1>14 DEF vars, radarVars, fileVars, history
<1> QED
  BY <1>3, <1>4, <1>5, <1>6, <1>7, <1>8, <1>9, <1>10, <1>11, <1>12, <1>13, <1>14
     DEF Next, Surroundings, Check, Recovery

\* Whatever happened to the radar, ResetFrom recoveries undo it if nothing
\* more happens.
THEOREM RadarComesBack == Spec => []ComesBack
<1> DEFINE Inv == TypeOK /\ PlaceInv /\ ComeInv
<1>1. Init => Inv
  BY InitType, Constants DEF Init, PlaceInv, ComeInv, RecoveryPcs, Nobody
<1>2. Inv /\ [Next]_vars => Inv'
  BY SurroundingsTyped, CheckTyped, StepPlace, StepCome DEF Next
<1>3. Inv => ComesBack
  BY DEF ComeInv, ComesBack
<1> QED
  BY <1>1, <1>2, <1>3, PTL DEF Spec
================================================================================
