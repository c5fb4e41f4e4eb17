---------------------------- MODULE PowerHistory ----------------------------
(***************************************************************************)
(* The power manager with history variables. They change nothing the       *)
(* manager does; properties about the past of a run are stated with them.  *)
(***************************************************************************)
EXTENDS PowerMgr

VARIABLES
  dwell,      \* ms of update() since the present state was entered
  readings,   \* battery readings since the last start, counted up to 2
  decisive    \* the last reading outside the dead band: "low" or "ok"

batteryVars == <<readings, decisive>>
historyVars == <<power, dwell, readings, decisive>>

\* dwell is cut off where no property looks any further.
DwellCap == WakeMs + ShutdownMs

Capped(ms) == IF ms > DwellCap THEN DwellCap ELSE ms

NextDwell(dt) ==
  IF power'.state = power.state THEN Capped(dwell + dt) ELSE 0

HistoryInit ==
  /\ PowerInit
  /\ dwell = 0
  /\ readings = 0
  /\ decisive = "ok"

HSwitchOn  == SwitchOn /\ dwell' = NextDwell(0) /\ UNCHANGED batteryVars
HSwitchOff == SwitchOff /\ dwell' = NextDwell(0) /\ UNCHANGED batteryVars
HWait(dt)  == Wait(dt) /\ dwell' = NextDwell(dt) /\ UNCHANGED batteryVars

\* The trigger outlives reset(), and with it the last decisive reading.
HRestart ==
  /\ Restart
  /\ dwell' = 0
  /\ readings' = 0
  /\ UNCHANGED decisive

Decision(level) ==
  CASE level <= BatteryLow -> "low"
    [] level >= BatteryOk -> "ok"
    [] BatteryLow < level /\ level < BatteryOk -> decisive

HReadBattery(level) ==
  /\ ReadBattery(level)
  /\ dwell' = NextDwell(0)
  /\ readings' = IF readings = 0 THEN 1 ELSE 2
  /\ decisive' = Decision(level)

HistoryNext ==
  \/ HSwitchOn
  \/ HSwitchOff
  \/ \E level \in BatteryLevels : HReadBattery(level)
  \/ \E dt \in Dt : HWait(dt)
  \/ HRestart

HistorySpec == HistoryInit /\ [][HistoryNext]_historyVars

\* The control task calls update() on every cycle.
FairHistorySpec ==
  HistorySpec /\ WF_historyVars(\E dt \in Dt : HWait(dt))

-----------------------------------------------------------------------------
(* Properties *)

\* A shutdown takes its full time, and so does waking up: what transition_
\* still has to run and what has run already add up to the whole delay,
\* although a timer left over from an aborted shutdown may be running when
\* the state is entered.
TransitionsInFull ==
  /\ power.state = "Shutdown" => dwell + power.transition >= ShutdownMs
  /\ power.state = "Wake"     => dwell + power.transition >= WakeMs

\* Wake and Shutdown are passed through: time alone leads out of them,
\* whatever the ignition does meanwhile.
TransientStatesEnd == []<>(power.state \in {"Sleep", "Run"})

\* Load shedding is the verdict of the last reading outside the dead band,
\* however many readings inside it came after; the first reading after a
\* start, or after a reset, only counts from the second on.
ShedFollowsReadings ==
  /\ readings < 2 => ~power.load_shed
  /\ readings = 2 => (power.load_shed <=> decisive = "low")

=============================================================================
