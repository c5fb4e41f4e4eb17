------------------------------- MODULE BcmApp -------------------------------
(***************************************************************************)
(* The application on the board (app/bcm_app.cpp, as rtos_app.cpp runs     *)
(* it): every control cycle debounces the switch pins and tells the core   *)
(* what it needs to know, lets the core step and drives the lamp pins, and *)
(* handles the frames that have come in. The parts of one step() are       *)
(* actions of their own, in program order; at says which comes next. The   *)
(* sensor task has a lower priority: it converts between two cycles.       *)
(*                                                                         *)
(* host is BcmCore's variable: host_request_, host_mask and the door       *)
(* requests lie in the command context between a poll and the next gather, *)
(* and in the core from there on, and nothing looks at them in between.    *)
(***************************************************************************)
EXTENDS BcmCore, Commands, Drivers

CONSTANTS
  CycleMs,        \* the dt the control task passes to step()
  SensorCycles,   \* kSensorPeriod in control periods
  DoorContacts    \* what the door contact may say: this board leaves it
                  \* unwired, {FALSE}; the core and its tests know BOOLEAN

ASSUME AppConfig ==
  CycleMs \in Dt /\ SensorCycles \in Nat \ {0} /\ DoorContacts \subseteq BOOLEAN

VARIABLES
  at,         \* "gather", "core", "poll" or, after a RESET, "reset"
  buttons,    \* buttons_, a debouncer per switch pin
  leds,       \* lamps_, a flasher per lamp pin
  link,       \* comm_: link_timer_ and link_lost_
  battery,    \* battery_, the filter of the analog input
  measured,   \* g_battery_permille
  due,        \* control cycles until the sensor task runs
  power_seen, \* cmd_ctx_.power_state
  answers     \* what the last poll sent

pinVars == <<buttons, leds>>
senseVars == <<battery, measured, due>>
appVars == <<vars, at, buttons, leds, link, battery, measured, due,
             power_seen, answers>>

Pins == {"ignition", "ind_left", "ind_right", "hazard", "brake", "door_lock"}

\* The pins whose level is high; the board leaves the other inputs unwired.
Levels == SUBSET Pins

-----------------------------------------------------------------------------

\* A board that has just been started, with these levels at its pins.
AppInit(levels) ==
  /\ Init
  /\ at = "gather"
  /\ buttons = [pin \in Pins |-> FreshButton(pin \in levels)]
  /\ leds = [id \in LampId |-> Steady(FALSE)]
  /\ link = FreshLink
  /\ battery = FreshFilter
  /\ measured = 0
  /\ due = 1
  /\ power_seen = "Sleep"
  /\ answers = << >>

Pressed == {pin \in Pins : buttons[pin].state}

\* The first half of gather_inputs(): the pins are sampled, the power state
\* is noted for GET_STATUS, a receive overrun is stored as a fault.
GatherInputs(levels, overrun) ==
  /\ at = "gather" /\ due > 0
  /\ buttons' = [pin \in Pins |-> Sampled(buttons[pin], pin \in levels, CycleMs)]
  /\ power_seen' = power.state
  /\ faults' = IF overrun THEN SetFault(faults, "UartOverrun") ELSE faults
  /\ at' = "core"
  /\ UNCHANGED <<door, power, lighting, horn, coreVars, leds, link, senseVars,
                 answers>>

\* What gather_inputs() tells the core.
GatheredInputs(open) ==
  [ ignition  |-> "ignition" \in Pressed,
    ind_left  |-> "ind_left" \in Pressed,
    ind_right |-> "ind_right" \in Pressed,
    hazard    |-> "hazard" \in Pressed,
    brake     |-> "brake" \in Pressed,
    door_lock |-> "door_lock" \in Pressed,
    reverse_gear |-> FALSE,
    door_open    |-> open,
    battery_permille |-> measured,
    ambient_permille |-> 1000 ]

\* core_.step() and drive_outputs(). The core hears of the link as the last
\* poll left it.
StepCore ==
  /\ at = "core"
  /\ \E open \in DoorContacts : Step(GatheredInputs(open), link.lost, CycleMs)
  /\ leds' = [id \in LampId |-> Driven(leds[id], lamps'[id], CycleMs)]
  /\ at' = "poll"
  /\ UNCHANGED <<buttons, link, senseVars, power_seen, answers>>

\* Fault: GET_STATUS shows what the pins say before they have settled.
ShownUnsettled == {pin \in Pins : buttons[pin].candidate}

\* cmd_ctx_.switch_bitmap
Shown == Pressed

Context ==
  [ host   |-> host,
    faults |-> faults,
    reset  |-> FALSE,
    view   |-> [ actual |-> lamps, switches |-> Shown, power |-> power_seen,
                 battery |-> Permille(battery) ] ]

\* comm_.poll() with the frames that have come in since the last one.
Poll(requests) ==
  LET done == HandledAll(Context, requests)
  IN  /\ at = "poll"
      /\ host' = done.ctx.host
      /\ faults' = done.ctx.faults
      /\ answers' = done.sent
      /\ link' = Polled(link, requests # << >>, CycleMs)
      /\ at' = IF done.ctx.reset THEN "reset" ELSE "gather"
      /\ due' = due - 1
      /\ logged' = << >>
      /\ UNCHANGED <<door, power, lighting, horn, inputs, first_cycle, held,
                     long_fired, comms_lost, lamps, prev, pinVars, battery,
                     measured, power_seen>>

\* One turn of the sensor task; a failed conversion reads as 0.
SampleBattery(raw) ==
  /\ at = "gather" /\ due = 0
  /\ battery' = Filtered(battery, raw)
  /\ measured' = Permille(Filtered(battery, raw))
  /\ due' = SensorCycles
  /\ UNCHANGED <<vars, at, pinVars, link, power_seen, answers>>

\* main() from the start: RAM is initialised, init() sees the pins, and a
\* watchdog reset is stored as a fault.
Restarted(levels, byWatchdog) ==
  /\ door' = FreshDoor
  /\ power' = FreshPower
  /\ lighting' = FreshLighting
  /\ horn' = FreshHorn
  /\ faults' = IF byWatchdog THEN SetFault(EmptyStore, "WatchdogReset")
               ELSE EmptyStore
  /\ inputs' = QuietInputs
  /\ first_cycle' = TRUE
  /\ held' = 0
  /\ long_fired' = FALSE
  /\ comms_lost' = FALSE
  /\ host' = NoHost
  /\ lamps' = AllDark
  /\ prev' = NoHistory
  /\ logged' = << >>
  /\ at' = "gather"
  /\ buttons' = [pin \in Pins |-> FreshButton(pin \in levels)]
  /\ leds' = [id \in LampId |-> Steady(FALSE)]
  /\ link' = FreshLink
  /\ battery' = FreshFilter
  /\ measured' = 0
  /\ due' = 1
  /\ power_seen' = "Sleep"
  /\ answers' = << >>

\* reset_requested: the reply has been queued, the board starts again.
HostReset(levels) == at = "reset" /\ Restarted(levels, FALSE)

\* The watchdog may bite wherever the software stands.
WatchdogReset(levels) == Restarted(levels, TRUE)
=============================================================================
