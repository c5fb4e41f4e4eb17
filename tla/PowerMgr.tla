------------------------------ MODULE PowerMgr ------------------------------
(***************************************************************************)
(* The power manager (services/power_mgr.cpp): the Sleep, Wake, Run and    *)
(* Shutdown machine, its transition and inactivity timers, and the battery *)
(* supervision that decides to shed load.                                  *)
(***************************************************************************)
EXTENDS BcmTypes

CONSTANTS
  WakeMs,         \* kWakeMs
  ShutdownMs,     \* kShutdownMs
  SleepAfter,     \* Config::sleep_after_ms
  BatteryLow,     \* Config::battery_low_permille
  BatteryOk,      \* Config::battery_ok_permille
  BatteryLevels   \* the battery readings considered

ASSUME PowerConfig ==
  /\ WakeMs \in Nat \ {0}
  /\ ShutdownMs \in Nat \ {0}
  /\ SleepAfter \in Nat \ {0}
  /\ BatteryLow \in Nat
  /\ BatteryOk \in Nat
  /\ BatteryLow < BatteryOk
  /\ BatteryLevels \subseteq Nat

VARIABLE power

PowerState == {"Sleep", "Wake", "Run", "Shutdown"}

FreshPower ==
  [ state         |-> "Sleep",
    load_shed     |-> FALSE,
    battery_ok    |-> TRUE,
    battery_known |-> FALSE,
    transition    |-> 0,
    inactivity    |-> 0 ]

-----------------------------------------------------------------------------
(* Operations. "Fault:" introduces a variant, not part of the model, of the *)
(* definition that follows it; see DoorMgr.                                 *)

\* Fault: waking up is not timed.
IgnitionOnUntimed(p) ==
  CASE p.state = "Sleep" -> [p EXCEPT !.state = "Wake"]
    [] p.state = "Shutdown" ->
         [p EXCEPT !.state = "Run", !.inactivity = SleepAfter]
    [] p.state \in {"Wake", "Run"} -> p

\* From Shutdown the driver wins and the machine is back in Run; the
\* transition timer of the shutdown is left running.
IgnitionOn(p) ==
  CASE p.state = "Sleep" ->
         [p EXCEPT !.state = "Wake", !.transition = WakeMs]
    [] p.state = "Shutdown" ->
         [p EXCEPT !.state = "Run", !.inactivity = SleepAfter]
    [] p.state \in {"Wake", "Run"} -> p

\* Fault: a timer that still runs is not started afresh.
IgnitionOffKeepsTimer(p) ==
  IF p.state \in {"Run", "Wake"}
  THEN [p EXCEPT !.state = "Shutdown", !.inactivity = 0,
                 !.transition = IF @ > 0 THEN @ ELSE ShutdownMs]
  ELSE p

IgnitionOff(p) ==
  IF p.state \in {"Run", "Wake"}
  THEN [p EXCEPT !.state = "Shutdown", !.transition = ShutdownMs,
                 !.inactivity = 0]
  ELSE p

\* Fault: the first reading decides like any other.
UpdateBatteryAtOnce(p, level) ==
  LET ok == Schmitt(p.battery_ok, BatteryLow, BatteryOk, level)
  IN  [p EXCEPT !.battery_ok = ok, !.battery_known = TRUE, !.load_shed = ~ok]

\* The trigger sees every reading; the first one after a start does not yet
\* decide about shedding.
UpdateBattery(p, level) ==
  LET ok == Schmitt(p.battery_ok, BatteryLow, BatteryOk, level)
  IN  [p EXCEPT !.battery_ok = ok,
                !.battery_known = TRUE,
                !.load_shed = IF p.battery_known THEN ~ok ELSE @]

\* First half of update(): the end of Wake or of Shutdown. A timer left
\* running in Run by an aborted shutdown expires without effect.
TransitionTick(p, dt) ==
  IF Expires(p.transition, dt)
  THEN CASE p.state = "Wake" ->
              [p EXCEPT !.state = "Run", !.transition = 0,
                        !.inactivity = SleepAfter]
         [] p.state = "Shutdown" ->
              [p EXCEPT !.state = "Sleep", !.transition = 0]
         [] p.state \in {"Sleep", "Run"} -> [p EXCEPT !.transition = 0]
  ELSE [p EXCEPT !.transition = Elapse(@, dt)]

\* Second half: inactivity, charged the same dt.
InactivityTick(p, dt) ==
  IF Expires(p.inactivity, dt)
  THEN IF p.state = "Run"
       THEN [p EXCEPT !.state = "Shutdown", !.transition = ShutdownMs,
                      !.inactivity = 0]
       ELSE [p EXCEPT !.inactivity = 0]
  ELSE [p EXCEPT !.inactivity = Elapse(@, dt)]

UpdatePower(p, dt) == InactivityTick(TransitionTick(p, dt), dt)

\* reset() leaves the battery trigger where it was.
ResetPower(p) == [FreshPower EXCEPT !.battery_ok = p.battery_ok]

Running(p)        == p.state = "Run"
LampsPermitted(p) == p.state # "Sleep"

PowerLamps(p) == IF p.state \in {"Run", "Wake"} THEN {"Ignition"} ELSE {}

-----------------------------------------------------------------------------
(* The class on its own, called in any order *)

PowerInit == power = FreshPower

SwitchOn  == power' = IgnitionOn(power)
SwitchOff == power' = IgnitionOff(power)
ReadBattery(level) == power' = UpdateBattery(power, level)
Wait(dt)  == power' = UpdatePower(power, dt)
Restart   == power' = ResetPower(power)

PowerNext ==
  \/ SwitchOn
  \/ SwitchOff
  \/ \E level \in BatteryLevels : ReadBattery(level)
  \/ \E dt \in Dt : Wait(dt)
  \/ Restart

PowerSpec == PowerInit /\ [][PowerNext]_power

-----------------------------------------------------------------------------
(* Properties *)

PowerRecord ==
  [ state         : PowerState,
    load_shed     : BOOLEAN,
    battery_ok    : BOOLEAN,
    battery_known : BOOLEAN,
    transition    : Nat,
    inactivity    : 0 .. SleepAfter ]

\* The type of the manager's state; transition_ may hold either of the two
\* delays, whatever the machine does next.
PowerTypeOK ==
  /\ power \in PowerRecord
  /\ power.transition <= WakeMs \/ power.transition <= ShutdownMs

\* The timer that ends each state that must end is running, and in Sleep
\* nothing runs that could disturb the next wake-up.
PowerTimersArmed(p) ==
  /\ p.state \in {"Wake", "Shutdown"} => p.transition > 0
  /\ p.state = "Sleep" => p.transition = 0
  /\ p.inactivity > 0 <=> p.state = "Run"

\* No sequence of ignition presses, expiries, aborted shutdowns and resets
\* leaves a state without the timer that ends it.
PowerTimers == PowerTimersArmed(power)
=============================================================================
