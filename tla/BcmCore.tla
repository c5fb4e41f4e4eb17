------------------------------- MODULE BcmCore ------------------------------
(***************************************************************************)
(* The control cycle (services/bcm_core.cpp): one call of step() turns the *)
(* switch levels and analog values of this cycle, and what the diagnostic  *)
(* host has asked for since the last one, into lamp drives, horn output,   *)
(* trouble codes and log records, through the four managers.               *)
(*                                                                         *)
(* step() runs to completion in the control task, so it is one action; the *)
(* order of the managers' operations inside it is the order in which the   *)
(* operators below are applied. set_inputs() and set_comms_lost() are part *)
(* of it: their only caller supplies both immediately before every step,   *)
(* so the variable inputs, the levels of the last step, is previous_ too.  *)
(***************************************************************************)
EXTENDS DoorMgr, PowerMgr, LightingMgr, HornMgr, FaultMgr, LampArbiter

CONSTANTS
  LongPressMs,     \* Config::long_press_ms
  HeldRange,       \* 2^16, the range of ignition_held_ms_
  InputRecords,    \* the input levels considered, a set of Inputs records
  HostRequests,    \* the <<mask, drives>> pairs the host may ask for
  HostFlags,       \* the one-shot requests the host may make
  AppFaults        \* the codes the application itself stores

ASSUME CoreConfig ==
  /\ LongPressMs \in Nat \ {0}
  /\ HeldRange \in Nat
  /\ LongPressMs < HeldRange

Switches == { "ignition", "ind_left", "ind_right", "hazard", "brake",
              "door_lock", "reverse_gear", "door_open" }

Inputs ==
  [ ignition : BOOLEAN, ind_left : BOOLEAN, ind_right : BOOLEAN,
    hazard : BOOLEAN, brake : BOOLEAN, door_lock : BOOLEAN,
    reverse_gear : BOOLEAN, door_open : BOOLEAN,
    battery_permille : BatteryLevels, ambient_permille : AmbientLevels ]

ASSUME InputsAssumption ==
  /\ InputRecords \subseteq Inputs
  /\ HostRequests \subseteq (SUBSET LampId) \X LampState
  /\ HostFlags \subseteq {"lock", "unlock", "light_mode"}
  /\ AppFaults \subseteq {"WatchdogReset", "UartOverrun", "PostFailed"}

VARIABLES
  inputs,        \* inputs_ of the last step, which is also previous_
  first_cycle,   \* first_cycle_
  held,          \* ignition_held_ms_
  long_fired,    \* long_press_fired_
  comms_lost,    \* comms_lost_ of the last step
  host,          \* host_mask_, host_request_ and the three host_ flags
  lamps,         \* lamps_, what goes to the drivers
  prev,          \* prev_load_shed_, prev_comms_lost_ and prev_door_
  logged         \* the events the last operation appended to log_, in order

managers == <<door, power, lighting, horn, faults>>
coreVars == <<inputs, first_cycle, held, long_fired, comms_lost, host, lamps,
              prev, logged>>
vars     == <<managers, coreVars>>

\* A default-constructed Inputs.
QuietInputs ==
  [ ignition |-> FALSE, ind_left |-> FALSE, ind_right |-> FALSE,
    hazard |-> FALSE, brake |-> FALSE, door_lock |-> FALSE,
    reverse_gear |-> FALSE, door_open |-> FALSE,
    battery_permille |-> 0, ambient_permille |-> FullScale ]

NoHost ==
  [ mask |-> {}, drives |-> AllDark,
    lock |-> FALSE, unlock |-> FALSE, light_mode |-> FALSE ]

NoHistory == [ shed |-> FALSE, comms |-> FALSE, door |-> "Locked" ]

-----------------------------------------------------------------------------
(* apply_edges(), manager by manager *)

Rise(in, switch) == ~first_cycle /\ in[switch] /\ ~inputs[switch]

\* The press that ends in this step.
Release(in) == ~first_cycle /\ ~in["ignition"] /\ inputs["ignition"]

\* ignition_held_ms_ after this cycle's dt, in 16 bits.
HeldNow(in, dt) ==
  IF ~first_cycle /\ in["ignition"] THEN (held + dt) % HeldRange ELSE held

\* Fault: once long enough, the press steps the lights in every cycle.
LongPressRepeats(in, dt) ==
  ~first_cycle /\ in["ignition"] /\ HeldNow(in, dt) >= LongPressMs

\* The press has just lasted long enough to step the light switch.
LongPress(in, dt) ==
  ~first_cycle /\ in["ignition"] /\ ~long_fired /\ HeldNow(in, dt) >= LongPressMs

ShortPress(in) == Release(in) /\ ~long_fired
TurnsOff(in)   == ShortPress(in) /\ Running(power)
TurnsOn(in)    == ShortPress(in) /\ ~Running(power)

PowerEdges(in) ==
  CASE TurnsOff(in) -> IgnitionOff(power)
    [] TurnsOn(in)  -> IgnitionOn(power)
    [] OTHER        -> power

\* Applies an operation of a manager if its condition holds.
When(cond, changed, unchanged) == IF cond THEN changed ELSE unchanged

\* The host's light_mode request, left pending by a first cycle.
LightingEdges(in, dt) ==
  LET l1 == When(LongPress(in, dt), NextMode(lighting), lighting)
      l2 == When(TurnsOff(in), AllOff(l1), l1)
      l3 == When(Rise(in, "ind_left"), PressLeft(l2), l2)
      l4 == When(Rise(in, "ind_right"), PressRight(l3), l3)
      l5 == When(Rise(in, "hazard"), PressHazard(l4), l4)
  IN  When(~first_cycle /\ host.light_mode, NextMode(l5), l5)

\* Fault: the door contact of this cycle is taken over after the requests.
DoorEdgesStale(in) ==
  LET d1 == door
      d2 == When(Rise(in, "door_lock"),
                 IF d1.state = "Locked" THEN RequestUnlock(d1)
                 ELSE RequestLock(d1),
                 d1)
      d3 == When(host.lock, RequestLock(d2), d2)
      d4 == When(host.unlock, RequestUnlock(d3), d3)
  IN  When(first_cycle, door, SetDoorOpen(d4, in["door_open"]))

\* The lock button toggles; a host lock is served before a host unlock. The
\* first cycle returns before any of it.
DoorEdges(in) ==
  LET d1 == SetDoorOpen(door, in["door_open"])
      d2 == When(Rise(in, "door_lock"),
                 IF d1.state = "Locked" THEN RequestUnlock(d1)
                 ELSE RequestLock(d1),
                 d1)
      d3 == When(host.lock, RequestLock(d2), d2)
      d4 == When(host.unlock, RequestUnlock(d3), d3)
  IN  When(first_cycle, door, d4)

-----------------------------------------------------------------------------
(* The rest of step(). Below, p, l and d are the power, lighting and door   *)
(* managers as they are once the sensors and the time are in.               *)

LightingAfter(in, dt) == UpdateAmbient(LightingEdges(in, dt), in.ambient_permille)

PowerAfter(in, dt) ==
  UpdatePower(UpdateBattery(PowerEdges(in), in.battery_permille), dt)

DoorAfter(in, dt) == UpdateDoor(DoorEdges(in), dt)

\* The three one-shot flags are read and cleared.
FlagsTaken(d) == TakeChirpUnlock(TakeChirpLock(TakeLockRefused(d)))

\* With both chirps owed the second request replaces the first.
HornAfter(d, dt) ==
  LET h1 == When(d.chirp_lock, Chirp(horn, 1), horn)
      h2 == When(d.chirp_unlock, Chirp(h1, 2), h1)
  IN  UpdateHorn(h2, dt)

\* Fault: a code is set or cleared only when its condition changes.
FaultsAfterOnChange(p, d, lost) ==
  LET f1 == When(d.lock_refused,
                 SetFault(faults, "LockRefusedDoorOpen"), faults)
      f2 == When(p.load_shed # prev.shed,
                 Mirror(f1, "BatteryLow", p.load_shed), f1)
  IN  When(lost # prev.comms, Mirror(f2, "CommsLost", lost), f2)

FaultsAfter(p, d, lost) ==
  LET refused == When(d.lock_refused,
                      SetFault(faults, "LockRefusedDoorOpen"), faults)
  IN  Mirror(Mirror(refused, "BatteryLow", p.load_shed), "CommsLost", lost)

\* What each manager wants lit. No two managers want a lamp differently.
Wanted(p, l, d) ==
  LET lit == PowerLamps(p) \cup SteadyLamps(l)
               \cup (IF d.state = "Locked" THEN {"DoorLock"} ELSE {})
               \cup (IF d.state = "Welcome" THEN {"Drl"} ELSE {})
  IN  SetLamps(SetLamps(AllDark, lit, "On"), FlashingLamps(l), "Blink")

\* The host's requests are merged before arbitration.
Merged(wanted) ==
  [id \in LampId |-> IF id \in host.mask THEN host.drives[id] ELSE wanted[id]]

Conditions(in, lost, p) ==
  [ brake_pressed   |-> in["brake"],
    reverse_gear    |-> in["reverse_gear"],
    lamps_permitted |-> LampsPermitted(p),
    load_shed       |-> p.load_shed,
    comms_lost      |-> lost ]

\* What prev_load_shed_, prev_comms_lost_ and prev_door_ become.
Seen(p, d, lost) ==
  [ shed |-> p.load_shed, comms |-> lost, door |-> d.state ]

-----------------------------------------------------------------------------
(* The log records of one step, in the order in which they are appended *)

Record(cond, event) == IF cond THEN <<event>> ELSE << >>

EdgeEvents(in, dt, l) ==
  Record(LongPress(in, dt), "LightMode")
    \o Record(TurnsOff(in), "IgnitionOff")
    \o Record(TurnsOn(in), "IgnitionOn")
    \o Record(Rise(in, "ind_left"), "IndicatorLeft")
    \o Record(Rise(in, "ind_right"), "IndicatorRight")
    \o Record(Rise(in, "hazard"),
              IF l.indicator = "Hazard" THEN "HazardOn" ELSE "HazardOff")
    \o Record(~first_cycle /\ in["brake"] # inputs["brake"],
              IF in["brake"] THEN "BrakeApplied" ELSE "BrakeReleased")

\* Fault: Welcome is taken for a locked state.
StateEventsWelcome(refused, now) ==
  Record(refused, "LockRefused")
    \o Record(now.shed # prev.shed,
              IF now.shed THEN "BatteryLow" ELSE "BatteryOk")
    \o Record(now.comms # prev.comms,
              IF now.comms THEN "CommsLost" ELSE "CommsRestored")
    \o Record(now.door # prev.door,
              IF now.door = "Unlocked" THEN "DoorUnlocked" ELSE "DoorLocked")

StateEvents(refused, now) ==
  Record(refused, "LockRefused")
    \o Record(now.shed # prev.shed,
              IF now.shed THEN "BatteryLow" ELSE "BatteryOk")
    \o Record(now.comms # prev.comms,
              IF now.comms THEN "CommsLost" ELSE "CommsRestored")
    \o Record(now.door # prev.door,
              IF now.door = "Locked" THEN "DoorLocked" ELSE "DoorUnlocked")

-----------------------------------------------------------------------------
(* Behaviour *)

Init ==
  /\ DoorInit
  /\ PowerInit
  /\ LightingInit
  /\ horn = FreshHorn
  /\ faults = EmptyStore
  /\ inputs = QuietInputs
  /\ first_cycle = TRUE
  /\ held = 0
  /\ long_fired = FALSE
  /\ comms_lost = FALSE
  /\ host = NoHost
  /\ lamps = AllDark
  /\ prev = NoHistory
  /\ logged = << >>

\* set_inputs, set_comms_lost and step.
Step(in, lost, dt) ==
  LET p == PowerAfter(in, dt)
      l == LightingAfter(in, dt)
      d == DoorAfter(in, dt)
  IN  /\ inputs' = in
      /\ comms_lost' = lost
      /\ first_cycle' = FALSE
      /\ held' = IF Release(in) THEN 0 ELSE HeldNow(in, dt)
      /\ long_fired' = (~Release(in) /\ (long_fired \/ LongPress(in, dt)))
      /\ power' = p
      /\ lighting' = l
      /\ door' = FlagsTaken(d)
      /\ horn' = HornAfter(d, dt)
      /\ faults' = FaultsAfter(p, d, lost)
      /\ lamps' = Arbitrate(Merged(Wanted(p, l, d)), Conditions(in, lost, p))
      /\ prev' = Seen(p, d, lost)
      /\ logged' = EdgeEvents(in, dt, l)
                      \o StateEvents(d.lock_refused, Seen(p, d, lost))
      /\ host' = IF first_cycle THEN host
                 ELSE [host EXCEPT !.lock = FALSE, !.unlock = FALSE,
                                   !.light_mode = FALSE]

\* One cycle of the control task, whatever the sensors say.
Cycle ==
  \E in \in InputRecords, lost \in BOOLEAN, dt \in Dt : Step(in, lost, dt)

Request(newHost) ==
  /\ host' = newHost
  /\ logged' = << >>
  /\ UNCHANGED <<managers, inputs, first_cycle, held, long_fired, comms_lost,
                 lamps, prev>>

SetHostRequest ==
  \E r \in HostRequests :
    Request([host EXCEPT !.mask = r[1], !.drives = r[2]])

\* The host's one-shot requests wait for the next cycle that serves them.
RequestDoorLock ==
  "lock" \in HostFlags /\ Request([host EXCEPT !.lock = TRUE])

RequestDoorUnlock ==
  "unlock" \in HostFlags /\ Request([host EXCEPT !.unlock = TRUE])

RequestLightMode ==
  "light_mode" \in HostFlags /\ Request([host EXCEPT !.light_mode = TRUE])

\* faults() in the hands of the application: POST, the watchdog flag and the
\* receive overrun store a code, CLEAR_DTC wipes the store.
UseFaults(store) ==
  /\ faults' = store
  /\ logged' = << >>
  /\ UNCHANGED <<door, power, lighting, horn, inputs, first_cycle, held,
                 long_fired, comms_lost, host, lamps, prev>>

ReportFault == \E code \in AppFaults : UseFaults(SetFault(faults, code))
ClearDtc    == UseFaults(EmptyStore)

\* reset() keeps the host's drives, but not its mask.
Reset ==
  /\ door' = FreshDoor
  /\ power' = ResetPower(power)
  /\ lighting' = ResetLighting(lighting)
  /\ horn' = FreshHorn
  /\ faults' = EmptyStore
  /\ inputs' = QuietInputs
  /\ first_cycle' = TRUE
  /\ held' = 0
  /\ long_fired' = FALSE
  /\ comms_lost' = FALSE
  /\ host' = [NoHost EXCEPT !.drives = host.drives]
  /\ lamps' = AllDark
  /\ prev' = NoHistory
  /\ logged' = << >>

Next ==
  \/ Cycle
  \/ SetHostRequest
  \/ RequestDoorLock
  \/ RequestDoorUnlock
  \/ RequestLightMode
  \/ ReportFault
  \/ ClearDtc
  \/ Reset

Spec == Init /\ [][Next]_vars

-----------------------------------------------------------------------------
(* Properties *)

Event ==
  { "LightMode", "IgnitionOff", "IgnitionOn", "IndicatorLeft",
    "IndicatorRight", "HazardOn", "HazardOff", "BrakeApplied",
    "BrakeReleased", "LockRefused", "BatteryLow", "BatteryOk", "CommsLost",
    "CommsRestored", "DoorLocked", "DoorUnlocked" }

HostRecord ==
  [ mask : SUBSET LampId, drives : LampState,
    lock : BOOLEAN, unlock : BOOLEAN, light_mode : BOOLEAN ]

HistoryRecord == [ shed : BOOLEAN, comms : BOOLEAN, door : DoorState ]

\* The type of everything the core keeps. A step never returns with one of
\* the door manager's one-shot flags set.
CoreTypeOK ==
  /\ DoorTypeOK
  /\ ~door.lock_refused /\ ~door.chirp_lock /\ ~door.chirp_unlock
  /\ PowerTypeOK
  /\ LightingTypeOK
  /\ horn \in HornRecord
  /\ faults \in Seq(DtcEntry)
  /\ inputs \in InputRecords \cup {QuietInputs}
  /\ first_cycle \in BOOLEAN
  /\ held \in Nat
  /\ long_fired \in BOOLEAN
  /\ comms_lost \in BOOLEAN
  /\ host \in HostRecord
  /\ lamps \in LampState
  /\ prev \in HistoryRecord
  /\ logged \in Seq(Event)

\* The managers' own invariants survive the order in which one cycle calls
\* them: no cycle leaves a machine without the timer that ends its state, a
\* lamp without an owner, or a chirp sequence that nothing continues.
ManagersConsistent ==
  /\ TimersMatch(door)
  /\ PowerTimersArmed(power)
  /\ Ownership(lighting)
  /\ HazardLatch(lighting)
  /\ ChirpsAdvance(horn)

\* Nothing that a rule forbids is lit when a cycle ends, whatever the
\* managers wanted and the host asked for, and the brake lamp follows the
\* pedal of that same cycle, in every power state, shedding or not.
LampsObeyRules ==
  ~first_cycle =>
    LET arb == Conditions(inputs, comms_lost, power)
    IN  /\ Lit(lamps) \subseteq Allowed(arb)
        /\ inputs["brake"] => lamps["Brake"] = "On"

\* SRS-DOOR-002: the car becomes locked, by button, host or timer, only in a
\* cycle that saw every door closed.
LocksOnlyClosed ==
  [][ door.state # "Locked" /\ door'.state = "Locked"
        => Reset \/ ~inputs'.door_open ]_vars

\* No lock request is forgotten: what the host asked for, and did not take back
\* in the same cycle, ends with the car locked, or with a door open and a
\* refusal that is both logged and stored as a trouble code, unless the board
\* starts again. The reply to the request says nothing of it: DOOR_LOCK was
\* answered OK a cycle before, in either case (see RefusalIsAnswered).
HostLockServed ==
  [][ host.lock /\ ~host'.lock /\ ~host.unlock
        => \/ first_cycle'
           \/ door'.state = "Locked"
           \/ /\ inputs'.door_open
              /\ "LockRefused" \in {logged'[i] : i \in DOMAIN logged'}
              /\ IsActive(faults', "LockRefusedDoorOpen") ]_vars

\* SRS-LIGHT-002, "High Beam shall be permitted only when Low Beam is active",
\* which SRS-SAFETY-002 wants "regardless of command source". The code
\* guarantees less: no rule of the arbiter relates the two lamps.
HighBeamOnlyWithLowBeam == lamps["HighBeam"] # "Off" => lamps["LowBeam"] # "Off"

\* What the code does guarantee: unless the host drives one of the two lamps,
\* a cycle lights the high beam only together with the low beam, in every
\* power state and while shedding.
HighBeamUnlessHost ==
  [][ host.mask \cap {"HighBeam", "LowBeam"} = {} /\ lamps'["HighBeam"] # "Off"
        => lamps'["LowBeam"] # "Off" \/ lamps' = lamps ]_vars

=============================================================================
