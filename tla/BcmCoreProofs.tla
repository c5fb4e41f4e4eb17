---------------------------- MODULE BcmCoreProofs ---------------------------
(***************************************************************************)
(* Proofs about the control cycle, for every configuration, every set of   *)
(* inputs and every request of the host: the managers' invariants survive  *)
(* the order in which a cycle calls them, the lamps obey the rules of the  *)
(* arbiter, and the car is locked only on closed doors. What a cycle does  *)
(* to a manager follows from the lemmas about that manager. The second     *)
(* part is about those who watch the core: a press of the ignition button  *)
(* takes effect once, the records alone tell the state, the trouble codes  *)
(* are those of the conditions, and the host gets its answer.              *)
(***************************************************************************)
EXTENDS CoreHistory, ManagerProofs, FiniteSetTheorems

-----------------------------------------------------------------------------
(* The arbiter *)

\* What SetLamps does to one lamp.
LEMMA SetLampsAt ==
  ASSUME NEW ls, NEW ids, NEW drive, NEW id \in LampId
  PROVE  SetLamps(ls, ids, drive)[id] = IF id \in ids THEN drive ELSE ls[id]
BY DEF SetLamps

\* The rules, applied one after another, amount to the set of lamps that
\* Allowed names: those outside are dark, those inside as wanted, and the
\* brake lamp follows the pedal.
THEOREM ArbiterObeysRules ==
  ASSUME NEW wanted, NEW arb \in ArbiterInputs
  PROVE  ObeysRules(Arbitrate(wanted, arb), wanted, arb)
<1> DEFINE s == SleepRule(wanted, arb)
           c == CommsRule(s, arb)
           h == ShedRule(c, arb)
           r == ReverseRule(h, arb)
           out == BrakeRule(r, arb)
<1>1. /\ arb.brake_pressed \in BOOLEAN /\ arb.reverse_gear \in BOOLEAN
      /\ arb.lamps_permitted \in BOOLEAN /\ arb.load_shed \in BOOLEAN
      /\ arb.comms_lost \in BOOLEAN
  BY DEF ArbiterInputs
<1> SUFFICES ASSUME NEW id \in LampId
             PROVE  /\ id \notin Allowed(arb) => out[id] = "Off"
                    /\ id = "Brake" /\ arb.brake_pressed => out[id] = "On"
                    /\ id \in Allowed(arb) \ {"Brake"} => out[id] = wanted[id]
  BY DEF ObeysRules, Arbitrate, Lit, Allowed, LampId
<1>2. s[id] = IF ~arb.lamps_permitted /\ id # "DoorLock" THEN "Off"
              ELSE wanted[id]
  BY <1>1, SetLampsAt DEF SleepRule
<1> HIDE DEF s
<1>3. c[id] = IF arb.comms_lost /\ id \in {"HighBeam", "Reverse"} THEN "Off"
              ELSE s[id]
  BY <1>1, SetLampsAt DEF CommsRule
<1> HIDE DEF c
<1>4. h[id] = IF arb.load_shed /\ id \notin Essential THEN "Off" ELSE c[id]
  BY <1>1, SetLampsAt DEF ShedRule
<1> HIDE DEF h
<1>5. r[id] = IF ~arb.reverse_gear /\ id = "Reverse" THEN "Off" ELSE h[id]
  BY <1>1, SetLampsAt DEF ReverseRule
<1> HIDE DEF r
<1>6. out[id] = IF id = "Brake"
                THEN IF arb.brake_pressed THEN "On" ELSE "Off"
                ELSE r[id]
  BY <1>1, SetLampsAt DEF BrakeRule
<1> HIDE DEF out
<1>7. CASE id = "Brake"
  BY <1>1, <1>6, <1>7 DEF Allowed, Essential
<1>8. CASE id # "Brake"
  BY <1>1, <1>2, <1>3, <1>4, <1>5, <1>6, <1>8 DEF Allowed, Essential
<1> QED
  BY <1>7, <1>8

\* Setting lamps to a drive leaves a lamp state.
LEMMA SetLampsTyped ==
  ASSUME NEW ls \in LampState, NEW ids, NEW drive \in LampDrive
  PROVE  SetLamps(ls, ids, drive) \in LampState
BY DEF SetLamps, LampState

\* So does the arbiter as a whole.
LEMMA ArbitrateTyped ==
  ASSUME NEW wanted \in LampState, NEW arb
  PROVE  Arbitrate(wanted, arb) \in LampState
<1> DEFINE s == SleepRule(wanted, arb)
           c == CommsRule(s, arb)
           h == ShedRule(c, arb)
           r == ReverseRule(h, arb)
<1>1. "Off" \in LampDrive /\ "On" \in LampDrive
  BY DEF LampDrive
<1>2. s \in LampState
  BY <1>1, SetLampsTyped DEF SleepRule
<1> HIDE DEF s
<1>3. c \in LampState
  BY <1>1, <1>2, SetLampsTyped DEF CommsRule
<1> HIDE DEF c
<1>4. h \in LampState
  BY <1>1, <1>3, SetLampsTyped DEF ShedRule
<1> HIDE DEF h
<1>5. r \in LampState
  BY <1>1, <1>4, SetLampsTyped DEF ReverseRule
<1> HIDE DEF r
<1>6. BrakeRule(r, arb) \in LampState
  BY <1>1, <1>5, SetLampsTyped DEF BrakeRule
<1> QED
  BY <1>6 DEF Arbitrate, s, c, h, r

\* lamp_arbiter.h calls the arbitration idempotent: applied to its own
\* result under the same conditions, it changes nothing.
THEOREM ArbiterIdempotent ==
  ASSUME NEW wanted \in LampState, NEW arb \in ArbiterInputs
  PROVE  Arbitrate(Arbitrate(wanted, arb), arb) = Arbitrate(wanted, arb)
<1> DEFINE once == Arbitrate(wanted, arb)
           twice == Arbitrate(once, arb)
<1>1. once \in LampState
  BY ArbitrateTyped
<1>2. ObeysRules(once, wanted, arb)
  BY ArbiterObeysRules
<1> HIDE DEF once
<1>3. twice \in LampState /\ ObeysRules(twice, once, arb)
  BY <1>1, ArbitrateTyped, ArbiterObeysRules
<1> HIDE DEF twice
<1>4. ASSUME NEW id \in LampId PROVE twice[id] = once[id]
  <2>1. CASE id \in Allowed(arb) \ {"Brake"}
    BY <1>3, <2>1 DEF ObeysRules
  <2>2. CASE id \notin Allowed(arb)
    BY <1>2, <1>3, <2>2 DEF ObeysRules, Lit
  <2>3. CASE id = "Brake" /\ id \in Allowed(arb)
    BY <1>2, <1>3, <2>3 DEF ObeysRules, Allowed
  <2> QED
    BY <2>1, <2>2, <2>3
<1>5. twice = once
  BY <1>1, <1>3, <1>4 DEF LampState
<1> QED
  BY <1>5 DEF twice, once

-----------------------------------------------------------------------------
(* The horn *)

\* A horn state in which the type and the invariant hold.
SoundHorn(h) == h \in HornRecord /\ ChirpsAdvance(h)

\* The horn as it is constructed.
LEMMA FreshHornSound == SoundHorn(FreshHorn)
BY HornConfig DEF SoundHorn, FreshHorn, HornRecord, ChirpsAdvance

\* A request for chirps starts the timer that continues them.
LEMMA ChirpSound ==
  ASSUME NEW h, SoundHorn(h), NEW count \in Nat
  PROVE  SoundHorn(Chirp(h, count))
<1>1. CASE count = 0
  BY <1>1 DEF Chirp
<1>2. CASE count # 0
  <2>1. Chirp(h, count) = [h EXCEPT !.chirps_left = count, !.chirp_on = TRUE,
                                    !.timer = ChirpMs]
    BY <1>2 DEF Chirp
  <2>2. ChirpMs \in Nat /\ ChirpMs > 0
    BY HornConfig
  <2>3. Chirp(h, count) \in HornRecord
    BY <2>1, <2>2 DEF SoundHorn, HornRecord
  <2>4. ChirpsAdvance(Chirp(h, count))
    BY <2>1, <2>2 DEF SoundHorn, HornRecord, ChirpsAdvance
  <2> QED
    BY <2>3, <2>4 DEF SoundHorn
<1> QED
  BY <1>1, <1>2

\* A pass of the chirp sequence always leaves a timer for the next.
LEMMA ChirpTickSound ==
  ASSUME NEW h, SoundHorn(h), h.chirps_left > 0, NEW dt \in Nat
  PROVE  SoundHorn(ChirpTick(h, dt))
<1> DEFINE next ==
      CASE ~Expires(h.timer, dt) -> [h EXCEPT !.timer = Elapse(@, dt)]
        [] Expires(h.timer, dt) /\ h.chirp_on ->
             [h EXCEPT !.chirp_on = FALSE, !.timer = ChirpGapMs,
                       !.chirps_left = @ - 1]
        [] Expires(h.timer, dt) /\ ~h.chirp_on ->
             [h EXCEPT !.chirp_on = TRUE, !.timer = ChirpMs]
           out == next.chirps_left > 0 /\ next.chirp_on
<1>1. /\ h \in HornRecord /\ h.timer \in Nat /\ h.timer > 0
      /\ h.chirps_left \in Nat /\ h.chirp_on \in BOOLEAN
  BY DEF SoundHorn, HornRecord, ChirpsAdvance
<1>2. next \in HornRecord /\ next.timer > 0
  <2>1. CASE ~Expires(h.timer, dt)
    <3>1. Elapse(h.timer, dt) \in Nat /\ Elapse(h.timer, dt) > 0
      BY <1>1, <2>1 DEF Expires, Elapse
    <3>2. next = [h EXCEPT !.timer = Elapse(h.timer, dt)]
      BY <2>1
    <3> HIDE DEF next
    <3> QED
      BY <1>1, <3>1, <3>2 DEF HornRecord
  <2>2. CASE Expires(h.timer, dt) /\ h.chirp_on
    <3>1. ChirpGapMs \in Nat /\ ChirpGapMs > 0 /\ h.chirps_left - 1 \in Nat
      BY <1>1, HornConfig
    <3>2. next = [h EXCEPT !.chirp_on = FALSE, !.timer = ChirpGapMs,
                           !.chirps_left = h.chirps_left - 1]
      BY <2>2
    <3> HIDE DEF next
    <3> QED
      BY <1>1, <3>1, <3>2 DEF HornRecord
  <2>3. CASE Expires(h.timer, dt) /\ ~h.chirp_on
    <3>1. ChirpMs \in Nat /\ ChirpMs > 0
      BY HornConfig
    <3>2. next = [h EXCEPT !.chirp_on = TRUE, !.timer = ChirpMs]
      BY <2>3
    <3> HIDE DEF next
    <3> QED
      BY <1>1, <3>1, <3>2 DEF HornRecord
  <2> QED
    BY <1>1, <2>1, <2>2, <2>3
<1>3. ChirpTick(h, dt) = [next EXCEPT !.output = out]
  BY DEF ChirpTick
<1>4. out \in BOOLEAN /\ (out => next.chirp_on)
  BY <1>2 DEF HornRecord
<1> HIDE DEF next, out
<1> QED
  BY <1>2, <1>3, <1>4 DEF SoundHorn, HornRecord, ChirpsAdvance

\* The time held on stays within the limit that it is compared with.
LEMMA HoldTickSound ==
  ASSUME NEW h, SoundHorn(h), ~(h.chirps_left > 0), NEW dt \in Nat
  PROVE  SoundHorn(HoldTick(h, dt))
<1> DEFINE spent == IF h.on_time + dt > HornMaxOn THEN HornMaxOn
                    ELSE h.on_time + dt
           full == spent < HornMaxOn
<1>1. h \in HornRecord
  BY DEF SoundHorn
<1>2. spent \in 0 .. HornMaxOn /\ full \in BOOLEAN
  BY <1>1, HornConfig DEF HornRecord
<1>3. HoldTick(h, dt) = IF h.continuous
                        THEN [h EXCEPT !.on_time = spent, !.output = full]
                        ELSE [h EXCEPT !.output = FALSE]
  BY DEF HoldTick
<1> HIDE DEF spent, full
<1>4. HoldTick(h, dt) \in HornRecord
  BY <1>1, <1>2, <1>3 DEF HornRecord
<1>5. HoldTick(h, dt).chirps_left = h.chirps_left
  BY <1>1, <1>3 DEF HornRecord
<1> QED
  BY <1>4, <1>5 DEF SoundHorn, ChirpsAdvance

\* update() as a whole.
LEMMA UpdateHornSound ==
  ASSUME NEW h, SoundHorn(h), NEW dt \in Nat
  PROVE  SoundHorn(UpdateHorn(h, dt))
BY ChirpTickSound, HoldTickSound DEF UpdateHorn

-----------------------------------------------------------------------------
(* One cycle, manager by manager *)

\* What a cycle may read, whoever has read it: levels and analog values.
Readable ==
  [ ignition : BOOLEAN, ind_left : BOOLEAN, ind_right : BOOLEAN,
    hazard : BOOLEAN, brake : BOOLEAN, door_lock : BOOLEAN,
    reverse_gear : BOOLEAN, door_open : BOOLEAN,
    battery_permille : Nat, ambient_permille : Nat ]

LEMMA InputsReadable == InputRecords \subseteq Readable
BY InputsAssumption, PowerConfig, LightingConfig DEF Inputs, Readable

\* The levels that a cycle reads are Booleans.
LEMMA InputLevels ==
  ASSUME NEW in \in Readable
  PROVE  /\ in["brake"] \in BOOLEAN
         /\ in["reverse_gear"] \in BOOLEAN
         /\ in["door_open"] \in BOOLEAN
BY DEF Readable

\* The requests that reach the door manager in a cycle leave it sound.
LEMMA DoorEdgesSound ==
  ASSUME SoundDoor(door), NEW in \in Readable
  PROVE  SoundDoor(DoorEdges(in))
<1> DEFINE d1 == SetDoorOpen(door, in["door_open"])
           d2 == When(Rise(in, "door_lock"),
                      IF d1.state = "Locked" THEN RequestUnlock(d1)
                      ELSE RequestLock(d1),
                      d1)
           d3 == When(host.lock, RequestLock(d2), d2)
           d4 == When(host.unlock, RequestUnlock(d3), d3)
<1>1. SoundDoor(d1)
  BY InputLevels, SetDoorOpenSound
<1>2. DoorEdges(in) = IF first_cycle THEN door ELSE d4
  BY DEF DoorEdges, When
<1> HIDE DEF d1
<1>3. SoundDoor(d2)
  BY <1>1, RequestLockSound, RequestUnlockSound DEF When
<1> HIDE DEF d2
<1>4. SoundDoor(d3)
  BY <1>3, RequestLockSound DEF When
<1> HIDE DEF d3
<1>5. SoundDoor(d4)
  BY <1>4, RequestUnlockSound DEF When
<1> HIDE DEF d4
<1> QED
  BY <1>2, <1>5

\* So does the cycle as a whole, which also reads the one-shot flags.
LEMMA DoorCycleSound ==
  ASSUME SoundDoor(door), NEW in \in Readable, NEW dt \in Nat
  PROVE  SoundDoor(DoorAfter(in, dt)) /\ SoundDoor(FlagsTaken(DoorAfter(in, dt)))
<1>1. SoundDoor(DoorAfter(in, dt))
  BY DoorEdgesSound, UpdateDoorSound DEF DoorAfter
<1> QED
  BY <1>1, TakeSound DEF FlagsTaken

\* The power manager's part of a cycle.
LEMMA PowerCycleSound ==
  ASSUME SoundPower(power), NEW in, NEW dt \in Nat
  PROVE  SoundPower(PowerAfter(in, dt))
<1>1. SoundPower(PowerEdges(in))
  BY IgnitionOnSound, IgnitionOffSound DEF PowerEdges
<1>2. SoundPower(UpdateBattery(PowerEdges(in), in.battery_permille))
  BY <1>1, UpdateBatterySound
<1> QED
  BY <1>2, UpdatePowerSound DEF PowerAfter

\* The lighting manager's part of a cycle.
LEMMA LightingCycleSound ==
  ASSUME SoundLighting(lighting), NEW in, NEW dt
  PROVE  SoundLighting(LightingAfter(in, dt))
<1> DEFINE l1 == When(LongPress(in, dt), NextMode(lighting), lighting)
           l2 == When(TurnsOff(in), AllOff(l1), l1)
           l3 == When(Rise(in, "ind_left"), PressLeft(l2), l2)
           l4 == When(Rise(in, "ind_right"), PressRight(l3), l3)
           l5 == When(Rise(in, "hazard"), PressHazard(l4), l4)
           l6 == When(~first_cycle /\ host.light_mode, NextMode(l5), l5)
<1>1. LightingEdges(in, dt) = l6
  BY DEF LightingEdges
<1>2. SoundLighting(l1)
  BY NextModeSound DEF When
<1> HIDE DEF l1
<1>3. SoundLighting(l2)
  BY <1>2, AllOffSound DEF When
<1> HIDE DEF l2
<1>4. SoundLighting(l3)
  BY <1>3, PressIndicatorSound DEF When
<1> HIDE DEF l3
<1>5. SoundLighting(l4)
  BY <1>4, PressIndicatorSound DEF When
<1> HIDE DEF l4
<1>6. SoundLighting(l5)
  BY <1>5, PressHazardSound DEF When
<1> HIDE DEF l5
<1>7. SoundLighting(l6)
  BY <1>6, NextModeSound DEF When
<1> HIDE DEF l6
<1> QED
  BY <1>1, <1>7, UpdateAmbientSound DEF LightingAfter

\* The horn's part of a cycle, with one chirp, the other, both or none.
LEMMA HornCycleSound ==
  ASSUME SoundHorn(horn), NEW d, NEW dt \in Nat
  PROVE  SoundHorn(HornAfter(d, dt))
<1> DEFINE h1 == When(d.chirp_lock, Chirp(horn, 1), horn)
           h2 == When(d.chirp_unlock, Chirp(h1, 2), h1)
<1>1. SoundHorn(h1)
  BY ChirpSound DEF When
<1> HIDE DEF h1
<1>2. SoundHorn(h2)
  BY <1>1, ChirpSound DEF When
<1> HIDE DEF h2
<1>3. HornAfter(d, dt) = UpdateHorn(h2, dt)
  BY DEF HornAfter, h1, h2
<1> QED
  BY <1>2, <1>3, UpdateHornSound

\* What a cycle hands to the arbiter is what the arbiter expects.
LEMMA ConditionsTyped ==
  ASSUME NEW in \in Readable, NEW lost \in BOOLEAN, NEW p, SoundPower(p)
  PROVE  Conditions(in, lost, p) \in ArbiterInputs
<1>1. p.load_shed \in BOOLEAN
  BY DEF SoundPower, PowerTyped, PowerRecord
<1> QED
  BY <1>1, InputLevels DEF Conditions, ArbiterInputs, LampsPermitted

-----------------------------------------------------------------------------
(* The invariant of the control cycle *)

\* The managers are sound, and until the first cycle the car is locked: that
\* cycle does not look at the doors yet.
ManagersSound ==
  /\ SoundDoor(door)
  /\ SoundPower(power)
  /\ SoundLighting(lighting)
  /\ SoundHorn(horn)
  /\ first_cycle => door.state = "Locked"

\* A cycle keeps the managers sound.
LEMMA StepSound ==
  ASSUME ManagersSound, NEW in \in Readable, NEW lost \in BOOLEAN,
         NEW dt \in Nat, Step(in, lost, dt)
  PROVE  ManagersSound'
<1>1. /\ door' = FlagsTaken(DoorAfter(in, dt))
      /\ power' = PowerAfter(in, dt)
      /\ lighting' = LightingAfter(in, dt)
      /\ horn' = HornAfter(DoorAfter(in, dt), dt)
      /\ first_cycle' = FALSE
  BY DEF Step
<1>2. SoundDoor(door')
  BY <1>1, DoorCycleSound DEF ManagersSound
<1>3. SoundPower(power')
  BY <1>1, PowerCycleSound DEF ManagersSound
<1>4. SoundLighting(lighting')
  BY <1>1, LightingCycleSound DEF ManagersSound
<1>5. SoundHorn(horn')
  BY <1>1, HornCycleSound DEF ManagersSound
<1> QED
  BY <1>1, <1>2, <1>3, <1>4, <1>5 DEF ManagersSound

\* reset() makes them sound again.
LEMMA ResetSound ==
  ASSUME ManagersSound, Reset
  PROVE  ManagersSound'
<1>1. /\ door' = FreshDoor /\ power' = ResetPower(power)
      /\ lighting' = ResetLighting(lighting) /\ horn' = FreshHorn
  BY DEF Reset
<1> QED
  BY <1>1, FreshDoorSound, ResetPowerSound, ResetLightingSound, FreshHornSound
     DEF ManagersSound, FreshDoor

\* Requests of the host and of the application touch no manager, no lamp and
\* no level that a cycle has read.
Untouched ==
  UNCHANGED <<door, power, lighting, horn, first_cycle, inputs, comms_lost,
              lamps>>

LEMMA RequestsTouchNothing ==
  ASSUME \/ SetHostRequest \/ RequestDoorLock \/ RequestDoorUnlock
         \/ RequestLightMode \/ ReportFault \/ ClearDtc
         \/ UNCHANGED vars
  PROVE  Untouched
BY DEF SetHostRequest, RequestDoorLock, RequestDoorUnlock, RequestLightMode,
       ReportFault, ClearDtc, Request, UseFaults, Untouched, vars, managers,
       coreVars

\* Every step is a cycle, a reset, or touches nothing that matters here.
LEMMA NextCases ==
  ASSUME [Next]_vars
  PROVE  \/ \E in \in InputRecords, lost \in BOOLEAN, dt \in Nat :
              Step(in, lost, dt)
         \/ Reset
         \/ Untouched
BY RequestsTouchNothing, DtAssumption DEF Next, Cycle

\* The managers stay sound in every behaviour.
LEMMA ManagersAlwaysSound == Spec => []ManagersSound
<1>1. Init => ManagersSound
  BY FreshDoorSound, FreshPowerSound, FreshLightingSound, FreshHornSound
     DEF Init, DoorInit, PowerInit, LightingInit, ManagersSound, FreshDoor
<1>2. ManagersSound /\ [Next]_vars => ManagersSound'
  <2> SUFFICES ASSUME ManagersSound, [Next]_vars
               PROVE  ManagersSound'
    OBVIOUS
  <2>1. CASE Untouched
    BY <2>1 DEF Untouched, ManagersSound
  <2> QED
    BY <2>1, NextCases, InputsReadable, StepSound, ResetSound
<1> QED
  BY <1>1, <1>2, PTL DEF Spec

\* For every configuration, no order of calls within a cycle leaves a machine
\* without its timer, a lamp without an owner, the hazards without their
\* latch or a chirp sequence that nothing continues.
THEOREM ManagersAlwaysConsistent == Spec => []ManagersConsistent
<1>1. ManagersSound => ManagersConsistent
  BY DEF ManagersSound, ManagersConsistent, SoundDoor, SoundPower,
         SoundLighting, SoundHorn
<1> QED
  BY <1>1, ManagersAlwaysSound, PTL

-----------------------------------------------------------------------------
(* What lights *)

\* A cycle ends with lamps that obey the rules under its own conditions.
LEMMA StepLamps ==
  ASSUME ManagersSound, NEW in \in Readable, NEW lost \in BOOLEAN,
         NEW dt \in Nat, Step(in, lost, dt)
  PROVE  LampsObeyRules'
<1> DEFINE p == PowerAfter(in, dt)
           arb == Conditions(in, lost, p)
           merged == Merged(Wanted(p, LightingAfter(in, dt), DoorAfter(in, dt)))
<1>1. inputs' = in /\ comms_lost' = lost /\ power' = p
  BY DEF Step
<1>2. lamps' = Arbitrate(merged, arb)
  BY DEF Step
<1>3. arb \in ArbiterInputs
  BY PowerCycleSound, ConditionsTyped DEF ManagersSound
<1>4. arb.brake_pressed = in["brake"]
  BY DEF Conditions
<1>5. Conditions(inputs, comms_lost, power)' = arb
  BY <1>1 DEF Conditions, LampsPermitted
<1> HIDE DEF arb, merged
<1>6. Lit(lamps') \subseteq Allowed(arb)
  BY <1>2, <1>3, ArbiterObeysRules DEF ObeysRules
<1>7. in["brake"] => lamps'["Brake"] = "On"
  BY <1>2, <1>3, <1>4, ArbiterObeysRules DEF ObeysRules
<1> QED
  BY <1>1, <1>5, <1>6, <1>7 DEF LampsObeyRules, Lit

\* For every input and every request of the host, nothing that a rule
\* forbids is lit when a cycle ends, and the brake lamp follows the pedal.
THEOREM LampsAlwaysObeyRules == Spec => []LampsObeyRules
<1>1. Init => LampsObeyRules
  BY DEF Init, LampsObeyRules
<1>2. ManagersSound /\ LampsObeyRules /\ [Next]_vars => LampsObeyRules'
  <2> SUFFICES ASSUME ManagersSound, LampsObeyRules, [Next]_vars
               PROVE  LampsObeyRules'
    OBVIOUS
  <2>1. CASE Untouched
    BY <2>1
       DEF Untouched, LampsObeyRules, Conditions, LampsPermitted, Lit, Allowed
  <2>2. CASE Reset
    BY <2>2 DEF Reset, LampsObeyRules
  <2> QED
    BY <2>1, <2>2, NextCases, InputsReadable, StepLamps
<1> QED
  BY <1>1, <1>2, ManagersAlwaysSound, PTL DEF Spec

-----------------------------------------------------------------------------
(* Locking only closed doors *)

\* The door contact stays as it is, and the car becomes locked only if it
\* is closed.
ClosedLock(d, e) ==
  /\ e.door_open = d.door_open
  /\ e.state = "Locked" => d.state = "Locked" \/ ~d.door_open

\* The operations that a cycle applies after it has read the contact.
LEMMA OperationsClosedLock ==
  ASSUME NEW d, SoundDoor(d)
  PROVE  /\ ClosedLock(d, RequestLock(d))
         /\ ClosedLock(d, RequestUnlock(d))
         /\ \A dt \in Nat : ClosedLock(d, UpdateDoor(d, dt))
         /\ ClosedLock(d, FlagsTaken(d))
<1>1. ASSUME NEW e, LockStep(d, e) \/ Unseen(d, e)
      PROVE  ClosedLock(d, e)
  BY <1>1 DEF LockStep, Unseen, ClosedLock
<1>2. ClosedLock(d, RequestLock(d))
  BY <1>1, RequestLockSeen
<1>3. ClosedLock(d, RequestUnlock(d))
  BY DEF SoundDoor, DoorRecord, RequestUnlock, ClosedLock
<1>4. ASSUME NEW dt \in Nat PROVE ClosedLock(d, UpdateDoor(d, dt))
  BY <1>1, UpdateDoorSeen
<1>5. ClosedLock(d, FlagsTaken(d))
  BY DEF SoundDoor, DoorRecord, FlagsTaken, TakeChirpUnlock, TakeChirpLock,
         TakeLockRefused, ClosedLock
<1> QED
  BY <1>2, <1>3, <1>4, <1>5

\* A cycle that finds the car open locks it only if it saw the doors closed.
LEMMA StepLocksOnlyClosed ==
  ASSUME ManagersSound, NEW in \in InputRecords, NEW lost \in BOOLEAN,
         NEW dt \in Nat, Step(in, lost, dt),
         door.state # "Locked", door'.state = "Locked"
  PROVE  ~inputs'.door_open
<1> DEFINE d1 == SetDoorOpen(door, in["door_open"])
           d2 == When(Rise(in, "door_lock"),
                      IF d1.state = "Locked" THEN RequestUnlock(d1)
                      ELSE RequestLock(d1),
                      d1)
           d3 == When(host.lock, RequestLock(d2), d2)
           d4 == When(host.unlock, RequestUnlock(d3), d3)
           d5 == UpdateDoor(d4, dt)
<1>1. /\ SoundDoor(door)
      /\ ~first_cycle
      /\ inputs'.door_open = in["door_open"]
  BY DEF ManagersSound, Step
<1>2. door' = FlagsTaken(d5)
  BY <1>1 DEF Step, DoorAfter, DoorEdges, When
<1>3. /\ SoundDoor(d1)
      /\ d1.door_open = in["door_open"]
      /\ d1.state # "Locked"
  BY <1>1, InputLevels, InputsReadable, SetDoorOpenSound
     DEF SetDoorOpen, SoundDoor, DoorRecord
<1> HIDE DEF d1
<1>4. SoundDoor(d2) /\ ClosedLock(d1, d2)
  BY <1>3, RequestLockSound, RequestUnlockSound, OperationsClosedLock
     DEF When, ClosedLock
<1> HIDE DEF d2
<1>5. SoundDoor(d3) /\ ClosedLock(d2, d3)
  BY <1>4, RequestLockSound, OperationsClosedLock DEF When, ClosedLock
<1> HIDE DEF d3
<1>6. SoundDoor(d4) /\ ClosedLock(d3, d4)
  BY <1>5, RequestUnlockSound, OperationsClosedLock DEF When, ClosedLock
<1> HIDE DEF d4
<1>7. SoundDoor(d5) /\ ClosedLock(d4, d5) /\ ClosedLock(d5, FlagsTaken(d5))
  BY <1>6, UpdateDoorSound, OperationsClosedLock
<1> HIDE DEF d5
<1> QED
  BY <1>1, <1>2, <1>3, <1>4, <1>5, <1>6, <1>7 DEF ClosedLock

\* SRS-DOOR-002 for every configuration: by button, host or timer, the car
\* becomes locked only in a cycle that saw every door closed.
THEOREM AlwaysLocksOnlyClosed == Spec => LocksOnlyClosed
<1> DEFINE A == door.state # "Locked" /\ door'.state = "Locked"
                  => Reset \/ ~inputs'.door_open
<1>1. ManagersSound /\ [Next]_vars => [A]_vars
  <2> SUFFICES ASSUME ManagersSound, [Next]_vars,
                      door.state # "Locked", door'.state = "Locked"
               PROVE  Reset \/ ~inputs'.door_open
    OBVIOUS
  <2>1. ~Untouched
    BY DEF Untouched
  <2> QED
    BY <2>1, NextCases, StepLocksOnlyClosed
<1> QED
  BY <1>1, ManagersAlwaysSound, PTL DEF Spec, LocksOnlyClosed

-----------------------------------------------------------------------------
(* The high beam *)

\* HighBeamUnlessHost of BcmCore: unless the host drives one of the two
\* lamps, no order of managers, merge and rules lights the high beam without
\* the low beam. It is the host alone that breaks SRS-LIGHT-002.
THEOREM HighBeamAloneOnlyByHost == Spec => HighBeamUnlessHost
<1> DEFINE A == host.mask \cap {"HighBeam", "LowBeam"} = {}
                  /\ lamps'["HighBeam"] # "Off"
                  => lamps'["LowBeam"] # "Off" \/ lamps' = lamps
<1>1. ManagersSound /\ [Next]_vars => [A]_vars
  <2> SUFFICES ASSUME ManagersSound, [Next]_vars,
                      host.mask \cap {"HighBeam", "LowBeam"} = {},
                      lamps'["HighBeam"] # "Off"
               PROVE  lamps'["LowBeam"] # "Off" \/ lamps' = lamps
    OBVIOUS
  <2>1. CASE Untouched
    BY <2>1 DEF Untouched
  <2>2. CASE Reset
    BY <2>2 DEF Reset, AllDark, LampId
  <2>3. ASSUME NEW in \in InputRecords, NEW lost \in BOOLEAN, NEW dt \in Nat,
               Step(in, lost, dt)
        PROVE  lamps'["LowBeam"] # "Off"
    <3> DEFINE p == PowerAfter(in, dt)
               l == LightingAfter(in, dt)
               wanted == Wanted(p, l, DoorAfter(in, dt))
               merged == Merged(wanted)
               arb == Conditions(in, lost, p)
    <3>1. lamps' = Arbitrate(merged, arb)
      BY <2>3 DEF Step
    <3>2. arb \in ArbiterInputs
      BY InputsReadable, PowerCycleSound, ConditionsTyped DEF ManagersSound
    <3>3. \A id \in {"HighBeam", "LowBeam"} :
            merged[id] = wanted[id]
      BY DEF Merged, LampId
    <3>4. wanted["HighBeam"] # "Off" => wanted["LowBeam"] # "Off"
      <4> DEFINE lit == PowerLamps(p) \cup SteadyLamps(l)
                          \cup (IF DoorAfter(in, dt).state = "Locked"
                                THEN {"DoorLock"} ELSE {})
                          \cup (IF DoorAfter(in, dt).state = "Welcome"
                                THEN {"Drl"} ELSE {})
                 steady == SetLamps(AllDark, lit, "On")
      <4>1. SoundLighting(l)
        BY LightingCycleSound DEF ManagersSound
      <4>2. "HighBeam" \in SteadyLamps(l) => "LowBeam" \in SteadyLamps(l)
        BY <4>1 DEF SteadyLamps, SoundLighting, LightingRecord, LightState
      <4>3. "HighBeam" \in lit => "LowBeam" \in lit
        BY <4>2 DEF PowerLamps
      <4>4. "HighBeam" \notin FlashingLamps(l) /\ "LowBeam" \notin FlashingLamps(l)
        BY <4>1 DEF FlashingLamps, SoundLighting, LightingRecord, IndState
      <4> HIDE DEF lit
      <4>5. \A id \in LampId : steady[id] = IF id \in lit THEN "On" ELSE "Off"
        BY SetLampsAt DEF AllDark
      <4>6. \A id \in {"HighBeam", "LowBeam"} : wanted[id] = steady[id]
        BY <4>4, SetLampsAt DEF Wanted, LampId, lit
      <4> QED
        BY <4>3, <4>5, <4>6 DEF LampId
    <3> HIDE DEF arb, merged, wanted
    <3>5. ObeysRules(lamps', merged, arb)
      BY <3>1, <3>2, ArbiterObeysRules
    <3>6. "HighBeam" \in Allowed(arb) /\ lamps'["HighBeam"] = merged["HighBeam"]
      BY <3>5 DEF ObeysRules, Lit, LampId
    <3>7. "LowBeam" \in Allowed(arb)
      BY <3>6 DEF Allowed, Essential, LampId
    <3>8. lamps'["LowBeam"] = merged["LowBeam"]
      BY <3>5, <3>7 DEF ObeysRules
    <3> QED
      BY <3>3, <3>4, <3>6, <3>8
  <2> QED
    BY <2>1, <2>2, <2>3, NextCases
<1> QED
  BY <1>1, ManagersAlwaysSound, PTL DEF Spec, HighBeamUnlessHost

-----------------------------------------------------------------------------
(* The store of trouble codes *)

SoundStore(store) ==
  /\ store \in Seq(DtcEntry)
  /\ Len(store) <= MaxDtc
  /\ NoDuplicates(store)

\* find() finds the code it was asked for.
LEMMA IndexFound ==
  ASSUME NEW store, NEW code, Stored(store, code)
  PROVE  IndexOf(store, code) \in DOMAIN store
         /\ store[IndexOf(store, code)].code = code
BY DEF Stored, IndexOf

\* An entry may change, but not its code.
LEMMA EntryChanged ==
  ASSUME NEW store, SoundStore(store), NEW i \in DOMAIN store,
         NEW entry \in DtcEntry, entry.code = store[i].code
  PROVE  SoundStore([store EXCEPT ![i] = entry])
<1> DEFINE new == [store EXCEPT ![i] = entry]
<1>1. store \in Seq(DtcEntry) /\ Len(store) <= MaxDtc
  BY DEF SoundStore
<1>2. new \in Seq(DtcEntry) /\ Len(new) = Len(store) /\ DOMAIN new = DOMAIN store
  BY <1>1
<1>3. \A j \in DOMAIN store : new[j].code = store[j].code
  BY <1>1
<1>4. NoDuplicates(new)
  BY <1>2, <1>3 DEF SoundStore, NoDuplicates
<1> QED
  BY <1>1, <1>2, <1>4 DEF SoundStore

LEMMA ClearFaultSound ==
  ASSUME NEW store, SoundStore(store), NEW code
  PROVE  SoundStore(ClearFault(store, code))
<1>1. CASE Stored(store, code)
  <2> DEFINE i == IndexOf(store, code)
             entry == [store[i] EXCEPT !.active = FALSE]
  <2>1. i \in DOMAIN store
    BY <1>1, IndexFound
  <2>2. ClearFault(store, code) = [store EXCEPT ![i] = entry]
    BY <1>1 DEF ClearFault
  <2> HIDE DEF i
  <2>3. store[i] \in DtcEntry
    BY <2>1 DEF SoundStore
  <2>4. entry \in DtcEntry /\ entry.code = store[i].code
    BY <2>3 DEF DtcEntry
  <2> HIDE DEF entry
  <2>5. SoundStore([store EXCEPT ![i] = entry])
    BY <2>1, <2>4, EntryChanged
  <2> QED
    BY <2>2, <2>5
<1>2. CASE ~Stored(store, code)
  BY <1>2 DEF ClearFault
<1> QED
  BY <1>1, <1>2

LEMMA SetAgainTyped ==
  ASSUME NEW entry \in DtcEntry
  PROVE  SetAgain(entry) \in DtcEntry /\ SetAgain(entry).code = entry.code
<1> DEFINE seen == entry.occurrences
           next == IF seen < MaxOccurrences THEN seen + 1 ELSE seen
<1>1. seen \in 1 .. MaxOccurrences
  BY DEF DtcEntry
<1>2. next \in 1 .. MaxOccurrences
  BY <1>1, FaultConfig
<1>3. SetAgain(entry) = [entry EXCEPT !.occurrences = next, !.active = TRUE]
  BY DEF SetAgain, DtcEntry
<1> HIDE DEF next
<1> QED
  BY <1>2, <1>3 DEF DtcEntry

LEMMA SetFaultSound ==
  ASSUME NEW store, SoundStore(store), NEW code \in Dtc
  PROVE  SoundStore(SetFault(store, code))
<1>0. MaxDtc \in Nat /\ MaxOccurrences \in Nat \ {0}
  BY FaultConfig
<1>1. CASE Stored(store, code)
  <2> DEFINE i == IndexOf(store, code)
             entry == SetAgain(store[i])
  <2>1. i \in DOMAIN store
    BY <1>1, IndexFound
  <2>2. store[i] \in DtcEntry
    BY <2>1 DEF SoundStore
  <2>3. SetFault(store, code) = [store EXCEPT ![i] = entry]
    BY <1>1 DEF SetFault
  <2> HIDE DEF i
  <2>4. entry \in DtcEntry /\ entry.code = store[i].code
    BY <2>2, SetAgainTyped
  <2> HIDE DEF entry
  <2>5. SoundStore([store EXCEPT ![i] = entry])
    BY <2>1, <2>4, EntryChanged
  <2> QED
    BY <2>3, <2>5
<1>2. CASE ~Stored(store, code) /\ Len(store) >= MaxDtc
  <2>1. Len(store) \in Nat
    BY DEF SoundStore
  <2>2. SetFault(store, code) = store
    BY <1>0, <1>2, <2>1 DEF SetFault
  <2> QED
    BY <2>2
<1>3. CASE ~Stored(store, code) /\ Len(store) < MaxDtc
  <2> DEFINE entry == [code |-> code, occurrences |-> 1, active |-> TRUE]
             new == Append(store, entry)
  <2>1. SetFault(store, code) = new
    BY <1>0, <1>3 DEF SetFault, SoundStore
  <2>2. entry \in DtcEntry /\ entry.code = code
    BY <1>0 DEF DtcEntry
  <2> HIDE DEF entry
  <2>3. store \in Seq(DtcEntry) /\ Len(store) \in Nat
    BY DEF SoundStore
  <2>4. /\ new \in Seq(DtcEntry) /\ Len(new) = Len(store) + 1
        /\ DOMAIN new = DOMAIN store \cup {Len(store) + 1}
        /\ \A j \in DOMAIN store : new[j] = store[j]
        /\ new[Len(store) + 1] = entry
    BY <2>2, <2>3
  <2>5. \A j \in DOMAIN store : store[j].code # code
    BY <1>3 DEF Stored
  <2>6. NoDuplicates(new)
    BY <2>2, <2>4, <2>5 DEF SoundStore, NoDuplicates
  <2>7. Len(new) <= MaxDtc
    BY <1>0, <1>3, <2>3, <2>4
  <2> QED
    BY <2>1, <2>4, <2>6, <2>7 DEF SoundStore
<1> QED
  BY <1>0, <1>1, <1>2, <1>3 DEF SoundStore

\* So does a cycle, which refuses, sheds and loses the link as it must.
LEMMA StepStore ==
  ASSUME SoundStore(faults), NEW in, NEW lost, NEW dt, Step(in, lost, dt)
  PROVE  SoundStore(faults')
<1> DEFINE p == PowerAfter(in, dt)
           d == DoorAfter(in, dt)
           f == When(d.lock_refused, SetFault(faults, "LockRefusedDoorOpen"),
                     faults)
           g == Mirror(f, "BatteryLow", p.load_shed)
<1>1. faults' = Mirror(g, "CommsLost", lost)
  BY DEF Step, FaultsAfter
<1>2. ASSUME NEW store, SoundStore(store), NEW code \in Dtc, NEW present
      PROVE  SoundStore(Mirror(store, code, present))
  BY <1>2, SetFaultSound, ClearFaultSound DEF Mirror
<1>3. SoundStore(f)
  BY SetFaultSound DEF When, Dtc
<1> HIDE DEF f
<1>4. SoundStore(g)
  BY <1>2, <1>3 DEF Dtc
<1> HIDE DEF g
<1> QED
  BY <1>1, <1>2, <1>4 DEF Dtc

\* Whatever a cycle, the application and the host do, every code has at most
\* one entry, the table does not overflow, and no counter leaves its range.
THEOREM StoreAlwaysSound == Spec => []SoundStore(faults)
<1>1. Init => SoundStore(faults)
  BY FaultConfig DEF Init, EmptyStore, SoundStore, NoDuplicates
<1>2. SoundStore(faults) /\ [Next]_vars => SoundStore(faults)'
  <2> SUFFICES ASSUME SoundStore(faults), [Next]_vars PROVE SoundStore(faults')
    OBVIOUS
  <2>1. SoundStore(EmptyStore)
    BY FaultConfig DEF EmptyStore, SoundStore, NoDuplicates
  <2>3. CASE Cycle
    BY <2>3, StepStore DEF Cycle
  <2>4. CASE ReportFault
    BY <2>4, SetFaultSound, InputsAssumption DEF ReportFault, UseFaults, Dtc
  <2>5. CASE ClearDtc
    BY <2>1, <2>5 DEF ClearDtc, UseFaults
  <2>6. CASE Reset
    BY <2>1, <2>6 DEF Reset
  <2>7. CASE UNCHANGED faults
    BY <2>7
  <2> QED
    BY <2>3, <2>4, <2>5, <2>6, <2>7
    DEF Next, SetHostRequest, RequestDoorLock, RequestDoorUnlock,
        RequestLightMode, Request, managers, vars
<1> QED
  BY <1>1, <1>2, PTL DEF Spec

-----------------------------------------------------------------------------
(* The type of the core *)

\* The records of one step are events.
LEMMA EventsTyped ==
  ASSUME NEW in, NEW dt, NEW l, NEW refused, NEW now
  PROVE  EdgeEvents(in, dt, l) \o StateEvents(refused, now) \in Seq(Event)
<1>1. ASSUME NEW cond, NEW event \in Event PROVE Record(cond, event) \in Seq(Event)
  BY DEF Record
<1>2. ASSUME NEW s \in Seq(Event), NEW t \in Seq(Event) PROVE s \o t \in Seq(Event)
  OBVIOUS
<1>3. EdgeEvents(in, dt, l) \in Seq(Event)
  <2>1. Record(LongPress(in, dt), "LightMode") \in Seq(Event)
    BY <1>1 DEF Event
  <2>2. Record(TurnsOff(in), "IgnitionOff") \in Seq(Event)
    BY <1>1 DEF Event
  <2>3. Record(TurnsOn(in), "IgnitionOn") \in Seq(Event)
    BY <1>1 DEF Event
  <2>4. Record(Rise(in, "ind_left"), "IndicatorLeft") \in Seq(Event)
    BY <1>1 DEF Event
  <2>5. Record(Rise(in, "ind_right"), "IndicatorRight") \in Seq(Event)
    BY <1>1 DEF Event
  <2>6. Record(Rise(in, "hazard"),
               IF l.indicator = "Hazard" THEN "HazardOn" ELSE "HazardOff") \in Seq(Event)
    BY <1>1 DEF Event
  <2>7. Record(~first_cycle /\ in["brake"] # inputs["brake"],
               IF in["brake"] THEN "BrakeApplied" ELSE "BrakeReleased") \in Seq(Event)
    BY <1>1 DEF Event
  <2> QED
    BY <1>2, <2>1, <2>2, <2>3, <2>4, <2>5, <2>6, <2>7 DEF EdgeEvents
<1>4. StateEvents(refused, now) \in Seq(Event)
  <2>1. Record(refused, "LockRefused") \in Seq(Event)
    BY <1>1 DEF Event
  <2>2. Record(now.shed # prev.shed,
               IF now.shed THEN "BatteryLow" ELSE "BatteryOk") \in Seq(Event)
    BY <1>1 DEF Event
  <2>3. Record(now.comms # prev.comms,
               IF now.comms THEN "CommsLost" ELSE "CommsRestored") \in Seq(Event)
    BY <1>1 DEF Event
  <2>4. Record(now.door # prev.door,
               IF now.door = "Locked" THEN "DoorLocked" ELSE "DoorUnlocked") \in Seq(Event)
    BY <1>1 DEF Event
  <2> QED
    BY <1>2, <2>1, <2>2, <2>3, <2>4 DEF StateEvents
<1> QED
  BY <1>2, <1>3, <1>4

\* What CoreTypeOK says beyond the managers and the store.
RestTyped ==
  /\ ~door.lock_refused /\ ~door.chirp_lock /\ ~door.chirp_unlock
  /\ inputs \in InputRecords \cup {QuietInputs}
  /\ first_cycle \in BOOLEAN
  /\ held \in Nat
  /\ long_fired \in BOOLEAN
  /\ comms_lost \in BOOLEAN
  /\ host \in HostRecord
  /\ lamps \in LampState
  /\ prev \in HistoryRecord
  /\ logged \in Seq(Event)

\* A lamp is off, on or blinking, whoever wants it.
LEMMA StepLampsTyped ==
  ASSUME host \in HostRecord, NEW in, NEW lost, NEW dt, Step(in, lost, dt)
  PROVE  lamps' \in LampState
<1> DEFINE p == PowerAfter(in, dt)
           wanted == Wanted(p, LightingAfter(in, dt), DoorAfter(in, dt))
<1>1. wanted \in LampState
  <2>1. "On" \in LampDrive /\ "Blink" \in LampDrive /\ AllDark \in LampState
    BY DEF LampDrive, LampState, AllDark
  <2> QED
    BY <2>1, SetLampsTyped DEF Wanted
<1>2. lamps' = Arbitrate(Merged(wanted), Conditions(in, lost, p))
  BY DEF Step
<1> HIDE DEF wanted
<1>3. Merged(wanted) \in LampState
  BY <1>1 DEF Merged, LampState, HostRecord
<1> QED
  BY <1>2, <1>3, ArbitrateTyped

LEMMA RestTypedStep ==
  ASSUME ManagersSound, RestTyped, NEW in \in InputRecords, NEW lost \in BOOLEAN,
         NEW dt \in Nat, Step(in, lost, dt)
  PROVE  RestTyped'
<1> DEFINE p == PowerAfter(in, dt)
           l == LightingAfter(in, dt)
           d == DoorAfter(in, dt)
<1>1. SoundPower(p) /\ SoundDoor(d)
  BY InputsReadable, PowerCycleSound, DoorCycleSound DEF ManagersSound
<1>2. ~door'.lock_refused /\ ~door'.chirp_lock /\ ~door'.chirp_unlock
  <2>1. d \in DoorRecord /\ door' = FlagsTaken(d)
    BY <1>1 DEF SoundDoor, Step
  <2> HIDE DEF d
  <2> QED
    BY <2>1 DEF FlagsTaken, TakeChirpUnlock, TakeChirpLock, TakeLockRefused, DoorRecord
<1>3. held' \in Nat
  <2>1. HeldNow(in, dt) \in Nat
    BY CoreConfig DEF HeldNow, RestTyped
  <2> QED
    BY <2>1 DEF Step
<1>4. host' \in HostRecord
  BY DEF Step, RestTyped, HostRecord
<1>5. lamps' \in LampState
  BY StepLampsTyped DEF RestTyped
<1>6. prev' \in HistoryRecord
  <2>1. prev' = [shed |-> p.load_shed, comms |-> lost, door |-> d.state]
    BY DEF Step, Seen
  <2>2. p.load_shed \in BOOLEAN /\ d.state \in DoorState
    BY <1>1 DEF SoundPower, PowerTyped, PowerRecord, SoundDoor, DoorRecord
  <2> HIDE DEF p, d
  <2> QED
    BY <2>1, <2>2 DEF HistoryRecord
<1>7. logged' \in Seq(Event)
  <2>1. logged' = EdgeEvents(in, dt, l)
                    \o StateEvents(d.lock_refused, Seen(p, d, lost))
    BY DEF Step
  <2> HIDE DEF p, l, d
  <2> QED
    BY <2>1, EventsTyped
<1>8. /\ inputs' = in /\ comms_lost' = lost /\ first_cycle' = FALSE
      /\ long_fired' = (~Release(in) /\ (long_fired \/ LongPress(in, dt)))
  BY DEF Step
<1> HIDE DEF p, l, d
<1> QED
  BY <1>2, <1>3, <1>4, <1>5, <1>6, <1>7, <1>8 DEF RestTyped

\* CoreTypeOK of BcmCore: the core's state keeps its type, and no cycle
\* leaves one of the door manager's one-shot flags for the next.
THEOREM CoreTypedAlways == Spec => []CoreTypeOK
<1>1. Init => RestTyped
  <2> SUFFICES ASSUME Init PROVE RestTyped
    OBVIOUS
  <2>1. ~door.lock_refused /\ ~door.chirp_lock /\ ~door.chirp_unlock
    BY DEF Init, DoorInit, FreshDoor
  <2>2. lamps \in LampState /\ host \in HostRecord /\ prev \in HistoryRecord
    BY DEF Init, AllDark, LampState, LampDrive, NoHost, HostRecord, NoHistory,
           HistoryRecord, DoorState
  <2>3. /\ inputs = QuietInputs /\ first_cycle = TRUE /\ held = 0
        /\ long_fired = FALSE /\ comms_lost = FALSE /\ logged = << >>
    BY DEF Init
  <2>4. << >> \in Seq(Event)
    OBVIOUS
  <2> QED
    BY <2>1, <2>2, <2>3, <2>4 DEF RestTyped
<1>2. ManagersSound /\ RestTyped /\ [Next]_vars => RestTyped'
  <2> SUFFICES ASSUME ManagersSound, RestTyped, [Next]_vars PROVE RestTyped'
    OBVIOUS
  <2>1. CASE Cycle
    BY <2>1, RestTypedStep, DtAssumption DEF Cycle
  <2>2. CASE Reset
    <3>1. AllDark \in LampState /\ NoHistory \in HistoryRecord
      BY DEF AllDark, LampState, LampDrive, NoHistory, HistoryRecord, DoorState
    <3>2. host' \in HostRecord
      BY <2>2 DEF Reset, RestTyped, HostRecord, NoHost
    <3>3. ~door'.lock_refused /\ ~door'.chirp_lock /\ ~door'.chirp_unlock
      BY <2>2 DEF Reset, FreshDoor
    <3>4. /\ inputs' = QuietInputs /\ first_cycle' = TRUE /\ held' = 0
          /\ long_fired' = FALSE /\ comms_lost' = FALSE /\ logged' = << >>
          /\ lamps' = AllDark /\ prev' = NoHistory
      BY <2>2 DEF Reset
    <3>5. << >> \in Seq(Event)
      OBVIOUS
    <3> QED
      BY <3>1, <3>2, <3>3, <3>4, <3>5 DEF RestTyped
  <2>3. ASSUME NEW new \in HostRecord, Request(new) PROVE RestTyped'
    BY <2>3 DEF Request, managers, RestTyped
  <2>4. CASE SetHostRequest
    <3>1. PICK r \in HostRequests :
            Request([host EXCEPT !.mask = r[1], !.drives = r[2]])
      BY <2>4 DEF SetHostRequest
    <3>2. r[1] \in SUBSET LampId /\ r[2] \in LampState
      BY InputsAssumption
    <3>3. [host EXCEPT !.mask = r[1], !.drives = r[2]] \in HostRecord
      BY <3>2 DEF RestTyped, HostRecord
    <3> QED
      BY <2>3, <3>1, <3>3
  <2>5. CASE RequestDoorLock \/ RequestDoorUnlock \/ RequestLightMode
    <3>1. /\ [host EXCEPT !.lock = TRUE] \in HostRecord
          /\ [host EXCEPT !.unlock = TRUE] \in HostRecord
          /\ [host EXCEPT !.light_mode = TRUE] \in HostRecord
      BY DEF RestTyped, HostRecord
    <3> QED
      BY <2>3, <2>5, <3>1
      DEF RequestDoorLock, RequestDoorUnlock, RequestLightMode
  <2>6. CASE ReportFault \/ ClearDtc
    <3>1. /\ UNCHANGED <<door, inputs, first_cycle, held, long_fired,
                          comms_lost, host, lamps, prev>>
          /\ logged' = << >>
      BY <2>6 DEF ReportFault, ClearDtc, UseFaults
    <3>2. << >> \in Seq(Event)
      OBVIOUS
    <3> QED
      BY <3>1, <3>2 DEF RestTyped
  <2>7. CASE UNCHANGED vars
    BY <2>7 DEF vars, managers, coreVars, RestTyped
  <2> QED
    BY <2>1, <2>2, <2>4, <2>5, <2>6, <2>7 DEF Next
<1>3. ManagersSound /\ RestTyped /\ SoundStore(faults) => CoreTypeOK
  BY DEF ManagersSound, RestTyped, SoundStore, CoreTypeOK, SoundDoor, DoorTypeOK,
         SoundPower, PowerTyped, PowerTypeOK, SoundLighting, LightingTypeOK,
         SoundHorn
<1> QED
  BY <1>1, <1>2, <1>3, ManagersAlwaysSound, StoreAlwaysSound, PTL DEF Spec

-----------------------------------------------------------------------------
(* Watching the core *)

\* The history variables only watch: a step of the watched core is a step of
\* the core.
LEMMA WatchedStep ==
  ASSUME [CoreNext]_history
  PROVE  [Next]_vars
BY DEF CoreNext, history, WatchCycle, SeeCycle, WatchRequest, SeeOther,
       WatchReset, SeeRestart, Next

\* Its behaviours are therefore behaviours of the core.
LEMMA WatchedCore == CoreSpec => Spec
<1>1. CoreInit => Init
  BY DEF CoreInit
<1>2. [CoreNext]_history => [Next]_vars
  BY WatchedStep
<1> QED
  BY <1>1, <1>2, PTL DEF CoreSpec, Spec

\* Every step is a watched cycle, a watched reset, or leaves what the history
\* says and what it is about alone.
Unwatched ==
  /\ Untouched
  /\ UNCHANGED <<long_fired, prev, told, effects>>

LEMMA WatchedCases ==
  ASSUME [CoreNext]_history
  PROVE  \/ WatchCycle
         \/ WatchReset
         \/ Unwatched
<1>1. ASSUME \/ SetHostRequest \/ RequestDoorLock \/ RequestDoorUnlock
             \/ RequestLightMode \/ ReportFault \/ ClearDtc
             \/ UNCHANGED vars
      PROVE  Untouched /\ UNCHANGED <<long_fired, prev>>
  <2>1. Untouched
    BY <1>1, RequestsTouchNothing
  <2>2. UNCHANGED <<long_fired, prev>>
    BY <1>1
       DEF SetHostRequest, RequestDoorLock, RequestDoorUnlock,
           RequestLightMode, ReportFault, ClearDtc, Request, UseFaults,
           vars, coreVars
  <2> QED
    BY <2>1, <2>2
<1> QED
  BY <1>1 DEF CoreNext, history, WatchRequest, SeeOther, Unwatched

-----------------------------------------------------------------------------
(* The records of one cycle *)

\* A log tells of an event.
Tells(log, event) == \E i \in DOMAIN log : log[i] = event

LEMMA RecordTells ==
  ASSUME NEW cond, NEW event
  PROVE  \A e : Tells(Record(cond, event), e) <=> cond /\ e = event
<1>1. CASE cond
  BY <1>1 DEF Tells, Record
<1>2. CASE ~cond
  BY <1>2 DEF Tells, Record
<1> QED
  BY <1>1, <1>2

LEMMA ChangeTells ==
  ASSUME NEW was, NEW is, NEW event
  PROVE  \A e : Tells(Record(is # was, event), e) <=> is # was /\ e = event
<1>1. CASE is # was
  BY <1>1 DEF Tells, Record
<1>2. CASE is = was
  BY <1>2 DEF Tells, Record
<1> QED
  BY <1>1, <1>2

LEMMA RecordTyped ==
  ASSUME NEW cond, NEW event \in Event
  PROVE  Record(cond, event) \in Seq(Event)
BY DEF Record

\* Two logs, one after the other.
LEMMA JoinAt ==
  ASSUME NEW s \in Seq(Event), NEW t \in Seq(Event)
  PROVE  /\ s \o t \in Seq(Event)
         /\ Len(s \o t) = Len(s) + Len(t)
         /\ DOMAIN s = 1 .. Len(s) /\ DOMAIN t = 1 .. Len(t)
         /\ DOMAIN (s \o t) = 1 .. (Len(s) + Len(t))
         /\ \A i \in 1 .. Len(s) : (s \o t)[i] = s[i]
         /\ \A i \in 1 .. Len(t) : (s \o t)[Len(s) + i] = t[i]
         /\ \A i \in (Len(s) + 1) .. (Len(s) + Len(t)) :
              (s \o t)[i] = t[i - Len(s)]
         /\ Len(s) \in Nat /\ Len(t) \in Nat
OBVIOUS

LEMMA JoinTells ==
  ASSUME NEW s \in Seq(Event), NEW t \in Seq(Event)
  PROVE  \A e : Tells(s \o t, e) <=> Tells(s, e) \/ Tells(t, e)
<1> DEFINE m == Len(s)
           n == Len(t)
           j == s \o t
<1>1. /\ m \in Nat /\ n \in Nat
      /\ DOMAIN s = 1 .. m /\ DOMAIN t = 1 .. n /\ DOMAIN j = 1 .. (m + n)
      /\ \A i \in 1 .. m : j[i] = s[i]
      /\ \A i \in 1 .. n : j[m + i] = t[i]
      /\ \A i \in (m + 1) .. (m + n) : j[i] = t[i - m]
  BY JoinAt
<1> HIDE DEF m, n, j
<1> SUFFICES ASSUME NEW e PROVE Tells(j, e) <=> Tells(s, e) \/ Tells(t, e)
  BY DEF j
<1>2. ASSUME NEW i \in 1 .. m PROVE i \in 1 .. (m + n)
  BY <1>1
<1>3. ASSUME NEW i \in 1 .. n PROVE m + i \in 1 .. (m + n)
  BY <1>1
<1>4. ASSUME NEW i \in 1 .. (m + n), i \notin 1 .. m
      PROVE  i \in (m + 1) .. (m + n) /\ i - m \in 1 .. n
  BY <1>1, <1>4
<1>5. Tells(s, e) => Tells(j, e)
  BY <1>1, <1>2 DEF Tells
<1>6. Tells(t, e) => Tells(j, e)
  BY <1>1, <1>3 DEF Tells
<1>7. Tells(j, e) => Tells(s, e) \/ Tells(t, e)
  BY <1>1, <1>4 DEF Tells
<1> QED
  BY <1>5, <1>6, <1>7
\* An effect of the button is told by these records alone.
LEMMA EffectsJoin ==
  ASSUME NEW s \in Seq(Event), NEW t \in Seq(Event),
         \A e : Tells(t, e) => ~IsEffect(e)
  PROVE  Effects(s \o t) = Effects(s)
<1> DEFINE m == Len(s)
           n == Len(t)
           j == s \o t
<1>1. /\ m \in Nat /\ n \in Nat
      /\ DOMAIN s = 1 .. m /\ DOMAIN t = 1 .. n /\ DOMAIN j = 1 .. (m + n)
      /\ \A i \in 1 .. m : j[i] = s[i]
      /\ \A i \in (m + 1) .. (m + n) : j[i] = t[i - m]
  BY JoinAt
<1>2. \A i \in 1 .. n : ~IsEffect(t[i])
  BY <1>1 DEF Tells
<1> HIDE DEF m, n, j
<1>3. ASSUME NEW i \in 1 .. m PROVE i \in 1 .. (m + n)
  BY <1>1
<1>4. ASSUME NEW i \in 1 .. (m + n), i \notin 1 .. m
      PROVE  i \in (m + 1) .. (m + n) /\ i - m \in 1 .. n
  BY <1>1, <1>4
<1>5. ASSUME NEW i \in 1 .. (m + n), IsEffect(j[i]) PROVE i \in 1 .. m
  BY <1>1, <1>2, <1>4, <1>5
<1> QED
  BY <1>1, <1>3, <1>5 DEF Effects, j

-----------------------------------------------------------------------------
(* One press, one effect *)

\* A released button has had its effect. A pressed one has had it exactly if
\* the long press has fired; and a core that has not run a cycle has not seen
\* a press.
PressCounted ==
  /\ first_cycle => ~inputs.ignition
  /\ ~inputs.ignition => effects = 1 /\ ~long_fired
  /\ inputs.ignition => effects = IF long_fired THEN 1 ELSE 0

\* A log of one effect.
LEMMA OneEffect ==
  ASSUME NEW event \in {"LightMode", "IgnitionOn", "IgnitionOff"}
  PROVE  Effects(<<event>>) = {1}
<1> DEFINE s == <<event>>
<1>1. DOMAIN s = {1} /\ s[1] = event
  OBVIOUS
<1> HIDE DEF s
<1>2. Effects(s) = {1}
  BY <1>1 DEF Effects, IsEffect
<1> QED
  BY <1>2 DEF s

\* At most one of the three records of the button is appended in a cycle, and
\* it comes first.
LEMMA CycleEffects ==
  ASSUME NEW in \in InputRecords, NEW dt, NEW l, NEW refused, NEW now
  PROVE  Effects(EdgeEvents(in, dt, l) \o StateEvents(refused, now))
           = IF LongPress(in, dt) \/ ShortPress(in) THEN {1} ELSE {}
<1> DEFINE r1 == Record(LongPress(in, dt), "LightMode")
           r2 == Record(TurnsOff(in), "IgnitionOff")
           r3 == Record(TurnsOn(in), "IgnitionOn")
           r4 == Record(Rise(in, "ind_left"), "IndicatorLeft")
           r5 == Record(Rise(in, "ind_right"), "IndicatorRight")
           r6 == Record(Rise(in, "hazard"),
                        IF l.indicator = "Hazard" THEN "HazardOn" ELSE "HazardOff")
           r7 == Record(~first_cycle /\ in["brake"] # inputs["brake"],
                        IF in["brake"] THEN "BrakeApplied" ELSE "BrakeReleased")
           s1 == Record(refused, "LockRefused")
           s2 == Record(now.shed # prev.shed,
                        IF now.shed THEN "BatteryLow" ELSE "BatteryOk")
           s3 == Record(now.comms # prev.comms,
                        IF now.comms THEN "CommsLost" ELSE "CommsRestored")
           s4 == Record(now.door # prev.door,
                        IF now.door = "Locked" THEN "DoorLocked" ELSE "DoorUnlocked")
           quiet(t) == t \in Seq(Event) /\ \A e : Tells(t, e) => ~IsEffect(e)
           head == r1 \o r2 \o r3
<1>1. r1 \in Seq(Event) /\ r2 \in Seq(Event) /\ r3 \in Seq(Event)
  BY RecordTyped DEF Event
<1>2. ASSUME NEW cond, NEW event \in Event, ~IsEffect(event)
      PROVE  quiet(Record(cond, event))
  BY <1>2, RecordTyped, RecordTells
<1>3. quiet(r4) /\ quiet(r5) /\ quiet(r6) /\ quiet(r7)
  BY <1>2 DEF Event, IsEffect
<1>4. quiet(s1) /\ quiet(s2) /\ quiet(s3) /\ quiet(s4)
  BY <1>2 DEF Event, IsEffect
<1>5. ASSUME NEW s \in Seq(Event), NEW t, quiet(t)
      PROVE  s \o t \in Seq(Event) /\ Effects(s \o t) = Effects(s)
  BY <1>5, EffectsJoin, JoinAt
<1>6. ASSUME NEW s, NEW t, quiet(s), quiet(t) PROVE quiet(s \o t)
  BY <1>6, JoinTells, JoinAt
<1>7. head \in Seq(Event)
  BY <1>1, JoinAt
<1>8. EdgeEvents(in, dt, l) = head \o r4 \o r5 \o r6 \o r7
  BY DEF EdgeEvents
<1>9. StateEvents(refused, now) = s1 \o s2 \o s3 \o s4
  BY DEF StateEvents
<1>10. Effects(head) = IF LongPress(in, dt) \/ ShortPress(in) THEN {1} ELSE {}
  <2>1. CASE LongPress(in, dt)
    <3>1. ~TurnsOff(in) /\ ~TurnsOn(in)
      BY <2>1 DEF LongPress, TurnsOff, TurnsOn, ShortPress, Release
    <3>2. head = <<"LightMode">>
      BY <2>1, <3>1 DEF Record
    <3> QED
      BY <2>1, <3>2, OneEffect
  <2>2. CASE ~LongPress(in, dt) /\ TurnsOff(in)
    <3>1. ~TurnsOn(in) /\ ShortPress(in)
      BY <2>2 DEF TurnsOff, TurnsOn
    <3>2. head = <<"IgnitionOff">>
      BY <2>2, <3>1 DEF Record
    <3> QED
      BY <3>1, <3>2, OneEffect
  <2>3. CASE ~LongPress(in, dt) /\ TurnsOn(in)
    <3>1. ~TurnsOff(in) /\ ShortPress(in)
      BY <2>3 DEF TurnsOff, TurnsOn
    <3>2. head = <<"IgnitionOn">>
      BY <2>3, <3>1 DEF Record
    <3> QED
      BY <3>1, <3>2, OneEffect
  <2>4. CASE ~LongPress(in, dt) /\ ~TurnsOff(in) /\ ~TurnsOn(in)
    <3>1. ~ShortPress(in)
      BY <2>4 DEF TurnsOff, TurnsOn
    <3>2. head = << >>
      BY <2>4 DEF Record
    <3> QED
      BY <2>4, <3>1, <3>2 DEF Effects
  <2> QED
    BY <2>1, <2>2, <2>3, <2>4
<1> HIDE DEF head, r1, r2, r3, r4, r5, r6, r7, s1, s2, s3, s4, quiet
<1>11. /\ EdgeEvents(in, dt, l) \in Seq(Event)
       /\ Effects(EdgeEvents(in, dt, l)) = Effects(head)
  <2> DEFINE h4 == head \o r4
             h5 == h4 \o r5
             h6 == h5 \o r6
  <2>1. h4 \in Seq(Event) /\ Effects(h4) = Effects(head)
    BY <1>3, <1>5, <1>7
  <2> HIDE DEF h4
  <2>2. h5 \in Seq(Event) /\ Effects(h5) = Effects(h4)
    BY <1>3, <1>5, <2>1
  <2> HIDE DEF h5
  <2>3. h6 \in Seq(Event) /\ Effects(h6) = Effects(h5)
    BY <1>3, <1>5, <2>2
  <2> HIDE DEF h6
  <2>4. h6 \o r7 \in Seq(Event) /\ Effects(h6 \o r7) = Effects(h6)
    BY <1>3, <1>5, <2>3
  <2>5. EdgeEvents(in, dt, l) = h6 \o r7
    BY <1>8 DEF h4, h5, h6
  <2> QED
    BY <2>1, <2>2, <2>3, <2>4, <2>5
<1>12. quiet(StateEvents(refused, now))
  BY <1>4, <1>6, <1>9
<1> QED
  BY <1>5, <1>10, <1>11, <1>12

LEMMA PressStep ==
  ASSUME PressCounted, long_fired \in BOOLEAN, first_cycle \in BOOLEAN,
         inputs.ignition \in BOOLEAN, WatchCycle
  PROVE  PressCounted'
<1>1. PICK in \in InputRecords, lost \in BOOLEAN, dt \in Nat : Step(in, lost, dt)
  BY DtAssumption DEF WatchCycle, SeeCycle, Cycle
<1> DEFINE l == LightingAfter(in, dt)
           d == DoorAfter(in, dt)
           now == Seen(PowerAfter(in, dt), d, lost)
           took == LongPress(in, dt) \/ ShortPress(in)
           count == Cardinality(Effects(logged'))
<1>2. /\ inputs' = in /\ first_cycle' = FALSE
      /\ long_fired' = (~Release(in) /\ (long_fired \/ LongPress(in, dt)))
      /\ logged' = EdgeEvents(in, dt, l) \o StateEvents(d.lock_refused, now)
  BY <1>1 DEF Step
<1>3. count = IF took THEN 1 ELSE 0
  <2> HIDE DEF l, d, now
  <2>1. Effects(logged') = IF took THEN {1} ELSE {}
    BY <1>2, CycleEffects
  <2> QED
    BY <2>1, FS_EmptySet, FS_Singleton
<1>4. effects' = (IF PressBegins THEN 0 ELSE effects) + count
  BY DEF WatchCycle, SeeCycle
<1>5. in.ignition \in BOOLEAN
  BY InputsAssumption DEF Inputs
<1>6. PressBegins <=> in.ignition /\ (first_cycle \/ ~inputs.ignition)
  BY <1>2 DEF PressBegins
<1> HIDE DEF l, d, now, count
<1>7. /\ Release(in) <=> ~first_cycle /\ ~in.ignition /\ inputs.ignition
      /\ ShortPress(in) <=> Release(in) /\ ~long_fired
      /\ LongPress(in, dt) => ~first_cycle /\ in.ignition /\ ~long_fired
  BY DEF Release, ShortPress, LongPress
<1> HIDE DEF took
<1>9. CASE first_cycle
  <2>1. ~took /\ long_fired' = FALSE /\ effects = 1
    BY <1>2, <1>7, <1>9 DEF PressCounted, took
  <2> QED
    BY <1>2, <1>3, <1>4, <1>5, <1>6, <1>9, <2>1 DEF PressCounted
<1>10. CASE ~first_cycle /\ in.ignition
  <2>1. took <=> LongPress(in, dt)
    BY <1>7, <1>10 DEF took
  <2>2. long_fired' = (long_fired \/ LongPress(in, dt))
    BY <1>2, <1>7, <1>10
  <2>3. CASE inputs.ignition
    <3>1. effects' = effects + count
      BY <1>4, <1>6, <1>10, <2>3
    <3>2. effects = IF long_fired THEN 1 ELSE 0
      BY <2>3 DEF PressCounted
    <3>3. effects' = IF long_fired' THEN 1 ELSE 0
      <4>1. CASE long_fired
        <5>1. ~took /\ long_fired' = TRUE
          BY <1>7, <2>1, <2>2, <4>1
        <5> QED
          BY <1>3, <3>1, <3>2, <4>1, <5>1
      <4>2. CASE ~long_fired
        <5>1. long_fired' <=> took
          BY <2>1, <2>2, <4>2
        <5>2. effects' = 0 + count
          BY <3>1, <3>2, <4>2
        <5> QED
          BY <1>3, <5>1, <5>2
      <4> QED
        BY <4>1, <4>2
    <3> QED
      BY <1>2, <1>10, <3>3 DEF PressCounted
  <2>4. CASE ~inputs.ignition
    <3>1. effects' = count
      <4>1. PressBegins
        BY <1>6, <1>10, <2>4
      <4>2. effects' = 0 + count
        BY <1>4, <4>1
      <4>3. count \in Nat
        BY <1>3
      <4> QED
        BY <4>2, <4>3
    <3>2. ~long_fired
      BY <2>4 DEF PressCounted
    <3>3. effects' = IF long_fired' THEN 1 ELSE 0
      BY <1>3, <2>1, <2>2, <3>1, <3>2
    <3> QED
      BY <1>2, <1>10, <3>3 DEF PressCounted
  <2> QED
    BY <2>3, <2>4
<1>11. CASE ~first_cycle /\ ~in.ignition
  <2>1. took <=> inputs.ignition /\ ~long_fired
    BY <1>7, <1>11 DEF took
  <2>2. long_fired' = FALSE
    BY <1>2, <1>7, <1>11 DEF PressCounted
  <2>3. effects' = effects + count
    BY <1>4, <1>6, <1>11
  <2> QED
    BY <1>2, <1>3, <1>11, <2>1, <2>2, <2>3 DEF PressCounted
<1> QED
  BY <1>5, <1>9, <1>10, <1>11

\* OnePressOneEffect of CoreHistory: for every length of a press and of the
\* counter that measures it, and in whatever state it begins, a press of the
\* ignition button takes effect once.
THEOREM OnePressAlwaysOneEffect == CoreSpec => []OnePressOneEffect
<1>1. CoreInit => PressCounted
  BY DEF CoreInit, Init, PressCounted, QuietInputs
<1>2. CoreTypeOK /\ PressCounted /\ [CoreNext]_history => PressCounted'
  <2> SUFFICES ASSUME CoreTypeOK, PressCounted, [CoreNext]_history
               PROVE  PressCounted'
    OBVIOUS
  <2>1. CASE WatchCycle
    <3>1. inputs \in InputRecords \/ inputs = QuietInputs
      BY DEF CoreTypeOK
    <3>2. \A in \in Inputs : in.ignition \in BOOLEAN
      BY DEF Inputs
    <3>3. QuietInputs.ignition \in BOOLEAN
      BY DEF QuietInputs
    <3>4. inputs.ignition \in BOOLEAN
      BY <3>1, <3>2, <3>3, InputsAssumption
    <3> QED
      BY <2>1, <3>4, PressStep DEF CoreTypeOK
  <2>2. CASE WatchReset
    BY <2>2 DEF WatchReset, SeeRestart, Reset, PressCounted, QuietInputs
  <2>3. CASE Unwatched
    BY <2>3 DEF Unwatched, Untouched, PressCounted
  <2> QED
    BY <2>1, <2>2, <2>3, WatchedCases
<1>3. PressCounted => OnePressOneEffect
  BY DEF PressCounted, OnePressOneEffect
<1> QED
  BY <1>1, <1>2, <1>3, WatchedCore, CoreTypedAlways, PTL DEF CoreSpec
-----------------------------------------------------------------------------
(* The records and the state *)

\* What the second half of a cycle may log.
StateEvent ==
  { "LockRefused", "BatteryLow", "BatteryOk", "CommsLost", "CommsRestored",
    "DoorLocked", "DoorUnlocked" }

\* The records of the driver's controls are about other things.
LEMMA EdgesTellNoState ==
  ASSUME NEW in, NEW dt, NEW l
  PROVE  /\ EdgeEvents(in, dt, l) \in Seq(Event)
         /\ \A e \in StateEvent : ~Tells(EdgeEvents(in, dt, l), e)
<1> DEFINE mute(t) == t \in Seq(Event) /\ \A e \in StateEvent : ~Tells(t, e)
           r1 == Record(LongPress(in, dt), "LightMode")
           r2 == Record(TurnsOff(in), "IgnitionOff")
           r3 == Record(TurnsOn(in), "IgnitionOn")
           r4 == Record(Rise(in, "ind_left"), "IndicatorLeft")
           r5 == Record(Rise(in, "ind_right"), "IndicatorRight")
           r6 == Record(Rise(in, "hazard"),
                        IF l.indicator = "Hazard" THEN "HazardOn" ELSE "HazardOff")
           r7 == Record(~first_cycle /\ in["brake"] # inputs["brake"],
                        IF in["brake"] THEN "BrakeApplied" ELSE "BrakeReleased")
<1>1. ASSUME NEW cond, NEW event \in Event \ StateEvent
      PROVE  mute(Record(cond, event))
  BY RecordTyped, RecordTells
<1>2. mute(r1) /\ mute(r2) /\ mute(r3) /\ mute(r4) /\ mute(r5)
  BY <1>1 DEF Event, StateEvent
<1>3. mute(r6) /\ mute(r7)
  BY <1>1 DEF Event, StateEvent
<1>4. ASSUME NEW s, NEW t, mute(s), mute(t) PROVE mute(s \o t)
  BY <1>4, JoinTells, JoinAt
<1>5. EdgeEvents(in, dt, l) = r1 \o r2 \o r3 \o r4 \o r5 \o r6 \o r7
  BY DEF EdgeEvents
<1> HIDE DEF r1, r2, r3, r4, r5, r6, r7, mute
<1>6. mute(EdgeEvents(in, dt, l))
  BY <1>2, <1>3, <1>4, <1>5
<1> QED
  BY <1>6 DEF mute

\* A change of state is recorded, in the direction in which it went, and
\* nothing else is.
TellsChange(log, refused, now) ==
  /\ Tells(log, "LockRefused") <=> refused
  /\ Tells(log, "BatteryLow") <=> now.shed /\ ~prev.shed
  /\ Tells(log, "BatteryOk") <=> ~now.shed /\ prev.shed
  /\ Tells(log, "CommsLost") <=> now.comms /\ ~prev.comms
  /\ Tells(log, "CommsRestored") <=> ~now.comms /\ prev.comms
  /\ Tells(log, "DoorLocked") <=> now.door = "Locked" /\ prev.door # "Locked"
  /\ Tells(log, "DoorUnlocked") <=> now.door # "Locked" /\ now.door # prev.door

LEMMA CycleTells ==
  ASSUME NEW in, NEW dt, NEW l, NEW refused \in BOOLEAN,
         NEW now \in HistoryRecord, prev \in HistoryRecord, NEW log,
         log = EdgeEvents(in, dt, l) \o StateEvents(refused, now)
  PROVE  TellsChange(log, refused, now)
<1> DEFINE s1 == Record(refused, "LockRefused")
           shed == IF now.shed THEN "BatteryLow" ELSE "BatteryOk"
           comms == IF now.comms THEN "CommsLost" ELSE "CommsRestored"
           moved == IF now.door = "Locked" THEN "DoorLocked" ELSE "DoorUnlocked"
           s2 == Record(now.shed # prev.shed, shed)
           s3 == Record(now.comms # prev.comms, comms)
           s4 == Record(now.door # prev.door, moved)
           edges == EdgeEvents(in, dt, l)
           states == StateEvents(refused, now)
<1>1. /\ shed \in {"BatteryLow", "BatteryOk"}
      /\ comms \in {"CommsLost", "CommsRestored"}
      /\ moved \in {"DoorLocked", "DoorUnlocked"}
  OBVIOUS
<1>2. states = s1 \o s2 \o s3 \o s4
  BY DEF StateEvents
<1>3. ASSUME NEW e
      PROVE  /\ Tells(s1, e) <=> refused /\ e = "LockRefused"
             /\ Tells(s2, e) <=> now.shed # prev.shed /\ e = shed
             /\ Tells(s3, e) <=> now.comms # prev.comms /\ e = comms
             /\ Tells(s4, e) <=> now.door # prev.door /\ e = moved
  <2> HIDE DEF shed, comms, moved
  <2>1. Tells(s1, e) <=> refused /\ e = "LockRefused"
    BY DEF Tells, Record
  <2>2. /\ Tells(s2, e) <=> now.shed # prev.shed /\ e = shed
        /\ Tells(s3, e) <=> now.comms # prev.comms /\ e = comms
        /\ Tells(s4, e) <=> now.door # prev.door /\ e = moved
    BY ONLY ChangeTells
  <2> QED
    BY <2>1, <2>2
<1>4. /\ s1 \in Seq(Event) /\ s2 \in Seq(Event)
      /\ s3 \in Seq(Event) /\ s4 \in Seq(Event)
  BY RecordTyped DEF Event
<1>5. shed = (IF now.shed THEN "BatteryLow" ELSE "BatteryOk")
      /\ comms = (IF now.comms THEN "CommsLost" ELSE "CommsRestored")
      /\ moved = (IF now.door = "Locked" THEN "DoorLocked" ELSE "DoorUnlocked")
  OBVIOUS
<1> HIDE DEF s1, s2, s3, s4, shed, comms, moved, states, edges
<1>6. /\ states \in Seq(Event)
      /\ \A e : Tells(states, e) <=> \/ Tells(s1, e) \/ Tells(s2, e)
                                     \/ Tells(s3, e) \/ Tells(s4, e)
  <2> DEFINE s12 == s1 \o s2
             s123 == s12 \o s3
  <2>1. s12 \in Seq(Event) /\ \A e : Tells(s12, e) <=> Tells(s1, e) \/ Tells(s2, e)
    BY <1>4, JoinTells, JoinAt
  <2> HIDE DEF s12
  <2>2. s123 \in Seq(Event) /\ \A e : Tells(s123, e) <=> Tells(s12, e) \/ Tells(s3, e)
    BY <1>4, <2>1, JoinTells, JoinAt
  <2> HIDE DEF s123
  <2>3. states = s123 \o s4
    BY <1>2 DEF s12, s123
  <2>4. states \in Seq(Event)
        /\ \A e : Tells(states, e) <=> Tells(s123, e) \/ Tells(s4, e)
    BY <1>4, <2>2, <2>3, JoinTells, JoinAt
  <2> QED
    BY <2>1, <2>2, <2>4
<1>7. edges \in Seq(Event) /\ \A e \in StateEvent : ~Tells(edges, e)
  BY EdgesTellNoState DEF edges
<1>8. \A e \in StateEvent : Tells(edges \o states, e) <=> Tells(states, e)
  BY <1>6, <1>7, JoinTells
<1>9. ASSUME NEW e \in StateEvent
      PROVE  Tells(edges \o states, e)
               <=> \/ refused /\ e = "LockRefused"
                   \/ now.shed # prev.shed /\ e = shed
                   \/ now.comms # prev.comms /\ e = comms
                   \/ now.door # prev.door /\ e = moved
  BY <1>3, <1>6, <1>8
<1>10. /\ now.shed \in BOOLEAN /\ prev.shed \in BOOLEAN
       /\ now.comms \in BOOLEAN /\ prev.comms \in BOOLEAN
  BY DEF HistoryRecord
<1>11. Tells(edges \o states, "LockRefused") <=> refused
  BY <1>1, <1>9 DEF StateEvent
<1>12. /\ Tells(edges \o states, "BatteryLow") <=> now.shed /\ ~prev.shed
       /\ Tells(edges \o states, "BatteryOk") <=> ~now.shed /\ prev.shed
  BY <1>1, <1>5, <1>9, <1>10 DEF StateEvent
<1>13. /\ Tells(edges \o states, "CommsLost") <=> now.comms /\ ~prev.comms
       /\ Tells(edges \o states, "CommsRestored") <=> ~now.comms /\ prev.comms
  BY <1>1, <1>5, <1>9, <1>10 DEF StateEvent
<1>14. /\ Tells(edges \o states, "DoorLocked")
            <=> now.door = "Locked" /\ prev.door # "Locked"
       /\ Tells(edges \o states, "DoorUnlocked")
            <=> now.door # "Locked" /\ now.door # prev.door
  BY <1>1, <1>5, <1>9 DEF StateEvent
<1> QED
  BY <1>11, <1>12, <1>13, <1>14 DEF edges, states, TellsChange

\* What the last cycle saw is what is, and who follows the records knows it.
RecordsTrue ==
  /\ prev = [ shed |-> power.load_shed, comms |-> comms_lost,
              door |-> door.state ]
  /\ EventsTellTheState

\* A step of the core leaves the state it has recorded.
LEMMA CycleSeen ==
  ASSUME ManagersSound, NEW in \in InputRecords, NEW lost \in BOOLEAN,
         NEW dt \in Nat, Step(in, lost, dt)
  PROVE  LET d == DoorAfter(in, dt)
             now == Seen(PowerAfter(in, dt), d, lost)
         IN  /\ prev' = now /\ now \in HistoryRecord
             /\ d.lock_refused \in BOOLEAN
             /\ logged' = EdgeEvents(in, dt, LightingAfter(in, dt))
                            \o StateEvents(d.lock_refused, now)
             /\ now = [ shed |-> power'.load_shed, comms |-> comms_lost',
                        door |-> door'.state ]
<1> DEFINE p == PowerAfter(in, dt)
           d == DoorAfter(in, dt)
           now == Seen(p, d, lost)
<1>1. SoundPower(p) /\ SoundDoor(d)
  BY InputsReadable, PowerCycleSound, DoorCycleSound DEF ManagersSound
<1>2. /\ power' = p /\ comms_lost' = lost /\ door' = FlagsTaken(d)
      /\ prev' = now
      /\ logged' = EdgeEvents(in, dt, LightingAfter(in, dt))
                      \o StateEvents(d.lock_refused, now)
  BY DEF Step
<1>3. /\ d.lock_refused \in BOOLEAN /\ d.state \in DoorState
      /\ p.load_shed \in BOOLEAN
  BY <1>1 DEF SoundDoor, DoorRecord, SoundPower, PowerTyped, PowerRecord
<1>4. door'.state = d.state
  <2>1. d \in DoorRecord
    BY <1>1 DEF SoundDoor
  <2> HIDE DEF d
  <2> QED
    BY <1>2, <2>1
    DEF FlagsTaken, TakeChirpUnlock, TakeChirpLock, TakeLockRefused, DoorRecord
<1>5. now = [shed |-> p.load_shed, comms |-> lost, door |-> d.state]
  BY DEF Seen
<1> HIDE DEF p, d, now
<1>6. now \in HistoryRecord
  BY <1>3, <1>5 DEF HistoryRecord
<1> QED
  BY <1>2, <1>3, <1>4, <1>5, <1>6 DEF p, d, now

LEMMA RecordsStep ==
  ASSUME ManagersSound, prev \in HistoryRecord, RecordsTrue, WatchCycle
  PROVE  RecordsTrue'
<1>1. PICK in \in InputRecords, lost \in BOOLEAN, dt \in Nat : Step(in, lost, dt)
  BY DtAssumption DEF WatchCycle, SeeCycle, Cycle
<1> DEFINE d == DoorAfter(in, dt)
           now == Seen(PowerAfter(in, dt), d, lost)
<1>2. /\ prev' = now /\ now \in HistoryRecord /\ d.lock_refused \in BOOLEAN
      /\ logged' = EdgeEvents(in, dt, LightingAfter(in, dt))
                      \o StateEvents(d.lock_refused, now)
      /\ now = [ shed |-> power'.load_shed, comms |-> comms_lost',
                 door |-> door'.state ]
  BY <1>1, CycleSeen
<1> HIDE DEF d, now
<1>3. /\ Logged("BatteryLow") <=> now.shed /\ ~prev.shed
      /\ Logged("BatteryOk") <=> ~now.shed /\ prev.shed
      /\ Logged("CommsLost") <=> now.comms /\ ~prev.comms
      /\ Logged("CommsRestored") <=> ~now.comms /\ prev.comms
      /\ Logged("DoorLocked") <=> now.door = "Locked" /\ prev.door # "Locked"
      /\ Logged("DoorUnlocked") <=> now.door # "Locked" /\ now.door # prev.door
  <2>1. \A e : Logged(e) <=> Tells(logged', e)
    BY DEF Logged, Tells
  <2>2. prev \in HistoryRecord
    OBVIOUS
  <2>3. TellsChange(logged', d.lock_refused, now)
    <3> DEFINE l == LightingAfter(in, dt)
               refused == d.lock_refused
    <3>1. /\ refused \in BOOLEAN /\ now \in HistoryRecord
          /\ logged' = EdgeEvents(in, dt, l) \o StateEvents(refused, now)
      BY <1>2
    <3> HIDE DEF l, refused
    <3>2. TellsChange(logged', refused, now)
      BY <2>2, <3>1, CycleTells
    <3> QED
      BY <3>2 DEF refused
  <2> QED
    BY <2>1, <2>3, Zenon DEF TellsChange
<1>4. /\ now.shed \in BOOLEAN /\ prev.shed \in BOOLEAN
      /\ now.comms \in BOOLEAN /\ prev.comms \in BOOLEAN
  BY <1>2 DEF HistoryRecord
<1>5. /\ told.shed = prev.shed /\ told.comms = prev.comms
      /\ told.locked = (prev.door = "Locked")
  BY DEF RecordsTrue, EventsTellTheState
<1>6. Told(told.shed, "BatteryLow", "BatteryOk") = now.shed
  BY <1>3, <1>4, <1>5 DEF Told
<1>7. Told(told.comms, "CommsLost", "CommsRestored") = now.comms
  BY <1>3, <1>4, <1>5 DEF Told
<1>8. Told(told.locked, "DoorLocked", "DoorUnlocked") = (now.door = "Locked")
  BY <1>3, <1>5 DEF Told
<1>9. told' = [shed |-> now.shed, comms |-> now.comms,
               locked |-> now.door = "Locked"]
  BY <1>6, <1>7, <1>8 DEF WatchCycle, SeeCycle
<1> QED
  BY <1>2, <1>9 DEF RecordsTrue, EventsTellTheState

\* EventsTellTheState of CoreHistory: with any number of lock operations,
\* levels and losses of the link in a cycle, the records alone tell the state.
THEOREM EventsAlwaysTellTheState == CoreSpec => []EventsTellTheState
<1>1. CoreInit => RecordsTrue
  <2> SUFFICES ASSUME CoreInit PROVE RecordsTrue
    OBVIOUS
  <2>1. /\ door.state = "Locked" /\ power.load_shed = FALSE
        /\ comms_lost = FALSE /\ prev = NoHistory /\ told = Untold
    BY DEF CoreInit, Init, DoorInit, FreshDoor, PowerInit, FreshPower
  <2> QED
    BY <2>1 DEF NoHistory, Untold, RecordsTrue, EventsTellTheState
<1>2. ManagersSound /\ CoreTypeOK /\ RecordsTrue /\ [CoreNext]_history
        => RecordsTrue'
  <2> SUFFICES ASSUME ManagersSound, CoreTypeOK, RecordsTrue,
                      [CoreNext]_history
               PROVE  RecordsTrue'
    OBVIOUS
  <2>1. CASE WatchCycle
    BY <2>1, RecordsStep DEF CoreTypeOK
  <2>2. CASE WatchReset
    BY <2>2 DEF WatchReset, SeeRestart, Reset, FreshDoor, ResetPower, FreshPower,
                NoHistory,
                Untold, RecordsTrue, EventsTellTheState
  <2>3. CASE Unwatched
    BY <2>3 DEF Unwatched, Untouched, RecordsTrue, EventsTellTheState
  <2> QED
    BY <2>1, <2>2, <2>3, WatchedCases
<1>3. RecordsTrue => EventsTellTheState
  BY DEF RecordsTrue
<1> QED
  BY <1>1, <1>2, <1>3, WatchedCore, CoreTypedAlways, ManagersAlwaysSound, PTL
  DEF CoreSpec
-----------------------------------------------------------------------------
(* The store and the conditions *)

\* The table has room for every code there is: fault_mgr.h has six codes and
\* kMaxDtc, the size of the table, is eight.
RoomForAll == Cardinality(Dtc) <= MaxDtc

LEMMA DtcFinite == IsFiniteSet(Dtc)
<1>1. IsFiniteSet({"BatteryLow"})
  BY FS_Singleton
<1>2. IsFiniteSet({"BatteryLow"} \cup {"CommsLost"})
  BY <1>1, FS_AddElement
<1>3. IsFiniteSet({"BatteryLow", "CommsLost"} \cup {"LockRefusedDoorOpen"})
  BY <1>2, FS_AddElement
<1>4. IsFiniteSet({"BatteryLow", "CommsLost", "LockRefusedDoorOpen"}
                    \cup {"WatchdogReset"})
  BY <1>3, FS_AddElement
<1>5. IsFiniteSet({"BatteryLow", "CommsLost", "LockRefusedDoorOpen",
                   "WatchdogReset"} \cup {"UartOverrun"})
  BY <1>4, FS_AddElement
<1>6. IsFiniteSet({"BatteryLow", "CommsLost", "LockRefusedDoorOpen",
                   "WatchdogReset", "UartOverrun"} \cup {"PostFailed"})
  BY <1>5, FS_AddElement
<1>7. {"BatteryLow", "CommsLost", "LockRefusedDoorOpen", "WatchdogReset",
       "UartOverrun"} \cup {"PostFailed"} = Dtc
  BY DEF Dtc
<1> QED
  BY <1>6, <1>7

\* A code without an entry always finds a free one.
LEMMA NeverFull ==
  ASSUME NEW store, SoundStore(store), NEW code \in Dtc,
         ~Stored(store, code), RoomForAll
  PROVE  Len(store) < MaxDtc
<1> DEFINE n == Len(store)
           rest == Dtc \ {code}
           f == [i \in 1 .. n |-> store[i].code]
<1>1. /\ n \in Nat /\ DOMAIN store = 1 .. n
      /\ \A i \in 1 .. n : store[i] \in DtcEntry
  BY DEF SoundStore
<1>2. \A i \in 1 .. n : store[i].code \in rest
  BY <1>1 DEF DtcEntry, Stored
<1>3. \A i, j \in 1 .. n : store[i].code = store[j].code => i = j
  BY <1>1 DEF SoundStore, NoDuplicates
<1> HIDE DEF n, rest
<1>4. f \in [1 .. n -> rest] /\ \A i, j \in 1 .. n : f[i] = f[j] => i = j
  BY <1>2, <1>3
<1> HIDE DEF f
<1>5. f \in Injection(1 .. n, rest)
  BY <1>4 DEF Injection, IsInjective
<1>6. /\ IsFiniteSet(rest) /\ Cardinality(rest) = Cardinality(Dtc) - 1
      /\ Cardinality(Dtc) \in Nat
  BY DtcFinite, FS_RemoveElement, FS_CardinalityType DEF rest
<1>7. Cardinality(1 .. n) <= Cardinality(rest)
  BY <1>5, <1>6, FS_Injection
<1>8. Cardinality(1 .. n) = n
  BY <1>1, FS_Interval
<1>9. n < MaxDtc
  BY <1>1, <1>6, <1>7, <1>8, FaultConfig DEF RoomForAll
<1> QED
  BY <1>9 DEF n

\* A code is active if some entry says so: there is one entry at most.
ActiveSomewhere(store, code) ==
  \E i \in DOMAIN store : store[i].code = code /\ store[i].active

LEMMA ActiveIff ==
  ASSUME NEW store, SoundStore(store), NEW code
  PROVE  IsActive(store, code) <=> ActiveSomewhere(store, code)
<1> DEFINE i == IndexOf(store, code)
<1>1. CASE Stored(store, code)
  <2>1. i \in DOMAIN store /\ store[i].code = code
    BY <1>1, IndexFound
  <2> HIDE DEF i
  <2>2. \A j \in DOMAIN store : store[j].code = code => j = i
    BY <2>1 DEF SoundStore, NoDuplicates
  <2>3. IsActive(store, code) <=> store[i].active
    BY <1>1 DEF IsActive, i
  <2> QED
    BY <2>1, <2>2, <2>3 DEF ActiveSomewhere
<1>2. CASE ~Stored(store, code)
  BY <1>2 DEF IsActive, Stored, ActiveSomewhere
<1> QED
  BY <1>1, <1>2

\* What a changed entry does to the codes.
LEMMA ChangedActive ==
  ASSUME NEW store, SoundStore(store), NEW i \in DOMAIN store,
         NEW entry \in DtcEntry, entry.code = store[i].code, NEW other
  PROVE  ActiveSomewhere([store EXCEPT ![i] = entry], other)
           <=> IF other = entry.code THEN entry.active
               ELSE ActiveSomewhere(store, other)
<1> DEFINE new == [store EXCEPT ![i] = entry]
<1>1. store \in Seq(DtcEntry)
  BY DEF SoundStore
<1>2. /\ DOMAIN new = DOMAIN store /\ new[i] = entry
      /\ \A j \in DOMAIN store : j # i => new[j] = store[j]
  BY <1>1
<1>3. \A j \in DOMAIN store : store[j].code = entry.code => j = i
  BY DEF SoundStore, NoDuplicates
<1> HIDE DEF new
<1>4. ActiveSomewhere(new, other)
        <=> IF other = entry.code THEN entry.active
            ELSE ActiveSomewhere(store, other)
  BY <1>2, <1>3 DEF ActiveSomewhere
<1> QED
  BY <1>4 DEF new

\* set(): the code is active afterwards, the others are as they were.
LEMMA SetFaultActive ==
  ASSUME NEW store, SoundStore(store), NEW code \in Dtc, RoomForAll
  PROVE  /\ IsActive(SetFault(store, code), code)
         /\ \A other : other # code
              => (IsActive(SetFault(store, code), other)
                    <=> IsActive(store, other))
<1> DEFINE new == SetFault(store, code)
<1>1. SoundStore(new)
  BY SetFaultSound
<1>2. CASE Stored(store, code)
  <2> DEFINE i == IndexOf(store, code)
             entry == SetAgain(store[i])
  <2>1. i \in DOMAIN store /\ store[i].code = code
    BY <1>2, IndexFound
  <2>2. store[i] \in DtcEntry
    BY <2>1 DEF SoundStore
  <2>3. new = [store EXCEPT ![i] = entry]
    BY <1>2 DEF SetFault
  <2> HIDE DEF i, new
  <2>4. entry \in DtcEntry /\ entry.code = code
    BY <2>1, <2>2, SetAgainTyped
  <2>5. entry.active = TRUE
    BY <2>2 DEF SetAgain, DtcEntry
  <2> HIDE DEF entry
  <2>6. ASSUME NEW other
        PROVE  ActiveSomewhere(new, other)
                 <=> IF other = code THEN TRUE ELSE ActiveSomewhere(store, other)
    BY <2>1, <2>3, <2>4, <2>5, ChangedActive
  <2>7. ASSUME NEW other
        PROVE  /\ IsActive(new, other) <=> ActiveSomewhere(new, other)
               /\ IsActive(store, other) <=> ActiveSomewhere(store, other)
    BY <1>1, ActiveIff
  <2> QED
    BY <2>6, <2>7 DEF new
<1>3. CASE ~Stored(store, code)
  <2> DEFINE entry == [code |-> code, occurrences |-> 1, active |-> TRUE]
             n == Len(store)
  <2>1. n < MaxDtc /\ n \in Nat /\ store \in Seq(DtcEntry) /\ DOMAIN store = 1 .. n
    BY <1>3, NeverFull DEF SoundStore
  <2>2. new = Append(store, entry)
    <3>1. ~(Len(store) >= MaxDtc) /\ Len(store) < MaxDtc
      BY <2>1, FaultConfig
    <3> QED
      BY <1>3, <3>1 DEF SetFault
  <2>3. entry \in DtcEntry /\ entry.code = code /\ entry.active = TRUE
    BY FaultConfig DEF DtcEntry
  <2> HIDE DEF new, entry
  <2>4. /\ DOMAIN new = (1 .. n) \cup {n + 1}
        /\ new[n + 1] = entry
        /\ \A j \in 1 .. n : new[j] = store[j]
    BY <2>1, <2>2, <2>3
  <2> HIDE DEF n
  <2>5. ASSUME NEW other
        PROVE  ActiveSomewhere(new, other)
                 <=> other = code \/ ActiveSomewhere(store, other)
    BY <2>1, <2>3, <2>4 DEF ActiveSomewhere
  <2>6. ASSUME NEW other
        PROVE  /\ IsActive(new, other) <=> ActiveSomewhere(new, other)
               /\ IsActive(store, other) <=> ActiveSomewhere(store, other)
    BY <1>1, ActiveIff
  <2> QED
    BY <2>5, <2>6 DEF new
<1> QED
  BY <1>2, <1>3

\* clear(): the code is not active afterwards, the others are as they were.
LEMMA ClearFaultInactive ==
  ASSUME NEW store, SoundStore(store), NEW code
  PROVE  /\ ~IsActive(ClearFault(store, code), code)
         /\ \A other : other # code
              => (IsActive(ClearFault(store, code), other)
                    <=> IsActive(store, other))
<1> DEFINE new == ClearFault(store, code)
<1>1. CASE Stored(store, code)
  <2> DEFINE i == IndexOf(store, code)
             entry == [store[i] EXCEPT !.active = FALSE]
  <2>1. i \in DOMAIN store /\ store[i].code = code
    BY <1>1, IndexFound
  <2>2. new = [store EXCEPT ![i] = entry]
    BY <1>1 DEF ClearFault
  <2>3. SoundStore(new)
    BY ClearFaultSound
  <2> HIDE DEF i, new
  <2>4. store[i] \in DtcEntry
    BY <2>1 DEF SoundStore
  <2>5. entry \in DtcEntry /\ entry.code = code /\ entry.active = FALSE
    BY <2>1, <2>4 DEF DtcEntry
  <2> HIDE DEF entry
  <2>6. ASSUME NEW other
        PROVE  ActiveSomewhere(new, other)
                 <=> IF other = code THEN FALSE ELSE ActiveSomewhere(store, other)
    BY <2>1, <2>2, <2>5, ChangedActive
  <2>7. ASSUME NEW other
        PROVE  /\ IsActive(new, other) <=> ActiveSomewhere(new, other)
               /\ IsActive(store, other) <=> ActiveSomewhere(store, other)
    BY <2>3, ActiveIff
  <2> QED
    BY <2>6, <2>7 DEF new
<1>2. CASE ~Stored(store, code)
  BY <1>2 DEF ClearFault, IsActive
<1> QED
  BY <1>1, <1>2

\* A condition handed to the store is what the store then says of it.
LEMMA MirrorActive ==
  ASSUME NEW store, SoundStore(store), NEW code \in Dtc,
         NEW present \in BOOLEAN, RoomForAll
  PROVE  /\ SoundStore(Mirror(store, code, present))
         /\ IsActive(Mirror(store, code, present), code) <=> present
         /\ \A other : other # code
              => (IsActive(Mirror(store, code, present), other)
                    <=> IsActive(store, other))
<1>1. CASE present
  <2>1. Mirror(store, code, present) = SetFault(store, code)
    BY <1>1 DEF Mirror
  <2>2. SoundStore(SetFault(store, code))
    BY SetFaultSound
  <2>3. /\ IsActive(SetFault(store, code), code)
        /\ \A other : other # code
             => (IsActive(SetFault(store, code), other)
                   <=> IsActive(store, other))
    BY SetFaultActive
  <2> QED
    BY <1>1, <2>1, <2>2, <2>3, Zenon
<1>2. CASE ~present
  <2>1. Mirror(store, code, present) = ClearFault(store, code)
    BY <1>2 DEF Mirror
  <2> QED
    BY <1>2, <2>1, ClearFaultSound, ClearFaultInactive
<1> QED
  BY <1>1, <1>2

\* What a cycle leaves in the store, given its conditions.
LEMMA FaultsOfCycle ==
  ASSUME SoundStore(faults), RoomForAll, NEW p, p.load_shed \in BOOLEAN,
         NEW d, d.lock_refused \in BOOLEAN, NEW lost \in BOOLEAN
  PROVE  LET store == FaultsAfter(p, d, lost)
         IN  /\ IsActive(store, "BatteryLow") <=> p.load_shed
             /\ IsActive(store, "CommsLost") <=> lost
             /\ d.lock_refused => IsActive(store, "LockRefusedDoorOpen")
<1> DEFINE f == When(d.lock_refused, SetFault(faults, "LockRefusedDoorOpen"),
                     faults)
           g == Mirror(f, "BatteryLow", p.load_shed)
           h == Mirror(g, "CommsLost", lost)
<1>1. FaultsAfter(p, d, lost) = h
  BY DEF FaultsAfter
<1>2. /\ "BatteryLow" \in Dtc /\ "CommsLost" \in Dtc
      /\ "LockRefusedDoorOpen" \in Dtc
  BY DEF Dtc
<1>3. SoundStore(f) /\ (d.lock_refused => IsActive(f, "LockRefusedDoorOpen"))
  BY <1>2, SetFaultSound, SetFaultActive DEF When
<1> HIDE DEF f
<1>4. /\ SoundStore(g)
      /\ IsActive(g, "BatteryLow") <=> p.load_shed
  BY <1>2, <1>3, MirrorActive
<1>5. d.lock_refused => IsActive(g, "LockRefusedDoorOpen")
  BY <1>2, <1>3, MirrorActive
<1> HIDE DEF g
<1>6. IsActive(h, "CommsLost") <=> lost
  BY <1>2, <1>4, MirrorActive
<1>7. /\ IsActive(h, "BatteryLow") <=> IsActive(g, "BatteryLow")
      /\ IsActive(h, "LockRefusedDoorOpen") <=> IsActive(g, "LockRefusedDoorOpen")
  BY <1>2, <1>4, MirrorActive
<1> QED
  BY <1>1, <1>4, <1>5, <1>6, <1>7

\* CodesMirrorConditions of CoreHistory: whatever was stored, wiped or
\* reported before, after a cycle the two codes say what its conditions were.
THEOREM CodesAlwaysMirrorConditions ==
  ASSUME RoomForAll
  PROVE  CoreSpec => []CodesMirrorConditions
<1>1. CoreInit => CodesMirrorConditions
  BY DEF CoreInit, CodesMirrorConditions
<1>2. ManagersSound /\ SoundStore(faults) /\ CodesMirrorConditions
        /\ [CoreNext]_history => CodesMirrorConditions'
  <2> SUFFICES ASSUME ManagersSound, SoundStore(faults),
                      CodesMirrorConditions, [CoreNext]_history
               PROVE  CodesMirrorConditions'
    OBVIOUS
  <2>1. CASE WatchCycle
    <3>1. PICK in \in InputRecords, lost \in BOOLEAN, dt \in Nat :
            Step(in, lost, dt)
      BY <2>1, DtAssumption DEF WatchCycle, SeeCycle, Cycle
    <3> DEFINE d == DoorAfter(in, dt)
               p == PowerAfter(in, dt)
    <3>2. SoundPower(p) /\ SoundDoor(d)
      BY InputsReadable, PowerCycleSound, DoorCycleSound DEF ManagersSound
    <3>3. p.load_shed \in BOOLEAN /\ d.lock_refused \in BOOLEAN
      BY <3>2 DEF SoundPower, PowerTyped, PowerRecord, SoundDoor, DoorRecord
    <3>4. /\ faults' = FaultsAfter(p, d, lost)
          /\ power' = p /\ comms_lost' = lost
      BY <3>1 DEF Step
    <3> HIDE DEF d, p
    <3>5. /\ IsActive(faults', "BatteryLow") <=> p.load_shed
          /\ IsActive(faults', "CommsLost") <=> lost
      BY <3>3, <3>4, FaultsOfCycle
    <3> QED
      BY <3>4, <3>5 DEF CodesMirrorConditions
  <2>2. CASE stepped' = FALSE
    BY <2>2 DEF CodesMirrorConditions
  <2>3. CASE UNCHANGED history
    BY <2>3 DEF history, vars, managers, coreVars, CodesMirrorConditions
  <2> QED
    BY <2>1, <2>2, <2>3 DEF CoreNext, WatchRequest, SeeOther, WatchReset, SeeRestart
<1> QED
  BY <1>1, <1>2, WatchedCore, ManagersAlwaysSound, StoreAlwaysSound, PTL
  DEF CoreSpec
-----------------------------------------------------------------------------
(* The answer to a lock request *)

\* A request for a lock locks, or is refused because a door is open.
LEMMA LockServed ==
  ASSUME NEW d, SoundDoor(d)
  PROVE  \/ RequestLock(d).state = "Locked"
         \/ RequestLock(d).lock_refused /\ RequestLock(d).door_open
<1>1. d \in DoorRecord
  BY DEF SoundDoor
<1>2. CASE d.state = "Locked"
  BY <1>2 DEF RequestLock
<1>3. CASE d.state # "Locked" /\ d.door_open
  <2>1. RequestLock(d) = [d EXCEPT !.lock_refused = TRUE]
    BY <1>3 DEF RequestLock
  <2> QED
    BY <1>1, <1>3, <2>1 DEF DoorRecord
<1>4. CASE d.state # "Locked" /\ ~d.door_open
  <2>1. RequestLock(d) = [OnLocked(d) EXCEPT !.welcome = 0, !.auto_lock = 0]
    BY <1>4 DEF RequestLock
  <2> QED
    BY <1>1, <2>1 DEF OnLocked, DoorRecord
<1> QED
  BY <1>1, <1>2, <1>3, <1>4 DEF DoorRecord

\* The time of the same cycle does not take the answer back: a locked car
\* stays locked, and a refusal stands unless the auto-lock now locks.
LEMMA AnswerStands ==
  ASSUME NEW d, SoundDoor(d), NEW dt \in Nat
  PROVE  /\ d.state = "Locked" => UpdateDoor(d, dt).state = "Locked"
         /\ d.lock_refused => \/ UpdateDoor(d, dt).lock_refused
                              \/ UpdateDoor(d, dt).state = "Locked"
<1> DEFINE w == WelcomeTick(d, dt)
<1>1. d \in DoorRecord /\ TimersMatch(d)
  BY DEF SoundDoor
<1>2. SoundDoor(w)
  BY WelcomeTickSound
<1>3. w.lock_refused = d.lock_refused /\ (d.state = "Locked" => w.state = "Locked")
  BY <1>1 DEF WelcomeTick, DoorRecord, TimersMatch, Expires
<1>4. w \in DoorRecord /\ TimersMatch(w)
  BY <1>2 DEF SoundDoor
<1> HIDE DEF w
<1>5. /\ w.state = "Locked" => AutoLockTick(w, dt).state = "Locked"
      /\ w.lock_refused => \/ AutoLockTick(w, dt).lock_refused
                           \/ AutoLockTick(w, dt).state = "Locked"
  <2>1. CASE ~Expires(w.auto_lock, dt)
    BY <1>4, <2>1 DEF AutoLockTick, DoorRecord
  <2>2. CASE Expires(w.auto_lock, dt) /\ w.state = "Unlocked" /\ ~w.door_open
    BY <1>4, <2>2 DEF AutoLockTick, OnLocked, DoorRecord
  <2>3. CASE Expires(w.auto_lock, dt) /\ ~(w.state = "Unlocked" /\ ~w.door_open)
    BY <1>4, <2>3 DEF AutoLockTick, DoorRecord
  <2> QED
    BY <2>1, <2>2, <2>3
<1> QED
  BY <1>3, <1>5 DEF UpdateDoor, w

\* The door manager at the end of a cycle that served a lock request.
LEMMA LockAnswered ==
  ASSUME ManagersSound, ~first_cycle, host.lock, ~host.unlock,
         NEW in \in InputRecords, NEW dt \in Nat
  PROVE  \/ DoorAfter(in, dt).state = "Locked"
         \/ DoorAfter(in, dt).lock_refused /\ in["door_open"]
<1> DEFINE d1 == SetDoorOpen(door, in["door_open"])
           d2 == When(Rise(in, "door_lock"),
                      IF d1.state = "Locked" THEN RequestUnlock(d1)
                      ELSE RequestLock(d1),
                      d1)
           d3 == RequestLock(d2)
<1>1. DoorAfter(in, dt) = UpdateDoor(d3, dt)
  BY DEF DoorAfter, DoorEdges, When
<1>2. SoundDoor(d1) /\ d1.door_open = in["door_open"]
  BY InputLevels, InputsReadable, SetDoorOpenSound
  DEF ManagersSound, SetDoorOpen, SoundDoor, DoorRecord
<1> HIDE DEF d1
<1>3. SoundDoor(d2) /\ d2.door_open = d1.door_open
  BY <1>2, RequestLockSound, RequestUnlockSound, OperationsClosedLock
     DEF When, ClosedLock
<1> HIDE DEF d2
<1>4. SoundDoor(d3) /\ d3.door_open = d2.door_open
  BY <1>3, RequestLockSound, OperationsClosedLock DEF ClosedLock
<1>5. d3.state = "Locked" \/ (d3.lock_refused /\ d3.door_open)
  BY <1>3, LockServed
<1> HIDE DEF d3
<1> QED
  BY <1>1, <1>2, <1>3, <1>4, <1>5, AnswerStands

\* Only a cycle or a reset takes the host's lock request back.
LEMMA OnlyCyclesServe ==
  ASSUME [Next]_vars, host \in HostRecord, host.lock, ~host'.lock
  PROVE  Cycle \/ Reset
<1>1. ASSUME NEW r PROVE [host EXCEPT !.mask = r[1], !.drives = r[2]].lock
  BY DEF HostRecord
<1>2. /\ [host EXCEPT !.lock = TRUE].lock
      /\ [host EXCEPT !.unlock = TRUE].lock
      /\ [host EXCEPT !.light_mode = TRUE].lock
  BY DEF HostRecord
<1>3. ~SetHostRequest
  BY <1>1 DEF SetHostRequest, Request
<1>4. ~RequestDoorLock /\ ~RequestDoorUnlock /\ ~RequestLightMode
  BY <1>2 DEF RequestDoorLock, RequestDoorUnlock, RequestLightMode, Request
<1>5. ~ReportFault /\ ~ClearDtc /\ ~UNCHANGED vars
  BY DEF ReportFault, ClearDtc, UseFaults, vars, coreVars
<1> QED
  BY <1>3, <1>4, <1>5 DEF Next

\* HostLockServed of BcmCore: whatever the driver and the timers do in the
\* same cycle, a request of the host's is never forgotten.
THEOREM HostLockAlwaysServed ==
  ASSUME RoomForAll
  PROVE  Spec => HostLockServed
<1> DEFINE Served ==
             \/ first_cycle'
             \/ door'.state = "Locked"
             \/ /\ inputs'.door_open
                /\ "LockRefused" \in {logged'[i] : i \in DOMAIN logged'}
                /\ IsActive(faults', "LockRefusedDoorOpen")
           A == host.lock /\ ~host'.lock /\ ~host.unlock => Served
<1>1. ManagersSound /\ CoreTypeOK /\ SoundStore(faults) /\ [Next]_vars => [A]_vars
  <2> SUFFICES ASSUME ManagersSound, CoreTypeOK, SoundStore(faults), [Next]_vars,
                      host.lock, ~host'.lock, ~host.unlock, ~first_cycle'
               PROVE  Served
    OBVIOUS
  <2>0. ~Reset
    BY DEF Reset
  <2>1. Cycle
    BY <2>0, OnlyCyclesServe DEF CoreTypeOK
  <2>2. PICK in \in InputRecords, lost \in BOOLEAN, dt \in Nat :
          Step(in, lost, dt)
    BY <2>1, DtAssumption DEF Cycle
  <2> DEFINE p == PowerAfter(in, dt)
             d == DoorAfter(in, dt)
             now == Seen(p, d, lost)
             l == LightingAfter(in, dt)
  <2>3. ~first_cycle
    BY <2>2 DEF Step
  <2>4. inputs' = in
    BY <2>2 DEF Step
  <2>5. d.state = "Locked" \/ (d.lock_refused /\ in["door_open"])
    BY <2>3, LockAnswered
  <2>6. /\ now \in HistoryRecord /\ d.lock_refused \in BOOLEAN
        /\ logged' = EdgeEvents(in, dt, l) \o StateEvents(d.lock_refused, now)
        /\ now = [ shed |-> power'.load_shed, comms |-> comms_lost',
                   door |-> door'.state ]
    BY <2>2, CycleSeen
  <2>7. now.door = d.state
    BY DEF Seen
  <2>8. p.load_shed \in BOOLEAN
    BY PowerCycleSound DEF ManagersSound, SoundPower, PowerTyped, PowerRecord
  <2>9. faults' = FaultsAfter(p, d, lost)
    BY <2>2 DEF Step
  <2> HIDE DEF p, d, now, l
  <2>10. CASE d.state = "Locked"
    <3>1. door'.state = "Locked"
      BY <2>6, <2>7, <2>10
    <3> QED
      BY <3>1
  <2>11. CASE d.lock_refused /\ in["door_open"]
    <3>1. TellsChange(logged', d.lock_refused, now)
      BY <2>6, CycleTells DEF CoreTypeOK
    <3>2. "LockRefused" \in {logged'[i] : i \in DOMAIN logged'}
      BY <2>11, <3>1 DEF TellsChange, Tells
    <3>3. IsActive(faults', "LockRefusedDoorOpen")
      <4>1. d.lock_refused \in BOOLEAN
        BY <2>6
      <4>2. /\ IsActive(FaultsAfter(p, d, lost), "CommsLost") <=> lost
            /\ d.lock_refused
                 => IsActive(FaultsAfter(p, d, lost), "LockRefusedDoorOpen")
        BY <2>8, <4>1, FaultsOfCycle
      <4> QED
        BY <2>9, <2>11, <4>2
    <3> QED
      BY <2>4, <2>11, <3>2, <3>3
  <2> QED
    BY <2>5, <2>10, <2>11
<1> QED
  BY <1>1, ManagersAlwaysSound, CoreTypedAlways, StoreAlwaysSound, PTL
  DEF Spec, HostLockServed
=============================================================================
