------------------------------ MODULE BcmTypes ------------------------------
(***************************************************************************)
(* The vocabulary the BCM managers share: the lamps and how each may be    *)
(* driven (services/bcm_types.h), the one-shot software timer              *)
(* (drivers/soft_timer.h) and the Schmitt trigger (drivers/filter.h).      *)
(*                                                                         *)
(* Times are milliseconds and analog values are permille of full scale, as *)
(* in the code; a configuration may give any scale to both, because the    *)
(* managers only compare and subtract them.                                *)
(***************************************************************************)
EXTENDS Naturals

CONSTANT
  Dt    \* the lengths, in ms, a control cycle may have (the dt_ms arguments)

ASSUME DtAssumption == Dt \subseteq Nat

-----------------------------------------------------------------------------
(* Lamps *)

LampId == { "Ignition", "Drl", "LowBeam", "HighBeam", "IndLeft", "IndRight",
            "Hazard", "Brake", "Reverse", "DoorLock" }

LampDrive == { "Off", "On", "Blink" }

LampState == [LampId -> LampDrive]

\* A default-constructed LampState.
AllDark == [id \in LampId |-> "Off"]

\* LampState::set, applied to every lamp of a set.
SetLamps(lamps, ids, drive) ==
  [id \in LampId |-> IF id \in ids THEN drive ELSE lamps[id]]

-----------------------------------------------------------------------------
(* SoftTimer. Every timer the managers own is one-shot, so its state is the *)
(* time it has left, 0 meaning that it is not running: start(0) does not    *)
(* run and an expiry stops it.                                              *)

Expires(timer, dt) == timer > 0 /\ dt >= timer

Elapse(timer, dt) == IF timer > dt THEN timer - dt ELSE 0

-----------------------------------------------------------------------------
(* Hysteresis::update. *)
Schmitt(on, low, high, value) ==
  \/ ~on /\ value >= high
  \/ on /\ value > low
=============================================================================
