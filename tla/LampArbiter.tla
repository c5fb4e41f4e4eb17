----------------------------- MODULE LampArbiter ----------------------------
(***************************************************************************)
(* The lamp arbiter (services/lamp_arbiter.cpp): the last word on what     *)
(* lights. It is a pure function of what the managers and the host want    *)
(* and of five conditions of the vehicle, applied rule after rule.         *)
(***************************************************************************)
EXTENDS BcmTypes

ArbiterInputs ==
  [ brake_pressed   : BOOLEAN,
    reverse_gear    : BOOLEAN,
    lamps_permitted : BOOLEAN,
    load_shed       : BOOLEAN,
    comms_lost      : BOOLEAN ]

\* is_essential(): the lamps that load shedding leaves alone.
Essential == {"Brake", "IndLeft", "IndRight", "Hazard", "LowBeam", "Reverse"}

SleepRule(lamps, arb) ==
  IF arb.lamps_permitted THEN lamps
  ELSE SetLamps(lamps, LampId \ {"DoorLock"}, "Off")

CommsRule(lamps, arb) ==
  IF arb.comms_lost THEN SetLamps(lamps, {"HighBeam", "Reverse"}, "Off")
  ELSE lamps

ShedRule(lamps, arb) ==
  IF arb.load_shed THEN SetLamps(lamps, LampId \ Essential, "Off") ELSE lamps

ReverseRule(lamps, arb) ==
  IF arb.reverse_gear THEN lamps ELSE SetLamps(lamps, {"Reverse"}, "Off")

BrakeRule(lamps, arb) ==
  SetLamps(lamps, {"Brake"}, IF arb.brake_pressed THEN "On" ELSE "Off")

\* Fault: the brake is applied first, and blanked again in Sleep.
ArbitrateBrakeFirst(lamps, arb) ==
  ReverseRule(
    ShedRule(CommsRule(SleepRule(BrakeRule(lamps, arb), arb), arb), arb), arb)

Arbitrate(lamps, arb) ==
  BrakeRule(
    ReverseRule(ShedRule(CommsRule(SleepRule(lamps, arb), arb), arb), arb),
    arb)

-----------------------------------------------------------------------------
(* What the rules together guarantee of the lamps that come out *)

\* The lamps that may be lit at all under the given conditions. Brake is
\* not among the lamps that sleep blanks: it is applied last.
Allowed(arb) ==
  { id \in LampId :
      /\ id = "Brake" => arb.brake_pressed
      /\ id = "Reverse" => arb.reverse_gear /\ ~arb.comms_lost
      /\ id = "HighBeam" => ~arb.comms_lost
      /\ id \notin Essential => ~arb.load_shed
      /\ id \notin {"DoorLock", "Brake"} => arb.lamps_permitted }

Lit(lamps) == {id \in LampId : lamps[id] # "Off"}

\* No lamp is lit that a rule forbids, the brake lamp follows the pedal, and
\* every lamp that no rule forbids is driven as it was wanted.
ObeysRules(out, wanted, arb) ==
  /\ Lit(out) \subseteq Allowed(arb)
  /\ arb.brake_pressed => out["Brake"] = "On"
  /\ \A id \in Allowed(arb) \ {"Brake"} : out[id] = wanted[id]
=============================================================================
