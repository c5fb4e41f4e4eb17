----------------------------- MODULE LightingMgr ----------------------------
(***************************************************************************)
(* The lighting manager (services/lighting_mgr.cpp): the light-switch      *)
(* machine, the auto-headlight that works the same machine from the        *)
(* ambient reading, and the indicator machine with its hazard latch.       *)
(***************************************************************************)
EXTENDS BcmTypes

CONSTANTS
  AmbientDark,     \* Config::ambient_dark_permille
  AmbientLight,    \* Config::ambient_light_permille
  FullScale,       \* 1000, full scale of an analog value
  AmbientLevels    \* the ambient readings considered

ASSUME LightingConfig ==
  /\ AmbientDark \in Nat
  /\ AmbientLight \in Nat
  /\ FullScale \in Nat
  /\ AmbientDark < AmbientLight
  /\ AmbientLevels \subseteq Nat

VARIABLE lighting

LightState == {"Off", "Parking", "Drl", "LowBeam", "HighBeam"}
IndState   == {"Idle", "Left", "Right", "Hazard"}

FreshLighting ==
  [ light          |-> "Off",
    auto           |-> FALSE,      \* auto_headlight_active
    manual         |-> FALSE,      \* manual_override
    indicator      |-> "Idle",
    hazard_latched |-> FALSE,
    dark           |-> FALSE,
    dark_known     |-> FALSE ]

-----------------------------------------------------------------------------
(* The light switch and the auto-headlight: kLightTable. "Fault:" introduces *)
(* a variant, not part of the model, of the definition that follows it.     *)

AfterLight ==
  [ Off |-> "Parking", Parking |-> "Drl", Drl |-> "LowBeam",
    LowBeam |-> "HighBeam", HighBeam |-> "Off" ]

\* Fault: the driver's claim survives the step to Off.
NextModeKeepsManual(l) ==
  [l EXCEPT !.light = AfterLight[@], !.manual = TRUE]

\* Stepping to Off hands the lamps back to the auto-headlight.
NextMode(l) ==
  IF l.light = "HighBeam"
  THEN [l EXCEPT !.light = "Off", !.manual = FALSE, !.auto = FALSE]
  ELSE [l EXCEPT !.light = AfterLight[@], !.manual = TRUE]

\* Fault: the driver's claim survives.
AllOffKeepsManual(l) == [l EXCEPT !.light = "Off", !.auto = FALSE]

AllOff(l) == [l EXCEPT !.light = "Off", !.manual = FALSE, !.auto = FALSE]

\* Fault: no guard, the driver's choice is overruled.
AutoOnUnguarded(l) ==
  IF l.light \in {"Off", "Parking", "Drl"}
  THEN [l EXCEPT !.light = "LowBeam", !.auto = TRUE]
  ELSE l

\* Rows AutoOn, with the guard auto_allowed.
AutoOn(l) ==
  IF l.light \in {"Off", "Parking", "Drl"} /\ ~l.manual
  THEN [l EXCEPT !.light = "LowBeam", !.auto = TRUE]
  ELSE l

\* Row AutoOff, with the guard auto_owns_lamps.
AutoOff(l) ==
  IF l.light = "LowBeam" /\ l.auto
  THEN [l EXCEPT !.light = "Off", !.auto = FALSE]
  ELSE l

\* Fault: a reading above full scale wraps in 16 bits.
InvertedWraps(level) ==
  IF level > FullScale THEN 65536 + FullScale - level ELSE FullScale - level

Inverted(level) == IF level > FullScale THEN 0 ELSE FullScale - level

\* Fault: one threshold for both directions.
UpdateAmbientPlain(l, level) ==
  LET dark == Inverted(level) >= AmbientLight
      seen == [l EXCEPT !.dark = dark, !.dark_known = TRUE]
  IN  CASE dark -> AutoOn(seen)
        [] ~dark /\ l.dark_known -> AutoOff(seen)
        [] ~dark /\ ~l.dark_known -> seen

\* The trigger works on the complement of the reading. The first reading
\* may switch the lamps on but not off.
UpdateAmbient(l, level) ==
  LET dark == Schmitt(l.dark, AmbientDark, AmbientLight, Inverted(level))
      seen == [l EXCEPT !.dark = dark, !.dark_known = TRUE]
  IN  CASE dark -> AutoOn(seen)
        [] ~dark /\ l.dark_known -> AutoOff(seen)
        [] ~dark /\ ~l.dark_known -> seen

-----------------------------------------------------------------------------
(* The indicators: kIndTable *)

\* A turn lever pressed again goes back to Idle; under Hazard no row matches.
PressLeft(l) ==
  CASE l.indicator = "Left" -> [l EXCEPT !.indicator = "Idle"]
    [] l.indicator \in {"Idle", "Right"} -> [l EXCEPT !.indicator = "Left"]
    [] l.indicator = "Hazard" -> l

PressRight(l) ==
  CASE l.indicator = "Right" -> [l EXCEPT !.indicator = "Idle"]
    [] l.indicator \in {"Idle", "Left"} -> [l EXCEPT !.indicator = "Right"]
    [] l.indicator = "Hazard" -> l

\* Fault: the latch is not released.
CancelKeepsLatch(l) == [l EXCEPT !.indicator = "Idle"]

Cancel(l) == [l EXCEPT !.indicator = "Idle", !.hazard_latched = FALSE]

PressHazard(l) ==
  IF l.hazard_latched
  THEN Cancel(l)
  ELSE [l EXCEPT !.indicator = "Hazard", !.hazard_latched = TRUE]

\* reset() leaves the ambient trigger where it was.
ResetLighting(l) == [FreshLighting EXCEPT !.dark = l.dark]

-----------------------------------------------------------------------------
(* apply(): the lamps the manager wants lit *)

\* Fault: the high beam replaces the low beam.
SteadyLampsSwitchOver(l) ==
  CASE l.light = "Off" -> {}
    [] l.light \in {"Parking", "Drl"} -> {"Drl"}
    [] l.light = "LowBeam" -> {"Drl", "LowBeam"}
    [] l.light = "HighBeam" -> {"Drl", "HighBeam"}

SteadyLamps(l) ==
  CASE l.light = "Off" -> {}
    [] l.light \in {"Parking", "Drl"} -> {"Drl"}
    [] l.light = "LowBeam" -> {"Drl", "LowBeam"}
    [] l.light = "HighBeam" -> {"Drl", "LowBeam", "HighBeam"}

FlashingLamps(l) ==
  CASE l.indicator = "Idle" -> {}
    [] l.indicator = "Left" -> {"IndLeft"}
    [] l.indicator = "Right" -> {"IndRight"}
    [] l.indicator = "Hazard" -> {"IndLeft", "IndRight", "Hazard"}

-----------------------------------------------------------------------------
(* The class on its own, called in any order *)

LightingInit == lighting = FreshLighting

StepMode     == lighting' = NextMode(lighting)
ForceOff     == lighting' = AllOff(lighting)
SenseLight(level) == lighting' = UpdateAmbient(lighting, level)
TurnLeft     == lighting' = PressLeft(lighting)
TurnRight    == lighting' = PressRight(lighting)
ToggleHazard == lighting' = PressHazard(lighting)
CancelTurn   == lighting' = Cancel(lighting)
RestartLighting == lighting' = ResetLighting(lighting)

LightingNext ==
  \/ StepMode
  \/ ForceOff
  \/ \E level \in AmbientLevels : SenseLight(level)
  \/ TurnLeft
  \/ TurnRight
  \/ ToggleHazard
  \/ CancelTurn
  \/ RestartLighting

LightingSpec == LightingInit /\ [][LightingNext]_lighting

-----------------------------------------------------------------------------
(* Properties *)

LightingRecord ==
  [ light          : LightState,
    auto           : BOOLEAN,
    manual         : BOOLEAN,
    indicator      : IndState,
    hazard_latched : BOOLEAN,
    dark           : BOOLEAN,
    dark_known     : BOOLEAN ]

\* The type of the manager's state.
LightingTypeOK == lighting \in LightingRecord

\* Who owns the lamps. The auto-headlight's claim outlives a step to
\* HighBeam by the driver, but then the driver's claim is recorded too; it
\* never coexists with a manual LowBeam, which AutoOff would switch off.
Ownership(l) ==
  /\ l.auto => \/ l.light = "LowBeam" /\ ~l.manual
               \/ l.light = "HighBeam" /\ l.manual
  /\ l.manual => l.light # "Off"
  /\ l.light # "Off" => l.auto \/ l.manual

\* Lamps that are on have an owner, and only one who may switch them off,
\* through every mix of presses, dusk, dawn, forced-off and reset.
LampOwnership == Ownership(lighting)

\* The latch is what hazard presses toggle on, the state is what is lit; if
\* they ever parted, a press would light the hazards twice or not at all.
HazardLatch(l) == l.hazard_latched <=> l.indicator = "Hazard"

HazardLatched == HazardLatch(lighting)

\* The auto-headlight never changes lamps that the driver has chosen, and
\* a driver's lever never ends the hazards.
DriverAndHazardStand ==
  [][ /\ (\E level \in AmbientLevels : SenseLight(level)) /\ lighting.manual
           => lighting'.light = lighting.light
      /\ lighting.indicator = "Hazard" /\ lighting'.indicator # "Hazard"
           => ToggleHazard \/ CancelTurn \/ RestartLighting ]_lighting
=============================================================================
