--------------------------- MODULE LightingHistory --------------------------
(***************************************************************************)
(* The lighting manager with history variables: what kind of call the last *)
(* one was, and when the auto-headlight has switched the beam by itself.   *)
(*                                                                         *)
(* Config's comments put the two thresholds on the reading, the tests and  *)
(* the code on its complement. The histories use neither: a reading is     *)
(* dark or bright here only if it is so by both.                           *)
(***************************************************************************)
EXTENDS LightingMgr

VARIABLES
  sensed,        \* the last call: "dark", "bright" or "between" for a
                 \* reading, "other" for anything else
  switches,      \* how often readings have switched the beam since the
                 \* driver's last call, counted up to 2
  switched_at    \* the reading that last did

lightHistories == <<sensed, switches, switched_at>>
lightingHistory == <<lighting, lightHistories>>

Dark(level)   == level < AmbientDark /\ level + AmbientLight <= FullScale
Bright(level) == level > AmbientLight /\ level + AmbientDark >= FullScale

Kind(level) ==
  CASE Dark(level) -> "dark"
    [] Bright(level) -> "bright"
    [] ~Dark(level) /\ ~Bright(level) -> "between"

HLightingInit ==
  /\ LightingInit
  /\ sensed = "other"
  /\ switches = 0
  /\ switched_at = 0

BeamChanges == lighting'.light # lighting.light

HSenseLight(level) ==
  /\ SenseLight(level)
  /\ sensed' = Kind(level)
  /\ switches' = IF BeamChanges /\ switches < 2 THEN switches + 1 ELSE switches
  /\ switched_at' = IF BeamChanges THEN level ELSE switched_at

HSwitchCall ==
  /\ StepMode \/ ForceOff \/ RestartLighting
  /\ sensed' = "other"
  /\ switches' = 0
  /\ UNCHANGED switched_at

HTurnCall ==
  /\ TurnLeft \/ TurnRight \/ ToggleHazard \/ CancelTurn
  /\ sensed' = "other"
  /\ UNCHANGED <<switches, switched_at>>

HLightingNext ==
  \/ \E level \in AmbientLevels : HSenseLight(level)
  \/ HSwitchCall
  \/ HTurnCall

HLightingSpec == HLightingInit /\ [][HLightingNext]_lightingHistory

-----------------------------------------------------------------------------
(* Properties *)

\* A dark reading leaves the low beam on, whatever came before, unless the
\* driver has chosen; a bright one leaves none that the auto-headlight lit.
\* Readings above full scale are bright. What is dark or bright by the
\* comments in bcm_config.h and not by the code, or the other way round (500
\* switches the beam on, though above "above this, switch it off again"), is
\* left open here: see the README.
AutoFollowsDusk ==
  /\ sensed = "dark" /\ ~lighting.manual => lighting.light = "LowBeam"
  /\ sensed = "bright" => ~(lighting.light = "LowBeam" /\ lighting.auto)

\* The beam does not flicker at dusk: as long as the driver leaves the light
\* switch alone, two readings that switch it one after the other lie at least
\* the hysteresis apart, wherever that lies on the scale. Only the first
\* reading to switch it since the driver's hand left may lie anywhere, since
\* it may only catch up with a darkness noticed before.
NoChatter ==
  [][ \A level \in AmbientLevels :
        HSenseLight(level) /\ BeamChanges /\ switches = 2
          => \/ level >= switched_at + (AmbientLight - AmbientDark)
             \/ switched_at >= level + (AmbientLight - AmbientDark)
    ]_lightingHistory
=============================================================================
