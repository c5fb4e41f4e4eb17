------------------------------ MODULE MCControl -----------------------------
(* The control cycle in seven scenes, each with what it takes to make the   *)
(* interesting things happen. In three the core is driven directly, with    *)
(* every sensor it knows; in four it runs inside the application, behind    *)
(* pins that bounce, a host that sends frames, a battery that is weak or    *)
(* hard to read.                                                            *)
EXTENDS AppHistory, CoreHistory

CONSTANT Scenes   \* the scenes played in a run

VARIABLE scene

coreHistories == <<told, effects, stepped>>
controlVars == <<appHistory, coreHistories, scene>>

CoreScenes == {"press", "lamps", "doors"}
AppScenes  == {"pedal", "flash", "host", "battery"}

ASSUME Scenes \subseteq CoreScenes \cup AppScenes

-----------------------------------------------------------------------------
(* The core *)

\* The dt of a cycle in these scenes, in which no flasher counts it.
CoreMs == 2

\* <<lever, pedal, battery>>: one lever stands for the hazard button, the gear
\* and nightfall, of which no rule and no manager relates any two.
\* While the battery is weak all is pressed; a weak battery by itself is among
\* the doors' inputs.
Situations ==
  { <<FALSE, FALSE, 1000>>, <<TRUE, FALSE, 1000>>, <<TRUE, TRUE, 0>> }

\* Where the lamps are the subject: the doors stay shut, and a press of the
\* ignition button is a short one.
LampInputs ==
  { [QuietInputs EXCEPT !.ignition = ign, !.hazard = s[1], !.brake = s[2],
                        !.reverse_gear = s[1], !.battery_permille = s[3],
                        !.ambient_permille = IF s[1] THEN 0 ELSE FullScale] :
      ign \in BOOLEAN, s \in Situations }

\* Where the doors are: lock button, door contact, and the battery for what is
\* stored and logged. The door and the battery meet nowhere but in the log.
DoorInputs ==
  { [QuietInputs EXCEPT !.door_lock = button, !.door_open = s[1],
                        !.battery_permille = s[2]] :
      button \in BOOLEAN, s \in {<<FALSE, 0>>, <<FALSE, 1000>>, <<TRUE, 1000>>} }

\* Where the presses are, of every length and in every power state.
PressInputs ==
  { [QuietInputs EXCEPT !.ignition = ign, !.battery_permille = 1000] :
      ign \in BOOLEAN }

AllInputs == LampInputs \cup DoorInputs \cup PressInputs

SceneInputs ==
  CASE scene = "lamps" -> {in \in LampInputs : ~(in.ignition /\ inputs.ignition)}
    [] scene = "doors" -> DoorInputs
    [] scene = "press" -> PressInputs

\* The host takes over some of the lamps, or lets everything go.
LampRequests ==
  { <<{}, AllDark>>,
    <<{"HighBeam", "Reverse", "Drl"}, SetLamps(AllDark, LampId, "On")>> }

\* The link may be lost, except together with what neither the rules nor the
\* managers relate to it.
MayBeLost(in) ==
  CASE scene = "lamps" -> ~in.brake /\ ~in.ignition
    [] scene = "doors" -> ~in.door_open
    [] scene = "press" -> FALSE

\* What the core is told of the battery counts as a reading.
CoreCycle ==
  /\ \E in \in SceneInputs, lost \in BOOLEAN :
       /\ lost => MayBeLost(in)
       /\ Step(in, lost, CoreMs)
       /\ weakest' = IF in.battery_permille < weakest THEN in.battery_permille
                     ELSE weakest
  /\ SeeCycle

CoreRequest ==
  /\ \/ scene = "lamps" /\ SetHostRequest
     \/ scene \in {"press", "lamps"} /\ RequestLightMode
     \/ scene = "doors" /\ RequestDoorLock
     \/ scene = "doors" /\ RequestDoorUnlock
     \/ scene = "doors" /\ ReportFault
     \/ scene = "doors" /\ ClearDtc
  /\ SeeOther
  /\ UNCHANGED weakest

CoreReset == Reset /\ SeeRestart /\ UNCHANGED weakest

CoreScene ==
  /\ scene \in CoreScenes
  /\ CoreCycle \/ CoreRequest \/ CoreReset
  /\ UNCHANGED <<scene, at, pinVars, link, senseVars, power_seen, answers,
                 pin_past, still, granted>>

-----------------------------------------------------------------------------
(* The application *)

PinLevels ==
  CASE scene = "pedal" -> SUBSET {"brake", "door_lock"}
    [] scene = "flash" ->
         IF power.state = "Sleep" THEN {{}, {"ignition"}}
         ELSE {{}, {"ind_left"}, {"hazard"}}
    [] OTHER -> {{}}

\* The board may be started with the pedal down.
StartLevels == IF scene = "pedal" THEN {{}, {"brake"}} ELSE {{}}

SetLamp(lamp, on) ==
  [cmd |-> "SetLamp", response |-> FALSE, len |-> 2, lamp |-> lamp, on |-> on]

Bare(cmd) ==
  [cmd |-> cmd, response |-> FALSE, len |-> 0, lamp |-> NoLamp, on |-> FALSE]

HostFrames ==
  { SetLamp("DoorLock", FALSE), SetLamp("Drl", TRUE), SetLamp(NoLamp, TRUE),
    Bare("SetLamp"), Bare("DoorLock"), Bare("DoorUnlock"), Bare("ClearDtc"),
    Bare("Reset"), Bare("LogEvent"), Bare("GetDtc"),
    [Bare("DoorUnlock") EXCEPT !.response = TRUE],
    [Bare("Ping") EXCEPT !.len = MaxPayload],
    [Bare("GetLamp") EXCEPT !.len = 1, !.lamp = "DoorLock"] }

\* All of them can come in.
ASSUME HostFrames \subseteq Frames

Polls ==
  CASE scene = "host" -> {<< >>} \cup {<<a>> : a \in HostFrames}
         \cup {<<a, b>> : a, b \in {Bare("DoorUnlock"), Bare("DoorLock"),
                                   SetLamp("DoorLock", TRUE),
                                   SetLamp("DoorLock", FALSE)}}
    [] scene = "pedal" -> {<<Bare("GetStatus")>>}
    [] OTHER -> {<< >>}

RawSamples == IF scene = "battery" THEN {0, 6, 7, 8, 20} ELSE {20}

AppScene ==
  /\ scene \in AppScenes
  /\ \/ /\ \E levels \in PinLevels, overrun \in {scene = "pedal", FALSE} :
             HGather(levels, overrun)
        /\ SeeOther
     \/ HStepCore /\ SeeCycle
     \/ (\E requests \in Polls : HPoll(requests)) /\ SeeOther
     \/ (\E raw \in RawSamples : HSampleBattery(raw)) /\ SeeOther
     \/ (\E levels \in StartLevels : HBoot(levels)) /\ SeeRestart
  /\ UNCHANGED scene

-----------------------------------------------------------------------------

ControlInit ==
  /\ scene \in Scenes
  /\ \E levels \in StartLevels : AppInit(levels) /\ HistoryStart(levels)
  /\ told = Untold /\ effects = 1 /\ stepped = FALSE

ControlNext == CoreScene \/ AppScene

ControlSpec == ControlInit /\ [][ControlNext]_controlVars

\* Every level of the filter in permille.
Readings == {50 * n : n \in 0 .. 20}
=============================================================================
