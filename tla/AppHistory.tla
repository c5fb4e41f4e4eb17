------------------------------ MODULE AppHistory ----------------------------
(***************************************************************************)
(* The application with history variables: what each pin has really been   *)
(* like, how long each flasher has shown its level, the weakest battery    *)
(* reading since the start, and the lamp levels the host has been granted. *)
(***************************************************************************)
EXTENDS BcmApp

VARIABLES
  pin_past,   \* per pin: its level, for how long, and its last steady level
  still,      \* per lamp: ms its pin has been at its present level
  weakest,    \* the lowest conversion since the start, in permille
  granted     \* lamps the host has set, with the level it asked for

histories == <<pin_past, still, weakest, granted>>
appHistory == <<appVars, histories>>

\* A level is steady once samples have shown it for DebounceMs.
Watched(past, level) ==
  LET ms == IF level # past.level THEN 0
            ELSE IF past.ms + CycleMs > DebounceMs THEN DebounceMs
            ELSE past.ms + CycleMs
  IN  [ level |-> level, ms |-> ms,
        steady |-> IF ms >= DebounceMs THEN level ELSE past.steady ]

FreshPast(levels) ==
  [pin \in Pins |-> [ level |-> pin \in levels, ms |-> DebounceMs,
                      steady |-> pin \in levels ]]

HistoryStart(levels) ==
  /\ pin_past = FreshPast(levels)
  /\ still = [id \in LampId |-> 0]
  /\ weakest = 1000
  /\ granted = << >>

StillCap == BlinkOnMs + BlinkOffMs + CycleMs

NextStill(id) ==
  CASE leds'[id].output # leds[id].output -> 0
    [] leds'[id].output = leds[id].output /\ ~leds'[id].blinking -> 0
    [] OTHER -> IF still[id] + CycleMs > StillCap THEN StillCap
                ELSE still[id] + CycleMs

\* What the answers to a poll's requests grant the host.
IsGrant(request) ==
  request.cmd = "SetLamp" /\ Verdict(request) = "Ok" /\ ~BadLamp(request)

\* The requests that grant the host this lamp.
Grants(requests, lamp) ==
  {i \in DOMAIN requests : IsGrant(requests[i]) /\ requests[i].lamp = lamp}

GrantedBy(requests) ==
  LET set == {lamp \in LampId : Grants(requests, lamp) # {}}
      last(lamp) == CHOOSE i \in Grants(requests, lamp) :
                      \A j \in Grants(requests, lamp) : j <= i
  IN  [lamp \in DOMAIN granted \cup set |->
         IF lamp \in set THEN requests[last(lamp)].on ELSE granted[lamp]]

HGather(levels, overrun) ==
  /\ GatherInputs(levels, overrun)
  /\ pin_past' = [pin \in Pins |-> Watched(pin_past[pin], pin \in levels)]
  /\ UNCHANGED <<still, weakest, granted>>

HStepCore ==
  /\ StepCore
  /\ still' = [id \in LampId |-> NextStill(id)]
  /\ UNCHANGED <<pin_past, weakest, granted>>

HPoll(requests) ==
  /\ Poll(requests)
  /\ granted' = GrantedBy(requests)
  /\ UNCHANGED <<pin_past, still, weakest>>

HSampleBattery(raw) ==
  /\ SampleBattery(raw)
  /\ weakest' = LET now == (raw * 1000) \div AdcFullScale
                IN  IF now < weakest THEN now ELSE weakest
  /\ UNCHANGED <<pin_past, still, granted>>

HBoot(levels) ==
  /\ HostReset(levels) \/ WatchdogReset(levels)
  /\ pin_past' = FreshPast(levels)
  /\ still' = [id \in LampId |-> 0]
  /\ weakest' = 1000
  /\ granted' = << >>

\* Whatever the pins, the host and the battery do.
AppNext ==
  \/ \E levels \in Levels, overrun \in BOOLEAN : HGather(levels, overrun)
  \/ HStepCore
  \/ \E requests \in Seq(Frames) : HPoll(requests)
  \/ \E raw \in 0 .. AdcFullScale : HSampleBattery(raw)
  \/ \E levels \in Levels : HBoot(levels)

AppSpec ==
  /\ \E levels \in Levels : AppInit(levels) /\ HistoryStart(levels)
  /\ [][AppNext]_appHistory

-----------------------------------------------------------------------------
(* Properties *)

\* SRS-PERF-001 through every layer: once the samples have shown the pedal,
\* pressed or released, for DebounceMs the brake lamp's pin follows within
\* that same cycle, and nothing shorter ever reaches it; so it is with what
\* every switch tells the core.
LampFollowsPedal ==
  at = "poll" =>
    /\ leds["Brake"].output = pin_past["brake"].steady
    /\ \A pin \in Pins : inputs[pin] = pin_past[pin].steady

\* Indicators flash: while a lamp is told to blink, cycle after cycle anew,
\* its pin never shows one level for longer than that phase lasts.
FlashersFlash ==
  \A id \in LampId : leds[id].blinking =>
    still[id] < PhaseMs(leds[id].output)

\* The two bitmaps of one GET_STATUS answer are of the same cycle: the brake
\* lamp is lit in it exactly if the pedal is pressed in it.
StatusOfOneCycle ==
  \A i \in DOMAIN answers :
    answers[i].cmd = "GetStatus" =>
      ("Brake" \in answers[i].data.lamps <=> "brake" \in answers[i].data.switches)

\* The host reads what it wrote: a lamp it was allowed to set, in an earlier
\* poll, is reported at that level from the next cycle on for as long as the
\* link holds and the board runs, unless a rule of the arbiter decides about
\* that lamp. What a lost link leaves of it is NothingHeldOnLoss's question.
HostReadsItsWrites ==
  at = "poll" /\ ~comms_lost =>
    \A lamp \in DOMAIN granted \cap (Allowed(Conditions(inputs, comms_lost, power))
                                        \ {"Brake"}) :
      (lamps[lamp] # "Off") <=> granted[lamp]

\* ICD 6 and the arbiter's comment: on link loss the outputs go to a defined
\* state "rather than holding" what the host last commanded. So nothing, save
\* the brake lamp, is lit then that no manager wants lit.
NothingHeldOnLoss ==
  at = "poll" /\ comms_lost =>
    Lit(lamps) \ {"Brake"} \subseteq Lit(Wanted(power, lighting, door))

\* The host's manual and its code expect a refused DOOR_LOCK to be answered
\* NOT_PERMITTED: then the poll that took the request has answered so.
RefusalIsAnswered ==
  [][ host.lock /\ ~host'.lock
        /\ "LockRefused" \in {logged'[i] : i \in DOMAIN logged'}
        => \E i \in DOMAIN answers :
             answers[i].cmd = "DoorLock" /\ answers[i].status = "NotPermitted"
    ]_appHistory

\* With a healthy battery no load is shed and no low battery is reported,
\* from the very start on: neither the reading before the first conversion
\* nor a filter on its way up is taken for a low battery.
NoShedOnHealthyBattery ==
  weakest >= BatteryOk => ~power.load_shed /\ ~IsActive(faults, "BatteryLow")
=============================================================================
