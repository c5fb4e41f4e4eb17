------------------------------- MODULE Drivers ------------------------------
(***************************************************************************)
(* What stands between the pins and the logic: the debouncer of a switch   *)
(* (drivers/debounce.h, drv_button.h), the flasher of a lamp (blink.h,     *)
(* drv_led.h) and the smoothed analog input (filter.h, drv_adc). Each is   *)
(* a record for the object's members and an operator per method.           *)
(***************************************************************************)
EXTENDS Naturals

CONSTANTS
  DebounceMs,      \* kDefaultDebounceMs
  BlinkOnMs,       \* Config::indicator_on_ms
  BlinkOffMs,      \* Config::indicator_off_ms
  FilterWeight,    \* 2^shift of the battery's ExpFilter
  AdcFullScale     \* Adc::kFullScale

ASSUME DriverConfig ==
  /\ DebounceMs \in Nat \ {0}
  /\ BlinkOnMs \in Nat \ {0}
  /\ BlinkOffMs \in Nat \ {0}
  /\ FilterWeight \in Nat \ {0}
  /\ AdcFullScale \in Nat \ {0}

\* The counters are 16 bits wide and stick at their largest value.
Saturated(ms) == IF ms > 65535 THEN 65535 ELSE ms

-----------------------------------------------------------------------------
(* Debouncer *)

\* Button::init: the level found at the start counts as settled.
FreshButton(level) == [state |-> level, candidate |-> level, elapsed |-> 0]

\* Fault: a glitch does not restart the count.
SampledKeepsCount(b, raw, dt) ==
  LET held == Saturated(b.elapsed + dt)
  IN  CASE raw = b.state -> [b EXCEPT !.candidate = raw]
        [] raw # b.state /\ held < DebounceMs ->
             [b EXCEPT !.candidate = raw, !.elapsed = held]
        [] raw # b.state /\ held >= DebounceMs -> FreshButton(raw)

\* update(): a level counts once it has been the same for DebounceMs.
Sampled(b, raw, dt) ==
  LET held == Saturated(b.elapsed + dt)
  IN  CASE raw # b.candidate -> [b EXCEPT !.candidate = raw, !.elapsed = 0]
        [] raw = b.candidate /\ raw = b.state -> [b EXCEPT !.elapsed = 0]
        [] raw = b.candidate /\ raw # b.state /\ held < DebounceMs ->
             [b EXCEPT !.elapsed = held]
        [] raw = b.candidate /\ raw # b.state /\ held >= DebounceMs ->
             FreshButton(raw)

-----------------------------------------------------------------------------
(* Blinker and Led. The pin carries output. *)

Steady(level) == [blinking |-> FALSE, elapsed |-> 0, output |-> level]

Flash(elapsed, output) ==
  [blinking |-> TRUE, elapsed |-> elapsed, output |-> output]

\* Fault: set_blink() restarts a flasher that is already flashing.
StartBlinkAgain(led) == Flash(0, TRUE)

\* set_blink(): the configured times never change while it flashes.
StartBlink(led) == IF led.blinking THEN led ELSE Flash(0, TRUE)

PhaseMs(output) == IF output THEN BlinkOnMs ELSE BlinkOffMs

Flashing == [blinking : {TRUE}, elapsed : Nat, output : BOOLEAN]

\* The phases a long dt has passed are all consumed.
Phase[led \in Flashing] ==
  IF led.elapsed < PhaseMs(led.output) THEN led
  ELSE Phase[Flash(led.elapsed - PhaseMs(led.output), ~led.output)]

\* Blinker::update
Advanced(led, dt) ==
  IF led.blinking THEN Phase[Flash(Saturated(led.elapsed + dt), led.output)]
  ELSE led

\* One lamp's turn in drive_outputs().
Driven(led, drive, dt) ==
  CASE drive = "On"    -> Steady(TRUE)
    [] drive = "Off"   -> Steady(FALSE)
    [] drive = "Blink" -> Advanced(StartBlink(led), dt)

-----------------------------------------------------------------------------
(* ExpFilter and AnalogInput. The accumulator is 0 until the first sample   *)
(* seeds it; after it, y += (x - y) / FilterWeight.                         *)

FreshFilter == [primed |-> FALSE, acc |-> 0]

\* Fault: the filter starts from zero.
FilteredUnseeded(filter, sample) ==
  [primed |-> TRUE,
   acc |-> filter.acc - (filter.acc \div FilterWeight) + sample]

Filtered(filter, sample) ==
  [primed |-> TRUE,
   acc |-> IF filter.primed
           THEN filter.acc - (filter.acc \div FilterWeight) + sample
           ELSE sample * FilterWeight]

Permille(filter) == ((filter.acc \div FilterWeight) * 1000) \div AdcFullScale
=============================================================================
