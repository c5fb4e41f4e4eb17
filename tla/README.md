# A formal model of the BCM simulator

TLA+ specifications of the body control module in this repository, the TLC
configurations that check them on small instances, and TLAPS proofs of their
main theorems for every value of the constants. The definitions follow the C++
under `firmware/` and, for the other end of the link, the C# under `desktop/`;
`PROJECT.json` names, for each of them, the lines it models, and for each
property a plausible bug that breaks it.

## 1. The system

The firmware reads switches and analog values, decides every 5 ms which lamps
and horn output they call for, and answers a diagnostic host over a UART. A
Windows program is that host. The decision logic is plain C++ without hardware
access (`firmware/services`), so the same code runs on the target, under unit
tests and in a software-in-the-loop runner.

| Component | State | Operations | Modelled |
|---|---|---|---|
| Control cycle, `services/bcm_core` | levels of this and the last cycle, ignition hold time, host requests, remembered values for logging | `set_inputs`, `set_comms_lost`, `step`, `set_host_request`, `request_*`, `reset` | `BcmCore` |
| Door manager, `services/door_mgr` | lock state, door contact, welcome and auto-lock timers, three one-shot flags | lock, unlock, door contact, time, `take_*`, reset | `DoorMgr` |
| Power manager, `services/power_mgr` | Sleep/Wake/Run/Shutdown, two timers, battery trigger, load shedding | ignition on/off, battery reading, time, reset | `PowerMgr` |
| Lighting manager, `services/lighting_mgr` | light mode, auto and manual claims, indicator, hazard latch, darkness trigger | mode, off, ambient reading, left, right, hazard, cancel, reset | `LightingMgr` |
| Lamp arbiter, `services/lamp_arbiter` | none | five rules in order | `LampArbiter` |
| Horn manager, `services/horn_mgr.h` | chirps left, timer, held input and its time | hold, chirp, time, reset | `HornMgr` |
| Fault store, `services/fault_mgr` | up to 8 codes with counter and active flag | set, clear, clear all, list | `FaultMgr` |
| Timers, triggers, transition tables, `drivers/soft_timer.h`, `filter.h`, `services/fsm.h` | remaining time, trigger level, state | update, dispatch | `BcmTypes`, folded into the managers |
| Commands, `app/commands.cpp` | none of its own | twelve handlers behind a table | `Commands` |
| Application glue, `app/bcm_app.cpp` | what the last cycle left for the next one and for the host | `init`, `gather_inputs`, `step`, `drive_outputs` | `BcmApp` |
| Switch input, lamp output, battery, `debounce.h`, `blink.h`, `drv_led.h`, `filter.h`, `drv_adc` | debounce counters, flash phase, smoothed reading | update, drive, sample | `Drivers`, `BcmApp` |
| Link, `services/comm_mgr`, `dispatcher` | time since a frame, lost or not | `poll`, `send`, `dispatch` | `CommMgr`, `Commands` |
| Frame codec, `frame_codec`, `crc8.h`, `protocol.h` | parser state over bytes | `encode`, `feed` | `FrameParser` |
| UART driver, `drivers/drv_uart`, `ring_buffer.h` | two rings shared with the interrupt, enable bits of CR1, overrun flag | read, write, `take_overrun`, `on_irq` | `UartRings` |
| Log, `services/logger` | ring of 32 records, count of the overwritten | log, pop | `Tasks` (the ring), `BcmCore` (which events) |
| Tasks, `app/rtos_app.cpp`, `drv_watchdog` | five tasks, log queue, check-in bits | one loop per task | `Tasks` |
| Diagnostics, `services/diag_mgr` | verdicts of the power-on test, running health | record, survey, watchdog gate | `DiagMgr`, in `Tasks` |
| Desktop client and view model, `desktop/.../BcmClient.cs`, `MainViewModel.cs` | response queue, reader thread, poll timer, what the interface's thread waits for | connect, disconnect, request, read loop, poll, clicks | `HostLink` |
| Self-test, board support, start-up, SIL runner, tests, tools, docs | - | - | no |

### How the parts interact

* The control task calls `BcmApp::step`: `gather_inputs` hands levels, link
  state and host requests to the core, `BcmCore::step` runs, `drive_outputs`
  writes the pins, and `CommMgr::poll` handles the frames that have come in. The
  host's requests therefore reach the core in the *next* cycle, and a status reply
  mixes what the cycle was given with what it made of it.
* The battery is converted by the sensor task, between two cycles of the control
  task, and a reset asked for by the host or forced by the watchdog may come at any
  point of a cycle.
* Inside `step` the managers do not know each other. The core calls them in a
  fixed order (edges, sensors, timers, one-shot flags, fault mirror, log, lamps,
  merge of the host's drives, arbiter, horn), and that order is what decides what
  happens when several things fall into one cycle.
* The interrupt shares the UART rings with the control and logger tasks; the
  logger pipeline is log ring (control task) -> monitor task -> queue -> logger
  task -> UART. The watchdog task waits for the others' check-in bits and refreshes
  the independent watchdog (IWDG) when all are there and the board is healthy.
* The host sends a request, waits for an answer with the same command, and gives
  up after a timeout; events arrive in between and are shown by a call into the
  thread that may be the one waiting.

### What is hard here

Much of the code is sequential, and its difficulty is in *long sequences of legal
calls*: a shutdown aborted with its timer still running, a host that clears the
trouble codes while their causes persist, dusk falling while the driver steps
through the modes, three lock requests in one cycle, a button whose meaning
depends on how long it was held, a parser that takes a byte inside a frame for
a header. The rest is concurrency: tasks of different priority around one log and
one register, an interrupt between a load and a store, a hung task whose old
check-in still vouches for it, a reader thread and an interface that wait for each
other, an answer that comes after its time. `PROJECT.json` lists each hazard with
its line and the properties that cover it.

### What makes each component correct

* *Door*: it locks only with doors closed, never refuses an unlock, reports a
  refused lock, and does not leave an abandoned car unlocked.
* *Power*: transitions last their time and end; load is shed on the battery's
  verdict, not on noise.
* *Lighting*: sensor and driver do not undo each other's choices; hazard outranks
  the indicators; the beam does not flicker at dusk; the high beam does not burn
  without the low beam (it does when the host drives it: see `high_beam`).
* *Horn*: chirps end.
* *Faults and log*: the store mirrors the conditions, the log tells every change,
  in order, and counts what it lost.
* *Arbiter*: nothing forbidden is ever lit, whoever asked; brake follows the pedal.
* *Application*: a lamp follows its pin within the debounce window and no glitch
  gets through; flashing lamps flash; while the link holds the host reads what it has
  written, and a status of one cycle; a healthy battery is never taken for a weak one.
* *Parser*: only whole frames are handed on, and it finds its way back.
* *Link and client*: a lost link is noticed on time; a connected host keeps it; an
  answer is never older than the one before; the interface always comes back.
* *Rings*: frames leave whole, no byte waits with the interrupt off, the receiver is
  not left deaf, received bytes come out in order.
* *Tasks*: a hung task, whichever it is, gets the board reset, and a running board
  is left alone.

## 2. Modules

| Module | What it is |
|---|---|
| `BcmTypes` | lamps and their drives, one-shot timers (`Expires`, `Elapse`), the Schmitt trigger |
| `VehicleLock` | abstract specification of the lock: what the door manager promises |
| `DoorMgr`, `PowerMgr`, `LightingMgr`, `HornMgr` | one class each: a record for its members, one operator per method, one action per call |
| `DoorHorn` | door manager and horn with the hand-over of the chirp flags, and the fairness |
| `PowerHistory`, `LightingHistory` | the same class with history variables that remember what a property compares with: how long a state has lasted, the readings so far, where the sensor last switched the beam |
| `Managers` | the managers under every order of their calls, one of them (`focus`) per behaviour: their initial states and steps |
| `FaultMgr`, `LampArbiter` | operators on the store and on lamp states |
| `BcmCore` | the whole control cycle: all managers, host requests, arbiter, log events |
| `CoreHistory` | the cycle with history variables: what the log has told so far, effects of one press |
| `CommMgr` | the link timer and the events of its loss and return |
| `Commands` | the handlers: what each changes, its status, the length of its reply |
| `Drivers` | debouncer, blinker and lamp drive, smoothing filter |
| `BcmApp` | `BcmApp::step` part by part, with the sensor task and resets in between |
| `AppHistory` | the application with history variables: how long a pin has held its level, the weakest conversion, what the host has been granted |
| `DiagMgr`, `Tasks` | the five tasks, their priorities, hangs, the watchdog, the log's way to the link |
| `FrameParser` | encoder and parser, byte by byte, on a line with faults |
| `UartRings` | the UART driver: both rings, CR1's enable bits, the interrupt, the control and the logger task |
| `HostLink` | the desktop tool against the device's link timer: two threads, response queue, time-outs, reconnection |
| `MCParts` | `Managers` and the parser side by side, one of them per behaviour, with their fairness |
| `MCControl` | the control cycle in seven scenes, three of the core, four of the application |
| `MCFrameParser` | frames and the CRC for TLC |
| `ManagerProofs` | theorems about the door, power and lighting managers and their histories |
| `BcmCoreProofs`, `AppProofs` | theorems about the control cycle and about the application, for `CoreHistory` and `AppHistory` |
| `UartRingsProofs`, `TasksProofs`, `FrameParserProofs`, `HostLinkProofs` | theorems about the module of that name |

**State and actions.** A manager's state is one record whose fields have the
names of the class's members and contexts. Each method is an operator from record
to record (`RequestLock(d)`, `UpdatePower(p, dt)`), and the transition tables of
`fsm.h` are the cases of these operators, guards and actions included. The
manager's own module turns each operator into an action, so that it is checked
under *every* order of calls. `BcmCore` composes the same operators in the order
of `step()` into a single action, because the control task runs a cycle to
completion and nothing else touches the managers meanwhile; the properties then
hold of the orders the cycle really produces. `BcmApp` cuts `step()` open again
where something can come between: after `gather_inputs`, after the core with the
outputs, and after the poll. The sensor task converts between two cycles, and a
reset may take the place of any part. `AppSpec` lets pins, frames and conversions be
anything at any time; the theorems are about it, and `MCControl` takes scenes from it
and from `CoreSpec`.

`UartRings` and `Tasks` are the opposite case: shared memory. In `UartRings` an
action is one load or store that the interrupt can fall before. Only what the
hardware makes indivisible is one action: the interrupt handler itself, as the
processor is alone and no other interrupt touches the driver, and `write`'s copy
into the ring, which runs with interrupts off. `Turn` is the scheduler: the
control task (priority 3) preempts the logger task (priority 1). Those two are the
only tasks that use the UART. In `Tasks` an action is what a task does between two
points at which it can be preempted with an effect; `log()` is open access by
access, because the monitor task has the higher priority and empties the log
without a lock, while the monitor's own drain is one step as nothing but the
watchdog task preempts it. A hung task blocks, spins (and starves all below it)
or halts the kernel.

`FrameParser`'s line delivers a byte, alters it or loses it, and the parser may
begin to listen in the middle of a frame. `HostLink` has the interface's thread,
the reader thread (and one that a `Disconnect` has given up on) and the device,
whose side is `CommMgr`'s link timer. Every request runs synchronously on the
interface's thread, since neither `SemaphoreSlim.WaitAsync` (always free there) nor
the blocking `TryTake` yields it, so the reader's synchronous call into the
interface waits for the request to be over.

**Data.** A timer is the number of ms it still runs, 0 when it is stopped.
Readings are the per-mille values themselves, from a small set. Log records are
their event names; `logged` holds those of the last operation. Only events whose
argument nobody tests lose it. In `Tasks` events are numbered as they are logged, in
`HostLink` a reply carries how many requests have been made since its own. In
`FrameParser` bytes are bytes, and `MCFrameParser` computes the real CRC-8.

**Variants.** A definition introduced by `Fault:` is not part of the model: it is
the mistake a plausible bug would make in the definition below it, and
`PROJECT.json` pairs each property with the variant that must violate it.

## 3. Runs

| Run | States | Shows |
|---|---|---|
| `parts` | 31 thousand | door: `KeepsLockPromise` (the manager implements `VehicleLock`), `NotLeftUnlocked`, and with the horn `ChirpsEnd`; power: `TransitionsInFull`, `ShedFollowsReadings`, `TransientStatesEnd`; lighting: `LampOwnership`, `HazardLatched`, `AutoFollowsDusk`, `NoChatter`, `DriverAndHazardStand`; parser: `ParserBounds`, `FramesArrive`, `OnlyWholeFrames`, `Recovers` |
| `control` | 286 thousand | the core: `ManagersConsistent`, `LampsObeyRules`, `OnePressOneEffect`, `EventsTellTheState`, `CodesMirrorConditions`, `LocksOnlyClosed`, `HostLockServed`; the application: `LampFollowsPedal`, `FlashersFlash`, `StatusOfOneCycle`, `HostReadsItsWrites`, `NoShedOnHealthyBattery` |
| `tasks` | 921 thousand | `HangFedOnce`, `NoSpuriousReset`, `EventsInOrder`, `HungBoardResets` |
| `link` | 498 thousand | `HostKeepsLink`, `LinkLossTimely`, `AnswersNeverGoBack`, `InterfaceReturns` |
| `uart_rings` | 1.7 million | `FramesWhole`, `NoStrandedBytes`, `ReceiverListens`, `RxFaithful`, `RaceNeedsTransmitter` |
| `uart_race` | violation | `OneProducerOneConsumer` |
| `desync` | violation | `NeverDesynchronised` |
| `stale_answer` | violation | `NoStaleAnswer` |
| `log_race` | violation | `LogHasOneOwner` |
| `high_beam` | violation | `HighBeamOnlyWithLowBeam` |
| `refusal` | violation | `RefusalIsAnswered` |
| `link_loss` | violation | `NothingHeldOnLoss` |

**The seven violations** are differences between what the repository says and
what its code does, each with a short counterexample:

1. *Ring.* `ring_buffer.h` says it is safe for one producer and one consumer because
   each side moves an index of its own. Both sides change `count_`. `read` masks the
   receive interrupt against that, but the transmit interrupt enters the same handler,
   which takes a received byte whenever there is one: a push then falls between the
   load and the store of the pop's count-down and is not counted. From there on the
   newest byte stays hidden until another one comes. `RaceNeedsTransmitter` shows that
   there is no other way into the race, and `RxFaithful` that without it the ring is a
   FIFO.
2. *Parser.* `ICD.md` says the link "never desynchronises permanently". A PING whose
   payload holds the header byte, repeated without a pause and first heard from its
   middle, keeps the parser out of step for ever on a line that loses nothing: it takes
   the byte in the payload for a header, what follows for a length, and is in the same
   place again when the same bytes recur. `Recovers` shows that this needs a header
   byte inside a frame: without one the parser always comes back, after every fault.
3. *Late answer.* `BcmClient.cs` says a stale response can never be mistaken for the
   answer to a later request. An event that comes just before an answer makes the
   reader wait for the interface's thread, which waits for the answer the reader has in
   hand; the request times out, the answer is queued afterwards, and the next poll, for
   the same command, takes it. `AnswersNeverGoBack` shows what remains true: answers
   are late, never out of order.
4. *Log.* `TestReport.md` says that the battery reading is the only datum that crosses
   tasks. The log does too: the monitor task preempts the control task inside `log()`
   and empties the ring, and `log()` then stores a count it had read before.
   `EventsInOrder` shows that without that preemption no event is lost uncounted on
   the ring, repeated or overtaken.
5. *High beam.* SRS-LIGHT-002 permits the high beam only with the low beam, and
   SRS-SAFETY-002 repeats it among the invariants "enforced regardless of command
   source". The host's lamps are merged before the arbiter, and none of the arbiter's
   rules relates the two beams: a host that drives the high beam alone gets it. Theorem
   `HighBeamAloneOnlyByHost` shows that nothing else lights it alone.
6. *Refusal.* The ICD, the user's manual, `desktop/README.md` and `MainViewModel.cs` all
   expect DOOR_LOCK with a door open to be answered NOT_PERMITTED. The handler answers
   OK before the door manager has seen the request; the refusal comes in the next cycle,
   as an event and a trouble code. `HostLockServed` shows that this much always comes.
   The run lets the door contact open, as the core, the SIL runner and the tests do; on
   this board it is not wired.
7. *Link loss.* The ICD, SRS-SAFETY-007 and the arbiter's own comment say that on link
   loss the outputs go to a defined state rather than holding the last commanded values.
   The arbiter darkens high beam and reverse; every other lamp of the host keeps its
   last command. `HostReadsItsWrites` therefore speaks only of the time in which the
   link holds.

**Differences that no run shows**, because they lie in a figure that the models leave
open, in a comment, or between two requirements, or because no text decides them:

* `bcm_config.h:26-27` puts the two ambient thresholds on the reading (300: "below this,
  switch low beam on"; 400: "above this, switch it off again"). `lighting_mgr.cpp:103-106`
  compares its complement with them, so the beam comes on at 600 and goes off at 700;
  the unit tests and the SIL scenarios expect what the code does, not the comments. At
  500 the two disagree. `AutoFollowsDusk` judges only readings that are dark, or bright,
  by both, and `NoChatter` needs neither.
* SRS-PWR-002 wants Run within 100 ms of ignition; `kWakeMs` is 200. The model's delays
  are parameters, and `TransitionsInFull` is about Wake lasting what it is set to.
* `ICD.md:116` says that a corrupted frame costs one more frame at most. A damaged length
  can swallow several short ones. `Recovers` claims that the parser comes back, not how
  soon.
* SRS-LIGHT-004 leaves parking lights permitted "in low power states", SRS-PWR-003 has
  every lamp dark in Sleep. Code and tests follow the second, and so does rule 1 in
  `LampsObeyRules`.
* The power manager's inactivity timer is started where Run is entered and restarted by
  nothing the driver does.

**Bounds and why they suffice.**

* `Dt`, the length of a cycle. The managers get short, matching and long steps (one
  longer than every delay), so that timers expire exactly, with time left over, and
  together. In `control` the delays are a few cycles long: a cycle is 2 ms where the core
  is alone and 1 ms in the application, which has flashers to time.
* Delays are a few steps long: enough for every event to fall before, at and after
  an expiry.
* `BatteryLevels`, `AmbientLevels`: a value on each side of both thresholds and
  inside the dead band, and for the ambient sensor one above full scale. In
  `control` two ambient levels are enough, the dead band being checked on the manager;
  the battery's are those that the filter can reach.
* `parts` follows one manager, or the parser, per behaviour. They share nothing, so a
  product of their states would add no behaviour of any one of them.
* `HeldRange = 10` stands for the 2^16 of the ignition's hold counter, so that the
  counter wraps during one press.
* `MaxDtc` is 8, as in the code. `MaxOccurrences = 1` lets the counter of a code saturate
  at once; nothing but the counter depends on it.
* `MCControl` plays the scenes named in `Scenes`, each a set of behaviours of the same
  model; whatever a scene does not move is at rest. Of the core: presses of every length
  (`press`); a lever, the pedal and the battery with a host that takes over lamps
  (`lamps`), among them some that a rule forbids in some state; lock button, door contact
  and battery with lock requests of the host (`doors`). In `lamps` and `doors` the inputs
  are a short list of situations, any of which may follow any other, so that the product
  of all switches stays small; the independent orders of each manager's own calls are
  covered by `parts`. Of the application: pedal and lock button bounce while the host
  asks for the status (`pedal`); indicators and hazard flash (`flash`); the host sends
  every kind of request, up to two in one poll (`host`); the battery is weak, dead or
  failing to convert (`battery`). `control` plays all seven, `high_beam`, `refusal` and
  `link_loss` the one each needs.
* In those scenes debouncing takes 3 cycles, the phases of the blinker 3 and 2 (unequal,
  so that they cannot be mistaken for each other), and the converter has 20 steps, enough
  for the smoothing to pass through the dead band on its way up. `DoorContacts` says what
  the application may be told of the door: {FALSE}, as on this board, and both values in
  `refusal`.
* In `tasks` a tick is the monitor's period of 100 ms; the watchdog's period of 200 ms
  and the IWDG's 1000 ms are 2 and 10 ticks as in the code. The log of 3 and the queue
  of 2 both overflow, the log into a smaller queue as in the code (32 and 16), and 6
  events of one run of the board wrap the log. No application event is logged after a
  hang, when nothing but the watchdog matters any more.
* For the parser in `parts` the payload limit is 8 instead of 32 (only its relation to a frame's
  length matters), two bytes may be lost or altered, into a length that fits, one
  that is too long, or a header, and the line starts at any byte of a frame. One
  frame is empty, one is a lamp command, one holds a header byte. `desync` has the
  code's limit of 32, because where the false frame ends depends on it.
* In `link` a tick is the poll timer's 200 ms, so a request's second is 5 ticks and the
  device's 2 s are 10, as in the code. Three events, two lost frames and three clicks
  are enough for a time-out to meet a late answer, another time-out and a
  reconnection. An answer's age is counted up to 4.
* `HornMaxOn` caps the on-time, which only matters in comparison with it. `DwellCap`
  and `StillCap` cap histories at more than any delay compared with them.
* In `uart_rings`, a receive ring of 2 bytes wraps, fills and overflows; a transmit
  ring of 3 holds one frame of 2 and a part of the next, so that a frame is refused
  when the ring is neither empty nor full. Two byte values tell an overtaken byte
  from its neighbour. After a race the history `unread` is not kept, because the
  property it serves says nothing any more.

**Fairness.**

* *Managers*: the control task calls `step` every 5 ms for ever, so time passes, and
  each cycle reads the one-shot flags. Nothing is assumed about the driver, the sensors
  or the host. The liveness properties are conditional where the environment can
  prevent the outcome: a car whose door stays open, or whose driver keeps unlocking it,
  does not lock.
* *Tasks* (`TasksFairness`): the scheduler runs a task that may run, and the clock ticks.
  A hang is never assumed, and a task that hangs is not fair.
* *Parser* (`FairSpec`): the other side goes on sending, and the control task polls in
  every cycle. Faults are not fair: a line may lose up to its bound, at any time.
* *Client* (`HostSpec`): threads run and time passes. Time is fair but slow: a tick only
  passes when both threads wait, so the threads and the device are fast compared with
  200 ms. The user may do nothing.

Deadlock is checked in every run; none of these loops ever stops.

## 4. Proofs

Every theorem is for all delays, thresholds, periods, ring sizes and input sets that
the named assumptions (`DtAssumption`, `DoorConfig`, `PowerConfig`, `LightingConfig`,
`CoreConfig`, `AppConfig`, `DriverConfig`, `TasksConfig`, `UartConfig`, `ParserConfig`
and their like) allow: positive delays, the lower threshold below the upper one, rings
of more than one byte. Where a theorem needs more, it says so as a hypothesis of its own:

| Theorem | Hypothesis | In the code |
|---|---|---|
| `CodesAlwaysMirrorConditions`, `HostLockAlwaysServed` | `RoomForAll`: a slot for every code | 8 slots, 6 codes |
| `HostAlwaysKeepsLink` | `(RequestTicks + 1) * TickMs < LinkTimeoutMs` | 1.2 s, 2 s |
| `LampAlwaysFollowsPedal` | `DebounceMs <= 65535`, or the counter would never get there | 20 ms |
| `FlashersAlwaysFlash` | `PhasesFit`: a cycle is shorter than the lit phase, no longer than the dark one, and fits the 16-bit counter with either | 5 ms, 333 ms |

* **Managers.** The inductive invariants are `SoundDoor`, `SoundPower`,
  `SoundLighting` and, for the core, `SoundHorn`: the record's type together with
  the relation between state and timers, or between mode, claims and latch. The
  type alone is not inductive enough to conclude anything about timers: that Wake
  ends needs to know that *no* operation enters it without starting the timer, and
  that no other operation stops the timer there. One lemma per operation shows
  that it keeps the invariant; the theorem then splits on the action.
* **Refinement.** `DoorKeepsPromise`: each call of the door manager maps to a step of
  `VehicleLock` or to a stutter.
* **History.** `TransitionsAlwaysInFull`, `ShedAlwaysFollows`,
  `AutoAlwaysFollowsDusk` and `SensorNeverChatters` need invariants about the history
  variables: dwell plus remaining time covers the delay (`FullDwell`), a trigger's level
  is the last decisive reading's verdict (`BatteryInv` for the battery), and once
  readings have switched the beam twice on their own, the reading that last did lies
  beyond the threshold that goes with the beam (`ChatterInv`).
* **Arbiter.** `ArbiterObeysRules` and `ArbiterIdempotent` are statements about one
  function, for all lamp states and conditions; `lamp_arbiter.h` claims the second.
* **Cycle.** Because a step of the core is a composition of manager operations, the
  same lemmas, applied in order, give `ManagersAlwaysConsistent`. The arbiter's
  theorem gives `LampsAlwaysObeyRules`. `AlwaysLocksOnlyClosed` follows the door
  manager through the cycle: the contact is set first, a request locks only against
  it, and so does the timer. `HighBeamAloneOnlyByHost` combines what the lighting
  manager wants with the merge of the host's drives and with the rules, none of which
  takes the low beam and leaves the high beam. `StoreAlwaysSound` is an invariant of
  its own (`SoundStore`): a code is set in its old slot or in a free one, so the table
  never holds it twice. `CoreTypedAlways` puts these together; it is proved and not
  part of a run.
* **Watching the cycle.** A behaviour of `CoreSpec` is one of `Spec` (`WatchedCore`), so
  all of the above may be used. `OnePressAlwaysOneEffect` says which of its two effects
  a press that is still down has had (`PressCounted`: the one of the long press, exactly
  if `long_press_fired_` is set); `CycleEffects` counts the button's records in one
  cycle's log. `EventsAlwaysTellTheState` needs that what `prev` remembers is what is
  (`RecordsTrue`), and `CycleTells` which records a cycle appends.
  `CodesAlwaysMirrorConditions` and `HostLockAlwaysServed` assume `RoomForAll`: by the
  pigeonhole principle a code without an entry then always finds one (`NeverFull`). A
  lock request is followed through the cycle: the unlock that could take it back is
  excluded, and the timer behind it leaves the answer standing (`AnswerStands`).
* **Application.** `AppAlwaysSound` is what the rest of this part stands on: everything
  the application keeps is typed, and the managers' invariants, the store's and the
  rules of the lamps survive what the application puts around `step()`: readings of any
  height, frames between two cycles, a restart at any point. `AppLampsObeyRules` is a
  consequence. Each property of `AppHistory` then has an invariant that ties its
  history to the state in between:
  * `LampAlwaysFollowsPedal`: the debouncer's candidate, count and level are the pin's
    present level, for how long, and its last steady one (`Debounced`). That the count
    sticks at 65535 is why the debounce time has to be within it.
  * `FlashersAlwaysFlash`: a pin has not shown its level for longer than the phase has
    lasted (`Flashes`). `Phase`, the loop that consumes whole phases, is recursive, and that
    it is a function at all has to be shown first: `PhaseOf`, which takes the
    remainder of whole periods, is one that satisfies its equation, and `PhaseIs` is what
    is then used of it.
  * `HostAlwaysReadsItsWrites`: what has been granted is in the mask, at the level asked
    for (`HostKept`). A poll may grant a lamp several times, so `PollGrants` goes frame
    by frame: after each, the lamp is as the last grant so far left it.
  * `StatusAlwaysOfOneCycle`: what a poll sends is among the answers that the handlers
    give under the view of that poll (`Given`, `PollTyped`), and in a poll the lamps are
    those of the cycle whose pins it reports.
  * `NeverShedsOnHealthyBattery`: before the first conversion the core sees the reading 0,
    but once at most, and the first reading does not decide about shedding; after it the
    filter holds at least the weakest conversion so far (`Holds`), and rounding down never
    takes it below (`Decay`, `FilterHolds`). No hypothesis about weight or range is needed.

  `HandledInTurn`, `HandledKeeps` and `CountingUp` are the induction over the frames of
  a poll, `PhaseOf` stands in for one over time.
* **UART.** Three places change CR1 by load, change and store, and each may hold a
  stale copy. `UartInv` says why that is harmless: no task about to store for the
  transmit bit holds a copy made while `read` had the receive bit off
  (`ReceiveBitKept`: the logger task cannot run meanwhile, and `read` has put the bit
  back on before the logger's older copy is stored), and behind the control task's copy the transmit
  bit may go off but not on (`TransmitBitKept`). `BytesNeverStranded` and
  `ReceiverAlwaysListens` follow; `FramesAlwaysWhole` needs that the ring continues
  exactly where the wire stands inside a frame (`WireInv`).
  `RxAlwaysFaithful` is about the other ring, slot by slot: the n-th unread byte lies n
  places behind the tail (`Holds`), and the count is one more than they are while a pop
  has taken its byte and not yet counted it (`CountKept`).
* **Parser.** `ParserAlwaysBounded` rests on `Progress`, which ties the parser's state
  to the number of bytes of the frame so far. `FramesAlwaysArrive` and
  `OnlyWholeFramesEver` need more: the checksum the parser has accumulated is that of
  the bytes it has heard, and what it has heard is the beginning of an encoding. Both
  use what a CRC over a sequence is, a recursive function: `CrcExists` and `CrcUnique`
  show, by induction over the length, that there is exactly one such function, and
  `CrcAppend` what one more byte does. That induction is stated about sets and proved
  from the well-founded order of the naturals, since the library's own induction takes an
  operator. The only assumption about the frames is that each fits (`FramesFit`);
  nothing is assumed of the CRC but that it maps bytes to bytes.
* **Watchdog.** `HangAlwaysFedOnce`: when the watchdog is fed behind a hang all bits
  were set and are now cleared, the hanging task's among them, and nobody sets that one
  again (`BitGone`). `NeverResetWhileRunning`: when a tick ends every live task has
  checked in, so a wait ends within one period (`RoundEnds`) and the IWDG never counts
  two of them.
* **Log.** `EventsAlwaysInOrder`: the records in the ring are the newest events, slot by
  slot (`LogHolds`), and what has left it is in ascending order and older than all in
  the ring (`Ordered`). The control task's open accesses inside `log()` are each a step
  of that invariant, in which the event that is being written is already there or not
  yet. It holds until the monitor preempts `log()`, as run `log_race` shows it must.
* **Link.** `LinkLossAlwaysTimely`: what is left of the timer and the silence so far add
  up to the limit for as long as the link is up (`LinkInv`).
  For `HostAlwaysKeepsLink`, `KeepInv` says that silence and what is left of a waiting request's time stay within
  `RequestTicks`, and that until the next request it lasts one tick more at most.
  `AnswersGoForward` orders the answers on their way: those queued, the one in the
  reader's hand and those on the line grow younger in that order.

Out of the prover's reach and left to TLC: the liveness properties
(`NotLeftUnlocked`, `ChirpsEnd`, `TransientStatesEnd`, `HungBoardResets`, `Recovers` and
`InterfaceReturns`), and everything that needs `ENABLED`. Every invariant and every action
property that a passing run checks is a theorem too.

## 5. Not modelled, and why

* `BcmApp::run` and `DeltaClock`: the bare-metal loop, which `main` does not enter; it
  starts the scheduler. Likewise `selftest.cpp`, which `main` does not call: the verdict
  of the power-on test that the tasks use is `rtos_app.cpp`'s and is in `Tasks`.
* Registers of ADC, GPIO, clock and timers, pin tables, start-up, PWM: no decision of
  theirs comes back to the logic. The arithmetic of the IWDG's reload value: constants.
* `CommMgr::poll`'s budget of 64 bytes, which only spreads a burst over cycles, and
  its counters, which nobody reads; `Logger::clear`, which nobody calls.
* On this board `gather_inputs` reports closed doors, no reverse gear and full
  daylight, because the contacts are not wired; the SIL runner and the tests drive
  all of them. `BcmApp` does as the board does, except that `DoorContacts` can let the
  door open, and `BcmCore` lets them take any value.
* A reply that a full transmit ring refuses (`comm_mgr.cpp:33`, `drv_uart.cpp:89`) is
  never dropped in `Commands` and `BcmApp`, whose properties are about replies that were
  given; `UartRings` has the refusal.
* Records dropped at the log queue (`rtos_app.cpp:123`) are counted by nobody in the code.
  In `Tasks` the variable `wasted` counts them, so that `EventsInOrder` can say that
  nothing gets lost elsewhere; and an event the logger task has sent counts as told even
  if the UART has refused it.
* `on_irq`'s second read of the data register after an overrun
  (`drv_uart.cpp:154-157`) is part of the one step of `Interrupt`: no byte arrives in the
  middle of the handler, and framing and noise errors do not occur.
* Nothing delays the sensor task beyond a cycle: the control task, of higher priority,
  runs the first cycle, the first conversion follows it, and from then on one comes every
  `SensorCycles` cycles. `NoShedOnHealthyBattery` rests on that: the core sees the reading
  from before the first conversion once and no more.
* A PING of the longest payload makes its handler write one byte past the reply, and
  the reply is then not sent. The model has the missing reply, not the stray byte.
* In the desktop tool: what is shown and how, the typed helpers that unpack payloads,
  the button that clears the trouble codes (one more request), and a failing serial
  port. Its codec mirrors the firmware's.
* SIL runner, tests, scripts, document generators: no protocol of their own.

## 6. How it grew, and what is left

Written in this order: `BcmTypes`, `DoorMgr` with `VehicleLock`, `PowerMgr`,
`LightingMgr`, `HornMgr`, `FaultMgr`, `LampArbiter`, `BcmCore`, the histories and their
proofs. The core came first because every lamp and every lock goes through it. Then
`UartRings`, as the place where tasks and an interrupt share memory; around the core
`CommMgr`, `Commands`, `Drivers` and their composition `BcmApp`; beside it `Tasks`,
`FrameParser` and `HostLink`; the proofs about rings, parser, watchdog and store; last
those about the application, which rest on those about the core.

Left:

1. `UartRings` under `FrameParser`, so that a race in the receive ring meets the parser,
   and `FrameParser` under `HostLink`, so that a lost byte is what loses a frame.
2. The power-on self-test, once `main` calls it.
