------------------------------- MODULE DoorMgr ------------------------------
(***************************************************************************)
(* The door manager (services/door_mgr.cpp): a table-driven machine over   *)
(* Locked, Unlocked and Welcome, two one-shot timers and three flags the   *)
(* control cycle reads and clears.                                         *)
(*                                                                         *)
(* Each operation of the class is an operator from a manager state to a    *)
(* manager state, so that BcmCore can run several in one control cycle;    *)
(* the actions below are the calls a user of the class may make.           *)
(***************************************************************************)
EXTENDS BcmTypes

CONSTANTS
  AutoLockDelay,      \* Config::auto_lock_delay_ms
  WelcomeDuration     \* Config::welcome_duration_ms

\* With a delay of zero start() leaves the timer stopped and the machine
\* would stay in Welcome, or Unlocked, for good.
ASSUME DoorConfig ==
  /\ AutoLockDelay \in Nat \ {0}
  /\ WelcomeDuration \in Nat \ {0}

VARIABLE door

DoorState == {"Locked", "Unlocked", "Welcome"}

\* The constructor, and what reset() goes back to.
FreshDoor ==
  [ state        |-> "Locked",
    door_open    |-> FALSE,
    lock_refused |-> FALSE,
    chirp_lock   |-> FALSE,
    chirp_unlock |-> FALSE,
    welcome      |-> 0,
    auto_lock    |-> 0 ]

-----------------------------------------------------------------------------
(* Operations. A definition introduced by "Fault:" is a variant of the one  *)
(* that follows with a plausible mistake in it; it is not part of the model *)
(* and serves to show that the properties would notice the mistake.         *)

SetDoorOpen(d, open) == [d EXCEPT !.door_open = open]

\* on_locked, the action of the rows that lead to Locked.
OnLocked(d) ==
  [d EXCEPT !.state = "Locked", !.chirp_lock = TRUE, !.lock_refused = FALSE]

\* Fault: the guard is on the row of Unlocked only, Welcome has no row.
RequestLockNoWelcome(d) ==
  CASE d.state # "Unlocked" -> d
    [] d.state = "Unlocked" /\ d.door_open  -> [d EXCEPT !.lock_refused = TRUE]
    [] d.state = "Unlocked" /\ ~d.door_open ->
         [OnLocked(d) EXCEPT !.welcome = 0, !.auto_lock = 0]

\* A refusal by the guard no_door_open is flagged; in Locked no row matches
\* and nothing changes.
RequestLock(d) ==
  CASE d.state = "Locked" -> d
    [] d.state # "Locked" /\ d.door_open  -> [d EXCEPT !.lock_refused = TRUE]
    [] d.state # "Locked" /\ ~d.door_open ->
         [OnLocked(d) EXCEPT !.welcome = 0, !.auto_lock = 0]

RequestUnlock(d) ==
  IF d.state = "Locked"
  THEN [d EXCEPT !.state = "Welcome", !.chirp_unlock = TRUE,
                 !.lock_refused = FALSE,
                 !.welcome = WelcomeDuration, !.auto_lock = 0]
  ELSE d

\* First half of update(): the end of the welcome sequence arms auto-lock.
WelcomeTick(d, dt) ==
  IF Expires(d.welcome, dt)
  THEN [d EXCEPT !.state = IF @ = "Welcome" THEN "Unlocked" ELSE @,
                 !.welcome = 0, !.auto_lock = AutoLockDelay]
  ELSE [d EXCEPT !.welcome = Elapse(@, dt)]

\* Fault: a refused auto-lock is not tried again.
AutoLockTickGivesUp(d, dt) ==
  CASE ~Expires(d.auto_lock, dt) -> [d EXCEPT !.auto_lock = Elapse(@, dt)]
    [] Expires(d.auto_lock, dt) /\ ~d.door_open ->
         [OnLocked(d) EXCEPT !.auto_lock = 0]
    [] Expires(d.auto_lock, dt) /\ d.door_open -> [d EXCEPT !.auto_lock = 0]

\* Fault: the auto-lock row lacks the guard.
AutoLockTickUnguarded(d, dt) ==
  IF Expires(d.auto_lock, dt)
  THEN [OnLocked(d) EXCEPT !.auto_lock = 0]
  ELSE [d EXCEPT !.auto_lock = Elapse(@, dt)]

\* Second half: auto-lock, or arm it again when a door is open.
AutoLockTick(d, dt) ==
  CASE ~Expires(d.auto_lock, dt) -> [d EXCEPT !.auto_lock = Elapse(@, dt)]
    [] Expires(d.auto_lock, dt) /\ d.state = "Unlocked" /\ ~d.door_open ->
         [OnLocked(d) EXCEPT !.auto_lock = 0]
    [] Expires(d.auto_lock, dt) /\ ~(d.state = "Unlocked" /\ ~d.door_open) ->
         [d EXCEPT !.auto_lock = AutoLockDelay]

\* update(): the same dt is charged to both timers.
UpdateDoor(d, dt) == AutoLockTick(WelcomeTick(d, dt), dt)

TakeLockRefused(d) == [d EXCEPT !.lock_refused = FALSE]
TakeChirpLock(d)   == [d EXCEPT !.chirp_lock = FALSE]
TakeChirpUnlock(d) == [d EXCEPT !.chirp_unlock = FALSE]

-----------------------------------------------------------------------------
(* The class on its own, called in any order *)

DoorInit == door = FreshDoor

MoveDoor       == \E open \in BOOLEAN : door' = SetDoorOpen(door, open)
AskLock        == door' = RequestLock(door)
AskUnlock      == door' = RequestUnlock(door)
PassTime(dt)   == door' = UpdateDoor(door, dt)
ReadRefusal    == door' = TakeLockRefused(door)
ReadLockChirp  == door' = TakeChirpLock(door)
ReadUnlockChirp == door' = TakeChirpUnlock(door)
ResetDoor      == door' = FreshDoor

DoorNext ==
  \/ MoveDoor
  \/ AskLock
  \/ AskUnlock
  \/ \E dt \in Dt : PassTime(dt)
  \/ ReadRefusal
  \/ ReadLockChirp
  \/ ReadUnlockChirp
  \/ ResetDoor

DoorSpec == DoorInit /\ [][DoorNext]_door

-----------------------------------------------------------------------------
(* Properties *)

DoorRecord ==
  [ state        : DoorState,
    door_open    : BOOLEAN,
    lock_refused : BOOLEAN,
    chirp_lock   : BOOLEAN,
    chirp_unlock : BOOLEAN,
    welcome      : 0 .. WelcomeDuration,
    auto_lock    : 0 .. AutoLockDelay ]

\* The type of the manager's state; no timer ever holds more than the delay
\* it was started with.
DoorTypeOK == door \in DoorRecord

\* A manager state whose timers are those its machine state needs: without
\* the welcome timer Welcome would never end, without the auto-lock timer an
\* unlocked car would stay so, and a timer left over in Locked or Welcome
\* would lock the car at the wrong time.
TimersMatch(d) ==
  /\ d.welcome > 0   <=> d.state = "Welcome"
  /\ d.auto_lock > 0 <=> d.state = "Unlocked"

\* Whatever the order of lock and unlock requests, expiries, refusals and
\* resets, the running timers are those of the current state.
DoorTimers == TimersMatch(door)

\* The state of the machine as a lock: see VehicleLock.
Promise ==
  INSTANCE VehicleLock WITH
    secured <- door.state = "Locked",
    ajar    <- door.door_open,
    owed    <- (IF door.chirp_lock THEN {"lock"} ELSE {})
                 \cup (IF door.chirp_unlock THEN {"unlock"} ELSE {})

\* Every call on the manager is a step of the abstract lock or invisible to
\* it: it locks only with every door closed, it unlocks whenever asked, each
\* change is announced exactly once, and no announcement comes from nowhere.
KeepsLockPromise == Promise!Spec

\* As long as time passes, a car whose doors are closed does not stay
\* unlocked: a refused auto-lock is tried again.
NotLeftUnlocked == Promise!EventuallySecured
=============================================================================
