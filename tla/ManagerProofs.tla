----------------------------- MODULE ManagerProofs --------------------------
(***************************************************************************)
(* Proofs about the three managers that are machines with timers: the      *)
(* doors, the power and the lighting, each for every delay, threshold, set *)
(* of cycle lengths and set of readings. An operation keeps its manager's  *)
(* record well typed and sound; what a manager promises over several calls *)
(* follows from that. The parts do not depend on each other, and the       *)
(* control cycle's proofs build on all of them.                            *)
(***************************************************************************)
EXTENDS DoorMgr, PowerHistory, LightingHistory, TLAPS

-----------------------------------------------------------------------------
(* DOORS. Each operation keeps the timers matched to the machine state, and *)
(* is a step of the abstract lock or invisible to it.                       *)

\* A manager state in which both invariants hold.
SoundDoor(d) == d \in DoorRecord /\ TimersMatch(d)

\* What the operations of the class may make of a manager state d.
DoorStep(d, e) ==
  \/ \E open \in BOOLEAN : e = SetDoorOpen(d, open)
  \/ e = RequestLock(d)
  \/ e = RequestUnlock(d)
  \/ \E dt \in Nat : e = UpdateDoor(d, dt)
  \/ e = TakeLockRefused(d)
  \/ e = TakeChirpLock(d)
  \/ e = TakeChirpUnlock(d)
  \/ e = FreshDoor

\* A stopped timer and a freshly started one are within bounds.
LEMMA TimerBounds ==
  /\ {0, WelcomeDuration} \subseteq 0 .. WelcomeDuration
  /\ {0, AutoLockDelay} \subseteq 0 .. AutoLockDelay
BY DoorConfig

\* The constructor leaves the manager sound.
LEMMA FreshDoorSound == SoundDoor(FreshDoor)
BY DoorConfig DEF SoundDoor, FreshDoor, DoorRecord, DoorState, TimersMatch

\* Moving a door disturbs neither machine nor timers.
LEMMA SetDoorOpenSound ==
  ASSUME NEW d, SoundDoor(d), NEW open \in BOOLEAN
  PROVE  SoundDoor(SetDoorOpen(d, open))
BY DEF SoundDoor, SetDoorOpen, DoorRecord, TimersMatch

\* A lock request, served, refused or void, leaves the right timers.
LEMMA RequestLockSound ==
  ASSUME NEW d, SoundDoor(d)
  PROVE  SoundDoor(RequestLock(d))
<1>1. CASE d.state = "Locked"
  BY <1>1 DEF SoundDoor, RequestLock
<1>2. CASE d.state # "Locked" /\ d.door_open
  BY <1>2 DEF SoundDoor, RequestLock, DoorRecord, TimersMatch
<1>3. CASE d.state # "Locked" /\ ~d.door_open
  <2>1. RequestLock(d) =
          [d EXCEPT !.state = "Locked", !.chirp_lock = TRUE,
                    !.lock_refused = FALSE, !.welcome = 0, !.auto_lock = 0]
    BY <1>3 DEF RequestLock, OnLocked
  <2>2. RequestLock(d) \in DoorRecord
    BY <2>1, TimerBounds DEF SoundDoor, DoorRecord, DoorState
  <2>3. TimersMatch(RequestLock(d))
    BY <2>1 DEF SoundDoor, DoorRecord, TimersMatch
  <2> QED
    BY <2>2, <2>3 DEF SoundDoor
<1>4. d.door_open \in BOOLEAN
  BY DEF SoundDoor, DoorRecord
<1> QED
  BY <1>1, <1>2, <1>3, <1>4

\* An unlock request starts the welcome timer and no other.
LEMMA RequestUnlockSound ==
  ASSUME NEW d, SoundDoor(d)
  PROVE  SoundDoor(RequestUnlock(d))
<1>1. CASE d.state = "Locked"
  <2>1. RequestUnlock(d) \in DoorRecord
    BY <1>1, TimerBounds DEF SoundDoor, RequestUnlock, DoorRecord, DoorState
  <2>2. TimersMatch(RequestUnlock(d))
    BY <1>1, DoorConfig DEF SoundDoor, RequestUnlock, DoorRecord, TimersMatch
  <2> QED
    BY <2>1, <2>2 DEF SoundDoor
<1>2. CASE d.state # "Locked"
  BY <1>2 DEF SoundDoor, RequestUnlock
<1> QED
  BY <1>1, <1>2

\* The end of the welcome sequence hands over from one timer to the other.
LEMMA WelcomeTickSound ==
  ASSUME NEW d, SoundDoor(d), NEW dt \in Nat
  PROVE  SoundDoor(WelcomeTick(d, dt))
<1>1. CASE Expires(d.welcome, dt)
  <2>1. d.state = "Welcome"
    BY <1>1 DEF Expires, SoundDoor, TimersMatch
  <2>2. WelcomeTick(d, dt) =
          [d EXCEPT !.state = "Unlocked", !.welcome = 0,
                    !.auto_lock = AutoLockDelay]
    BY <1>1, <2>1 DEF WelcomeTick, SoundDoor, DoorRecord
  <2>3. WelcomeTick(d, dt) \in DoorRecord
    BY <2>2, TimerBounds DEF SoundDoor, DoorRecord, DoorState
  <2>4. TimersMatch(WelcomeTick(d, dt))
    BY <2>2, DoorConfig DEF SoundDoor, DoorRecord, TimersMatch
  <2> QED
    BY <2>3, <2>4 DEF SoundDoor
<1>2. CASE ~Expires(d.welcome, dt)
  <2>1. /\ Elapse(d.welcome, dt) \in 0 .. WelcomeDuration
        /\ Elapse(d.welcome, dt) > 0 <=> d.welcome > 0
    BY <1>2, DoorConfig DEF SoundDoor, Elapse, Expires, DoorRecord
  <2> QED
    BY <1>2, <2>1 DEF SoundDoor, WelcomeTick, DoorRecord, TimersMatch
<1> QED
  BY <1>1, <1>2

\* An auto-lock either happens or is armed again.
LEMMA AutoLockTickSound ==
  ASSUME NEW d, SoundDoor(d), NEW dt \in Nat
  PROVE  SoundDoor(AutoLockTick(d, dt))
<1>1. CASE ~Expires(d.auto_lock, dt)
  <2>1. /\ Elapse(d.auto_lock, dt) \in 0 .. AutoLockDelay
        /\ Elapse(d.auto_lock, dt) > 0 <=> d.auto_lock > 0
    BY <1>1, DoorConfig DEF SoundDoor, Elapse, Expires, DoorRecord
  <2> QED
    BY <1>1, <2>1 DEF SoundDoor, AutoLockTick, DoorRecord, TimersMatch
<1>2. CASE Expires(d.auto_lock, dt) /\ d.state = "Unlocked" /\ ~d.door_open
  <2>1. d.welcome = 0
    BY <1>2, DoorConfig DEF SoundDoor, DoorRecord, TimersMatch
  <2>2. AutoLockTick(d, dt) =
          [d EXCEPT !.state = "Locked", !.chirp_lock = TRUE,
                    !.lock_refused = FALSE, !.auto_lock = 0]
    BY <1>2 DEF AutoLockTick, OnLocked
  <2>3. AutoLockTick(d, dt) \in DoorRecord
    BY <2>2, TimerBounds DEF SoundDoor, DoorRecord, DoorState
  <2>4. TimersMatch(AutoLockTick(d, dt))
    BY <2>1, <2>2 DEF SoundDoor, DoorRecord, TimersMatch
  <2> QED
    BY <2>3, <2>4 DEF SoundDoor
<1>3. CASE Expires(d.auto_lock, dt) /\ ~(d.state = "Unlocked" /\ ~d.door_open)
  <2>1. d.state = "Unlocked"
    BY <1>3 DEF Expires, SoundDoor, TimersMatch
  <2>2. AutoLockTick(d, dt) = [d EXCEPT !.auto_lock = AutoLockDelay]
    BY <1>3 DEF AutoLockTick
  <2> QED
    BY <2>1, <2>2, DoorConfig DEF SoundDoor, DoorRecord, TimersMatch
<1> QED
  BY <1>1, <1>2, <1>3

\* update() as a whole.
LEMMA UpdateDoorSound ==
  ASSUME NEW d, SoundDoor(d), NEW dt \in Nat
  PROVE  SoundDoor(UpdateDoor(d, dt))
BY WelcomeTickSound, AutoLockTickSound DEF UpdateDoor

\* Reading a one-shot flag clears nothing else.
LEMMA TakeSound ==
  ASSUME NEW d, SoundDoor(d)
  PROVE  /\ SoundDoor(TakeLockRefused(d))
         /\ SoundDoor(TakeChirpLock(d))
         /\ SoundDoor(TakeChirpUnlock(d))
BY DEF SoundDoor, DoorRecord, TimersMatch,
       TakeLockRefused, TakeChirpLock, TakeChirpUnlock

\* Every operation of the class keeps a manager state sound.
LEMMA DoorStepSound ==
  ASSUME NEW d, SoundDoor(d), NEW e, DoorStep(d, e)
  PROVE  SoundDoor(e)
BY FreshDoorSound, SetDoorOpenSound, RequestLockSound, RequestUnlockSound,
   UpdateDoorSound, TakeSound
   DEF DoorStep

\* A step of the class on its own is one of its operations.
LEMMA DoorNextStep ==
  ASSUME DoorNext
  PROVE  DoorStep(door, door')
BY DtAssumption
   DEF DoorNext, DoorStep, MoveDoor, AskLock, AskUnlock, PassTime,
       ReadRefusal, ReadLockChirp, ReadUnlockChirp, ResetDoor

\* The inductive invariant of the class.
THEOREM DoorSoundAlways == DoorSpec => []SoundDoor(door)
<1>1. DoorInit => SoundDoor(door)
  BY FreshDoorSound DEF DoorInit
<1>2. SoundDoor(door) /\ [DoorNext]_door => SoundDoor(door)'
  <2> SUFFICES ASSUME SoundDoor(door), [DoorNext]_door
               PROVE  SoundDoor(door')
    OBVIOUS
  <2>1. CASE DoorNext
    BY <2>1, DoorNextStep, DoorStepSound
  <2>2. CASE UNCHANGED door
    BY <2>2
  <2> QED
    BY <2>1, <2>2
<1> QED
  BY <1>1, <1>2, PTL DEF DoorSpec

\* The type of the manager's state, and with it the bound on both timers,
\* for every call sequence and every configuration.
THEOREM DoorTyped == DoorSpec => []DoorTypeOK
<1>1. SoundDoor(door) => DoorTypeOK
  BY DEF SoundDoor, DoorTypeOK
<1> QED
  BY <1>1, DoorSoundAlways, PTL

\* Welcome always has its timer, Unlocked always has the auto-lock timer,
\* and no timer is left over in any other state.
THEOREM DoorTimersAlways == DoorSpec => []DoorTimers
<1>1. SoundDoor(door) => DoorTimers
  BY DEF SoundDoor, DoorTimers
<1> QED
  BY <1>1, DoorSoundAlways, PTL

-----------------------------------------------------------------------------
(* The door manager implements VehicleLock *)

\* The announcements that a manager state owes, as in Promise.
Owed(d) ==
  (IF d.chirp_lock THEN {"lock"} ELSE {})
    \cup (IF d.chirp_unlock THEN {"unlock"} ELSE {})

\* What the abstract lock sees of a step from d to e.
LockStep(d, e) ==
  /\ d.state # "Locked"
  /\ e.state = "Locked"
  /\ ~d.door_open
  /\ e.door_open = d.door_open
  /\ Owed(e) = Owed(d) \cup {"lock"}

Unseen(d, e) ==
  /\ e.state = "Locked" <=> d.state = "Locked"
  /\ e.door_open = d.door_open
  /\ Owed(e) = Owed(d)

\* A lock request locks with every door closed, or is not seen at all.
LEMMA RequestLockSeen ==
  ASSUME NEW d, SoundDoor(d)
  PROVE  LockStep(d, RequestLock(d)) \/ Unseen(d, RequestLock(d))
<1>1. CASE d.state = "Locked"
  BY <1>1 DEF RequestLock, Unseen
<1>2. CASE d.state # "Locked" /\ d.door_open
  <2>1. RequestLock(d) = [d EXCEPT !.lock_refused = TRUE]
    BY <1>2 DEF RequestLock
  <2> QED
    BY <2>1 DEF SoundDoor, DoorRecord, Unseen, Owed
<1>3. CASE d.state # "Locked" /\ ~d.door_open
  <2>1. RequestLock(d) =
          [d EXCEPT !.state = "Locked", !.chirp_lock = TRUE,
                    !.lock_refused = FALSE, !.welcome = 0, !.auto_lock = 0]
    BY <1>3 DEF RequestLock, OnLocked
  <2> QED
    BY <1>3, <2>1 DEF SoundDoor, DoorRecord, LockStep, Owed
<1>4. d.door_open \in BOOLEAN
  BY DEF SoundDoor, DoorRecord
<1> QED
  BY <1>1, <1>2, <1>3, <1>4

\* The end of the welcome sequence is not seen: the car is open already.
LEMMA WelcomeTickUnseen ==
  ASSUME NEW d, SoundDoor(d), NEW dt \in Nat
  PROVE  Unseen(d, WelcomeTick(d, dt))
<1>1. CASE Expires(d.welcome, dt)
  <2>1. d.state = "Welcome"
    BY <1>1 DEF Expires, SoundDoor, TimersMatch
  <2>2. WelcomeTick(d, dt) =
          [d EXCEPT !.state = "Unlocked", !.welcome = 0,
                    !.auto_lock = AutoLockDelay]
    BY <1>1, <2>1 DEF WelcomeTick, SoundDoor, DoorRecord
  <2> QED
    BY <2>1, <2>2 DEF SoundDoor, DoorRecord, Unseen, Owed
<1>2. CASE ~Expires(d.welcome, dt)
  BY <1>2 DEF WelcomeTick, SoundDoor, DoorRecord, Unseen, Owed
<1> QED
  BY <1>1, <1>2

\* Auto-lock is a lock like any other.
LEMMA AutoLockTickSeen ==
  ASSUME NEW d, SoundDoor(d), NEW dt \in Nat
  PROVE  LockStep(d, AutoLockTick(d, dt)) \/ Unseen(d, AutoLockTick(d, dt))
<1>1. CASE ~Expires(d.auto_lock, dt)
  BY <1>1 DEF AutoLockTick, SoundDoor, DoorRecord, Unseen, Owed
<1>2. CASE Expires(d.auto_lock, dt) /\ d.state = "Unlocked" /\ ~d.door_open
  <2>1. AutoLockTick(d, dt) =
          [d EXCEPT !.state = "Locked", !.chirp_lock = TRUE,
                    !.lock_refused = FALSE, !.auto_lock = 0]
    BY <1>2 DEF AutoLockTick, OnLocked
  <2> QED
    BY <1>2, <2>1 DEF SoundDoor, DoorRecord, LockStep, Owed
<1>3. CASE Expires(d.auto_lock, dt) /\ ~(d.state = "Unlocked" /\ ~d.door_open)
  <2>1. AutoLockTick(d, dt) = [d EXCEPT !.auto_lock = AutoLockDelay]
    BY <1>3 DEF AutoLockTick
  <2> QED
    BY <2>1 DEF SoundDoor, DoorRecord, Unseen, Owed
<1> QED
  BY <1>1, <1>2, <1>3

\* One update() may end the welcome sequence and auto-lock at once; the
\* abstract lock sees at most the second.
LEMMA UpdateDoorSeen ==
  ASSUME NEW d, SoundDoor(d), NEW dt \in Nat
  PROVE  LockStep(d, UpdateDoor(d, dt)) \/ Unseen(d, UpdateDoor(d, dt))
<1> DEFINE w == WelcomeTick(d, dt)
<1>1. Unseen(d, w)
  BY WelcomeTickUnseen
<1>2. LockStep(w, AutoLockTick(w, dt)) \/ Unseen(w, AutoLockTick(w, dt))
  BY WelcomeTickSound, AutoLockTickSeen
<1>3. UpdateDoor(d, dt) = AutoLockTick(w, dt)
  BY DEF UpdateDoor
<1> HIDE DEF w
<1> QED
  BY <1>1, <1>2, <1>3 DEF LockStep, Unseen

\* Each call of the class is a step of the abstract lock, or invisible to it.
LEMMA DoorStepPromised ==
  ASSUME SoundDoor(door), DoorNext
  PROVE  Promise!Next \/ UNCHANGED Promise!vars
<1> USE DEF Promise!Next, Promise!vars
<1>1. CASE MoveDoor
  <2>1. PICK open \in BOOLEAN : door' = SetDoorOpen(door, open)
    BY <1>1 DEF MoveDoor
  <2>2. Promise!MoveDoor
    BY <2>1 DEF SetDoorOpen, SoundDoor, DoorRecord, Promise!MoveDoor
  <2> QED
    BY <2>2
<1>2. ASSUME LockStep(door, door') PROVE Promise!Lock
  BY <1>2 DEF LockStep, Owed, Promise!Lock
<1>3. ASSUME Unseen(door, door') PROVE UNCHANGED Promise!vars
  <2>1. (door.state = "Locked")' = (door.state = "Locked")
    BY <1>3 DEF Unseen
  <2> QED
    BY <1>3, <2>1 DEF Unseen, Owed
<1>4. CASE AskLock
  BY <1>2, <1>3, <1>4, RequestLockSeen DEF AskLock
<1>5. CASE AskUnlock
  <2>1. CASE door.state = "Locked"
    <3>1. door' = [door EXCEPT !.state = "Welcome", !.chirp_unlock = TRUE,
                               !.lock_refused = FALSE,
                               !.welcome = WelcomeDuration, !.auto_lock = 0]
      BY <1>5, <2>1 DEF AskUnlock, RequestUnlock
    <3>2. Promise!Unlock
      BY <2>1, <3>1 DEF SoundDoor, DoorRecord, Promise!Unlock
    <3> QED
      BY <3>2
  <2>2. CASE door.state # "Locked"
    BY <1>5, <2>2 DEF AskUnlock, RequestUnlock
  <2> QED
    BY <2>1, <2>2
<1>6. ASSUME NEW dt \in Dt, PassTime(dt)
      PROVE  Promise!Next \/ UNCHANGED Promise!vars
  BY <1>2, <1>3, <1>6, DtAssumption, UpdateDoorSeen DEF PassTime
<1>7. CASE ReadRefusal
  <2>1. Unseen(door, door')
    BY <1>7 DEF ReadRefusal, TakeLockRefused, SoundDoor, DoorRecord, Unseen, Owed
  <2> QED
    BY <1>3, <2>1
<1>8. CASE ReadLockChirp
  <2>1. Promise!Announce("lock") \/ Unseen(door, door')
    BY <1>8
       DEF ReadLockChirp, TakeChirpLock, SoundDoor, DoorRecord, Unseen, Owed,
           Promise!Announce
  <2> QED
    BY <1>3, <2>1 DEF Promise!Kind
<1>9. CASE ReadUnlockChirp
  <2>1. Promise!Announce("unlock") \/ Unseen(door, door')
    BY <1>9
       DEF ReadUnlockChirp, TakeChirpUnlock, SoundDoor, DoorRecord, Unseen,
           Owed, Promise!Announce
  <2> QED
    BY <1>3, <2>1 DEF Promise!Kind
<1>10. CASE ResetDoor
  <2>1. Promise!Restart
    BY <1>10 DEF ResetDoor, FreshDoor, Promise!Restart
  <2> QED
    BY <2>1
<1> QED
  BY <1>1, <1>4, <1>5, <1>6, <1>7, <1>8, <1>9, <1>10 DEF DoorNext

\* The door manager implements the abstract lock, for every configuration:
\* it locks only on closed doors, unlocks whenever asked, announces each
\* change and nothing else.
THEOREM DoorKeepsPromise == DoorSpec => KeepsLockPromise
<1>1. DoorInit => Promise!Init
  BY DEF DoorInit, FreshDoor, Promise!Init
<1>2. SoundDoor(door) /\ [DoorNext]_door
        => [Promise!Next]_(Promise!vars)
  <2>1. SoundDoor(door) /\ DoorNext => [Promise!Next]_(Promise!vars)
    BY DoorStepPromised
  <2>2. UNCHANGED door => UNCHANGED Promise!vars
    BY DEF Promise!vars
  <2> QED
    BY <2>1, <2>2
<1> QED
  BY <1>1, <1>2, DoorSoundAlways, PTL
     DEF DoorSpec, KeepsLockPromise, Promise!Spec

-----------------------------------------------------------------------------
(* POWER. The timers are armed that the machine state needs, the            *)
(* transitions take their full time, and load shedding is the verdict of    *)
(* the readings.                                                            *)

\* The type with a weaker bound for the timer that both transitions share.
PowerTyped(p) ==
  /\ p \in PowerRecord
  /\ p.transition <= WakeMs \/ p.transition <= ShutdownMs

\* A manager state in which the type and the timers are as they should be.
SoundPower(p) == PowerTyped(p) /\ PowerTimersArmed(p)

\* Entering a state with new timers keeps the record well typed.
LEMMA PowerRecordUpdate ==
  ASSUME NEW p \in PowerRecord, NEW state \in PowerState, NEW transition \in Nat,
         NEW inactivity \in 0 .. SleepAfter
  PROVE  [p EXCEPT !.state = state, !.transition = transition,
                   !.inactivity = inactivity] \in PowerRecord
BY DEF PowerRecord

\* The bounds of the inactivity timer: stopped, and freshly started.
LEMMA InactivityBounds == {0, SleepAfter} \subseteq 0 .. SleepAfter
BY PowerConfig

\* The constructor leaves the manager sound.
LEMMA FreshPowerSound == SoundPower(FreshPower)
BY PowerConfig
   DEF SoundPower, PowerTyped, PowerTimersArmed, FreshPower, PowerRecord,
       PowerState

\* A press while the car is off or shutting down starts the right timer.
LEMMA IgnitionOnSound ==
  ASSUME NEW p, SoundPower(p)
  PROVE  SoundPower(IgnitionOn(p))
<1> USE DEF SoundPower, PowerTyped, PowerTimersArmed, PowerRecord, PowerState
<1>1. CASE p.state = "Sleep"
  <2>1. IgnitionOn(p) = [p EXCEPT !.state = "Wake", !.transition = WakeMs]
    BY <1>1 DEF IgnitionOn
  <2>2. IgnitionOn(p) \in PowerRecord
    BY <2>1, PowerConfig
  <2>3. PowerTimersArmed(IgnitionOn(p)) /\ IgnitionOn(p).transition = WakeMs
    BY <1>1, <2>1, PowerConfig
  <2> QED
    BY <2>2, <2>3, PowerConfig
<1>2. CASE p.state = "Shutdown"
  <2>1. IgnitionOn(p) = [p EXCEPT !.state = "Run", !.inactivity = SleepAfter]
    BY <1>2 DEF IgnitionOn
  <2>2. IgnitionOn(p) \in PowerRecord
    BY <2>1, InactivityBounds
  <2>3. PowerTimersArmed(IgnitionOn(p)) /\ IgnitionOn(p).transition = p.transition
    BY <2>1, PowerConfig
  <2> QED
    BY <2>2, <2>3
<1>3. CASE p.state \in {"Wake", "Run"}
  BY <1>3 DEF IgnitionOn
<1> QED
  BY <1>1, <1>2, <1>3

\* Switching off starts the shutdown timer, whatever was left of it.
LEMMA IgnitionOffSound ==
  ASSUME NEW p, SoundPower(p)
  PROVE  SoundPower(IgnitionOff(p))
<1> USE DEF SoundPower, PowerTyped, PowerTimersArmed, PowerRecord, PowerState
<1>1. CASE p.state \in {"Run", "Wake"}
  <2>1. IgnitionOff(p) = [p EXCEPT !.state = "Shutdown",
                                   !.transition = ShutdownMs, !.inactivity = 0]
    BY <1>1 DEF IgnitionOff
  <2>2. IgnitionOff(p) \in PowerRecord
    BY <2>1, InactivityBounds, PowerConfig
  <2>3. PowerTimersArmed(IgnitionOff(p)) /\ IgnitionOff(p).transition = ShutdownMs
    BY <2>1, PowerConfig
  <2> QED
    BY <2>2, <2>3, PowerConfig
<1>2. CASE p.state \notin {"Run", "Wake"}
  BY <1>2 DEF IgnitionOff
<1> QED
  BY <1>1, <1>2

\* The trigger's answer is a Boolean.
LEMMA SchmittBoolean ==
  ASSUME NEW on, NEW low, NEW high, NEW value
  PROVE  Schmitt(on, low, high, value) \in BOOLEAN
BY DEF Schmitt

\* A battery reading touches neither machine nor timers.
LEMMA UpdateBatterySound ==
  ASSUME NEW p, SoundPower(p), NEW level
  PROVE  SoundPower(UpdateBattery(p, level))
<1> DEFINE ok == Schmitt(p.battery_ok, BatteryLow, BatteryOk, level)
           shed == IF p.battery_known THEN ~ok ELSE p.load_shed
<1>1. ok \in BOOLEAN
  BY SchmittBoolean
<1>2. shed \in BOOLEAN
  BY <1>1 DEF SoundPower, PowerTyped, PowerRecord
<1>3. UpdateBattery(p, level) =
        [p EXCEPT !.battery_ok = ok, !.battery_known = TRUE, !.load_shed = shed]
  BY DEF UpdateBattery
<1> HIDE DEF ok, shed
<1> QED
  BY <1>1, <1>2, <1>3 DEF SoundPower, PowerTyped, PowerTimersArmed, PowerRecord

\* The end of Wake or Shutdown leaves no timer without a purpose.
LEMMA TransitionTickSound ==
  ASSUME NEW p, SoundPower(p), NEW dt \in Nat
  PROVE  SoundPower(TransitionTick(p, dt))
<1> DEFINE q == TransitionTick(p, dt)
<1> SUFFICES SoundPower(q)
  OBVIOUS
<1>1. /\ p \in PowerRecord
      /\ p.transition <= WakeMs \/ p.transition <= ShutdownMs
      /\ PowerTimersArmed(p)
  BY DEF SoundPower, PowerTyped
<1>2. ASSUME q \in PowerRecord,
             PowerTimersArmed(q),
             q.transition <= p.transition
      PROVE  SoundPower(q)
  BY <1>1, <1>2, PowerConfig DEF SoundPower, PowerTyped, PowerRecord
<1>3. p \in PowerRecord
  BY <1>1
<1>4. CASE ~Expires(p.transition, dt)
  <2>1. /\ Elapse(p.transition, dt) \in Nat
        /\ Elapse(p.transition, dt) <= p.transition
        /\ Elapse(p.transition, dt) > 0 <=> p.transition > 0
    BY <1>1, <1>4 DEF Expires, Elapse, PowerRecord
  <2>2. q = [p EXCEPT !.transition = Elapse(@, dt)]
    BY <1>4 DEF TransitionTick
  <2> HIDE DEF q
  <2> QED
    BY <1>1, <1>2, <2>1, <2>2 DEF PowerRecord, PowerTimersArmed
<1>5. CASE Expires(p.transition, dt) /\ p.state = "Wake"
  <2>1. q = [p EXCEPT !.state = "Run", !.transition = 0,
                      !.inactivity = SleepAfter]
    BY <1>5 DEF TransitionTick
  <2> HIDE DEF q
  <2>2. q \in PowerRecord
    BY <1>3, <2>1, InactivityBounds, PowerRecordUpdate DEF PowerState
  <2>3. PowerTimersArmed(q)
    BY <1>1, <2>1, PowerConfig DEF PowerRecord, PowerTimersArmed
  <2>4. q.transition = 0
    BY <1>1, <2>1 DEF PowerRecord
  <2>5. 0 <= p.transition
    BY <1>1 DEF PowerRecord
  <2> QED
    BY <1>2, <2>2, <2>3, <2>4, <2>5
<1>6. CASE Expires(p.transition, dt) /\ p.state = "Shutdown"
  <2>1. q = [p EXCEPT !.state = "Sleep", !.transition = 0]
    BY <1>6 DEF TransitionTick
  <2> HIDE DEF q
  <2>2. q \in PowerRecord
    BY <1>3, <2>1 DEF PowerRecord, PowerState
  <2>3. PowerTimersArmed(q)
    BY <1>1, <1>6, <2>1 DEF PowerRecord, PowerTimersArmed
  <2>4. q.transition = 0
    BY <1>1, <2>1 DEF PowerRecord
  <2>5. 0 <= p.transition
    BY <1>1 DEF PowerRecord
  <2> QED
    BY <1>2, <2>2, <2>3, <2>4, <2>5
<1>7. CASE Expires(p.transition, dt) /\ p.state \in {"Sleep", "Run"}
  <2>1. q = [p EXCEPT !.transition = 0]
    BY <1>7 DEF TransitionTick
  <2> HIDE DEF q
  <2>2. q \in PowerRecord
    BY <1>3, <2>1 DEF PowerRecord
  <2>3. PowerTimersArmed(q)
    BY <1>1, <1>7, <2>1 DEF PowerRecord, PowerTimersArmed
  <2>4. q.transition = 0
    BY <1>1, <2>1 DEF PowerRecord
  <2>5. 0 <= p.transition
    BY <1>1 DEF PowerRecord
  <2> QED
    BY <1>2, <2>2, <2>3, <2>4, <2>5
<1>8. p.state \in PowerState
  BY <1>1 DEF PowerRecord
<1> QED
  BY <1>4, <1>5, <1>6, <1>7, <1>8 DEF PowerState

\* The end of the inactivity delay starts the shutdown timer.
LEMMA InactivityTickSound ==
  ASSUME NEW p, SoundPower(p), NEW dt \in Nat
  PROVE  SoundPower(InactivityTick(p, dt))
<1> USE DEF SoundPower, PowerTyped, PowerTimersArmed, PowerRecord, PowerState
<1>1. CASE ~Expires(p.inactivity, dt)
  <2>1. /\ Elapse(p.inactivity, dt) \in 0 .. SleepAfter
        /\ Elapse(p.inactivity, dt) > 0 <=> p.inactivity > 0
    BY <1>1, PowerConfig DEF Expires, Elapse
  <2>2. InactivityTick(p, dt) = [p EXCEPT !.inactivity = Elapse(@, dt)]
    BY <1>1 DEF InactivityTick
  <2> QED
    BY <2>1, <2>2
<1>2. CASE Expires(p.inactivity, dt)
  <2>1. p.state = "Run"
    BY <1>2 DEF Expires
  <2>2. InactivityTick(p, dt) =
          [p EXCEPT !.state = "Shutdown", !.transition = ShutdownMs,
                    !.inactivity = 0]
    BY <1>2, <2>1 DEF InactivityTick
  <2>3. InactivityTick(p, dt) \in PowerRecord
    BY <2>2, InactivityBounds, PowerConfig
  <2> QED
    BY <2>2, <2>3, PowerConfig
<1> QED
  BY <1>1, <1>2

\* update() as a whole.
LEMMA UpdatePowerSound ==
  ASSUME NEW p, SoundPower(p), NEW dt \in Nat
  PROVE  SoundPower(UpdatePower(p, dt))
BY TransitionTickSound, InactivityTickSound DEF UpdatePower

\* reset() goes back to the constructor, but for the trigger.
LEMMA ResetPowerSound ==
  ASSUME NEW p, SoundPower(p)
  PROVE  SoundPower(ResetPower(p))
BY FreshPowerSound
   DEF SoundPower, PowerTyped, PowerTimersArmed, PowerRecord, ResetPower

\* A call of the class keeps it sound.
LEMMA PowerNextSound ==
  ASSUME SoundPower(power), PowerNext
  PROVE  SoundPower(power')
BY IgnitionOnSound, IgnitionOffSound, UpdateBatterySound, UpdatePowerSound,
   ResetPowerSound, DtAssumption
   DEF PowerNext, SwitchOn, SwitchOff, ReadBattery, Wait, Restart

\* The inductive invariant of the class.
THEOREM PowerSoundAlways == PowerSpec => []SoundPower(power)
<1>1. PowerInit => SoundPower(power)
  BY FreshPowerSound DEF PowerInit
<1>2. SoundPower(power) /\ [PowerNext]_power => SoundPower(power)'
  <2>1. SoundPower(power) /\ PowerNext => SoundPower(power)'
    BY PowerNextSound
  <2>2. SoundPower(power) /\ UNCHANGED power => SoundPower(power)'
    OBVIOUS
  <2> QED
    BY <2>1, <2>2
<1> QED
  BY <1>1, <1>2, PTL DEF PowerSpec

\* The type of the manager's state, for every call sequence and every
\* configuration: the shared timer never holds more than one of its delays.
THEOREM PowerTypedAlways == PowerSpec => []PowerTypeOK
<1>1. SoundPower(power) => PowerTypeOK
  BY DEF SoundPower, PowerTyped, PowerTypeOK
<1> QED
  BY <1>1, PowerSoundAlways, PTL

\* No state that must end is without the timer that ends it, and Sleep is
\* without any.
THEOREM PowerTimersAlways == PowerSpec => []PowerTimers
<1>1. SoundPower(power) => PowerTimers
  BY DEF SoundPower, PowerTimers
<1> QED
  BY <1>1, PowerSoundAlways, PTL

-----------------------------------------------------------------------------
(* Transitions take their full time *)

\* What a call that takes dt ms may do to the transition timer: it is started
\* afresh when Wake or Shutdown is entered, and loses dt at most otherwise.
FullDelay(state) == IF state = "Wake" THEN WakeMs ELSE ShutdownMs

Honoured(p, q, dt) ==
  q.state \in {"Wake", "Shutdown"} =>
    q.transition >= (IF p.state = q.state
                     THEN IF p.transition > dt THEN p.transition - dt ELSE 0
                     ELSE FullDelay(q.state))

\* The calls that take no time.
LEMMA CallsHonoured ==
  ASSUME NEW p, SoundPower(p)
  PROVE  /\ Honoured(p, IgnitionOn(p), 0)
         /\ Honoured(p, IgnitionOff(p), 0)
         /\ \A level : Honoured(p, UpdateBattery(p, level), 0)
<1> USE DEF SoundPower, PowerTyped, PowerRecord, PowerState, Honoured, FullDelay
<1>1. Honoured(p, IgnitionOn(p), 0)
  BY PowerConfig DEF IgnitionOn
<1>2. Honoured(p, IgnitionOff(p), 0)
  BY PowerConfig DEF IgnitionOff
<1>3. ASSUME NEW level PROVE Honoured(p, UpdateBattery(p, level), 0)
  <2>1. /\ UpdateBattery(p, level).state = p.state
        /\ UpdateBattery(p, level).transition = p.transition
    BY DEF UpdateBattery
  <2> QED
    BY <2>1
<1> QED
  BY <1>1, <1>2, <1>3

\* update() may leave Wake for Run and Run for Shutdown at once, but never
\* enters the state it was called in.
LEMMA UpdatePowerHonoured ==
  ASSUME NEW p, SoundPower(p), NEW dt \in Nat
  PROVE  Honoured(p, UpdatePower(p, dt), dt)
<1> DEFINE t == TransitionTick(p, dt)
           u == InactivityTick(t, dt)
<1>1. /\ SoundPower(t)
      /\ p \in PowerRecord
  BY TransitionTickSound DEF SoundPower, PowerTyped
<1>2. \/ /\ t.state = p.state
         /\ t.transition = Elapse(p.transition, dt)
      \/ t.state = "Run" /\ p.state = "Wake"
      \/ t.state = "Sleep"
      \/ t.state = "Run" /\ p.state = "Run"
  BY <1>1 DEF TransitionTick, PowerRecord, PowerState
<1> HIDE DEF t
<1>3. t \in PowerRecord /\ (t.inactivity > 0 <=> t.state = "Run")
  BY <1>1 DEF SoundPower, PowerTyped, PowerTimersArmed
<1>4. \/ u.state = t.state /\ u.transition = t.transition
      \/ t.state = "Run" /\ u.state = "Shutdown" /\ u.transition = ShutdownMs
  BY <1>3 DEF InactivityTick, Expires, PowerRecord
<1> HIDE DEF u
<1>5. Honoured(p, u, dt)
  BY <1>1, <1>2, <1>3, <1>4, PowerConfig
     DEF Honoured, FullDelay, Elapse, PowerRecord, PowerState
<1> QED
  BY <1>5 DEF UpdatePower, t, u

\* The history that TransitionsInFull looks at.
FullDwell == dwell \in Nat /\ TransitionsInFull

\* A call that honours the timer, and adds its time to the history, leaves
\* every transition the time it needs.
LEMMA HonouredInFull ==
  ASSUME SoundPower(power), SoundPower(power'), FullDwell,
         NEW dt \in Nat, Honoured(power, power', dt), dwell' = NextDwell(dt)
  PROVE  FullDwell'
<1>1. /\ power.transition \in Nat /\ power'.transition \in Nat
      /\ WakeMs \in Nat /\ ShutdownMs \in Nat /\ dwell \in Nat
  BY PowerConfig DEF SoundPower, PowerTyped, PowerRecord, FullDwell
<1>2. /\ power'.state # power.state => dwell' = 0
      /\ power'.state = power.state =>
           dwell' = IF dwell + dt > WakeMs + ShutdownMs
                    THEN WakeMs + ShutdownMs ELSE dwell + dt
  BY DEF NextDwell, Capped, DwellCap
<1>3. dwell' \in Nat
  BY <1>1, <1>2
<1>4. power'.state = "Shutdown" => dwell' + power'.transition >= ShutdownMs
  BY <1>1, <1>2 DEF Honoured, FullDelay, FullDwell, TransitionsInFull
<1>5. power'.state = "Wake" => dwell' + power'.transition >= WakeMs
  BY <1>1, <1>2 DEF Honoured, FullDelay, FullDwell, TransitionsInFull
<1> QED
  BY <1>3, <1>4, <1>5 DEF FullDwell, TransitionsInFull

\* A step of the manager with its history is a call of the manager.
LEMMA HistoryNextCalls ==
  ASSUME HistoryNext
  PROVE  PowerNext
BY DEF HistoryNext, PowerNext, HSwitchOn, HSwitchOff, HWait, HRestart,
       HReadBattery

\* Every step keeps the invariant.
LEMMA HistoryNextInFull ==
  ASSUME SoundPower(power), FullDwell, HistoryNext
  PROVE  FullDwell'
<1>1. SoundPower(power')
  BY HistoryNextCalls, PowerNextSound
<1>2. CASE HSwitchOn
  BY <1>1, <1>2, CallsHonoured, HonouredInFull DEF HSwitchOn, SwitchOn
<1>3. CASE HSwitchOff
  BY <1>1, <1>3, CallsHonoured, HonouredInFull DEF HSwitchOff, SwitchOff
<1>4. ASSUME NEW level \in BatteryLevels, HReadBattery(level)
      PROVE  FullDwell'
  BY <1>1, <1>4, CallsHonoured, HonouredInFull DEF HReadBattery, ReadBattery
<1>5. ASSUME NEW dt \in Dt, HWait(dt)
      PROVE  FullDwell'
  BY <1>1, <1>5, DtAssumption, UpdatePowerHonoured, HonouredInFull
     DEF HWait, Wait
<1>6. CASE HRestart
  <2>1. power'.state = "Sleep" /\ dwell' = 0
    BY <1>6 DEF HRestart, Restart, ResetPower, FreshPower
  <2> QED
    BY <2>1 DEF FullDwell, TransitionsInFull
<1> QED
  BY <1>2, <1>3, <1>4, <1>5, <1>6 DEF HistoryNext

\* For every delay, a shutdown and a wake-up take their full time, although
\* the shared timer may still be running when they begin.
THEOREM TransitionsAlwaysInFull == HistorySpec => []TransitionsInFull
<1> DEFINE I == SoundPower(power) /\ FullDwell
<1>1. HistoryInit => I
  BY FreshPowerSound
     DEF HistoryInit, PowerInit, FreshPower, FullDwell, TransitionsInFull
<1>2. I /\ [HistoryNext]_historyVars => I'
  <2>1. I /\ HistoryNext => I'
    BY HistoryNextCalls, PowerNextSound, HistoryNextInFull
  <2>2. I /\ UNCHANGED historyVars => I'
    BY DEF historyVars, FullDwell, TransitionsInFull
  <2> QED
    BY <2>1, <2>2
<1>3. I => TransitionsInFull
  BY DEF FullDwell
<1> QED
  BY <1>1, <1>2, <1>3, PTL DEF HistorySpec

-----------------------------------------------------------------------------
(* Load shedding follows the readings *)

\* How the trigger and the flags relate to the history of readings.
BatteryInv ==
  /\ readings \in 0 .. 2
  /\ power.battery_known <=> readings > 0
  /\ power.battery_ok <=> decisive = "ok"
  /\ ShedFollowsReadings
  /\ decisive \in {"low", "ok"}

\* The trigger is the last decisive reading, for every pair of thresholds.
LEMMA TriggerDecides ==
  ASSUME SoundPower(power), BatteryInv, NEW level \in BatteryLevels
  PROVE  Schmitt(power.battery_ok, BatteryLow, BatteryOk, level)
           <=> Decision(level) = "ok"
BY PowerConfig DEF BatteryInv, Schmitt, Decision

\* Calls other than a reading or reset() leave the battery's part alone.
SameBattery(p, q) ==
  /\ q.load_shed = p.load_shed
  /\ q.battery_ok = p.battery_ok
  /\ q.battery_known = p.battery_known

LEMMA CallsSameBattery ==
  ASSUME NEW p, SoundPower(p)
  PROVE  /\ SameBattery(p, IgnitionOn(p))
         /\ SameBattery(p, IgnitionOff(p))
         /\ \A dt \in Nat : SameBattery(p, UpdatePower(p, dt))
<1> USE DEF SoundPower, PowerTyped, PowerRecord, PowerState, SameBattery
<1>1. SameBattery(p, IgnitionOn(p))
  BY DEF IgnitionOn
<1>2. SameBattery(p, IgnitionOff(p))
  BY DEF IgnitionOff
<1>3. ASSUME NEW dt \in Nat PROVE SameBattery(p, UpdatePower(p, dt))
  <2>1. SoundPower(TransitionTick(p, dt))
    BY TransitionTickSound
  <2>2. SameBattery(p, TransitionTick(p, dt))
    BY DEF TransitionTick
  <2>3. ASSUME NEW q, SoundPower(q)
        PROVE  SameBattery(q, InactivityTick(q, dt))
    BY <2>3 DEF InactivityTick
  <2> QED
    BY <2>1, <2>2, <2>3 DEF UpdatePower
<1> QED
  BY <1>1, <1>2, <1>3

\* Every step keeps the relation.
LEMMA HistoryNextBattery ==
  ASSUME SoundPower(power), BatteryInv, HistoryNext
  PROVE  BatteryInv'
<1>1. ASSUME SameBattery(power, power'), UNCHANGED batteryVars
      PROVE  BatteryInv'
  BY <1>1 DEF SameBattery, batteryVars, BatteryInv, ShedFollowsReadings
<1>2. CASE HSwitchOn
  BY <1>1, <1>2, CallsSameBattery DEF HSwitchOn, SwitchOn
<1>3. CASE HSwitchOff
  BY <1>1, <1>3, CallsSameBattery DEF HSwitchOff, SwitchOff
<1>4. ASSUME NEW dt \in Dt, HWait(dt)
      PROVE  BatteryInv'
  BY <1>1, <1>4, DtAssumption, CallsSameBattery DEF HWait, Wait
<1>5. ASSUME NEW level \in BatteryLevels, HReadBattery(level)
      PROVE  BatteryInv'
  <2> DEFINE ok == Schmitt(power.battery_ok, BatteryLow, BatteryOk, level)
  <2>1. ok <=> Decision(level) = "ok"
    BY TriggerDecides
  <2>2. Decision(level) \in {"low", "ok"}
    BY PowerConfig DEF Decision, BatteryInv
  <2>3. /\ power'.battery_ok = ok
        /\ power'.battery_known = TRUE
        /\ power'.load_shed = IF power.battery_known THEN ~ok
                              ELSE power.load_shed
    BY <1>5
       DEF HReadBattery, ReadBattery, UpdateBattery, SoundPower, PowerTyped,
           PowerRecord
  <2>4. readings' = (IF readings = 0 THEN 1 ELSE 2) /\ decisive' = Decision(level)
    BY <1>5 DEF HReadBattery
  <2> HIDE DEF ok
  <2>5. readings' \in 1 .. 2 /\ (readings' = 2 <=> readings > 0)
    BY <2>4 DEF BatteryInv
  <2>6. power'.battery_ok <=> decisive' = "ok"
    BY <2>1, <2>3, <2>4
  <2>7. readings = 0 => ~power'.load_shed
    BY <2>3 DEF BatteryInv, ShedFollowsReadings
  <2>8. readings > 0 => (power'.load_shed <=> decisive' = "low")
    BY <2>1, <2>2, <2>3, <2>4 DEF BatteryInv
  <2>9. ShedFollowsReadings'
    BY <2>5, <2>7, <2>8 DEF ShedFollowsReadings, BatteryInv
  <2> QED
    BY <2>2, <2>3, <2>4, <2>5, <2>6, <2>9 DEF BatteryInv
<1>6. CASE HRestart
  <2>1. /\ ~power'.load_shed /\ ~power'.battery_known
        /\ power'.battery_ok = power.battery_ok
        /\ readings' = 0 /\ decisive' = decisive
    BY <1>6 DEF HRestart, Restart, ResetPower, FreshPower
  <2> QED
    BY <2>1 DEF BatteryInv, ShedFollowsReadings
<1> QED
  BY <1>2, <1>3, <1>4, <1>5, <1>6 DEF HistoryNext

\* For every pair of thresholds and every set of readings, shedding is the
\* verdict of the last reading outside the dead band, from the second
\* reading after a start on.
THEOREM ShedAlwaysFollows == HistorySpec => []ShedFollowsReadings
<1> DEFINE I == SoundPower(power) /\ BatteryInv
<1>1. HistoryInit => I
  BY FreshPowerSound
     DEF HistoryInit, PowerInit, FreshPower, BatteryInv, ShedFollowsReadings
<1>2. I /\ [HistoryNext]_historyVars => I'
  <2>1. I /\ HistoryNext => I'
    BY HistoryNextCalls, PowerNextSound, HistoryNextBattery
  <2>2. I /\ UNCHANGED historyVars => I'
    BY DEF historyVars, BatteryInv, ShedFollowsReadings
  <2> QED
    BY <2>1, <2>2
<1>3. I => ShedFollowsReadings
  BY DEF BatteryInv
<1> QED
  BY <1>1, <1>2, <1>3, PTL DEF HistorySpec

-----------------------------------------------------------------------------
(* LIGHTING. Lamps that are on have one owner, the hazard latch agrees with *)
(* the indicator machine, and the auto-headlight follows the daylight.      *)

\* A manager state in which the type and both invariants hold.
SoundLighting(l) ==
  /\ l \in LightingRecord
  /\ Ownership(l)
  /\ HazardLatch(l)

\* The constructor leaves the manager sound.
LEMMA FreshLightingSound == SoundLighting(FreshLighting)
BY DEF SoundLighting, FreshLighting, LightingRecord, LightState, IndState,
       Ownership, HazardLatch

\* The operations on the light switch change these three fields only.
LEMMA LightSound ==
  ASSUME NEW l, SoundLighting(l), NEW m, m \in LightingRecord, Ownership(m),
         m.indicator = l.indicator, m.hazard_latched = l.hazard_latched
  PROVE  SoundLighting(m)
BY DEF SoundLighting, HazardLatch

\* Those on the indicators leave the light switch alone.
LEMMA IndicatorSound ==
  ASSUME NEW l, SoundLighting(l), NEW m, m \in LightingRecord, HazardLatch(m),
         m.light = l.light, m.auto = l.auto, m.manual = l.manual
  PROVE  SoundLighting(m)
BY DEF SoundLighting, Ownership

\* A step of the light switch makes the driver the owner, or frees the lamps.
LEMMA NextModeSound ==
  ASSUME NEW l, SoundLighting(l)
  PROVE  SoundLighting(NextMode(l))
<1> DEFINE m == NextMode(l)
<1> SUFFICES SoundLighting(m)
  OBVIOUS
<1>1. l \in LightingRecord
  BY DEF SoundLighting
<1>2. CASE l.light = "HighBeam"
  <2>1. m = [l EXCEPT !.light = "Off", !.manual = FALSE, !.auto = FALSE]
    BY <1>2 DEF NextMode
  <2> HIDE DEF m
  <2>2. m \in LightingRecord
    BY <1>1, <2>1 DEF LightingRecord, LightState
  <2>3. /\ Ownership(m)
        /\ m.indicator = l.indicator /\ m.hazard_latched = l.hazard_latched
    BY <1>1, <2>1 DEF LightingRecord, Ownership
  <2> QED
    BY <2>2, <2>3, LightSound
<1>3. CASE l.light # "HighBeam"
  <2> DEFINE next == AfterLight[l.light]
  <2>1. next \in LightState \ {"Off"}
    BY <1>1, <1>3 DEF LightingRecord, LightState, AfterLight
  <2>2. m = [l EXCEPT !.light = next, !.manual = TRUE]
    BY <1>3 DEF NextMode
  <2>3. next = "HighBeam" <=> l.light = "LowBeam"
    BY <1>1, <1>3 DEF LightingRecord, LightState, AfterLight
  <2> HIDE DEF m, next
  <2>4. m \in LightingRecord
    BY <1>1, <2>1, <2>2 DEF LightingRecord
  <2>5. /\ Ownership(m)
        /\ m.indicator = l.indicator /\ m.hazard_latched = l.hazard_latched
    BY <1>1, <1>3, <2>1, <2>2, <2>3
       DEF LightingRecord, LightState, SoundLighting, Ownership
  <2> QED
    BY <2>4, <2>5, LightSound
<1> QED
  BY <1>2, <1>3

\* Forcing the lamps off leaves no claim behind.
LEMMA AllOffSound ==
  ASSUME NEW l, SoundLighting(l)
  PROVE  SoundLighting(AllOff(l))
<1>1. AllOff(l) \in LightingRecord
  BY DEF SoundLighting, AllOff, LightingRecord, LightState
<1>2. /\ Ownership(AllOff(l))
      /\ AllOff(l).indicator = l.indicator
      /\ AllOff(l).hazard_latched = l.hazard_latched
  BY DEF SoundLighting, LightingRecord, AllOff, Ownership
<1> QED
  BY <1>1, <1>2, LightSound

\* At dusk the auto-headlight takes lamps that nobody has claimed.
LEMMA AutoOnSound ==
  ASSUME NEW l, SoundLighting(l)
  PROVE  SoundLighting(AutoOn(l))
<1>1. l \in LightingRecord
  BY DEF SoundLighting
<1>2. CASE l.light \in {"Off", "Parking", "Drl"} /\ ~l.manual
  <2>1. AutoOn(l) = [l EXCEPT !.light = "LowBeam", !.auto = TRUE]
    BY <1>2 DEF AutoOn
  <2>2. AutoOn(l) \in LightingRecord
    BY <1>1, <2>1 DEF LightingRecord, LightState
  <2>3. /\ Ownership(AutoOn(l))
        /\ AutoOn(l).indicator = l.indicator
        /\ AutoOn(l).hazard_latched = l.hazard_latched
    BY <1>1, <1>2, <2>1 DEF LightingRecord, Ownership
  <2> QED
    BY <2>2, <2>3, LightSound
<1>3. CASE ~(l.light \in {"Off", "Parking", "Drl"} /\ ~l.manual)
  BY <1>3 DEF AutoOn
<1> QED
  BY <1>2, <1>3

\* At dawn it returns the lamps that it took.
LEMMA AutoOffSound ==
  ASSUME NEW l, SoundLighting(l)
  PROVE  SoundLighting(AutoOff(l))
<1>1. l \in LightingRecord
  BY DEF SoundLighting
<1>2. CASE l.light = "LowBeam" /\ l.auto
  <2>1. AutoOff(l) = [l EXCEPT !.light = "Off", !.auto = FALSE]
    BY <1>2 DEF AutoOff
  <2>2. AutoOff(l) \in LightingRecord
    BY <1>1, <2>1 DEF LightingRecord, LightState
  <2>3. /\ Ownership(AutoOff(l))
        /\ AutoOff(l).indicator = l.indicator
        /\ AutoOff(l).hazard_latched = l.hazard_latched
    BY <1>1, <1>2, <2>1 DEF SoundLighting, LightingRecord, Ownership
  <2> QED
    BY <2>2, <2>3, LightSound
<1>3. CASE ~(l.light = "LowBeam" /\ l.auto)
  BY <1>3 DEF AutoOff
<1> QED
  BY <1>2, <1>3

\* An ambient reading, whatever the trigger makes of it.
LEMMA UpdateAmbientSound ==
  ASSUME NEW l, SoundLighting(l), NEW level
  PROVE  SoundLighting(UpdateAmbient(l, level))
<1> DEFINE dark == Schmitt(l.dark, AmbientDark, AmbientLight, Inverted(level))
           seen == [l EXCEPT !.dark = dark, !.dark_known = TRUE]
<1>1. dark \in BOOLEAN
  BY DEF Schmitt
<1>2. UpdateAmbient(l, level) \in {AutoOn(seen), AutoOff(seen), seen}
  BY <1>1 DEF UpdateAmbient, SoundLighting, LightingRecord
<1> HIDE DEF dark
<1>3. SoundLighting(seen)
  BY <1>1 DEF SoundLighting, LightingRecord, Ownership, HazardLatch
<1> HIDE DEF seen
<1> QED
  BY <1>2, <1>3, AutoOnSound, AutoOffSound

\* A press of an indicator lever, which Hazard ignores.
LEMMA PressIndicatorSound ==
  ASSUME NEW l, SoundLighting(l)
  PROVE  SoundLighting(PressLeft(l)) /\ SoundLighting(PressRight(l))
<1>1. l \in LightingRecord /\ HazardLatch(l)
  BY DEF SoundLighting
<1>2. ASSUME NEW i \in IndState \ {"Hazard"}, l.indicator # "Hazard"
      PROVE  SoundLighting([l EXCEPT !.indicator = i])
  <2> DEFINE m == [l EXCEPT !.indicator = i]
  <2>1. m \in LightingRecord /\ HazardLatch(m)
    BY <1>1, <1>2 DEF LightingRecord, HazardLatch
  <2>2. m.light = l.light /\ m.auto = l.auto /\ m.manual = l.manual
    BY <1>1 DEF LightingRecord
  <2> QED
    BY <2>1, <2>2, IndicatorSound
<1>3. l.indicator \in IndState
  BY <1>1 DEF LightingRecord
<1>4. SoundLighting(PressLeft(l))
  BY <1>2, <1>3 DEF PressLeft, IndState
<1>5. SoundLighting(PressRight(l))
  BY <1>2, <1>3 DEF PressRight, IndState
<1> QED
  BY <1>4, <1>5

\* Cancelling releases the latch with the hazards.
LEMMA CancelSound ==
  ASSUME NEW l, SoundLighting(l)
  PROVE  SoundLighting(Cancel(l))
<1>1. l \in LightingRecord
  BY DEF SoundLighting
<1>2. Cancel(l) \in LightingRecord
  BY <1>1 DEF Cancel, LightingRecord, IndState
<1>3. HazardLatch(Cancel(l))
  BY <1>1 DEF Cancel, LightingRecord, HazardLatch
<1>4. /\ Cancel(l).light = l.light
      /\ Cancel(l).auto = l.auto /\ Cancel(l).manual = l.manual
  BY <1>1 DEF Cancel, LightingRecord
<1> QED
  BY <1>2, <1>3, <1>4, IndicatorSound

\* The hazard button sets latch and machine together, or cancels both.
LEMMA PressHazardSound ==
  ASSUME NEW l, SoundLighting(l)
  PROVE  SoundLighting(PressHazard(l))
<1>1. l \in LightingRecord
  BY DEF SoundLighting
<1>2. CASE ~l.hazard_latched
  <2> DEFINE m == [l EXCEPT !.indicator = "Hazard", !.hazard_latched = TRUE]
  <2>1. m \in LightingRecord
    BY <1>1 DEF LightingRecord, IndState
  <2>2. HazardLatch(m)
    BY <1>1 DEF LightingRecord, HazardLatch
  <2>3. m.light = l.light /\ m.auto = l.auto /\ m.manual = l.manual
    BY <1>1 DEF LightingRecord
  <2> QED
    BY <1>2, <2>1, <2>2, <2>3, IndicatorSound DEF PressHazard
<1> QED
  BY <1>2, CancelSound DEF PressHazard

\* reset() goes back to the constructor, but for the trigger.
LEMMA ResetLightingSound ==
  ASSUME NEW l, SoundLighting(l)
  PROVE  SoundLighting(ResetLighting(l))
BY FreshLightingSound
   DEF SoundLighting, LightingRecord, ResetLighting, Ownership, HazardLatch

\* The inductive invariant of the class.
THEOREM LightingSoundAlways == LightingSpec => []SoundLighting(lighting)
<1>1. LightingInit => SoundLighting(lighting)
  BY FreshLightingSound DEF LightingInit
<1>2. SoundLighting(lighting) /\ [LightingNext]_lighting
        => SoundLighting(lighting)'
  <2> SUFFICES ASSUME SoundLighting(lighting), [LightingNext]_lighting
               PROVE  SoundLighting(lighting')
    OBVIOUS
  <2>1. CASE StepMode
    BY <2>1, NextModeSound DEF StepMode
  <2>2. CASE ForceOff
    BY <2>2, AllOffSound DEF ForceOff
  <2>3. ASSUME NEW level \in AmbientLevels, SenseLight(level)
        PROVE  SoundLighting(lighting')
    BY <2>3, UpdateAmbientSound DEF SenseLight
  <2>4. CASE TurnLeft \/ TurnRight
    BY <2>4, PressIndicatorSound DEF TurnLeft, TurnRight
  <2>5. CASE ToggleHazard
    BY <2>5, PressHazardSound DEF ToggleHazard
  <2>6. CASE CancelTurn
    BY <2>6, CancelSound DEF CancelTurn
  <2>7. CASE RestartLighting
    BY <2>7, ResetLightingSound DEF RestartLighting
  <2>8. CASE UNCHANGED lighting
    BY <2>8
  <2> QED
    BY <2>1, <2>2, <2>3, <2>4, <2>5, <2>6, <2>7, <2>8 DEF LightingNext
<1> QED
  BY <1>1, <1>2, PTL DEF LightingSpec

\* Lamps that are on have an owner, and only one who may switch them off,
\* for every pair of thresholds and every sequence of calls.
THEOREM LampsOwned == LightingSpec => []LampOwnership
<1>1. SoundLighting(lighting) => LampOwnership
  BY DEF SoundLighting, LampOwnership
<1> QED
  BY <1>1, LightingSoundAlways, PTL

\* The hazard latch and the indicator machine never part.
THEOREM HazardAlwaysLatched == LightingSpec => []HazardLatched
<1>1. SoundLighting(lighting) => HazardLatched
  BY DEF SoundLighting, HazardLatched
<1> QED
  BY <1>1, LightingSoundAlways, PTL

\* A reading never changes lamps the driver has chosen.
LEMMA ManualStands ==
  ASSUME SoundLighting(lighting), NEW level, SenseLight(level), lighting.manual
  PROVE  lighting'.light = lighting.light
<1> DEFINE dark == Schmitt(lighting.dark, AmbientDark, AmbientLight,
                           Inverted(level))
           seen == [lighting EXCEPT !.dark = dark, !.dark_known = TRUE]
<1>1. dark \in BOOLEAN
  BY DEF Schmitt
<1>2. lighting' \in {AutoOn(seen), AutoOff(seen), seen}
  BY <1>1 DEF SenseLight, UpdateAmbient, SoundLighting, LightingRecord
<1> HIDE DEF dark
<1>3. /\ seen.light = lighting.light
      /\ seen.manual /\ seen.auto = lighting.auto
  BY DEF SoundLighting, LightingRecord
<1>4. ~(seen.light = "LowBeam" /\ seen.auto)
  BY <1>3 DEF SoundLighting, Ownership
<1> HIDE DEF seen
<1> QED
  BY <1>2, <1>3, <1>4 DEF AutoOn, AutoOff

\* The auto-headlight never overrules the driver, and no lever ends the
\* hazards, for every pair of thresholds.
THEOREM DriverAlwaysStands == LightingSpec => DriverAndHazardStand
<1> DEFINE Stands ==
      /\ (\E level \in AmbientLevels : SenseLight(level)) /\ lighting.manual
           => lighting'.light = lighting.light
      /\ lighting.indicator = "Hazard" /\ lighting'.indicator # "Hazard"
           => ToggleHazard \/ CancelTurn \/ RestartLighting
<1>1. SoundLighting(lighting) /\ [LightingNext]_lighting => [Stands]_lighting
  <2> SUFFICES ASSUME SoundLighting(lighting), LightingNext
               PROVE  Stands
    OBVIOUS
  <2>1. lighting \in LightingRecord
    BY DEF SoundLighting
  <2>2. (\E level \in AmbientLevels : SenseLight(level)) /\ lighting.manual
          => lighting'.light = lighting.light
    BY ManualStands
  <2>3. ASSUME lighting.indicator = "Hazard",
               StepMode \/ ForceOff \/ TurnLeft \/ TurnRight
        PROVE  lighting'.indicator = "Hazard"
    BY <2>1, <2>3
       DEF LightingRecord, StepMode, ForceOff, TurnLeft, TurnRight, NextMode,
           AllOff, PressLeft, PressRight
  <2>4. ASSUME lighting.indicator = "Hazard", NEW level, SenseLight(level)
        PROVE  lighting'.indicator = "Hazard"
    BY <2>1, <2>4
       DEF LightingRecord, SenseLight, UpdateAmbient, AutoOn, AutoOff, Schmitt
  <2> QED
    BY <2>2, <2>3, <2>4 DEF LightingNext
<1> QED
  BY <1>1, LightingSoundAlways, PTL DEF LightingSpec, DriverAndHazardStand

-----------------------------------------------------------------------------
(* The auto-headlight follows the daylight *)

\* What the trigger makes of a reading: thresholds on the complement.
Darkness(on, level) ==
  \/ level + AmbientLight <= FullScale
  \/ on /\ ~(level + AmbientDark >= FullScale)

LEMMA TriggerSeesDusk ==
  ASSUME NEW level \in AmbientLevels, NEW on \in BOOLEAN
  PROVE  Schmitt(on, AmbientDark, AmbientLight, Inverted(level)) = Darkness(on, level)
<1>1. /\ level \in Nat /\ FullScale \in Nat
      /\ AmbientDark \in Nat /\ AmbientLight \in Nat /\ AmbientDark < AmbientLight
  BY LightingConfig
<1> DEFINE dark == Inverted(level)
<1>2. /\ dark >= AmbientLight <=> level + AmbientLight <= FullScale
      /\ dark > AmbientDark <=> ~(level + AmbientDark >= FullScale)
      /\ dark >= AmbientLight => dark > AmbientDark
  BY <1>1 DEF Inverted
<1> HIDE DEF dark
<1>3. Schmitt(on, AmbientDark, AmbientLight, dark)
        <=> (\/ ~on /\ dark >= AmbientLight
             \/ on /\ dark > AmbientDark)
  BY DEF Schmitt
<1>4. Schmitt(on, AmbientDark, AmbientLight, dark) <=> Darkness(on, level)
  BY <1>2, <1>3, Zenon DEF Darkness
<1> QED
  BY <1>4 DEF dark, Schmitt, Darkness

\* What the two lists of readings have to do with the thresholds.
LEMMA KindsDecide ==
  ASSUME NEW level \in AmbientLevels, NEW on \in BOOLEAN
  PROVE  /\ Kind(level) = "dark" => Darkness(on, level)
         /\ Kind(level) = "bright" => ~Darkness(on, level)
<1>1. /\ level \in Nat /\ FullScale \in Nat
      /\ AmbientDark \in Nat /\ AmbientLight \in Nat /\ AmbientDark < AmbientLight
  BY LightingConfig
<1>2. /\ Kind(level) = "dark" => Dark(level)
      /\ Kind(level) = "bright" => Bright(level)
  BY DEF Kind
<1>3. Dark(level) => level + AmbientLight <= FullScale
  BY DEF Dark
<1>4. Bright(level) => /\ level + AmbientDark >= FullScale
                       /\ ~(level + AmbientLight <= FullScale)
  BY <1>1 DEF Bright
<1> QED
  BY <1>2, <1>3, <1>4 DEF Darkness

\* A reading's effect on the lamps, case by case.
LEMMA ReadingTaken ==
  ASSUME lighting \in LightingRecord, NEW level \in AmbientLevels, SenseLight(level)
  PROVE  /\ lighting'.dark = Darkness(lighting.dark, level)
         /\ lighting'.dark_known
         /\ lighting'.manual = lighting.manual
         /\ IF lighting'.dark
            THEN IF lighting.light \in {"Off", "Parking", "Drl"} /\ ~lighting.manual
                 THEN lighting'.light = "LowBeam" /\ lighting'.auto
                 ELSE lighting'.light = lighting.light /\ lighting'.auto = lighting.auto
            ELSE IF lighting.dark_known /\ lighting.light = "LowBeam" /\ lighting.auto
                 THEN lighting'.light = "Off" /\ ~lighting'.auto
                 ELSE lighting'.light = lighting.light /\ lighting'.auto = lighting.auto
<1> DEFINE dark == Darkness(lighting.dark, level)
           seen == [lighting EXCEPT !.dark = dark, !.dark_known = TRUE]
<1>1. lighting.dark \in BOOLEAN /\ dark \in BOOLEAN
  BY DEF LightingRecord, Darkness
<1>2. Schmitt(lighting.dark, AmbientDark, AmbientLight, Inverted(level)) = dark
  BY <1>1, TriggerSeesDusk
<1>3. lighting' = CASE dark -> AutoOn(seen)
                    [] ~dark /\ lighting.dark_known -> AutoOff(seen)
                    [] ~dark /\ ~lighting.dark_known -> seen
  BY <1>2 DEF SenseLight, UpdateAmbient
<1>4. /\ seen \in LightingRecord
      /\ seen.light = lighting.light /\ seen.auto = lighting.auto
      /\ seen.manual = lighting.manual /\ seen.dark = dark /\ seen.dark_known
  BY <1>1 DEF LightingRecord
<1> HIDE DEF seen, dark
<1>5. CASE dark
  <2>1. lighting' = AutoOn(seen)
    BY <1>3, <1>5
  <2> QED
    BY <1>1, <1>4, <1>5, <2>1 DEF AutoOn, LightingRecord, dark
<1>6. CASE ~dark /\ lighting.dark_known
  <2>1. lighting' = AutoOff(seen)
    BY <1>3, <1>6
  <2> QED
    BY <1>1, <1>4, <1>6, <2>1 DEF AutoOff, LightingRecord, dark
<1>7. CASE ~dark /\ ~lighting.dark_known
  <2>1. lighting' = seen
    BY <1>3, <1>7
  <2> QED
    BY <1>1, <1>4, <1>7, <2>1 DEF dark
<1> QED
  BY <1>1, <1>5, <1>6, <1>7

\* Before the first reading since a reset the auto-headlight owns nothing.
KnownFirst == lighting.dark_known \/ ~lighting.auto

LEMMA KnownFirstKept ==
  ASSUME SoundLighting(lighting), KnownFirst, [HLightingNext]_lightingHistory
  PROVE  SoundLighting(lighting') /\ KnownFirst'
<1>1. lighting \in LightingRecord
  BY DEF SoundLighting
<1>2. ASSUME NEW level \in AmbientLevels, HSenseLight(level)
      PROVE  SoundLighting(lighting') /\ KnownFirst'
  <2>1. lighting'.dark_known
    BY <1>1, <1>2, ReadingTaken DEF HSenseLight
  <2>2. SoundLighting(lighting')
    BY <1>2, UpdateAmbientSound DEF HSenseLight, SenseLight
  <2> QED
    BY <2>1, <2>2 DEF KnownFirst
<1>3. ASSUME HSwitchCall \/ HTurnCall
      PROVE  SoundLighting(lighting') /\ KnownFirst'
  <2>1. SoundLighting(lighting')
    BY <1>3, NextModeSound, AllOffSound, PressIndicatorSound, PressHazardSound,
       CancelSound, ResetLightingSound
       DEF HSwitchCall, HTurnCall, StepMode, ForceOff, TurnLeft, TurnRight,
           ToggleHazard, CancelTurn, RestartLighting
  <2>2. lighting'.dark_known \/ ~lighting'.auto
    BY <1>1, <1>3
       DEF HSwitchCall, HTurnCall, StepMode, ForceOff, TurnLeft, TurnRight,
           ToggleHazard, CancelTurn, RestartLighting, NextMode, AllOff, PressLeft,
           PressRight, PressHazard, Cancel, ResetLighting, FreshLighting,
           LightingRecord, IndState, KnownFirst
  <2> QED
    BY <2>1, <2>2 DEF KnownFirst
<1>4. CASE UNCHANGED lightingHistory
  BY <1>4 DEF lightingHistory, KnownFirst
<1> QED
  BY <1>2, <1>3, <1>4 DEF HLightingNext

DuskInv == SoundLighting(lighting) /\ KnownFirst /\ AutoFollowsDusk

LEMMA DuskInit == HLightingInit => DuskInv
<1> SUFFICES ASSUME HLightingInit PROVE DuskInv
  OBVIOUS
<1>1. lighting = FreshLighting /\ sensed = "other"
  BY DEF HLightingInit, LightingInit
<1>2. ~lighting.auto
  BY <1>1 DEF FreshLighting
<1> QED
  BY <1>1, <1>2, FreshLightingSound DEF DuskInv, KnownFirst, AutoFollowsDusk

LEMMA DuskStep == DuskInv /\ [HLightingNext]_lightingHistory => DuskInv'
<1> SUFFICES ASSUME DuskInv, [HLightingNext]_lightingHistory PROVE DuskInv'
  OBVIOUS
<1>1. SoundLighting(lighting') /\ KnownFirst'
  BY KnownFirstKept DEF DuskInv
<1>2. lighting \in LightingRecord /\ lighting.dark \in BOOLEAN /\ Ownership(lighting)
  BY DEF DuskInv, SoundLighting, LightingRecord
<1>3. ASSUME NEW level \in AmbientLevels, HSenseLight(level) PROVE AutoFollowsDusk'
  <2>1. sensed' = Kind(level) /\ SenseLight(level)
    BY <1>3 DEF HSenseLight
  <2>2. CASE sensed' = "dark"
    <3>1. lighting'.dark
      BY <1>2, <2>1, <2>2, KindsDecide, ReadingTaken
    <3>2. ~lighting'.manual => lighting'.light = "LowBeam"
      BY <1>2, <2>1, <3>1, ReadingTaken DEF LightingRecord, LightState, Ownership
    <3> QED
      BY <2>2, <3>2 DEF AutoFollowsDusk
  <2>3. CASE sensed' = "bright"
    <3>1. ~lighting'.dark
      BY <1>2, <2>1, <2>3, KindsDecide, ReadingTaken
    <3>2. ~(lighting'.light = "LowBeam" /\ lighting'.auto)
      BY <1>2, <2>1, <3>1, ReadingTaken DEF DuskInv, KnownFirst, LightingRecord
    <3> QED
      BY <2>3, <3>2 DEF AutoFollowsDusk
  <2>4. CASE sensed' \notin {"dark", "bright"}
    BY <2>4 DEF AutoFollowsDusk
  <2> QED
    BY <2>2, <2>3, <2>4
<1>4. ASSUME HSwitchCall \/ HTurnCall PROVE AutoFollowsDusk'
  BY <1>4 DEF HSwitchCall, HTurnCall, AutoFollowsDusk
<1>5. ASSUME UNCHANGED lightingHistory PROVE AutoFollowsDusk'
  BY <1>5 DEF lightingHistory, lightHistories, AutoFollowsDusk, DuskInv
<1>6. AutoFollowsDusk'
  <2>1. CASE HLightingNext
    BY <1>3, <1>4, <2>1 DEF HLightingNext
  <2> QED
    BY <1>5, <2>1
<1> QED
  BY <1>1, <1>6 DEF DuskInv

\* AutoFollowsDusk of LightingHistory: a dark reading lights the low beam
\* unless the driver has chosen, a bright one puts out what the sensor lit,
\* for every pair of thresholds, every full scale and every mix of readings,
\* presses and resets.
THEOREM AutoAlwaysFollowsDusk == HLightingSpec => []AutoFollowsDusk
<1>1. DuskInv => AutoFollowsDusk
  BY DEF DuskInv
<1> QED
  BY <1>1, DuskInit, DuskStep, PTL DEF HLightingSpec

-----------------------------------------------------------------------------
(* The beam does not flicker *)

\* Once a reading has switched the beam, beam and trigger agree until the
\* driver's next call, so the reading that switches it again is one that
\* crosses the other threshold: the last one that switched it is remembered
\* by the side of the scale it lies on.
BeamIsTriggers ==
  \/ lighting.dark /\ lighting.light = "LowBeam" /\ lighting.auto
  \/ ~lighting.dark /\ lighting.light = "Off"

Switched ==
  /\ switches \in 0..2 /\ switched_at \in Nat
  /\ switches > 0 => lighting.dark_known /\ ~lighting.manual /\ BeamIsTriggers
  /\ switches = 2 /\ lighting.dark => switched_at + AmbientLight <= FullScale
  /\ switches = 2 /\ ~lighting.dark => switched_at + AmbientDark >= FullScale

ChatterInv == SoundLighting(lighting) /\ KnownFirst /\ Switched

LEMMA ChatterInit == HLightingInit => ChatterInv
<1> SUFFICES ASSUME HLightingInit PROVE ChatterInv
  OBVIOUS
<1>1. lighting = FreshLighting /\ switches = 0 /\ switched_at = 0
  BY DEF HLightingInit, LightingInit
<1>2. ~lighting.auto
  BY <1>1 DEF FreshLighting
<1> QED
  BY <1>1, <1>2, FreshLightingSound DEF ChatterInv, KnownFirst, Switched

\* While the beam is the trigger's, a reading switches it by turning the
\* trigger, so it lies beyond the threshold on that side.
LEMMA SwitchingReading ==
  ASSUME ChatterInv, NEW level \in AmbientLevels, HSenseLight(level), BeamChanges,
         switches > 0
  PROVE  /\ lighting'.dark <=> ~lighting.dark
         /\ lighting'.dark => level + AmbientLight <= FullScale
         /\ ~lighting'.dark => level + AmbientDark >= FullScale
<1>1. lighting \in LightingRecord /\ lighting.dark \in BOOLEAN
  BY DEF ChatterInv, SoundLighting, LightingRecord
<1>2. SenseLight(level) /\ lighting'.light # lighting.light
  BY DEF HSenseLight, BeamChanges
<1>3. BeamIsTriggers /\ ~lighting.manual
  BY DEF ChatterInv, Switched
<1>4. lighting'.dark = Darkness(lighting.dark, level)
  BY <1>1, <1>2, ReadingTaken
<1>5. lighting'.dark \in BOOLEAN
  BY <1>4 DEF Darkness
<1>6. lighting'.dark # lighting.dark
  BY <1>1, <1>2, <1>3, <1>5, ReadingTaken DEF BeamIsTriggers
<1>7. lighting'.dark <=> ~lighting.dark
  BY <1>1, <1>5, <1>6
<1> QED
  BY <1>4, <1>7, Zenon DEF Darkness

\* A reading that switches the beam leaves it the trigger's.
LEMMA BeamLeftToTrigger ==
  ASSUME ChatterInv, NEW level \in AmbientLevels, HSenseLight(level),
         BeamChanges \/ switches > 0
  PROVE  lighting'.dark_known /\ ~lighting'.manual /\ BeamIsTriggers'
<1>1. lighting \in LightingRecord /\ lighting.dark \in BOOLEAN /\ Ownership(lighting)
  BY DEF ChatterInv, SoundLighting, LightingRecord
<1>2. SenseLight(level)
  BY DEF HSenseLight
<1>3. lighting'.dark_known /\ lighting'.manual = lighting.manual
  BY <1>1, <1>2, ReadingTaken
<1>4. CASE BeamChanges
  BY <1>1, <1>2, <1>4, ReadingTaken
     DEF BeamChanges, BeamIsTriggers, Ownership, LightingRecord
<1>5. CASE switches > 0 /\ ~BeamChanges
  <2>1. BeamIsTriggers /\ ~lighting.manual /\ lighting.dark_known
    BY <1>5 DEF ChatterInv, Switched
  <2> QED
    BY <1>1, <1>2, <1>5, <2>1, ReadingTaken DEF BeamChanges, BeamIsTriggers
<1> QED
  BY <1>4, <1>5

LEMMA SwitchedBySensor ==
  ASSUME ChatterInv, NEW level \in AmbientLevels, HSenseLight(level)
  PROVE  Switched'
<1>1. switches \in 0..2 /\ switched_at \in Nat /\ level \in Nat
  BY LightingConfig DEF ChatterInv, Switched
<1>2. /\ switches' = IF BeamChanges /\ switches < 2 THEN switches + 1 ELSE switches
      /\ switched_at' = IF BeamChanges THEN level ELSE switched_at
  BY DEF HSenseLight
<1>3. switches' \in 0..2 /\ switched_at' \in Nat
  BY <1>1, <1>2
<1>4. switches' > 0 => BeamChanges \/ switches > 0
  BY <1>1, <1>2
<1>5. switches' = 2 => switches > 0
  BY <1>1, <1>2
<1>6. CASE BeamChanges
  BY <1>2, <1>3, <1>4, <1>5, <1>6, SwitchingReading, BeamLeftToTrigger DEF Switched
<1>7. CASE ~BeamChanges
  <2>1. switches' = switches /\ switched_at' = switched_at
    BY <1>2, <1>7
  <2>2. switches > 0 => (lighting'.dark <=> lighting.dark)
    <3> SUFFICES ASSUME switches > 0 PROVE lighting'.dark <=> lighting.dark
      OBVIOUS
    <3>1. BeamIsTriggers' /\ BeamIsTriggers
      BY BeamLeftToTrigger DEF ChatterInv, Switched
    <3> QED
      BY <1>7, <3>1 DEF BeamChanges, BeamIsTriggers
  <2> QED
    BY <1>1, <1>3, <1>4, <2>1, <2>2, BeamLeftToTrigger DEF ChatterInv, Switched
<1> QED
  BY <1>6, <1>7

LEMMA ChatterStep == ChatterInv /\ [HLightingNext]_lightingHistory => ChatterInv'
<1> SUFFICES ASSUME ChatterInv, [HLightingNext]_lightingHistory PROVE ChatterInv'
  OBVIOUS
<1>1. SoundLighting(lighting') /\ KnownFirst'
  BY KnownFirstKept DEF ChatterInv
<1>2. lighting \in LightingRecord
  BY DEF ChatterInv, SoundLighting
<1>3. ASSUME HSwitchCall PROVE Switched'
  BY <1>3 DEF HSwitchCall, ChatterInv, Switched
<1>4. ASSUME HTurnCall PROVE Switched'
  <2> DEFINE Alike == /\ lighting'.dark_known = lighting.dark_known
                      /\ lighting'.dark = lighting.dark
                      /\ lighting'.manual = lighting.manual
                      /\ lighting'.light = lighting.light
                      /\ lighting'.auto = lighting.auto
  <2>1. switches' = switches /\ switched_at' = switched_at
    BY <1>4 DEF HTurnCall
  <2>2. ASSUME TurnLeft \/ TurnRight PROVE Alike
    BY <1>2, <2>2
       DEF TurnLeft, TurnRight, PressLeft, PressRight, LightingRecord, IndState
  <2>3. ASSUME ToggleHazard \/ CancelTurn PROVE Alike
    BY <1>2, <2>3 DEF ToggleHazard, CancelTurn, PressHazard, Cancel, LightingRecord
  <2>4. Alike
    BY <1>4, <2>2, <2>3 DEF HTurnCall
  <2> QED
    BY <2>1, <2>4 DEF ChatterInv, Switched, BeamIsTriggers
<1>5. ASSUME UNCHANGED lightingHistory PROVE Switched'
  BY <1>5 DEF lightingHistory, lightHistories, ChatterInv, Switched, BeamIsTriggers
<1>6. Switched'
  <2>1. CASE HLightingNext
    BY <1>3, <1>4, <2>1, SwitchedBySensor DEF HLightingNext
  <2> QED
    BY <1>5, <2>1
<1> QED
  BY <1>1, <1>6 DEF ChatterInv

\* NoChatter of LightingHistory: between two switchings by the sensor the
\* reading has moved by the hysteresis, for every pair of thresholds, every
\* full scale and whatever the indicators do in between.
THEOREM SensorNeverChatters == HLightingSpec => NoChatter
<1> DEFINE Apart == \A level \in AmbientLevels :
             HSenseLight(level) /\ BeamChanges /\ switches = 2
               => \/ level >= switched_at + (AmbientLight - AmbientDark)
                  \/ switched_at >= level + (AmbientLight - AmbientDark)
<1>1. ChatterInv /\ [HLightingNext]_lightingHistory => [Apart]_lightingHistory
  <2> SUFFICES ASSUME ChatterInv, NEW level \in AmbientLevels, HSenseLight(level),
                      BeamChanges, switches = 2
               PROVE  \/ level >= switched_at + (AmbientLight - AmbientDark)
                      \/ switched_at >= level + (AmbientLight - AmbientDark)
    OBVIOUS
  <2>1. /\ lighting'.dark <=> ~lighting.dark
        /\ lighting'.dark => level + AmbientLight <= FullScale
        /\ ~lighting'.dark => level + AmbientDark >= FullScale
    BY SwitchingReading
  <2>2. /\ lighting.dark => switched_at + AmbientLight <= FullScale
        /\ ~lighting.dark => switched_at + AmbientDark >= FullScale
        /\ switched_at \in Nat
    BY DEF ChatterInv, Switched
  <2>3. /\ level \in Nat /\ FullScale \in Nat
        /\ AmbientDark \in Nat /\ AmbientLight \in Nat
    BY LightingConfig
  <2>4. CASE lighting.dark
    BY <2>1, <2>2, <2>3, <2>4
  <2>5. CASE ~lighting.dark
    BY <2>1, <2>2, <2>3, <2>5
  <2> QED
    BY <2>4, <2>5
<1> QED
  BY <1>1, ChatterInit, ChatterStep, PTL DEF HLightingSpec, NoChatter
=============================================================================
