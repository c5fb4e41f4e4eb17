------------------------------- MODULE DoorHorn -----------------------------
(***************************************************************************)
(* The door manager and the horn manager together: BcmCore::step() reads a *)
(* pending lock or unlock chirp of the one and hands it to the other, and  *)
(* charges both the same time. Here those calls may come in any order, and *)
(* the horn input, which no board wires yet, may be held.                  *)
(***************************************************************************)
EXTENDS DoorMgr, HornMgr

doorHorn == <<door, horn>>

DoorHornInit == DoorInit /\ HornInit

SoundLock   == door.chirp_lock /\ ReadLockChirp /\ ChirpLock
SoundUnlock == door.chirp_unlock /\ ReadUnlockChirp /\ ChirpUnlock

Tick == \E dt \in Dt : PassTime(dt) /\ PassHorn(dt)

DriverCall ==
  /\ \/ MoveDoor
     \/ AskLock
     \/ AskUnlock
     \/ ReadRefusal
  /\ UNCHANGED horn

HornInput == HoldHorn /\ UNCHANGED door

ResetBoth == ResetDoor /\ ResetHorn

DoorHornNext ==
  \/ SoundLock
  \/ SoundUnlock
  \/ Tick
  \/ DriverCall
  \/ HornInput
  \/ ResetBoth

DoorHornSpec == DoorHornInit /\ [][DoorHornNext]_doorHorn

\* The control task updates both managers on every cycle, whatever else
\* happens, and reads the flags on every cycle.
FairDoorHornSpec ==
  /\ DoorHornSpec
  /\ WF_doorHorn(Tick)
  /\ WF_doorHorn(SoundLock)
  /\ WF_doorHorn(SoundUnlock)

-----------------------------------------------------------------------------
(* Properties *)

\* No change of the lock is waiting to be announced.
NothingOwed == ~door.chirp_lock /\ ~door.chirp_unlock

\* Once no lock operation raises a chirp any more, the sequence that sounds
\* comes to its end.
ChirpsEnd == <>[]NothingOwed => <>[](horn.chirps_left = 0)

=============================================================================
