----------------------------- MODULE VehicleLock ----------------------------
(***************************************************************************)
(* What the door manager promises, without machine states or timers: a     *)
(* vehicle lock that closes only on closed doors, opens whenever asked,    *)
(* and owes the driver one announcement for each change.                   *)
(***************************************************************************)
VARIABLES
  secured,   \* the car is locked
  ajar,      \* some door is open
  owed       \* the kinds of change not announced yet

vars == <<secured, ajar, owed>>

Kind == {"lock", "unlock"}

Init == secured = TRUE /\ ajar = FALSE /\ owed = {}

\* SRS-DOOR-002: never with a door open.
Lock ==
  /\ ~secured
  /\ ~ajar
  /\ secured' = TRUE
  /\ owed' = owed \cup {"lock"}
  /\ UNCHANGED ajar

\* No guard on the doors: unlocking is never refused.
Unlock ==
  /\ secured
  /\ secured' = FALSE
  /\ owed' = owed \cup {"unlock"}
  /\ UNCHANGED ajar

MoveDoor == ajar' \in BOOLEAN /\ UNCHANGED <<secured, owed>>

Announce(kind) ==
  /\ kind \in owed
  /\ owed' = owed \ {kind}
  /\ UNCHANGED <<secured, ajar>>

Restart == secured' = TRUE /\ ajar' = FALSE /\ owed' = {}

Next ==
  \/ Lock
  \/ Unlock
  \/ MoveDoor
  \/ \E kind \in Kind : Announce(kind)
  \/ Restart

Spec == Init /\ [][Next]_vars

EventuallySecured == []<>(ajar \/ secured)
=============================================================================
