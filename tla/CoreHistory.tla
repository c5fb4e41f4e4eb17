----------------------------- MODULE CoreHistory ----------------------------
(***************************************************************************)
(* The control cycle with history variables, for properties about what a   *)
(* user who watches it has seen: what the event records said so far, what  *)
(* the present ignition press has done so far, and whether the last        *)
(* operation was a cycle.                                                  *)
(***************************************************************************)
EXTENDS BcmCore, FiniteSets

VARIABLES
  told,      \* shed, comms and door state according to the events so far
  effects,   \* how often the present, or the last, ignition press took effect
  stepped    \* the last operation was a cycle

history == <<vars, told, effects, stepped>>

Logged(event) == \E i \in DOMAIN logged' : logged'[i] = event

\* What someone who believed was makes of the events just logged.
Told(was, yes, no) ==
  CASE Logged(yes) -> TRUE
    [] Logged(no) -> FALSE
    [] ~Logged(yes) /\ ~Logged(no) -> was

IsEffect(event) == event \in {"LightMode", "IgnitionOn", "IgnitionOff"}

\* Where a log tells of something that the button did.
Effects(log) == {i \in DOMAIN log : IsEffect(log[i])}

\* A press begins when the level rises, or when the first cycle finds it high.
PressBegins == inputs'.ignition /\ (first_cycle \/ ~inputs.ignition)

Untold == [shed |-> FALSE, comms |-> FALSE, locked |-> TRUE]

CoreInit == Init /\ told = Untold /\ effects = 1 /\ stepped = FALSE

SeeCycle ==
  /\ told' = [ shed   |-> Told(told.shed, "BatteryLow", "BatteryOk"),
               comms  |-> Told(told.comms, "CommsLost", "CommsRestored"),
               locked |-> Told(told.locked, "DoorLocked", "DoorUnlocked") ]
  /\ effects' = (IF PressBegins THEN 0 ELSE effects)
                  + Cardinality(Effects(logged'))
  /\ stepped' = TRUE

SeeOther == stepped' = FALSE /\ UNCHANGED <<told, effects>>

\* A restart begins the event stream anew.
SeeRestart == told' = Untold /\ effects' = 1 /\ stepped' = FALSE

WatchCycle == Cycle /\ SeeCycle
WatchRequest(request) == request /\ SeeOther
WatchReset == Reset /\ SeeRestart

CoreNext ==
  \/ WatchCycle
  \/ WatchRequest(SetHostRequest)
  \/ WatchRequest(RequestDoorLock)
  \/ WatchRequest(RequestDoorUnlock)
  \/ WatchRequest(RequestLightMode)
  \/ WatchRequest(ReportFault)
  \/ WatchRequest(ClearDtc)
  \/ WatchReset

CoreSpec == CoreInit /\ [][CoreNext]_history

-----------------------------------------------------------------------------
(* Properties *)

\* The ignition button is two controls in one. A press takes effect exactly
\* once: it steps the light switch while it lasts or toggles the power when
\* it ends, never both, never twice, however long it lasts (the counter of
\* its length wraps) and whatever state it began in.
OnePressOneEffect ==
  /\ ~inputs.ignition => effects = 1
  /\ inputs.ignition  => effects <= 1

\* The event records tell the truth: whoever follows only the records knows
\* after every cycle whether load is shed, the link is lost and the car is
\* locked, although several lock operations may share one cycle.
EventsTellTheState ==
  told = [ shed   |-> power.load_shed,
           comms  |-> comms_lost,
           locked |-> door.state = "Locked" ]

\* GET_DTC after a cycle answers with the conditions of that cycle, also when
\* the store was wiped, or filled by other faults, while they persisted.
CodesMirrorConditions ==
  stepped =>
    /\ IsActive(faults, "BatteryLow") <=> power.load_shed
    /\ IsActive(faults, "CommsLost") <=> comms_lost

=============================================================================
