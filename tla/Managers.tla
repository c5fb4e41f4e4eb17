------------------------------- MODULE Managers -----------------------------
(***************************************************************************)
(* The managers under every order of their calls. They do not know each    *)
(* other, so a behaviour follows one of them and leaves the others as they *)
(* were constructed: the run explores the sum of their state spaces and    *)
(* not the product. How the control cycle combines them is BcmCore's.      *)
(***************************************************************************)
EXTENDS DoorHorn, PowerHistory, LightingHistory

VARIABLE focus   \* the manager this behaviour is about

managerVars == <<focus, doorHorn, historyVars, lightingHistory>>

ManagersInit ==
  /\ focus \in {"door", "power", "lighting"}
  /\ DoorHornInit
  /\ HistoryInit
  /\ HLightingInit

OfDoor(call) ==
  focus = "door" /\ call /\ UNCHANGED <<focus, historyVars, lightingHistory>>

OfPower(call) ==
  focus = "power" /\ call /\ UNCHANGED <<focus, doorHorn, lightingHistory>>

OfLighting(call) ==
  focus = "lighting" /\ call /\ UNCHANGED <<focus, doorHorn, historyVars>>

ManagersNext ==
  \/ OfDoor(DoorHornNext)
  \/ OfPower(HistoryNext)
  \/ OfLighting(HLightingNext)
=============================================================================
