------------------------------- MODULE MCParts ------------------------------
(* The parts that know nothing of each other, each under every order of its *)
(* calls: the managers and the frame parser. A behaviour is about one of    *)
(* them, the others stay as they were constructed.                          *)
EXTENDS Managers, MCFrameParser

partsVars == <<managerVars, vars>>

ParserAtRest ==
  /\ parser = Hunting
  /\ result = "NeedMore"
  /\ traffic = {} /\ line = << >> /\ faulty = 0
  /\ heard = << >> /\ clean = FALSE

PartsInit ==
  \/ ManagersInit /\ ParserAtRest
  \/ /\ focus = "parser" /\ Init
     /\ DoorHornInit /\ HistoryInit /\ HLightingInit

OfParser(step) == focus = "parser" /\ step /\ UNCHANGED managerVars

PartsNext ==
  \/ ManagersNext /\ UNCHANGED vars
  \/ OfParser(Next)

\* The fairness of FairDoorHornSpec, FairHistorySpec and the parser's FairSpec.
PartsSpec ==
  /\ PartsInit
  /\ [][PartsNext]_partsVars
  /\ WF_partsVars(OfDoor(Tick) /\ UNCHANGED vars)
  /\ WF_partsVars(OfDoor(SoundLock) /\ UNCHANGED vars)
  /\ WF_partsVars(OfDoor(SoundUnlock) /\ UNCHANGED vars)
  /\ WF_partsVars(OfPower(\E dt \in Dt : HWait(dt)) /\ UNCHANGED vars)
  /\ WF_partsVars(OfParser(Send))
  /\ WF_partsVars(OfParser(Deliver))
=============================================================================
