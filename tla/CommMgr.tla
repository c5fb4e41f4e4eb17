------------------------------- MODULE CommMgr ------------------------------
(***************************************************************************)
(* The device's end of the link at the level of frames: the link timer of  *)
(* services/comm_mgr.cpp and the dispatcher's verdict on a request         *)
(* (services/dispatcher.cpp, the codes of services/protocol.h). How frames *)
(* are found in bytes is FrameParser's subject.                            *)
(*                                                                         *)
(* A frame is a record with the command, whether kResponseFlag is set in   *)
(* it, and the length of its payload; what a payload says is added to the  *)
(* record by those who care.                                               *)
(***************************************************************************)
EXTENDS BcmTypes

CONSTANTS
  LinkTimeoutMs,   \* kDefaultTimeoutMs
  MaxPayload       \* kMaxPayload

ASSUME CommConfig == LinkTimeoutMs \in Nat \ {0} /\ MaxPayload \in Nat \ {0}

Cmd == { "Ping", "GetVersion", "GetStatus", "SetLamp", "GetLamp", "DoorLock",
         "DoorUnlock", "GetBattery", "GetDtc", "ClearDtc", "Reset",
         "Heartbeat", "LogEvent" }

Status == { "Ok", "UnknownCmd", "BadLength", "BadParameter", "Busy",
            "NotPermitted" }

\* min_payload of the rows of the command table. LogEvent has no row.
MinPayload ==
  [cmd \in Cmd \ {"LogEvent"} |->
     CASE cmd = "SetLamp" -> 2
       [] cmd = "GetLamp" -> 1
       [] OTHER           -> 0]

\* dispatch(): "Silent" to a response, an error status to what no handler is
\* to see, and "Ok" where the handler decides.
Verdict(frame) ==
  CASE frame.response -> "Silent"
    [] ~frame.response /\ frame.cmd \notin DOMAIN MinPayload -> "UnknownCmd"
    [] ~frame.response /\ frame.cmd \in DOMAIN MinPayload
         /\ frame.len < MinPayload[frame.cmd] -> "BadLength"
    [] OTHER -> "Ok"

\* CommMgr::CommMgr
FreshLink == [timer |-> LinkTimeoutMs, lost |-> FALSE]

\* Fault: the one-shot is started anew by every poll, frame or not.
PolledRearmed(link, heard, dt) ==
  LET lost == ~heard /\ link.lost
  IN  [timer |-> LinkTimeoutMs, lost |-> lost \/ Expires(LinkTimeoutMs, dt)]

\* What a poll() does to the link: a valid frame restarts the timer, and the
\* time since the last poll is charged afterwards, unless the loss is latched.
Polled(link, heard, dt) ==
  LET timer == IF heard THEN LinkTimeoutMs ELSE link.timer
      lost  == ~heard /\ link.lost
  IN  IF lost THEN [timer |-> timer, lost |-> TRUE]
      ELSE [timer |-> Elapse(timer, dt), lost |-> Expires(timer, dt)]
=============================================================================
