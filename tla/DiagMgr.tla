------------------------------- MODULE DiagMgr ------------------------------
(***************************************************************************)
(* The verdicts of the power-on self test and the running health of the    *)
(* subsystems (services/diag_mgr.cpp). A record holds the object's         *)
(* members: the tested and passed flags are sets, health is a function.    *)
(***************************************************************************)
EXTENDS Naturals

Subsystem == {"Clock", "Gpio", "Adc", "Uart", "Config"}

Health == {"Unknown", "Ok", "Degraded", "Failed"}

FreshDiag ==
  [ health |-> [sys \in Subsystem |-> "Unknown"],
    tested |-> {}, passed |-> {}, done |-> FALSE ]

\* post_result() of every subsystem, those in failing failing, and
\* post_complete().
Posted(failing) ==
  [ health |-> [sys \in Subsystem |-> IF sys \in failing THEN "Failed" ELSE "Ok"],
    tested |-> Subsystem, passed |-> Subsystem \ failing, done |-> TRUE ]

\* A subsystem nobody tested has failed.
PostFailures(diag) == Subsystem \ (diag.tested \cap diag.passed)

PostPassed(diag) == diag.done /\ PostFailures(diag) = {}

SetHealth(diag, health) ==
  [diag EXCEPT !.health =
     [sys \in Subsystem |-> IF sys \in DOMAIN health THEN health[sys] ELSE @[sys]]]

Reported(diag, health) == \E sys \in Subsystem : diag.health[sys] = health

Overall(diag) ==
  CASE Reported(diag, "Failed") -> "Failed"
    [] ~Reported(diag, "Failed") /\ Reported(diag, "Degraded") -> "Degraded"
    [] ~Reported(diag, "Failed") /\ ~Reported(diag, "Degraded")
         /\ Reported(diag, "Unknown") -> "Unknown"
    [] OTHER -> "Ok"

\* Fault: whatever is less than perfect counts as a failure.
HealthyOnlyIfOk(diag) == Overall(diag) = "Ok"

\* What the supervisor gates on.
Healthy(diag) == Overall(diag) # "Failed"
=============================================================================
