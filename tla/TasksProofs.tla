----------------------------- MODULE TasksProofs ----------------------------
(***************************************************************************)
(* The watchdog, for every period, every time limit and every size of the  *)
(* log and the queue: a task that hangs is vouched for at most once more,  *)
(* and a board whose tasks run is refreshed in every round. And the way of *)
(* an event, slot by slot through the log and the queue: unless log() is   *)
(* caught half way, none is told twice, late or lost without being counted.*)
(***************************************************************************)
EXTENDS Tasks, Integers, TLAPS

Watch == [bits : SUBSET Task, waiting : BOOLEAN,
          since : 0 .. WatchdogTicks - 1, iwdg : Nat, fed : Nat]

Diag == [health : [Subsystem -> Health], tested : SUBSET Subsystem,
         passed : SUBSET Subsystem, done : BOOLEAN]

Drivers == {"Clock", "Adc", "Uart"}

TasksTyped ==
  /\ failing \subseteq Drivers
  /\ diag \in Diag
  /\ hang \in {NoHang} \cup [task : Task, kind : {"Blocks", "Spins", "Halts"}]
  /\ due \subseteq Task
  /\ watch \in Watch

\* What nobody surveys has passed the self test.
Untouched == diag.health["Gpio"] = "Ok" /\ diag.health["Config"] = "Ok"

\* Once the watchdog has been fed behind a hang, the bit of the task that
\* hangs is gone, and nobody sets it again.
BitGone ==
  hang # NoHang => watch.fed = 0 \/ (watch.fed = 1 /\ hang.task \notin watch.bits)

\* A round that waits began in this tick, and lacks only tasks that are due.
RoundEnds ==
  hang = NoHang /\ ~Broken =>
    /\ "Monitor" \notin due => Healthy(diag)
    /\ watch.iwdg <= watch.since + IF watch.waiting THEN WatchdogTicks ELSE 0
    /\ watch.waiting => /\ watch.since = 0
                        /\ Task \ due \subseteq watch.bits
                        /\ watch.bits # Task

TasksInv == TasksTyped /\ Untouched /\ BitGone /\ RoundEnds

-----------------------------------------------------------------------------
(* The records *)

LEMMA Periods == WatchdogTicks \in Nat \ {0}
BY TasksConfig

LEMMA ExaminedIs ==
  ASSUME NEW w \in Watch, NEW ok \in BOOLEAN
  PROVE  /\ Examined(w, ok) \in Watch
         /\ Examined(w, ok).since = w.since
         /\ w.waiting /\ w.bits = Task =>
              /\ Examined(w, ok).bits = {} /\ ~Examined(w, ok).waiting
              /\ Examined(w, ok).fed \in {w.fed, w.fed + 1}
              /\ ok => Examined(w, ok).iwdg = 0
         /\ ~(w.waiting /\ w.bits = Task) => Examined(w, ok) = w
<1>1. CASE w.waiting /\ w.bits = Task
  <2> DEFINE iwdg == IF ok THEN 0 ELSE w.iwdg
             fed  == IF ok /\ w.fed < 2 THEN w.fed + 1 ELSE w.fed
  <2>1. Examined(w, ok) = [w EXCEPT !.bits = {}, !.waiting = FALSE,
                                    !.iwdg = iwdg, !.fed = fed]
    BY <1>1 DEF Examined, Watch
  <2>2. iwdg \in Nat /\ fed \in Nat /\ fed \in {w.fed, w.fed + 1}
        /\ (ok => iwdg = 0)
    BY DEF Watch
  <2> HIDE DEF iwdg, fed
  <2> QED
    BY <1>1, <2>1, <2>2 DEF Watch
<1>2. CASE ~(w.waiting /\ w.bits = Task)
  BY <1>2 DEF Examined
<1> QED
  BY <1>1, <1>2

\* A check-in: the task's bit, and then the watchdog task's verdict.
LEMMA CheckedInIs ==
  ASSUME NEW w \in Watch, NEW task \in Task, NEW ok \in BOOLEAN
  PROVE  /\ CheckedIn(w, task, ok) \in Watch
         /\ CheckedIn(w, task, ok).since = w.since
         /\ w.waiting /\ w.bits \cup {task} = Task =>
              /\ CheckedIn(w, task, ok).bits = {} /\ ~CheckedIn(w, task, ok).waiting
              /\ CheckedIn(w, task, ok).fed \in {w.fed, w.fed + 1}
              /\ ok => CheckedIn(w, task, ok).iwdg = 0
         /\ ~(w.waiting /\ w.bits \cup {task} = Task) =>
              /\ CheckedIn(w, task, ok).bits = w.bits \cup {task}
              /\ CheckedIn(w, task, ok).waiting = w.waiting
              /\ CheckedIn(w, task, ok).iwdg = w.iwdg
              /\ CheckedIn(w, task, ok).fed = w.fed
<1> DEFINE v == [w EXCEPT !.bits = w.bits \cup {task}]
<1>1. /\ v \in Watch /\ v.bits = w.bits \cup {task} /\ v.waiting = w.waiting
      /\ v.since = w.since /\ v.iwdg = w.iwdg /\ v.fed = w.fed
  BY DEF Watch
<1>2. CheckedIn(w, task, ok) = Examined(v, ok)
  BY DEF CheckedIn, Watch
<1> HIDE DEF v
<1>3. /\ Examined(v, ok) \in Watch /\ Examined(v, ok).since = v.since
      /\ v.waiting /\ v.bits = Task =>
           /\ Examined(v, ok).bits = {} /\ ~Examined(v, ok).waiting
           /\ Examined(v, ok).fed \in {v.fed, v.fed + 1}
           /\ ok => Examined(v, ok).iwdg = 0
      /\ ~(v.waiting /\ v.bits = Task) => Examined(v, ok) = v
  BY <1>1, ExaminedIs
<1>4. CASE v.waiting /\ v.bits = Task
  BY <1>1, <1>2, <1>3, <1>4
<1>5. CASE ~(v.waiting /\ v.bits = Task)
  BY <1>1, <1>2, <1>3, <1>5
<1> QED
  BY <1>4, <1>5

LEMMA LaterIs ==
  ASSUME NEW w \in Watch
  PROVE  /\ Later(w) \in Watch
         /\ Later(w).bits = w.bits /\ Later(w).fed = w.fed
         /\ Later(w).iwdg = w.iwdg + 1
         /\ (Later(w).waiting <=> w.waiting \/ w.since + 1 = WatchdogTicks)
         /\ Later(w).since = IF w.since + 1 = WatchdogTicks THEN 0 ELSE w.since + 1
<1> DEFINE since == (w.since + 1) % WatchdogTicks
           waiting == w.waiting \/ w.since + 1 = WatchdogTicks
<1>1. w.since \in Nat /\ w.since < WatchdogTicks /\ w.iwdg + 1 \in Nat
  BY Periods DEF Watch
<1>2. since = IF w.since + 1 = WatchdogTicks THEN 0 ELSE w.since + 1
  BY <1>1, Periods
<1>3. since \in 0 .. WatchdogTicks - 1 /\ waiting \in BOOLEAN
  BY <1>1, <1>2, Periods
<1>4. Later(w) = [w EXCEPT !.iwdg = w.iwdg + 1, !.since = since, !.waiting = waiting]
  BY DEF Later, Watch
<1> HIDE DEF since, waiting
<1>5. /\ Later(w) \in Watch /\ Later(w).bits = w.bits /\ Later(w).fed = w.fed
      /\ Later(w).iwdg = w.iwdg + 1 /\ Later(w).waiting = waiting
      /\ Later(w).since = since
  BY <1>1, <1>3, <1>4 DEF Watch
<1> QED
  BY <1>2, <1>5 DEF waiting

\* A fresh board.
LEMMA StartedIs ==
  ASSUME NEW bad \in SUBSET Drivers
  PROVE  /\ Started(bad).hang = NoHang /\ Started(bad).due = Task
         /\ Started(bad).diag \in Diag
         /\ Started(bad).diag.health["Gpio"] = "Ok"
         /\ Started(bad).diag.health["Config"] = "Ok"
         /\ Started(bad).watch \in Watch
         /\ Started(bad).watch.bits = {} /\ Started(bad).watch.iwdg = 0
         /\ Started(bad).watch.since = 0
<1>1. /\ Started(bad).hang = NoHang /\ Started(bad).due = Task
      /\ Started(bad).diag = Posted(bad)
      /\ Started(bad).watch = [bits |-> {}, waiting |-> TRUE, since |-> 0,
                               iwdg |-> 0, fed |-> 0]
  BY DEF Started
<1>2. Posted(bad) \in Diag /\ Posted(bad).health["Gpio"] = "Ok"
      /\ Posted(bad).health["Config"] = "Ok"
  BY DEF Posted, Diag, Drivers, Subsystem, Health
<1> QED
  BY <1>1, <1>2, Periods DEF Watch

\* What the monitor makes of the health picture.
LEMMA SurveyedIs ==
  ASSUME NEW d \in Diag, NEW bad \in SUBSET Drivers,
         d.health["Gpio"] = "Ok", d.health["Config"] = "Ok"
  PROVE  LET new == SetHealth(d, Surveyed(bad))
         IN  /\ new \in Diag
             /\ new.health["Gpio"] = "Ok" /\ new.health["Config"] = "Ok"
             /\ bad \cap {"Adc", "Uart"} = {} => Healthy(new)
<1> DEFINE health == [sys \in Subsystem |->
                        IF sys \in DOMAIN Surveyed(bad) THEN Surveyed(bad)[sys]
                        ELSE d.health[sys]]
           new == SetHealth(d, Surveyed(bad))
<1>1. /\ DOMAIN Surveyed(bad) = {"Uart", "Adc", "Clock"}
      /\ \A sys \in {"Uart", "Adc", "Clock"} :
           /\ Surveyed(bad)[sys] \in {"Ok", "Degraded", "Failed"}
           /\ Surveyed(bad)[sys] = "Failed" => sys \in bad \cap {"Adc", "Uart"}
  BY DEF Surveyed
<1>2. /\ health \in [Subsystem -> Health]
      /\ health["Gpio"] = "Ok" /\ health["Config"] = "Ok"
  BY <1>1 DEF Diag, Subsystem, Health
<1>3. ASSUME bad \cap {"Adc", "Uart"} = {}
      PROVE  \A sys \in Subsystem : health[sys] # "Failed"
  BY <1>1, <1>3 DEF Subsystem
<1>4. new = [d EXCEPT !.health = health]
  BY DEF SetHealth, Diag
<1> HIDE DEF health
<1>5. new \in Diag /\ new.health = health
  BY <1>2, <1>4 DEF Diag
<1> HIDE DEF new
<1>6. ASSUME bad \cap {"Adc", "Uart"} = {} PROVE Healthy(new)
  <2>1. ~Reported(new, "Failed")
    BY <1>3, <1>5, <1>6 DEF Reported
  <2>2. Overall(new) \in {"Degraded", "Unknown", "Ok"}
    BY <2>1 DEF Overall
  <2> QED
    BY <2>2 DEF Healthy
<1> QED
  BY <1>2, <1>5, <1>6 DEF new

LEMMA HealthyBoolean == \A d : Healthy(d) \in BOOLEAN
BY DEF Healthy

-----------------------------------------------------------------------------

LEMMA TasksInvInit == TasksInit => TasksInv
<1> SUFFICES ASSUME TasksInit PROVE TasksInv
  OBVIOUS
<1>1. PICK bad \in SUBSET Drivers :
        /\ failing = bad /\ hang = NoHang /\ due = Task
        /\ diag = Started(bad).diag /\ watch = Started(bad).watch
  BY DEF TasksInit, Drivers
<1> QED
  BY <1>1, StartedIs, Periods
  DEF TasksInv, TasksTyped, Untouched, BitGone, RoundEnds, Task, Watch

\* The end of a turn keeps both arguments, if the health picture allows it.
LEMMA TurnKeeps ==
  ASSUME TasksInv, NEW task \in Task, MayRun(task), Turn(task),
         diag' \in Diag, Untouched',
         hang = NoHang /\ ~Broken /\ "Monitor" \notin due' => Healthy(diag')
  PROVE  TasksInv'
<1> DEFINE ok == Healthy(diag')
<1>1. /\ watch' = CheckedIn(watch, task, ok) /\ due' = due \ {task}
      /\ UNCHANGED << failing, hang >>
  BY DEF Turn
<1>2. ok \in BOOLEAN /\ watch \in Watch
  BY HealthyBoolean DEF TasksInv, TasksTyped
<1> HIDE DEF ok
<1>3. /\ watch' \in Watch /\ watch'.since = watch.since
      /\ watch.waiting /\ watch.bits \cup {task} = Task =>
           /\ watch'.bits = {} /\ ~watch'.waiting
           /\ watch'.fed \in {watch.fed, watch.fed + 1}
           /\ ok => watch'.iwdg = 0
      /\ ~(watch.waiting /\ watch.bits \cup {task} = Task) =>
           /\ watch'.bits = watch.bits \cup {task}
           /\ watch'.waiting = watch.waiting
           /\ watch'.iwdg = watch.iwdg /\ watch'.fed = watch.fed
  BY <1>1, <1>2, CheckedInIs
<1>4. task # hang.task
  BY DEF MayRun, Alive
<1>5. TasksTyped'
  BY <1>1, <1>3 DEF TasksInv, TasksTyped
<1>6. BitGone'
  <2> SUFFICES ASSUME hang # NoHang
               PROVE  watch'.fed = 0 \/ (watch'.fed = 1 /\ hang.task \notin watch'.bits)
    BY <1>1 DEF BitGone
  <2>1. hang.task \in Task
    BY DEF TasksInv, TasksTyped
  <2>2. watch.fed = 0 \/ (watch.fed = 1 /\ hang.task \notin watch.bits)
    BY DEF TasksInv, BitGone
  <2>3. CASE watch.waiting /\ watch.bits \cup {task} = Task
    <3>1. hang.task \in watch.bits
      BY <1>4, <2>1, <2>3
    <3> QED
      BY <1>3, <2>2, <2>3, <3>1
  <2>4. CASE ~(watch.waiting /\ watch.bits \cup {task} = Task)
    BY <1>3, <1>4, <2>2, <2>4
  <2> QED
    BY <2>3, <2>4
<1>7. RoundEnds'
  <2> SUFFICES ASSUME hang = NoHang, ~Broken
               PROVE  /\ "Monitor" \notin due' => ok
                      /\ watch'.iwdg <= watch'.since
                           + IF watch'.waiting THEN WatchdogTicks ELSE 0
                      /\ watch'.waiting => /\ watch'.since = 0
                                           /\ Task \ due' \subseteq watch'.bits
                                           /\ watch'.bits # Task
    BY <1>1 DEF RoundEnds, Broken, ok
  <2>1. /\ "Monitor" \notin due => Healthy(diag)
        /\ watch.iwdg <= watch.since + IF watch.waiting THEN WatchdogTicks ELSE 0
        /\ watch.waiting => /\ watch.since = 0
                            /\ Task \ due \subseteq watch.bits
                            /\ watch.bits # Task
    BY DEF TasksInv, RoundEnds
  <2>2. "Monitor" \notin due'
    <3>1. CASE task = "Monitor"
      BY <1>1, <3>1
    <3>2. CASE task # "Monitor"
      <4>1. Alive("Monitor")
        BY DEF Alive, NoHang
      <4>2. Priority["Monitor"] > Priority[task]
        BY <3>2 DEF Priority, Task
      <4>3. ~Ready("Monitor")
        BY <4>1, <4>2 DEF MayRun, Task
      <4> QED
        BY <1>1, <4>3 DEF Ready
    <3> QED
      BY <3>1, <3>2
  <2>3. ok
    BY <2>2 DEF ok
  <2>4. /\ watch.since \in Nat /\ watch.iwdg \in Nat
        /\ watch'.since \in Nat /\ watch'.iwdg \in Nat
    BY <1>2, <1>3, Periods DEF Watch
  <2>5. CASE watch.waiting /\ watch.bits \cup {task} = Task
    BY <1>3, <2>2, <2>3, <2>4, <2>5
  <2>6. CASE ~(watch.waiting /\ watch.bits \cup {task} = Task)
    BY <1>1, <1>3, <2>1, <2>2, <2>3, <2>4, <2>6
  <2> QED
    BY <2>5, <2>6
<1> QED
  BY <1>5, <1>6, <1>7 DEF TasksInv

LEMMA TickKeeps ==
  ASSUME TasksInv, Tick PROVE TasksInv'
<1>1. /\ due' = Task /\ UNCHANGED << failing, diag, hang >>
      /\ watch' = IF hang.kind = "Halts" THEN [watch EXCEPT !.iwdg = @ + 1]
                  ELSE Examined(Later(watch), Healthy(diag))
  BY DEF Tick
<1>2. watch \in Watch /\ Healthy(diag) \in BOOLEAN
  BY HealthyBoolean DEF TasksInv, TasksTyped
<1>3. CASE hang.kind = "Halts"
  <2>1. watch' \in Watch /\ watch'.fed = watch.fed /\ watch'.bits = watch.bits
    BY <1>1, <1>2, <1>3 DEF Watch
  <2>2. hang # NoHang
    BY <1>3 DEF NoHang
  <2> QED
    BY <1>1, <2>1, <2>2 DEF TasksInv, TasksTyped, Untouched, BitGone, RoundEnds
<1>4. CASE hang.kind # "Halts"
  <2> DEFINE v == Later(watch)
  <2>1. /\ v \in Watch /\ v.bits = watch.bits /\ v.fed = watch.fed
        /\ v.iwdg = watch.iwdg + 1
        /\ (v.waiting <=> watch.waiting \/ watch.since + 1 = WatchdogTicks)
        /\ v.since = IF watch.since + 1 = WatchdogTicks THEN 0 ELSE watch.since + 1
    BY <1>2, LaterIs
  <2>2. watch' = Examined(v, Healthy(diag))
    BY <1>1, <1>4
  <2> HIDE DEF v
  <2>3. /\ watch' \in Watch /\ watch'.since = v.since
        /\ v.waiting /\ v.bits = Task =>
             /\ watch'.bits = {} /\ ~watch'.waiting
             /\ watch'.fed \in {v.fed, v.fed + 1}
             /\ Healthy(diag) => watch'.iwdg = 0
        /\ ~(v.waiting /\ v.bits = Task) => watch' = v
    BY <1>2, <2>1, <2>2, ExaminedIs
  <2>4. TasksTyped' /\ Untouched'
    BY <1>1, <2>3 DEF TasksInv, TasksTyped, Untouched
  <2>5. BitGone'
    <3> SUFFICES ASSUME hang # NoHang
                 PROVE  watch'.fed = 0 \/ (watch'.fed = 1 /\ hang.task \notin watch'.bits)
      BY <1>1 DEF BitGone
    <3>1. hang.task \in Task
      BY DEF TasksInv, TasksTyped
    <3>2. watch.fed = 0 \/ (watch.fed = 1 /\ hang.task \notin watch.bits)
      BY DEF TasksInv, BitGone
    <3>3. CASE v.waiting /\ v.bits = Task
      BY <2>1, <2>3, <3>1, <3>2, <3>3
    <3>4. CASE ~(v.waiting /\ v.bits = Task)
      BY <2>1, <2>3, <3>2, <3>4
    <3> QED
      BY <3>3, <3>4
  <2>6. RoundEnds'
    <3> SUFFICES ASSUME hang = NoHang, ~Broken
                 PROVE  /\ watch'.iwdg <= watch'.since
                             + IF watch'.waiting THEN WatchdogTicks ELSE 0
                        /\ watch'.waiting => watch'.since = 0 /\ watch'.bits # Task
      BY <1>1 DEF RoundEnds, Broken, Task
    <3>1. due = {}
      <4>1. \A task \in Task : Alive(task)
        BY DEF Alive, NoHang, Task
      <4> QED
        BY <4>1 DEF Tick, TickOver, TasksInv, TasksTyped
    <3>2. Healthy(diag) /\ ~watch.waiting /\ watch.iwdg <= watch.since
      <4>1. Healthy(diag) /\ ~watch.waiting
        BY <1>2, <3>1 DEF TasksInv, RoundEnds, Watch
      <4>2. watch.iwdg <= watch.since + 0
        BY <4>1 DEF TasksInv, RoundEnds
      <4>3. watch.since \in Nat
        BY <1>2, Periods DEF Watch
      <4> QED
        BY <4>1, <4>2, <4>3
    <3>3. watch.since \in Nat /\ watch.since < WatchdogTicks /\ watch.iwdg \in Nat
      BY <1>2, Periods DEF Watch
    <3>4. CASE v.waiting /\ v.bits = Task
      BY <2>1, <2>3, <3>2, <3>3, <3>4
    <3>5. CASE ~(v.waiting /\ v.bits = Task)
      <4>1. watch' = v
        BY <2>3, <3>5
      <4>2. CASE watch.since + 1 = WatchdogTicks
        <5>1. v.waiting /\ v.since = 0 /\ v.iwdg <= 0 + WatchdogTicks
          BY <2>1, <3>2, <3>3, <4>2
        <5> QED
          BY <3>5, <4>1, <5>1
      <4>3. CASE watch.since + 1 # WatchdogTicks
        <5>1. ~v.waiting /\ v.iwdg <= v.since + 0
          BY <2>1, <3>2, <3>3, <4>3
        <5> QED
          BY <4>1, <5>1
      <4> QED
        BY <4>2, <4>3
    <3> QED
      BY <3>4, <3>5
  <2> QED
    BY <2>4, <2>5, <2>6 DEF TasksInv
<1> QED
  BY <1>3, <1>4

LEMMA HangKeeps ==
  ASSUME TasksInv, Hang PROVE TasksInv'
<1>1. PICK task \in Task, kind \in {"Blocks", "Spins", "Halts"} :
        hang' = [task |-> task, kind |-> kind]
  BY DEF Hang
<1>2. watch' = [watch EXCEPT !.fed = 0] /\ UNCHANGED << failing, diag, due >>
  BY DEF Hang
<1>3. watch' \in Watch /\ watch'.fed = 0
  BY <1>2 DEF TasksInv, TasksTyped, Watch
<1>4. hang' # NoHang
  BY <1>1 DEF NoHang
<1>5. hang' \in [task : Task, kind : {"Blocks", "Spins", "Halts"}]
  BY <1>1
<1> QED
  BY <1>2, <1>3, <1>4, <1>5
  DEF TasksInv, TasksTyped, Untouched, BitGone, RoundEnds

LEMMA ResetKeeps ==
  ASSUME TasksInv, Reset PROVE TasksInv'
<1>1. failing \in SUBSET Drivers
  BY DEF TasksInv, TasksTyped
<1>2. /\ failing' = failing
      /\ diag' = Started(failing).diag /\ hang' = Started(failing).hang
      /\ due' = Started(failing).due /\ watch' = Started(failing).watch
  BY DEF Reset
<1> QED
  BY <1>1, <1>2, StartedIs, Periods
  DEF TasksInv, TasksTyped, Untouched, BitGone, RoundEnds, Task, Watch

LEMMA TasksStep == TasksInv /\ [TasksNext]_vars => TasksInv'
<1> SUFFICES ASSUME TasksInv, [TasksNext]_vars PROVE TasksInv'
  OBVIOUS
<1>1. diag \in Diag /\ Untouched /\ failing \in SUBSET Drivers
  BY DEF TasksInv, TasksTyped
<1>2. ASSUME NEW task \in Task, task # "Monitor", MayRun(task), Turn(task),
             diag' = diag
      PROVE  TasksInv'
  <2>1. hang = NoHang /\ ~Broken /\ "Monitor" \notin due' => Healthy(diag)
    BY <1>2 DEF Turn, TasksInv, RoundEnds
  <2> QED
    BY <1>1, <1>2, <2>1, TurnKeeps DEF Untouched
<1>3. CASE ControlChecksIn
  BY <1>2, <1>3 DEF ControlChecksIn, Task
<1>4. CASE Sensor
  BY <1>2, <1>4 DEF Sensor, Task
<1>5. CASE Logger
  BY <1>2, <1>5 DEF Logger, Task
<1>6. CASE Monitor
  <2>1. diag' = SetHealth(diag, Surveyed(failing)) /\ MayRun("Monitor")
        /\ Turn("Monitor")
    BY <1>6 DEF Monitor
  <2>2. diag' \in Diag /\ Untouched' /\ (~Broken => Healthy(diag'))
    BY <1>1, <2>1, SurveyedIs DEF Untouched, Broken
  <2> QED
    BY <2>1, <2>2, TurnKeeps DEF Task
<1>7. CASE UNCHANGED << failing, diag, hang, due, watch >>
  BY <1>7 DEF TasksInv, TasksTyped, Untouched, BitGone, RoundEnds, Broken
<1>8. CASE ControlLogs \/ ControlGoesOn \/ UNCHANGED vars
  BY <1>7, <1>8 DEF ControlLogs, ControlGoesOn, vars
<1> QED
  BY <1>3, <1>4, <1>5, <1>6, <1>8, TickKeeps, HangKeeps, ResetKeeps DEF TasksNext

LEMMA TasksAlways == TasksSpec => []TasksInv
BY TasksInvInit, TasksStep, PTL DEF TasksSpec

-----------------------------------------------------------------------------

\* HangFedOnce of Tasks: check-in bits outlive a round, yet for all periods
\* they vouch for a task that hangs at most once.
THEOREM HangAlwaysFedOnce == TasksSpec => []HangFedOnce
<1>1. TasksInv => HangFedOnce
  BY DEF TasksInv, BitGone, HangFedOnce
<1> QED
  BY <1>1, TasksAlways, PTL

\* NoSpuriousReset of Tasks: with a watchdog of two periods or more, a board
\* whose tasks run and whose converter and UART came up is never reset.
THEOREM NeverResetWhileRunning == TasksSpec => []NoSpuriousReset
<1>1. TasksInv => NoSpuriousReset
  <2> SUFFICES ASSUME TasksInv, hang = NoHang, ~Broken
               PROVE  watch.iwdg < 2 * WatchdogTicks
    BY DEF NoSpuriousReset
  <2>1. watch.iwdg <= watch.since + IF watch.waiting THEN WatchdogTicks ELSE 0
    BY DEF TasksInv, RoundEnds
  <2>2. /\ watch.iwdg \in Nat /\ watch.since \in Nat
        /\ watch.since < WatchdogTicks
    BY Periods DEF TasksInv, TasksTyped, Watch
  <2> QED
    BY <2>1, <2>2, Periods
<1> QED
  BY <1>1, TasksAlways, PTL

-----------------------------------------------------------------------------
(* The log *)

Slot == 0 .. LogCapacity - 1

Log == [slots : [Slot -> Nat], head : Slot, count : 0 .. LogCapacity, dropped : Nat,
        pc : {"Idle", "Written", "Advanced", "Counting"}, loaded : Nat]

\* The slot k records before the newest.
Behind(head, k) == (head + LogCapacity - 1 - k) % LogCapacity

\* The n slots before head hold the last n numbers up to last.
Newest(l, n, last) ==
  \A k \in 0 .. LogCapacity - 1 : k < n => l.slots[Behind(l.head, k)] = last - k

\* What is in the slots at each step of log(): the slot that is written is
\* the oldest record's if the log is full, and count tells of it last.
LogHolds(l, last) ==
  /\ l \in Log
  /\ last \in Nat
  /\ l.pc = "Idle" => Newest(l, l.count, last)
  /\ l.pc = "Written" => /\ l.slots[l.head] = last
                         /\ \A k \in 0 .. LogCapacity - 2 :
                              k < l.count => l.slots[Behind(l.head, k)] = last - 1 - k
  /\ l.pc = "Advanced" => Newest(l, l.count + 1, last)
  /\ l.pc = "Counting" => /\ l.loaded = l.count /\ l.count < LogCapacity
                          /\ Newest(l, l.count + 1, last)

LEMMA LogSize == LogCapacity \in Nat /\ LogCapacity > 0
BY TasksConfig

\* A remainder less than two turns of the log away.
LEMMA Wrap ==
  ASSUME NEW a \in Nat, a < 2 * LogCapacity
  PROVE  /\ a % LogCapacity = IF a < LogCapacity THEN a ELSE a - LogCapacity
         /\ a % LogCapacity \in Slot
BY LogSize DEF Slot

\* The slot that is written next is one ahead of the newest.
LEMMA Around ==
  ASSUME NEW head \in Slot
  PROVE  LET next == (head + 1) % LogCapacity
         IN  /\ next \in Slot
             /\ Behind(next, 0) = head
             /\ \A k \in Slot : /\ Behind(head, k) \in Slot
                                /\ k < LogCapacity - 1 =>
                                     /\ Behind(next, k + 1) = Behind(head, k)
                                     /\ Behind(head, k) # head
<1> DEFINE next == (head + 1) % LogCapacity
<1>1. /\ LogCapacity \in Nat /\ LogCapacity > 0
      /\ head \in Nat /\ head < LogCapacity
  BY LogSize DEF Slot
<1>2. next = IF head + 1 < LogCapacity THEN head + 1 ELSE 0
  <2>1. head + 1 \in Nat /\ head + 1 < 2 * LogCapacity
    BY <1>1
  <2> QED
    BY <1>1, <2>1, Wrap
<1> HIDE DEF next
<1>3. next \in Nat /\ next < LogCapacity /\ next \in Slot
  BY <1>1, <1>2 DEF Slot
<1>4. ASSUME NEW h \in Nat, h < LogCapacity, NEW k \in Nat, k < LogCapacity
      PROVE  /\ Behind(h, k) = IF k < h THEN h - 1 - k ELSE h + LogCapacity - 1 - k
             /\ Behind(h, k) \in Slot
  <2> DEFINE a == h + LogCapacity - 1 - k
  <2>1. a \in Nat /\ a < 2 * LogCapacity
    BY <1>1, <1>4
  <2>2. Behind(h, k) = a % LogCapacity
    BY DEF Behind
  <2> HIDE DEF a
  <2>3. /\ a % LogCapacity = IF a < LogCapacity THEN a ELSE a - LogCapacity
        /\ a % LogCapacity \in Slot
    BY <1>1, <2>1, Wrap
  <2>4. a = h + LogCapacity - 1 - k
    BY DEF a
  <2> QED
    BY <1>1, <1>4, <2>2, <2>3, <2>4
<1>5. Behind(next, 0) = head
  <2>1. Behind(next, 0) = IF 0 < next THEN next - 1 - 0 ELSE next + LogCapacity - 1 - 0
    BY <1>1, <1>3, <1>4
  <2> QED
    BY <1>1, <1>2, <2>1
<1>6. ASSUME NEW k \in Slot
      PROVE  /\ Behind(head, k) \in Slot
             /\ k < LogCapacity - 1 => /\ Behind(next, k + 1) = Behind(head, k)
                                       /\ Behind(head, k) # head
  <2>1. k \in Nat /\ k < LogCapacity
    BY <1>1 DEF Slot
  <2>2. /\ Behind(head, k) = IF k < head THEN head - 1 - k ELSE head + LogCapacity - 1 - k
        /\ Behind(head, k) \in Slot
    BY <1>1, <2>1, <1>4
  <2>3. ASSUME k < LogCapacity - 1
        PROVE  Behind(next, k + 1) = Behind(head, k) /\ Behind(head, k) # head
    <3>1. k + 1 \in Nat /\ k + 1 < LogCapacity
      BY <1>1, <2>1, <2>3
    <3>2. Behind(next, k + 1) = IF k + 1 < next THEN next - 1 - (k + 1)
                                ELSE next + LogCapacity - 1 - (k + 1)
      BY <1>3, <3>1, <1>4
    <3> QED
      BY <1>1, <1>2, <2>1, <2>2, <2>3, <3>2
  <2> QED
    BY <2>2, <2>3
<1> QED
  BY <1>3, <1>5, <1>6 DEF next

\* log(), one access at a time.
LEMMA SlotWrittenHolds ==
  ASSUME NEW l, NEW last, LogHolds(l, last), l.pc = "Idle"
  PROVE  /\ LogHolds(SlotWritten(l, last + 1), last + 1)
         /\ SlotWritten(l, last + 1).count = l.count
         /\ SlotWritten(l, last + 1).dropped = l.dropped
         /\ SlotWritten(l, last + 1).pc = "Written"
<1> DEFINE new == SlotWritten(l, last + 1)
           slots == [l.slots EXCEPT ![l.head] = last + 1]
<1>1. /\ l \in Log /\ last \in Nat /\ l.slots \in [Slot -> Nat] /\ l.head \in Slot
      /\ l.count \in Nat /\ LogCapacity \in Nat
      /\ \A k \in 0 .. LogCapacity - 1 :
           k < l.count => l.slots[Behind(l.head, k)] = last - k
  BY LogSize DEF LogHolds, Log, Newest
<1>2. slots \in [Slot -> Nat] /\ slots[l.head] = last + 1
  BY <1>1
<1>3. new = [l EXCEPT !.slots = slots, !.pc = "Written"]
  BY <1>1 DEF SlotWritten, Log
<1>4. ASSUME NEW k \in 0 .. LogCapacity - 2, k < l.count
      PROVE  slots[Behind(l.head, k)] = last + 1 - 1 - k
  <2>1. k \in Slot /\ k < LogCapacity - 1 /\ k \in 0 .. LogCapacity - 1
    BY <1>1 DEF Slot
  <2>2. Behind(l.head, k) \in Slot /\ Behind(l.head, k) # l.head
    BY <1>1, <2>1, Around
  <2>3. slots[Behind(l.head, k)] = l.slots[Behind(l.head, k)]
    BY <1>1, <2>2
  <2>4. last + 1 - 1 - k = last - k
    BY <1>1, <2>1
  <2> QED
    BY <1>1, <1>4, <2>1, <2>3, <2>4
<1> HIDE DEF slots
<1>5. /\ new \in Log /\ new.slots = slots /\ new.head = l.head /\ new.pc = "Written"
      /\ new.count = l.count /\ new.dropped = l.dropped
  BY <1>1, <1>2, <1>3 DEF Log
<1> HIDE DEF new
<1>6. last + 1 \in Nat
  BY <1>1
<1>7. LogHolds(new, last + 1)
  BY <1>2, <1>4, <1>5, <1>6 DEF LogHolds
<1> QED
  BY <1>5, <1>7 DEF new

LEMMA HeadAdvancedHolds ==
  ASSUME NEW l, NEW last, LogHolds(l, last), l.pc = "Written"
  PROVE  /\ LogHolds(HeadAdvanced(l), last)
         /\ HeadAdvanced(l).count = l.count
         /\ HeadAdvanced(l).dropped = l.dropped
         /\ HeadAdvanced(l).pc = "Advanced"
<1> DEFINE new == HeadAdvanced(l)
           next == (l.head + 1) % LogCapacity
<1>1. /\ l \in Log /\ last \in Nat /\ l.head \in Slot /\ l.count \in Nat
      /\ LogCapacity \in Nat /\ LogCapacity > 0
      /\ l.slots[l.head] = last
      /\ \A k \in 0 .. LogCapacity - 2 :
           k < l.count => l.slots[Behind(l.head, k)] = last - 1 - k
  BY LogSize DEF LogHolds, Log
<1>2. /\ next \in Slot /\ Behind(next, 0) = l.head
      /\ \A k \in Slot : k < LogCapacity - 1 => Behind(next, k + 1) = Behind(l.head, k)
  BY <1>1, Around
<1>3. new = [l EXCEPT !.head = next, !.pc = "Advanced"]
  BY <1>1 DEF HeadAdvanced, Log
<1> HIDE DEF next
<1>4. /\ new \in Log /\ new.slots = l.slots /\ new.head = next /\ new.pc = "Advanced"
      /\ new.count = l.count /\ new.dropped = l.dropped
  BY <1>1, <1>2, <1>3 DEF Log
<1> HIDE DEF new
<1>5. ASSUME NEW k \in 0 .. LogCapacity - 1, k < l.count + 1
      PROVE  l.slots[Behind(next, k)] = last - k
  <2>1. CASE k = 0
    BY <1>1, <1>2, <2>1
  <2>2. CASE k # 0
    <3>1. PICK j \in 0 .. LogCapacity - 2 : k = j + 1
      <4>1. k - 1 \in 0 .. LogCapacity - 2 /\ k = (k - 1) + 1
        BY <1>1, <2>2
      <4> QED
        BY <4>1
    <3>2. j \in Slot /\ j < LogCapacity - 1 /\ j < l.count /\ last - k = last - 1 - j
      BY <1>1, <1>5, <3>1 DEF Slot
    <3>3. Behind(next, k) = Behind(l.head, j)
      BY <1>2, <3>1, <3>2
    <3> QED
      BY <1>1, <3>1, <3>2, <3>3
  <2> QED
    BY <2>1, <2>2
<1>6. Newest(new, new.count + 1, last)
  BY <1>4, <1>5 DEF Newest
<1>7. LogHolds(new, last)
  BY <1>1, <1>4, <1>6 DEF LogHolds
<1> QED
  BY <1>4, <1>7 DEF new

LEMMA CountReadHolds ==
  ASSUME NEW l, NEW last, LogHolds(l, last), l.pc = "Advanced"
  PROVE  /\ LogHolds(CountRead(l), last)
         /\ CountRead(l).count = l.count
         /\ \/ CountRead(l).dropped = l.dropped /\ CountRead(l).pc = "Counting"
            \/ CountRead(l).dropped = l.dropped + 1 /\ CountRead(l).pc = "Idle"
<1> DEFINE new == CountRead(l)
<1>1. /\ l \in Log /\ last \in Nat /\ l.count \in Nat /\ l.count <= LogCapacity
      /\ LogCapacity \in Nat /\ LogCapacity > 0 /\ l.dropped + 1 \in Nat
      /\ \A k \in 0 .. LogCapacity - 1 :
           k < l.count + 1 => l.slots[Behind(l.head, k)] = last - k
  BY LogSize DEF LogHolds, Log, Newest
<1>2. CASE l.count < LogCapacity
  <2> DEFINE n == l.count
  <2>1. new = [l EXCEPT !.loaded = n, !.pc = "Counting"] /\ n \in Nat
    BY <1>1, <1>2 DEF CountRead
  <2> HIDE DEF new, n
  <2>2. /\ new \in Log /\ new.slots = l.slots /\ new.head = l.head
        /\ new.pc = "Counting" /\ new.count = l.count /\ new.loaded = n
        /\ new.dropped = l.dropped
    <3>1. l \in Log /\ "Counting" \in {"Idle", "Written", "Advanced", "Counting"}
      BY <1>1
    <3> QED
      BY <2>1, <3>1 DEF Log
  <2>3. Newest(new, new.count + 1, last)
    BY <1>1, <2>2 DEF Newest
  <2>4. LogHolds(new, last)
    BY <1>1, <1>2, <2>2, <2>3 DEF LogHolds, n
  <2> QED
    BY <2>2, <2>4 DEF new
<1>3. CASE ~(l.count < LogCapacity)
  <2>1. new = [l EXCEPT !.dropped = l.dropped + 1, !.pc = "Idle"]
    BY <1>1, <1>3 DEF CountRead, Log
  <2>2. /\ new \in Log /\ new.slots = l.slots /\ new.head = l.head
        /\ new.pc = "Idle" /\ new.count = l.count /\ new.dropped = l.dropped + 1
    BY <1>1, <2>1 DEF Log
  <2> HIDE DEF new
  <2>3. Newest(new, new.count, last)
    BY <1>1, <2>2 DEF Newest
  <2>4. LogHolds(new, last)
    BY <1>1, <2>2, <2>3 DEF LogHolds
  <2> QED
    BY <2>2, <2>4 DEF new
<1> QED
  BY <1>2, <1>3

LEMMA CountWrittenHolds ==
  ASSUME NEW l, NEW last, LogHolds(l, last), l.pc = "Counting"
  PROVE  /\ LogHolds(CountWritten(l), last)
         /\ CountWritten(l).count = l.count + 1
         /\ CountWritten(l).dropped = l.dropped
         /\ CountWritten(l).pc = "Idle"
<1> DEFINE new == CountWritten(l)
<1>1. /\ l \in Log /\ last \in Nat /\ l.count \in Nat /\ l.count < LogCapacity
      /\ LogCapacity \in Nat /\ l.loaded = l.count
      /\ Newest(l, l.count + 1, last)
  BY LogSize DEF LogHolds, Log
<1> DEFINE more == l.count + 1
<1>2. new = [l EXCEPT !.count = more, !.loaded = 0, !.pc = "Idle"]
  BY <1>1 DEF CountWritten
<1>3. /\ new \in Log /\ new.slots = l.slots /\ new.head = l.head
      /\ new.pc = "Idle" /\ new.count = l.count + 1 /\ new.dropped = l.dropped
  <2>1. more \in 0 .. LogCapacity
    BY <1>1
  <2> HIDE DEF new, more
  <2>2. /\ new \in Log /\ new.slots = l.slots /\ new.head = l.head
        /\ new.pc = "Idle" /\ new.count = more /\ new.dropped = l.dropped
    <3>1. l \in Log
      BY <1>1
    <3> QED
      BY <1>2, <2>1, <3>1 DEF Log
  <2> QED
    BY <2>2 DEF more
<1> HIDE DEF new
<1>4. Newest(new, new.count, last)
  BY <1>1, <1>3 DEF Newest
<1>5. LogHolds(new, last)
  BY <1>1, <1>3, <1>4 DEF LogHolds
<1> QED
  BY <1>3, <1>5 DEF new

Note == [nr : Nat, event : {"PostPassed", "PostFailed", "Startup", "Application"}]

\* What pop() returns is the newest records, the oldest of them first.
LEMMA PoppedIs ==
  ASSUME NEW l, NEW last, LogHolds(l, last), l.pc = "Idle", l.count <= last
  PROVE  /\ Popped(l) \in Seq(Note) /\ Len(Popped(l)) = l.count
         /\ \A i \in 1 .. l.count : Popped(l)[i].nr = last - l.count + i
<1> DEFINE C == LogCapacity
           n == l.count
<1>1. /\ l \in Log /\ last \in Nat /\ n \in Nat /\ n <= C /\ l.head \in Nat
      /\ l.head < C /\ C \in Nat /\ n <= last
      /\ \A k \in 0 .. C - 1 : k < n => l.slots[Behind(l.head, k)] = last - k
  BY LogSize DEF LogHolds, Log, Newest, Slot
<1> DEFINE place(i) == (l.head + C - n + i - 1) % C
<1>2. ASSUME NEW i \in 1 .. n
      PROVE  l.slots[place(i)] = last - n + i /\ last - n + i \in Nat
  <2>1. n - i \in 0 .. C - 1 /\ n - i < n /\ last - (n - i) = last - n + i
    BY <1>1
  <2>2. l.head + C - n + i - 1 = l.head + C - 1 - (n - i)
    BY <1>1
  <2>3. place(i) = Behind(l.head, n - i)
    BY <2>2 DEF Behind
  <2> HIDE DEF place
  <2>4. l.slots[Behind(l.head, n - i)] = last - (n - i)
    BY <1>1, <2>1
  <2> QED
    BY <1>1, <2>1, <2>3, <2>4
<1>3. Popped(l) = [i \in 1 .. n |-> [nr |-> l.slots[place(i)], event |-> "Application"]]
  BY DEF Popped
<1> HIDE DEF place, n
<1>4. ASSUME NEW i \in 1 .. n
      PROVE  Popped(l)[i] \in Note /\ Popped(l)[i].nr = last - n + i
  BY <1>2, <1>3, <1>4 DEF Note
<1>5. Popped(l) \in [1 .. n -> Note]
  BY <1>3, <1>4
<1>6. Popped(l) \in Seq(Note) /\ Len(Popped(l)) = n
  BY <1>1, <1>5
<1> QED
  BY <1>4, <1>6 DEF n

-----------------------------------------------------------------------------
(* The way of an event *)

Numbers(notes) == [i \in DOMAIN notes |-> notes[i].nr]

Ordered(events, newest) ==
  Ascending(events) /\ \A i \in 1 .. Len(events) : events[i] <= newest

\* The event that log() is about to keep or to drop.
Busy == IF log.pc = "Idle" THEN 0 ELSE 1

\* Unless the log was caught in the middle, what has left it is in order and
\* older than what it holds, and nothing has been lost that was not counted.
EventInv ==
  ~raced =>
    /\ told \in Seq(Nat) /\ queue \in Seq(Note) /\ wasted \in Nat
    /\ LogHolds(log, logged)
    /\ Ordered(told \o Waiting, logged - log.count - Busy)
    /\ logged = Len(told) + Len(queue) + wasted + log.count + log.dropped + Busy

LEMMA NumbersOf ==
  ASSUME NEW notes \in Seq(Note)
  PROVE  /\ Numbers(notes) \in Seq(Nat) /\ Len(Numbers(notes)) = Len(notes)
         /\ \A i \in 1 .. Len(notes) : Numbers(notes)[i] = notes[i].nr
<1>1. /\ DOMAIN notes = 1 .. Len(notes) /\ Len(notes) \in Nat
      /\ \A i \in 1 .. Len(notes) : notes[i] \in Note
  OBVIOUS
<1>3. \A note \in Note : note.nr \in Nat
  BY DEF Note
<1>2. Numbers(notes) \in [1 .. Len(notes) -> Nat]
  BY <1>1, <1>3 DEF Numbers
<1> QED
  BY <1>1, <1>2 DEF Numbers

LEMMA Joined ==
  ASSUME NEW s \in Seq(Nat), NEW t \in Seq(Nat)
  PROVE  /\ s \o t \in Seq(Nat) /\ Len(s \o t) = Len(s) + Len(t)
         /\ \A i \in 1 .. Len(s) : (s \o t)[i] = s[i]
         /\ \A i \in 1 .. Len(t) : (s \o t)[Len(s) + i] = t[i]
OBVIOUS

LEMMA NotesJoined ==
  ASSUME NEW s \in Seq(Note), NEW t \in Seq(Note)
  PROVE  /\ s \o t \in Seq(Note) /\ Len(s \o t) = Len(s) + Len(t)
         /\ \A i \in 1 .. Len(s) : (s \o t)[i] = s[i]
         /\ \A i \in 1 .. Len(t) : (s \o t)[Len(s) + i] = t[i]
OBVIOUS

\* A shorter sequence of the same events is in order too.
LEMMA PrefixOrdered ==
  ASSUME NEW s \in Seq(Nat), NEW t \in Seq(Nat), NEW newest, Ordered(s, newest),
         Len(t) <= Len(s), \A i \in 1 .. Len(t) : t[i] = s[i]
  PROVE  Ordered(t, newest)
<1>1. Len(s) \in Nat /\ Len(t) \in Nat /\ DOMAIN s = 1 .. Len(s) /\ DOMAIN t = 1 .. Len(t)
  OBVIOUS
<1>2. Ascending(t)
  BY <1>1 DEF Ordered, Ascending
<1>3. \A i \in 1 .. Len(t) : t[i] <= newest
  BY <1>1 DEF Ordered
<1> QED
  BY <1>2, <1>3 DEF Ordered

\* The next events after the newest keep the order.
LEMMA JoinOrdered ==
  ASSUME NEW s \in Seq(Nat), NEW t \in Seq(Nat), NEW newest \in Nat,
         Ordered(s, newest), \A i \in 1 .. Len(t) : t[i] = newest + i
  PROVE  s \o t \in Seq(Nat) /\ Ordered(s \o t, newest + Len(t))
<1> DEFINE u == s \o t
           m == Len(s)
           n == Len(t)
<1>1. /\ m \in Nat /\ n \in Nat /\ DOMAIN s = 1 .. m /\ DOMAIN u = 1 .. m + n
      /\ u \in Seq(Nat) /\ Len(u) = m + n
      /\ \A i \in 1 .. m : u[i] = s[i] /\ s[i] \in Nat
      /\ \A i \in 1 .. n : u[m + i] = t[i]
  OBVIOUS
<1>2. /\ \A i, j \in 1 .. m : i < j => s[i] < s[j]
      /\ \A i \in 1 .. m : s[i] <= newest
      /\ \A i \in 1 .. n : t[i] = newest + i
  BY <1>1 DEF Ordered, Ascending
<1> HIDE DEF u, m, n
<1>3. \A i \in m + 1 .. m + n : u[i] = newest + (i - m)
  <2>1. ASSUME NEW i \in m + 1 .. m + n PROVE u[i] = newest + (i - m)
    <3>1. i - m \in 1 .. n /\ m + (i - m) = i
      BY <1>1
    <3> QED
      BY <1>1, <1>2, <3>1
  <2> QED
    BY <2>1
<1>4. ASSUME NEW i \in 1 .. m + n, NEW j \in 1 .. m + n, i < j PROVE u[i] < u[j]
  <2>1. CASE j <= m
    <3>1. i \in 1 .. m /\ j \in 1 .. m
      BY <1>1, <1>4, <2>1
    <3> QED
      BY <1>1, <1>2, <1>4, <3>1
  <2>2. CASE i <= m /\ j > m
    <3>1. i \in 1 .. m /\ j \in m + 1 .. m + n
      BY <1>1, <2>2
    <3>2. u[i] = s[i] /\ s[i] \in Nat /\ s[i] <= newest /\ u[j] = newest + (j - m)
      BY <1>1, <1>2, <1>3, <3>1
    <3> QED
      BY <1>1, <3>1, <3>2
  <2>3. CASE i > m
    <3>1. i \in m + 1 .. m + n /\ j \in m + 1 .. m + n
      BY <1>1, <1>4, <2>3
    <3>2. u[i] = newest + (i - m) /\ u[j] = newest + (j - m)
      BY <1>3, <3>1
    <3> QED
      BY <1>1, <1>4, <3>1, <3>2
  <2> QED
    BY <1>1, <2>1, <2>2, <2>3
<1>5. ASSUME NEW i \in 1 .. m + n PROVE u[i] <= newest + n
  <2>1. CASE i <= m
    <3>1. u[i] \in Nat /\ u[i] <= newest
      BY <1>1, <1>2, <2>1
    <3> QED
      BY <1>1, <3>1
  <2>2. CASE i > m
    <3>1. u[i] = newest + (i - m)
      BY <1>1, <1>3, <2>2
    <3> QED
      BY <1>1, <3>1
  <2> QED
    BY <1>1, <2>1, <2>2
<1>6. Ordered(u, newest + n)
  BY <1>1, <1>4, <1>5 DEF Ordered, Ascending
<1> QED
  BY <1>1, <1>6 DEF u, n

\* A fresh board: two records in the queue, none in the log.
LEMMA StartedOrdered ==
  ASSUME NEW bad
  PROVE  LET new == Started(bad).log
         IN  /\ LogHolds(new, 2) /\ new.count = 0 /\ new.dropped = 0 /\ new.pc = "Idle"
             /\ Startup(bad) \in Seq(Note) /\ Len(Startup(bad)) = 2
             /\ Ordered(<< >> \o Numbers(Startup(bad)), 2)
<1> DEFINE new == Started(bad).log
           notes == Startup(bad)
<1>1. 0 \in Slot /\ [i \in Slot |-> 0] \in [Slot -> Nat] /\ 0 \in 0 .. LogCapacity
  BY LogSize DEF Slot
<1>2. new = [slots |-> [i \in Slot |-> 0], head |-> 0, count |-> 0,
             dropped |-> 0, pc |-> "Idle", loaded |-> 0]
  BY DEF Started, Slot
<1> HIDE DEF new
<1>3. new \in Log /\ new.count = 0 /\ new.dropped = 0 /\ new.pc = "Idle"
  BY <1>1, <1>2 DEF Log
<1>4. LogHolds(new, 2)
  BY <1>3 DEF LogHolds, Newest
<1>5. notes \in Seq(Note) /\ Len(notes) = 2 /\ notes[1].nr = 1 /\ notes[2].nr = 2
  <2> DEFINE event == IF PostPassed(Posted(bad)) THEN "PostPassed" ELSE "PostFailed"
  <2>1. event \in {"PostPassed", "PostFailed"}
    OBVIOUS
  <2>2. notes = << [nr |-> 1, event |-> event], [nr |-> 2, event |-> "Startup"] >>
    BY DEF Startup
  <2> HIDE DEF event
  <2> QED
    BY <2>1, <2>2 DEF Note
<1> HIDE DEF notes
<1> DEFINE seen == << >> \o Numbers(notes)
<1>6. /\ seen \in Seq(Nat) /\ Len(seen) = 2 /\ seen[1] = 1 /\ seen[2] = 2
      /\ DOMAIN seen = 1 .. 2
  <2>1. /\ Numbers(notes) \in Seq(Nat) /\ Len(Numbers(notes)) = 2
        /\ Numbers(notes)[1] = 1 /\ Numbers(notes)[2] = 2
    BY <1>5, NumbersOf
  <2> QED
    BY <2>1
<1> HIDE DEF seen
<1>7. Ordered(seen, 2)
  <2>1. Ascending(seen)
    BY <1>6 DEF Ascending
  <2>2. \A i \in 1 .. 2 : seen[i] <= 2
    BY <1>6
  <2> QED
    BY <1>6, <2>1, <2>2 DEF Ordered
<1> QED
  BY <1>3, <1>4, <1>5, <1>7 DEF new, notes, seen

\* A step that leaves the events where they are.
LEMMA EventsApart ==
  ASSUME EventInv, UNCHANGED << told, queue, wasted, log, logged >>, raced => raced'
  PROVE  EventInv'
BY DEF EventInv, Waiting, Busy

LEMMA LogsInOrder ==
  ASSUME EventInv, ControlLogs \/ ControlGoesOn PROVE EventInv'
<1> SUFFICES ASSUME ~raced PROVE EventInv'
  BY DEF ControlLogs, ControlGoesOn, EventInv
<1>1. /\ told \in Seq(Nat) /\ queue \in Seq(Note) /\ wasted \in Nat
      /\ LogHolds(log, logged)
      /\ Ordered(told \o Waiting, logged - log.count - Busy)
      /\ logged = Len(told) + Len(queue) + wasted + log.count + log.dropped + Busy
  BY DEF EventInv
<1>2. UNCHANGED << told, queue, wasted >> /\ Waiting' = Waiting
  BY DEF ControlLogs, ControlGoesOn, Waiting
<1>3. /\ log.count \in Nat /\ log.dropped \in Nat /\ logged \in Nat
      /\ Len(told) \in Nat /\ Len(queue) \in Nat
  BY <1>1, LogSize DEF LogHolds, Log
<1> DEFINE out == Len(told) + Len(queue) + wasted
<1>4. /\ out \in Nat /\ Busy \in Nat
      /\ logged = out + log.count + log.dropped + Busy
  BY <1>1, <1>3 DEF Busy
<1> HIDE DEF out
<1>7. ASSUME LogHolds(log', logged'),
             logged' = out + log'.count + log'.dropped + Busy',
             logged - log.count - Busy <= logged' - log'.count - Busy',
             logged' \in Nat, log'.count \in Nat, log'.dropped \in Nat, Busy' \in Nat
      PROVE  EventInv'
  <2> DEFINE seen == told \o Waiting
             old == logged - log.count - Busy
             new == logged' - log'.count - Busy'
  <2>1. seen \in Seq(Nat)
    BY <1>1, NumbersOf, Joined DEF Waiting, Numbers
  <2>2. old \in Int
    BY <1>3, <1>4
  <2>3. new \in Int
    BY <1>7
  <2>4. Ordered(seen, old) /\ old <= new
    BY <1>1, <1>7
  <2> HIDE DEF seen, old, new
  <2>5. Ordered(seen, new)
    <3>1. \A i \in 1 .. Len(seen) : seen[i] \in Nat /\ seen[i] <= old
      BY <2>1, <2>4 DEF Ordered
    <3>2. \A i \in 1 .. Len(seen) : seen[i] <= new
      BY <2>2, <2>3, <2>4, <3>1
    <3> QED
      BY <2>4, <3>2 DEF Ordered
  <2>6. Ordered(told' \o Waiting', logged' - log'.count - Busy')
    BY <1>2, <2>5 DEF seen, new
  <2>7. logged' = Len(told') + Len(queue') + wasted' + log'.count + log'.dropped + Busy'
    BY <1>2, <1>7, Zenon DEF out
  <2> QED
    BY <1>1, <1>2, <1>7, <2>6, <2>7 DEF EventInv
<1>5. CASE ControlLogs
  <2>1. /\ log.pc = "Idle" /\ logged' = logged + 1
        /\ log' = SlotWritten(log, logged + 1)
    BY <1>5 DEF ControlLogs
  <2>2. /\ LogHolds(log', logged') /\ log'.count = log.count
        /\ log'.dropped = log.dropped /\ log'.pc = "Written"
    BY <1>1, <2>1, SlotWrittenHolds
  <2>3. Busy = 0 /\ Busy' = 1
    BY <2>1, <2>2 DEF Busy
  <2> QED
    BY <1>3, <1>4, <1>7, <2>1, <2>2, <2>3
<1>6. CASE ControlGoesOn
  <2>1. logged' = logged
    BY <1>6 DEF ControlGoesOn
  <2>2. CASE log.pc = "Written" /\ log' = HeadAdvanced(log)
    <3>1. /\ LogHolds(log', logged') /\ log'.count = log.count
          /\ log'.dropped = log.dropped /\ log'.pc = "Advanced"
      BY <1>1, <2>1, <2>2, HeadAdvancedHolds
    <3>2. Busy = 1 /\ Busy' = 1
      BY <2>2, <3>1 DEF Busy
    <3> QED
      BY <1>3, <1>4, <1>7, <2>1, <3>1, <3>2
  <2>3. CASE log.pc = "Advanced" /\ log' = CountRead(log)
    <3>1. /\ LogHolds(log', logged') /\ log'.count = log.count
          /\ \/ log'.dropped = log.dropped /\ log'.pc = "Counting"
             \/ log'.dropped = log.dropped + 1 /\ log'.pc = "Idle"
      BY <1>1, <2>1, <2>3, CountReadHolds
    <3>2. Busy = 1
      BY <2>3 DEF Busy
    <3>3. CASE log'.dropped = log.dropped /\ log'.pc = "Counting"
      <4>1. Busy' = 1
        BY <3>3 DEF Busy
      <4> QED
        BY <1>3, <1>4, <1>7, <2>1, <3>1, <3>2, <3>3, <4>1
    <3>4. CASE log'.dropped = log.dropped + 1 /\ log'.pc = "Idle"
      <4>1. Busy' = 0
        BY <3>4 DEF Busy
      <4>2. log'.count = log.count /\ log'.dropped = log.dropped + 1
        BY <3>1, <3>4
      <4>3. logged' = out + log'.count + log'.dropped + Busy'
        BY ONLY <1>3, <1>4, <2>1, <3>2, <4>1, <4>2
      <4>5. logged - log.count - Busy <= logged' - log'.count - Busy'
        BY ONLY <1>3, <2>1, <3>2, <4>1, <4>2
      <4>4. /\ logged' \in Nat /\ log'.count \in Nat
            /\ log'.dropped \in Nat /\ Busy' \in Nat
        BY ONLY <1>3, <2>1, <4>1, <4>2
      <4> QED
        BY <1>7, <3>1, <4>3, <4>4, <4>5
    <3> QED
      BY <3>1, <3>3, <3>4
  <2>4. CASE log.pc = "Counting" /\ log' = CountWritten(log)
    <3>1. /\ LogHolds(log', logged') /\ log'.count = log.count + 1
          /\ log'.dropped = log.dropped /\ log'.pc = "Idle"
      BY <1>1, <2>1, <2>4, CountWrittenHolds
    <3>2. Busy = 1 /\ Busy' = 0
      BY <2>4, <3>1 DEF Busy
    <3>3. /\ log'.count \in Nat /\ log'.dropped \in Nat /\ logged' \in Nat
          /\ Busy' \in Nat
      BY <1>3, <2>1, <3>1, <3>2
    <3>4. logged' = out + log'.count + log'.dropped + Busy'
      BY <1>3, <1>4, <2>1, <3>1, <3>2
    <3>5. logged - log.count - Busy <= logged' - log'.count - Busy'
      BY <1>3, <2>1, <3>1, <3>2
    <3> QED
      BY <1>7, <3>1, <3>3, <3>4, <3>5
  <2> QED
    BY <1>6, <2>2, <2>3, <2>4 DEF ControlGoesOn
<1> QED
  BY <1>5, <1>6

\* The logger hands the head of the queue on: it is the last one told now.
LEMMA TellsInOrder ==
  ASSUME EventInv, Logger PROVE EventInv'
<1>1. UNCHANGED << log, logged, wasted, raced >> /\ Busy' = Busy
  BY DEF Logger, Busy
<1>2. CASE queue = << >> /\ UNCHANGED << told, queue >>
  BY <1>1, <1>2, EventsApart
<1>3. CASE queue # << >> /\ told' = Append(told, Head(queue).nr) /\ queue' = Tail(queue)
  <2> SUFFICES ASSUME ~raced PROVE EventInv'
    BY <1>1 DEF EventInv
  <2>1. /\ told \in Seq(Nat) /\ queue \in Seq(Note) /\ wasted \in Nat
        /\ LogHolds(log, logged)
        /\ Ordered(told \o Waiting, logged - log.count - Busy)
        /\ logged = Len(told) + Len(queue) + wasted + log.count + log.dropped + Busy
    BY DEF EventInv
  <2> DEFINE m == Len(told)
             n == Len(queue)
             nr == queue[1].nr
  <2>2. /\ m \in Nat /\ n \in Nat /\ n > 0 /\ queue[1] \in Note
        /\ queue' \in Seq(Note) /\ Len(queue') = n - 1 /\ Head(queue) = queue[1]
        /\ \A i \in 1 .. n - 1 : queue'[i] = queue[i + 1]
    BY <1>3, <2>1
  <2>3. nr \in Nat
    BY <2>2 DEF Note
  <2> HIDE DEF nr
  <2>4. /\ told' = Append(told, nr) /\ told' \in Seq(Nat) /\ Len(told') = m + 1
        /\ told'[m + 1] = nr /\ \A i \in 1 .. m : told'[i] = told[i]
    BY <1>3, <2>1, <2>2, <2>3 DEF nr
  <2>5. /\ Waiting \in Seq(Nat) /\ Len(Waiting) = n
        /\ \A i \in 1 .. n : Waiting[i] = queue[i].nr
    BY <2>1, NumbersOf DEF Waiting, Numbers
  <2>6. /\ Waiting' \in Seq(Nat) /\ Len(Waiting') = n - 1
        /\ \A i \in 1 .. n - 1 : Waiting'[i] = queue'[i].nr
    BY <2>2, NumbersOf DEF Waiting, Numbers
  <2> DEFINE old == told \o Waiting
             new == told' \o Waiting'
  <2>7. /\ old \in Seq(Nat) /\ Len(old) = m + n
        /\ \A i \in 1 .. m : old[i] = told[i]
        /\ \A i \in 1 .. n : old[m + i] = Waiting[i]
    <3>1. /\ old \in Seq(Nat) /\ Len(old) = Len(told) + Len(Waiting)
          /\ \A i \in 1 .. Len(told) : old[i] = told[i]
          /\ \A i \in 1 .. Len(Waiting) : old[Len(told) + i] = Waiting[i]
      BY <2>1, <2>5, Joined, Zenon
    <3> QED
      BY <2>5, <3>1
  <2>8. /\ new \in Seq(Nat) /\ Len(new) = m + n
        /\ \A i \in 1 .. m + 1 : new[i] = told'[i]
        /\ \A i \in 1 .. n - 1 : new[m + 1 + i] = Waiting'[i]
    <3>1. /\ new \in Seq(Nat) /\ Len(new) = Len(told') + Len(Waiting')
          /\ \A i \in 1 .. Len(told') : new[i] = told'[i]
          /\ \A i \in 1 .. Len(Waiting') : new[Len(told') + i] = Waiting'[i]
      BY <2>4, <2>6, Joined, Zenon
    <3>2. m \in Nat /\ n \in Nat /\ Len(told') = m + 1 /\ Len(Waiting') = n - 1
      BY <2>2, <2>4, <2>6
    <3> HIDE DEF new, m, n
    <3>3. Len(new) = m + n
      BY <3>1, <3>2
    <3> QED
      BY <3>1, <3>2, <3>3
  <2> HIDE DEF m, n, old, new
  <2>9. ASSUME NEW i \in 1 .. m + n PROVE new[i] = old[i]
    <3>1. CASE i <= m
      <4>1. i \in 1 .. m /\ i \in 1 .. m + 1
        BY <2>2, <3>1
      <4> QED
        BY <2>4, <2>7, <2>8, <4>1
    <3>2. CASE i = m + 1
      <4>1. new[i] = nr /\ 1 \in 1 .. n
        BY <2>2, <2>4, <2>8, <3>2
      <4>2. old[i] = nr
        BY <2>5, <2>7, <3>2, <4>1 DEF nr
      <4> QED
        BY <4>1, <4>2
    <3>3. CASE i > m + 1
      <4>1. PICK j \in 1 .. n - 1 : i = m + 1 + j
        <5>1. i - m - 1 \in 1 .. n - 1 /\ i = m + 1 + (i - m - 1)
          BY <2>2, <3>3
        <5> QED
          BY <5>1
      <4>2. j + 1 \in 1 .. n /\ i = m + (j + 1)
        BY <2>2, <4>1
      <4>3. new[i] = queue[j + 1].nr
        BY <2>2, <2>6, <2>8, <4>1
      <4>4. old[i] = queue[j + 1].nr
        BY <2>5, <2>7, <4>2
      <4> QED
        BY <4>3, <4>4
    <3> QED
      BY <2>2, <3>1, <3>2, <3>3
  <2>10. Ordered(new, logged - log.count - Busy)
    <3>1. Ordered(old, logged - log.count - Busy)
      BY <2>1 DEF old
    <3>2. Len(new) <= Len(old) /\ \A i \in 1 .. Len(new) : new[i] = old[i]
      BY <2>2, <2>7, <2>8, <2>9
    <3> QED
      BY <2>7, <2>8, <3>1, <3>2, PrefixOrdered, Zenon
  <2>11. Ordered(told' \o Waiting', logged' - log'.count - Busy')
    BY <1>1, <2>10 DEF new
  <2>12. logged' = Len(told') + Len(queue') + wasted' + log'.count + log'.dropped + Busy'
    <3>1. /\ wasted \in Nat /\ log.count \in Nat /\ log.dropped \in Nat /\ Busy \in Nat
      BY <2>1, LogSize DEF LogHolds, Log, Busy
    <3>2. Len(told') + Len(queue') = m + n
      BY <2>2, <2>4
    <3> QED
      BY <1>1, <2>1, <2>2, <2>4, <3>1, <3>2 DEF m, n
  <2> QED
    BY <1>1, <2>1, <2>2, <2>4, <2>11, <2>12 DEF EventInv
<1> QED
  BY <1>2, <1>3 DEF Logger

\* The monitor empties the log into the queue as far as there is room.
LEMMA MonitorInOrder ==
  ASSUME EventInv, Monitor PROVE EventInv'
<1> SUFFICES ASSUME ~raced' PROVE EventInv'
  BY DEF EventInv
<1> DEFINE kept == Popped(log)
           all == queue \o kept
           lost == IF Len(all) > QueueLength THEN Len(all) - QueueLength ELSE 0
           left == Len(all) - lost
<1>1. /\ ~raced /\ log.pc = "Idle" /\ UNCHANGED << logged, told >>
      /\ queue' = SubSeq(all, 1, left) /\ wasted' = wasted + lost
      /\ log' = [log EXCEPT !.count = 0]
  BY DEF Monitor
<1>2. /\ told \in Seq(Nat) /\ queue \in Seq(Note) /\ wasted \in Nat
      /\ LogHolds(log, logged)
      /\ Ordered(told \o Waiting, logged - log.count - Busy)
      /\ logged = Len(told) + Len(queue) + wasted + log.count + log.dropped + Busy
  BY <1>1 DEF EventInv
<1>3. /\ log \in Log /\ log.count \in Nat /\ log.dropped \in Nat /\ logged \in Nat
      /\ Busy = 0
  BY <1>1, <1>2, LogSize DEF LogHolds, Log, Busy
<1> DEFINE m == Len(told)
           n == Len(queue)
           c == log.count
<1>4. m \in Nat /\ n \in Nat /\ c \in Nat
  BY <1>2, <1>3
<1> HIDE DEF m, n, c
<1>5. logged - c \in Nat /\ Ordered(told \o Waiting, logged - c)
      /\ logged = m + n + wasted + c + log.dropped
  <2>1. logged = m + n + wasted + c + log.dropped
    BY <1>2, <1>3, <1>4 DEF m, n, c
  <2>2. logged - log.count - Busy = logged - c
    BY <1>3, <1>4 DEF c
  <2>3. logged - c \in Nat
    <3>1. wasted \in Nat /\ log.dropped \in Nat
      BY <1>2, <1>3
    <3> QED
      BY ONLY <1>4, <2>1, <3>1
  <2>4. Ordered(told \o Waiting, logged - c)
    BY <1>2, <2>2, Zenon DEF c
  <2> QED
    BY <2>1, <2>3, <2>4
<1>6. /\ kept \in Seq(Note) /\ Len(kept) = c
      /\ \A i \in 1 .. c : kept[i].nr = logged - c + i
  <2>1. log.count <= logged
    BY <1>3, <1>4, <1>5 DEF c
  <2> QED
    BY <1>1, <1>2, <2>1, PoppedIs DEF c
<1> HIDE DEF kept
<1>7. /\ all \in Seq(Note) /\ Len(all) = n + c
      /\ \A i \in 1 .. n : all[i] = queue[i]
      /\ \A i \in 1 .. c : all[n + i] = kept[i]
  <2>1. /\ all \in Seq(Note) /\ Len(all) = Len(queue) + Len(kept)
        /\ \A i \in 1 .. Len(queue) : all[i] = queue[i]
        /\ \A i \in 1 .. Len(kept) : all[Len(queue) + i] = kept[i]
    BY <1>2, <1>6, NotesJoined, Zenon
  <2> HIDE DEF all
  <2> QED
    BY <1>6, <2>1 DEF n
<1> HIDE DEF all
<1>8. lost \in Nat /\ left \in Nat /\ left <= n + c /\ left + lost = n + c
  BY <1>4, <1>7, TasksConfig
<1> HIDE DEF lost, left
<1>9. /\ queue' \in Seq(Note) /\ Len(queue') = left
      /\ \A i \in 1 .. left : queue'[i] = all[i]
  BY <1>1, <1>4, <1>7, <1>8
<1>10. /\ Waiting \in Seq(Nat) /\ Len(Waiting) = n
       /\ \A i \in 1 .. n : Waiting[i] = queue[i].nr
  BY <1>2, NumbersOf DEF Waiting, Numbers, n
<1>11. /\ Waiting' \in Seq(Nat) /\ Len(Waiting') = left
       /\ \A i \in 1 .. left : Waiting'[i] = queue'[i].nr
  BY <1>9, NumbersOf DEF Waiting, Numbers
<1>12. /\ Numbers(kept) \in Seq(Nat) /\ Len(Numbers(kept)) = c
       /\ \A i \in 1 .. c : Numbers(kept)[i] = kept[i].nr
  BY <1>6, NumbersOf
<1> DEFINE seen == told \o Waiting
           old == seen \o Numbers(kept)
           new == told \o Waiting'
<1>13. /\ seen \in Seq(Nat) /\ Len(seen) = m + n
       /\ \A i \in 1 .. m : seen[i] = told[i]
       /\ \A i \in 1 .. n : seen[m + i] = Waiting[i]
  BY <1>2, <1>10, Joined DEF m
<1>14. Ordered(seen, logged - c)
  BY <1>5
<1> HIDE DEF seen
<1>15. /\ old \in Seq(Nat) /\ Len(old) = m + n + c
       /\ \A i \in 1 .. m + n : old[i] = seen[i]
       /\ \A i \in 1 .. c : old[m + n + i] = kept[i].nr
  <2>1. /\ old \in Seq(Nat) /\ Len(old) = Len(seen) + Len(Numbers(kept))
        /\ \A i \in 1 .. Len(seen) : old[i] = seen[i]
        /\ \A i \in 1 .. Len(Numbers(kept)) :
             old[Len(seen) + i] = Numbers(kept)[i]
    BY <1>12, <1>13, Joined, Zenon
  <2> QED
    BY <1>12, <1>13, <2>1
<1>16. Ordered(old, logged)
  <2>1. \A i \in 1 .. Len(Numbers(kept)) : Numbers(kept)[i] = logged - c + i
    BY <1>6, <1>12
  <2>2. Ordered(old, logged - c + Len(Numbers(kept)))
    BY <1>5, <1>12, <1>13, <1>14, <2>1, JoinOrdered, Zenon
  <2>3. logged - c + Len(Numbers(kept)) = logged
    BY <1>3, <1>4, <1>12
  <2> QED
    BY <2>2, <2>3, Zenon
<1>17. /\ new \in Seq(Nat) /\ Len(new) = m + left
       /\ \A i \in 1 .. m : new[i] = told[i]
       /\ \A i \in 1 .. left : new[m + i] = Waiting'[i]
  BY <1>2, <1>11, Joined DEF m
<1> HIDE DEF old, new
<1>18. ASSUME NEW i \in 1 .. m + left PROVE new[i] = old[i]
  <2>1. CASE i <= m
    <3>1. i \in 1 .. m /\ i \in 1 .. m + n
      BY <1>4, <1>8, <2>1
    <3> QED
      BY <1>13, <1>15, <1>17, <3>1
  <2>2. CASE i > m
    <3>1. PICK j \in 1 .. left : i = m + j
      <4>1. i - m \in 1 .. left /\ i = m + (i - m)
        BY <1>4, <1>8, <2>2
      <4> QED
        BY <4>1
    <3>2. new[i] = all[j].nr
      BY <1>9, <1>11, <1>17, <3>1
    <3>3. CASE j <= n
      <4>1. j \in 1 .. n /\ m + j \in 1 .. m + n
        BY <1>4, <1>8, <3>3
      <4> QED
        BY <1>7, <1>10, <1>13, <1>15, <3>1, <3>2, <4>1
    <3>4. CASE j > n
      <4>1. PICK k \in 1 .. c : j = n + k
        <5>1. j - n \in 1 .. c /\ j = n + (j - n)
          BY <1>4, <1>8, <3>4
        <5> QED
          BY <5>1
      <4>2. i = m + n + k
        BY <1>4, <3>1, <4>1
      <4> QED
        BY <1>7, <1>15, <3>2, <4>1, <4>2
    <3> QED
      BY <1>4, <1>8, <3>3, <3>4
  <2> QED
    BY <1>4, <1>8, <2>1, <2>2
<1>19. Ordered(new, logged)
  <2>1. Len(new) <= Len(old) /\ \A i \in 1 .. Len(new) : new[i] = old[i]
    BY <1>4, <1>8, <1>15, <1>17, <1>18
  <2> QED
    BY <1>15, <1>16, <1>17, <2>1, PrefixOrdered, Zenon
<1>20. log' \in Log /\ log'.count = 0 /\ log'.dropped = log.dropped /\ log'.pc = "Idle"
  BY <1>1, <1>3, LogSize DEF Log
<1>21. LogHolds(log', logged')
  BY <1>1, <1>3, <1>20 DEF LogHolds, Newest
<1>22. Busy' = 0 /\ wasted' \in Nat
  BY <1>1, <1>2, <1>8, <1>20 DEF Busy
<1>23. Ordered(told' \o Waiting', logged' - log'.count - Busy')
  <2>1. logged' - log'.count - Busy' = logged
    BY <1>1, <1>3, <1>20, <1>22
  <2> QED
    BY <1>1, <1>19, <2>1 DEF new
<1>24. logged' = Len(told') + Len(queue') + wasted' + log'.count + log'.dropped + Busy'
  <2>1. logged = m + left + (wasted + lost) + 0 + log.dropped + 0
    <3>1. wasted \in Nat /\ log.dropped \in Nat
      BY <1>2, <1>3
    <3> QED
      BY <1>4, <1>5, <1>8, <3>1
  <2> QED
    BY <1>1, <1>9, <1>20, <1>22, <2>1 DEF m
<1> QED
  BY <1>1, <1>2, <1>9, <1>21, <1>22, <1>23, <1>24 DEF EventInv

LEMMA EventsInit == TasksInit => EventInv
<1> SUFFICES ASSUME TasksInit PROVE EventInv
  OBVIOUS
<1>1. PICK bad \in SUBSET Drivers :
        /\ log = Started(bad).log /\ queue = Startup(bad) /\ logged = 2
        /\ told = << >> /\ wasted = 0
  BY DEF TasksInit, Drivers
<1>2. /\ LogHolds(log, 2) /\ log.count = 0 /\ log.dropped = 0 /\ Busy = 0
      /\ queue \in Seq(Note) /\ Len(queue) = 2 /\ Ordered(told \o Numbers(queue), 2)
  BY <1>1, StartedOrdered DEF Busy
<1>3. Waiting = Numbers(queue)
  BY DEF Waiting, Numbers
<1> QED
  BY <1>1, <1>2, <1>3 DEF EventInv

LEMMA ResetInOrder ==
  ASSUME Reset PROVE EventInv'
<1>1. /\ log' = Started(failing).log /\ queue' = Startup(failing) /\ logged' = 2
      /\ told' = << >> /\ wasted' = 0
  BY DEF Reset, Started
<1>2. /\ LogHolds(log', 2) /\ log'.count = 0 /\ log'.dropped = 0 /\ Busy' = 0
      /\ queue' \in Seq(Note) /\ Len(queue') = 2 /\ Ordered(told' \o Numbers(queue'), 2)
  BY <1>1, StartedOrdered DEF Busy
<1>3. Waiting' = Numbers(queue')
  BY DEF Waiting, Numbers
<1> QED
  BY <1>1, <1>2, <1>3 DEF EventInv

LEMMA EventsStep == EventInv /\ [TasksNext]_vars => EventInv'
<1> SUFFICES ASSUME EventInv, [TasksNext]_vars PROVE EventInv'
  OBVIOUS
<1>1. CASE ControlChecksIn \/ Sensor \/ Tick \/ Hang \/ UNCHANGED vars
  BY <1>1, EventsApart DEF ControlChecksIn, Sensor, Tick, Hang, vars
<1> QED
  BY <1>1, LogsInOrder, TellsInOrder, MonitorInOrder, ResetInOrder DEF TasksNext

\* EventsInOrder of Tasks: for every size of the log and of the queue, and as
\* long as the monitor does not catch log() half way, the host is told of
\* events in their order and once, and every one that it misses was counted.
THEOREM EventsAlwaysInOrder == TasksSpec => []EventsInOrder
<1>1. EventInv => EventsInOrder
  <2> SUFFICES ASSUME EventInv, ~raced, log.pc = "Idle"
               PROVE  /\ Ascending(told \o Waiting \o Kept)
                      /\ Kept = [i \in 1 .. log.count |-> logged - log.count + i]
                      /\ logged = Len(told) + Len(queue) + wasted + log.count + log.dropped
    BY DEF EventsInOrder
  <2>1. /\ told \in Seq(Nat) /\ queue \in Seq(Note) /\ wasted \in Nat
        /\ LogHolds(log, logged)
        /\ Ordered(told \o Waiting, logged - log.count - Busy)
        /\ logged = Len(told) + Len(queue) + wasted + log.count + log.dropped + Busy
        /\ Busy = 0
    BY DEF EventInv, Busy
  <2>2. log.count \in Nat /\ log.dropped \in Nat /\ logged \in Nat
    BY <2>1, LogSize DEF LogHolds, Log
  <2> DEFINE before == logged - log.count
             out == Len(told) + Len(queue) + wasted
  <2>3. out \in Nat /\ logged = out + log.count + log.dropped
    BY <2>1, <2>2
  <2> HIDE DEF out
  <2>4. before \in Nat /\ log.count <= logged /\ before + log.count = logged
        /\ logged - log.count - Busy = before
    <3>1. before \in Nat /\ log.count <= logged /\ before + log.count = logged
      BY <2>2, <2>3
    <3>2. Busy = 0
      BY <2>1
    <3> QED
      BY <2>2, <3>1, <3>2
  <2>5. /\ Popped(log) \in Seq(Note) /\ Len(Popped(log)) = log.count
        /\ \A i \in 1 .. log.count : Popped(log)[i].nr = before + i
    BY <2>1, <2>4, PoppedIs
  <2> HIDE DEF before
  <2>6. /\ Kept \in Seq(Nat) /\ Len(Kept) = log.count
        /\ \A i \in 1 .. log.count : Kept[i] = before + i
    BY <2>5, NumbersOf DEF Kept, Numbers
  <2>7. Kept = [i \in 1 .. log.count |-> before + i]
    BY <2>2, <2>6
  <2>8. told \o Waiting \in Seq(Nat)
    BY <2>1, NumbersOf, Joined DEF Waiting, Numbers
  <2>9. Ordered(told \o Waiting, before)
    BY <2>1, <2>4
  <2>10. Ordered(told \o Waiting \o Kept, before + Len(Kept))
    BY <2>4, <2>6, <2>8, <2>9, JoinOrdered, Zenon
  <2> QED
    BY <2>1, <2>3, <2>7, <2>10 DEF before, out, Ordered
<1> QED
  BY <1>1, EventsInit, EventsStep, PTL DEF TasksSpec
=============================================================================
