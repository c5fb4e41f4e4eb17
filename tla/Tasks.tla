-------------------------------- MODULE Tasks -------------------------------
(***************************************************************************)
(* The tasks of app/rtos_app.cpp: the check-in bits, the watchdog task and  *)
(* the IWDG behind it, and the way of an event from the control task's log  *)
(* (services/logger.cpp) through the queue to the link.                     *)
(*                                                                          *)
(* A tick is the monitor's period. In it every live task gets to run, a     *)
(* higher priority first; the 20 cycles of the control task in a tick are   *)
(* one check-in and any number of events. The watchdog task has the highest *)
(* priority and acts within the step that wakes it.                         *)
(*                                                                          *)
(* A task may hang: it blocks, or it spins and starves every lower          *)
(* priority; or a kernel hook halts them all. Drivers in failing did not    *)
(* come up, and do not after a reset. Events are numbered as they are       *)
(* logged.                                                                  *)
(***************************************************************************)
EXTENDS DiagMgr, Sequences

CONSTANTS
  WatchdogTicks,   \* kWatchdogPeriod
  IwdgTicks,       \* kWatchdogTimeoutMs
  LogCapacity,     \* Logger::kCapacity
  QueueLength,     \* kLogQueueLength
  MaxEvents        \* bound on the events of one run of the board

ASSUME TasksConfig ==
  /\ WatchdogTicks \in Nat \ {0}
  /\ IwdgTicks \in Nat \ {0}
  /\ LogCapacity \in Nat \ {0}
  /\ QueueLength \in Nat \ {0, 1}
  /\ MaxEvents \in Nat

Task == {"Control", "Sensor", "Logger", "Monitor"}

Priority ==
  [task \in Task |-> CASE task = "Logger"  -> 1
                       [] task = "Sensor"  -> 2
                       [] task = "Control" -> 3
                       [] task = "Monitor" -> 4]

VARIABLES
  failing,   \* the subsystems that do not come up on this board
  diag,      \* g_diag
  hang,      \* the task that hangs, and how
  due,       \* tasks that have not run in this tick
  watch,     \* g_checkin, the watchdog task and the IWDG
  log,       \* the Logger, and how far the control task is in log()
  queue,     \* g_log_queue
  logged,    \* events logged since the start
  told,      \* events sent to the host since the start, in order
  wasted,    \* events the queue had no room for
  raced,     \* the monitor has entered the log while log() was under way
  restarted  \* nothing has run since the board came out of reset

vars == << failing, diag, hang, due, watch, log, queue, logged, told, wasted,
           raced, restarted >>

NoHang == [task |-> "None", kind |-> "None"]

Startup(bad) ==
  << [nr |-> 1, event |-> IF PostPassed(Posted(bad)) THEN "PostPassed" ELSE "PostFailed"],
     [nr |-> 2, event |-> "Startup"] >>

\* rtos_start(): run_post() and the two records it leaves in the queue.
Started(bad) ==
  [ diag |-> Posted(bad), hang |-> NoHang, due |-> Task,
    watch |-> [bits |-> {}, waiting |-> TRUE, since |-> 0, iwdg |-> 0, fed |-> 0],
    log |-> [slots |-> [i \in 0 .. LogCapacity - 1 |-> 0], head |-> 0, count |-> 0,
             dropped |-> 0, pc |-> "Idle", loaded |-> 0],
    queue |-> Startup(bad) ]

TasksInit ==
  \E bad \in SUBSET {"Clock", "Adc", "Uart"} :
    /\ failing = bad
    /\ diag = Started(bad).diag /\ hang = NoHang /\ due = Task
    /\ watch = Started(bad).watch /\ log = Started(bad).log
    /\ queue = Startup(bad) /\ logged = 2 /\ told = << >>
    /\ wasted = 0 /\ raced = FALSE /\ restarted = TRUE

-----------------------------------------------------------------------------
(* Scheduling *)

Alive(task) ==
  /\ hang.kind # "Halts"
  /\ task # hang.task
  /\ hang.kind = "Spins" => Priority[task] > Priority[hang.task]

Ready(task) ==
  \/ task \in due
  \/ task = "Control" /\ log.pc # "Idle"
  \/ task = "Logger" /\ queue # << >>

MayRun(task) ==
  /\ Alive(task)
  /\ \A other \in Task :
       Alive(other) /\ Priority[other] > Priority[task] => ~Ready(other)

-----------------------------------------------------------------------------
(* The watchdog task: fed counts the refreshes since something hung. *)

\* Fault: the bits stay set when the wait has been satisfied.
ExaminedKept(w, ok) ==
  IF w.waiting /\ w.bits = Task
  THEN [w EXCEPT !.waiting = FALSE, !.iwdg = IF ok THEN 0 ELSE @,
                 !.fed = IF ok /\ @ < 2 THEN @ + 1 ELSE @]
  ELSE w

\* xEventGroupWaitBits() with clear-on-exit, and what is decided on it.
Examined(w, ok) ==
  IF w.waiting /\ w.bits = Task
  THEN [w EXCEPT !.bits = {}, !.waiting = FALSE, !.iwdg = IF ok THEN 0 ELSE @,
                 !.fed = IF ok /\ @ < 2 THEN @ + 1 ELSE @]
  ELSE w

\* check_in()
CheckedIn(w, task, ok) == Examined([w EXCEPT !.bits = @ \cup {task}], ok)

\* A tick later. vTaskDelayUntil() and the time limit of the wait end at the
\* same multiples of the period, and the task then waits again.
Later(w) ==
  [w EXCEPT !.iwdg = @ + 1, !.since = (@ + 1) % WatchdogTicks,
            !.waiting = @ \/ w.since + 1 = WatchdogTicks]

-----------------------------------------------------------------------------
(* Logger: log() one memory access at a time, pop() as its caller sees it *)

SlotWritten(l, nr) == [l EXCEPT !.slots[l.head] = nr, !.pc = "Written"]

HeadAdvanced(l) == [l EXCEPT !.head = (@ + 1) % LogCapacity, !.pc = "Advanced"]

CountRead(l) ==
  IF l.count < LogCapacity
  THEN [l EXCEPT !.loaded = l.count, !.pc = "Counting"]
  ELSE [l EXCEPT !.dropped = @ + 1, !.pc = "Idle"]

CountWritten(l) == [l EXCEPT !.count = l.loaded + 1, !.loaded = 0, !.pc = "Idle"]

\* Fault: the oldest record is looked for one slot too far.
PoppedLate(l) ==
  [i \in 1 .. l.count |->
     [nr |-> l.slots[(l.head + LogCapacity - l.count + i) % LogCapacity],
      event |-> "Application"]]

\* What pop() returns until it returns false.
Popped(l) ==
  [i \in 1 .. l.count |->
     [nr |-> l.slots[(l.head + LogCapacity - l.count + i - 1) % LogCapacity],
      event |-> "Application"]]

-----------------------------------------------------------------------------
(* The tasks *)

\* What every task does at the end of its turn.
Turn(task) ==
  /\ due' = due \ {task}
  /\ watch' = CheckedIn(watch, task, Healthy(diag'))
  /\ restarted' = FALSE
  /\ UNCHANGED << failing, hang >>

ControlChecksIn ==
  /\ MayRun("Control") /\ "Control" \in due /\ log.pc = "Idle"
  /\ UNCHANGED << diag, log, queue, logged, told, wasted, raced >>
  /\ Turn("Control")

\* Bounds: MaxEvents, and no event of the application after a hang.
ControlLogs ==
  /\ MayRun("Control") /\ log.pc = "Idle" /\ logged < MaxEvents /\ hang = NoHang
  /\ logged' = logged + 1
  /\ log' = SlotWritten(log, logged + 1)
  /\ UNCHANGED << failing, diag, hang, due, watch, queue, told, wasted, raced, restarted >>

ControlGoesOn ==
  /\ MayRun("Control")
  /\ \/ log.pc = "Written"  /\ log' = HeadAdvanced(log)
     \/ log.pc = "Advanced" /\ log' = CountRead(log)
     \/ log.pc = "Counting" /\ log' = CountWritten(log)
  /\ UNCHANGED << failing, diag, hang, due, watch, queue, logged, told, wasted,
                  raced, restarted >>

Sensor ==
  /\ MayRun("Sensor") /\ "Sensor" \in due
  /\ UNCHANGED << diag, log, queue, logged, told, wasted, raced >>
  /\ Turn("Sensor")

Logger ==
  /\ MayRun("Logger")
  /\ \/ queue # << >> /\ told' = Append(told, Head(queue).nr) /\ queue' = Tail(queue)
     \/ queue = << >> /\ "Logger" \in due /\ UNCHANGED << told, queue >>
  /\ UNCHANGED << diag, log, logged, wasted, raced >>
  /\ Turn("Logger")

\* Fault: a driver that did not come up is only degraded.
SurveyedMildly(bad) ==
  [sys \in {"Uart", "Adc", "Clock"} |-> IF sys \in bad THEN "Degraded" ELSE "Ok"]

\* The health picture.
Surveyed(bad) ==
  [sys \in {"Uart", "Adc", "Clock"} |->
     CASE sys \notin bad -> "Ok"
       [] sys \in bad /\ sys = "Clock" -> "Degraded"
       [] sys \in bad /\ sys # "Clock" -> "Failed"]

\* queue_log() drops what the queue has no room for.
Monitor ==
  /\ MayRun("Monitor") /\ "Monitor" \in due
  /\ diag' = SetHealth(diag, Surveyed(failing))
  /\ LET all  == queue \o Popped(log)
         lost == IF Len(all) > QueueLength THEN Len(all) - QueueLength ELSE 0
     IN  queue' = SubSeq(all, 1, Len(all) - lost) /\ wasted' = wasted + lost
  /\ log' = [log EXCEPT !.count = 0]
  /\ raced' = (raced \/ log.pc # "Idle")
  /\ Turn("Monitor")
  /\ UNCHANGED << logged, told >>

-----------------------------------------------------------------------------
(* Time, hangs and resets *)

\* Everything that can run in this tick has run. The control task may be
\* caught in the middle of log().
TickOver ==
  \A task \in Task :
    Alive(task) => task \notin due /\ (task = "Logger" => queue = << >>)

Tick ==
  /\ TickOver /\ watch.iwdg + 1 < IwdgTicks
  /\ due' = Task
  /\ watch' = IF hang.kind = "Halts" THEN [watch EXCEPT !.iwdg = @ + 1]
              ELSE Examined(Later(watch), Healthy(diag))
  /\ restarted' = FALSE
  /\ UNCHANGED << failing, diag, hang, log, queue, logged, told, wasted, raced >>

Hang ==
  \E task \in Task, kind \in {"Blocks", "Spins", "Halts"} :
    /\ hang = NoHang /\ MayRun(task) /\ Ready(task) /\ log.pc = "Idle"
    /\ hang' = [task |-> task, kind |-> kind]
    /\ watch' = [watch EXCEPT !.fed = 0]
    /\ restarted' = FALSE
    /\ UNCHANGED << failing, diag, due, log, queue, logged, told, wasted, raced >>

\* The IWDG runs out.
Reset ==
  /\ TickOver /\ watch.iwdg + 1 = IwdgTicks
  /\ LET new == Started(failing)
     IN  /\ diag' = new.diag /\ hang' = new.hang /\ due' = new.due
         /\ watch' = new.watch /\ log' = new.log /\ queue' = new.queue
  /\ logged' = 2 /\ told' = << >> /\ wasted' = 0 /\ raced' = FALSE
  /\ restarted' = TRUE
  /\ UNCHANGED failing

TasksNext ==
  \/ ControlChecksIn \/ ControlLogs \/ ControlGoesOn
  \/ Sensor \/ Logger \/ Monitor
  \/ Tick \/ Hang \/ Reset

\* The scheduler runs what may run, and the clock goes on.
TasksFairness ==
  /\ WF_vars(ControlChecksIn) /\ WF_vars(ControlGoesOn) /\ WF_vars(Sensor)
  /\ WF_vars(Logger) /\ WF_vars(Monitor)
  /\ WF_vars(Tick) /\ WF_vars(Reset)

TasksSpec == TasksInit /\ [][TasksNext]_vars /\ TasksFairness

-----------------------------------------------------------------------------
(* Properties *)

Broken == failing \cap {"Adc", "Uart"} # {}

\* A check-in made before a task hung can vouch for it once, and then no
\* more: from the hang on the IWDG is refreshed at most once, however the
\* rounds and the old bits fall.
HangFedOnce == hang # NoHang => watch.fed <= 1

\* A board on which a task hangs, or whose converter or UART did not come
\* up, is reset, whichever task it is and whether it blocks, spins or halts
\* the kernel.
HungBoardResets == (hang # NoHang \/ Broken) ~> restarted

\* A board whose tasks run and whose drivers came up is never reset, not
\* even when its log is quiet or its clock is off.
NoSpuriousReset == hang = NoHang /\ ~Broken => watch.iwdg < 2 * WatchdogTicks

Ascending(events) ==
  \A i, j \in DOMAIN events : i < j => events[i] < events[j]

\* Where every event is that has not been told or dropped on the way.
Waiting == [i \in DOMAIN queue |-> queue[i].nr]
Kept == [i \in DOMAIN Popped(log) |-> Popped(log)[i].nr]

\* Unless the monitor has caught the control task in the middle of log(),
\* the host is told of events in the order in which they happened and of
\* none twice; the log holds the newest events, and dropped counts all that
\* it has lost.
EventsInOrder ==
  ~raced /\ log.pc = "Idle" =>
     /\ Ascending(told \o Waiting \o Kept)
     /\ Kept = [i \in 1 .. log.count |-> logged - log.count + i]
     /\ logged = Len(told) + Len(queue) + wasted + log.count + log.dropped

\* The only datum that crosses from one task to another is the battery
\* reading: no task finds the log in the middle of another's change.
LogHasOneOwner == ~raced
=============================================================================
