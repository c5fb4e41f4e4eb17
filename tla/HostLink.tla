------------------------------ MODULE HostLink ------------------------------
(***************************************************************************)
(* The desktop tool at the other end of the link: its client               *)
(* (Services/BcmClient.cs) as the view model uses it                       *)
(* (ViewModels/MainViewModel.cs), against a device that answers at once    *)
(* and keeps its link timer.                                               *)
(*                                                                         *)
(* Every request runs on the thread of the user interface, since no await  *)
(* before its answer ever has to wait: the thread is in RequestAsync until *)
(* the answer is there or the time is over. The reader is a thread of its  *)
(* own, which waits for the user interface to show an event before it goes *)
(* on.                                                                     *)
(*                                                                         *)
(* All of this is fast compared with a tick, the period of the poll, so a  *)
(* tick passes only when nothing else can happen. The age of an answer     *)
(* counts the requests made since the one it answers.                      *)
(***************************************************************************)
EXTENDS CommMgr, Sequences

CONSTANTS
  TickMs,         \* the interval of the poll timer
  RequestTicks,   \* timeoutMs of RequestAsync, and of the Wait in Disconnect
  MaxEvents, MaxLosses, MaxClicks, MaxAge   \* bounds

ASSUME HostConfig ==
  /\ TickMs \in Nat \ {0} /\ RequestTicks \in Nat \ {0}
  /\ MaxEvents \in Nat /\ MaxLosses \in Nat /\ MaxClicks \in Nat
  /\ MaxAge \in Nat \ {0}

VARIABLES
  ui,          \* what the thread of the user interface is doing
  connected,   \* IsConnected
  pollTimer,   \* "Off", "Running", or "Due" when it has ticked
  readers,     \* the reader, and the one a Disconnect has left behind
  responses,   \* _responses
  toHost,      \* frames on their way to the host
  link,        \* the device's CommMgr
  events, losses, clicks,   \* how much of the bounds is used up
  silent,      \* history: ticks since the device heard a frame
  answered     \* history: age of the last answer, then and now, and of the
               \* one before

vars == << ui, connected, pollTimer, readers, responses, toHost, link,
           events, losses, clicks, silent, answered >>

Reader == {"current", "old"}

Free == [state |-> "Free", cmd |-> "Ping", todo |-> << >>, left |-> 0]
Asking(todo) == [Free EXCEPT !.state = "Asking", !.todo = todo]

Gone    == [state |-> "Gone", buffer |-> << >>]
Reading == [state |-> "Reading", buffer |-> << >>]

Aged(age) == IF age < MaxAge THEN age + 1 ELSE age
Older(frames) ==
  [i \in DOMAIN frames |-> [frames[i] EXCEPT !.age = Aged(@)]]

HostInit ==
  /\ ui = Free /\ connected = FALSE /\ pollTimer = "Off"
  /\ readers = [r \in Reader |-> Gone]
  /\ responses = << >> /\ toHost = << >>
  /\ link = FreshLink /\ silent = 0
  /\ events = 0 /\ losses = 0 /\ clicks = 0
  /\ answered = [age |-> 0, last |-> MaxAge, before |-> MaxAge]

-----------------------------------------------------------------------------
(* The reader thread *)

Cancelled(r) == r = "old" \/ ui.state = "Closing"

\* One Read() may return several frames.
Read ==
  /\ readers["current"] = Reading /\ toHost # << >>
  /\ \E n \in 1 .. Len(toHost) :
       /\ readers' = [readers EXCEPT !["current"].buffer = SubSeq(toHost, 1, n)]
       /\ toHost' = SubSeq(toHost, n + 1, Len(toHost))
  /\ UNCHANGED << ui, connected, pollTimer, responses, link, events, losses, clicks,
                  silent, answered >>

\* An event is handed to the user interface, anything else to the requests.
Feed(r) ==
  /\ readers[r].state = "Reading" /\ readers[r].buffer # << >>
  /\ LET frame == Head(readers[r].buffer)
         event == frame.cmd = "LogEvent"
     IN  /\ readers' = [readers EXCEPT ![r].buffer = Tail(@),
                                       ![r].state = IF event THEN "Telling" ELSE @]
         /\ responses' = IF event THEN responses ELSE Append(responses, frame)
  /\ UNCHANGED << ui, connected, pollTimer, toHost, link, events, losses, clicks,
                  silent, answered >>

Quit(r) ==
  /\ readers[r] = Reading /\ Cancelled(r)
  /\ readers' = [readers EXCEPT ![r] = Gone]
  /\ UNCHANGED << ui, connected, pollTimer, responses, toHost, link, events, losses,
                  clicks, silent, answered >>

Telling == {r \in Reader : readers[r].state = "Telling"}

\* Dispatcher.Invoke() comes before timers and input.
Show ==
  /\ ui.state = "Free"
  /\ \E r \in Telling : readers' = [readers EXCEPT ![r].state = "Reading"]
  /\ UNCHANGED << ui, connected, pollTimer, responses, toHost, link, events, losses,
                  clicks, silent, answered >>

-----------------------------------------------------------------------------
(* RequestAsync *)

PayloadLength(cmd) == IF cmd = "SetLamp" THEN 2 ELSE 0

Request(cmd) == [cmd |-> cmd, response |-> FALSE, len |-> PayloadLength(cmd)]

\* The request is written; it or its answer may be lost on the line.
Write ==
  /\ ui.state = "Asking" /\ Head(ui.todo) \in Cmd
  /\ ui' = [state |-> "Waiting", cmd |-> Head(ui.todo), todo |-> Tail(ui.todo),
            left |-> RequestTicks]
  /\ responses' = Older(responses)
  /\ readers' = [r \in Reader |-> [readers[r] EXCEPT !.buffer = Older(@)]]
  /\ answered' = [answered EXCEPT !.last = Aged(@), !.before = Aged(@)]
  /\ \E request, answer \in BOOLEAN :
       LET replies == answer /\ Verdict(Request(ui'.cmd)) # "Silent"
       IN  /\ answer => request
           /\ losses' = IF answer THEN losses ELSE losses + 1
           /\ losses' <= MaxLosses
           /\ link' = IF request THEN Polled(link, TRUE, 0) ELSE link
           /\ silent' = IF request THEN 0 ELSE silent
           /\ toHost' = IF replies THEN Append(Older(toHost), [cmd |-> ui'.cmd, age |-> 0])
                        ELSE Older(toHost)
  /\ UNCHANGED << connected, pollTimer, events, clicks >>

After(todo) == IF todo = << >> THEN Free ELSE Asking(todo)

\* Fault: the newest response is taken first.
TakeNewest ==
  /\ ui.state = "Waiting" /\ ui.left > 0 /\ responses # << >>
  /\ LET frame == responses[Len(responses)]
     IN  IF frame.cmd = ui.cmd
         THEN /\ ui' = After(ui.todo)
              /\ answered' = [age |-> frame.age, last |-> frame.age,
                              before |-> answered.last]
         ELSE UNCHANGED << ui, answered >>
  /\ responses' = SubSeq(responses, 1, Len(responses) - 1)
  /\ UNCHANGED << connected, pollTimer, readers, toHost, link, events, losses, clicks,
                  silent >>

\* The oldest response ends the request if it is one to that command, and is
\* dropped otherwise.
Take ==
  /\ ui.state = "Waiting" /\ ui.left > 0 /\ responses # << >>
  /\ LET frame == Head(responses)
     IN  IF frame.cmd = ui.cmd
         THEN /\ ui' = After(ui.todo)
              /\ answered' = [age |-> frame.age, last |-> frame.age,
                              before |-> answered.last]
         ELSE UNCHANGED << ui, answered >>
  /\ responses' = Tail(responses)
  /\ UNCHANGED << connected, pollTimer, readers, toHost, link, events, losses, clicks,
                  silent >>

\* A poll that got no status does not ask for the battery.
TimeOut ==
  /\ ui.state = "Waiting" /\ ui.left = 0
  /\ ui' = After(IF ui.cmd = "GetStatus" THEN << >> ELSE ui.todo)
  /\ UNCHANGED << connected, pollTimer, readers, responses, toHost, link, events,
                  losses, clicks, silent, answered >>

-----------------------------------------------------------------------------
(* The view model *)

\* Fault: the wait for the reader has no limit.
WaitIsOverWhenGone == readers["current"] = Gone

\* The wait in Disconnect() ends with the reader, or after its limit.
WaitIsOver == readers["current"] = Gone \/ ui.left = 0

\* Nothing is under way but a wait.
Quiet ==
  /\ readers["current"] = Reading => toHost = << >> /\ ~Cancelled("current")
  /\ \A r \in Reader : readers[r].state = "Reading" => readers[r].buffer = << >>
  /\ readers["old"] # Reading
  /\ ui.state = "Free" => Telling = {} /\ pollTimer # "Due"
  /\ ui.state # "Asking"
  /\ ui.state = "Waiting" => ui.left > 0 /\ responses = << >>
  /\ ui.state = "Closing" => ~WaitIsOver

Idle == ui = Free /\ Telling = {}

\* The user's hand is slower than the threads.
UserMay == Quiet /\ Idle /\ clicks < MaxClicks

Poll ==
  /\ Idle /\ pollTimer = "Due"
  /\ pollTimer' = "Running"
  /\ ui' = Asking(<< "GetStatus", "GetBattery" >>)
  /\ UNCHANGED << connected, readers, responses, toHost, link, events, losses,
                  clicks, silent, answered >>

Click(todo) ==
  /\ UserMay /\ connected
  /\ clicks' = clicks + 1
  /\ ui' = Asking(todo)
  /\ UNCHANGED << connected, pollTimer, readers, responses, toHost, link, events,
                  losses, silent, answered >>

\* Connect() calls Disconnect() first, which drains what a reader left behind
\* has put into the queue meanwhile.
Connect ==
  /\ Quiet /\ Idle /\ ~connected
  /\ connected' = TRUE
  /\ ui' = Asking(<< "GetVersion", "GetDtc", "StartPolling" >>)
  /\ readers' = [readers EXCEPT !["current"] = Reading]
  /\ responses' = << >>
  /\ UNCHANGED << pollTimer, toHost, link, events, losses, clicks, silent, answered >>

\* Fault: nobody starts the poll timer.
StartPollingForgotten ==
  /\ ui = Asking(<< "StartPolling" >>)
  /\ ui' = Free
  /\ UNCHANGED << pollTimer, connected, readers, responses, toHost, link, events,
                  losses, clicks, silent, answered >>

\* The end of the connecting, answered or not.
StartPolling ==
  /\ ui = Asking(<< "StartPolling" >>)
  /\ ui' = Free /\ pollTimer' = "Running"
  /\ UNCHANGED << connected, readers, responses, toHost, link, events, losses,
                  clicks, silent, answered >>

\* Disconnect() cancels the reader and waits for it,
Disconnect ==
  /\ UserMay /\ connected
  /\ clicks' = clicks + 1
  /\ pollTimer' = "Off"
  /\ ui' = [Free EXCEPT !.state = "Closing", !.left = RequestTicks]
  /\ UNCHANGED << connected, readers, responses, toHost, link, events,
                  losses, silent, answered >>

\* and then closes the port under it.
Closed ==
  /\ ui.state = "Closing" /\ WaitIsOver
  /\ ui' = Free /\ connected' = FALSE
  /\ readers' = [current |-> Gone,
                 old |-> IF readers["current"] = Gone THEN readers["old"]
                         ELSE readers["current"]]
  /\ responses' = << >> /\ toHost' = << >>
  /\ UNCHANGED << pollTimer, link, events, losses, clicks, silent, answered >>

-----------------------------------------------------------------------------
(* The device and the time *)

Tell ==
  /\ connected /\ events < MaxEvents
  /\ events' = events + 1
  /\ toHost' = Append(toHost, [cmd |-> "LogEvent", age |-> 0])
  /\ UNCHANGED << ui, connected, pollTimer, readers, responses, link, losses, clicks,
                  silent, answered >>

Prompt ==
  \/ Read \/ Show \/ Write \/ Take \/ TimeOut \/ Poll \/ StartPolling \/ Closed
  \/ \E r \in Reader : Feed(r) \/ Quit(r)

Tick ==
  /\ Quiet
  /\ ui' = [ui EXCEPT !.left = IF @ > 0 THEN @ - 1 ELSE 0]
  /\ pollTimer' = IF pollTimer = "Off" THEN "Off" ELSE "Due"
  /\ link' = Polled(link, FALSE, TickMs)
  /\ silent' = IF silent * TickMs < LinkTimeoutMs THEN silent + 1 ELSE silent
  /\ UNCHANGED << connected, readers, responses, toHost, events, losses, clicks,
                  answered >>

HostNext ==
  \/ Prompt \/ Tell \/ Connect \/ Disconnect \/ Tick
  \/ Click(<< "SetLamp" >>) \/ Click(<< "DoorLock", "GetDtc" >>)

\* Threads run and time passes; what the user does is up to the user.
HostSpec == HostInit /\ [][HostNext]_vars /\ WF_vars(Prompt) /\ WF_vars(Tick)

-----------------------------------------------------------------------------
(* Properties *)

\* The device declares the link lost when, and only when, it has heard no
\* frame for the whole time limit, through polls with and without a frame.
LinkLossTimely == link.lost <=> silent * TickMs >= LinkTimeoutMs

\* A connected host keeps the link alive on a line that loses nothing: even
\* when events hold up its answers until its requests time out, it asks again
\* before the device gives it up.
HostKeepsLink ==
  connected /\ losses = 0 /\ ui.state \in {"Free", "Waiting"} => ~link.lost

\* What is shown never goes back in time: an answer, be it late, is to a more
\* recent request than the answer taken before it, and none is taken twice.
AnswersNeverGoBack ==
  answered.last < answered.before \/ answered.before = MaxAge

\* The user interface always comes back to its user, and every event is
\* shown: the reader that waits for the interface and the interface that waits
\* for the reader do not keep each other for ever.
InterfaceReturns ==
  /\ ui.state # "Free" ~> ui.state = "Free"
  /\ \A r \in Reader : readers[r].state = "Telling" ~> readers[r].state # "Telling"

\* A late response is never taken for the answer to a later request.
NoStaleAnswer == answered.age = 0
=============================================================================
