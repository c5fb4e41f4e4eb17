---------------------------- MODULE HostLinkProofs --------------------------
(***************************************************************************)
(* The two ends of the link, for every time limit, every interval of the   *)
(* poll timer and every number of losses, events and clicks: the device    *)
(* loses the link exactly on time, a host that polls often enough keeps    *)
(* it, and the answers never go back in time.                              *)
(***************************************************************************)
EXTENDS HostLink, TLAPS

-----------------------------------------------------------------------------
(* The link timer *)

\* As long as the link is up, the timer and the silence add up to the limit.
LinkInv ==
  /\ silent \in Nat
  /\ link \in [timer : Nat, lost : BOOLEAN]
  /\ link.lost => silent * TickMs >= LinkTimeoutMs
  /\ ~link.lost => /\ link.timer > 0
                   /\ silent * TickMs + link.timer = LinkTimeoutMs

LEMMA LinkNumbers == /\ LinkTimeoutMs \in Nat \ {0}
                     /\ TickMs \in Nat \ {0}
                     /\ \A n \in Nat : /\ n * TickMs \in Nat
                                       /\ (n + 1) * TickMs = n * TickMs + TickMs
                     /\ 0 * TickMs = 0
BY CommConfig, HostConfig

\* A frame puts the link back to where it started.
LEMMA HeardLink ==
  ASSUME NEW l \in [timer : Nat, lost : BOOLEAN]
  PROVE  Polled(l, TRUE, 0) = [timer |-> LinkTimeoutMs, lost |-> FALSE]
<1>1. /\ Expires(LinkTimeoutMs, 0) = FALSE
      /\ Elapse(LinkTimeoutMs, 0) = LinkTimeoutMs
  BY LinkNumbers DEF Elapse, Expires
<1>2. Polled(l, TRUE, 0) = [timer |-> Elapse(LinkTimeoutMs, 0),
                            lost |-> Expires(LinkTimeoutMs, 0)]
  BY Zenon DEF Polled
<1> QED
  BY <1>1, <1>2, Zenon

\* A tick without one.
LEMMA TickLink ==
  ASSUME LinkInv, Tick
  PROVE  LinkInv'
<1>1. /\ link' = Polled(link, FALSE, TickMs)
      /\ silent' = IF silent * TickMs < LinkTimeoutMs THEN silent + 1 ELSE silent
  BY DEF Tick
<1> DEFINE elapsed == silent * TickMs
<1>2. elapsed \in Nat /\ (silent + 1) * TickMs = elapsed + TickMs
  BY LinkNumbers DEF LinkInv
<1>3. CASE link.lost
  <2>1. link' = [timer |-> link.timer, lost |-> TRUE]
    BY <1>1, <1>3 DEF Polled
  <2>2. silent' = silent
    BY <1>1, <1>2, <1>3, LinkNumbers DEF LinkInv
  <2> QED
    BY <1>3, <2>1, <2>2 DEF LinkInv
<1>4. CASE ~link.lost
  <2>1. link' = [timer |-> Elapse(link.timer, TickMs),
                 lost |-> Expires(link.timer, TickMs)]
    BY <1>1, <1>4 DEF Polled
  <2>2. /\ link.timer \in Nat /\ link.timer > 0
        /\ elapsed + link.timer = LinkTimeoutMs
    BY <1>4 DEF LinkInv
  <2> HIDE DEF elapsed
  <2>3. elapsed < LinkTimeoutMs
    BY <1>2, <2>2, LinkNumbers
  <2>4. silent' = silent + 1 /\ silent' * TickMs = elapsed + TickMs
    BY <1>1, <1>2, <2>3 DEF elapsed
  <2>5. CASE TickMs >= link.timer
    <3>1. Expires(link.timer, TickMs) = TRUE /\ Elapse(link.timer, TickMs) = 0
      BY <2>2, <2>5, LinkNumbers DEF Elapse, Expires
    <3>2. link' = [timer |-> 0, lost |-> TRUE]
      BY <2>1, <3>1, Zenon
    <3>3. silent' * TickMs >= LinkTimeoutMs
      BY <1>2, <2>2, <2>4, <2>5, LinkNumbers
    <3> QED
      BY <2>4, <3>2, <3>3 DEF LinkInv
  <2>6. CASE ~(TickMs >= link.timer)
    <3>1. /\ Expires(link.timer, TickMs) = FALSE
          /\ Elapse(link.timer, TickMs) = link.timer - TickMs
      BY <2>2, <2>6, LinkNumbers DEF Elapse, Expires
    <3>2. link' = [timer |-> link.timer - TickMs, lost |-> FALSE]
      BY <2>1, <3>1, Zenon
    <3>3. link.timer - TickMs \in Nat /\ link.timer - TickMs > 0
      BY <2>2, <2>6, LinkNumbers
    <3>4. silent' * TickMs + (link.timer - TickMs) = LinkTimeoutMs
      BY <1>2, <2>2, <2>4, LinkNumbers
    <3> QED
      BY <2>4, <3>2, <3>3, <3>4 DEF LinkInv
  <2> QED
    BY <2>5, <2>6
<1> QED
  BY <1>3, <1>4 DEF LinkInv

\* Only a request and a tick touch the link.
LEMMA OthersKeepLink ==
  ASSUME HostNext, ~Write, ~Tick
  PROVE  UNCHANGED << link, silent >>
BY DEF HostNext, Prompt, Read, Show, Take, TimeOut, Poll, StartPolling, Closed,
       Feed, Quit, Tell, Connect, Disconnect, Click

LEMMA LinkStep == LinkInv /\ [HostNext]_vars => LinkInv'
<1> SUFFICES ASSUME LinkInv, [HostNext]_vars PROVE LinkInv'
  OBVIOUS
<1>1. CASE Write
  <2>1. PICK request \in BOOLEAN :
          /\ link' = IF request THEN Polled(link, TRUE, 0) ELSE link
          /\ silent' = IF request THEN 0 ELSE silent
    BY <1>1 DEF Write
  <2>2. CASE request
    <3>1. link' = [timer |-> LinkTimeoutMs, lost |-> FALSE] /\ silent' = 0
      BY <2>1, <2>2, HeardLink DEF LinkInv
    <3> QED
      BY <3>1, LinkNumbers DEF LinkInv
  <2>3. CASE ~request
    BY <2>1, <2>3 DEF LinkInv
  <2> QED
    BY <2>2, <2>3
<1>2. CASE Tick
  BY <1>2, TickLink
<1>3. CASE UNCHANGED << link, silent >>
  BY <1>3 DEF LinkInv
<1> QED
  BY <1>1, <1>2, <1>3, OthersKeepLink DEF vars

LEMMA LinkAlways == HostSpec => []LinkInv
<1>1. HostInit => LinkInv
  BY LinkNumbers DEF HostInit, LinkInv, FreshLink
<1> QED
  BY <1>1, LinkStep, PTL DEF HostSpec

\* LinkLossTimely of HostLink, for every time limit and every interval: the
\* device declares the link lost when it has been silent for the limit, not
\* a tick earlier and not a tick later.
THEOREM LinkLossAlwaysTimely == HostSpec => []LinkLossTimely
<1>1. LinkInv => LinkLossTimely
  <2> SUFFICES ASSUME LinkInv PROVE LinkLossTimely
    OBVIOUS
  <2>1. silent * TickMs \in Nat
    BY LinkNumbers DEF LinkInv
  <2>2. link.lost \in BOOLEAN /\ link.timer \in Nat
    BY DEF LinkInv
  <2>3. ~link.lost => ~(silent * TickMs >= LinkTimeoutMs)
    BY <2>1, <2>2, LinkNumbers DEF LinkInv
  <2> QED
    BY <2>2, <2>3 DEF LinkInv, LinkLossTimely
<1> QED
  BY <1>1, LinkAlways, PTL

-----------------------------------------------------------------------------
(* The thread of the user interface *)

\* What a list of things to do is made of.
Step == Cmd \cup {"StartPolling"}

Ui == [state : {"Free", "Asking", "Waiting", "Closing"}, cmd : Cmd,
       todo : Seq(Step), left : Nat]

UiTyped ==
  /\ ui \in Ui
  /\ ui.state = "Asking" => ui.todo # << >>
  /\ connected \in BOOLEAN
  /\ pollTimer \in {"Off", "Running", "Due"}
  /\ losses \in Nat

\* The lists the program has.
LEMMA Lists ==
  /\ << "GetStatus", "GetBattery" >> \in Seq(Step)
  /\ << "SetLamp" >> \in Seq(Step) /\ << "DoorLock", "GetDtc" >> \in Seq(Step)
  /\ << "GetVersion", "GetDtc", "StartPolling" >> \in Seq(Step)
  /\ << "GetDtc", "StartPolling" >> \in Seq(Step)
  /\ << "StartPolling" >> \in Seq(Step) /\ << >> \in Seq(Step)
BY DEF Step, Cmd

\* Those a user or a timer starts.
Started == { << "GetStatus", "GetBattery" >>, << "SetLamp" >>,
             << "DoorLock", "GetDtc" >>,
             << "GetVersion", "GetDtc", "StartPolling" >> }

LEMMA StartedSteps == \A todo \in Started : todo \in Seq(Step) /\ todo # << >>
<1>1. << "GetStatus", "GetBattery" >> # << >>
  OBVIOUS
<1>2. << "SetLamp" >> # << >>
  OBVIOUS
<1>3. << "DoorLock", "GetDtc" >> # << >>
  OBVIOUS
<1>4. << "GetVersion", "GetDtc", "StartPolling" >> # << >>
  OBVIOUS
<1> QED
  BY <1>1, <1>2, <1>3, <1>4, Lists, Zenon DEF Started

\* What the user interface turns to: something to ask, or nothing.
LEMMA NextThing ==
  ASSUME NEW todo \in Seq(Step)
  PROVE  /\ Free \in Ui /\ Free.state = "Free" /\ Free.todo = << >>
         /\ Asking(todo) \in Ui
         /\ Asking(todo).state = "Asking" /\ Asking(todo).todo = todo
         /\ todo = << >> => After(todo) = Free
         /\ todo # << >> => After(todo) = Asking(todo)
<1>1. Free \in Ui /\ Free.state = "Free" /\ Free.todo = << >>
  BY Lists DEF Free, Ui, Cmd
<1>2. /\ Asking(todo) \in Ui
      /\ Asking(todo).state = "Asking" /\ Asking(todo).todo = todo
  BY <1>1 DEF Asking, Ui
<1> QED
  BY <1>1, <1>2, Zenon DEF After

\* Most steps leave the thread of the user interface and the link alone.
UiSame == UNCHANGED << ui, connected, pollTimer, losses, silent >>

LEMMA UiSteps ==
  ASSUME [HostNext]_vars
  PROVE  \/ UiSame
         \/ Write \/ Take \/ TimeOut \/ StartPolling \/ Disconnect \/ Closed \/ Tick
         \/ Poll \/ Connect
         \/ Click(<< "SetLamp" >>) \/ Click(<< "DoorLock", "GetDtc" >>)
BY DEF HostNext, Prompt, Read, Show, Feed, Quit, Tell, UiSame, vars

LEMMA UiTypedStep ==
  ASSUME UiTyped, [HostNext]_vars
  PROVE  UiTyped'
<1> USE DEF UiTyped
<1>1. CASE UiSame
  BY <1>1 DEF UiSame
<1>2. CASE Write
  <2>1. /\ ui' = [state |-> "Waiting", cmd |-> Head(ui.todo), todo |-> Tail(ui.todo),
                  left |-> RequestTicks]
        /\ Head(ui.todo) \in Cmd /\ ui.todo \in Seq(Step) /\ ui.todo # << >>
        /\ losses' = losses \/ losses' = losses + 1
        /\ UNCHANGED << connected, pollTimer >>
    BY <1>2 DEF Write, Ui
  <2>2. Tail(ui.todo) \in Seq(Step)
    BY <2>1
  <2> QED
    BY <2>1, <2>2, HostConfig DEF Ui
<1>3. CASE Take \/ TimeOut
  <2>1. /\ ui' = ui \/ ui' = After(<< >>) \/ ui' = After(ui.todo)
        /\ UNCHANGED << connected, pollTimer, losses >>
    BY <1>3 DEF Take, TimeOut
  <2>2. ui.todo \in Seq(Step)
    BY DEF Ui
  <2>3. CASE ui' = After(<< >>)
    BY <2>1, <2>3, NextThing, Lists
  <2>4. CASE ui' = After(ui.todo)
    BY <2>1, <2>2, <2>4, NextThing
  <2> QED
    BY <2>1, <2>3, <2>4
<1>4. CASE StartPolling \/ Disconnect \/ Closed
  <2>1. /\ ui' \in {Free, [Free EXCEPT !.state = "Closing", !.left = RequestTicks]}
        /\ connected' \in BOOLEAN /\ pollTimer' \in {"Off", "Running", "Due"}
        /\ losses' = losses
    BY <1>4 DEF StartPolling, Disconnect, Closed
  <2>2. Free \in Ui /\ Free.state = "Free"
    BY NextThing, Lists
  <2>3. ui' \in Ui /\ ui'.state # "Asking"
    BY <2>1, <2>2, HostConfig DEF Ui
  <2> QED
    BY <2>1, <2>3
<1>5. CASE Tick
  BY <1>5 DEF Tick, Ui
<1>6. CASE \/ Poll \/ Connect
           \/ Click(<< "SetLamp" >>) \/ Click(<< "DoorLock", "GetDtc" >>)
  <2>1. PICK todo \in Started : ui' = Asking(todo)
    BY <1>6 DEF Poll, Connect, Click, Started
  <2>2. todo \in Seq(Step) /\ todo # << >>
    BY <2>1, StartedSteps
  <2>3. connected' \in BOOLEAN /\ pollTimer' \in {"Off", "Running", "Due"}
        /\ losses' \in Nat
    BY <1>6 DEF Poll, Connect, Click
  <2> QED
    BY <2>1, <2>2, <2>3, NextThing
<1> QED
  BY <1>1, <1>2, <1>3, <1>4, <1>5, <1>6, UiSteps

LEMMA UiTypedAlways == HostSpec => []UiTyped
<1>1. Free \in Ui /\ Free.state = "Free"
  BY Lists, NextThing
<1>2. HostInit => UiTyped
  <2> SUFFICES ASSUME HostInit PROVE UiTyped
    OBVIOUS
  <2>1. ui = Free /\ connected = FALSE /\ pollTimer = "Off" /\ losses = 0
    BY DEF HostInit
  <2> QED
    BY <1>1, <2>1 DEF UiTyped
<1> QED
  BY <1>2, UiTypedStep, PTL DEF HostSpec

-----------------------------------------------------------------------------
(* A host that keeps the link *)

\* On a line that loses nothing, the silence of the link never outlasts a
\* request and the tick before the poll timer fires. What is left to do on the
\* way to the first poll ends with starting the timer.
KeepInv ==
  connected /\ losses = 0 =>
    /\ ui.state = "Waiting" => silent + ui.left <= RequestTicks
    /\ ui.state = "Free" =>
         \/ pollTimer = "Running" /\ silent <= RequestTicks
         \/ pollTimer = "Due" /\ silent <= RequestTicks + 1
    /\ ui.state = "Asking" /\ ui.todo = << "StartPolling" >> => silent <= RequestTicks
    /\ ui.state = "Asking" /\ pollTimer = "Off" =>
         ui.todo \in { << "GetVersion", "GetDtc", "StartPolling" >>,
                       << "GetDtc", "StartPolling" >>, << "StartPolling" >> }
    /\ ui.state = "Waiting" /\ pollTimer = "Off" =>
         /\ ui.todo \in { << "GetDtc", "StartPolling" >>, << "StartPolling" >> }
         /\ ui.cmd # "GetStatus"

\* The way to the first poll.
LEMMA ConnectingList ==
  /\ Head(<< "GetVersion", "GetDtc", "StartPolling" >>) = "GetVersion"
  /\ Tail(<< "GetVersion", "GetDtc", "StartPolling" >>) = << "GetDtc", "StartPolling" >>
  /\ Head(<< "GetDtc", "StartPolling" >>) = "GetDtc"
  /\ Tail(<< "GetDtc", "StartPolling" >>) = << "StartPolling" >>
  /\ Head(<< "StartPolling" >>) = "StartPolling"
  /\ "StartPolling" \notin Cmd
  /\ << "GetDtc", "StartPolling" >> # << >> /\ << "StartPolling" >> # << >>
BY DEF Cmd

LEMMA OtherLists ==
  /\ << "GetStatus", "GetBattery" >> # << "StartPolling" >>
  /\ << "SetLamp" >> # << "StartPolling" >>
  /\ << "DoorLock", "GetDtc" >> # << "StartPolling" >>
  /\ << "GetVersion", "GetDtc", "StartPolling" >> # << "StartPolling" >>
<1>1. << "GetStatus", "GetBattery" >> # << "StartPolling" >>
  OBVIOUS
<1>2. << "SetLamp" >> # << "StartPolling" >>
  OBVIOUS
<1>3. << "DoorLock", "GetDtc" >> # << "StartPolling" >>
  OBVIOUS
<1>4. << "GetVersion", "GetDtc", "StartPolling" >> # << "StartPolling" >>
  OBVIOUS
<1> QED
  BY <1>1, <1>2, <1>3, <1>4

LEMMA KeepStep ==
  ASSUME UiTyped, silent \in Nat, KeepInv, [HostNext]_vars
  PROVE  KeepInv'
<1> SUFFICES ASSUME connected', losses' = 0 PROVE KeepInv'
  BY DEF KeepInv
<1>1. CASE UiSame
  BY <1>1 DEF KeepInv, UiSame
<1>2. CASE Write
  <2>1. /\ ui' = [state |-> "Waiting", cmd |-> Head(ui.todo), todo |-> Tail(ui.todo),
                  left |-> RequestTicks]
        /\ Head(ui.todo) \in Cmd /\ ui.state = "Asking"
        /\ connected /\ pollTimer' = pollTimer
    BY <1>2 DEF Write
  <2>2. losses = 0 /\ silent' = 0
    <3>1. PICK request, answer \in BOOLEAN :
            /\ answer => request
            /\ losses' = IF answer THEN losses ELSE losses + 1
            /\ silent' = IF request THEN 0 ELSE silent
      BY <1>2 DEF Write
    <3> QED
      BY <3>1 DEF UiTyped
  <2>3. silent' + ui'.left <= RequestTicks
    BY <2>1, <2>2, HostConfig
  <2>4. ASSUME pollTimer = "Off"
        PROVE  /\ ui'.todo \in { << "GetDtc", "StartPolling" >>, << "StartPolling" >> }
               /\ ui'.cmd # "GetStatus"
    <3>1. ui.todo \in { << "GetVersion", "GetDtc", "StartPolling" >>,
                        << "GetDtc", "StartPolling" >>, << "StartPolling" >> }
      BY <2>1, <2>2, <2>4 DEF KeepInv
    <3> QED
      BY <2>1, <3>1, ConnectingList
  <2> QED
    BY <2>1, <2>3, <2>4 DEF KeepInv
<1>3. CASE Take \/ TimeOut
  <2>1. /\ ui.state = "Waiting" /\ connected /\ losses = 0
        /\ pollTimer' = pollTimer
        /\ \/ ui' = ui \/ ui' = After(ui.todo)
           \/ ui.cmd = "GetStatus" /\ ui' = After(<< >>)
    BY <1>3 DEF Take, TimeOut
  <2>2. silent' = silent /\ silent <= RequestTicks
    <3>1. silent' = silent
      BY <1>3 DEF Take, TimeOut
    <3>2. silent + ui.left <= RequestTicks /\ ui.left \in Nat
      BY <2>1 DEF KeepInv, UiTyped, Ui
    <3> QED
      BY <3>1, <3>2, HostConfig
  <2>3. /\ ui.todo \in Seq(Step) /\ pollTimer \in {"Off", "Running", "Due"}
        /\ RequestTicks \in Nat
    BY HostConfig DEF UiTyped, Ui
  <2>4. CASE ui' = ui
    BY <2>1, <2>2, <2>4 DEF KeepInv
  <2>5. CASE ui' = Free
    <3>1. pollTimer # "Off"
      <4>1. CASE ui.cmd = "GetStatus"
        BY <2>1, <4>1 DEF KeepInv
      <4>2. CASE ui.cmd # "GetStatus"
        <5>1. ui.todo = << >>
          <6>1. Free # ui
            BY <2>1, <2>3, NextThing
          <6>2. Free # Asking(ui.todo)
            BY <2>3, NextThing
          <6> QED
            BY <2>1, <2>3, <2>5, <4>2, <6>1, <6>2, NextThing
        <5> QED
          BY <2>1, <5>1, ConnectingList DEF KeepInv
      <4> QED
        BY <4>1, <4>2
    <3>2. ui'.state = "Free"
      BY <2>3, <2>5, NextThing
    <3> QED
      BY <2>1, <2>2, <2>3, <3>1, <3>2 DEF KeepInv
  <2>6. CASE ui' = Asking(ui.todo) /\ ui.todo # << >>
    <3>1. ui'.state = "Asking" /\ ui'.todo = ui.todo
      BY <2>3, <2>6, NextThing
    <3> QED
      BY <2>1, <2>2, <3>1 DEF KeepInv
  <2> QED
    BY <2>1, <2>3, <2>4, <2>5, <2>6, NextThing, Lists
<1>4. CASE StartPolling
  <2>1. Asking(<< "StartPolling" >>).state = "Asking"
        /\ Asking(<< "StartPolling" >>).todo = << "StartPolling" >>
        /\ Free.state = "Free"
    BY Lists, NextThing
  <2>2. /\ ui = Asking(<< "StartPolling" >>) /\ ui' = Free
        /\ pollTimer' = "Running"
        /\ connected /\ losses = 0 /\ silent' = silent
    BY <1>4 DEF StartPolling
  <2> QED
    BY <2>1, <2>2 DEF KeepInv
<1>5. CASE Disconnect \/ Closed
  <2>1. Free.state = "Free" /\ Free \in Ui
    BY Lists, NextThing
  <2>2. ui'.state = "Closing"
    BY <1>5, <2>1 DEF Disconnect, Closed, Ui
  <2> QED
    BY <2>2 DEF KeepInv
<1>6. CASE Tick
  <2>1. /\ Quiet /\ connected /\ losses = 0
        /\ ui' = [ui EXCEPT !.left = IF @ > 0 THEN @ - 1 ELSE 0]
        /\ pollTimer' = IF pollTimer = "Off" THEN "Off" ELSE "Due"
        /\ silent' = silent \/ silent' = silent + 1
    BY <1>6 DEF Tick
  <2>2. /\ ui.state # "Asking"
        /\ ui.state = "Free" => pollTimer # "Due"
        /\ ui.state = "Waiting" => ui.left > 0
    BY <2>1 DEF Quiet
  <2>3. /\ ui'.state = ui.state /\ ui'.todo = ui.todo /\ ui'.cmd = ui.cmd
        /\ ui'.left = IF ui.left > 0 THEN ui.left - 1 ELSE 0
        /\ ui.left \in Nat
    BY <2>1 DEF UiTyped, Ui
  <2>4. CASE ui.state = "Free"
    <3>1. pollTimer = "Running" /\ silent <= RequestTicks
      BY <2>1, <2>2, <2>4 DEF KeepInv
    <3>2. pollTimer' = "Due" /\ silent' <= RequestTicks + 1
      BY <2>1, <3>1, HostConfig
    <3> QED
      BY <2>3, <2>4, <3>2 DEF KeepInv
  <2>5. CASE ui.state = "Waiting"
    <3>1. silent + ui.left <= RequestTicks
      BY <2>1, <2>5 DEF KeepInv
    <3>2. silent' + ui'.left <= RequestTicks
      BY <2>1, <2>2, <2>3, <2>5, <3>1, HostConfig
    <3> QED
      BY <2>1, <2>3, <2>5, <3>2 DEF KeepInv
  <2> QED
    BY <2>2, <2>3, <2>4, <2>5 DEF KeepInv, UiTyped, Ui
<1>7. CASE \/ Poll \/ Connect
           \/ Click(<< "SetLamp" >>) \/ Click(<< "DoorLock", "GetDtc" >>)
  <2>1. PICK todo \in Started : ui' = Asking(todo)
    BY <1>7 DEF Poll, Connect, Click, Started
  <2>2. /\ ui'.state = "Asking" /\ ui'.todo = todo
        /\ todo # << "StartPolling" >>
    BY <2>1, StartedSteps, NextThing, OtherLists DEF Started
  <2>3. ASSUME pollTimer' = "Off"
        PROVE  ui'.todo = << "GetVersion", "GetDtc", "StartPolling" >>
    <3>1. CASE Connect
      BY <3>1, Lists, NextThing DEF Connect
    <3>2. CASE Poll
      BY <2>3, <3>2 DEF Poll
    <3>3. CASE Click(<< "SetLamp" >>) \/ Click(<< "DoorLock", "GetDtc" >>)
      <4>1. ui = Free /\ connected /\ losses = 0 /\ pollTimer' = pollTimer
        BY <3>3 DEF Click, UserMay, Idle
      <4>2. ui.state = "Free"
        BY <4>1, Lists, NextThing
      <4> QED
        BY <2>3, <4>1, <4>2 DEF KeepInv
    <3> QED
      BY <1>7, <3>1, <3>2, <3>3
  <2> QED
    BY <2>2, <2>3 DEF KeepInv
<1> QED
  BY <1>1, <1>2, <1>3, <1>4, <1>5, <1>6, <1>7, UiSteps

\* HostKeepsLink of HostLink: if a request that times out and one tick more
\* are shorter than the time limit of the link, a connected host on a line
\* that loses nothing never lets the device give it up, however long events
\* hold up its answers and whatever the user clicks.
THEOREM HostAlwaysKeepsLink ==
  ASSUME (RequestTicks + 1) * TickMs < LinkTimeoutMs
  PROVE  HostSpec => []HostKeepsLink
<1>1. HostInit => KeepInv
  BY DEF HostInit, KeepInv
<1>2. LinkInv /\ UiTyped /\ KeepInv => HostKeepsLink
  <2> SUFFICES ASSUME LinkInv, UiTyped, KeepInv, connected, losses = 0,
                      ui.state \in {"Free", "Waiting"}
               PROVE  ~link.lost
    BY DEF HostKeepsLink
  <2>1. silent \in Nat /\ ui.left \in Nat /\ RequestTicks \in Nat
    BY HostConfig DEF LinkInv, UiTyped, Ui
  <2>2. silent <= RequestTicks + 1
    BY <2>1 DEF KeepInv
  <2>3. silent * TickMs <= (RequestTicks + 1) * TickMs
    BY <2>1, <2>2, HostConfig
  <2>4. silent * TickMs < LinkTimeoutMs
    BY <2>1, <2>3, LinkNumbers
  <2> QED
    BY <2>1, <2>4, LinkNumbers DEF LinkInv
<1>3. LinkInv => silent \in Nat
  BY DEF LinkInv
<1> QED
  BY <1>1, <1>2, <1>3, KeepStep, LinkAlways, UiTypedAlways, PTL DEF HostSpec

-----------------------------------------------------------------------------
(* The order of the answers *)

Answer == [cmd : Cmd, age : 0 .. MaxAge]

IsReply(frame) == frame.cmd # "LogEvent"

\* Age b is of a request made after the one of age a, as far as ages tell.
Later(a, b) == b < a \/ a = MaxAge

Ordered(s) ==
  \A i, j \in DOMAIN s :
    i < j /\ IsReply(s[i]) /\ IsReply(s[j]) => Later(s[i].age, s[j].age)

InOrder(s, t) ==
  \A i \in DOMAIN s, j \in DOMAIN t :
    IsReply(s[i]) /\ IsReply(t[j]) => Later(s[i].age, t[j].age)

Before(s, age) == \A i \in DOMAIN s : IsReply(s[i]) => Later(s[i].age, age)

Since(age, s) == \A j \in DOMAIN s : IsReply(s[j]) => Later(age, s[j].age)

\* A request makes everything older.
LEMMA AgedAge ==
  /\ MaxAge \in Nat \ {0}
  /\ \A a \in 0 .. MaxAge : Aged(a) \in 0 .. MaxAge /\ Later(Aged(a), 0)
  /\ \A a, b \in 0 .. MaxAge : Later(a, b) => Later(Aged(a), Aged(b))
BY HostConfig DEF Aged, Later

LEMMA OlderFrames ==
  ASSUME NEW s \in Seq(Answer)
  PROVE  /\ Older(s) \in Seq(Answer) /\ Len(Older(s)) = Len(s)
         /\ DOMAIN Older(s) = DOMAIN s
         /\ \A i \in DOMAIN s : /\ s[i].age \in 0 .. MaxAge
                                /\ Older(s)[i].age = Aged(s[i].age)
                                /\ IsReply(Older(s)[i]) <=> IsReply(s[i])
         /\ s = << >> => Older(s) = << >>
<1>1. \A i \in DOMAIN s : s[i] \in Answer
  OBVIOUS
<1>2. ASSUME NEW f \in Answer
      PROVE  /\ f.age \in 0 .. MaxAge
             /\ [f EXCEPT !.age = Aged(@)] \in Answer
             /\ [f EXCEPT !.age = Aged(@)].age = Aged(f.age)
             /\ [f EXCEPT !.age = Aged(@)].cmd = f.cmd
  BY AgedAge DEF Answer
<1>3. /\ DOMAIN Older(s) = 1 .. Len(s)
      /\ \A i \in DOMAIN s : Older(s)[i] = [s[i] EXCEPT !.age = Aged(@)]
      /\ Older(s) = [i \in 1 .. Len(s) |-> [s[i] EXCEPT !.age = Aged(@)]]
  BY DEF Older
<1>4. Older(s) \in Seq(Answer) /\ Len(Older(s)) = Len(s)
  BY <1>1, <1>2, <1>3
<1>5. ASSUME NEW i \in DOMAIN s
      PROVE  /\ s[i].age \in 0 .. MaxAge
             /\ Older(s)[i].age = Aged(s[i].age)
             /\ IsReply(Older(s)[i]) <=> IsReply(s[i])
  <2>1. s[i] \in Answer /\ Older(s)[i] = [s[i] EXCEPT !.age = Aged(@)]
    BY <1>1, <1>3
  <2>2. /\ s[i].age \in 0 .. MaxAge
        /\ [s[i] EXCEPT !.age = Aged(@)].age = Aged(s[i].age)
        /\ [s[i] EXCEPT !.age = Aged(@)].cmd = s[i].cmd
    BY <1>2, <2>1, Zenon
  <2> QED
    BY <2>1, <2>2, Zenon DEF IsReply
<1> QED
  <2>1. s = << >> => Older(s) = << >>
    BY <1>4
  <2>2. DOMAIN s = 1 .. Len(s)
    OBVIOUS
  <2> QED
    BY <1>3, <1>4, <1>5, <2>1, <2>2, Zenon

LEMMA OlderOrder ==
  ASSUME NEW s \in Seq(Answer), NEW t \in Seq(Answer), NEW age \in 0 .. MaxAge
  PROVE  /\ Ordered(s) => Ordered(Older(s))
         /\ InOrder(s, t) => InOrder(Older(s), Older(t))
         /\ Since(age, s) => Since(Aged(age), Older(s))
<1>0. ASSUME NEW q \in {s, t}
      PROVE  /\ DOMAIN Older(q) = DOMAIN q
             /\ \A i \in DOMAIN q : /\ q[i].age \in 0 .. MaxAge
                                    /\ Older(q)[i].age = Aged(q[i].age)
                                    /\ IsReply(Older(q)[i]) <=> IsReply(q[i])
  <2>1. q \in Seq(Answer)
    OBVIOUS
  <2> QED
    BY <2>1, OlderFrames
<1>1. ASSUME Ordered(s),
             NEW i \in DOMAIN Older(s), NEW j \in DOMAIN Older(s),
             i < j, IsReply(Older(s)[i]), IsReply(Older(s)[j])
      PROVE  Later(Older(s)[i].age, Older(s)[j].age)
  <2>1. i \in DOMAIN s /\ j \in DOMAIN s /\ IsReply(s[i]) /\ IsReply(s[j])
    BY <1>0, <1>1
  <2>2. Later(s[i].age, s[j].age)
    BY <1>1, <2>1, Zenon DEF Ordered
  <2> QED
    BY <1>0, <2>1, <2>2, AgedAge
<1>2. ASSUME InOrder(s, t),
             NEW i \in DOMAIN Older(s), NEW j \in DOMAIN Older(t),
             IsReply(Older(s)[i]), IsReply(Older(t)[j])
      PROVE  Later(Older(s)[i].age, Older(t)[j].age)
  <2>1. i \in DOMAIN s /\ j \in DOMAIN t /\ IsReply(s[i]) /\ IsReply(t[j])
    BY <1>0, <1>2
  <2>2. Later(s[i].age, t[j].age)
    BY <1>2, <2>1, Zenon DEF InOrder
  <2> QED
    BY <1>0, <2>1, <2>2, AgedAge
<1>3. Since(age, s) => Since(Aged(age), Older(s))
  BY <1>0, AgedAge, Zenon DEF Since
<1>4. Ordered(s) => Ordered(Older(s))
  BY <1>1, Zenon DEF Ordered
<1>5. InOrder(s, t) => InOrder(Older(s), Older(t))
  BY <1>2, Zenon DEF InOrder
<1> QED
  BY <1>3, <1>4, <1>5

\* A frame appended that is later than all before it, or no answer.
LEMMA AppendOrder ==
  ASSUME NEW s \in Seq(Answer), NEW f \in Answer,
         IsReply(f) => Before(s, f.age)
  PROVE  /\ Append(s, f) \in Seq(Answer)
         /\ Ordered(s) => Ordered(Append(s, f))
         /\ \A t : InOrder(t, s) /\ (IsReply(f) => Before(t, f.age))
                  => InOrder(t, Append(s, f))
         /\ \A t : InOrder(s, t) /\ (IsReply(f) => Since(f.age, t))
                  => InOrder(Append(s, f), t)
         /\ \A age : Since(age, s) /\ (IsReply(f) => Later(age, f.age))
                    => Since(age, Append(s, f))
<1>1. /\ Append(s, f) \in Seq(Answer)
      /\ DOMAIN Append(s, f) = 1 .. Len(s) + 1 /\ DOMAIN s = 1 .. Len(s)
      /\ \A i \in DOMAIN s : Append(s, f)[i] = s[i]
      /\ Append(s, f)[Len(s) + 1] = f
      /\ Len(s) \in Nat
  OBVIOUS
<1>2. Ordered(s) => Ordered(Append(s, f))
  BY <1>1 DEF Ordered, Before
<1>3. \A t : InOrder(t, s) /\ (IsReply(f) => Before(t, f.age)) => InOrder(t, Append(s, f))
  <2> SUFFICES ASSUME NEW t, InOrder(t, s),
                      IsReply(f) => Before(t, f.age),
                      NEW i \in DOMAIN t, NEW j \in DOMAIN Append(s, f),
                      IsReply(t[i]), IsReply(Append(s, f)[j])
               PROVE  Later(t[i].age, Append(s, f)[j].age)
    BY DEF InOrder
  <2>1. CASE j \in DOMAIN s
    BY <1>1, <2>1 DEF InOrder
  <2>2. CASE j = Len(s) + 1
    <3>1. Append(s, f)[j] = f
      BY <1>1, <2>2
    <3> QED
      BY <3>1, Zenon DEF Before
  <2> QED
    BY <1>1, <2>1, <2>2
<1>4. \A t : InOrder(s, t) /\ (IsReply(f) => Since(f.age, t)) => InOrder(Append(s, f), t)
  BY <1>1 DEF InOrder, Since
<1>5. \A age : Since(age, s) /\ (IsReply(f) => Later(age, f.age)) => Since(age, Append(s, f))
  BY <1>1 DEF Since
<1> QED
  BY <1>1, <1>2, <1>3, <1>4, <1>5

\* Part of a sequence.
LEMMA PartOrder ==
  ASSUME NEW s \in Seq(Answer), NEW m \in 1 .. Len(s) + 1, NEW n \in 0 .. Len(s)
  PROVE  /\ SubSeq(s, m, n) \in Seq(Answer)
         /\ \A i \in DOMAIN SubSeq(s, m, n) :
              /\ i + m - 1 \in m .. n /\ i + m - 1 \in DOMAIN s
              /\ SubSeq(s, m, n)[i] = s[i + m - 1]
         /\ Ordered(s) => Ordered(SubSeq(s, m, n))
         /\ \A t : InOrder(t, s) => InOrder(t, SubSeq(s, m, n))
         /\ \A t : InOrder(s, t) => InOrder(SubSeq(s, m, n), t)
         /\ \A age : Since(age, s) => Since(age, SubSeq(s, m, n))
<1> DEFINE p == SubSeq(s, m, n)
<1>1. /\ p \in Seq(Answer)
      /\ DOMAIN p \subseteq Nat
      /\ \A i \in DOMAIN p : /\ i + m - 1 \in m .. n /\ i + m - 1 \in DOMAIN s
                             /\ p[i] = s[i + m - 1]
  OBVIOUS
<1> HIDE DEF p
<1>2. Ordered(s) => Ordered(p)
  <2> SUFFICES ASSUME Ordered(s), NEW i \in DOMAIN p, NEW j \in DOMAIN p, i < j,
                      IsReply(p[i]), IsReply(p[j])
               PROVE  Later(p[i].age, p[j].age)
    BY DEF Ordered
  <2> DEFINE k == i + m - 1
             l == j + m - 1
  <2>1. k < l
    <3>1. i \in Nat /\ j \in Nat /\ i < j
      BY <1>1
    <3> QED
      BY ONLY <3>1, m \in Nat
  <2>2. k \in DOMAIN s /\ l \in DOMAIN s
    BY <1>1
  <2>3. p[i] = s[k] /\ p[j] = s[l]
    BY <1>1
  <2> HIDE DEF k, l
  <2>4. IsReply(s[k]) /\ IsReply(s[l])
    BY <2>3
  <2>5. Later(s[k].age, s[l].age)
    BY ONLY <2>1, <2>2, <2>4, Ordered(s), Zenon DEF Ordered
  <2> QED
    BY <2>3, <2>5
<1>3. \A t : InOrder(t, s) => InOrder(t, p)
  BY <1>1 DEF InOrder
<1>4. \A t : InOrder(s, t) => InOrder(p, t)
  BY <1>1 DEF InOrder
<1>5. \A age : Since(age, s) => Since(age, p)
  BY <1>1 DEF Since
<1> QED
  BY <1>1, <1>2, <1>3, <1>4, <1>5 DEF p

\* The head of a sequence and the rest of it.
LEMMA TailOrder ==
  ASSUME NEW s \in Seq(Answer), s # << >>
  PROVE  /\ Tail(s) \in Seq(Answer) /\ Head(s) \in Answer
         /\ Head(s) = s[1] /\ 1 \in DOMAIN s
         /\ \A i \in DOMAIN Tail(s) : i + 1 \in DOMAIN s /\ Tail(s)[i] = s[i + 1]
         /\ Ordered(s) => /\ Ordered(Tail(s))
                          /\ IsReply(Head(s)) => Since(Head(s).age, Tail(s))
         /\ \A t : InOrder(t, s) => InOrder(t, Tail(s))
         /\ \A t : InOrder(s, t) => /\ InOrder(Tail(s), t)
                                    /\ IsReply(Head(s)) => Since(Head(s).age, t)
         /\ \A age : Since(age, s) => /\ Since(age, Tail(s))
                                      /\ IsReply(Head(s)) => Later(age, Head(s).age)
<1>1. /\ Tail(s) \in Seq(Answer) /\ Head(s) \in Answer
      /\ Head(s) = s[1] /\ 1 \in DOMAIN s
      /\ DOMAIN Tail(s) \subseteq Nat \ {0}
      /\ \A i \in DOMAIN Tail(s) : i + 1 \in DOMAIN s /\ Tail(s)[i] = s[i + 1]
  OBVIOUS
<1>2. Ordered(s) => /\ Ordered(Tail(s))
                    /\ IsReply(Head(s)) => Since(Head(s).age, Tail(s))
  BY <1>1 DEF Ordered, Since
<1>3. \A t : InOrder(t, s) => InOrder(t, Tail(s))
  BY <1>1 DEF InOrder
<1>4. \A t : InOrder(s, t) => /\ InOrder(Tail(s), t)
                              /\ IsReply(Head(s)) => Since(Head(s).age, t)
  BY <1>1 DEF InOrder, Since
<1>5. \A age : Since(age, s) => /\ Since(age, Tail(s))
                                /\ IsReply(Head(s)) => Later(age, Head(s).age)
  BY <1>1 DEF Since
<1> QED
  BY <1>1, <1>2, <1>3, <1>4, <1>5

\* The queues in the order in which a frame goes through them, and the age of
\* the answer taken last.
InLine(taken, buffer, wire, last) ==
  /\ Ordered(taken) /\ Ordered(buffer) /\ Ordered(wire)
  /\ InOrder(taken, buffer) /\ InOrder(taken, wire) /\ InOrder(buffer, wire)
  /\ Since(last, taken) /\ Since(last, buffer) /\ Since(last, wire)

LEMMA LineOlder ==
  ASSUME NEW q1 \in Seq(Answer), NEW q2 \in Seq(Answer), NEW q3 \in Seq(Answer),
         NEW last \in 0 .. MaxAge, InLine(q1, q2, q3, last)
  PROVE  InLine(Older(q1), Older(q2), Older(q3), Aged(last))
BY OlderOrder DEF InLine

LEMMA LineSent ==
  ASSUME NEW q1 \in Seq(Answer), NEW q2 \in Seq(Answer), NEW q3 \in Seq(Answer),
         NEW last \in 0 .. MaxAge, InLine(q1, q2, q3, last),
         NEW f \in Answer, f.age = 0
  PROVE  /\ Append(Older(q3), f) \in Seq(Answer)
         /\ InLine(Older(q1), Older(q2), Append(Older(q3), f), Aged(last))
<1>1. ASSUME NEW q \in Seq(Answer) PROVE Before(Older(q), f.age)
  <2> SUFFICES ASSUME NEW i \in DOMAIN q PROVE Later(Older(q)[i].age, f.age)
    BY OlderFrames DEF Before
  <2>1. q[i].age \in 0 .. MaxAge /\ Older(q)[i].age = Aged(q[i].age)
    BY OlderFrames
  <2> QED
    BY <2>1, AgedAge
<1>2. Later(Aged(last), f.age)
  BY AgedAge
<1>3. /\ InLine(Older(q1), Older(q2), Older(q3), Aged(last))
      /\ Older(q3) \in Seq(Answer)
  BY LineOlder, OlderFrames
<1>4. /\ Append(Older(q3), f) \in Seq(Answer)
      /\ Ordered(Append(Older(q3), f))
      /\ InOrder(Older(q1), Append(Older(q3), f))
      /\ InOrder(Older(q2), Append(Older(q3), f))
      /\ Since(Aged(last), Append(Older(q3), f))
  BY <1>1, <1>2, <1>3, AppendOrder DEF InLine
<1> QED
  BY <1>3, <1>4 DEF InLine

LEMMA LineEvent ==
  ASSUME NEW q1 \in Seq(Answer), NEW q2 \in Seq(Answer), NEW q3 \in Seq(Answer),
         NEW last, InLine(q1, q2, q3, last), NEW f \in Answer, ~IsReply(f)
  PROVE  Append(q3, f) \in Seq(Answer) /\ InLine(q1, q2, Append(q3, f), last)
BY AppendOrder DEF InLine

LEMMA LineRead ==
  ASSUME NEW q1 \in Seq(Answer), NEW q3 \in Seq(Answer), NEW last,
         NEW q2, InLine(q1, q2, q3, last), NEW n \in 1 .. Len(q3)
  PROVE  /\ SubSeq(q3, 1, n) \in Seq(Answer)
         /\ SubSeq(q3, n + 1, Len(q3)) \in Seq(Answer)
         /\ InLine(q1, SubSeq(q3, 1, n), SubSeq(q3, n + 1, Len(q3)), last)
<1> DEFINE front == SubSeq(q3, 1, n)
           rest == SubSeq(q3, n + 1, Len(q3))
<1>1. /\ 1 \in 1 .. Len(q3) + 1 /\ n \in 0 .. Len(q3)
      /\ n + 1 \in 1 .. Len(q3) + 1 /\ Len(q3) \in 0 .. Len(q3)
      /\ n \in Nat
  OBVIOUS
<1>2. /\ front \in Seq(Answer)
      /\ \A i \in DOMAIN front : i + 1 - 1 \in 1 .. n /\ i + 1 - 1 \in DOMAIN q3
                                /\ front[i] = q3[i + 1 - 1]
      /\ Ordered(front) /\ InOrder(q1, front) /\ Since(last, front)
  BY <1>1, PartOrder DEF InLine
<1>3. /\ rest \in Seq(Answer)
      /\ \A i \in DOMAIN rest :
           /\ i + (n + 1) - 1 \in n + 1 .. Len(q3) /\ i + (n + 1) - 1 \in DOMAIN q3
           /\ rest[i] = q3[i + (n + 1) - 1]
      /\ Ordered(rest) /\ InOrder(q1, rest) /\ Since(last, rest)
  BY <1>1, PartOrder DEF InLine
<1>4. InOrder(front, rest)
  <2> HIDE DEF front, rest
  <2> SUFFICES ASSUME NEW i \in DOMAIN front, NEW j \in DOMAIN rest,
                      IsReply(front[i]), IsReply(rest[j])
               PROVE  Later(front[i].age, rest[j].age)
    BY DEF InOrder
  <2>1. /\ i \in 1 .. n /\ i \in DOMAIN q3 /\ front[i] = q3[i]
    BY <1>2, <1>3
  <2>2. PICK k \in DOMAIN q3 : k \in n + 1 .. Len(q3) /\ rest[j] = q3[k]
    BY <1>3
  <2>3. i < k /\ Ordered(q3)
    BY <1>1, <2>1, <2>2 DEF InLine
  <2> QED
    BY <2>1, <2>2, <2>3 DEF Ordered
<1> QED
  BY <1>2, <1>3, <1>4 DEF InLine

LEMMA LineFeed ==
  ASSUME NEW q1 \in Seq(Answer), NEW q2 \in Seq(Answer), NEW q3 \in Seq(Answer),
         NEW last, InLine(q1, q2, q3, last), q2 # << >>
  PROVE  /\ Tail(q2) \in Seq(Answer) /\ Head(q2) \in Answer
         /\ InLine(q1, Tail(q2), q3, last)
         /\ Append(q1, Head(q2)) \in Seq(Answer)
         /\ IsReply(Head(q2)) => InLine(Append(q1, Head(q2)), Tail(q2), q3, last)
<1>1. /\ Tail(q2) \in Seq(Answer) /\ Head(q2) \in Answer
      /\ Head(q2) = q2[1] /\ 1 \in DOMAIN q2
      /\ Ordered(Tail(q2)) /\ InOrder(q1, Tail(q2)) /\ InOrder(Tail(q2), q3)
      /\ Since(last, Tail(q2))
      /\ IsReply(Head(q2)) => /\ Since(Head(q2).age, Tail(q2))
                              /\ Since(Head(q2).age, q3)
                              /\ Later(last, Head(q2).age)
  BY TailOrder DEF InLine
<1>2. ASSUME IsReply(Head(q2)) PROVE Before(q1, Head(q2).age)
  BY <1>1, <1>2 DEF InLine, InOrder, Before
<1>3. InLine(q1, Tail(q2), q3, last)
  BY <1>1 DEF InLine
<1> DEFINE f == Head(q2)
<1> HIDE DEF f
<1>4. ASSUME IsReply(f)
      PROVE  InLine(Append(q1, f), Tail(q2), q3, last)
  <2>1. f \in Answer /\ Before(q1, f.age) /\ Since(f.age, Tail(q2)) /\ Since(f.age, q3)
        /\ Later(last, f.age)
    BY <1>1, <1>2, <1>4 DEF f
  <2>2. /\ Ordered(Append(q1, f)) /\ Since(last, Append(q1, f))
        /\ InOrder(Append(q1, f), Tail(q2)) /\ InOrder(Append(q1, f), q3)
    BY <1>3, <2>1, AppendOrder DEF InLine
  <2> QED
    BY <1>3, <2>2 DEF InLine
<1> QED
  BY <1>1, <1>3, <1>4 DEF f

LEMMA LineTake ==
  ASSUME NEW q1 \in Seq(Answer), NEW q2, NEW q3,
         NEW last, InLine(q1, q2, q3, last), q1 # << >>
  PROVE  /\ Tail(q1) \in Seq(Answer) /\ Head(q1) \in Answer
         /\ Head(q1) = q1[1] /\ 1 \in DOMAIN q1
         /\ \A i \in DOMAIN Tail(q1) : i + 1 \in DOMAIN q1 /\ Tail(q1)[i] = q1[i + 1]
         /\ InLine(Tail(q1), q2, q3, last)
         /\ IsReply(Head(q1)) => /\ InLine(Tail(q1), q2, q3, Head(q1).age)
                                 /\ Later(last, Head(q1).age)
BY TailOrder DEF InLine

LEMMA LineEmpty ==
  ASSUME NEW q1, NEW q2, NEW q3, NEW last, InLine(q1, q2, q3, last)
  PROVE  /\ InLine(<< >>, q2, << >>, last)
         /\ InLine(<< >>, q2, q3, last)
         /\ InLine(q1, << >>, q3, last)
BY DEF InLine, Ordered, InOrder, Since

\* One reader at a time: the one of this connection, or the one the last
\* Disconnect has left behind. A reader that is gone holds nothing.
ReaderState == [state : {"Gone", "Reading", "Telling"}, buffer : Seq(Answer)]

QueueTyped ==
  /\ connected \in BOOLEAN
  /\ readers \in [Reader -> ReaderState]
  /\ \A r \in Reader : readers[r].state = "Gone" => readers[r] = Gone
  /\ connected => readers["old"] = Gone
  /\ ~connected => readers["current"] = Gone
  /\ responses \in Seq(Answer) /\ toHost \in Seq(Answer)
  /\ \A i \in DOMAIN responses : IsReply(responses[i])
  /\ answered \in [age : 0 .. MaxAge, last : 0 .. MaxAge, before : 0 .. MaxAge]

Buffer == IF connected THEN readers["current"].buffer ELSE readers["old"].buffer

OrderInv == /\ InLine(responses, Buffer, toHost, answered.last)
            /\ Later(answered.before, answered.last)

LEMMA Readers ==
  /\ Gone \in ReaderState /\ Gone.state = "Gone" /\ Gone.buffer = << >>
  /\ Reading \in ReaderState /\ Reading.state = "Reading" /\ Reading.buffer = << >>
  /\ "current" \in Reader /\ "old" \in Reader
BY DEF Gone, Reading, ReaderState, Reader

LEMMA BufferTyped == QueueTyped => Buffer \in Seq(Answer)
BY Readers DEF QueueTyped, Buffer, ReaderState

\* The reader that is not gone holds the buffer.
LEMMA Active ==
  ASSUME QueueTyped, NEW r \in Reader, readers[r] # Gone
  PROVE  /\ r = IF connected THEN "current" ELSE "old"
         /\ Buffer = readers[r].buffer
BY DEF QueueTyped, Buffer, Reader

LEMMA ReadKeeps ==
  ASSUME QueueTyped, OrderInv, Read
  PROVE  QueueTyped' /\ OrderInv'
<1>1. PICK n \in 1 .. Len(toHost) :
        /\ readers' = [readers EXCEPT !["current"].buffer = SubSeq(toHost, 1, n)]
        /\ toHost' = SubSeq(toHost, n + 1, Len(toHost))
  BY DEF Read
<1>2. readers["current"] = Reading /\ UNCHANGED << connected, responses, answered >>
  BY DEF Read
<1>3. readers["current"] # Gone /\ connected /\ readers["old"] = Gone
  BY <1>2, Readers DEF QueueTyped
<1>4. /\ SubSeq(toHost, 1, n) \in Seq(Answer)
      /\ SubSeq(toHost, n + 1, Len(toHost)) \in Seq(Answer)
      /\ InLine(responses, SubSeq(toHost, 1, n), SubSeq(toHost, n + 1, Len(toHost)),
                answered.last)
  BY LineRead DEF QueueTyped, OrderInv
<1>5. /\ readers'["old"] = Gone /\ readers'["current"].state = "Reading"
      /\ readers'["current"].buffer = SubSeq(toHost, 1, n)
      /\ readers' \in [Reader -> ReaderState]
  BY <1>1, <1>2, <1>3, <1>4, Readers DEF QueueTyped, ReaderState
<1>6. QueueTyped'
  BY <1>1, <1>2, <1>3, <1>4, <1>5, Readers DEF QueueTyped, Reader
<1>7. Buffer' = SubSeq(toHost, 1, n)
  BY <1>2, <1>3, <1>5 DEF Buffer
<1> QED
  BY <1>1, <1>2, <1>4, <1>6, <1>7 DEF OrderInv

LEMMA FeedKeeps ==
  ASSUME QueueTyped, OrderInv, NEW r \in Reader, Feed(r)
  PROVE  QueueTyped' /\ OrderInv'
<1> DEFINE buffer == readers[r].buffer
           event == Head(buffer).cmd = "LogEvent"
<1>1. /\ readers[r].state = "Reading" /\ buffer # << >>
      /\ readers' = [readers EXCEPT ![r].buffer = Tail(@),
                                    ![r].state = IF event THEN "Telling" ELSE @]
      /\ responses' = IF event THEN responses ELSE Append(responses, Head(buffer))
      /\ UNCHANGED << connected, toHost, answered >>
  BY Zenon DEF Feed
<1>2. /\ readers[r] # Gone /\ Buffer = buffer /\ buffer \in Seq(Answer)
      /\ r = IF connected THEN "current" ELSE "old"
      /\ responses \in Seq(Answer) /\ toHost \in Seq(Answer)
  BY <1>1, Readers, Active DEF QueueTyped, ReaderState
<1>3. /\ Tail(buffer) \in Seq(Answer)
      /\ InLine(responses, Tail(buffer), toHost, answered.last)
      /\ Append(responses, Head(buffer)) \in Seq(Answer)
      /\ IsReply(Head(buffer)) =>
           InLine(Append(responses, Head(buffer)), Tail(buffer), toHost, answered.last)
  BY <1>1, <1>2, LineFeed DEF OrderInv
<1>4. InLine(responses', Tail(buffer), toHost, answered.last)
  BY <1>1, <1>3 DEF IsReply
<1>5. /\ readers' \in [Reader -> ReaderState]
      /\ readers'[r].buffer = Tail(buffer)
      /\ readers'[r].state \in {"Reading", "Telling"}
      /\ \A q \in Reader : q # r => readers'[q] = readers[q]
  <2> DEFINE state == IF event THEN "Telling" ELSE readers[r].state
             fed == [readers[r] EXCEPT !.buffer = Tail(buffer), !.state = state]
  <2>1. /\ readers[r] \in ReaderState /\ state \in {"Reading", "Telling"}
        /\ readers \in [Reader -> ReaderState]
    BY <1>1 DEF QueueTyped
  <2>2. readers' = [readers EXCEPT ![r] = fed]
    BY <1>1, <2>1
  <2> HIDE DEF state
  <2>3. /\ fed \in ReaderState /\ fed.buffer = Tail(buffer)
        /\ fed.state \in {"Reading", "Telling"}
    BY <1>3, <2>1 DEF ReaderState
  <2> HIDE DEF fed
  <2> QED
    BY <2>1, <2>2, <2>3
<1>6. /\ responses' \in Seq(Answer)
      /\ \A i \in DOMAIN responses' : IsReply(responses'[i])
  <2>1. CASE event
    BY <1>1, <2>1 DEF QueueTyped
  <2>2. CASE ~event
    <3>1. responses' = Append(responses, Head(buffer)) /\ IsReply(Head(buffer))
      BY <1>1, <2>2 DEF IsReply
    <3>2. \A i \in DOMAIN responses' : \/ i \in DOMAIN responses
                                         /\ responses'[i] = responses[i]
                                      \/ responses'[i] = Head(buffer)
      BY <1>2, <3>1
    <3> QED
      BY <1>3, <3>1, <3>2, Zenon DEF QueueTyped
  <2> QED
    BY <2>1, <2>2
<1>7. QueueTyped'
  BY <1>1, <1>2, <1>5, <1>6, Readers DEF QueueTyped
<1>8. Buffer' = Tail(buffer)
  BY <1>1, <1>2, <1>5 DEF Buffer
<1> QED
  BY <1>1, <1>4, <1>7, <1>8 DEF OrderInv

LEMMA ShowQuitKeep ==
  ASSUME QueueTyped, OrderInv, Show \/ \E r \in Reader : Quit(r)
  PROVE  QueueTyped' /\ OrderInv'
<1>1. PICK r \in Reader :
        \/ readers[r].state = "Telling" /\ readers' = [readers EXCEPT ![r].state = "Reading"]
        \/ readers[r] = Reading /\ readers' = [readers EXCEPT ![r] = Gone]
  BY DEF Show, Quit, Telling
<1>2. UNCHANGED << connected, responses, toHost, answered >>
  BY DEF Show, Quit
<1>3. /\ readers[r] # Gone /\ Buffer = readers[r].buffer
      /\ r = IF connected THEN "current" ELSE "old"
  BY <1>1, Readers, Active
<1>4. /\ readers' \in [Reader -> ReaderState]
      /\ readers'[r].buffer = readers[r].buffer
      /\ readers'[r].state = "Gone" => readers'[r] = Gone
      /\ \A q \in Reader : q # r => readers'[q] = readers[q]
  <2>1. CASE readers[r].state = "Telling" /\ readers' = [readers EXCEPT ![r].state = "Reading"]
    BY <2>1 DEF QueueTyped, ReaderState
  <2>2. CASE readers[r] = Reading /\ readers' = [readers EXCEPT ![r] = Gone]
    BY <2>2, Readers DEF QueueTyped
  <2> QED
    BY <1>1, <2>1, <2>2
<1>5. QueueTyped'
  BY <1>2, <1>3, <1>4, Readers DEF QueueTyped
<1>6. Buffer' = Buffer
  BY <1>2, <1>3, <1>4 DEF Buffer
<1> QED
  BY <1>2, <1>5, <1>6 DEF OrderInv

LEMMA WriteKeeps ==
  ASSUME QueueTyped, OrderInv, Write
  PROVE  QueueTyped' /\ OrderInv'
<1>1. /\ ui'.cmd \in Cmd
      /\ responses' = Older(responses)
      /\ readers' = [r \in Reader |-> [readers[r] EXCEPT !.buffer = Older(@)]]
      /\ answered' = [answered EXCEPT !.last = Aged(@), !.before = Aged(@)]
      /\ \/ toHost' = Append(Older(toHost), [cmd |-> ui'.cmd, age |-> 0])
         \/ toHost' = Older(toHost)
      /\ connected' = connected
  BY DEF Write
<1>2. /\ responses \in Seq(Answer) /\ Buffer \in Seq(Answer) /\ toHost \in Seq(Answer)
      /\ answered.last \in 0 .. MaxAge /\ answered.before \in 0 .. MaxAge
  BY BufferTyped DEF QueueTyped
<1>3. /\ answered' \in [age : 0 .. MaxAge, last : 0 .. MaxAge, before : 0 .. MaxAge]
      /\ answered'.last = Aged(answered.last)
      /\ answered'.before = Aged(answered.before)
  BY <1>1, AgedAge DEF QueueTyped
<1>4. Later(answered'.before, answered'.last)
  BY <1>2, <1>3, AgedAge DEF OrderInv
<1>5. ASSUME NEW r \in Reader
      PROVE  /\ readers'[r] \in ReaderState
             /\ readers'[r].buffer = Older(readers[r].buffer)
             /\ readers'[r].state = readers[r].state
             /\ readers[r] = Gone => readers'[r] = Gone
  <2>1. /\ readers[r] \in ReaderState
        /\ readers'[r] = [readers[r] EXCEPT !.buffer = Older(readers[r].buffer)]
    BY <1>1 DEF QueueTyped
  <2>2. Older(readers[r].buffer) \in Seq(Answer)
    BY <2>1, OlderFrames DEF ReaderState
  <2>3. readers[r] = Gone => Older(readers[r].buffer) = readers[r].buffer
    BY Readers, OlderFrames DEF ReaderState
  <2> QED
    BY <2>1, <2>2, <2>3 DEF ReaderState
<1>6. readers' \in [Reader -> ReaderState]
  BY <1>1, <1>5
<1>7. Buffer' = Older(Buffer)
  BY <1>1, <1>5, Readers DEF Buffer
<1>8. /\ Older(responses) \in Seq(Answer)
      /\ \A i \in DOMAIN Older(responses) : IsReply(Older(responses)[i])
  BY <1>2, OlderFrames DEF QueueTyped
<1> DEFINE sent == [cmd |-> ui'.cmd, age |-> 0]
<1>9. sent \in Answer /\ sent.age = 0
  BY <1>1, AgedAge DEF Answer
<1> HIDE DEF sent
<1>10. /\ toHost' \in Seq(Answer)
       /\ InLine(Older(responses), Older(Buffer), toHost', Aged(answered.last))
  <2>1. CASE toHost' = Append(Older(toHost), sent)
    BY <1>2, <1>9, <2>1, LineSent DEF OrderInv
  <2>2. CASE toHost' = Older(toHost)
    BY <1>2, <2>2, LineOlder, OlderFrames DEF OrderInv
  <2> QED
    BY <1>1, <2>1, <2>2 DEF sent
<1>11. QueueTyped'
  BY <1>1, <1>3, <1>5, <1>6, <1>8, <1>10, Readers DEF QueueTyped
<1>12. OrderInv'
  BY <1>1, <1>3, <1>4, <1>7, <1>10 DEF OrderInv
<1> QED
  BY <1>11, <1>12

LEMMA TakeKeeps ==
  ASSUME QueueTyped, OrderInv, Take
  PROVE  QueueTyped' /\ OrderInv'
<1> DEFINE frame == Head(responses)
<1>1. /\ responses # << >> /\ responses' = Tail(responses)
      /\ \/ answered' = [age |-> frame.age, last |-> frame.age,
                          before |-> answered.last]
         \/ answered' = answered
      /\ UNCHANGED << connected, readers, toHost >>
  BY DEF Take
<1>2. /\ Tail(responses) \in Seq(Answer) /\ frame \in Answer
      /\ frame = responses[1] /\ 1 \in DOMAIN responses
      /\ \A i \in DOMAIN Tail(responses) : /\ i + 1 \in DOMAIN responses
                                          /\ Tail(responses)[i] = responses[i + 1]
      /\ InLine(Tail(responses), Buffer, toHost, answered.last)
      /\ IsReply(frame) => /\ InLine(Tail(responses), Buffer, toHost, frame.age)
                           /\ Later(answered.last, frame.age)
  BY <1>1, LineTake DEF QueueTyped, OrderInv
<1>3. IsReply(frame) /\ \A i \in DOMAIN Tail(responses) : IsReply(Tail(responses)[i])
  BY <1>2 DEF QueueTyped
<1>4. Buffer' = Buffer
  BY <1>1 DEF Buffer
<1> HIDE DEF frame
<1>5. CASE answered' = [age |-> frame.age, last |-> frame.age, before |-> answered.last]
  <2>1. /\ answered'.last = frame.age /\ answered'.before = answered.last
        /\ answered' \in [age : 0 .. MaxAge, last : 0 .. MaxAge, before : 0 .. MaxAge]
    BY <1>2, <1>5 DEF Answer, QueueTyped
  <2>2. QueueTyped'
    BY <1>1, <1>2, <1>3, <2>1 DEF QueueTyped
  <2> QED
    BY <1>1, <1>2, <1>3, <1>4, <2>1, <2>2 DEF OrderInv
<1>6. CASE answered' = answered
  BY <1>1, <1>2, <1>3, <1>4, <1>6 DEF QueueTyped, OrderInv
<1> QED
  BY <1>1, <1>5, <1>6 DEF frame

\* Connect comes when both readers are gone.
LEMMA ConnectKeeps ==
  ASSUME QueueTyped, OrderInv, Connect
  PROVE  QueueTyped' /\ OrderInv'
<1>1. /\ Quiet /\ Idle /\ ~connected /\ connected' = TRUE
      /\ readers' = [readers EXCEPT !["current"] = Reading]
      /\ responses' = << >>
      /\ UNCHANGED << toHost, answered >>
  BY DEF Connect
<1>2. readers["old"] = Gone
  <2>1. readers["old"].state # "Telling"
    BY <1>1 DEF Idle, Telling, Reader
  <2>2. readers["old"].state # "Reading"
    <3>1. readers["old"] # Reading
      BY <1>1 DEF Quiet
    <3>2. readers["old"].state = "Reading" => readers["old"].buffer = << >>
      BY <1>1, Readers DEF Quiet
    <3> QED
      BY <3>1, <3>2, Readers DEF QueueTyped, ReaderState
  <2> QED
    BY <2>1, <2>2, Readers DEF QueueTyped, ReaderState
<1>3. /\ readers' \in [Reader -> ReaderState]
      /\ readers'["current"] = Reading /\ readers'["old"] = Gone
  BY <1>1, <1>2, Readers DEF QueueTyped
<1>4. Buffer = << >> /\ Buffer' = << >>
  BY <1>1, <1>2, <1>3, Readers DEF Buffer
<1>5. QueueTyped'
  <2>1. << >> \in Seq(Answer) /\ DOMAIN << >> = {}
    OBVIOUS
  <2> QED
    BY <1>1, <1>3, <2>1, Readers DEF QueueTyped, Reader
<1> QED
  BY <1>1, <1>4, <1>5, LineEmpty DEF OrderInv

\* Closing the port leaves the reader with what it has.
LEMMA ClosedKeeps ==
  ASSUME QueueTyped, OrderInv, Closed
  PROVE  QueueTyped' /\ OrderInv'
<1>1. /\ connected' = FALSE
      /\ readers' = [current |-> Gone,
                     old |-> IF readers["current"] = Gone THEN readers["old"]
                             ELSE readers["current"]]
      /\ responses' = << >> /\ toHost' = << >> /\ answered' = answered
  BY DEF Closed
<1>2. /\ DOMAIN readers' = Reader
      /\ readers'["current"] = Gone
      /\ readers'["old"] = IF connected THEN readers["current"] ELSE readers["old"]
  BY <1>1, Readers DEF QueueTyped, Reader
<1>3. /\ readers' \in [Reader -> ReaderState]
      /\ \A r \in Reader : readers'[r].state = "Gone" => readers'[r] = Gone
  <2>1. \A r \in Reader : readers'[r] \in {Gone, readers["current"], readers["old"]}
    BY <1>2 DEF Reader
  <2>2. \A r \in Reader : readers'[r] \in ReaderState
    BY <2>1, Readers DEF QueueTyped
  <2>3. readers' = [r \in Reader |-> readers'[r]]
    BY <1>1 DEF Reader
  <2>4. \A r \in Reader : readers'[r].state = "Gone" => readers'[r] = Gone
    BY <2>1, Readers DEF QueueTyped
  <2> QED
    BY <2>2, <2>3, <2>4
<1>4. Buffer' = Buffer
  BY <1>1, <1>2 DEF Buffer
<1>5. QueueTyped'
  <2>1. << >> \in Seq(Answer) /\ DOMAIN << >> = {}
    OBVIOUS
  <2> QED
    BY <1>1, <1>2, <1>3, <2>1, Readers DEF QueueTyped
<1> QED
  BY <1>1, <1>4, <1>5, LineEmpty DEF OrderInv

LEMMA TellKeeps ==
  ASSUME QueueTyped, OrderInv, Tell
  PROVE  QueueTyped' /\ OrderInv'
<1> DEFINE event == [cmd |-> "LogEvent", age |-> 0]
<1>1. toHost' = Append(toHost, event)
      /\ UNCHANGED << connected, readers, responses, answered >>
  BY DEF Tell
<1>2. event \in Answer /\ ~IsReply(event)
  BY AgedAge DEF Answer, Cmd, IsReply
<1> HIDE DEF event
<1>3. /\ toHost' \in Seq(Answer)
      /\ InLine(responses, Buffer, toHost', answered.last)
  BY <1>1, <1>2, LineEvent, BufferTyped DEF QueueTyped, OrderInv
<1>4. Buffer' = Buffer
  BY <1>1 DEF Buffer
<1>5. QueueTyped'
  BY <1>1, <1>3 DEF QueueTyped
<1> QED
  BY <1>1, <1>3, <1>4, <1>5 DEF OrderInv

LEMMA OrderStep ==
  ASSUME QueueTyped, OrderInv, [HostNext]_vars
  PROVE  QueueTyped' /\ OrderInv'
<1>1. ASSUME UNCHANGED << connected, readers, responses, toHost, answered >>
      PROVE  QueueTyped' /\ OrderInv'
  BY <1>1 DEF QueueTyped, OrderInv, Buffer
<1>2. \/ UNCHANGED << connected, readers, responses, toHost, answered >>
      \/ Read \/ Show \/ Write \/ Take \/ Closed \/ Tell \/ Connect
      \/ \E r \in Reader : Feed(r) \/ Quit(r)
  BY DEF HostNext, Prompt, TimeOut, Poll, StartPolling, Disconnect, Tick, Click, vars
<1> QED
  BY <1>1, <1>2, ReadKeeps, FeedKeeps, ShowQuitKeep, WriteKeeps, TakeKeeps,
     ClosedKeeps, TellKeeps, ConnectKeeps

\* AnswersNeverGoBack of HostLink, for every history of losses, events, clicks
\* and reconnections: no answer shown is older than the one shown before it,
\* because the frames stay in the order of their requests wherever they are
\* on their way, behind the answer that was taken last.
THEOREM AnswersGoForward == HostSpec => []AnswersNeverGoBack
<1>1. HostInit => QueueTyped /\ OrderInv
  <2> SUFFICES ASSUME HostInit PROVE QueueTyped /\ OrderInv
    OBVIOUS
  <2>1. /\ connected = FALSE /\ readers = [r \in Reader |-> Gone]
        /\ responses = << >> /\ toHost = << >>
        /\ answered = [age |-> 0, last |-> MaxAge, before |-> MaxAge]
    BY DEF HostInit
  <2>2. QueueTyped
    <3>1. << >> \in Seq(Answer) /\ DOMAIN << >> = {}
      OBVIOUS
    <3>2. /\ readers \in [Reader -> ReaderState]
          /\ \A r \in Reader : readers[r] = Gone
      BY <2>1, Readers
    <3>3. answered \in [age : 0 .. MaxAge, last : 0 .. MaxAge, before : 0 .. MaxAge]
      BY <2>1, AgedAge
    <3> QED
      BY <2>1, <3>1, <3>2, <3>3, Readers DEF QueueTyped
  <2>3. Buffer = << >>
    BY <2>1, Readers DEF Buffer
  <2>4. InLine(<< >>, << >>, << >>, MaxAge)
    BY DEF InLine, Ordered, InOrder, Since
  <2> QED
    BY <2>1, <2>2, <2>3, <2>4 DEF OrderInv, Later
<1>2. OrderInv => AnswersNeverGoBack
  BY DEF OrderInv, Later, AnswersNeverGoBack
<1> QED
  BY <1>1, <1>2, OrderStep, PTL DEF HostSpec
=============================================================================
