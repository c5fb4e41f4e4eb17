------------------------------ MODULE AppProofs -----------------------------
(***************************************************************************)
(* Proofs about the application, for every pin, every frame and every      *)
(* conversion: AppSpec, with the history of AppHistory.                    *)
(*                                                                         *)
(* AppSound, that everything the application keeps is well typed, that the *)
(* managers are sound and that the lamps obey the rules, is what the other *)
(* invariants rest on. Each property then has an invariant of its own,     *)
(* that relates the history to the driver, the filter or the mask in the   *)
(* host's record that stands between the outside and the logic.            *)
(***************************************************************************)
EXTENDS AppHistory, BcmCoreProofs

-----------------------------------------------------------------------------
(* Everything the application keeps *)

ButtonRecord == [state : BOOLEAN, candidate : BOOLEAN, elapsed : Nat]
LedRecord    == [blinking : BOOLEAN, elapsed : Nat, output : BOOLEAN]
FilterRecord == [primed : BOOLEAN, acc : Nat]

AppSound ==
  /\ ManagersSound
  /\ LampsObeyRules
  /\ SoundStore(faults)
  /\ host \in HostRecord
  /\ at \in {"gather", "core", "poll", "reset"}
  /\ at = "poll" => ~first_cycle
  /\ buttons \in [Pins -> ButtonRecord]
  /\ link.lost \in BOOLEAN
  /\ battery \in FilterRecord
  /\ measured \in Nat
  /\ due \in Nat /\ (at \in {"core", "poll"} => due > 0)

\* A level is a Boolean whatever set the pins are compared with.
LEMMA LevelBoolean == \A pin, levels : (pin \in levels) \in BOOLEAN
OBVIOUS

\* A board just started is sound.
LEMMA FreshAppSound ==
  ASSUME NEW levels, AppInit(levels)
  PROVE  AppSound
<1>1. ManagersSound
  BY FreshDoorSound, FreshPowerSound, FreshLightingSound, FreshHornSound
     DEF AppInit, Init, DoorInit, PowerInit, LightingInit, ManagersSound, FreshDoor
<1>2. SoundStore(faults)
  BY FaultConfig DEF AppInit, Init, EmptyStore, SoundStore, NoDuplicates
<1>3. host \in HostRecord
  BY DEF AppInit, Init, NoHost, HostRecord, AllDark, LampState, LampDrive
<1>4. LampsObeyRules
  BY DEF AppInit, Init, LampsObeyRules
<1>5. buttons \in [Pins -> ButtonRecord]
  BY LevelBoolean DEF AppInit, FreshButton, ButtonRecord
<1> QED
  BY <1>1, <1>2, <1>3, <1>4, <1>5
     DEF AppInit, AppSound, FreshLink, FreshFilter, FilterRecord

\* So is a board that starts again; a watchdog reset leaves a code behind.
LEMMA RestartSound ==
  ASSUME NEW levels, NEW byWatchdog \in BOOLEAN, Restarted(levels, byWatchdog)
  PROVE  AppSound'
<1>1. ManagersSound'
  BY FreshDoorSound, FreshPowerSound, FreshLightingSound, FreshHornSound
     DEF Restarted, ManagersSound, FreshDoor
<1>2. SoundStore(EmptyStore)
  BY FaultConfig DEF EmptyStore, SoundStore, NoDuplicates
<1>3. "WatchdogReset" \in Dtc
  BY DEF Dtc
<1>4. SoundStore(faults')
  BY <1>2, <1>3, SetFaultSound DEF Restarted
<1>5. host' \in HostRecord
  BY DEF Restarted, NoHost, HostRecord, AllDark, LampState, LampDrive
<1>6. LampsObeyRules'
  BY DEF Restarted, LampsObeyRules
<1>7. buttons' \in [Pins -> ButtonRecord]
  BY LevelBoolean DEF Restarted, FreshButton, ButtonRecord
<1> QED
  BY <1>1, <1>4, <1>5, <1>6, <1>7
     DEF Restarted, AppSound, FreshLink, FreshFilter, FilterRecord

-----------------------------------------------------------------------------
(* Division *)

LEMMA Divided ==
  ASSUME NEW a \in Nat, NEW n \in Nat \ {0}
  PROVE  /\ a \div n \in Nat /\ a % n \in 0 .. n - 1
         /\ a = n * (a \div n) + (a % n)
OBVIOUS

\* A number has one remainder.
LEMMA Remainder ==
  ASSUME NEW a \in Nat, NEW n \in Nat \ {0}, NEW k \in Int, NEW r \in 0 .. n - 1,
         a = n * k + r
  PROVE  a % n = r
<1> DEFINE q == a \div n
           s == a % n
<1>1. q \in Nat /\ s \in 0 .. n - 1 /\ a = n * q + s
  BY Divided
<1> HIDE DEF q, s
<1>2. n * (k - q) = s - r
  BY <1>1
<1>3. k - q < 1
  <2>1. ASSUME NEW j \in Int, j >= 1 PROVE n * j >= n
    BY <2>1
  <2> QED
    BY <1>1, <1>2, <2>1
<1>4. k - q > -1
  <2>1. ASSUME NEW j \in Int, j <= -1 PROVE n * j <= -n
    BY <2>1
  <2> QED
    BY <1>1, <1>2, <2>1
<1>5. k = q
  BY <1>1, <1>3, <1>4
<1>6. s = r
  BY <1>1, <1>5
<1> QED
  BY <1>6 DEF s

LEMMA DivMono ==
  ASSUME NEW a \in Nat, NEW b \in Nat, a <= b, NEW n \in Nat \ {0}
  PROVE  a \div n <= b \div n
OBVIOUS

-----------------------------------------------------------------------------
(* The flasher. Phase is defined by what is left once a phase is over; that *)
(* there is such a function is shown by PhaseOf, which takes the remainder  *)
(* of whole periods first.                                                  *)

Period == BlinkOnMs + BlinkOffMs

\* The start of the other phase, with the time that is left over.
NextPhase(led) == Flash(led.elapsed - PhaseMs(led.output), ~led.output)

PhaseOf ==
  [led \in Flashing |->
    IF (led.elapsed % Period) < PhaseMs(led.output)
    THEN Flash(led.elapsed % Period, led.output)
    ELSE Flash((led.elapsed % Period) - PhaseMs(led.output), ~led.output)]

LEMMA FlashingIsFlash ==
  ASSUME NEW led \in Flashing
  PROVE  /\ led = Flash(led.elapsed, led.output)
         /\ led.elapsed \in Nat /\ led.output \in BOOLEAN
BY DEF Flashing, Flash

LEMMA FlashTyped ==
  ASSUME NEW e \in Nat, NEW o \in BOOLEAN
  PROVE  /\ Flash(e, o) \in Flashing
         /\ Flash(e, o).elapsed = e /\ Flash(e, o).output = o
         /\ Flash(e, o).blinking = TRUE
BY DEF Flashing, Flash

LEMMA NextFlash ==
  ASSUME NEW e \in Nat, NEW o \in BOOLEAN
  PROVE  NextPhase(Flash(e, o)) = Flash(e - PhaseMs(o), ~o)
BY FlashTyped, Zenon DEF NextPhase

LEMMA PhaseTimes ==
  ASSUME NEW o \in BOOLEAN
  PROVE /\ PhaseMs(o) \in Nat \ {0} /\ PhaseMs(~o) \in Nat \ {0}
         /\ Period = PhaseMs(o) + PhaseMs(~o) /\ (~o) \in BOOLEAN /\ (~~o) = o
<1>1. PhaseMs(o) \in Nat \ {0} /\ PhaseMs(~o) \in Nat \ {0}
  BY DriverConfig DEF PhaseMs
<1>2. Period = PhaseMs(o) + PhaseMs(~o)
  <2>1. CASE o
    BY <2>1, DriverConfig DEF PhaseMs, Period
  <2>2. CASE ~o
    BY <2>2, DriverConfig DEF PhaseMs, Period
  <2> QED
    BY <2>1, <2>2
<1>3. (~o) \in BOOLEAN /\ (~~o) = o
  OBVIOUS
<1> QED
  BY <1>1, <1>2, <1>3

\* Taking a phase away changes which part of the period is left.
LEMMA Wraps ==
  ASSUME NEW e \in Nat, NEW limit \in Nat \ {0}, NEW other \in Nat \ {0},
         e >= limit
  PROVE  LET r == e % (limit + other)
             s == (e - limit) % (limit + other)
         IN /\ r \in Nat /\ r < limit + other 
            /\ r < limit => s = r + other
            /\ r >= limit => s = r - limit
<1> DEFINE n == limit + other
           r == e % n
           q == e \div n
<1>1. n \in Nat \ {0} /\ e - limit \in Nat
  OBVIOUS
<1>2. q \in Nat /\ r \in 0 .. n - 1 /\ e = n * q + r
  BY <1>1, Divided
<1>3. ASSUME r < limit PROVE (e - limit) % n = r + other
  <2>1. e - limit = n * (q - 1) + (r + other)
    BY <1>1, <1>2
  <2>2. q - 1 \in Int /\ r + other \in 0 .. n - 1
    BY <1>1, <1>2, <1>3
  <2> HIDE DEF n, r, q
  <2> QED
    BY <1>1, <2>1, <2>2, Remainder
<1>4. ASSUME r >= limit PROVE (e - limit) % n = r - limit
  <2>1. e - limit = n * q + (r - limit)
    BY <1>1, <1>2
  <2>2. q \in Int /\ r - limit \in 0 .. n - 1
    BY <1>1, <1>2, <1>4
  <2> HIDE DEF n, r, q
  <2> QED
    BY <1>1, <2>1, <2>2, Remainder
<1>5. r \in Nat /\ r < n
  BY <1>1, <1>2
<1> QED
  BY <1>3, <1>4, <1>5

LEMMA PhaseOfFlash ==
  ASSUME NEW e \in Nat, NEW o \in BOOLEAN
  PROVE  PhaseOf[Flash(e, o)] = IF (e % Period) < PhaseMs(o)
                                THEN Flash(e % Period, o)
                                ELSE Flash((e % Period) - PhaseMs(o), ~o)
BY FlashTyped DEF PhaseOf

LEMMA PhaseOfRecurs ==
  ASSUME NEW e \in Nat, NEW o \in BOOLEAN
  PROVE  PhaseOf[Flash(e, o)] = IF e < PhaseMs(o) THEN Flash(e, o)
                               ELSE PhaseOf[Flash(e - PhaseMs(o), ~o)]
<1> DEFINE limit == PhaseMs(o)
           other == PhaseMs(~o)
           dark == ~o
           r == e % Period
           s == (e - limit) % Period
<1>1. limit \in Nat \ {0} /\ other \in Nat \ {0} /\ Period = limit + other
      /\ dark \in BOOLEAN
  BY PhaseTimes
<1>2. PhaseOf[Flash(e, o)]
        = IF r < limit THEN Flash(r, o) ELSE Flash(r - limit, dark)
  BY PhaseOfFlash
<1>3. CASE e < limit
  <2>1. r = e
    BY <1>1, <1>3
  <2> QED
    BY <1>2, <1>3, <2>1
<1>4. CASE e >= limit
  <2>1. e - limit \in Nat
    BY <1>1, <1>4
  <2>2. PhaseOf[Flash(e - limit, dark)]
          = IF s < other THEN Flash(s, dark) ELSE Flash(s - other, o)
    <3>1. PhaseMs(dark) = other /\ (~dark) = o
      BY PhaseTimes
    <3> HIDE DEF limit, other, dark
    <3> QED
      BY <1>1, <2>1, <3>1, PhaseOfFlash DEF s
  <2>3. /\ r \in Nat /\ r < limit + other
        /\ r < limit => s = r + other
        /\ r >= limit => s = r - limit
    <3> HIDE DEF limit, other
    <3> QED
      BY <1>1, <1>4, Wraps DEF r, s
  <2>4. ~(e < limit)
    BY <1>1, <1>4
  <2> HIDE DEF limit, other, dark, r, s
  <2>5. PhaseOf[Flash(e, o)] = PhaseOf[Flash(e - limit, dark)]
    <3>1. CASE r < limit
      <4>1. ~(s < other) /\ s - other = r
        BY <1>1, <2>3, <3>1
      <4> QED
        BY <1>2, <2>2, <3>1, <4>1
    <3>2. CASE ~(r < limit)
      <4>1. s < other /\ s = r - limit
        BY <1>1, <2>3, <3>2
      <4> QED
        BY <1>2, <2>2, <3>2, <4>1
    <3> QED
      BY <3>1, <3>2
  <2> QED
    BY <2>4, <2>5 DEF limit, dark
<1> QED
  BY <1>1, <1>3, <1>4

\* Blinker::update's loop, one round of it.
LEMMA PhaseIs ==
  ASSUME NEW e \in Nat, NEW o \in BOOLEAN
  PROVE  Phase[Flash(e, o)] = IF e < PhaseMs(o) THEN Flash(e, o)
                               ELSE Phase[Flash(e - PhaseMs(o), ~o)]
<1> DEFINE Turn(f, led) ==
             IF led.elapsed < PhaseMs(led.output) THEN led ELSE f[NextPhase(led)]
<1>1. PhaseOf = [led \in Flashing |-> Turn(PhaseOf, led)]
  <2>1. ASSUME NEW led \in Flashing PROVE PhaseOf[led] = Turn(PhaseOf, led)
    <3>1. CASE led.elapsed < PhaseMs(led.output)
      BY <3>1, FlashingIsFlash, PhaseOfRecurs
    <3>2. CASE ~(led.elapsed < PhaseMs(led.output))
      <4>1. led.elapsed >= PhaseMs(led.output)
        BY <3>2, FlashingIsFlash, PhaseTimes
      <4> QED
      BY <3>2, <4>1, FlashingIsFlash, PhaseOfRecurs, NextFlash
    <3> QED
      BY <3>1, <3>2
  <2> QED
    BY <2>1 DEF PhaseOf
<1>2. \E f : f = [led \in Flashing |-> Turn(f, led)]
  BY <1>1
<1>3. Phase = [led \in Flashing |-> Turn(Phase, led)]
  BY <1>2 DEF Phase, NextPhase, Flashing
<1>4. Phase[Flash(e, o)] = Turn(Phase, Flash(e, o))
  BY <1>3, FlashTyped
<1>5. CASE e < PhaseMs(o)
  BY <1>4, <1>5, FlashTyped
<1>6. CASE ~(e < PhaseMs(o))
  <2>1. e >= PhaseMs(o)
    BY <1>6, PhaseTimes
  <2> QED
    BY <1>4, <1>6, <2>1, FlashTyped, NextFlash
<1> QED
  BY <1>5, <1>6

-----------------------------------------------------------------------------
(* The frames of one poll *)

Below(n) == 0 .. n - 1

\* A set with 0 in it, and with each number the next one, lacks no number:
\* a least one it lacked would come right after one that it has.
LEMMA CountingUp ==
  ASSUME NEW S, 0 \in S, \A n \in Nat : n \in S => n + 1 \in S
  PROVE  Nat \subseteq S
<1> DEFINE T == {Below(n) : n \in Nat \ S}
<1> SUFFICES ASSUME NEW k \in Nat \ S PROVE FALSE
  OBVIOUS
<1>1. T \subseteq FiniteSubsetsOf(Nat) /\ T # {}
  <2>1. ASSUME NEW n \in Nat PROVE Below(n) \in FiniteSubsetsOf(Nat)
    <3>1. IsFiniteSet(Below(n))
      BY FS_Interval DEF Below
    <3> QED
      BY <3>1 DEF Below, FiniteSubsetsOf
  <2> QED
    BY <2>1
<1>2. PICK x \in T : \A y \in T : ~(<<y, x>> \in StrictSubsetOrdering(Nat))
  <2> HIDE DEF T
  <2> QED
    BY <1>1, FS_StrictSubsetOrderingWellFounded, WFMin
<1>3. PICK n \in Nat \ S : x = Below(n)
  OBVIOUS
<1>4. n - 1 \in Nat /\ n - 1 + 1 = n
  BY <1>3
<1>5. n - 1 \notin S
  BY <1>4, <1>3
<1>6. Below(n - 1) \in T
  BY <1>4, <1>5
<1>7. <<Below(n - 1), x>> \in StrictSubsetOrdering(Nat)
  BY <1>3, <1>4 DEF Below, StrictSubsetOrdering
<1> QED
  BY <1>2, <1>6, <1>7

\* What one more frame makes of a poll that has come so far.
OneMore(done, request) ==
  LET one == Handled(done.ctx, request)
  IN  [ctx |-> one.ctx, sent |-> done.sent \o one.sent]

Start(ctx) == [ctx |-> ctx, sent |-> << >>]

\* f tells how far the poll is after each of its first n frames.
Handles(f, ctx, requests, n) ==
  f = [m \in 0 .. n |-> IF m = 0 THEN Start(ctx)
                        ELSE OneMore(f[m - 1], requests[m])]

LEMMA HandlesExists ==
  ASSUME NEW ctx, NEW requests
  PROVE  \A n \in Nat : \E f : Handles(f, ctx, requests, n)
<1> DEFINE S == {n \in Nat : \E f : Handles(f, ctx, requests, n)}
<1>1. 0 \in S
  <2> DEFINE f == [m \in 0 .. 0 |-> Start(ctx)]
  <2>1. Handles(f, ctx, requests, 0)
    BY DEF Handles
  <2> QED
    BY <2>1
<1>2. ASSUME NEW n \in Nat, n \in S PROVE n + 1 \in S
  <2>1. PICK f : Handles(f, ctx, requests, n)
    BY <1>2
  <2> DEFINE g == [m \in 0 .. n + 1 |->
                     IF m = n + 1 THEN OneMore(f[n], requests[n + 1]) ELSE f[m]]
             Turn(m) == IF m = 0 THEN Start(ctx)
                        ELSE OneMore(g[m - 1], requests[m])
  <2>2. ASSUME NEW m \in 0 .. n + 1 PROVE g[m] = Turn(m)
    <3>1. CASE m = n + 1
      <4>1. g[m - 1] = f[n] /\ m # 0 /\ g[m] = OneMore(f[n], requests[m])
        BY <3>1
      <4> QED
        BY <4>1
    <3>2. CASE m \in 0 .. n
      <4>1. f[m] = IF m = 0 THEN Start(ctx) ELSE OneMore(f[m - 1], requests[m])
        BY <2>1, <3>2 DEF Handles
      <4>2. g[m] = f[m] /\ (m # 0 => g[m - 1] = f[m - 1])
        BY <3>2
      <4> QED
        BY <4>1, <4>2
    <3> QED
      BY <3>1, <3>2
  <2>3. g = [m \in 0 .. n + 1 |-> Turn(m)]
    BY <2>2
  <2> HIDE DEF g
  <2>4. Handles(g, ctx, requests, n + 1)
    BY <2>3 DEF Handles
  <2> QED
    BY <2>4
<1>3. Nat \subseteq S
  <2> HIDE DEF S
  <2> QED
    BY <1>1, <1>2, CountingUp
<1> QED
  BY <1>3

\* CommMgr::poll() takes the frames one after the other.
LEMMA HandledInTurn ==
  ASSUME NEW ctx, NEW requests \in Seq(Frames)
  PROVE  \E f : /\ f[0] = Start(ctx)
                /\ \A n \in 1 .. Len(requests) :
                     f[n] = OneMore(f[n - 1], requests[n])
                /\ HandledAll(ctx, requests) = f[Len(requests)]
<1> DEFINE f == CHOOSE g : Handles(g, ctx, requests, Len(requests))
<1>1. Len(requests) \in Nat
  OBVIOUS
<1>2. Handles(f, ctx, requests, Len(requests))
  BY <1>1, HandlesExists
<1>3. HandledAll(ctx, requests) = f[Len(requests)]
  BY DEF HandledAll, Handles, OneMore, Start
<1> HIDE DEF f
<1>4. f[0] = Start(ctx)
  BY <1>1, <1>2 DEF Handles
<1>5. \A n \in 1 .. Len(requests) : f[n] = OneMore(f[n - 1], requests[n])
  BY <1>1, <1>2 DEF Handles
<1> QED
  BY <1>3, <1>4, <1>5

\* What every frame keeps true of the context, and of what is sent, a poll
\* keeps true.
LEMMA HandledKeeps ==
  ASSUME NEW C, NEW A, NEW ctx \in C, NEW requests \in Seq(Frames),
         \A c \in C, r \in Frames : /\ Handled(c, r).ctx \in C
                                    /\ Handled(c, r).sent \in Seq(A)
  PROVE  /\ HandledAll(ctx, requests).ctx \in C
         /\ HandledAll(ctx, requests).sent \in Seq(A)
<1>1. PICK f : /\ f[0] = Start(ctx)
               /\ \A n \in 1 .. Len(requests) :
                    f[n] = OneMore(f[n - 1], requests[n])
               /\ HandledAll(ctx, requests) = f[Len(requests)]
  BY HandledInTurn
<1> DEFINE S == {n \in Nat : n <= Len(requests)
                               => f[n].ctx \in C /\ f[n].sent \in Seq(A)}
<1>2. 0 \in S
  <2>1. f[0].ctx = ctx /\ f[0].sent = << >>
    BY <1>1 DEF Start
  <2>2. << >> \in Seq(A)
    OBVIOUS
  <2> QED
    BY <2>1, <2>2
<1>3. ASSUME NEW n \in Nat, n \in S PROVE n + 1 \in S
  <2> SUFFICES ASSUME n + 1 <= Len(requests)
               PROVE  f[n + 1].ctx \in C /\ f[n + 1].sent \in Seq(A)
    OBVIOUS
  <2>1. n <= Len(requests) /\ n + 1 \in 1 .. Len(requests) /\ n + 1 - 1 = n
    OBVIOUS
  <2>2. f[n].ctx \in C /\ f[n].sent \in Seq(A)
    BY <1>3, <2>1
  <2>3. requests[n + 1] \in Frames
    BY <2>1
  <2>4. f[n + 1] = OneMore(f[n], requests[n + 1])
    BY <1>1, <2>1
  <2> DEFINE one == Handled(f[n].ctx, requests[n + 1])
  <2>5. one.ctx \in C /\ one.sent \in Seq(A)
    BY <2>2, <2>3
  <2>6. f[n + 1] = [ctx |-> one.ctx, sent |-> f[n].sent \o one.sent]
    BY <2>4 DEF OneMore
  <2> HIDE DEF one
  <2> QED
    BY <2>2, <2>5, <2>6
<1>4. Nat \subseteq S
  <2> HIDE DEF S
  <2> QED
    BY <1>2, <1>3, CountingUp
<1>5. Len(requests) \in Nat
  OBVIOUS
<1> QED
  BY <1>1, <1>4, <1>5

\* A context whose store is one of these, seen through this view.
Contexts(stores, view) ==
  [host : HostRecord, faults : stores, reset : BOOLEAN, view : {view}]

\* SET_LAMP adds one lamp of the ten, and drives that lamp only.
LEMMA SetLampExecuted ==
  ASSUME NEW stores, NEW view, NEW ctx \in Contexts(stores, view),
         NEW request \in Frames, request.cmd = "SetLamp", ~BadLamp(request)
  PROVE  LET after == Executed(ctx, request)
         IN  /\ after \in Contexts(stores, view)
             /\ after.host.mask = ctx.host.mask \cup {request.lamp}
             /\ after.host.drives
                  = [ctx.host.drives EXCEPT ![request.lamp] =
                       IF request.on THEN "On" ELSE "Off"]
<1> DEFINE after == Executed(ctx, request)
           drive == IF request.on THEN "On" ELSE "Off"
<1>1. request.lamp \in LampId
  BY DEF BadLamp, Frames
<1>2. drive \in LampDrive
  BY DEF LampDrive
<1>3. after = [ctx EXCEPT !.host.mask = @ \cup {request.lamp},
                          !.host.drives[request.lamp] = drive]
  BY DEF Executed
<1> HIDE DEF after, drive
<1>4. ctx.host.mask \in SUBSET LampId /\ ctx.host.drives \in LampState
  BY DEF Contexts, HostRecord
<1>5. /\ after.host.mask = ctx.host.mask \cup {request.lamp}
      /\ after.host.drives = [ctx.host.drives EXCEPT ![request.lamp] = drive]
  BY <1>3 DEF Contexts, HostRecord
<1>6. after \in Contexts(stores, view)
  BY <1>1, <1>2, <1>3 DEF Contexts, HostRecord, LampState
<1> QED
  BY <1>5, <1>6 DEF after, drive

\* The other commands leave mask and drives alone, and CLEAR_DTC is the only
\* one that touches the store.
LEMMA OthersExecuted ==
  ASSUME NEW stores, EmptyStore \in stores, NEW view,
         NEW ctx \in Contexts(stores, view), NEW request \in Frames,
         ~(request.cmd = "SetLamp" /\ ~BadLamp(request))
  PROVE  /\ Executed(ctx, request) \in Contexts(stores, view)
         /\ Executed(ctx, request).host.mask = ctx.host.mask
         /\ Executed(ctx, request).host.drives = ctx.host.drives
<1>1. CASE BadLamp(request)
  BY <1>1 DEF Executed, BadLamp
<1>2. CASE request.cmd = "DoorLock"
  BY <1>2 DEF Executed, BadLamp, Contexts, HostRecord
<1>3. CASE request.cmd = "DoorUnlock"
  BY <1>3 DEF Executed, BadLamp, Contexts, HostRecord
<1>4. CASE request.cmd = "ClearDtc"
  BY <1>4 DEF Executed, BadLamp, Contexts
<1>5. CASE request.cmd = "Reset"
  BY <1>5 DEF Executed, BadLamp, Contexts
<1>6. CASE /\ ~BadLamp(request)
           /\ request.cmd \notin {"DoorLock", "DoorUnlock", "ClearDtc", "Reset"}
  BY <1>6 DEF Executed
<1> QED
  BY <1>1, <1>2, <1>3, <1>4, <1>5, <1>6

LEMMA ExecutedTyped ==
  ASSUME NEW stores, EmptyStore \in stores, NEW view,
         NEW ctx \in Contexts(stores, view), NEW request \in Frames
  PROVE  Executed(ctx, request) \in Contexts(stores, view)
BY SetLampExecuted, OthersExecuted

\* What may be sent: an answer of a handler, or the status that stands for it.
Given(stores, view) ==
  {Answered(ctx, request) : ctx \in Contexts(stores, view), request \in Frames}
    \cup {Plain(request, Verdict(request)) :
            request \in {r \in Frames :
                           Verdict(r) \in {"UnknownCmd", "BadLength"}}}

LEMMA HandledTyped ==
  ASSUME NEW stores, EmptyStore \in stores, NEW view,
         NEW ctx \in Contexts(stores, view), NEW request \in Frames
  PROVE  /\ Handled(ctx, request).ctx \in Contexts(stores, view)
         /\ Handled(ctx, request).sent \in Seq(Given(stores, view))
<1>1. ASSUME NEW a \in Given(stores, view)
      PROVE  Sent(a) \in Seq(Given(stores, view))
  BY <1>1 DEF Sent
<1>2. << >> \in Seq(Given(stores, view))
  OBVIOUS
<1>3. CASE Verdict(request) = "Silent"
  BY <1>2, <1>3 DEF Handled
<1>4. CASE Verdict(request) \in {"UnknownCmd", "BadLength"}
  <2>1. Plain(request, Verdict(request)) \in Given(stores, view)
    BY <1>4 DEF Given
  <2>2. Handled(ctx, request)
          = [ctx |-> ctx, sent |-> Sent(Plain(request, Verdict(request)))]
    BY <1>4 DEF Handled
  <2> QED
    BY <1>1, <2>1, <2>2
<1>5. CASE Verdict(request) = "Ok"
  <2>1. Answered(ctx, request) \in Given(stores, view)
    BY DEF Given
  <2>2. Handled(ctx, request)
          = [ ctx |-> Executed(ctx, request),
              sent |-> Sent(Answered(ctx, request)) ]
    BY <1>5 DEF Handled
  <2> QED
    BY <1>1, <2>1, <2>2, ExecutedTyped
<1>6. Verdict(request) \in {"Silent", "UnknownCmd", "BadLength", "Ok"}
  BY DEF Verdict
<1> QED
  BY <1>3, <1>4, <1>5, <1>6

\* A poll keeps the context well typed, and its store among the stores that
\* CLEAR_DTC may leave; what it sends are answers under that view.
LEMMA PollTyped ==
  ASSUME NEW stores, EmptyStore \in stores, NEW view,
         NEW ctx \in Contexts(stores, view), NEW requests \in Seq(Frames)
  PROVE  /\ HandledAll(ctx, requests).ctx \in Contexts(stores, view)
         /\ HandledAll(ctx, requests).sent \in Seq(Given(stores, view))
<1>1. \A c \in Contexts(stores, view), r \in Frames :
         /\ Handled(c, r).ctx \in Contexts(stores, view)
         /\ Handled(c, r).sent \in Seq(Given(stores, view))
  BY HandledTyped
<1> QED
  BY <1>1, HandledKeeps

-----------------------------------------------------------------------------
(* The parts of a cycle keep the application sound *)

LEMMA CycleNatural == CycleMs \in Nat
BY AppConfig, DtAssumption

LEMMA SampledTyped ==
  ASSUME NEW b \in ButtonRecord, NEW raw \in BOOLEAN
  PROVE  Sampled(b, raw, CycleMs) \in ButtonRecord
<1> DEFINE sum == Saturated(b.elapsed + CycleMs)
<1>1. sum \in Nat
  BY CycleNatural DEF Saturated, ButtonRecord
<1> HIDE DEF sum
<1>2. CASE raw # b.candidate
  BY <1>2 DEF Sampled, ButtonRecord
<1>3. CASE raw = b.candidate /\ raw = b.state
  BY <1>3 DEF Sampled, ButtonRecord
<1>4. CASE raw = b.candidate /\ raw # b.state /\ sum < DebounceMs
  <2>1. Sampled(b, raw, CycleMs) = [b EXCEPT !.elapsed = sum]
    BY <1>1, <1>4, DriverConfig DEF Sampled, sum, ButtonRecord
  <2> QED
    BY <1>1, <2>1 DEF ButtonRecord
<1>5. CASE raw = b.candidate /\ raw # b.state /\ ~(sum < DebounceMs)
  BY <1>1, <1>5, DriverConfig DEF Sampled, ButtonRecord, FreshButton, sum
<1> QED
  BY <1>2, <1>3, <1>4, <1>5

LEMMA FilteredTyped ==
  ASSUME NEW filter \in FilterRecord, NEW sample \in Nat
  PROVE  /\ Filtered(filter, sample) \in FilterRecord
         /\ Permille(Filtered(filter, sample)) \in Nat
<1>1. ASSUME NEW a \in Nat, NEW n \in Nat \ {0}
      PROVE  a \div n \in Nat /\ a \div n <= a
  OBVIOUS
<1>2. Filtered(filter, sample) \in FilterRecord
  <2>1. filter.acc - (filter.acc \div FilterWeight) + sample \in Nat
    BY <1>1, DriverConfig DEF FilterRecord
  <2>2. sample * FilterWeight \in Nat
    BY DriverConfig
  <2> QED
    BY <2>1, <2>2 DEF Filtered, FilterRecord
<1> QED
  BY <1>1, <1>2, DriverConfig DEF Permille, FilterRecord

\* The core is told levels and a reading.
LEMMA GatheredReadable ==
  ASSUME AppSound, NEW open \in DoorContacts
  PROVE  GatheredInputs(open) \in Readable
BY LevelBoolean, AppConfig DEF GatheredInputs, Readable, AppSound

\* What the control task makes of a cycle, whatever the door contact says.
LEMMA CycleTaken ==
  ASSUME AppSound, StepCore
  PROVE  \E open \in DoorContacts :
           /\ GatheredInputs(open) \in Readable
           /\ Step(GatheredInputs(open), link.lost, CycleMs)
<1>1. PICK open \in DoorContacts : Step(GatheredInputs(open), link.lost, CycleMs)
  BY DEF StepCore
<1> QED
  BY <1>1, GatheredReadable

Stores == {store \in Seq(DtcEntry) : SoundStore(store)}

LEMMA GatherSound ==
  ASSUME AppSound, NEW levels, NEW overrun, GatherInputs(levels, overrun)
  PROVE  AppSound'
<1>1. ManagersSound'
  BY DEF GatherInputs, coreVars, AppSound, ManagersSound
<1>2. LampsObeyRules'
  BY DEF GatherInputs, coreVars, AppSound, LampsObeyRules, Lit, Conditions,
         LampsPermitted
<1>3. SoundStore(faults')
  BY SetFaultSound DEF GatherInputs, AppSound, Dtc
<1>4. buttons' \in [Pins -> ButtonRecord]
  <2>1. ASSUME NEW pin \in Pins
        PROVE  Sampled(buttons[pin], pin \in levels, CycleMs) \in ButtonRecord
    BY SampledTyped, LevelBoolean DEF AppSound
  <2> QED
    BY <2>1 DEF GatherInputs
<1> QED
  BY <1>1, <1>2, <1>3, <1>4 DEF GatherInputs, AppSound, coreVars, senseVars

LEMMA CycleSound ==
  ASSUME AppSound, StepCore
  PROVE  AppSound'
<1>0. PICK open \in DoorContacts :
        /\ GatheredInputs(open) \in Readable
        /\ Step(GatheredInputs(open), link.lost, CycleMs)
  BY CycleTaken
<1>1. link.lost \in BOOLEAN /\ CycleMs \in Nat
  BY CycleNatural DEF AppSound
<1>2. ManagersSound' /\ LampsObeyRules'
  BY <1>0, <1>1, StepSound, StepLamps DEF AppSound
<1>3. SoundStore(faults')
  BY <1>0, <1>1, StepStore DEF AppSound
<1>4. host' \in HostRecord /\ first_cycle' = FALSE
  BY <1>0 DEF Step, AppSound, HostRecord
<1> QED
  BY <1>2, <1>3, <1>4 DEF StepCore, AppSound, senseVars

\* The context of a poll, and what the poll leaves of it.
LEMMA ContextTyped ==
  ASSUME AppSound, NEW stores, faults \in stores
  PROVE  Context \in Contexts(stores, Context.view)
BY DEF Context, Contexts, AppSound

LEMMA EmptyAmongStores == EmptyStore \in Stores
BY FaultConfig DEF EmptyStore, Stores, SoundStore, NoDuplicates

LEMMA PollSound ==
  ASSUME AppSound, NEW requests \in Seq(Frames), Poll(requests)
  PROVE  AppSound'
<1> DEFINE done == HandledAll(Context, requests)
<1>1. done.ctx \in Contexts(Stores, Context.view)
  <2>1. faults \in Stores
    BY DEF Stores, AppSound, SoundStore
  <2> QED
    BY <2>1, ContextTyped, EmptyAmongStores, PollTyped
<1>2. host' = done.ctx.host /\ faults' = done.ctx.faults
  BY DEF Poll
<1> HIDE DEF done
<1>3. host' \in HostRecord /\ SoundStore(faults')
  BY <1>1, <1>2 DEF Contexts, Stores
<1>4. ManagersSound'
  BY DEF Poll, AppSound, ManagersSound
<1>5. LampsObeyRules'
  BY DEF Poll, AppSound, LampsObeyRules, Lit, Conditions, LampsPermitted
<1>6. link'.lost \in BOOLEAN
  BY DEF Poll, AppSound, Polled, Expires
<1>7. due' \in Nat
  <2>1. due' = due - 1 /\ at = "poll"
    BY DEF Poll
  <2> QED
    BY <2>1 DEF AppSound
<1>8. at' \in {"gather", "reset"}
  BY DEF Poll
<1> QED
  BY <1>3, <1>4, <1>5, <1>6, <1>7, <1>8 DEF Poll, AppSound, pinVars

LEMMA SampleSound ==
  ASSUME AppSound, NEW raw \in Nat, SampleBattery(raw)
  PROVE  AppSound'
<1>1. UNCHANGED <<vars, at, buttons, link>>
  BY DEF SampleBattery, pinVars
<1>2. ManagersSound' /\ LampsObeyRules' /\ SoundStore(faults')
  BY <1>1 DEF vars, managers, coreVars, AppSound, ManagersSound, LampsObeyRules,
              Lit, Conditions, LampsPermitted
<1>3. battery' \in FilterRecord /\ measured' \in Nat
  BY FilteredTyped DEF SampleBattery, AppSound
<1>4. due' \in Nat /\ at' = "gather"
  BY AppConfig DEF SampleBattery
<1> QED
  BY <1>1, <1>2, <1>3, <1>4 DEF vars, coreVars, AppSound

\* Whatever happens next, pin and frame by pin and frame.
LEMMA AppCases ==
  ASSUME [AppNext]_appHistory
  PROVE  \/ \E levels \in Levels, overrun \in BOOLEAN : HGather(levels, overrun)
         \/ HStepCore
         \/ \E requests \in Seq(Frames) : HPoll(requests)
         \/ \E raw \in Nat : HSampleBattery(raw)
         \/ \E levels \in Levels : HBoot(levels)
         \/ UNCHANGED <<appVars, histories>>
<1>1. 0 .. AdcFullScale \subseteq Nat
  BY DriverConfig
<1> QED
  BY <1>1 DEF AppNext, appHistory

LEMMA BootSound ==
  ASSUME NEW levels, HBoot(levels)
  PROVE  AppSound'
<1>1. Restarted(levels, FALSE) \/ Restarted(levels, TRUE)
  BY DEF HBoot, HostReset, WatchdogReset
<1> QED
  BY <1>1, RestartSound

LEMMA AppStepSound ==
  ASSUME AppSound, [AppNext]_appHistory
  PROVE  AppSound'
<1>1. CASE \E levels \in Levels, overrun \in BOOLEAN : HGather(levels, overrun)
  BY <1>1, GatherSound DEF HGather
<1>2. CASE HStepCore
  BY <1>2, CycleSound DEF HStepCore
<1>3. CASE \E requests \in Seq(Frames) : HPoll(requests)
  BY <1>3, PollSound DEF HPoll
<1>4. CASE \E raw \in Nat : HSampleBattery(raw)
  BY <1>4, SampleSound DEF HSampleBattery
<1>5. CASE \E levels \in Levels : HBoot(levels)
  BY <1>5, BootSound
<1>6. CASE UNCHANGED <<appVars, histories>>
  BY <1>6 DEF appVars, vars, managers, coreVars, pinVars, senseVars, AppSound,
              ManagersSound, LampsObeyRules, Lit, Conditions, LampsPermitted
<1> QED
  BY <1>1, <1>2, <1>3, <1>4, <1>5, <1>6, AppCases

\* Started anywhere, whatever the pins, the host and the sensor do, and
\* wherever the watchdog bites, everything the application keeps is typed,
\* the managers and the store are sound, and the lamps obey the rules.
THEOREM AppAlwaysSound == AppSpec => []AppSound
<1>1. ASSUME NEW levels \in Levels, AppInit(levels) PROVE AppSound
  BY <1>1, FreshAppSound
<1>2. (\E levels \in Levels : AppInit(levels) /\ HistoryStart(levels)) => AppSound
  BY <1>1
<1>3. AppSound /\ [AppNext]_appHistory => AppSound'
  BY AppStepSound
<1> QED
  BY <1>2, <1>3, PTL DEF AppSpec

\* ManagersConsistent and LampsObeyRules of BcmCore, for the core as the
\* application uses it: with debounced pins and filtered readings of any
\* height for inputs, several frames of the host between two cycles, and
\* restarts at any point.
THEOREM AppLampsObeyRules == AppSpec => [](ManagersConsistent /\ LampsObeyRules)
<1>1. AppSound => ManagersConsistent /\ LampsObeyRules
  BY DEF AppSound, ManagersSound, ManagersConsistent, SoundDoor, SoundPower,
         SoundLighting, SoundHorn
<1> QED
  BY <1>1, AppAlwaysSound, PTL

-----------------------------------------------------------------------------
(* The pins *)

\* The debouncer tells of a pin what its history does: its candidate is the
\* level at the pin, it has counted for how long that level has been there,
\* and the level it gives out is the last steady one.
Debounced(b, past) ==
  /\ b.candidate = past.level
  /\ b.state = past.steady
  /\ past.ms \in 0 .. DebounceMs
  /\ past.level = past.steady => b.elapsed = 0
  /\ past.level # past.steady => b.elapsed = past.ms /\ past.ms < DebounceMs

PastRecord == [level : BOOLEAN, ms : Nat, steady : BOOLEAN]

PinsFollowed ==
  /\ pin_past \in [Pins -> PastRecord]
  /\ \A pin \in Pins : Debounced(buttons[pin], pin_past[pin])
  /\ at = "poll" =>
       /\ \A pin \in Pins : inputs[pin] = buttons[pin].state
       /\ leds["Brake"].output = inputs["brake"]

LEMMA FreshDebounced ==
  ASSUME NEW levels, NEW pin \in Pins
  PROVE  /\ FreshPast(levels)[pin] \in PastRecord
         /\ Debounced(FreshButton(pin \in levels), FreshPast(levels)[pin])
<1> DEFINE level == pin \in levels
<1>1. level \in BOOLEAN /\ DebounceMs \in Nat
  BY DriverConfig
<1>2. FreshPast(levels)[pin]
        = [level |-> level, ms |-> DebounceMs, steady |-> level]
  BY DEF FreshPast
<1> HIDE DEF level
<1>3. FreshButton(level) = [state |-> level, candidate |-> level, elapsed |-> 0]
  BY DEF FreshButton
<1>4. Debounced(FreshButton(level), FreshPast(levels)[pin])
  BY <1>1, <1>2, <1>3 DEF Debounced
<1> QED
  BY <1>1, <1>2, <1>4 DEF PastRecord, level

\* One sample. The counter has 16 bits, the time it has to reach fits them.
LEMMA SampleDebounced ==
  ASSUME DebounceMs <= 65535, NEW b \in ButtonRecord, NEW past \in PastRecord,
         Debounced(b, past), NEW level \in BOOLEAN
  PROVE  /\ Watched(past, level) \in PastRecord
         /\ Debounced(Sampled(b, level, CycleMs), Watched(past, level))
<1> DEFINE sum == Saturated(b.elapsed + CycleMs)
           ms == Watched(past, level).ms
<1>1. sum \in Nat /\ ms \in 0 .. DebounceMs /\ DebounceMs \in Nat \ {0}
  BY CycleNatural, DriverConfig DEF Saturated, ButtonRecord, Watched, Debounced,
                                    PastRecord
<1>2. Watched(past, level)
        = [level |-> level, ms |-> ms,
           steady |-> IF ms >= DebounceMs THEN level ELSE past.steady]
  BY DEF Watched
<1>3. Watched(past, level) \in PastRecord
  <2> HIDE DEF ms
  <2> QED
    BY <1>1, <1>2 DEF PastRecord
<1>4. CASE level # past.level
  <2>1. ms = 0
    BY <1>4 DEF Watched
  <2>2. Sampled(b, level, CycleMs) = [b EXCEPT !.candidate = level, !.elapsed = 0]
    BY <1>4 DEF Sampled, Debounced
  <2> HIDE DEF ms
  <2> QED
    BY <1>1, <1>2, <1>3, <2>1, <2>2 DEF Debounced, ButtonRecord, PastRecord
<1>5. CASE level = past.level /\ level = past.steady
  <2>1. Sampled(b, level, CycleMs) = [b EXCEPT !.elapsed = 0]
    BY <1>5 DEF Sampled, Debounced, ButtonRecord
  <2> HIDE DEF ms
  <2> QED
    BY <1>1, <1>2, <1>3, <1>5, <2>1 DEF Debounced, ButtonRecord, PastRecord
<1>6. CASE level = past.level /\ level # past.steady
  <2>1. /\ b.elapsed = past.ms /\ past.ms < DebounceMs
        /\ level = b.candidate /\ level # b.state
    BY <1>6 DEF Debounced
  <2>2. /\ sum < DebounceMs => ms = sum /\ ms < DebounceMs
        /\ sum >= DebounceMs => ms = DebounceMs
    BY <1>1, <1>6, <2>1, CycleNatural DEF Saturated, Watched, PastRecord
  <2>3. CASE sum < DebounceMs
    <3>1. Sampled(b, level, CycleMs) = [b EXCEPT !.elapsed = sum]
      BY <1>1, <2>1, <2>3 DEF Sampled, ButtonRecord
    <3> HIDE DEF ms, sum
    <3> QED
      BY <1>1, <1>2, <1>3, <1>6, <2>1, <2>2, <2>3, <3>1
         DEF Debounced, ButtonRecord, PastRecord
  <2>4. CASE ~(sum < DebounceMs)
    <3>1. sum >= DebounceMs
      BY <1>1, <2>4
    <3>2. Sampled(b, level, CycleMs) = FreshButton(level)
      BY <1>1, <2>1, <3>1 DEF Sampled, ButtonRecord
    <3> HIDE DEF ms, sum
    <3> QED
      BY <1>1, <1>2, <1>3, <1>6, <2>2, <3>1, <3>2
         DEF Debounced, ButtonRecord, PastRecord, FreshButton
  <2> QED
    BY <2>3, <2>4
<1> QED
  BY <1>4, <1>5, <1>6, <1>3

\* What the core hears of the pins is what the debouncers give out.
LEMMA CycleHears ==
  ASSUME AppSound, StepCore
  PROVE  \A pin \in Pins : inputs'[pin] = buttons[pin].state
<1>1. PICK open \in DoorContacts : inputs' = GatheredInputs(open)
  BY CycleTaken DEF Step
<1>2. ASSUME NEW pin \in Pins PROVE GatheredInputs(open)[pin] = (pin \in Pressed)
  BY DEF Pins, GatheredInputs
<1>3. ASSUME NEW pin \in Pins PROVE (pin \in Pressed) = buttons[pin].state
  BY DEF Pressed, AppSound, ButtonRecord
<1> QED
  BY <1>1, <1>2, <1>3

\* The brake lamp is driven as the pedal of the same cycle is.
LEMMA CycleLightsBrake ==
  ASSUME AppSound, StepCore
  PROVE  /\ inputs'["brake"] \in BOOLEAN
         /\ inputs'["brake"] => lamps'["Brake"] = "On"
         /\ ~inputs'["brake"] => lamps'["Brake"] = "Off"
<1>1. /\ LampsObeyRules' /\ first_cycle' = FALSE
      /\ inputs'["brake"] \in BOOLEAN
  BY CycleSound, CycleHears DEF AppSound, StepCore, Step, Pins, ButtonRecord
<1>2. "Brake" \in LampId
  BY DEF LampId
<1> QED
  BY <1>1, <1>2 DEF LampsObeyRules, Lit, Allowed, Conditions

\* So is its pin.
LEMMA CycleDrivesBrake ==
  ASSUME AppSound, StepCore
  PROVE  leds'["Brake"].output = inputs'["brake"]
<1>1. /\ inputs'["brake"] \in BOOLEAN
      /\ inputs'["brake"] => lamps'["Brake"] = "On"
      /\ ~inputs'["brake"] => lamps'["Brake"] = "Off"
  BY CycleLightsBrake
<1>2. leds'["Brake"] = Driven(leds["Brake"], lamps'["Brake"], CycleMs)
  BY DEF StepCore, LampId
<1>3. CASE inputs'["brake"] = TRUE
  <2>1. leds'["Brake"] = Steady(TRUE)
    BY <1>1, <1>2, <1>3 DEF Driven
  <2>2. Steady(TRUE).output = TRUE
    BY DEF Steady
  <2> QED
    BY <1>3, <2>1, <2>2, Zenon
<1>4. CASE inputs'["brake"] = FALSE
  <2>1. leds'["Brake"] = Steady(FALSE)
    BY <1>1, <1>2, <1>4 DEF Driven
  <2>2. Steady(FALSE).output = FALSE
    BY DEF Steady
  <2> QED
    BY <1>4, <2>1, <2>2, Zenon
<1> QED
  BY <1>1, <1>3, <1>4

\* A board that starts again, asked to or not, starts like a new one.
LEMMA BootFresh ==
  ASSUME NEW levels, HBoot(levels)
  PROVE  /\ buttons' = [pin \in Pins |-> FreshButton(pin \in levels)]
         /\ pin_past' = FreshPast(levels) /\ at' = "gather"
BY DEF HBoot, HostReset, WatchdogReset, Restarted

LEMMA PinsBoot ==
  ASSUME NEW levels, HBoot(levels)
  PROVE  PinsFollowed'
<1>1. FreshPast(levels) \in [Pins -> PastRecord]
  BY FreshDebounced DEF FreshPast
<1> QED
  BY <1>1, BootFresh, FreshDebounced DEF PinsFollowed

LEMMA PinsStep ==
  ASSUME DebounceMs <= 65535, AppSound, PinsFollowed, [AppNext]_appHistory
  PROVE  PinsFollowed'
<1>1. ASSUME NEW levels \in Levels, NEW overrun, HGather(levels, overrun)
      PROVE  PinsFollowed'
  <2>1. ASSUME NEW pin \in Pins
        PROVE  /\ pin_past'[pin] = Watched(pin_past[pin], pin \in levels)
               /\ buttons'[pin] = Sampled(buttons[pin], pin \in levels, CycleMs)
               /\ Watched(pin_past[pin], pin \in levels) \in PastRecord
               /\ Debounced(buttons'[pin], pin_past'[pin])
    <3> DEFINE level == pin \in levels
    <3>1. /\ buttons[pin] \in ButtonRecord /\ pin_past[pin] \in PastRecord
          /\ Debounced(buttons[pin], pin_past[pin]) /\ level \in BOOLEAN
      BY DEF AppSound, PinsFollowed
    <3>2. /\ pin_past'[pin] = Watched(pin_past[pin], level)
          /\ buttons'[pin] = Sampled(buttons[pin], level, CycleMs)
      BY <1>1 DEF HGather, GatherInputs
    <3> HIDE DEF level
    <3>3. /\ Watched(pin_past[pin], level) \in PastRecord
          /\ Debounced(buttons'[pin], pin_past'[pin])
      BY <3>1, <3>2, SampleDebounced
    <3> QED
      BY <3>2, <3>3 DEF level
  <2>2. pin_past' \in [Pins -> PastRecord]
    BY <1>1, <2>1 DEF HGather
  <2>3. at' = "core"
    BY <1>1 DEF HGather, GatherInputs
  <2> QED
    BY <2>1, <2>2, <2>3 DEF PinsFollowed
<1>2. CASE HStepCore
  <2>1. UNCHANGED <<buttons, pin_past>> /\ StepCore
    BY <1>2 DEF HStepCore, StepCore
  <2> QED
    BY <2>1, CycleHears, CycleDrivesBrake DEF PinsFollowed
<1>3. ASSUME NEW requests, HPoll(requests) PROVE PinsFollowed'
  <2>1. UNCHANGED <<buttons, pin_past>> /\ at' \in {"gather", "reset"}
    BY <1>3 DEF HPoll, Poll, pinVars
  <2> QED
    BY <2>1 DEF PinsFollowed
<1>4. ASSUME NEW raw, HSampleBattery(raw) PROVE PinsFollowed'
  <2>1. UNCHANGED <<buttons, pin_past>> /\ at' = "gather"
    BY <1>4 DEF HSampleBattery, SampleBattery, pinVars
  <2> QED
    BY <2>1 DEF PinsFollowed
<1>5. CASE \E levels \in Levels : HBoot(levels)
  BY <1>5, PinsBoot
<1>6. CASE UNCHANGED <<appVars, histories>>
  BY <1>6 DEF appVars, histories, pinVars, vars, coreVars, PinsFollowed
<1> QED
  BY <1>1, <1>2, <1>3, <1>4, <1>5, <1>6, AppCases

\* LampFollowsPedal of AppHistory: whatever the pins do, the core hears of
\* each, and the brake lamp's pin shows of the pedal, exactly the level that
\* has been steady for DebounceMs, in the very cycle in which it became so.
\* DebounceMs has to be within the reach of the 16-bit counter.
THEOREM LampAlwaysFollowsPedal ==
  ASSUME DebounceMs <= 65535
  PROVE  AppSpec => []LampFollowsPedal
<1>1. ASSUME NEW levels \in Levels, AppInit(levels), HistoryStart(levels)
      PROVE  PinsFollowed
  <2>1. FreshPast(levels) \in [Pins -> PastRecord]
    BY FreshDebounced DEF FreshPast
  <2> QED
    BY <1>1, <2>1, FreshDebounced DEF AppInit, HistoryStart, PinsFollowed
<1>2. (\E levels \in Levels : AppInit(levels) /\ HistoryStart(levels))
        => PinsFollowed
  BY <1>1
<1>3. AppSound /\ PinsFollowed /\ [AppNext]_appHistory => PinsFollowed'
  BY PinsStep
<1>4. PinsFollowed => LampFollowsPedal
  BY DEF PinsFollowed, Debounced, LampFollowsPedal, Pins
<1> QED
  BY <1>2, <1>3, <1>4, AppAlwaysSound, PTL DEF AppSpec

-----------------------------------------------------------------------------
(* The flashers *)

\* A cycle fits into each phase, and a phase and a cycle into the counter.
PhasesFit ==
  /\ CycleMs < BlinkOnMs /\ CycleMs <= BlinkOffMs
  /\ BlinkOnMs + CycleMs <= 65535 /\ BlinkOffMs + CycleMs <= 65535

\* A flasher is within its phase, and its pin has not been at this level for
\* longer than the phase has lasted; a lamp that does not flash has no time.
Flashes(led, ms) ==
  /\ led \in LedRecord /\ ms \in Nat
  /\ led.blinking => led.elapsed < PhaseMs(led.output) /\ ms <= led.elapsed
  /\ ~led.blinking => ms = 0

LampsFlash ==
  /\ leds \in [LampId -> LedRecord]
  /\ \A id \in LampId : Flashes(leds[id], still[id])

LEMMA PhaseFits ==
  ASSUME PhasesFit, NEW o \in BOOLEAN
  PROVE  /\ PhaseMs(o) \in Nat \ {0} /\ CycleMs <= PhaseMs(o)
         /\ PhaseMs(o) + CycleMs <= 65535
BY CycleNatural, DriverConfig DEF PhasesFit, PhaseMs

LEMMA FirstPhase == PhaseMs(TRUE) = BlinkOnMs
BY DEF PhaseMs

LEMMA SteadyTyped ==
  ASSUME NEW level \in BOOLEAN
  PROVE  /\ Steady(level) \in LedRecord
         /\ Steady(level).blinking = FALSE /\ Steady(level).output = level
BY DEF Steady, LedRecord

\* A cycle of a flasher is within its phase, or starts the other one.
LEMMA FlashAdvanced ==
  ASSUME PhasesFit, NEW e \in Nat, NEW o \in BOOLEAN, e < PhaseMs(o)
  PROVE  LET sum == e + CycleMs
         IN  \/ /\ sum < PhaseMs(o)
                /\ Phase[Flash(Saturated(sum), o)] = Flash(sum, o)
             \/ /\ sum >= PhaseMs(o)
                /\ sum - PhaseMs(o) \in Nat
                /\ sum - PhaseMs(o) < PhaseMs(~o)
                /\ Phase[Flash(Saturated(sum), o)] = Flash(sum - PhaseMs(o), ~o)
<1> DEFINE sum == e + CycleMs
           limit == PhaseMs(o)
           other == PhaseMs(~o)
           dark == ~o
<1>1. /\ limit \in Nat \ {0} /\ other \in Nat \ {0} /\ dark \in BOOLEAN
      /\ CycleMs <= other /\ limit + CycleMs <= 65535
  <2>1. dark \in BOOLEAN
    OBVIOUS
  <2> HIDE DEF dark
  <2>2. PhaseMs(dark) \in Nat \ {0} /\ CycleMs <= PhaseMs(dark)
    BY <2>1, PhaseFits
  <2> QED
    BY <2>1, <2>2, PhaseFits DEF dark
<1>2. e < limit /\ sum = e + CycleMs
  OBVIOUS
<1>3. sum \in Nat /\ Saturated(sum) = sum
  <2> HIDE DEF limit, other, dark
  <2> QED
    BY <1>1, <1>2, CycleNatural DEF Saturated
<1> HIDE DEF sum
<1>4. Phase[Flash(sum, o)]
        = IF sum < limit THEN Flash(sum, o) ELSE Phase[Flash(sum - limit, dark)]
  BY <1>3, PhaseIs
<1>5. CASE sum < limit
  BY <1>3, <1>4, <1>5 DEF sum
<1>6. CASE ~(sum < limit)
  <2>1. /\ sum >= limit /\ sum - limit \in Nat /\ sum - limit < other
    <3> HIDE DEF limit, other, dark
    <3> QED
      BY <1>1, <1>2, <1>3, <1>6, CycleNatural
  <2>2. Phase[Flash(sum - limit, dark)] = Flash(sum - limit, dark)
    <3>1. PhaseMs(dark) = other
      OBVIOUS
    <3> HIDE DEF limit, other, dark
    <3> QED
      BY <1>1, <2>1, <3>1, PhaseIs
  <2>3. Phase[Flash(Saturated(sum), o)] = Flash(sum - limit, dark)
    <3> HIDE DEF limit, other, dark
    <3> QED
      BY <1>3, <1>4, <1>6, <2>2
  <2> QED
    BY <2>1, <2>3 DEF sum
<1> QED
  BY <1>5, <1>6

\* One lamp's turn in a cycle, and the time its pin has not changed.
LEMMA DriveFlashes ==
  ASSUME PhasesFit, NEW led, NEW ms, Flashes(led, ms), NEW drive \in LampDrive,
         NEW next, next = Driven(led, drive, CycleMs), NEW after,
         after = CASE next.output # led.output -> 0
                   [] next.output = led.output /\ ~next.blinking -> 0
                   [] OTHER -> IF ms + CycleMs > StillCap THEN StillCap
                               ELSE ms + CycleMs
  PROVE  Flashes(next, after)
<1>1. CASE drive # "Blink"
  <2>1. next = Steady(TRUE) \/ next = Steady(FALSE)
    BY <1>1 DEF Driven, LampDrive
  <2>2. next \in LedRecord /\ next.blinking = FALSE
    BY <2>1, SteadyTyped
  <2>3. after = 0
    BY <2>2
  <2> QED
    BY <2>2, <2>3 DEF Flashes
<1>2. CASE drive = "Blink"
  <2> DEFINE from == StartBlink(led)
             e == from.elapsed
             o == from.output
             sum == e + CycleMs
  <2>1. /\ e \in Nat /\ o \in BOOLEAN /\ from.blinking = TRUE /\ e < PhaseMs(o)
        /\ led.output = o => ms <= e
    <3>1. CASE led.blinking
      BY <3>1 DEF StartBlink, Flashes, LedRecord
    <3>2. CASE ~led.blinking
      <4>1. from = Flash(0, TRUE)
        BY <3>2 DEF StartBlink
      <4>2. e = 0 /\ o = TRUE /\ from.blinking = TRUE
        BY <4>1 DEF Flash
      <4>3. ms = 0
        BY <3>2 DEF Flashes
      <4> HIDE DEF from, e, o
      <4>4. o \in BOOLEAN
        BY <4>2
      <4>5. PhaseMs(o) \in Nat \ {0}
        BY <4>4, PhaseFits
      <4>6. 0 < PhaseMs(o)
        BY <4>5
      <4>7. e \in Nat /\ e < PhaseMs(o)
        BY <4>2, <4>6
      <4>8. ms <= e
        BY <4>2, <4>3
      <4> QED
        BY <4>2, <4>4, <4>7, <4>8
    <3> QED
      BY <3>1, <3>2
  <2>2. next = Phase[Flash(Saturated(sum), o)]
    BY <1>2, <2>1 DEF Driven, Advanced
  <2>3. led.output \in BOOLEAN /\ ms \in Nat /\ CycleMs \in Nat
    BY CycleNatural DEF Flashes, LedRecord
  <2>4. led.blinking => led.output = o
    BY DEF StartBlink
  <2>5. ~led.blinking => e = 0 /\ PhaseMs(o) = BlinkOnMs
    BY FirstPhase DEF StartBlink, Flash
  <2> HIDE DEF from, e, o
  <2>6. CASE sum < PhaseMs(o) /\ next = Flash(sum, o)
    <3>1. next \in LedRecord /\ next.output = o /\ next.elapsed = sum
      BY <2>1, <2>3, <2>6 DEF Flash, LedRecord
    <3>2. after \in Nat /\ after <= sum
      <4>1. StillCap \in Nat
        BY CycleNatural, DriverConfig DEF StillCap
      <4>2. CASE next.output # led.output
        BY <2>1, <2>3, <4>2
      <4>3. CASE next.output = led.output
        <5>1. ms <= e
          BY <2>1, <3>1, <4>3
        <5>2. ms + CycleMs \in Nat /\ ms + CycleMs <= sum
          BY <2>1, <2>3, <5>1
        <5>3. after \in {0, StillCap, ms + CycleMs}
              /\ (after = StillCap => after <= ms + CycleMs)
          BY <2>3, <4>1, <5>2
        <5> QED
          BY <2>1, <2>3, <4>1, <5>2, <5>3
      <4> QED
        BY <4>2, <4>3
    <3>3. next.blinking = TRUE
      BY <2>6 DEF Flash
    <3> QED
      BY <2>6, <3>1, <3>2, <3>3 DEF Flashes
  <2>7. CASE /\ sum >= PhaseMs(o) /\ sum - PhaseMs(o) \in Nat
             /\ sum - PhaseMs(o) < PhaseMs(~o)
             /\ next = Flash(sum - PhaseMs(o), ~o)
    <3>1. led.blinking
      <4>1. CycleMs < BlinkOnMs
        BY DEF PhasesFit
      <4> QED
        BY <2>3, <2>5, <2>7, <4>1, DriverConfig
    <3>2. next.output # led.output
      BY <2>1, <2>4, <2>7, <3>1 DEF Flash
    <3>3. after = 0
      BY <3>2
    <3>4. /\ next \in LedRecord /\ next.blinking = TRUE
          /\ next.elapsed = sum - PhaseMs(o) /\ next.output = ~o
      BY <2>1, <2>7 DEF Flash, LedRecord
    <3> QED
      BY <2>7, <3>3, <3>4 DEF Flashes
  <2> QED
    BY <2>1, <2>2, <2>6, <2>7, FlashAdvanced
<1> QED
  BY <1>1, <1>2

LEMMA FlashBoot ==
  ASSUME NEW levels, HBoot(levels)
  PROVE  LampsFlash'
<1>1. /\ leds' = [id \in LampId |-> Steady(FALSE)]
      /\ still' = [id \in LampId |-> 0]
  BY DEF HBoot, HostReset, WatchdogReset, Restarted
<1> QED
  BY <1>1, SteadyTyped DEF LampsFlash, Flashes

LEMMA FlashStep ==
  ASSUME PhasesFit, AppSound, LampsFlash, [AppNext]_appHistory
  PROVE  LampsFlash'
<1>1. ASSUME NEW levels, NEW overrun, HGather(levels, overrun)
      PROVE  UNCHANGED <<leds, still>>
  BY <1>1 DEF HGather, GatherInputs
<1>2. CASE HStepCore
  <2>1. StepCore /\ still' = [id \in LampId |-> NextStill(id)]
    BY <1>2 DEF HStepCore
  <2>2. lamps' \in LampState
    BY <2>1, StepLampsTyped DEF StepCore, AppSound
  <2>3. leds' = [id \in LampId |-> Driven(leds[id], lamps'[id], CycleMs)]
    BY <2>1 DEF StepCore
  <2>4. ASSUME NEW id \in LampId PROVE Flashes(leds'[id], still'[id])
    <3>1. /\ leds'[id] = Driven(leds[id], lamps'[id], CycleMs)
          /\ still'[id] = NextStill(id)
          /\ lamps'[id] \in LampDrive /\ Flashes(leds[id], still[id])
      BY <2>1, <2>2, <2>3 DEF LampState, LampsFlash
    <3> QED
      BY <3>1, DriveFlashes DEF NextStill
  <2>5. leds' \in [LampId -> LedRecord]
    BY <2>3, <2>4 DEF Flashes
  <2> QED
    BY <2>4, <2>5 DEF LampsFlash
<1>3. ASSUME NEW requests, HPoll(requests) PROVE UNCHANGED <<leds, still>>
  BY <1>3 DEF HPoll, Poll, pinVars
<1>4. ASSUME NEW raw, HSampleBattery(raw) PROVE UNCHANGED <<leds, still>>
  BY <1>4 DEF HSampleBattery, SampleBattery, pinVars
<1>5. CASE \E levels \in Levels : HBoot(levels)
  BY <1>5, FlashBoot
<1>6. CASE UNCHANGED <<appVars, histories>>
  BY <1>6 DEF appVars, histories, pinVars, LampsFlash
<1>7. UNCHANGED <<leds, still>> => LampsFlash'
  BY DEF LampsFlash
<1> QED
  BY <1>1, <1>2, <1>3, <1>4, <1>5, <1>6, <1>7, AppCases

\* FlashersFlash of AppHistory: a lamp that is told to blink in every cycle
\* really flashes, whenever it was told first and whatever else it was told
\* before: its pin shows no level for longer than that phase lasts.
THEOREM FlashersAlwaysFlash ==
  ASSUME PhasesFit
  PROVE  AppSpec => []FlashersFlash
<1>1. ASSUME NEW levels \in Levels, AppInit(levels), HistoryStart(levels)
      PROVE  LampsFlash
  BY <1>1, SteadyTyped DEF AppInit, HistoryStart, LampsFlash, Flashes
<1>2. (\E levels \in Levels : AppInit(levels) /\ HistoryStart(levels))
        => LampsFlash
  BY <1>1
<1>3. AppSound /\ LampsFlash /\ [AppNext]_appHistory => LampsFlash'
  BY FlashStep
<1>4. LampsFlash => FlashersFlash
  <2> SUFFICES ASSUME LampsFlash, NEW id \in LampId, leds[id].blinking
               PROVE  still[id] < PhaseMs(leds[id].output)
    BY DEF FlashersFlash
  <2>1. /\ leds[id].output \in BOOLEAN /\ leds[id].elapsed \in Nat
        /\ still[id] \in Nat /\ still[id] <= leds[id].elapsed
        /\ leds[id].elapsed < PhaseMs(leds[id].output)
    BY DEF LampsFlash, Flashes, LedRecord
  <2>2. PhaseMs(leds[id].output) \in Nat
    BY <2>1, PhaseTimes
  <2> QED
    BY <2>1, <2>2
<1> QED
  BY <1>2, <1>3, <1>4, AppAlwaysSound, PTL DEF AppSpec

-----------------------------------------------------------------------------
(* What the host has written *)

OnOff(on) == IF on THEN "On" ELSE "Off"

\* What the host has been granted is in the mask, at the level it asked for.
HostKept ==
  /\ DOMAIN granted \subseteq host.mask
  /\ \A lamp \in DOMAIN granted :
       granted[lamp] \in BOOLEAN /\ host.drives[lamp] = OnOff(granted[lamp])
  /\ HostReadsItsWrites

\* One frame: a grant sets its lamp, nothing else takes a lamp out of the
\* mask or drives it otherwise.
LEMMA FrameGrants ==
  ASSUME NEW stores, EmptyStore \in stores, NEW view,
         NEW ctx \in Contexts(stores, view), NEW request \in Frames,
         NEW lamp \in LampId
  PROVE  LET after == Handled(ctx, request).ctx.host
         IN  /\ ctx.host.mask \subseteq after.mask
             /\ IF IsGrant(request) /\ request.lamp = lamp
                THEN lamp \in after.mask /\ after.drives[lamp] = OnOff(request.on)
                ELSE after.drives[lamp] = ctx.host.drives[lamp]
<1>1. CASE Verdict(request) # "Ok"
  <2>1. Handled(ctx, request).ctx = ctx
    BY <1>1 DEF Handled, Verdict
  <2> QED
    BY <1>1, <2>1 DEF IsGrant
<1>2. CASE Verdict(request) = "Ok"
  <2>1. Handled(ctx, request).ctx = Executed(ctx, request)
    BY <1>2 DEF Handled
  <2>2. CASE request.cmd = "SetLamp" /\ ~BadLamp(request)
    <3>1. /\ Executed(ctx, request).host.mask = ctx.host.mask \cup {request.lamp}
          /\ Executed(ctx, request).host.drives
               = [ctx.host.drives EXCEPT ![request.lamp] =
                    IF request.on THEN "On" ELSE "Off"]
      BY <2>2, SetLampExecuted
    <3>2. ctx.host.drives \in LampState
      BY DEF Contexts, HostRecord
    <3> QED
      BY <1>2, <2>1, <2>2, <3>1, <3>2 DEF IsGrant, OnOff, LampState
  <2>3. CASE ~(request.cmd = "SetLamp" /\ ~BadLamp(request))
    <3>1. /\ Executed(ctx, request).host.mask = ctx.host.mask
          /\ Executed(ctx, request).host.drives = ctx.host.drives
      BY <2>3, OthersExecuted
    <3> QED
      BY <2>1, <2>3, <3>1 DEF IsGrant
  <2> QED
    BY <2>2, <2>3
<1> QED
  BY <1>1, <1>2

\* The grants of a lamp among the first n frames of a poll.
GrantsUpTo(requests, lamp, n) == {i \in Grants(requests, lamp) : i <= n}

\* A lamp after these grants: as the last of them left it, or as it was.
AsGranted(before, after, requests, grants, lamp) ==
  /\ before.mask \subseteq after.mask
  /\ grants = {} => after.drives[lamp] = before.drives[lamp]
  /\ grants # {} =>
       \E i \in grants : /\ \A j \in grants : j <= i
                         /\ lamp \in after.mask
                         /\ after.drives[lamp] = OnOff(requests[i].on)

\* A poll leaves a lamp as the last grant in it asked for.
LEMMA PollGrants ==
  ASSUME NEW stores, EmptyStore \in stores, NEW view,
         NEW ctx \in Contexts(stores, view), NEW requests \in Seq(Frames),
         NEW lamp \in LampId
  PROVE  AsGranted(ctx.host, HandledAll(ctx, requests).ctx.host, requests,
                   Grants(requests, lamp), lamp)
<1>1. PICK f : /\ f[0] = Start(ctx)
               /\ \A n \in 1 .. Len(requests) :
                    f[n] = OneMore(f[n - 1], requests[n])
               /\ HandledAll(ctx, requests) = f[Len(requests)]
  BY HandledInTurn
<1> DEFINE Upto(n) == GrantsUpTo(requests, lamp, n)
           P(n) == /\ f[n].ctx \in Contexts(stores, view)
                   /\ AsGranted(ctx.host, f[n].ctx.host, requests, Upto(n), lamp)
           S == {n \in Nat : n <= Len(requests) => P(n)}
<1>2. Grants(requests, lamp) \subseteq 1 .. Len(requests) /\ Len(requests) \in Nat
  BY DEF Grants
<1>3. 0 \in S
  <2>1. f[0].ctx = ctx
    BY <1>1 DEF Start
  <2>2. Upto(0) = {}
    BY <1>2 DEF GrantsUpTo
  <2> HIDE DEF Upto
  <2> QED
    BY <2>1, <2>2 DEF AsGranted
<1>4. ASSUME NEW n \in Nat, n \in S PROVE n + 1 \in S
  <2> SUFFICES ASSUME n + 1 <= Len(requests) PROVE P(n + 1)
    OBVIOUS
  <2> DEFINE request == requests[n + 1]
             now == f[n].ctx
             next == f[n + 1].ctx
  <2>1. n <= Len(requests) /\ n + 1 \in 1 .. Len(requests) /\ n + 1 - 1 = n
    BY <1>2
  <2>2. P(n)
    BY <1>4, <2>1
  <2>3. request \in Frames
    BY <2>1
  <2>4. next = Handled(now, request).ctx
    <3>1. f[n + 1] = OneMore(f[n], requests[n + 1])
      BY <1>1, <2>1
    <3> QED
      BY <3>1 DEF OneMore
  <2>5. next \in Contexts(stores, view)
    BY <2>2, <2>3, <2>4, HandledTyped
  <2>6. /\ now.host.mask \subseteq next.host.mask
        /\ IF IsGrant(request) /\ request.lamp = lamp
           THEN /\ lamp \in next.host.mask
                /\ next.host.drives[lamp] = OnOff(request.on)
           ELSE next.host.drives[lamp] = now.host.drives[lamp]
    <3>1. now \in Contexts(stores, view)
      BY <2>2
    <3> HIDE DEF now, next, request, P
    <3> QED
      BY <2>3, <2>4, <3>1, FrameGrants
  <2>7. (n + 1 \in Grants(requests, lamp))
          <=> (IsGrant(request) /\ request.lamp = lamp)
    BY <2>1 DEF Grants
  <2>8. \A i \in Grants(requests, lamp) : i <= n + 1 <=> i <= n \/ i = n + 1
    BY <1>2
  <2>9. AsGranted(ctx.host, now.host, requests, Upto(n), lamp)
    BY <2>2
  <2>10. CASE n + 1 \in Grants(requests, lamp)
    <3>1. /\ lamp \in next.host.mask
          /\ next.host.drives[lamp] = OnOff(requests[n + 1].on)
      BY <2>6, <2>7, <2>10
    <3>2. n + 1 \in Upto(n + 1) /\ \A j \in Upto(n + 1) : j <= n + 1
      BY <2>10 DEF GrantsUpTo
    <3> HIDE DEF Upto, now, next
    <3>3. ctx.host.mask \subseteq next.host.mask
      BY <2>6, <2>9 DEF AsGranted
    <3>4. AsGranted(ctx.host, next.host, requests, Upto(n + 1), lamp)
      BY <3>1, <3>2, <3>3 DEF AsGranted
    <3> QED
      BY <2>5, <3>4 DEF next
  <2>11. CASE n + 1 \notin Grants(requests, lamp)
    <3>1. Upto(n + 1) = Upto(n)
      BY <2>8, <2>11 DEF GrantsUpTo
    <3>2. next.host.drives[lamp] = now.host.drives[lamp]
      BY <2>6, <2>7, <2>11
    <3> HIDE DEF Upto, now, next
    <3>3. AsGranted(ctx.host, next.host, requests, Upto(n + 1), lamp)
      BY <2>6, <2>9, <3>1, <3>2 DEF AsGranted
    <3> QED
      BY <2>5, <3>3 DEF next
  <2> QED
    BY <2>10, <2>11
<1>5. Nat \subseteq S
  <2> HIDE DEF S
  <2> QED
    BY <1>3, <1>4, CountingUp
<1>6. Upto(Len(requests)) = Grants(requests, lamp)
  BY <1>2 DEF GrantsUpTo
<1>7. P(Len(requests))
  BY <1>2, <1>5
<1> QED
  BY <1>1, <1>6, <1>7

LEMMA HostCycle ==
  ASSUME AppSound, HostKept, HStepCore
  PROVE  HostKept'
<1>0. PICK open \in DoorContacts :
        /\ GatheredInputs(open) \in Readable
        /\ Step(GatheredInputs(open), link.lost, CycleMs)
  BY CycleTaken DEF HStepCore
<1>1. /\ StepCore /\ UNCHANGED granted
      /\ host'.mask = host.mask /\ host'.drives = host.drives
  BY <1>0 DEF HStepCore, Step, AppSound, HostRecord
<1> DEFINE arb == Conditions(inputs, comms_lost, power)
<1>2. ASSUME NEW lamp \in DOMAIN granted, lamp \in (Allowed(arb) \ {"Brake"})'
      PROVE  lamps'[lamp] = host.drives[lamp]
  <2> DEFINE in == GatheredInputs(open)
             p == PowerAfter(in, CycleMs)
             l == LightingAfter(in, CycleMs)
             d == DoorAfter(in, CycleMs)
             wanted == Merged(Wanted(p, l, d))
             now == Conditions(in, link.lost, p)
  <2>1. /\ Step(in, link.lost, CycleMs) /\ in \in Readable
        /\ link.lost \in BOOLEAN /\ CycleMs \in Nat
    BY <1>0, CycleNatural DEF AppSound
  <2>2. /\ inputs' = in /\ comms_lost' = link.lost /\ power' = p
        /\ lamps' = Arbitrate(wanted, now)
    BY <2>1 DEF Step
  <2>3. now \in ArbiterInputs
    <3>1. SoundPower(p)
      BY <2>1, PowerCycleSound DEF AppSound, ManagersSound
    <3> HIDE DEF in, p
    <3> QED
      BY <2>1, <3>1, ConditionsTyped
  <2>4. arb' = now
    BY <2>2 DEF Conditions, LampsPermitted
  <2> HIDE DEF in, p, l, d, now, arb
  <2>5. lamps'[lamp] = wanted[lamp]
    <3> HIDE DEF wanted
    <3>1. ObeysRules(lamps', wanted, now)
      BY <2>2, <2>3, ArbiterObeysRules
    <3>2. lamp \in Allowed(now) \ {"Brake"}
      BY <1>2, <2>4 DEF Allowed
    <3> QED
      BY <3>1, <3>2 DEF ObeysRules
  <2>6. lamp \in host.mask /\ lamp \in LampId
    BY DEF HostKept, AppSound, HostRecord
  <2> QED
    BY <2>5, <2>6 DEF Merged
<1> QED
  BY <1>1, <1>2 DEF HostKept, HostReadsItsWrites, OnOff

LEMMA HostPoll ==
  ASSUME AppSound, HostKept, NEW requests \in Seq(Frames), HPoll(requests)
  PROVE  HostKept'
<1> DEFINE out == HandledAll(Context, requests).ctx.host
           grants(lamp) == Grants(requests, lamp)
           last(lamp) == CHOOSE i \in grants(lamp) :
                           \A j \in grants(lamp) : j <= i
           set == {lamp \in LampId : grants(lamp) # {}}
<1>1. /\ host' = out /\ at' \in {"gather", "reset"}
      /\ granted' = [lamp \in DOMAIN granted \cup set |->
                       IF lamp \in set THEN requests[last(lamp)].on
                       ELSE granted[lamp]]
  BY DEF HPoll, Poll, GrantedBy
<1>2. ASSUME NEW lamp \in LampId
      PROVE  AsGranted(host, out, requests, grants(lamp), lamp)
  <2>1. faults \in Stores
    BY DEF Stores, AppSound, SoundStore
  <2>2. Context \in Contexts(Stores, Context.view) /\ Context.host = host
    BY <2>1, ContextTyped DEF Context
  <2> QED
    BY <2>2, EmptyAmongStores, PollGrants
<1>3. ASSUME NEW lamp, grants(lamp) # {}, NEW i \in grants(lamp),
             \A j \in grants(lamp) : j <= i
      PROVE  /\ last(lamp) = i /\ requests[i].on \in BOOLEAN
             /\ lamp \in LampId
  <2>1. grants(lamp) \subseteq 1 .. Len(requests) /\ Len(requests) \in Nat
    BY DEF Grants
  <2>2. requests[i] \in Frames /\ requests[i].lamp = lamp /\ IsGrant(requests[i])
    BY <2>1 DEF Grants
  <2>3. lamp \in LampId /\ requests[i].on \in BOOLEAN
    BY <2>2 DEF IsGrant, BadLamp, Frames
  <2>4. \A j \in grants(lamp) : (\A k \in grants(lamp) : k <= j) => j = i
    BY <1>3, <2>1
  <2> HIDE DEF grants
  <2> QED
    BY <1>3, <2>3, <2>4
<1>4. DOMAIN granted \subseteq LampId
  BY DEF HostKept, AppSound, HostRecord
<1> HIDE DEF out, grants, last
<1>5. ASSUME NEW lamp \in DOMAIN granted'
      PROVE  /\ lamp \in host'.mask /\ granted'[lamp] \in BOOLEAN
             /\ host'.drives[lamp] = OnOff(granted'[lamp])
  <2>1. lamp \in LampId /\ lamp \in DOMAIN granted \cup set
    BY <1>1, <1>4
  <2>2. CASE grants(lamp) # {}
    <3>1. PICK i \in grants(lamp) :
            /\ \A j \in grants(lamp) : j <= i
            /\ lamp \in out.mask
            /\ out.drives[lamp] = OnOff(requests[i].on)
      BY <1>2, <2>1, <2>2 DEF AsGranted
    <3>2. last(lamp) = i /\ requests[i].on \in BOOLEAN
      BY <1>3, <2>2, <3>1
    <3>3. granted'[lamp] = requests[i].on
      BY <1>1, <2>1, <2>2, <3>2
    <3> QED
      BY <1>1, <3>1, <3>2, <3>3
  <2>3. CASE grants(lamp) = {}
    <3>1. lamp \in DOMAIN granted /\ granted'[lamp] = granted[lamp]
      BY <1>1, <2>1, <2>3
    <3>2. host.mask \subseteq out.mask /\ out.drives[lamp] = host.drives[lamp]
      BY <1>2, <2>1, <2>3 DEF AsGranted
    <3> QED
      BY <1>1, <3>1, <3>2 DEF HostKept
  <2> QED
    BY <2>2, <2>3
<1> QED
  BY <1>1, <1>5 DEF HostKept, HostReadsItsWrites

LEMMA HostBoot ==
  ASSUME NEW levels, HBoot(levels)
  PROVE  HostKept'
<1>1. granted' = << >> /\ DOMAIN granted' = {}
  BY DEF HBoot
<1> QED
  BY <1>1 DEF HostKept, HostReadsItsWrites

LEMMA HostStep ==
  ASSUME AppSound, HostKept, [AppNext]_appHistory
  PROVE  HostKept'
<1>1. CASE \E levels \in Levels, overrun \in BOOLEAN : HGather(levels, overrun)
  <2>1. UNCHANGED <<host, granted>> /\ at' = "core"
    BY <1>1 DEF HGather, GatherInputs, coreVars
  <2> QED
    BY <2>1 DEF HostKept, HostReadsItsWrites
<1>2. CASE HStepCore
  BY <1>2, HostCycle
<1>3. CASE \E requests \in Seq(Frames) : HPoll(requests)
  BY <1>3, HostPoll
<1>4. CASE \E raw \in Nat : HSampleBattery(raw)
  <2>1. UNCHANGED <<host, granted>> /\ at' = "gather"
    BY <1>4 DEF HSampleBattery, SampleBattery, vars, coreVars
  <2> QED
    BY <2>1 DEF HostKept, HostReadsItsWrites
<1>5. CASE \E levels \in Levels : HBoot(levels)
  BY <1>5, HostBoot
<1>6. CASE UNCHANGED <<appVars, histories>>
  BY <1>6 DEF appVars, vars, managers, coreVars, histories, HostKept,
              HostReadsItsWrites, Conditions, LampsPermitted
<1> QED
  BY <1>1, <1>2, <1>3, <1>4, <1>5, <1>6, AppCases

\* HostReadsItsWrites of AppHistory: whatever frames come in, in whatever
\* order and however many in one poll, a lamp the host was allowed to set is
\* at the level of its last grant from the next cycle on while the link holds,
\* unless a rule of the arbiter decides about it.
THEOREM HostAlwaysReadsItsWrites == AppSpec => []HostReadsItsWrites
<1>1. ASSUME NEW levels \in Levels, AppInit(levels), HistoryStart(levels)
      PROVE  HostKept
  <2>1. granted = << >> /\ DOMAIN granted = {}
    BY <1>1 DEF HistoryStart
  <2> QED
    BY <2>1 DEF HostKept, HostReadsItsWrites
<1>2. (\E levels \in Levels : AppInit(levels) /\ HistoryStart(levels))
        => HostKept
  BY <1>1
<1>3. AppSound /\ HostKept /\ [AppNext]_appHistory => HostKept'
  BY HostStep
<1>4. HostKept => HostReadsItsWrites
  BY DEF HostKept
<1> QED
  BY <1>2, <1>3, <1>4, AppAlwaysSound, PTL DEF AppSpec

-----------------------------------------------------------------------------
(* The status *)

\* While a poll is due, the brake lamp and the pedal are of the same cycle.
StatusKept ==
  /\ at = "poll" => (lamps["Brake"] # "Off" <=> buttons["brake"].state)
  /\ StatusOfOneCycle

\* GET_STATUS is always answered, with what the view of that poll holds.
LEMMA StatusGiven ==
  ASSUME NEW stores, NEW view, NEW answer \in Given(stores, view),
         answer.cmd = "GetStatus"
  PROVE  answer.data = [ lamps    |-> Lit(view.actual),
                         switches |-> view.switches,
                         power    |-> view.power ]
<1>1. ASSUME NEW ctx \in Contexts(stores, view), NEW request \in Frames,
             answer = Answered(ctx, request)
      PROVE  answer.data = [ lamps    |-> Lit(view.actual),
                             switches |-> view.switches,
                             power    |-> view.power ]
  <2>1. Answered(ctx, request).cmd = request.cmd
    BY DEF Answered, Answer, Plain
  <2>2. request.cmd = "GetStatus"
    BY <1>1, <2>1
  <2>3. ctx.view = view
    BY DEF Contexts
  <2>4. answer = Answer(request, "Ok", 4,
                        [ lamps    |-> Lit(ctx.view.actual),
                          switches |-> ctx.view.switches,
                          power    |-> ctx.view.power ])
    BY <1>1, <2>2 DEF Answered, BadLamp
  <2> QED
    BY <2>3, <2>4 DEF Answer
<1>2. ASSUME NEW request \in Frames,
             Verdict(request) \in {"UnknownCmd", "BadLength"},
             answer = Plain(request, Verdict(request))
      PROVE  FALSE
  <2>1. request.cmd = "GetStatus"
    BY <1>2 DEF Plain, Answer
  <2>2. request.cmd \in DOMAIN MinPayload /\ MinPayload[request.cmd] = 0
    BY <2>1 DEF MinPayload, Cmd
  <2>3. request.len \in Nat
    BY CommConfig DEF Frames
  <2> QED
    BY <1>2, <2>2, <2>3 DEF Verdict
<1> QED
  BY <1>1, <1>2 DEF Given

LEMMA StatusCycle ==
  ASSUME AppSound, StatusKept, HStepCore
  PROVE  StatusKept'
<1>1. StepCore /\ UNCHANGED <<buttons, answers>> /\ "brake" \in Pins
  BY DEF HStepCore, StepCore, Pins
<1>2. /\ inputs'["brake"] => lamps'["Brake"] = "On"
      /\ ~inputs'["brake"] => lamps'["Brake"] = "Off"
  BY <1>1, CycleLightsBrake
<1>3. inputs'["brake"] = buttons["brake"].state
  BY <1>1, CycleHears
<1> QED
  BY <1>1, <1>2, <1>3 DEF StatusKept, StatusOfOneCycle

LEMMA StatusPoll ==
  ASSUME AppSound, StatusKept, NEW requests \in Seq(Frames), HPoll(requests)
  PROVE  StatusKept'
<1> DEFINE view == Context.view
           given == Given(Stores, view)
<1>1. /\ at = "poll" /\ at' \in {"gather", "reset"}
      /\ answers' = HandledAll(Context, requests).sent
  BY DEF HPoll, Poll
<1>2. answers' \in Seq(given)
  <2>1. faults \in Stores
    BY DEF Stores, AppSound, SoundStore
  <2> QED
    BY <1>1, <2>1, ContextTyped, EmptyAmongStores, PollTyped
<1>3. "Brake" \in Lit(lamps) <=> "brake" \in Pressed
  BY <1>1 DEF StatusKept, Lit, LampId, Pressed, Pins
<1>4. view.actual = lamps /\ view.switches = Pressed
  BY DEF Context, Shown
<1> HIDE DEF view, given
<1>5. ASSUME NEW i \in DOMAIN answers', answers'[i].cmd = "GetStatus"
      PROVE  "Brake" \in answers'[i].data.lamps
               <=> "brake" \in answers'[i].data.switches
  <2>1. answers'[i] \in Given(Stores, view)
    BY <1>2 DEF given
  <2> DEFINE answer == answers'[i]
  <2> HIDE DEF answer
  <2>2. answers'[i].data = [ lamps    |-> Lit(view.actual),
                             switches |-> view.switches,
                             power    |-> view.power ]
    BY <1>5, <2>1, StatusGiven
  <2> QED
    BY <1>3, <1>4, <2>2
<1> QED
  BY <1>1, <1>5 DEF StatusKept, StatusOfOneCycle

LEMMA StatusBoot ==
  ASSUME NEW levels, HBoot(levels)
  PROVE  StatusKept'
<1>1. answers' = << >> /\ at' = "gather"
  BY DEF HBoot, HostReset, WatchdogReset, Restarted
<1> QED
  BY <1>1 DEF StatusKept, StatusOfOneCycle

LEMMA StatusStep ==
  ASSUME AppSound, StatusKept, [AppNext]_appHistory
  PROVE  StatusKept'
<1>1. CASE \E levels \in Levels, overrun \in BOOLEAN : HGather(levels, overrun)
  <2>1. answers' = answers /\ at' = "core"
    BY <1>1 DEF HGather, GatherInputs
  <2> QED
    BY <2>1 DEF StatusKept, StatusOfOneCycle
<1>2. CASE HStepCore
  BY <1>2, StatusCycle
<1>3. CASE \E requests \in Seq(Frames) : HPoll(requests)
  BY <1>3, StatusPoll
<1>4. CASE \E raw \in Nat : HSampleBattery(raw)
  <2>1. answers' = answers /\ at' = "gather"
    BY <1>4 DEF HSampleBattery, SampleBattery
  <2> QED
    BY <2>1 DEF StatusKept, StatusOfOneCycle
<1>5. CASE \E levels \in Levels : HBoot(levels)
  BY <1>5, StatusBoot
<1>6. CASE UNCHANGED <<appVars, histories>>
  BY <1>6 DEF appVars, pinVars, vars, coreVars, StatusKept, StatusOfOneCycle
<1> QED
  BY <1>1, <1>2, <1>3, <1>4, <1>5, <1>6, AppCases

\* StatusOfOneCycle of AppHistory: wherever in a poll GET_STATUS comes, and
\* however often, the switches and the lamps in its answer are those of one
\* and the same cycle.
THEOREM StatusAlwaysOfOneCycle == AppSpec => []StatusOfOneCycle
<1>1. ASSUME NEW levels \in Levels, AppInit(levels), HistoryStart(levels)
      PROVE  StatusKept
  <2>1. answers = << >> /\ at = "gather"
    BY <1>1 DEF AppInit
  <2> QED
    BY <2>1 DEF StatusKept, StatusOfOneCycle
<1>2. (\E levels \in Levels : AppInit(levels) /\ HistoryStart(levels))
        => StatusKept
  BY <1>1
<1>3. AppSound /\ StatusKept /\ [AppNext]_appHistory => StatusKept'
  BY StatusStep
<1>4. StatusKept => StatusOfOneCycle
  BY DEF StatusKept
<1> QED
  BY <1>2, <1>3, <1>4, AppAlwaysSound, PTL DEF AppSpec

-----------------------------------------------------------------------------
(* The battery *)

\* A sum of n times m or more, over n, is m or more, and so is what the
\* filter leaves of it.
LEMMA Decay ==
  ASSUME NEW y \in Nat, NEW m \in Nat, NEW n \in Nat \ {0}, y >= m * n
  PROVE  y \div n >= m /\ y - (y \div n) >= m * n - m
<1> DEFINE q == y \div n
           r == y % n
<1>1. q \in Nat /\ r \in 0 .. n - 1 /\ y = n * q + r
  BY Divided
<1> HIDE DEF q, r
<1>2. q >= m
  <2>1. ASSUME q < m PROVE FALSE
    <3>1. PICK k \in Nat : m = q + 1 + k
      <4>1. m - q - 1 \in Nat /\ m = q + 1 + (m - q - 1)
        BY <1>1, <2>1
      <4> QED
        BY <4>1
    <3>2. m * n = n * q + n + k * n
      BY <1>1, <3>1
    <3>3. k * n \in Nat
      BY <3>1
    <3> QED
      BY <1>1, <3>2, <3>3
  <2> QED
    BY <1>1, <2>1
<1>3. PICK k \in Nat : q = m + k
  <2>1. q - m \in Nat /\ q = m + (q - m)
    BY <1>1, <1>2
  <2> QED
    BY <2>1
<1>4. PICK w \in Nat : n = w + 1
  <2>1. n - 1 \in Nat /\ n = n - 1 + 1
    OBVIOUS
  <2> QED
    BY <2>1
<1>5. y - q >= m * n - m
  <2>1. n * q = w * q + q /\ m * n = m * w + m /\ w * q = m * w + k * w
    BY <1>1, <1>3, <1>4
  <2>2. k * w \in Nat /\ w * q \in Nat /\ m * w \in Nat
    BY <1>1, <1>3, <1>4
  <2> QED
    BY <1>1, <2>1, <2>2
<1> QED
  BY <1>2, <1>5 DEF q

\* The permille of a conversion.
InPermille(sample) == (sample * 1000) \div AdcFullScale

LEMMA PermilleMono ==
  ASSUME NEW a \in Nat, NEW b \in Nat, a <= b
  PROVE  /\ InPermille(a) \in Nat
         /\ InPermille(a) <= InPermille(b)
<1>1. a * 1000 \in Nat /\ b * 1000 \in Nat /\ a * 1000 <= b * 1000
  OBVIOUS
<1> QED
  BY <1>1, Divided, DivMono, DriverConfig DEF InPermille

\* The filter holds at least this level.
Holds(filter, level) ==
  \E m \in Nat : filter.acc >= m * FilterWeight /\ InPermille(m) >= level

\* A filter gives out no less than it holds, and holds as much as it did or
\* as the new conversion, whichever is less.
LEMMA FilterHolds ==
  ASSUME NEW filter \in FilterRecord, NEW sample \in Nat, NEW level \in Nat,
         InPermille(sample) >= level, filter.primed => Holds(filter, level)
  PROVE  LET next == Filtered(filter, sample)
         IN  next.primed = TRUE /\ Holds(next, level) /\ Permille(next) >= level
<1> DEFINE next == Filtered(filter, sample)
           acc == filter.acc
           n == FilterWeight
<1>1. n \in Nat \ {0} /\ acc \in Nat /\ next \in FilterRecord /\ next.acc \in Nat
  BY DriverConfig, FilteredTyped DEF FilterRecord
<1>2. PICK m \in Nat : next.acc >= m * n /\ InPermille(m) >= level
  <2>1. CASE filter.primed
    <3>1. PICK m \in Nat : acc >= m * n /\ InPermille(m) >= level
      BY <2>1 DEF Holds
    <3>2. next.acc = acc - (acc \div n) + sample
      BY <2>1 DEF Filtered
    <3>3. acc - (acc \div n) \in Int
      BY <1>1, Divided
    <3> HIDE DEF next, acc, n
    <3>4. CASE sample >= m
      <4>1. acc - (acc \div n) >= m * n - m
        BY <1>1, <3>1, Decay
      <4>2. next.acc >= m * n
        BY <1>1, <3>1, <3>2, <3>3, <3>4, <4>1
      <4> QED
        BY <3>1, <4>2
    <3>5. CASE ~(sample >= m)
      <4>1. acc >= sample * n
        <5>1. PICK k \in Nat : m = sample + k
          <6>1. m - sample \in Nat /\ m = sample + (m - sample)
            BY <3>1, <3>5
          <6> QED
            BY <6>1
        <5>2. m * n = sample * n + k * n /\ k * n \in Nat /\ sample * n \in Nat
          BY <1>1, <5>1
        <5> QED
          BY <1>1, <3>1, <5>2
      <4>2. acc - (acc \div n) >= sample * n - sample
        BY <1>1, <4>1, Decay
      <4>3. next.acc >= sample * n
        BY <1>1, <3>2, <3>3, <4>2
      <4> QED
        BY <4>3
    <3> QED
      BY <3>4, <3>5
  <2>2. CASE ~filter.primed
    <3>1. next.acc = sample * n
      BY <2>2 DEF Filtered
    <3> QED
      BY <1>1, <3>1
  <2> QED
    BY <2>1, <2>2
<1>3. next.primed = TRUE
  BY DEF Filtered
<1> HIDE DEF next, acc
<1>4. Permille(next) = InPermille(next.acc \div n)
  BY DEF Permille, InPermille
<1>5. next.acc \div n \in Nat /\ next.acc \div n >= m
  BY <1>1, <1>2, Divided, Decay
<1> HIDE DEF n
<1>6. InPermille(m) \in Nat /\ InPermille(m) <= InPermille(next.acc \div n)
  BY <1>5, PermilleMono
<1>7. InPermille(next.acc \div n) \in Nat
  BY <1>5, PermilleMono
<1>8. Permille(next) >= level
  BY <1>2, <1>4, <1>6, <1>7
<1>9. Holds(next, level)
  BY <1>2 DEF Holds, n
<1> QED
  BY <1>3, <1>8, <1>9 DEF next

\* Setting one code makes no other code active, room or not.
LEMMA SetFaultOthers ==
  ASSUME NEW store, SoundStore(store), NEW code \in Dtc, NEW other,
         other # code, ~IsActive(store, other)
  PROVE  ~IsActive(SetFault(store, code), other)
<1> DEFINE new == SetFault(store, code)
<1>1. SoundStore(new)
  BY SetFaultSound
<1>2. ~ActiveSomewhere(store, other)
  BY ActiveIff
<1>3. ~ActiveSomewhere(new, other)
  <2>1. CASE Stored(store, code)
    <3> DEFINE i == IndexOf(store, code)
               entry == SetAgain(store[i])
    <3>1. i \in DOMAIN store /\ store[i].code = code
      BY <2>1, IndexFound
    <3>2. store[i] \in DtcEntry
      BY <3>1 DEF SoundStore
    <3>3. new = [store EXCEPT ![i] = entry]
      BY <2>1 DEF SetFault
    <3> HIDE DEF i, new
    <3>4. entry \in DtcEntry /\ entry.code = code
      BY <3>1, <3>2, SetAgainTyped
    <3> HIDE DEF entry
    <3> QED
      BY <1>2, <3>1, <3>3, <3>4, ChangedActive
  <2>2. CASE ~Stored(store, code) /\ Len(store) >= MaxDtc
    <3>1. ~(Len(store) < MaxDtc)
      BY <2>2, FaultConfig DEF SoundStore
    <3>2. new = store
      BY <2>2, <3>1 DEF SetFault
    <3> HIDE DEF new
    <3> QED
      BY <1>2, <3>2
  <2>3. CASE ~Stored(store, code) /\ ~(Len(store) >= MaxDtc)
    <3> DEFINE entry == [code |-> code, occurrences |-> 1, active |-> TRUE]
               n == Len(store)
    <3>1. n \in Nat /\ store \in Seq(DtcEntry) /\ DOMAIN store = 1 .. n
      BY DEF SoundStore
    <3>2. new = Append(store, entry)
      <4>1. Len(store) < MaxDtc
        BY <2>3, <3>1, FaultConfig
      <4> QED
        BY <2>3, <4>1 DEF SetFault
    <3>3. entry \in DtcEntry /\ entry.code = code
      BY FaultConfig DEF DtcEntry
    <3> HIDE DEF new, entry
    <3>4. /\ DOMAIN new = (1 .. n) \cup {n + 1}
          /\ new[n + 1] = entry
          /\ \A j \in 1 .. n : new[j] = store[j]
      BY <3>1, <3>2, <3>3
    <3> HIDE DEF n
    <3> QED
      BY <1>2, <3>1, <3>3, <3>4 DEF ActiveSomewhere
  <2> QED
    BY <2>1, <2>2, <2>3
<1> HIDE DEF new
<1>4. ~IsActive(new, other)
  BY <1>1, <1>3, ActiveIff
<1> QED
  BY <1>4 DEF new

LEMMA EmptyInactive == \A code : ~IsActive(EmptyStore, code)
BY DEF EmptyStore, IsActive, Stored

\* A cycle that does not shed leaves no low battery in the store.
LEMMA CycleClearsBattery ==
  ASSUME SoundStore(faults), NEW p, p.load_shed = FALSE, NEW d,
         NEW lost \in BOOLEAN
  PROVE  ~IsActive(FaultsAfter(p, d, lost), "BatteryLow")
<1> DEFINE f1 == When(d.lock_refused, SetFault(faults, "LockRefusedDoorOpen"),
                      faults)
           f2 == ClearFault(f1, "BatteryLow")
<1>1. "LockRefusedDoorOpen" \in Dtc /\ "CommsLost" \in Dtc
  BY DEF Dtc
<1>2. SoundStore(f1)
  BY <1>1, SetFaultSound DEF When
<1>3. FaultsAfter(p, d, lost) = Mirror(f2, "CommsLost", lost)
  BY DEF FaultsAfter, Mirror
<1> HIDE DEF f1
<1>4. SoundStore(f2) /\ ~IsActive(f2, "BatteryLow")
  BY <1>2, ClearFaultSound, ClearFaultInactive
<1> HIDE DEF f2
<1>5. CASE lost
  BY <1>1, <1>3, <1>4, <1>5, SetFaultOthers DEF Mirror
<1>6. CASE ~lost
  BY <1>3, <1>4, <1>6, ClearFaultInactive DEF Mirror
<1> QED
  BY <1>5, <1>6

NoLowBattery == ~power.load_shed /\ ~IsActive(faults, "BatteryLow")

\* Before the first conversion the core sees the reading 0, but at most once,
\* and the first reading does not decide; after it the core sees what the
\* filter gives out, and the filter holds the weakest conversion.
BatteryKept ==
  /\ weakest \in Nat
  /\ ~battery.primed =>
       /\ measured = 0 /\ due <= 1 /\ NoLowBattery
       /\ at = "core" \/ (at = "gather" /\ due = 1) => ~power.battery_known
  /\ battery.primed => Holds(battery, weakest) /\ measured >= weakest
  /\ weakest >= BatteryOk => NoLowBattery

\* What a cycle makes of a reading.
LEMMA CycleSheds ==
  ASSUME AppSound, StepCore
  PROVE  /\ power'.load_shed
              = IF power.battery_known
                THEN ~Schmitt(power.battery_ok, BatteryLow, BatteryOk, measured)
                ELSE power.load_shed
         /\ power'.load_shed = FALSE => ~IsActive(faults', "BatteryLow")
<1>0. PICK open \in DoorContacts :
        /\ GatheredInputs(open) \in Readable
        /\ Step(GatheredInputs(open), link.lost, CycleMs)
  BY CycleTaken
<1> DEFINE in == GatheredInputs(open)
           p1 == PowerEdges(in)
           p2 == UpdateBattery(p1, measured)
           d == DoorAfter(in, CycleMs)
<1>1. /\ Step(in, link.lost, CycleMs) /\ in \in Readable
      /\ link.lost \in BOOLEAN /\ CycleMs \in Nat /\ in.battery_permille = measured
      /\ measured \in Nat
  BY <1>0, CycleNatural DEF AppSound, GatheredInputs
<1>2. /\ power' = UpdatePower(p2, CycleMs)
      /\ faults' = FaultsAfter(power', d, link.lost)
  BY <1>1 DEF Step, PowerAfter
<1> HIDE DEF in, d
<1>3. SoundPower(p1) /\ SameBattery(power, p1)
  <2>1. SoundPower(power)
    BY DEF AppSound, ManagersSound
  <2>2. SameBattery(power, power)
    BY DEF SameBattery
  <2> QED
    BY <2>1, <2>2, CallsSameBattery, IgnitionOnSound, IgnitionOffSound
       DEF PowerEdges
<1> HIDE DEF p1
<1>4. p1 \in PowerRecord
  BY <1>3 DEF SoundPower, PowerTyped
<1>5. /\ SoundPower(p2)
      /\ p2.load_shed = IF p1.battery_known
                        THEN ~Schmitt(p1.battery_ok, BatteryLow, BatteryOk, measured)
                        ELSE p1.load_shed
  BY <1>1, <1>3, <1>4, UpdateBatterySound DEF UpdateBattery, PowerRecord
<1> HIDE DEF p2
<1>6. power'.load_shed = p2.load_shed
  BY <1>1, <1>2, <1>5, CallsSameBattery DEF SameBattery
<1>7. power'.load_shed = FALSE => ~IsActive(faults', "BatteryLow")
  <2>1. SoundStore(faults)
    BY DEF AppSound
  <2> QED
    BY <1>1, <1>2, <2>1, CycleClearsBattery
<1> QED
  BY <1>3, <1>5, <1>6, <1>7 DEF SameBattery

LEMMA BatteryGather ==
  ASSUME AppSound, BatteryKept, NEW levels, NEW overrun, HGather(levels, overrun)
  PROVE  BatteryKept'
<1>1. /\ at = "gather" /\ due > 0 /\ at' = "core"
      /\ UNCHANGED <<power, battery, measured, due, weakest>>
      /\ faults' = IF overrun THEN SetFault(faults, "UartOverrun") ELSE faults
  BY DEF HGather, GatherInputs, senseVars
<1>2. NoLowBattery => NoLowBattery'
  <2>1. "UartOverrun" \in Dtc /\ SoundStore(faults)
    BY DEF Dtc, AppSound
  <2>2. ~IsActive(faults, "BatteryLow") => ~IsActive(faults', "BatteryLow")
    BY <1>1, <2>1, SetFaultOthers
  <2> QED
    BY <1>1, <2>2 DEF NoLowBattery
<1>3. ~battery.primed => due = 1
  BY <1>1 DEF BatteryKept, AppSound
<1> QED
  BY <1>1, <1>2, <1>3 DEF BatteryKept, Holds

LEMMA BatteryCycle ==
  ASSUME AppSound, BatteryKept, HStepCore
  PROVE  BatteryKept'
<1>1. /\ StepCore /\ at = "core" /\ at' = "poll"
      /\ UNCHANGED <<battery, measured, due, weakest>>
  BY DEF HStepCore, StepCore, senseVars
<1>2. power'.load_shed = FALSE => NoLowBattery'
  BY <1>1, CycleSheds DEF NoLowBattery
<1>3. /\ power.battery_ok \in BOOLEAN /\ power.battery_known \in BOOLEAN
      /\ power.load_shed \in BOOLEAN /\ measured \in Nat /\ weakest \in Nat
  BY DEF AppSound, ManagersSound, SoundPower, PowerTyped, PowerRecord, BatteryKept
<1>4. CASE ~battery.primed
  <2>1. power.battery_known = FALSE /\ power.load_shed = FALSE
    BY <1>1, <1>3, <1>4 DEF BatteryKept, NoLowBattery
  <2>2. power'.load_shed = FALSE
    BY <1>1, <2>1, CycleSheds
  <2> QED
    BY <1>1, <1>2, <1>4, <2>2 DEF BatteryKept
<1>5. CASE battery.primed
  <2>1. ASSUME weakest >= BatteryOk PROVE NoLowBattery'
    <3>1. measured >= weakest
      BY <1>5 DEF BatteryKept
    <3>2. measured >= BatteryOk /\ measured > BatteryLow
      BY <1>3, <2>1, <3>1, PowerConfig
    <3>3. Schmitt(power.battery_ok, BatteryLow, BatteryOk, measured)
      BY <1>3, <3>2 DEF Schmitt
    <3>4. power.load_shed = FALSE
      BY <1>3, <2>1 DEF BatteryKept, NoLowBattery
    <3>5. power'.load_shed = FALSE
      BY <1>1, <3>3, <3>4, CycleSheds
    <3> QED
      BY <1>2, <3>5
  <2> QED
    BY <1>1, <1>5, <2>1 DEF BatteryKept, Holds
<1> QED
  BY <1>4, <1>5

LEMMA BatteryPoll ==
  ASSUME AppSound, BatteryKept, NEW requests \in Seq(Frames), HPoll(requests)
  PROVE  BatteryKept'
<1>1. /\ at = "poll" /\ due' = due - 1
      /\ UNCHANGED <<power, battery, measured, weakest>>
      /\ faults' = HandledAll(Context, requests).ctx.faults
      /\ at' \in {"gather", "reset"}
  BY DEF HPoll, Poll
<1>2. NoLowBattery => NoLowBattery'
  <2> SUFFICES ASSUME NoLowBattery PROVE NoLowBattery'
    OBVIOUS
  <2> DEFINE stores == {store \in Stores : ~IsActive(store, "BatteryLow")}
  <2>1. faults \in stores
    BY DEF Stores, AppSound, SoundStore, NoLowBattery
  <2>2. EmptyStore \in stores
    BY EmptyAmongStores, EmptyInactive
  <2>3. HandledAll(Context, requests).ctx \in Contexts(stores, Context.view)
    <3> HIDE DEF stores
    <3> QED
      BY <2>1, <2>2, ContextTyped, PollTyped
  <2>4. faults' \in stores
    BY <1>1, <2>3 DEF Contexts
  <2> QED
    BY <1>1, <2>4 DEF NoLowBattery
<1>3. ~battery.primed => due' = 0
  BY <1>1 DEF BatteryKept, AppSound
<1> QED
  BY <1>1, <1>2, <1>3 DEF BatteryKept, Holds

LEMMA BatterySample ==
  ASSUME AppSound, BatteryKept, NEW raw \in Nat, HSampleBattery(raw)
  PROVE  BatteryKept'
<1> DEFINE now == InPermille(raw)
           next == Filtered(battery, raw)
<1>1. /\ battery' = next /\ measured' = Permille(next)
      /\ UNCHANGED <<power, faults>>
      /\ weakest' = IF now < weakest THEN now ELSE weakest
  BY DEF HSampleBattery, SampleBattery, vars, managers, InPermille
<1>2. now \in Nat /\ weakest \in Nat /\ battery \in FilterRecord
  BY PermilleMono DEF BatteryKept, AppSound
<1> HIDE DEF now
<1>3. weakest' \in Nat /\ now >= weakest' /\ weakest >= weakest'
  BY <1>1, <1>2
<1>4. battery.primed => Holds(battery, weakest')
  <2> SUFFICES ASSUME battery.primed PROVE Holds(battery, weakest')
    OBVIOUS
  <2>1. PICK m \in Nat : battery.acc >= m * FilterWeight /\ InPermille(m) >= weakest
    BY DEF BatteryKept, Holds
  <2>2. InPermille(m) >= weakest'
    <3>1. InPermille(m) \in Nat
      BY PermilleMono
    <3> QED
      BY <1>2, <1>3, <2>1, <3>1
  <2> QED
    BY <2>1, <2>2 DEF Holds
<1>5. /\ next.primed = TRUE /\ Holds(next, weakest') /\ Permille(next) >= weakest'
  BY <1>2, <1>3, <1>4, FilterHolds DEF now
<1>6. NoLowBattery => NoLowBattery'
  BY <1>1 DEF NoLowBattery
<1>7. weakest' >= BatteryOk => weakest >= BatteryOk
  BY <1>2, <1>3, PowerConfig
<1> HIDE DEF next
<1>8. Holds(battery, weakest)' /\ measured' >= weakest' /\ battery'.primed = TRUE
  BY <1>1, <1>5 DEF Holds
<1> QED
  BY <1>3, <1>6, <1>7, <1>8 DEF BatteryKept

LEMMA BatteryBoot ==
  ASSUME NEW levels, HBoot(levels)
  PROVE  BatteryKept'
<1>1. /\ weakest' = 1000 /\ battery' = FreshFilter /\ measured' = 0 /\ due' = 1
      /\ power' = FreshPower
      /\ faults' \in {EmptyStore, SetFault(EmptyStore, "WatchdogReset")}
  BY DEF HBoot, HostReset, WatchdogReset, Restarted
<1>2. ~IsActive(faults', "BatteryLow")
  <2>1. SoundStore(EmptyStore) /\ "WatchdogReset" \in Dtc
    BY EmptyAmongStores DEF Stores, Dtc
  <2> QED
    BY <1>1, <2>1, EmptyInactive, SetFaultOthers
<1>3. battery'.primed = FALSE /\ ~power'.load_shed /\ ~power'.battery_known
  BY <1>1 DEF FreshFilter, FreshPower
<1> QED
  BY <1>1, <1>2, <1>3 DEF BatteryKept, NoLowBattery

LEMMA BatteryStep ==
  ASSUME AppSound, BatteryKept, [AppNext]_appHistory
  PROVE  BatteryKept'
<1>1. CASE \E levels \in Levels, overrun \in BOOLEAN : HGather(levels, overrun)
  BY <1>1, BatteryGather
<1>2. CASE HStepCore
  BY <1>2, BatteryCycle
<1>3. CASE \E requests \in Seq(Frames) : HPoll(requests)
  BY <1>3, BatteryPoll
<1>4. CASE \E raw \in Nat : HSampleBattery(raw)
  BY <1>4, BatterySample
<1>5. CASE \E levels \in Levels : HBoot(levels)
  BY <1>5, BatteryBoot
<1>6. CASE UNCHANGED <<appVars, histories>>
  BY <1>6 DEF appVars, vars, managers, coreVars, senseVars, histories,
              BatteryKept, NoLowBattery, Holds
<1> QED
  BY <1>1, <1>2, <1>3, <1>4, <1>5, <1>6, AppCases

\* NoShedOnHealthyBattery of AppHistory: for every filter, every threshold
\* and every period of the sensor, a battery that no conversion has found
\* below the upper threshold is never taken for a low one.
THEOREM NeverShedsOnHealthyBattery == AppSpec => []NoShedOnHealthyBattery
<1>1. ASSUME NEW levels \in Levels, AppInit(levels), HistoryStart(levels)
      PROVE  BatteryKept
  <2>1. /\ weakest = 1000 /\ battery = FreshFilter /\ measured = 0 /\ due = 1
        /\ power = FreshPower /\ faults = EmptyStore
    BY <1>1 DEF AppInit, Init, PowerInit, HistoryStart
  <2>2. battery.primed = FALSE /\ ~power.load_shed /\ ~power.battery_known
    BY <2>1 DEF FreshFilter, FreshPower
  <2> QED
    BY <2>1, <2>2, EmptyInactive DEF BatteryKept, NoLowBattery
<1>2. (\E levels \in Levels : AppInit(levels) /\ HistoryStart(levels))
        => BatteryKept
  BY <1>1
<1>3. AppSound /\ BatteryKept /\ [AppNext]_appHistory => BatteryKept'
  BY BatteryStep
<1>4. BatteryKept => NoShedOnHealthyBattery
  BY DEF BatteryKept, NoLowBattery, NoShedOnHealthyBattery
<1> QED
  BY <1>2, <1>3, <1>4, AppAlwaysSound, PTL DEF AppSpec
=============================================================================
