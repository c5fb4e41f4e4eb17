------------------------------- MODULE HornMgr ------------------------------
(***************************************************************************)
(* The horn manager (services/horn_mgr.h): confirmation chirps, which take *)
(* priority, and the rate limit of a horn held on.                         *)
(***************************************************************************)
EXTENDS BcmTypes

CONSTANTS
  ChirpMs,      \* Config::chirp_ms
  ChirpGapMs,   \* Config::chirp_gap_ms
  HornMaxOn     \* Config::horn_max_on_ms

\* With a zero length the timer would not start and the chirps not end.
ASSUME HornConfig ==
  /\ ChirpMs \in Nat \ {0}
  /\ ChirpGapMs \in Nat \ {0}
  /\ HornMaxOn \in Nat

VARIABLE horn

FreshHorn ==
  [ chirps_left |-> 0,
    chirp_on    |-> FALSE,
    continuous  |-> FALSE,
    output      |-> FALSE,
    on_time     |-> 0,
    timer       |-> 0 ]

SetContinuous(h, on) ==
  [h EXCEPT !.continuous = on, !.on_time = IF on THEN @ ELSE 0]

Chirp(h, count) ==
  IF count = 0
  THEN h
  ELSE [h EXCEPT !.chirps_left = count, !.chirp_on = TRUE, !.timer = ChirpMs]

\* Fault: the gap is not timed.
ChirpTickNoGap(h, dt) ==
  LET next ==
        CASE ~Expires(h.timer, dt) -> [h EXCEPT !.timer = Elapse(@, dt)]
          [] Expires(h.timer, dt) /\ h.chirp_on ->
               [h EXCEPT !.chirp_on = FALSE, !.timer = 0, !.chirps_left = @ - 1]
          [] Expires(h.timer, dt) /\ ~h.chirp_on ->
               [h EXCEPT !.chirp_on = TRUE, !.timer = ChirpMs]
  IN  [next EXCEPT !.output = next.chirps_left > 0 /\ next.chirp_on]

\* One pass of the chirp sequence: a chirp ends in a gap, a gap in the next
\* chirp.
ChirpTick(h, dt) ==
  LET next ==
        CASE ~Expires(h.timer, dt) -> [h EXCEPT !.timer = Elapse(@, dt)]
          [] Expires(h.timer, dt) /\ h.chirp_on ->
               [h EXCEPT !.chirp_on = FALSE, !.timer = ChirpGapMs,
                         !.chirps_left = @ - 1]
          [] Expires(h.timer, dt) /\ ~h.chirp_on ->
               [h EXCEPT !.chirp_on = TRUE, !.timer = ChirpMs]
  IN  [next EXCEPT !.output = next.chirps_left > 0 /\ next.chirp_on]

\* The time held on is only ever compared with the limit: it is kept up to
\* the limit, where the code counts on in 32 bits.
HoldTick(h, dt) ==
  LET held == IF h.on_time + dt > HornMaxOn THEN HornMaxOn ELSE h.on_time + dt
  IN  IF h.continuous
      THEN [h EXCEPT !.on_time = held, !.output = held < HornMaxOn]
      ELSE [h EXCEPT !.output = FALSE]

UpdateHorn(h, dt) ==
  IF h.chirps_left > 0 THEN ChirpTick(h, dt) ELSE HoldTick(h, dt)

-----------------------------------------------------------------------------
(* The class on its own, called in any order *)

HornInit == horn = FreshHorn

HoldHorn   == \E on \in BOOLEAN : horn' = SetContinuous(horn, on)
ChirpLock   == horn' = Chirp(horn, 1)
ChirpUnlock == horn' = Chirp(horn, 2)
PassHorn(dt) == horn' = UpdateHorn(horn, dt)
ResetHorn  == horn' = FreshHorn

HornNext ==
  \/ HoldHorn
  \/ ChirpLock
  \/ ChirpUnlock
  \/ \E dt \in Dt : PassHorn(dt)
  \/ ResetHorn

HornSpec == HornInit /\ [][HornNext]_horn

-----------------------------------------------------------------------------
(* Properties *)

HornRecord ==
  [ chirps_left : Nat,
    chirp_on    : BOOLEAN,
    continuous  : BOOLEAN,
    output      : BOOLEAN,
    on_time     : 0 .. HornMaxOn,
    timer       : Nat ]

\* A chirp sequence that has begun always has the timer that continues it,
\* and only a chirp that is on is heard while it lasts.
ChirpsAdvance(h) ==
  /\ h.chirps_left > 0 => h.timer > 0
  /\ h.chirps_left > 0 /\ h.output => h.chirp_on
=============================================================================
