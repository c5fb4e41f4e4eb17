------------------------------- MODULE Commands -----------------------------
(***************************************************************************)
(* The command handlers (app/commands.cpp) behind the dispatcher. A        *)
(* request names a lamp and a level where its command has them; a lamp     *)
(* number beyond the last one is NoLamp. A response carries a status and,  *)
(* for the reading commands, what was read.                                *)
(*                                                                         *)
(* The handlers see the application through a context record:              *)
(*   host      host_request and host_mask, and the two door requests       *)
(*   faults    the fault store                                             *)
(*   reset     reset_requested                                             *)
(*   view      what the reading commands report: actual, switch_bitmap,    *)
(*             power_state, the battery in permille                        *)
(***************************************************************************)
EXTENDS CommMgr, FaultMgr, LampArbiter, FiniteSets

CONSTANT NoLamp

ASSUME NoLampAssumption == NoLamp \notin LampId

\* The frames that can come in, as far as the handlers tell them apart: what
\* a frame says of a lamp and a level matters to SET_LAMP and GET_LAMP only.
Frames ==
  [ cmd : Cmd, response : BOOLEAN, len : 0 .. MaxPayload,
    lamp : LampId \cup {NoLamp}, on : BOOLEAN ]

Answer(request, status, extra, data) ==
  [ cmd |-> request.cmd, response |-> TRUE, len |-> 1 + extra,
    status |-> status, data |-> data ]

\* make_status_response
Plain(request, status) == Answer(request, status, 0, << >>)

BadLamp(request) ==
  request.cmd \in {"SetLamp", "GetLamp"} /\ request.lamp \notin LampId

\* Fault: the bit of a lamp replaces the mask instead of joining it.
ExecutedAlone(ctx, request) ==
  IF request.cmd = "SetLamp" /\ ~BadLamp(request)
  THEN [ctx EXCEPT !.host.mask = {request.lamp},
                   !.host.drives[request.lamp] = IF request.on THEN "On" ELSE "Off"]
  ELSE ctx

\* What the handlers change.
Executed(ctx, request) ==
  CASE BadLamp(request) -> ctx
    [] request.cmd = "SetLamp" /\ ~BadLamp(request) ->
         [ctx EXCEPT !.host.mask = @ \cup {request.lamp},
                     !.host.drives[request.lamp] =
                        IF request.on THEN "On" ELSE "Off"]
    [] request.cmd = "DoorLock"   -> [ctx EXCEPT !.host.lock = TRUE]
    [] request.cmd = "DoorUnlock" -> [ctx EXCEPT !.host.unlock = TRUE]
    [] request.cmd = "ClearDtc"   -> [ctx EXCEPT !.faults = EmptyStore]
    [] request.cmd = "Reset"      -> [ctx EXCEPT !.reset = TRUE]
    [] OTHER                      -> ctx

\* What the handlers answer. GET_STATUS is five bytes, GET_BATTERY three.
Answered(ctx, request) ==
  CASE BadLamp(request) -> Plain(request, "BadParameter")
    [] request.cmd = "Ping" -> Answer(request, "Ok", request.len, << >>)
    [] request.cmd = "GetVersion" -> Answer(request, "Ok", 3, << >>)
    [] request.cmd = "GetStatus" ->
         Answer(request, "Ok", 4,
                [ lamps    |-> Lit(ctx.view.actual),
                  switches |-> ctx.view.switches,
                  power    |-> ctx.view.power ])
    [] request.cmd = "GetLamp" /\ ~BadLamp(request) ->
         Answer(request, "Ok", 1, ctx.view.actual[request.lamp] # "Off")
    [] request.cmd = "GetBattery" -> Answer(request, "Ok", 2, ctx.view.battery)
    [] request.cmd = "GetDtc" ->
         Answer(request, "Ok", 1 + Cardinality(ActiveCodes(ctx.faults)),
                ActiveCodes(ctx.faults))
    [] OTHER -> Plain(request, "Ok")

\* send(): encode() refuses what does not fit into a frame.
Sent(response) == IF response.len > MaxPayload THEN << >> ELSE <<response>>

\* One frame of a poll(): the context after it, and what is sent.
Handled(ctx, request) ==
  CASE Verdict(request) = "Silent" -> [ctx |-> ctx, sent |-> << >>]
    [] Verdict(request) \in {"UnknownCmd", "BadLength"} ->
         [ctx |-> ctx, sent |-> Sent(Plain(request, Verdict(request)))]
    [] Verdict(request) = "Ok" ->
         [ctx |-> Executed(ctx, request),
          sent |-> Sent(Answered(ctx, request))]

\* The frames of one poll(), in the order of their arrival.
HandledAll(ctx, requests) ==
  LET done[n \in 0 .. Len(requests)] ==
        IF n = 0 THEN [ctx |-> ctx, sent |-> << >>]
        ELSE LET one == Handled(done[n - 1].ctx, requests[n])
             IN  [ctx |-> one.ctx, sent |-> done[n - 1].sent \o one.sent]
  IN  done[Len(requests)]
=============================================================================
