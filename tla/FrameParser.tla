----------------------------- MODULE FrameParser ----------------------------
(***************************************************************************)
(* Frames as bytes (services/frame_codec.cpp): encode() and the            *)
(* byte-at-a-time parser, fed from a serial line that may alter and lose   *)
(* bytes and that the parser may begin to hear in the middle of a frame.   *)
(***************************************************************************)
EXTENDS Naturals, Sequences

CONSTANTS
  MaxPayload,        \* kMaxPayload
  CrcUpdate(_, _),   \* Crc8::update: value and byte to the next value
  Frames,            \* the frames the other side may send
  Noise,             \* what the line may make of a byte
  MaxFaults          \* how many bytes of a behaviour are altered or lost

Byte == 0 .. 255

\* A decoded Frame; len is the length of the payload.
Frame == [cmd : Byte, payload : Seq(Byte)]

ASSUME ParserConfig ==
  /\ MaxPayload \in Nat
  /\ \A value, byte \in Byte : CrcUpdate(value, byte) \in Byte
  /\ Frames \subseteq Frame
  /\ Noise \subseteq Byte
  /\ MaxFaults \in Nat

VARIABLES
  parser,    \* state_, frame_ and crc_, with index_ = Len(payload)
  result,    \* what feed() returned
  traffic,   \* the frames the other side sends in this behaviour
  line,      \* the bytes of the current frame still to come
  faulty,    \* how many bytes the line has damaged
  heard,     \* history: the bytes fed since the last header was accepted
  clean      \* history: the current frame arrived whole so far, and found
             \* the parser hunting

vars == <<parser, result, traffic, line, faulty, heard, clean>>

Header == 170   \* kFrameHeader
Footer == 85    \* kFrameFooter

-----------------------------------------------------------------------------
(* FrameCodec::encode, for a frame whose payload fits *)

CrcOf[bytes \in Seq(Byte)] ==
  IF bytes = << >> THEN 0
  ELSE CrcUpdate(CrcOf[SubSeq(bytes, 1, Len(bytes) - 1)], bytes[Len(bytes)])

Body(frame) == <<frame.cmd, Len(frame.payload)>> \o frame.payload

\* Fault: the checksum covers the payload only.
EncodedCrcOfPayload(frame) ==
  <<Header>> \o Body(frame) \o <<CrcOf[frame.payload], Footer>>

Encoded(frame) ==
  <<Header>> \o Body(frame) \o <<CrcOf[Body(frame)], Footer>>

\* A length byte can say every length that fits, and the frames are of those.
ASSUME FramesFit ==
  MaxPayload \in Byte /\ \A frame \in Frames : Len(frame.payload) <= MaxPayload

-----------------------------------------------------------------------------
(* FrameParser *)

Hunting == [state |-> "Header", cmd |-> 0, len |-> 0, payload |-> << >>, crc |-> 0]

\* reset(); what it leaves in frame_ nobody reads any more.
Fail(p) == Hunting

Result == {"NeedMore", "Complete", "ChecksumError", "FramingError", "Overflow"}

\* Fault: a length of one more than fits is accepted.
TooLongByOne(byte) == byte > MaxPayload + 1

TooLong(byte) == byte > MaxPayload

\* Fault: the footer is not looked at.
VerdictNoFooter(p, byte) ==
  CASE p.state = "Length" /\ TooLong(byte)    -> "Overflow"
    [] p.state = "Checksum" /\ byte # p.crc   -> "ChecksumError"
    [] p.state = "Footer"                     -> "Complete"
    [] OTHER                                  -> "NeedMore"

\* What feed() returns.
Verdict(p, byte) ==
  CASE p.state = "Length" /\ TooLong(byte)    -> "Overflow"
    [] p.state = "Checksum" /\ byte # p.crc   -> "ChecksumError"
    [] p.state = "Footer" /\ byte # Footer    -> "FramingError"
    [] p.state = "Footer" /\ byte = Footer    -> "Complete"
    [] OTHER                                  -> "NeedMore"

\* Fault: a header does not reset the CRC.
StartedKeepsCrc(p) == [Hunting EXCEPT !.state = "Command", !.crc = p.crc]

\* A header was found.
Started(p) == [Hunting EXCEPT !.state = "Command"]

\* The next state within a frame, for a byte that does not end it.
Accept(p, byte) ==
  LET counted == [p EXCEPT !.crc = CrcUpdate(@, byte)]
  IN  CASE p.state = "Header" ->
             IF byte = Header THEN Started(p) ELSE p
        [] p.state = "Command" ->
             [counted EXCEPT !.cmd = byte, !.state = "Length"]
        [] p.state = "Length" ->
             [counted EXCEPT !.len = byte, !.payload = << >>,
                !.state = IF byte = 0 THEN "Checksum" ELSE "Payload"]
        [] p.state = "Payload" ->
             [counted EXCEPT !.payload = Append(@, byte),
                !.state = IF Len(p.payload) + 1 >= p.len THEN "Checksum"
                          ELSE "Payload"]
        [] OTHER -> [p EXCEPT !.state = "Footer"]

\* feed(): frame_ keeps the frame of a Complete.
Feed(p, byte) ==
  CASE Verdict(p, byte) = "NeedMore" -> Accept(p, byte)
    [] Verdict(p, byte) = "Complete" -> [p EXCEPT !.state = "Header"]
    [] OTHER                         -> Fail(p)

-----------------------------------------------------------------------------
(* Behaviour *)

Init ==
  /\ parser = Hunting
  /\ result = "NeedMore"
  /\ traffic \in SUBSET Frames \ {{}}
  /\ \E frame \in traffic, n \in 1 .. MaxPayload + 5 :
       line = SubSeq(Encoded(frame), n, Len(Encoded(frame)))
  /\ faulty = 0
  /\ heard = << >>
  /\ clean = FALSE

\* The other side sends its next frame.
Send ==
  /\ line = << >>
  /\ \E frame \in traffic : line' = Encoded(frame)
  /\ clean' = (parser.state = "Header")
  /\ UNCHANGED <<parser, result, traffic, faulty, heard>>

Receive(byte) ==
  /\ parser' = Feed(parser, byte)
  /\ result' = Verdict(parser, byte)
  /\ heard' = IF parser.state = "Header" THEN <<byte>> ELSE Append(heard, byte)
  /\ line' = Tail(line)
  /\ UNCHANGED traffic

Deliver ==
  /\ line # << >>
  /\ Receive(Head(line))
  /\ UNCHANGED <<faulty, clean>>

Damage ==
  /\ line # << >> /\ faulty < MaxFaults
  /\ \E byte \in Noise \ {Head(line)} : Receive(byte)
  /\ faulty' = faulty + 1
  /\ clean' = FALSE

Lose ==
  /\ line # << >> /\ faulty < MaxFaults
  /\ line' = Tail(line)
  /\ faulty' = faulty + 1
  /\ clean' = FALSE
  /\ UNCHANGED <<parser, result, traffic, heard>>

Next == Send \/ Deliver \/ Damage \/ Lose

Spec == Init /\ [][Next]_vars

\* The other side keeps sending, and the control task polls on every cycle.
FairSpec == Spec /\ WF_vars(Send) /\ WF_vars(Deliver)

-----------------------------------------------------------------------------
(* Properties *)

\* Whatever arrives, the index stays inside the payload's array, and a frame
\* that has begun is over, one way or the other, once MaxPayload + 5 bytes of
\* it have come: a bad length byte cannot make the parser wait for more.
ParserBounds ==
  /\ Len(parser.payload) <= MaxPayload
  /\ parser.state = "Payload" => Len(parser.payload) < MaxPayload
  /\ parser.state # "Header" => Len(heard) <= MaxPayload + 4

\* encode() and the parser agree: a frame that arrives whole, and whose
\* header found the parser hunting, is complete with its last byte.
FramesArrive == clean /\ line = << >> => result = "Complete"

\* A frame is handed on only if the bytes heard last are its very encoding:
\* no loss, damage or late start makes the parser stitch two frames together.
OnlyWholeFrames ==
  result = "Complete" =>
    heard = Encoded([cmd |-> parser.cmd, payload |-> parser.payload])

\* A host that sends, and whose frames hold the header byte in no other place,
\* is heard again and again, whatever was damaged or lost before.
HeaderOnlyFirst ==
  \A frame \in traffic :
    \A i \in 2 .. Len(Encoded(frame)) : Encoded(frame)[i] # Header

Recovers == traffic # {} /\ HeaderOnlyFirst => []<>(result = "Complete")

\* docs/protocol/ICD.md: "The link always recovers by itself; it never
\* desynchronises permanently", whatever the frames hold.
NeverDesynchronised == []<>(result = "Complete")
=============================================================================
