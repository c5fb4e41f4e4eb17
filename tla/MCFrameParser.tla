---------------------------- MODULE MCFrameParser ---------------------------
(* The parser with the CRC of services/crc8.h and a few real frames.        *)
EXTENDS FrameParser

\* Bitwise exclusive or, bit after bit.
Xor[a \in Nat, b \in Nat] ==
  IF a = 0 /\ b = 0 THEN 0
  ELSE ((a + b) % 2) + 2 * Xor[a \div 2, b \div 2]

\* Crc8::update: eight shifts, with kPolynomial where a bit falls out.
Shifted[value \in Byte, bits \in 0 .. 8] ==
  IF bits = 0 THEN value
  ELSE IF value >= 128 THEN Shifted[Xor[(2 * value) % 256, 7], bits - 1]
  ELSE Shifted[2 * value, bits - 1]

Crc8Table == [byte \in Byte |-> Shifted[byte, 8]]

Crc8Update(value, byte) == Crc8Table[Xor[value, byte]]

Heartbeat  == [cmd |-> 12, payload |-> << >>]
SetLamp    == [cmd |-> 4, payload |-> <<7, 1>>]

\* PING with a payload that begins with a header byte.
Ping       == [cmd |-> 1, payload |-> <<170, 29>>]

AllFrames  == {Heartbeat, SetLamp, Ping}
PingOnly   == {Ping}
=============================================================================
