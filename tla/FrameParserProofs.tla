-------------------------- MODULE FrameParserProofs -------------------------
(***************************************************************************)
(* The parser, for every payload limit, every CRC, every set of frames and *)
(* every line. Where it stands in a frame and what it has heard of it      *)
(* always belong together: it stays within its buffer, it reports nothing  *)
(* but frames that arrived byte for byte, and a frame sent whole to a      *)
(* parser that hunts is never missed.                                      *)
(***************************************************************************)
EXTENDS FrameParser, FiniteSetTheorems, SequenceTheorems, TLAPS

LEMMA LimitNatural == MaxPayload \in Nat
BY ParserConfig

-----------------------------------------------------------------------------
(* Induction *)

Below(n) == 0 .. n - 1

\* A set with 0 in it, and with every number the next, holds every number:
\* the least number outside would have the smallest of all the sets Below(n).
LEMMA Induction ==
  ASSUME NEW S, 0 \in S, \A n \in Nat : n \in S => n + 1 \in S
  PROVE  Nat \subseteq S
<1> DEFINE T == {Below(n) : n \in Nat \ S}
<1> SUFFICES ASSUME NEW k \in Nat \ S PROVE FALSE
  OBVIOUS
<1>1. T \subseteq FiniteSubsetsOf(Nat) /\ T # {}
  <2>1. ASSUME NEW n \in Nat PROVE Below(n) \in FiniteSubsetsOf(Nat)
    <3>1. IsFiniteSet(Below(n))
      BY FS_Interval DEF Below
    <3> QED
      BY <3>1 DEF Below, FiniteSubsetsOf
  <2> QED
    BY <2>1
<1>2. PICK x \in T : \A y \in T : ~(<<y, x>> \in StrictSubsetOrdering(Nat))
  <2> HIDE DEF T
  <2> QED
    BY <1>1, FS_StrictSubsetOrderingWellFounded, WFMin
<1>3. PICK n \in Nat \ S : x = Below(n)
  OBVIOUS
<1>4. n - 1 \in Nat /\ n - 1 + 1 = n
  BY <1>3
<1>5. n - 1 \notin S
  BY <1>4, <1>3
<1>6. Below(n - 1) \in T
  BY <1>4, <1>5
<1>7. <<Below(n - 1), x>> \in StrictSubsetOrdering(Nat)
  BY <1>3, <1>4 DEF Below, StrictSubsetOrdering
<1> QED
  BY <1>2, <1>6, <1>7

-----------------------------------------------------------------------------
(* The checksum of a sequence of bytes *)

Front(s) == SubSeq(s, 1, Len(s) - 1)

UpTo(n) == {s \in Seq(Byte) : Len(s) <= n}

\* f computes the checksum of every sequence of at most n bytes.
Computes(f, n) ==
  /\ f \in [UpTo(n) -> Byte]
  /\ \A s \in UpTo(n) :
       f[s] = IF s = << >> THEN 0 ELSE CrcUpdate(f[Front(s)], s[Len(s)])

LEMMA Fronts ==
  ASSUME NEW s \in Seq(Byte), s # << >>
  PROVE  /\ Front(s) \in Seq(Byte) /\ Len(Front(s)) = Len(s) - 1
         /\ s[Len(s)] \in Byte /\ Len(s) \in Nat \ {0}
<1>1. Len(s) \in Nat \ {0} /\ s[Len(s)] \in Byte /\ Len(s) - 1 \in 0 .. Len(s)
  OBVIOUS
<1> DEFINE n == Len(s) - 1
<1>2. n \in 0 .. Len(s) /\ \A i \in 1 .. n : s[i] \in Byte
  BY <1>1
<1>3. SubSeq(s, 1, n) \in Seq(Byte) /\ Len(SubSeq(s, 1, n)) = n
  <2> HIDE DEF n
  <2> QED
    BY <1>2, SubSeqProperties
<1> QED
  BY <1>1, <1>3 DEF Front

LEMMA ZeroByte == 0 \in Byte
BY DEF Byte

LEMMA CrcExists == \A n \in Nat : \E f : Computes(f, n)
<1> DEFINE S == {n \in Nat : \E f : Computes(f, n)}
<1>1. 0 \in S
  <2> DEFINE f == [s \in UpTo(0) |-> 0]
  <2>1. \A s \in UpTo(0) : s = << >>
    BY DEF UpTo
  <2>2. Computes(f, 0)
    BY <2>1, ZeroByte DEF Computes
  <2> QED
    BY <2>2
<1>2. ASSUME NEW n \in Nat, n \in S PROVE n + 1 \in S
  <2>1. PICK f : Computes(f, n)
    BY <1>2
  <2> DEFINE g == [s \in UpTo(n + 1) |-> IF s = << >> THEN 0
                                         ELSE CrcUpdate(f[Front(s)], s[Len(s)])]
  <2>2. ASSUME NEW s \in UpTo(n + 1), s # << >>
        PROVE  /\ s \in Seq(Byte) /\ Front(s) \in UpTo(n) /\ Front(s) \in UpTo(n + 1)
               /\ s[Len(s)] \in Byte
    BY <2>2, Fronts DEF UpTo
  <2>3. g \in [UpTo(n + 1) -> Byte]
    <3>1. ASSUME NEW s \in UpTo(n + 1), s # << >>
          PROVE  CrcUpdate(f[Front(s)], s[Len(s)]) \in Byte
      BY <2>1, <2>2, <3>1, ParserConfig DEF Computes
    <3> QED
      BY <3>1, ZeroByte
  <2>4. \A s \in UpTo(n) : g[s] = f[s]
    <3>1. \A s \in UpTo(n) : s \in UpTo(n + 1)
      BY DEF UpTo
    <3> QED
      BY <2>1, <3>1 DEF Computes
  <2>5. Computes(g, n + 1)
    <3>1. ASSUME NEW s \in UpTo(n + 1)
          PROVE  g[s] = IF s = << >> THEN 0 ELSE CrcUpdate(g[Front(s)], s[Len(s)])
      BY <2>2, <2>4
    <3> HIDE DEF g
    <3> QED
      BY <2>3, <3>1 DEF Computes
  <2> QED
    BY <2>5
<1>3. Nat \subseteq S
  <2> HIDE DEF S
  <2> QED
    BY <1>1, <1>2, Induction
<1> QED
  BY <1>3

\* Any two that compute it agree.
LEMMA CrcUnique ==
  ASSUME NEW f, NEW m \in Nat, Computes(f, m),
         NEW g, NEW n \in Nat, Computes(g, n)
  PROVE  \A s \in UpTo(m) \cap UpTo(n) : f[s] = g[s]
<1> DEFINE S == {k \in Nat : \A s \in UpTo(m) \cap UpTo(n) : Len(s) = k => f[s] = g[s]}
<1>1. 0 \in S
  BY DEF Computes, UpTo
<1>2. ASSUME NEW k \in Nat, k \in S PROVE k + 1 \in S
  <2> SUFFICES ASSUME NEW s \in UpTo(m) \cap UpTo(n), Len(s) = k + 1
               PROVE  f[s] = g[s]
    OBVIOUS
  <2>1. s \in Seq(Byte) /\ s # << >>
    BY DEF UpTo
  <2>2. Front(s) \in UpTo(m) \cap UpTo(n) /\ Len(Front(s)) = k
    BY <2>1, Fronts DEF UpTo
  <2>3. f[Front(s)] = g[Front(s)]
    BY <1>2, <2>2
  <2>4. f[s] = CrcUpdate(f[Front(s)], s[Len(s)])
    BY <2>1 DEF Computes
  <2>5. g[s] = CrcUpdate(g[Front(s)], s[Len(s)])
    BY <2>1 DEF Computes
  <2> QED
    BY <2>3, <2>4, <2>5
<1>3. Nat \subseteq S
  <2> HIDE DEF S
  <2> QED
    BY <1>1, <1>2, Induction
<1>4. \A s \in UpTo(m) : Len(s) \in Nat
  BY DEF UpTo
<1> QED
  BY <1>3, <1>4

\* CrcOf is what its recursion says, and yields bytes.
LEMMA CrcRecursion ==
  \A s \in Seq(Byte) :
    /\ CrcOf[s] \in Byte
    /\ CrcOf[s] = IF s = << >> THEN 0 ELSE CrcUpdate(CrcOf[Front(s)], s[Len(s)])
<1> DEFINE C(n) == CHOOSE f : Computes(f, n)
           F == [s \in Seq(Byte) |-> C(Len(s))[s]]
<1>1. \A n \in Nat : Computes(C(n), n)
  BY CrcExists
<1> HIDE DEF C
<1>2. ASSUME NEW s \in Seq(Byte), s # << >>
      PROVE  F[s] = CrcUpdate(F[Front(s)], s[Len(s)])
  <2> DEFINE n == Len(s)
  <2>1. /\ n \in Nat /\ n - 1 \in Nat /\ s \in UpTo(n)
        /\ Front(s) \in Seq(Byte) /\ Len(Front(s)) = n - 1
        /\ Front(s) \in UpTo(n) \cap UpTo(n - 1)
    BY <1>2, Fronts DEF UpTo
  <2>2. Computes(C(n), n) /\ Computes(C(n - 1), n - 1)
    BY <1>1, <2>1
  <2>3. C(n)[Front(s)] = C(n - 1)[Front(s)]
    BY <2>1, <2>2, CrcUnique
  <2>4. C(n)[s] = CrcUpdate(C(n)[Front(s)], s[n])
    BY <1>2, <2>1, <2>2 DEF Computes
  <2>5. F[Front(s)] = C(n - 1)[Front(s)] /\ F[s] = C(n)[s]
    BY <2>1
  <2> QED
    BY <2>3, <2>4, <2>5
<1>3. F[<< >>] = 0
  <2>1. << >> \in Seq(Byte) /\ Len(<< >>) = 0 /\ << >> \in UpTo(0)
    BY DEF UpTo
  <2> QED
    BY <1>1, <2>1 DEF Computes
<1>4. \A s \in Seq(Byte) : F[s] \in Byte
  <2>1. \A s \in Seq(Byte) : Len(s) \in Nat /\ s \in UpTo(Len(s))
    BY DEF UpTo
  <2> QED
    BY <1>1, <2>1 DEF Computes
<1>5. F = [s \in Seq(Byte) |-> IF s = << >> THEN 0
                               ELSE CrcUpdate(F[SubSeq(s, 1, Len(s) - 1)], s[Len(s)])]
  <2>1. \A s \in Seq(Byte) :
          F[s] = IF s = << >> THEN 0
                 ELSE CrcUpdate(F[SubSeq(s, 1, Len(s) - 1)], s[Len(s)])
    BY <1>2, <1>3 DEF Front
  <2>2. F = [s \in Seq(Byte) |-> F[s]]
    OBVIOUS
  <2> HIDE DEF F
  <2> QED
    BY <2>1, <2>2
<1> HIDE DEF F
<1>6. CrcOf = [s \in Seq(Byte) |-> IF s = << >> THEN 0
                         ELSE CrcUpdate(CrcOf[SubSeq(s, 1, Len(s) - 1)], s[Len(s)])]
  BY <1>5 DEF CrcOf
<1>7. \A s \in Seq(Byte) :
        CrcOf[s] = IF s = << >> THEN 0 ELSE CrcUpdate(CrcOf[Front(s)], s[Len(s)])
  BY <1>6, Zenon DEF Front
<1> DEFINE S == {n \in Nat : \A s \in Seq(Byte) : Len(s) = n => CrcOf[s] \in Byte}
<1>8. 0 \in S
  BY <1>7, ZeroByte
<1>9. ASSUME NEW n \in Nat, n \in S PROVE n + 1 \in S
  <2> SUFFICES ASSUME NEW s \in Seq(Byte), Len(s) = n + 1 PROVE CrcOf[s] \in Byte
    OBVIOUS
  <2>1. s # << >> /\ Front(s) \in Seq(Byte) /\ Len(Front(s)) = n /\ s[Len(s)] \in Byte
    BY Fronts
  <2>2. CrcOf[Front(s)] \in Byte
    BY <1>9, <2>1
  <2> QED
    BY <1>7, <2>1, <2>2, ParserConfig
<1>10. Nat \subseteq S
  <2> HIDE DEF S
  <2> QED
    BY <1>8, <1>9, Induction
<1>11. \A s \in Seq(Byte) : Len(s) \in Nat
  OBVIOUS
<1> QED
  BY <1>7, <1>10, <1>11

\* One byte more.
LEMMA CrcAppend ==
  /\ << >> \in Seq(Byte) /\ CrcOf[<< >>] = 0
  /\ \A s \in Seq(Byte), byte \in Byte :
       /\ Append(s, byte) \in Seq(Byte)
       /\ CrcOf[Append(s, byte)] = CrcUpdate(CrcOf[s], byte)
<1>1. << >> \in Seq(Byte) /\ CrcOf[<< >>] = 0
  <2>1. << >> \in Seq(Byte)
    OBVIOUS
  <2> QED
    BY <2>1, CrcRecursion, Zenon
<1>2. ASSUME NEW s \in Seq(Byte), NEW byte \in Byte
      PROVE  /\ Append(s, byte) \in Seq(Byte)
             /\ CrcOf[Append(s, byte)] = CrcUpdate(CrcOf[s], byte)
  <2> DEFINE t == Append(s, byte)
  <2>1. t \in Seq(Byte) /\ t # << >> /\ Len(t) = Len(s) + 1 /\ t[Len(t)] = byte
    OBVIOUS
  <2>2. Front(t) = s
    <3>1. Len(t) - 1 = Len(s) /\ \A i \in 1 .. Len(s) : t[i] = s[i] /\ s[i] \in Byte
      OBVIOUS
    <3>2. Front(t) = SubSeq(t, 1, Len(s))
      BY <3>1 DEF Front
    <3>3. /\ SubSeq(t, 1, Len(s)) \in Seq(Byte) /\ Len(SubSeq(t, 1, Len(s))) = Len(s)
          /\ \A i \in 1 .. Len(s) : SubSeq(t, 1, Len(s))[i] = s[i]
      <4> HIDE DEF t
      <4> QED
        BY <3>1, SubSeqProperties
    <3> QED
      BY <3>2, <3>3, SeqEqual
  <2> HIDE DEF t
  <2> QED
    BY <2>1, <2>2, CrcRecursion DEF t
<1> QED
  BY <1>1, <1>2

\* What the parser accumulates on its way through a frame.
LEMMA CrcOfCommand ==
  ASSUME NEW cmd \in Byte
  PROVE  <<cmd>> \in Seq(Byte) /\ CrcOf[<<cmd>>] = CrcUpdate(0, cmd)
<1>1. <<cmd>> \in Seq(Byte) /\ <<cmd>> = Append(<< >>, cmd)
  OBVIOUS
<1> QED
  BY <1>1, CrcAppend

LEMMA CrcOfLength ==
  ASSUME NEW cmd \in Byte, NEW len \in Byte
  PROVE  CrcOf[<<cmd, len>> \o << >>] = CrcUpdate(CrcOf[<<cmd>>], len)
<1>1. <<cmd, len>> \in Seq(Byte)
  OBVIOUS
<1>2. <<cmd, len>> = Append(<<cmd>>, len)
  OBVIOUS
<1>3. <<cmd, len>> \o << >> = Append(<<cmd>>, len)
  BY <1>1, <1>2, ConcatEmptySeq
<1> QED
  BY <1>3, CrcOfCommand, CrcAppend

LEMMA CrcOfPayload ==
  ASSUME NEW cmd \in Byte, NEW len \in Byte, NEW payload \in Seq(Byte), NEW byte \in Byte
  PROVE  CrcOf[<<cmd, len>> \o Append(payload, byte)] =
           CrcUpdate(CrcOf[<<cmd, len>> \o payload], byte)
<1> DEFINE two == <<cmd, len>>
<1>1. two \in Seq(Byte)
  OBVIOUS
<1> HIDE DEF two
<1>2. /\ two \o payload \in Seq(Byte)
      /\ two \o Append(payload, byte) = Append(two \o payload, byte)
  BY <1>1
<1> QED
  BY <1>2, CrcAppend DEF two

\* What fits is said by a byte.
LEMMA FitsByte == \A n \in Nat : n <= MaxPayload => n \in Byte
BY FramesFit DEF Byte

\* The encoding of a frame, byte by byte.
LEMMA EncodedBytes ==
  ASSUME NEW frame \in Frame, Len(frame.payload) \in Byte
  PROVE  LET e == Encoded(frame)
             L == Len(frame.payload)
         IN  /\ e \in Seq(Byte) /\ L \in Nat /\ Len(e) = L + 5
             /\ e[1] = Header /\ e[2] = frame.cmd /\ e[3] = L
             /\ \A i \in 1 .. L : e[3 + i] = frame.payload[i]
             /\ e[4 + L] = CrcOf[<<frame.cmd, L>> \o frame.payload]
             /\ e[5 + L] = Footer
<1> DEFINE cmd == frame.cmd
           payload == frame.payload
           L == Len(payload)
           crc == CrcOf[<<cmd, L>> \o payload]
<1>1. cmd \in Byte /\ payload \in Seq(Byte) /\ L \in Byte /\ L \in Nat
  <2>1. \A n \in Byte : n \in Nat
    BY ONLY DEF Byte
  <2>2. cmd \in Byte /\ payload \in Seq(Byte)
    BY DEF Frame
  <2> QED
    BY <2>1, <2>2
<1>2. Header \in Byte /\ Footer \in Byte
  BY ONLY DEF Header, Footer, Byte
<1>3. crc \in Byte
  <2>1. <<cmd, L>> \o payload \in Seq(Byte)
    BY <1>1
  <2> QED
    BY <2>1, CrcRecursion
<1>4. Encoded(frame) = <<Header>> \o (<<cmd, L>> \o payload) \o <<crc, Footer>>
  BY DEF Encoded, Body
<1> HIDE DEF crc, L, payload, cmd
<1>5. L = Len(payload)
  BY DEF L
<1> DEFINE e == <<Header>> \o (<<cmd, L>> \o payload) \o <<crc, Footer>>
<1>6. e \in Seq(Byte) /\ Len(e) = L + 5
  BY <1>1, <1>2, <1>3, <1>5
<1>7. e[1] = Header /\ e[2] = cmd /\ e[3] = L
  BY <1>1, <1>2, <1>3, <1>5
<1>8. \A i \in 1 .. L : e[3 + i] = payload[i]
  BY <1>1, <1>2, <1>3, <1>5
<1>9. e[4 + L] = crc /\ e[5 + L] = Footer
  BY <1>1, <1>2, <1>3, <1>5
<1> HIDE DEF e
<1> QED
  BY <1>1, <1>4, <1>6, <1>7, <1>8, <1>9 DEF e, crc, L, payload, cmd

-----------------------------------------------------------------------------
(* What the parser remembers *)

States == {"Header", "Command", "Length", "Payload", "Checksum", "Footer"}

Parser == [state : States, cmd : Byte, len : Byte, payload : Seq(Byte), crc : Byte]

\* What the parser holds of a frame is what it has heard of it.
Shape(p, h) ==
  LET L == Len(p.payload)
  IN  /\ L <= MaxPayload
      /\ p.state # "Header" => h[1] = Header
      /\ p.state = "Command" => Len(h) = 1 /\ p.crc = 0
      /\ p.state = "Length"  => Len(h) = 2 /\ p.crc = CrcOf[<<p.cmd>>]
      /\ p.state \in {"Length", "Payload", "Checksum", "Footer"} => h[2] = p.cmd
      /\ p.state \in {"Payload", "Checksum", "Footer"} =>
           /\ h[3] = p.len /\ p.len <= MaxPayload
           /\ p.crc = CrcOf[<<p.cmd, p.len>> \o p.payload]
           /\ \A i \in 1 .. L : h[3 + i] = p.payload[i]
      /\ p.state = "Payload"  => Len(h) = 3 + L /\ L < p.len
      /\ p.state = "Checksum" => Len(h) = 3 + L /\ L = p.len
      /\ p.state = "Footer"   => Len(h) = 4 + L /\ L = p.len /\ h[4 + L] = p.crc

\* What Receive() makes of heard.
Heard(p, h, byte) == IF p.state = "Header" THEN <<byte>> ELSE Append(h, byte)

LEMMA BytesNatural == \A byte \in Byte : byte \in Nat
BY DEF Byte

LEMMA FieldsTyped ==
  ASSUME NEW p \in Parser
  PROVE  /\ p.state \in States /\ p.cmd \in Byte /\ p.len \in Byte
         /\ p.payload \in Seq(Byte) /\ p.crc \in Byte
         /\ Len(p.payload) \in Nat /\ p.len \in Nat
<1>1. p.state \in States /\ p.cmd \in Byte /\ p.len \in Byte
      /\ p.payload \in Seq(Byte) /\ p.crc \in Byte
  BY DEF Parser
<1>2. Len(p.payload) \in Nat
  BY <1>1
<1> QED
  BY <1>1, <1>2, BytesNatural

LEMMA HeardGrows ==
  ASSUME NEW p \in Parser, p.state # "Header", NEW h \in Seq(Byte), NEW byte \in Byte
  PROVE  /\ Heard(p, h, byte) \in Seq(Byte) /\ Len(h) \in Nat
         /\ Len(Heard(p, h, byte)) = Len(h) + 1
         /\ \A i \in 1 .. Len(h) : Heard(p, h, byte)[i] = h[i]
         /\ Heard(p, h, byte)[Len(h) + 1] = byte
BY DEF Heard

\* A byte that does not end a frame takes the parser one byte further.
LEMMA AcceptSound ==
  ASSUME NEW p \in Parser, NEW h \in Seq(Byte), Shape(p, h), NEW byte \in Byte,
         Verdict(p, byte) = "NeedMore"
  PROVE  /\ Accept(p, byte) \in Parser
         /\ Shape(Accept(p, byte), Heard(p, h, byte))
         /\ Accept(p, byte).state = "Header" => p.state = "Header" /\ byte # Header
<1> DEFINE next == Accept(p, byte)
           g == Heard(p, h, byte)
           L == Len(p.payload)
           crc == CrcUpdate(p.crc, byte)
<1>1. crc \in Byte
  BY ParserConfig, FieldsTyped
<1>2. /\ p.state \in States /\ p.payload \in Seq(Byte) /\ p.cmd \in Byte
      /\ p.len \in Byte /\ L \in Nat /\ p.len \in Nat /\ byte \in Nat
      /\ MaxPayload \in Nat /\ L <= MaxPayload
  BY FieldsTyped, LimitNatural, BytesNatural DEF Shape
<1>0. p.state # "Header" => /\ Len(g) = Len(h) + 1 /\ Len(h) \in Nat
                            /\ \A i \in 1 .. Len(h) : g[i] = h[i]
                            /\ g[Len(h) + 1] = byte
  BY HeardGrows
<1>3. CASE p.state = "Header"
  <2>1. next = IF byte = Header THEN Started(p) ELSE p
    BY <1>3 DEF Accept
  <2>2. Started(p) = [state |-> "Command", cmd |-> 0, len |-> 0,
                      payload |-> << >>, crc |-> 0]
    BY DEF Started, Hunting
  <2>3. Started(p) \in Parser
    BY <2>2 DEF Parser, States, Byte
  <2>4. Started(p).state = "Command" /\ Started(p).payload = << >> /\ Started(p).crc = 0
    BY <2>2
  <2>5. g = <<byte>> /\ Len(<<byte>>) = 1 /\ <<byte>>[1] = byte
    BY <1>3 DEF Heard
  <2>6. byte = Header => Shape(Started(p), g)
    <3>1. Len(<< >>) = 0
      OBVIOUS
    <3> QED
      BY <1>2, <2>4, <2>5, <3>1 DEF Shape
  <2>7. Shape(p, g)
    BY <1>2, <1>3 DEF Shape
  <2> QED
    BY <1>3, <2>1, <2>3, <2>4, <2>6, <2>7
<1>4. CASE p.state = "Command"
  <2>1. next = [p EXCEPT !.crc = crc, !.cmd = byte, !.state = "Length"]
    BY <1>4 DEF Accept, Parser
  <2> HIDE DEF crc
  <2>2. next \in Parser
    BY <1>1, <2>1 DEF Parser, States
  <2>3. next.state = "Length" /\ next.payload = p.payload /\ next.cmd = byte /\ next.crc = crc
    BY <2>1 DEF Parser
  <2>4. Len(g) = 2 /\ g[1] = Header /\ g[2] = byte
    <3>1. Len(h) = 1 /\ h[1] = Header
      BY <1>4 DEF Shape
    <3> HIDE DEF g
    <3> QED
      BY <1>0, <1>4, <3>1
  <2>5. crc = CrcOf[<<byte>>]
    <3>1. p.crc = 0
      BY <1>4 DEF Shape
    <3> QED
      BY <3>1, CrcOfCommand DEF crc
  <2> HIDE DEF next, g
  <2>6. Shape(next, g)
    BY <1>2, <2>3, <2>4, <2>5 DEF Shape
  <2> QED
    BY <1>4, <2>2, <2>3, <2>6 DEF next, g
<1>5. CASE p.state = "Length"
  <2> DEFINE state == IF byte = 0 THEN "Checksum" ELSE "Payload"
  <2>1. byte <= MaxPayload
    BY <1>2, <1>5 DEF Verdict, TooLong
  <2>2. next = [p EXCEPT !.crc = crc, !.len = byte, !.payload = << >>, !.state = state]
    BY <1>5 DEF Accept, Parser
  <2>3. state \in {"Checksum", "Payload"} /\ << >> \in Seq(Byte) /\ Len(<< >>) = 0
        /\ (state = "Checksum" <=> byte = 0)
    OBVIOUS
  <2> HIDE DEF state, crc
  <2>4. next \in Parser
    BY <1>1, <2>2, <2>3 DEF Parser, States
  <2>5. /\ next.state = state /\ next.payload = << >> /\ next.len = byte
        /\ next.cmd = p.cmd /\ next.crc = crc
    BY <2>2 DEF Parser
  <2>6. Len(g) = 3 /\ g[1] = Header /\ g[2] = p.cmd /\ g[3] = byte
    <3>1. Len(h) = 2 /\ h[1] = Header /\ h[2] = p.cmd
      BY <1>5 DEF Shape
    <3> HIDE DEF g
    <3> QED
      BY <1>0, <1>5, <3>1
  <2>7. crc = CrcOf[<<p.cmd, byte>> \o << >>]
    <3>1. p.crc = CrcOf[<<p.cmd>>]
      BY <1>5 DEF Shape
    <3>2. CrcOf[<<p.cmd, byte>> \o << >>] = CrcUpdate(CrcOf[<<p.cmd>>], byte)
      BY <1>2, CrcOfLength
    <3> QED
      BY <3>1, <3>2, Zenon DEF crc
  <2> HIDE DEF next, g
  <2>8. Shape(next, g)
    BY <1>2, <2>1, <2>3, <2>5, <2>6, <2>7 DEF Shape
  <2> QED
    BY <2>3, <2>4, <2>5, <2>8 DEF next, g
<1>6. CASE p.state = "Payload"
  <2> DEFINE bytes == Append(p.payload, byte)
             state == IF L + 1 >= p.len THEN "Checksum" ELSE "Payload"
  <2>1. /\ bytes \in Seq(Byte) /\ Len(bytes) = L + 1
        /\ \A i \in 1 .. L : bytes[i] = p.payload[i]
        /\ bytes[L + 1] = byte
    BY <1>2
  <2>2. next = [p EXCEPT !.crc = crc, !.payload = bytes, !.state = state]
    BY <1>6 DEF Accept, Parser
  <2>3. state \in {"Checksum", "Payload"} /\ (state = "Checksum" <=> L + 1 >= p.len)
    OBVIOUS
  <2>4. /\ L < p.len /\ p.len <= MaxPayload
        /\ crc = CrcOf[<<p.cmd, p.len>> \o bytes]
    <3>1. /\ L < p.len /\ p.len <= MaxPayload
          /\ p.crc = CrcOf[<<p.cmd, p.len>> \o p.payload]
      BY <1>6 DEF Shape
    <3>2. CrcOf[<<p.cmd, p.len>> \o bytes] =
            CrcUpdate(CrcOf[<<p.cmd, p.len>> \o p.payload], byte)
      <4>1. p.cmd \in Byte /\ p.len \in Byte /\ p.payload \in Seq(Byte) /\ byte \in Byte
        BY <1>1 DEF Parser
      <4> QED
        BY ONLY <4>1, CrcOfPayload
    <3> QED
      BY <3>1, <3>2, Zenon
  <2> HIDE DEF state, bytes, crc
  <2>5. next \in Parser
    BY <1>1, <2>1, <2>2, <2>3 DEF Parser, States
  <2>6. /\ next.state = state /\ next.payload = bytes /\ next.len = p.len
        /\ next.cmd = p.cmd /\ next.crc = crc
    BY <2>2 DEF Parser
  <2>7. /\ Len(g) = 3 + (L + 1) /\ g[1] = Header /\ g[2] = p.cmd /\ g[3] = p.len
        /\ g[3 + (L + 1)] = byte
        /\ \A i \in 1 .. L : g[3 + i] = p.payload[i]
    <3>1. /\ Len(h) = 3 + L /\ h[1] = Header /\ h[2] = p.cmd /\ h[3] = p.len
          /\ \A i \in 1 .. L : h[3 + i] = p.payload[i]
      BY <1>6 DEF Shape
    <3> HIDE DEF g, L
    <3> QED
      BY <1>0, <1>2, <1>6, <3>1
  <2>8. \A i \in 1 .. L + 1 : g[3 + i] = bytes[i]
    <3> HIDE DEF g, L
    <3> QED
      BY <1>2, <2>1, <2>7
  <2> HIDE DEF next, g
  <2>9. Shape(next, g)
    <3>1. L + 1 <= MaxPayload /\ L + 1 <= p.len
      BY <1>2, <2>4
    <3>2. Len(next.payload) = L + 1 /\ p.len <= MaxPayload
      BY <2>1, <2>4, <2>6
    <3>3. next.state = "Payload" => L + 1 < p.len
      BY <1>2, <2>3, <2>6
    <3>4. next.state = "Checksum" => L + 1 = p.len
      BY <1>2, <2>3, <2>6, <3>1
    <3> HIDE DEF L
    <3> QED
      BY <2>3, <2>4, <2>6, <2>7, <2>8, <3>1, <3>2, <3>3, <3>4 DEF Shape
  <2> QED
    BY <2>3, <2>5, <2>6, <2>9 DEF next, g
<1>7. CASE p.state \in {"Checksum", "Footer"}
  <2>1. p.state = "Checksum" /\ byte = p.crc
    BY <1>7 DEF Verdict
  <2>2. next = [p EXCEPT !.state = "Footer"]
    BY <2>1 DEF Accept
  <2>3. next \in Parser
    BY <2>2 DEF Parser, States
  <2>4. /\ next.state = "Footer" /\ next.payload = p.payload /\ next.len = p.len
        /\ next.cmd = p.cmd /\ next.crc = p.crc
    BY <2>2 DEF Parser
  <2>5. /\ Len(g) = 4 + L /\ g[1] = Header /\ g[2] = p.cmd /\ g[3] = p.len
        /\ g[4 + L] = byte
        /\ \A i \in 1 .. L : g[3 + i] = p.payload[i]
    <3>1. /\ Len(h) = 3 + L /\ h[1] = Header /\ h[2] = p.cmd /\ h[3] = p.len
          /\ \A i \in 1 .. L : h[3 + i] = p.payload[i]
      BY <2>1 DEF Shape
    <3>2. /\ Len(g) = Len(h) + 1 /\ g[Len(h) + 1] = byte
          /\ \A k \in 1 .. Len(h) : g[k] = h[k]
      BY <1>0, <2>1
    <3> HIDE DEF g, L
    <3> QED
      BY ONLY <1>2, <3>1, <3>2
  <2>6. /\ L = p.len /\ p.len <= MaxPayload
        /\ p.crc = CrcOf[<<p.cmd, p.len>> \o p.payload]
    BY <2>1 DEF Shape
  <2> HIDE DEF next, g
  <2>7. Shape(next, g)
    BY <1>2, <2>1, <2>4, <2>5, <2>6 DEF Shape
  <2> QED
    BY <2>3, <2>4, <2>7 DEF next, g
<1> QED
  BY <1>2, <1>3, <1>4, <1>5, <1>6, <1>7 DEF States

LEMMA HuntingSound == Hunting \in Parser /\ Hunting.state = "Header" /\ \A h : Shape(Hunting, h)
<1>1. Hunting \in Parser
  BY DEF Hunting, Parser, States, Byte
<1>2. Hunting.state = "Header" /\ Hunting.payload = << >> /\ Len(<< >>) = 0
  BY DEF Hunting
<1>3. \A h : Shape(Hunting, h)
  BY <1>2, LimitNatural DEF Shape
<1> QED
  BY <1>1, <1>2, <1>3

\* A frame is complete when all of its encoding has been heard.
LEMMA CompleteSound ==
  ASSUME NEW p \in Parser, NEW h \in Seq(Byte), Shape(p, h), NEW byte \in Byte,
         Verdict(p, byte) = "Complete"
  PROVE  Heard(p, h, byte) = Encoded([cmd |-> p.cmd, payload |-> p.payload])
<1> DEFINE frame == [cmd |-> p.cmd, payload |-> p.payload]
           L == Len(p.payload)
           g == Heard(p, h, byte)
           e == Encoded(frame)
<1>1. p.state = "Footer" /\ byte = Footer
  BY DEF Verdict
<1>2. /\ p.cmd \in Byte /\ p.payload \in Seq(Byte) /\ L \in Nat
  BY FieldsTyped
<1>3. /\ Len(h) = 4 + L /\ h[1] = Header /\ h[2] = p.cmd /\ h[3] = L
      /\ \A i \in 1 .. L : h[3 + i] = p.payload[i]
      /\ h[4 + L] = CrcOf[<<p.cmd, L>> \o p.payload]
      /\ L <= MaxPayload
  BY <1>1 DEF Shape
<1>4. L \in Byte
  BY <1>2, <1>3, FitsByte
<1>5. frame \in Frame /\ frame.cmd = p.cmd /\ frame.payload = p.payload
  BY <1>2 DEF Frame
<1>6. /\ e \in Seq(Byte) /\ Len(e) = L + 5
      /\ e[1] = Header /\ e[2] = p.cmd /\ e[3] = L
      /\ \A i \in 1 .. L : e[3 + i] = p.payload[i]
      /\ e[4 + L] = CrcOf[<<p.cmd, L>> \o p.payload]
      /\ e[5 + L] = Footer
  <2> HIDE DEF frame
  <2> QED
    BY <1>4, <1>5, EncodedBytes
<1>7. /\ g \in Seq(Byte) /\ Len(g) = Len(h) + 1 /\ Len(h) \in Nat
      /\ \A i \in 1 .. Len(h) : g[i] = h[i]
      /\ g[Len(h) + 1] = byte
  BY <1>1, HeardGrows
<1> HIDE DEF g, e, L
<1>8. \A i \in 1 .. Len(g) : g[i] = e[i]
  <2> SUFFICES ASSUME NEW i \in 1 .. Len(g) PROVE g[i] = e[i]
    OBVIOUS
  <2>1. CASE i \in 1 .. 3
    BY <1>2, <1>3, <1>6, <1>7, <2>1
  <2>2. CASE i \in 4 .. 3 + L
    <3>1. i - 3 \in 1 .. L /\ 3 + (i - 3) = i
      BY <1>2, <2>2
    <3>2. h[3 + (i - 3)] = p.payload[i - 3] /\ e[3 + (i - 3)] = p.payload[i - 3]
      BY <1>3, <1>6, <3>1, Zenon
    <3>3. g[i] = h[i]
      BY <1>2, <1>3, <1>7, <2>2
    <3> QED
      BY <3>1, <3>2, <3>3
  <2>3. CASE i \in {4 + L, 5 + L}
    BY <1>1, <1>2, <1>3, <1>6, <1>7, <2>3
  <2> QED
    BY <1>2, <1>3, <1>7, <2>1, <2>2, <2>3
<1>9. Len(g) = Len(e)
  BY <1>2, <1>3, <1>6, <1>7
<1> QED
  BY <1>6, <1>7, <1>8, <1>9, SeqEqual DEF g, e

\* Every byte, whatever comes of it.
LEMMA FeedSound ==
  ASSUME NEW p \in Parser, NEW h \in Seq(Byte), Shape(p, h), NEW byte \in Byte
  PROVE  /\ Feed(p, byte) \in Parser
         /\ Shape(Feed(p, byte), Heard(p, h, byte))
         /\ Verdict(p, byte) = "Complete" =>
              Heard(p, h, byte) = Encoded([cmd |-> Feed(p, byte).cmd,
                                           payload |-> Feed(p, byte).payload])
         /\ Feed(p, byte).state = "Header" =>
              \/ p.state = "Header" /\ byte # Header
              \/ Verdict(p, byte) # "NeedMore"
<1>1. CASE Verdict(p, byte) = "NeedMore"
  <2>1. Feed(p, byte) = Accept(p, byte)
    BY <1>1 DEF Feed
  <2> QED
    BY <1>1, <2>1, AcceptSound
<1>2. CASE Verdict(p, byte) = "Complete"
  <2>1. Feed(p, byte) = [p EXCEPT !.state = "Header"]
    BY <1>2 DEF Feed
  <2>2. /\ Feed(p, byte) \in Parser /\ Feed(p, byte).state = "Header"
        /\ Feed(p, byte).cmd = p.cmd /\ Feed(p, byte).payload = p.payload
    BY <2>1 DEF Parser, States
  <2>3. Shape(Feed(p, byte), Heard(p, h, byte))
    BY <2>2 DEF Shape
  <2> QED
    BY <1>2, <2>2, <2>3, CompleteSound
<1>3. CASE Verdict(p, byte) \notin {"NeedMore", "Complete"}
  <2>1. Feed(p, byte) = Hunting
    BY <1>3 DEF Feed, Fail
  <2> QED
    BY <1>3, <2>1, HuntingSound
<1> QED
  BY <1>1, <1>2, <1>3

-----------------------------------------------------------------------------
(* A frame that arrives whole *)

\* What has been heard and what is still to come make up an encoding.
Continues(h, l, e) ==
  /\ Len(h) + Len(l) = Len(e)
  /\ \A i \in 1 .. Len(h) : h[i] = e[i]
  /\ \A i \in 1 .. Len(l) : l[i] = e[Len(h) + i]

LEMMA EncodedFrame ==
  ASSUME NEW frame \in Frames
  PROVE  LET e == Encoded(frame)
             L == Len(frame.payload)
         IN  /\ frame.cmd \in Byte /\ frame.payload \in Seq(Byte)
             /\ e \in Seq(Byte) /\ L \in Nat /\ Len(e) = L + 5 /\ L <= MaxPayload
             /\ e[1] = Header /\ e[2] = frame.cmd /\ e[3] = L
             /\ \A i \in 1 .. L : e[3 + i] = frame.payload[i]
             /\ e[4 + L] = CrcOf[<<frame.cmd, L>> \o frame.payload]
             /\ e[5 + L] = Footer
<1>1. frame \in Frame /\ frame.cmd \in Byte /\ frame.payload \in Seq(Byte)
  BY ParserConfig DEF Frame
<1> DEFINE L == Len(frame.payload)
<1>2. L \in Nat /\ L <= MaxPayload
  BY <1>1, FramesFit
<1> HIDE DEF L
<1>3. L \in Byte
  BY <1>2, FitsByte
<1> QED
  BY <1>1, <1>2, <1>3, EncodedBytes DEF L

\* The next byte of a frame heard from its beginning is never refused, and
\* only the last one is taken for its end.
LEMMA NextByte ==
  ASSUME NEW p \in Parser, p.state # "Header", NEW h \in Seq(Byte), Shape(p, h),
         NEW l \in Seq(Byte), NEW frame \in Frames, Continues(h, l, Encoded(frame))
  PROVE  /\ Len(l) > 0
         /\ \/ Verdict(p, l[1]) = "NeedMore"
            \/ Verdict(p, l[1]) = "Complete" /\ Len(l) = 1
<1> DEFINE e == Encoded(frame)
           L == Len(frame.payload)
           P == Len(p.payload)
<1>1. /\ frame.cmd \in Byte /\ frame.payload \in Seq(Byte)
      /\ e \in Seq(Byte) /\ L \in Nat /\ Len(e) = L + 5 /\ L <= MaxPayload
      /\ e[1] = Header /\ e[2] = frame.cmd /\ e[3] = L
      /\ \A i \in 1 .. L : e[3 + i] = frame.payload[i]
      /\ e[4 + L] = CrcOf[<<frame.cmd, L>> \o frame.payload]
      /\ e[5 + L] = Footer
  BY EncodedFrame
<1>2. /\ p.state \in States /\ p.payload \in Seq(Byte) /\ P \in Nat /\ p.len \in Nat
      /\ Len(h) \in Nat /\ Len(l) \in Nat /\ MaxPayload \in Nat
  BY FieldsTyped, LimitNatural
<1>3. /\ Len(h) + Len(l) = L + 5
      /\ \A i \in 1 .. Len(h) : h[i] = e[i]
      /\ Len(l) > 0 => l[1] = e[Len(h) + 1]
  <2>1. /\ Len(h) + Len(l) = Len(e)
        /\ \A i \in 1 .. Len(h) : h[i] = e[i]
        /\ \A i \in 1 .. Len(l) : l[i] = e[Len(h) + i]
    BY DEF Continues
  <2> HIDE DEF e, L
  <2> QED
    BY <1>1, <1>2, <2>1
<1> HIDE DEF e, L, P
<1>8. L \in Nat /\ Len(h) \in Nat /\ Len(l) \in Nat /\ Len(h) + Len(l) = L + 5
  BY <1>1, <1>2, <1>3
<1>4. CASE p.state = "Command"
  <2>1. Len(h) = 1
    BY <1>4 DEF Shape
  <2> QED
    BY <1>1, <1>2, <1>3, <1>4, <2>1 DEF Verdict
<1>5. CASE p.state = "Length"
  <2>1. Len(h) = 2
    BY <1>5 DEF Shape
  <2>2. Len(l) > 0 /\ l[1] = L
    BY <1>1, <1>2, <1>3, <2>1
  <2> QED
    BY <1>1, <1>2, <1>5, <2>2 DEF Verdict, TooLong
<1>6. CASE p.state = "Payload"
  <2>1. Len(h) = 3 + P /\ h[3] = p.len /\ P < p.len
    BY <1>6 DEF Shape, P
  <2>2. p.len = L
    BY <1>1, <1>2, <1>3, <2>1
  <2> QED
    BY <1>1, <1>2, <1>3, <1>6, <2>1, <2>2 DEF Verdict
<1>7. CASE p.state \in {"Checksum", "Footer"}
  <2>1. /\ h[2] = p.cmd /\ h[3] = p.len /\ P = p.len
        /\ p.crc = CrcOf[<<p.cmd, p.len>> \o p.payload]
        /\ \A i \in 1 .. P : h[3 + i] = p.payload[i]
        /\ p.state = "Checksum" => Len(h) = 3 + P
        /\ p.state = "Footer" => Len(h) = 4 + P
    BY <1>7 DEF Shape, P
  <2>2. p.cmd = frame.cmd /\ p.len = L /\ P = L
    <3>1. Len(h) >= 3
      BY <1>2, <1>7, <2>1
    <3>2. h[2] = e[2] /\ h[3] = e[3]
      BY <1>2, <1>3, <3>1
    <3> QED
      BY <1>1, <2>1, <3>2
  <2>3. p.payload = frame.payload
    <3>1. ASSUME NEW i \in 1 .. P PROVE p.payload[i] = frame.payload[i]
      <4>1. h[3 + i] = p.payload[i] /\ e[3 + i] = frame.payload[i]
        BY <1>1, <2>1, <2>2
      <4>2. h[3 + i] = e[3 + i]
        <5>1. Len(h) = 3 + P \/ Len(h) = 4 + P
          BY <1>7, <2>1
        <5>2. 3 + i \in 1 .. Len(h)
          BY ONLY <1>2, <5>1, i \in 1 .. P
        <5> QED
          BY ONLY <1>3, <5>2
      <4> QED
        BY <4>1, <4>2
    <3> QED
      BY <1>1, <1>2, <2>2, <3>1, SeqEqual DEF L, P
  <2>4. p.crc = e[4 + L]
    BY <1>1, <2>1, <2>2, <2>3, Zenon
  <2>5. CASE p.state = "Checksum"
    <3>1. Len(h) = 3 + L
      BY <2>1, <2>2, <2>5
    <3>2. Len(l) = 2 /\ Len(h) + 1 = 4 + L
      <4> DEFINE H == Len(h)
                 M == Len(l)
      <4>1. /\ H \in Nat /\ M \in Nat /\ L \in Nat
            /\ H + M = L + 5 /\ H = 3 + L
        BY <1>8, <3>1
      <4> HIDE DEF H, M
      <4>2. M = 2 /\ H + 1 = 4 + L
        BY <4>1
      <4> QED
        BY <4>2 DEF H, M
    <3>3. l[1] = p.crc
      BY <1>3, <2>4, <3>2
    <3> QED
      BY <2>5, <3>2, <3>3 DEF Verdict
  <2>6. CASE p.state = "Footer"
    <3>1. Len(h) = 4 + L
      BY <2>1, <2>2, <2>6
    <3>2. Len(l) = 1 /\ Len(h) + 1 = 5 + L
      <4> DEFINE H == Len(h)
                 M == Len(l)
      <4>1. /\ H \in Nat /\ M \in Nat /\ L \in Nat
            /\ H + M = L + 5 /\ H = 4 + L
        BY <1>8, <3>1
      <4> HIDE DEF H, M
      <4>2. M = 1 /\ H + 1 = 5 + L
        BY <4>1
      <4> QED
        BY <4>2 DEF H, M
    <3>3. l[1] = Footer
      BY <1>1, <1>3, <3>2
    <3> QED
      BY <2>6, <3>2, <3>3 DEF Verdict
  <2> QED
    BY <1>7, <2>5, <2>6
<1> QED
  BY <1>2, <1>4, <1>5, <1>6, <1>7 DEF States

-----------------------------------------------------------------------------
(* The behaviour *)

ParserTyped ==
  /\ parser \in Parser
  /\ line \in Seq(Byte)
  /\ heard \in Seq(Byte)
  /\ traffic \subseteq Frames

\* A frame that has not been damaged and found the parser hunting is before
\* its first byte, within the frame, or over and complete.
Arriving ==
  clean => \E frame \in Frames :
             \/ parser.state = "Header" /\ line = Encoded(frame)
             \/ parser.state # "Header" /\ Continues(heard, line, Encoded(frame))
             \/ line = << >> /\ result = "Complete"

ParserInv ==
  ParserTyped /\ Shape(parser, heard) /\ OnlyWholeFrames /\ Arriving

\* One byte of the line, damaged or not, reaches the parser.
LEMMA ReceiveSound ==
  ASSUME ParserInv, line # << >>, NEW byte \in Byte, Receive(byte)
  PROVE  ParserTyped' /\ Shape(parser, heard)' /\ OnlyWholeFrames'
<1> USE DEF ParserInv, ParserTyped
<1>1. /\ parser' = Feed(parser, byte) /\ result' = Verdict(parser, byte)
      /\ heard' = Heard(parser, heard, byte)
      /\ line' = Tail(line) /\ traffic' = traffic
  BY DEF Receive, Heard
<1>2. Tail(line) \in Seq(Byte) /\ heard' \in Seq(Byte)
  BY <1>1 DEF Heard
<1>3. /\ parser' \in Parser /\ Shape(parser', heard')
      /\ result' = "Complete" =>
           heard' = Encoded([cmd |-> parser'.cmd, payload |-> parser'.payload])
  BY <1>1, FeedSound
<1> QED
  BY <1>1, <1>2, <1>3 DEF OnlyWholeFrames

\* The next byte of an undamaged frame keeps it arriving.
LEMMA DeliverArrives ==
  ASSUME ParserInv, Deliver
  PROVE  Arriving'
<1> SUFFICES ASSUME clean PROVE Arriving'
  BY DEF Deliver, Arriving
<1> DEFINE byte == Head(line)
<1>1. /\ line # << >> /\ line \in Seq(Byte) /\ heard \in Seq(Byte) /\ parser \in Parser
      /\ byte \in Byte /\ byte = line[1] /\ Len(line) \in Nat \ {0}
      /\ Tail(line) \in Seq(Byte) /\ Len(Tail(line)) = Len(line) - 1
      /\ \A i \in 1 .. Len(line) - 1 : Tail(line)[i] = line[i + 1]
      /\ Shape(parser, heard)
  BY DEF Deliver, ParserInv, ParserTyped
<1>2. /\ parser' = Feed(parser, byte) /\ result' = Verdict(parser, byte)
      /\ heard' = Heard(parser, heard, byte) /\ line' = Tail(line)
  BY DEF Deliver, Receive, Heard
<1> HIDE DEF byte
<1>3. PICK frame \in Frames :
        \/ parser.state = "Header" /\ line = Encoded(frame)
        \/ parser.state # "Header" /\ Continues(heard, line, Encoded(frame))
  BY <1>1 DEF ParserInv, Arriving
<1> DEFINE e == Encoded(frame)
           L == Len(frame.payload)
<1>4. e \in Seq(Byte) /\ L \in Nat /\ Len(e) = L + 5 /\ e[1] = Header
  BY EncodedFrame
<1> HIDE DEF e, L
<1>5. CASE parser.state = "Header"
  <2>1. line = e /\ byte = Header
    BY <1>1, <1>3, <1>4, <1>5 DEF e
  <2>2. Verdict(parser, byte) = "NeedMore"
    BY <1>5 DEF Verdict
  <2>3. parser'.state # "Header"
    BY <1>1, <1>2, <2>1, <2>2, FeedSound
  <2>4. heard' = <<byte>> /\ Len(<<byte>>) = 1 /\ <<byte>>[1] = byte
    BY <1>2, <1>5 DEF Heard
  <2>5. Continues(heard', line', e)
    <3>1. Len(heard') = 1 /\ heard'[1] = e[1]
      BY <1>4, <2>1, <2>4
    <3>2. /\ Len(line) \in Nat /\ Len(line') = Len(line) - 1 /\ Len(line) = Len(e)
          /\ \A i \in 1 .. Len(line) - 1 : line'[i] = e[i + 1]
      BY <1>1, <1>2, <2>1
    <3> HIDE DEF e
    <3> QED
      BY <3>1, <3>2 DEF Continues
  <2> QED
    BY <2>3, <2>5 DEF Arriving, e
<1>6. CASE parser.state # "Header"
  <2>1. Continues(heard, line, e)
    BY <1>3, <1>6 DEF e
  <2>2. \/ Verdict(parser, byte) = "NeedMore"
        \/ Verdict(parser, byte) = "Complete" /\ Len(line) = 1
    BY <1>1, <1>6, <2>1, NextByte DEF e
  <2>3. CASE Verdict(parser, byte) = "NeedMore"
    <3>1. parser'.state # "Header"
      BY <1>1, <1>2, <1>6, <2>3, FeedSound
    <3>2. /\ Len(heard') = Len(heard) + 1 /\ Len(heard) \in Nat
          /\ \A i \in 1 .. Len(heard) : heard'[i] = heard[i]
          /\ heard'[Len(heard) + 1] = byte
      <4>1. heard \in Seq(Byte) /\ parser \in Parser /\ byte \in Byte
        BY <1>1
      <4>2. heard' = Heard(parser, heard, byte)
        BY <1>2
      <4> QED
        BY <1>6, <4>1, <4>2, HeardGrows
    <3>3. /\ Len(heard) + Len(line) = Len(e)
          /\ \A i \in 1 .. Len(heard) : heard[i] = e[i]
          /\ \A i \in 1 .. Len(line) : line[i] = e[Len(heard) + i]
      BY <2>1 DEF Continues
    <3>4. Len(heard') + Len(line') = Len(e)
      BY <1>1, <1>2, <3>2, <3>3
    <3>5. ASSUME NEW i \in 1 .. Len(heard') PROVE heard'[i] = e[i]
      <4>1. byte = e[Len(heard) + 1]
        BY <1>1, <3>3
      <4> QED
        BY <3>2, <3>3, <4>1
    <3>6. ASSUME NEW i \in 1 .. Len(line') PROVE line'[i] = e[Len(heard') + i]
      <4>1. line'[i] = line[i + 1] /\ i + 1 \in 1 .. Len(line)
        BY <1>1, <1>2
      <4>2. line[i + 1] = e[Len(heard) + (i + 1)]
        BY <3>3, <4>1
      <4>3. Len(heard) + (i + 1) = Len(heard') + i
        BY <1>1, <1>2, <3>2
      <4> QED
        BY <4>1, <4>2, <4>3
    <3>7. Continues(heard', line', e)
      BY <3>4, <3>5, <3>6 DEF Continues
    <3> QED
      BY <3>1, <3>7 DEF Arriving, e
  <2>4. CASE Verdict(parser, byte) = "Complete" /\ Len(line) = 1
    <3>1. line' = << >>
      BY <1>1, <1>2, <2>4
    <3> QED
      BY <1>2, <2>4, <3>1 DEF Arriving
  <2> QED
    BY <2>2, <2>3, <2>4
<1> QED
  BY <1>5, <1>6

LEMMA ParserInit == Init => ParserInv
<1> SUFFICES ASSUME Init PROVE ParserInv
  OBVIOUS
<1>1. Hunting \in Parser /\ \A h : Shape(Hunting, h)
  BY HuntingSound
<1>2. PICK frame \in traffic, n \in 1 .. MaxPayload + 5 :
        line = SubSeq(Encoded(frame), n, Len(Encoded(frame)))
  BY DEF Init
<1>3. /\ frame \in Frames /\ n \in Nat \ {0}
  BY <1>2, LimitNatural DEF Init
<1>4. Encoded(frame) \in Seq(Byte)
  BY <1>3, EncodedFrame
<1>5. line \in Seq(Byte)
  BY <1>2, <1>3, <1>4
<1>6. result = "NeedMore" /\ clean = FALSE /\ heard = << >> /\ << >> \in Seq(Byte)
  BY DEF Init
<1> QED
  BY <1>1, <1>5, <1>6 DEF Init, ParserInv, ParserTyped, OnlyWholeFrames, Arriving

LEMMA ParserStep == ParserInv /\ [Next]_vars => ParserInv'
<1> SUFFICES ASSUME ParserInv, [Next]_vars PROVE ParserInv'
  OBVIOUS
<1>1. CASE Send
  <2>1. PICK frame \in traffic : line' = Encoded(frame)
    BY <1>1 DEF Send
  <2>2. frame \in Frames
    BY <2>1 DEF ParserInv, ParserTyped
  <2>3. line' \in Seq(Byte)
    BY <2>1, <2>2, EncodedFrame
  <2>4. /\ clean' = (parser.state = "Header")
        /\ UNCHANGED <<parser, result, traffic, faulty, heard>>
    BY <1>1 DEF Send
  <2>5. Arriving'
    BY <2>1, <2>2, <2>4 DEF Arriving
  <2> QED
    BY <2>3, <2>4, <2>5 DEF ParserInv, ParserTyped, OnlyWholeFrames
<1>2. CASE Deliver
  <2>1. Head(line) \in Byte
    BY <1>2 DEF Deliver, ParserInv, ParserTyped
  <2> QED
    BY <1>2, <2>1, ReceiveSound, DeliverArrives DEF Deliver, ParserInv
<1>3. CASE Damage
  <2>1. PICK byte \in Noise : line # << >> /\ Receive(byte) /\ clean' = FALSE
    BY <1>3 DEF Damage
  <2>2. byte \in Byte
    BY ParserConfig
  <2> QED
    BY <2>1, <2>2, ReceiveSound DEF ParserInv, Arriving
<1>4. CASE Lose
  <2>1. Tail(line) \in Seq(Byte)
    BY <1>4 DEF Lose, ParserInv, ParserTyped
  <2> QED
    BY <1>4, <2>1 DEF Lose, ParserInv, ParserTyped, OnlyWholeFrames, Arriving
<1>5. CASE UNCHANGED vars
  BY <1>5 DEF vars, ParserInv, ParserTyped, OnlyWholeFrames, Arriving
<1> QED
  BY <1>1, <1>2, <1>3, <1>4, <1>5 DEF Next

LEMMA ParserInvAlways == Spec => []ParserInv
BY ParserInit, ParserStep, PTL DEF Spec

LEMMA ParserInvBounds == ParserInv => ParserBounds
<1> SUFFICES ASSUME ParserInv PROVE ParserBounds
  OBVIOUS
<1> DEFINE stored == Len(parser.payload)
           n == Len(heard)
<1>1. /\ parser \in Parser /\ heard \in Seq(Byte) /\ Shape(parser, heard)
  BY DEF ParserInv, ParserTyped
<1>2. /\ parser.state \in States /\ stored \in Nat /\ parser.len \in Nat
      /\ MaxPayload \in Nat /\ n \in Nat /\ stored <= MaxPayload
  BY <1>1, FieldsTyped, LimitNatural DEF Shape
<1>3. ASSUME parser.state = "Payload" PROVE n = 3 + stored /\ stored < MaxPayload
  <2>1. n = 3 + stored /\ stored < parser.len /\ parser.len <= MaxPayload
    BY <1>1, <1>3 DEF Shape
  <2> QED
    BY <1>2, <2>1
<1>4. ASSUME parser.state # "Header" PROVE n <= MaxPayload + 4
  <2>1. n \in {1, 2} \/ n = 3 + stored \/ n = 4 + stored
    <3>1. parser.state \in {"Command", "Length", "Payload", "Checksum", "Footer"}
      BY <1>2, <1>4 DEF States
    <3> QED
      BY <1>1, <3>1 DEF Shape
  <2> HIDE DEF stored, n
  <2> QED
    BY <1>2, <2>1
<1> QED
  BY <1>2, <1>3, <1>4 DEF ParserBounds

\* ParserBounds of FrameParser: no byte is written past the payload's array,
\* and no frame, however its length byte was damaged, lasts longer than the
\* longest frame there is.
THEOREM ParserAlwaysBounded == Spec => []ParserBounds
BY ParserInvAlways, ParserInvBounds, PTL

\* OnlyWholeFrames of FrameParser, for every CRC and every noise on the line:
\* what the parser calls a frame is, byte for byte, what encode() makes of it.
THEOREM OnlyWholeFramesEver == Spec => []OnlyWholeFrames
<1>1. ParserInv => OnlyWholeFrames
  BY DEF ParserInv
<1> QED
  BY <1>1, ParserInvAlways, PTL

\* FramesArrive of FrameParser, for every CRC and every frame that fits: a
\* frame that arrives undamaged at a parser that hunts for a header is never
\* refused, whatever the parser went through before.
THEOREM FramesAlwaysArrive == Spec => []FramesArrive
<1>1. ParserInv => FramesArrive
  <2> SUFFICES ASSUME ParserInv, clean, line = << >>, result # "Complete"
               PROVE  FALSE
    BY DEF FramesArrive
  <2>1. PICK frame \in Frames :
          \/ line = Encoded(frame)
          \/ parser.state # "Header" /\ Continues(heard, line, Encoded(frame))
    BY DEF ParserInv, Arriving
  <2>2. Len(line) = 0
    OBVIOUS
  <2>3. Len(Encoded(frame)) > 0
    <3>1. Len(frame.payload) \in Nat /\ Len(Encoded(frame)) = Len(frame.payload) + 5
      BY EncodedFrame
    <3> QED
      BY <3>1
  <2>4. parser \in Parser /\ heard \in Seq(Byte) /\ line \in Seq(Byte)
        /\ Shape(parser, heard)
    BY DEF ParserInv, ParserTyped
  <2>5. parser.state # "Header" /\ Continues(heard, line, Encoded(frame))
    BY <2>1, <2>2, <2>3
  <2>6. Len(line) > 0
    BY <2>4, <2>5, NextByte
  <2> QED
    BY <2>2, <2>6
<1> QED
  BY <1>1, ParserInvAlways, PTL
=============================================================================
