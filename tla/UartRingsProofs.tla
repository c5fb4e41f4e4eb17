--------------------------- MODULE UartRingsProofs --------------------------
(***************************************************************************)
(* The UART driver's promises about CR1, the wire and the receive ring,    *)
(* for every ring size, frame length and byte. The argument about CR1 is   *)
(* who may hold a stale copy of it while which of its two bits changes;    *)
(* the one about the ring is where pop() stands between its byte and its   *)
(* count.                                                                  *)
(***************************************************************************)
EXTENDS UartRings, TLAPS

Bits == [rxneie : BOOLEAN, txeie : BOOLEAN]

\* Where read() holds the receive interrupt off.
Masked == {"pop", "count_load", "count_store", "unmask_empty", "unmask_got",
           "unmask_store_empty", "unmask_store_got"}

Labels == Masked \cup {"wait", "flag_load", "flag_clear", "poll", "mask_store",
                       "handle", "txe_load", "txe_store"}

CopiesTyped ==
  /\ cr1 \in Bits
  /\ copy \in [Task -> Bits]
  /\ pc \in [Task -> Labels]
  /\ pc["logger"] \in {"wait", "txe_load", "txe_store"}

\* The receive bit is off inside read() only, and no task that is about to
\* store CR1 for the transmit bit holds a copy made inside read().
ReceiveBitKept ==
  /\ cr1.rxneie <=> pc["control"] \notin Masked
  /\ \A task \in Task : pc[task] = "txe_store" => copy[task].rxneie

\* The transmit bit may go off behind a copy, which does no harm; it never
\* comes on behind the control task's.
TransmitBitKept ==
  /\ pc["control"] \in {"mask_store", "unmask_store_empty", "unmask_store_got"}
       => (cr1.txeie => copy["control"].txeie)
  /\ NoStrandedBytes

UartInv == CopiesTyped /\ ReceiveBitKept /\ TransmitBitKept

-----------------------------------------------------------------------------

LEMMA TaskNames == "control" \in Task /\ "logger" \in Task /\ "control" # "logger"
                   /\ \A task \in Task : task = "control" \/ task = "logger"
BY DEF Task

\* A task goes to its next place, and the other stays.
LEMMA Going ==
  ASSUME CopiesTyped, NEW task \in Task, NEW from, NEW to \in Labels,
         Goto(task, from, to)
  PROVE  /\ pc[task] = from /\ pc'[task] = to
         /\ \A other \in Task \ {task} : pc'[other] = pc[other]
         /\ pc' \in [Task -> Labels]
         /\ task = "logger" => pc["control"] = "wait"
BY DEF Goto, Turn, CopiesTyped

LEMMA UartInvInit == UartInit => UartInv
<1> SUFFICES ASSUME UartInit PROVE UartInv
  OBVIOUS
<1> USE DEF UartInit
<1>1. CopiesTyped
  BY TaskNames DEF CopiesTyped, Bits, Labels
<1>2. ReceiveBitKept
  BY TaskNames DEF ReceiveBitKept, Masked
<1>3. TransmitBitKept
  BY TaskNames DEF TransmitBitKept, NoStrandedBytes
<1> QED
  BY <1>1, <1>2, <1>3 DEF UartInv

-----------------------------------------------------------------------------
(* A load and a store of CR1, and a step that leaves it alone *)

LEMMA LoadKeeps ==
  ASSUME UartInv, NEW task \in Task, NEW from, NEW to \in Labels,
         LoadCr1(task, from, to),
         from \in Masked <=> to \in Masked,
         task = "logger" => from = "txe_load" /\ to = "txe_store",
         from = "txe_load" <=> to = "txe_store",
         from # "txe_store" /\ to # "txe_load"
  PROVE  UartInv'
<1>1. /\ pc[task] = from /\ pc'[task] = to
      /\ \A other \in Task \ {task} : pc'[other] = pc[other]
      /\ pc' \in [Task -> Labels]
      /\ task = "logger" => pc["control"] = "wait"
  BY Going DEF LoadCr1, UartInv
<1>2. copy'[task] = cr1 /\ copy' \in [Task -> Bits]
      /\ \A other \in Task \ {task} : copy'[other] = copy[other]
  BY DEF LoadCr1, UartInv, CopiesTyped
<1>3. UNCHANGED <<cr1, tx>>
  BY DEF LoadCr1, txVars
<1>4. CopiesTyped'
  BY <1>1, <1>2, <1>3, TaskNames DEF UartInv, CopiesTyped
<1>5. ReceiveBitKept'
  BY <1>1, <1>2, <1>3, TaskNames DEF UartInv, ReceiveBitKept, Masked
<1>6. TransmitBitKept'
  BY <1>1, <1>2, <1>3, TaskNames DEF UartInv, TransmitBitKept, NoStrandedBytes
<1> QED
  BY <1>4, <1>5, <1>6 DEF UartInv

\* The control task's store of the receive bit.
LEMMA StoreReceiveKeeps ==
  ASSUME UartInv, NEW value \in BOOLEAN, NEW to \in Labels,
         NEW from \in {"mask_store", "unmask_store_empty", "unmask_store_got"},
         StoreCr1("control", "rxneie", value, from, to),
         value <=> to \notin Masked,
         to \notin {"txe_load", "txe_store",
                    "mask_store", "unmask_store_empty", "unmask_store_got"}
  PROVE  UartInv'
<1>1. /\ pc["control"] = from /\ pc'["control"] = to
      /\ pc'["logger"] = pc["logger"]
      /\ pc' \in [Task -> Labels]
  BY Going, TaskNames DEF StoreCr1, UartInv
<1>2. /\ copy["control"] \in Bits
      /\ cr1' = [copy["control"] EXCEPT !.rxneie = value]
      /\ UNCHANGED <<copy, tx>>
  BY TaskNames DEF StoreCr1, txVars, UartInv, CopiesTyped
<1>3. cr1' \in Bits /\ cr1'.rxneie = value /\ cr1'.txeie = copy["control"].txeie
  BY <1>2 DEF Bits
<1>4. CopiesTyped'
  BY <1>1, <1>2, <1>3 DEF UartInv, CopiesTyped
<1>5. ReceiveBitKept'
  BY <1>1, <1>2, <1>3, TaskNames DEF UartInv, ReceiveBitKept
<1>6. TransmitBitKept'
  BY <1>1, <1>2, <1>3, TaskNames DEF UartInv, TransmitBitKept, NoStrandedBytes
<1> QED
  BY <1>4, <1>5, <1>6 DEF UartInv

\* A task's store of the transmit bit.
LEMMA StoreTransmitKeeps ==
  ASSUME UartInv, NEW task \in Task, TxeStore(task)
  PROVE  UartInv'
<1>1. After(task) \in {"poll", "wait"} /\ (task = "logger" => After(task) = "wait")
  BY TaskNames DEF After
<1>2. /\ pc[task] = "txe_store" /\ pc'[task] = After(task)
      /\ \A other \in Task \ {task} : pc'[other] = pc[other]
      /\ pc' \in [Task -> Labels]
      /\ task = "logger" => pc["control"] = "wait"
  <2>1. After(task) \in Labels
    BY <1>1 DEF Labels
  <2> QED
    BY <2>1, Going DEF TxeStore, StoreCr1, UartInv
<1>3. /\ copy[task] \in Bits
      /\ cr1' = [copy[task] EXCEPT !.txeie = TRUE]
      /\ UNCHANGED <<copy, tx>>
  BY DEF TxeStore, StoreCr1, txVars, UartInv, CopiesTyped
<1>4. cr1' \in Bits /\ cr1'.txeie /\ cr1'.rxneie = copy[task].rxneie
  BY <1>3 DEF Bits
<1>5. cr1'.rxneie /\ pc'["control"] \notin Masked
  BY <1>1, <1>2, <1>4, TaskNames DEF UartInv, ReceiveBitKept, Masked
<1>6. CopiesTyped'
  BY <1>1, <1>2, <1>3, <1>4, TaskNames DEF UartInv, CopiesTyped
<1>7. ReceiveBitKept'
  BY <1>1, <1>2, <1>3, <1>5, TaskNames DEF UartInv, ReceiveBitKept
<1>8. TransmitBitKept'
  BY <1>1, <1>2, <1>4, TaskNames DEF UartInv, TransmitBitKept, NoStrandedBytes
<1> QED
  BY <1>6, <1>7, <1>8 DEF UartInv

\* The control task moves on without touching CR1 or the transmit ring.
LEMMA MoveKeeps ==
  ASSUME UartInv, NEW from, NEW to \in Labels, Goto("control", from, to),
         UNCHANGED <<cr1, copy, tx>>,
         from \in Masked <=> to \in Masked,
         from \notin {"txe_load", "txe_store"},
         to \notin {"txe_load", "txe_store",
                    "mask_store", "unmask_store_empty", "unmask_store_got"}
  PROVE  UartInv'
<1>1. /\ pc["control"] = from /\ pc'["control"] = to
      /\ pc'["logger"] = pc["logger"]
      /\ pc' \in [Task -> Labels]
  BY Going, TaskNames DEF UartInv
<1>2. CopiesTyped'
  BY <1>1 DEF UartInv, CopiesTyped
<1>3. ReceiveBitKept'
  BY <1>1, TaskNames DEF UartInv, ReceiveBitKept
<1>4. TransmitBitKept'
  BY <1>1, TaskNames DEF UartInv, TransmitBitKept, NoStrandedBytes
<1> QED
  BY <1>2, <1>3, <1>4 DEF UartInv

-----------------------------------------------------------------------------
(* The actions *)

LEMMA ControlKeeps ==
  ASSUME UartInv, ControlStep PROVE UartInv'
<1> USE DEF Labels, Masked
<1>1. CASE Release
  BY <1>1, MoveKeeps DEF Release, txVars
<1>2. CASE LoadOverrun
  BY <1>2, MoveKeeps DEF LoadOverrun, txVars
<1>3. CASE ClearOverrun
  BY <1>3, MoveKeeps DEF ClearOverrun, txVars
<1>4. CASE MaskLoad
  BY <1>4, LoadKeeps, TaskNames DEF MaskLoad
<1>5. CASE MaskStore
  BY <1>5, StoreReceiveKeeps DEF MaskStore
<1>6. CASE PopEmpty
  BY <1>6, MoveKeeps DEF PopEmpty, txVars
<1>7. CASE PopItem
  BY <1>7, MoveKeeps DEF PopItem, txVars
<1>8. CASE CountLoad
  BY <1>8, MoveKeeps DEF CountLoad, txVars
<1>9. CASE CountStore
  BY <1>9, MoveKeeps DEF CountStore, txVars
<1>10. CASE UnmaskLoad
  BY <1>10, LoadKeeps, TaskNames DEF UnmaskLoad
<1>11. CASE UnmaskStore
  BY <1>11, StoreReceiveKeeps DEF UnmaskStore
<1>12. CASE NoReply
  BY <1>12, MoveKeeps DEF NoReply, txVars
<1> QED
  BY <1>1, <1>2, <1>3, <1>4, <1>5, <1>6, <1>7, <1>8, <1>9, <1>10, <1>11, <1>12
  DEF ControlStep

LEMMA SendKeeps ==
  ASSUME UartInv, NEW task \in Task, SendStep(task) PROVE UartInv'
<1>1. /\ Start(task) \in {"handle", "wait"} /\ After(task) \in {"poll", "wait"}
      /\ task = "logger" => Start(task) = "wait" /\ After(task) = "wait"
  BY TaskNames DEF Start, After
<1>2. CASE Write(task)
  <2>1. /\ pc[task] = Start(task) /\ pc'[task] = "txe_load"
        /\ \A other \in Task \ {task} : pc'[other] = pc[other]
        /\ pc' \in [Task -> Labels]
    BY <1>2, Going DEF Write, UartInv, Labels
  <2>2. UNCHANGED <<cr1, copy>>
    BY <1>2 DEF Write
  <2>3. CopiesTyped'
    BY <2>1, <2>2, TaskNames DEF UartInv, CopiesTyped
  <2>4. ReceiveBitKept'
    BY <1>1, <2>1, <2>2, TaskNames DEF UartInv, ReceiveBitKept, Masked
  <2>5. TransmitBitKept'
    BY <2>1, <2>2, TaskNames DEF UartInv, TransmitBitKept, NoStrandedBytes
  <2> QED
    BY <2>3, <2>4, <2>5 DEF UartInv
<1>3. CASE WriteRefused(task)
  <2>1. /\ pc[task] = Start(task) /\ pc'[task] = After(task)
        /\ \A other \in Task \ {task} : pc'[other] = pc[other]
        /\ pc' \in [Task -> Labels]
    BY <1>1, <1>3, Going DEF WriteRefused, UartInv, Labels
  <2>2. UNCHANGED <<cr1, copy, tx>>
    BY <1>3 DEF WriteRefused, txVars
  <2>3. CopiesTyped'
    BY <1>1, <2>1, <2>2, TaskNames DEF UartInv, CopiesTyped
  <2>4. ReceiveBitKept'
    BY <1>1, <2>1, <2>2, TaskNames DEF UartInv, ReceiveBitKept, Masked
  <2>5. TransmitBitKept'
    BY <1>1, <2>1, <2>2, TaskNames DEF UartInv, TransmitBitKept, NoStrandedBytes
  <2> QED
    BY <2>3, <2>4, <2>5 DEF UartInv
<1>4. CASE TxeLoad(task)
  BY <1>4, LoadKeeps DEF TxeLoad, Labels, Masked
<1>5. CASE TxeStore(task)
  BY <1>5, StoreTransmitKeeps
<1> QED
  BY <1>2, <1>3, <1>4, <1>5 DEF SendStep

\* The interrupt switches the transmit bit off, never on, and only when
\* nothing waits.
LEMMA InterruptKeeps ==
  ASSUME UartInv, Interrupt PROVE UartInv'
<1>1. UNCHANGED <<copy, pc>> /\ TransmitNext
  BY DEF Interrupt
<1>2. CASE cr1' = cr1 /\ (tx' = tx \/ cr1.txeie)
  BY <1>1, <1>2 DEF UartInv, CopiesTyped, ReceiveBitKept, TransmitBitKept,
                    NoStrandedBytes
<1>3. CASE tx = << >> /\ tx' = tx /\ cr1' = [cr1 EXCEPT !.txeie = FALSE]
  <2>1. cr1' \in Bits /\ cr1'.rxneie = cr1.rxneie /\ ~cr1'.txeie
    BY <1>3 DEF UartInv, CopiesTyped, Bits
  <2> QED
    BY <1>1, <1>3, <2>1 DEF UartInv, CopiesTyped, ReceiveBitKept,
                            TransmitBitKept, NoStrandedBytes
<1> QED
  BY <1>1, <1>2, <1>3 DEF TransmitNext, txVars

LEMMA UartStep == UartInv /\ [UartNext]_uartVars => UartInv'
<1> SUFFICES ASSUME UartInv, [UartNext]_uartVars PROVE UartInv'
  OBVIOUS
<1>1. CASE UNCHANGED <<ctrlVars, tx>>
  BY <1>1 DEF ctrlVars, UartInv, CopiesTyped, ReceiveBitKept, TransmitBitKept,
              NoStrandedBytes
<1>2. CASE LineByte
  BY <1>1, <1>2 DEF LineByte, txVars
<1>3. CASE LineFree
  BY <1>1, <1>3 DEF LineFree, txVars
<1>4. CASE UNCHANGED uartVars
  BY <1>1, <1>4 DEF uartVars, txVars
<1> QED
  BY <1>2, <1>3, <1>4, ControlKeeps, SendKeeps, InterruptKeeps DEF UartNext

LEMMA UartAlways == UartSpec => []UartInv
BY UartInvInit, UartStep, PTL DEF UartSpec

-----------------------------------------------------------------------------

\* NoStrandedBytes of UartRings: whatever queues a frame, its bytes do not
\* stay behind a transmit interrupt that nobody switches on any more.
THEOREM BytesNeverStranded == UartSpec => []NoStrandedBytes
<1>1. UartInv => NoStrandedBytes
  BY DEF UartInv, TransmitBitKept
<1> QED
  BY <1>1, UartAlways, PTL

\* ReceiverListens of UartRings: no stale copy of CR1 leaves the board deaf.
THEOREM ReceiverAlwaysListens == UartSpec => []ReceiverListens
<1>1. UartInv => ReceiverListens
  BY DEF UartInv, ReceiveBitKept, ReceiverListens, Masked
<1> QED
  BY <1>1, UartAlways, PTL

\* RaceNeedsTransmitter of UartRings: read()'s mask keeps the receive
\* interrupt out of the count-down, so a lost count has come by way of the
\* transmit interrupt.
THEOREM RaceOnlyByTransmitter == UartSpec => RaceNeedsTransmitter
<1>1. UartInv /\ [UartNext]_uartVars
        => [~raced /\ raced' => cr1.txeie /\ txe /\ ~cr1.rxneie]_uartVars
  <2> SUFFICES ASSUME UartInv, UartNext, ~raced, raced'
               PROVE  cr1.txeie /\ txe /\ ~cr1.rxneie
    OBVIOUS
  <2>1. Interrupt
    BY DEF UartNext, ControlStep, SendStep, Release, LoadOverrun, ClearOverrun,
           MaskLoad, MaskStore, PopEmpty, PopItem, CountLoad, CountStore,
           UnmaskLoad, UnmaskStore, NoReply, Write, WriteRefused, TxeLoad,
           TxeStore, LoadCr1, StoreCr1, LineByte, LineFree, rxVars
  <2>2. pc["control"] = "count_store"
    BY <2>1 DEF Interrupt, ReceiveByte
  <2> QED
    BY <2>1, <2>2 DEF Interrupt, Pending, UartInv, ReceiveBitKept, Masked
<1> QED
  BY <1>1, UartAlways, PTL DEF UartSpec, RaceNeedsTransmitter

-----------------------------------------------------------------------------
(* The wire *)

FrameBytesSet == [task : Task, left : Nat]

\* What was handed on last and what waits, in the order of the wire: frames
\* continue across every border, and the last byte that waits ends its frame.
Unbroken(last, bytes) ==
  /\ bytes = << >> => last.left = 0
  /\ bytes # << >> => Continues(last, bytes[1]) /\ bytes[Len(bytes)].left = 0
  /\ \A i \in 1 .. Len(bytes) - 1 : Continues(bytes[i], bytes[i + 1])

WireInv ==
  /\ tx \in Seq(FrameBytesSet)
  /\ sent \in FrameBytesSet
  /\ Unbroken(sent, tx)

\* A frame is whole by itself and starts where another may have ended.
LEMMA FrameWhole ==
  ASSUME NEW task \in Task
  PROVE  /\ FrameBytes(task) \in Seq(FrameBytesSet)
         /\ Len(FrameBytes(task)) = FrameLen
         /\ FrameBytes(task)[1].left = FrameLen - 1
         /\ FrameBytes(task)[FrameLen].left = 0
         /\ \A i \in 1 .. FrameLen - 1 :
              Continues(FrameBytes(task)[i], FrameBytes(task)[i + 1])
<1>1. FrameLen \in Nat \ {0}
  BY UartConfig
<1>2. /\ FrameBytes(task) \in [1 .. FrameLen -> FrameBytesSet]
      /\ \A i \in 1 .. FrameLen :
           FrameBytes(task)[i] = [task |-> task, left |-> FrameLen - i]
  BY <1>1 DEF FrameBytes, FrameByte, FrameBytesSet
<1>3. FrameBytes(task) \in Seq(FrameBytesSet) /\ Len(FrameBytes(task)) = FrameLen
  BY <1>1, <1>2
<1>4. \A i \in 1 .. FrameLen - 1 :
        Continues(FrameBytes(task)[i], FrameBytes(task)[i + 1])
  <2> SUFFICES ASSUME NEW i \in 1 .. FrameLen - 1
               PROVE  Continues(FrameBytes(task)[i], FrameBytes(task)[i + 1])
    OBVIOUS
  <2>1. /\ FrameBytes(task)[i] = [task |-> task, left |-> FrameLen - i]
        /\ FrameBytes(task)[i + 1] = [task |-> task, left |-> FrameLen - (i + 1)]
    BY <1>1, <1>2
  <2>2. FrameLen - i # 0 /\ FrameLen - (i + 1) = FrameLen - i - 1
    BY <1>1
  <2> QED
    BY <2>1, <2>2 DEF Continues, FrameByte
<1> QED
  BY <1>1, <1>2, <1>3, <1>4

LEMMA FrameAppended ==
  ASSUME NEW task \in Task, WireInv
  PROVE  LET bytes == tx \o FrameBytes(task)
         IN  bytes \in Seq(FrameBytesSet) /\ Unbroken(sent, bytes)
<1> DEFINE frame == FrameBytes(task)
           bytes == tx \o frame
<1>1. /\ FrameLen \in Nat \ {0}
      /\ frame \in Seq(FrameBytesSet) /\ Len(frame) = FrameLen
      /\ frame[1].left = FrameLen - 1 /\ frame[FrameLen].left = 0
      /\ \A i \in 1 .. FrameLen - 1 : Continues(frame[i], frame[i + 1])
  BY UartConfig, FrameWhole
<1> HIDE DEF frame
<1>2. /\ tx \in Seq(FrameBytesSet) /\ Unbroken(sent, tx)
      /\ Len(tx) \in Nat
  BY DEF WireInv
<1>3. /\ bytes \in Seq(FrameBytesSet)
      /\ Len(bytes) = Len(tx) + FrameLen
      /\ \A i \in 1 .. Len(tx) : bytes[i] = tx[i]
      /\ \A i \in 1 .. FrameLen : bytes[Len(tx) + i] = frame[i]
  BY <1>1, <1>2
<1>4. bytes # << >> /\ bytes[Len(bytes)] = frame[FrameLen]
  BY <1>1, <1>2, <1>3
<1>5. Continues(sent, bytes[1])
  <2>1. CASE tx = << >>
    <3>1. bytes[1] = frame[1] /\ sent.left = 0
      BY <1>1, <1>2, <1>3, <2>1 DEF Unbroken
    <3> QED
      BY <1>1, <3>1 DEF Continues
  <2>2. CASE tx # << >>
    <3>1. bytes[1] = tx[1] /\ Continues(sent, tx[1])
      BY <1>2, <1>3, <2>2 DEF Unbroken
    <3> QED
      BY <3>1
  <2> QED
    BY <2>1, <2>2
<1>6. ASSUME NEW i \in 1 .. Len(bytes) - 1
      PROVE  Continues(bytes[i], bytes[i + 1])
  <2>1. CASE i < Len(tx)
    <3>1. bytes[i] = tx[i] /\ bytes[i + 1] = tx[i + 1] /\ i \in 1 .. Len(tx) - 1
      BY <1>2, <1>3, <2>1
    <3> QED
      BY <1>2, <3>1 DEF Unbroken
  <2>2. CASE i = Len(tx)
    <3>1. bytes[i] = tx[Len(tx)] /\ bytes[i + 1] = frame[1] /\ tx # << >>
      BY <1>1, <1>2, <1>3, <2>2
    <3>2. tx[Len(tx)].left = 0
      BY <1>2, <3>1 DEF Unbroken
    <3> QED
      BY <1>1, <3>1, <3>2 DEF Continues
  <2>3. CASE i > Len(tx)
    <3>1. PICK j \in 1 .. FrameLen - 1 : i = Len(tx) + j
      <4>1. i - Len(tx) \in 1 .. FrameLen - 1 /\ i = Len(tx) + (i - Len(tx))
        BY <1>1, <1>2, <1>3, <2>3
      <4> QED
        BY <4>1
    <3>2. bytes[i] = frame[j] /\ bytes[i + 1] = frame[j + 1]
      <4>1. j \in 1 .. FrameLen /\ j + 1 \in 1 .. FrameLen
            /\ i + 1 = Len(tx) + (j + 1)
        BY <1>1, <1>2, <3>1
      <4> QED
        BY <1>3, <3>1, <4>1
    <3> QED
      BY <1>1, <3>2
  <2> QED
    BY <1>2, <1>3, <2>1, <2>2, <2>3
<1> QED
  BY <1>1, <1>3, <1>4, <1>5, <1>6 DEF Unbroken, frame

LEMMA HeadSent ==
  ASSUME WireInv, tx # << >>
  PROVE  Tail(tx) \in Seq(FrameBytesSet) /\ Unbroken(Head(tx), Tail(tx))
<1>1. /\ tx \in Seq(FrameBytesSet) /\ Unbroken(sent, tx)
      /\ Len(tx) \in Nat \ {0} /\ Head(tx) = tx[1]
  BY DEF WireInv
<1>2. /\ Tail(tx) \in Seq(FrameBytesSet) /\ Len(Tail(tx)) = Len(tx) - 1
      /\ \A i \in 1 .. Len(tx) - 1 : Tail(tx)[i] = tx[i + 1]
  BY <1>1
<1>3. ASSUME Tail(tx) = << >> PROVE Head(tx).left = 0
  <2>1. Len(tx) = 1
    BY <1>1, <1>2, <1>3
  <2> QED
    BY <1>1, <2>1 DEF Unbroken
<1>4. ASSUME Tail(tx) # << >>
      PROVE  /\ Continues(Head(tx), Tail(tx)[1])
             /\ Tail(tx)[Len(Tail(tx))].left = 0
  <2>1. Len(Tail(tx)) # 0
    BY <1>2, <1>4
  <2>2. Len(tx) - 1 \in 1 .. Len(tx) - 1 /\ 1 \in 1 .. Len(tx) - 1
    BY <1>1, <1>2, <2>1
  <2>3. Tail(tx)[1] = tx[1 + 1] /\ Tail(tx)[Len(tx) - 1] = tx[Len(tx)]
    BY <1>1, <1>2, <2>2
  <2> QED
    BY <1>1, <1>2, <2>2, <2>3 DEF Unbroken
<1>5. ASSUME NEW i \in 1 .. Len(Tail(tx)) - 1
      PROVE  Continues(Tail(tx)[i], Tail(tx)[i + 1])
  <2>1. /\ Tail(tx)[i] = tx[i + 1] /\ Tail(tx)[i + 1] = tx[(i + 1) + 1]
        /\ i + 1 \in 1 .. Len(tx) - 1
    BY <1>1, <1>2
  <2> QED
    BY <1>1, <2>1 DEF Unbroken
<1> QED
  BY <1>2, <1>3, <1>4, <1>5 DEF Unbroken

LEMMA WireStep == WireInv /\ [UartNext]_uartVars => WireInv'
<1> SUFFICES ASSUME WireInv, [UartNext]_uartVars PROVE WireInv'
  OBVIOUS
<1>1. CASE UNCHANGED txVars
  BY <1>1 DEF txVars, WireInv, Unbroken
<1>2. ASSUME NEW task \in Task, Write(task) PROVE WireInv'
  <2>1. tx' = tx \o FrameBytes(task) /\ sent' = sent
    BY <1>2 DEF Write
  <2> QED
    BY <2>1, FrameAppended DEF WireInv
<1>3. CASE Interrupt
  <2>1. CASE tx # << >> /\ tx' = Tail(tx) /\ sent' = Head(tx)
    <3>1. Head(tx) \in FrameBytesSet
      BY <2>1 DEF WireInv
    <3> QED
      BY <2>1, <3>1, HeadSent DEF WireInv
  <2> QED
    BY <1>1, <1>3, <2>1 DEF Interrupt, TransmitNext, txVars
<1>4. UNCHANGED txVars \/ (\E task \in Task : Write(task)) \/ Interrupt
  BY DEF UartNext, ControlStep, SendStep, Release, LoadOverrun, ClearOverrun,
         MaskLoad, MaskStore, PopEmpty, PopItem, CountLoad, CountStore,
         UnmaskLoad, UnmaskStore, NoReply, WriteRefused, TxeLoad, TxeStore,
         LoadCr1, StoreCr1, LineByte, LineFree, uartVars
<1> QED
  BY <1>1, <1>2, <1>3, <1>4

LEMMA WireInvWhole == WireInv => FramesWhole
<1> SUFFICES ASSUME WireInv PROVE FramesWhole
  OBVIOUS
<1> DEFINE wire == <<sent>> \o tx
<1>1. /\ tx \in Seq(FrameBytesSet) /\ Unbroken(sent, tx) /\ Len(tx) \in Nat
      /\ Len(wire) = Len(tx) + 1 /\ wire[1] = sent
      /\ \A i \in 1 .. Len(tx) : wire[i + 1] = tx[i]
  BY DEF WireInv
<1> HIDE DEF wire
<1>2. ASSUME NEW i \in 1 .. Len(wire) - 1 PROVE Continues(wire[i], wire[i + 1])
  <2>1. tx # << >> /\ i \in 1 .. Len(tx) /\ wire[i + 1] = tx[i]
    BY <1>1
  <2>2. CASE i = 1
    BY <1>1, <2>1, <2>2 DEF Unbroken
  <2>3. CASE i # 1
    <3>1. PICK j \in 1 .. Len(tx) - 1 : i = j + 1
      <4>1. i - 1 \in 1 .. Len(tx) - 1 /\ i = (i - 1) + 1
        BY <1>1, <2>1, <2>3
      <4> QED
        BY <4>1
    <3>2. wire[i] = tx[j]
      BY <1>1, <3>1
    <3> QED
      BY <1>1, <2>1, <3>1, <3>2 DEF Unbroken
  <2> QED
    BY <2>2, <2>3
<1>3. wire[Len(wire)].left = 0
  <2>1. CASE tx = << >>
    <3>1. Len(wire) = 1
      BY <1>1, <2>1
    <3> QED
      BY <1>1, <2>1, <3>1 DEF Unbroken
  <2>2. CASE tx # << >>
    <3>1. wire[Len(wire)] = tx[Len(tx)]
      BY <1>1, <2>2
    <3> QED
      BY <1>1, <2>2, <3>1 DEF Unbroken
  <2> QED
    BY <2>1, <2>2
<1> QED
  BY <1>2, <1>3 DEF FramesWhole, wire

\* FramesWhole of UartRings: whatever the sizes, two tasks and the interrupt
\* never put a part of a frame on the wire or one frame into another.
THEOREM FramesAlwaysWhole == UartSpec => []FramesWhole
<1>1. UartInit => WireInv
  <2> SUFFICES ASSUME UartInit PROVE WireInv
    OBVIOUS
  <2>1. sent \in FrameBytesSet /\ sent.left = 0
    BY TaskNames DEF UartInit, FrameByte, FrameBytesSet
  <2> QED
    BY <2>1 DEF UartInit, WireInv, Unbroken
<1> QED
  BY <1>1, WireStep, WireInvWhole, PTL DEF UartSpec

-----------------------------------------------------------------------------
(* The receive ring *)

Ring == [slots : [Slot -> Byte], head : Slot, tail : Slot, count : Nat]

\* Where the n-th byte after the tail is.
Place(tail, n) == (tail + n) % RxCapacity

\* The slots from tail to head hold the bytes of a sequence.
Holds(ring, bytes) ==
  /\ Len(bytes) <= RxCapacity
  /\ ring.head = Place(ring.tail, Len(bytes))
  /\ \A i \in 1 .. Len(bytes) : bytes[i] = ring.slots[Place(ring.tail, i - 1)]

\* Until a count is lost it is the number of bytes that are unread, or one
\* more while pop() has taken its byte and has not counted down.
CountKept ==
  /\ rx.count = Len(unread) + IF pc["control"] \in CountingDown THEN 1 ELSE 0
  /\ rx.count <= RxCapacity
  /\ pc["control"] = "count_store" => loaded = rx.count

RxInv ==
  /\ rxne \in Seq(Byte)
  /\ ~raced => /\ rx \in Ring
               /\ unread \in Seq(Byte)
               /\ CountKept
               /\ Holds(rx, unread)

LEMMA Sizes == RxCapacity \in Nat /\ RxCapacity > 1
BY UartConfig

\* A remainder less than two turns of the ring away.
LEMMA Wrap ==
  ASSUME NEW a \in Nat, a < 2 * RxCapacity
  PROVE  /\ a % RxCapacity = IF a < RxCapacity THEN a ELSE a - RxCapacity
         /\ a % RxCapacity \in Slot
BY Sizes DEF Slot

\* Places are passed one by one, from either end, and no two within a turn
\* are the same.
LEMMA Advanced ==
  ASSUME NEW tail \in Slot, NEW n \in 0 .. RxCapacity - 1
  PROVE  /\ Place(tail, n) \in Slot /\ NextSlot(tail) \in Slot
         /\ NextSlot(Place(tail, n)) = Place(tail, n + 1)
         /\ Place(NextSlot(tail), n) = Place(tail, n + 1)
         /\ \A k \in 0 .. RxCapacity : k < n => Place(tail, k) # Place(tail, n)
<1>1. RxCapacity \in Nat /\ RxCapacity > 1 /\ tail \in Nat /\ tail < RxCapacity
      /\ n \in Nat /\ n < RxCapacity
  BY Sizes DEF Slot
<1>2. /\ (tail + n) % RxCapacity =
             IF tail + n < RxCapacity THEN tail + n ELSE tail + n - RxCapacity
      /\ (tail + n) % RxCapacity \in Slot
  <2>1. tail + n \in Nat /\ tail + n < 2 * RxCapacity
    BY <1>1
  <2> QED
    BY <1>1, <2>1, Wrap
<1>3. (tail + (n + 1)) % RxCapacity =
         IF tail + n + 1 < RxCapacity THEN tail + n + 1 ELSE tail + n + 1 - RxCapacity
  <2>1. tail + (n + 1) \in Nat /\ tail + (n + 1) < 2 * RxCapacity
    BY <1>1
  <2> QED
    BY <2>1, <1>1, Wrap
<1>4. /\ (tail + 1) % RxCapacity = IF tail + 1 < RxCapacity THEN tail + 1 ELSE 0
      /\ (tail + 1) % RxCapacity \in Slot
  <2>1. tail + 1 \in Nat /\ tail + 1 < 2 * RxCapacity
    BY <1>1
  <2> QED
    BY <2>1, <1>1, Wrap
<1>5. NextSlot(Place(tail, n)) = Place(tail, n + 1)
  <2> DEFINE a == (tail + n) % RxCapacity
  <2>1. a \in Nat /\ a + 1 \in Nat /\ a + 1 < 2 * RxCapacity
    BY <1>1, <1>2 DEF Slot
  <2>2. (a + 1) % RxCapacity = IF a + 1 < RxCapacity THEN a + 1 ELSE a + 1 - RxCapacity
    BY <1>1, <2>1, Wrap
  <2>3. a = IF tail + n < RxCapacity THEN tail + n ELSE tail + n - RxCapacity
    BY <1>2
  <2>4. NextSlot(Place(tail, n)) = (a + 1) % RxCapacity
    BY DEF NextSlot, Place
  <2> HIDE DEF a
  <2> QED
    BY <1>1, <1>3, <2>1, <2>2, <2>3, <2>4 DEF Place
<1>6. Place(NextSlot(tail), n) = Place(tail, n + 1)
  <2> DEFINE b == (tail + 1) % RxCapacity
  <2>1. b = IF tail + 1 < RxCapacity THEN tail + 1 ELSE 0
    BY <1>4
  <2>2. Place(NextSlot(tail), n) = (b + n) % RxCapacity
    BY DEF NextSlot, Place
  <2> HIDE DEF b
  <2>3. b \in Nat /\ b + n \in Nat /\ b + n < 2 * RxCapacity
    BY <1>1, <2>1
  <2>4. (b + n) % RxCapacity = IF b + n < RxCapacity THEN b + n ELSE b + n - RxCapacity
    BY <1>1, <2>3, Wrap
  <2> QED
    BY <1>1, <1>3, <2>1, <2>2, <2>4 DEF Place
<1>7. ASSUME NEW k \in 0 .. RxCapacity, k < n PROVE Place(tail, k) # Place(tail, n)
  <2>1. k \in Nat /\ tail + k \in Nat /\ tail + k < 2 * RxCapacity
    BY <1>1, <1>7
  <2>2. (tail + k) % RxCapacity =
           IF tail + k < RxCapacity THEN tail + k ELSE tail + k - RxCapacity
    BY <1>1, <2>1, Wrap
  <2> QED
    BY <1>1, <1>2, <1>7, <2>1, <2>2 DEF Place
<1> QED
  BY <1>2, <1>4, <1>5, <1>6, <1>7 DEF Place, NextSlot

Pushed(ring, byte) ==
  [ring EXCEPT !.slots[ring.head] = byte, !.head = NextSlot(ring.head),
               !.count = ring.count + 1]

\* push() adds at the head ...
LEMMA PushHolds ==
  ASSUME NEW ring \in Ring, NEW bytes \in Seq(Byte), Holds(ring, bytes),
         Len(bytes) < RxCapacity, NEW byte \in Byte
  PROVE  /\ Pushed(ring, byte) \in Ring
         /\ Pushed(ring, byte).count = ring.count + 1
         /\ Append(bytes, byte) \in Seq(Byte)
         /\ Len(Append(bytes, byte)) = Len(bytes) + 1
         /\ Holds(Pushed(ring, byte), Append(bytes, byte))
<1> DEFINE n == Len(bytes)
           more == Append(bytes, byte)
           new == Pushed(ring, byte)
<1>1. /\ more \in Seq(Byte) /\ Len(more) = n + 1 /\ more[n + 1] = byte
      /\ \A i \in 1 .. n : more[i] = bytes[i]
  OBVIOUS
<1>2. /\ n \in 0 .. RxCapacity - 1 /\ RxCapacity \in Nat
      /\ ring.head = Place(ring.tail, n)
      /\ \A i \in 1 .. n : bytes[i] = ring.slots[Place(ring.tail, i - 1)]
  BY Sizes DEF Holds
<1> HIDE DEF n, more
<1>3. /\ ring.slots \in [Slot -> Byte] /\ ring.head \in Slot /\ ring.tail \in Slot
      /\ ring.count \in Nat
  BY DEF Ring
<1>4. NextSlot(ring.head) \in Slot /\ NextSlot(ring.head) = Place(ring.tail, n + 1)
  <2>1. NextSlot(ring.head) = Place(ring.tail, n + 1)
    <3>1. NextSlot(Place(ring.tail, n)) = Place(ring.tail, n + 1)
      BY <1>2, <1>3, Advanced, Zenon
    <3> QED
      BY <1>2, <3>1, Zenon
  <2>2. 0 \in 0 .. RxCapacity - 1
    BY <1>2
  <2>3. NextSlot(ring.head) \in Slot
    BY <1>3, <2>2, Advanced
  <2> QED
    BY <2>1, <2>3
<1>5. /\ new \in Ring /\ new.tail = ring.tail /\ new.count = ring.count + 1
      /\ new.head = NextSlot(ring.head)
      /\ new.slots = [ring.slots EXCEPT ![ring.head] = byte]
  <2> DEFINE next == NextSlot(ring.head)
             slots == [ring.slots EXCEPT ![ring.head] = byte]
  <2>1. next \in Slot /\ slots \in [Slot -> Byte] /\ ring.count + 1 \in Nat
    BY <1>3, <1>4
  <2>2. new = [ring EXCEPT !.slots = slots, !.head = next, !.count = ring.count + 1]
    BY DEF Ring, Pushed
  <2> HIDE DEF next, slots
  <2>3. /\ new \in Ring /\ new.tail = ring.tail /\ new.count = ring.count + 1
        /\ new.head = next /\ new.slots = slots
    BY <2>1, <2>2 DEF Ring
  <2> QED
    BY <2>3 DEF next, slots
<1> HIDE DEF new
<1>6. ASSUME NEW i \in 1 .. n + 1
      PROVE  more[i] = new.slots[Place(new.tail, i - 1)]
  <2>1. CASE i = n + 1
    <3>1. i - 1 = n
      BY <1>2, <2>1
    <3>2. new.slots[ring.head] = byte
      BY <1>3, <1>5
    <3> QED
      BY <1>1, <1>2, <1>5, <2>1, <3>1, <3>2
  <2>2. CASE i # n + 1
    <3>1. i \in 1 .. n /\ i - 1 \in 0 .. RxCapacity - 1 /\ i - 1 < n /\ i - 1 \in 0 .. RxCapacity
      BY <1>2, <2>2
    <3>2. Place(ring.tail, i - 1) \in Slot
      BY <1>3, <3>1, Advanced, Zenon
    <3>3. \A k \in 0 .. RxCapacity : k < n => Place(ring.tail, k) # Place(ring.tail, n)
      BY <1>2, <1>3, Advanced, Zenon
    <3>4. Place(ring.tail, i - 1) # ring.head
      BY <1>2, <3>1, <3>3, Zenon
    <3>5. new.slots[Place(ring.tail, i - 1)] = ring.slots[Place(ring.tail, i - 1)]
      BY <1>3, <1>5, <3>2, <3>4
    <3> QED
      BY <1>1, <1>2, <1>5, <3>1, <3>5
  <2> QED
    BY <2>1, <2>2
<1>7. Holds(new, more)
  BY <1>1, <1>2, <1>4, <1>5, <1>6 DEF Holds
<1> QED
  BY <1>1, <1>5, <1>7 DEF n, more, new

\* ... and pop() takes at the tail.
LEMMA PopHolds ==
  ASSUME NEW ring \in Ring, NEW bytes \in Seq(Byte), Holds(ring, bytes),
         Len(bytes) > 0, NEW new,
         new = [ring EXCEPT !.tail = NextSlot(ring.tail)]
  PROVE  /\ new \in Ring /\ new.count = ring.count
         /\ Tail(bytes) \in Seq(Byte) /\ Len(Tail(bytes)) = Len(bytes) - 1
         /\ Holds(new, Tail(bytes))
<1> DEFINE n == Len(bytes)
           rest == Tail(bytes)
<1>1. /\ rest \in Seq(Byte) /\ Len(rest) = n - 1
      /\ \A i \in 1 .. n - 1 : rest[i] = bytes[i + 1]
  OBVIOUS
<1>2. /\ n - 1 \in 0 .. RxCapacity - 1 /\ n - 1 + 1 = n /\ RxCapacity \in Nat
      /\ n \in Nat /\ n <= RxCapacity /\ ring.head = Place(ring.tail, n)
      /\ \A i \in 1 .. n : bytes[i] = ring.slots[Place(ring.tail, i - 1)]
  BY Sizes DEF Holds
<1> HIDE DEF n, rest
<1>3. ring.tail \in Slot /\ NextSlot(ring.tail) \in Slot
  BY <1>2, Advanced DEF Ring
<1>4. /\ new \in Ring /\ new.tail = NextSlot(ring.tail)
      /\ new.head = ring.head /\ new.slots = ring.slots /\ new.count = ring.count
  BY <1>3 DEF Ring
<1>5. new.head = Place(new.tail, n - 1)
  BY <1>2, <1>3, <1>4, Advanced
<1>6. ASSUME NEW i \in 1 .. n - 1
      PROVE  rest[i] = new.slots[Place(new.tail, i - 1)]
  <2>1. i - 1 \in 0 .. RxCapacity - 1 /\ i + 1 \in 1 .. n /\ i - 1 + 1 = i
        /\ i + 1 - 1 = i
    BY <1>2
  <2>2. Place(new.tail, i - 1) = Place(ring.tail, i)
    BY <1>3, <1>4, <2>1, Advanced
  <2>3. rest[i] = bytes[i + 1]
    BY <1>1
  <2>4. bytes[i + 1] = ring.slots[Place(ring.tail, i)]
    <3>1. \A j \in 1 .. n : bytes[j] = ring.slots[Place(ring.tail, j - 1)]
      BY <1>2
    <3>2. PICK j \in 1 .. n : j = i + 1 /\ j - 1 = i
      BY <2>1
    <3>3. bytes[j] = ring.slots[Place(ring.tail, j - 1)]
      BY ONLY <3>1, <3>2
    <3> QED
      BY ONLY <3>2, <3>3
  <2> QED
    BY <1>4, <2>2, <2>3, <2>4, Zenon
<1>7. Holds(new, rest)
  BY <1>1, <1>2, <1>5, <1>6 DEF Holds
<1> QED
  BY <1>1, <1>4, <1>7 DEF n, rest

-----------------------------------------------------------------------------

LEMMA RxInvInit == UartInit => RxInv
<1> SUFFICES ASSUME UartInit PROVE RxInv
  OBVIOUS
<1>1. 0 \in Slot /\ 0 < RxCapacity /\ 0 % RxCapacity = 0
  BY Sizes DEF Slot
<1>2. PICK b \in Byte :
        rx = [slots |-> [i \in Slot |-> b], head |-> 0, tail |-> 0, count |-> 0]
  BY DEF UartInit
<1>3. rx \in Ring /\ rx.head = 0 /\ rx.tail = 0 /\ rx.count = 0
  BY <1>1, <1>2 DEF Ring
<1>4. unread = << >> /\ rxne = << >> /\ pc["control"] = "wait"
  BY TaskNames DEF UartInit
<1>5. Holds(rx, unread)
  BY <1>1, <1>3, <1>4, Sizes DEF Holds, Place
<1>6. CountKept
  BY <1>3, <1>4, Sizes DEF CountKept, CountingDown
<1> QED
  BY <1>3, <1>4, <1>5, <1>6 DEF RxInv

\* A step that neither moves the control task into or out of the count-down
\* nor touches the receive ring.
LEMMA RxApart ==
  ASSUME RxInv, UNCHANGED << rx, unread, loaded >>, raced => raced',
         rxne' \in Seq(Byte),
         pc'["control"] = pc["control"]
           \/ {pc["control"], pc'["control"]} \cap CountingDown = {}
  PROVE  RxInv'
BY DEF RxInv, CountKept, CountingDown

LEMMA ControlReads ==
  ASSUME UartInv, RxInv, ControlStep PROVE RxInv'
<1> USE DEF Labels, Masked
<1>1. CopiesTyped /\ "control" \in Task
  BY TaskNames DEF UartInv
<1>2. CASE PopItem
  <2>1. pc["control"] = "pop" /\ pc'["control"] = "count_load"
    BY <1>1, <1>2, Going DEF PopItem
  <2>2. /\ rx.count > 0 /\ rx' = [rx EXCEPT !.tail = NextSlot(@)]
        /\ unread' = IF raced THEN << >> ELSE Tail(unread)
        /\ UNCHANGED << rxne, raced >>
    BY <1>2 DEF PopItem, lineVars
  <2>3. CASE raced
    BY <2>2, <2>3 DEF RxInv
  <2>4. CASE ~raced
    <3>1. /\ rx \in Ring /\ unread \in Seq(Byte) /\ Holds(rx, unread)
          /\ rx.count = Len(unread) /\ rx.count <= RxCapacity
      BY <2>1, <2>4 DEF RxInv, CountKept, CountingDown
    <3>2. rx' = [rx EXCEPT !.tail = NextSlot(rx.tail)]
      BY <2>2, <3>1 DEF Ring
    <3>3. /\ rx' \in Ring /\ rx'.count = rx.count
          /\ Tail(unread) \in Seq(Byte) /\ Len(Tail(unread)) = Len(unread) - 1
          /\ Holds(rx', Tail(unread))
      BY <2>2, <3>1, <3>2, PopHolds
    <3>4. CountKept'
      BY <2>1, <2>2, <2>4, <3>1, <3>3 DEF CountKept, CountingDown
    <3> QED
      BY <2>2, <2>4, <3>3, <3>4 DEF RxInv
  <2> QED
    BY <2>3, <2>4
<1>3. CASE CountLoad
  <2>1. pc["control"] = "count_load" /\ pc'["control"] = "count_store"
    BY <1>1, <1>3, Going DEF CountLoad
  <2>2. loaded' = rx.count /\ UNCHANGED << rx, unread, raced, rxne >>
    BY <1>3 DEF CountLoad, lineVars
  <2> QED
    BY <2>1, <2>2 DEF RxInv, CountKept, CountingDown
<1>4. CASE CountStore
  <2>1. pc["control"] = "count_store" /\ pc'["control"] = "unmask_got"
    BY <1>1, <1>4, Going DEF CountStore
  <2>2. /\ rx' = [rx EXCEPT !.count = loaded - 1]
        /\ UNCHANGED << unread, raced, rxne >>
    BY <1>4 DEF CountStore, lineVars
  <2>3. CASE raced
    BY <2>2, <2>3 DEF RxInv
  <2>4. CASE ~raced
    <3>1. /\ rx \in Ring /\ unread \in Seq(Byte) /\ Holds(rx, unread)
          /\ loaded = Len(unread) + 1 /\ loaded <= RxCapacity
      BY <2>1, <2>4 DEF RxInv, CountKept, CountingDown
    <3>2. loaded - 1 = Len(unread) /\ loaded - 1 \in Nat /\ Len(unread) <= RxCapacity
      BY <3>1, Sizes
    <3>3. /\ rx' \in Ring /\ rx'.count = Len(unread)
          /\ rx'.head = rx.head /\ rx'.tail = rx.tail /\ rx'.slots = rx.slots
      BY <2>2, <3>1, <3>2 DEF Ring
    <3>4. Holds(rx', unread)
      BY <3>1, <3>3 DEF Holds
    <3>5. CountKept'
      BY <2>1, <2>2, <3>2, <3>3 DEF CountKept, CountingDown
    <3> QED
      BY <2>2, <2>4, <3>1, <3>3, <3>4, <3>5 DEF RxInv
  <2> QED
    BY <2>3, <2>4
<1>5. CASE Release \/ LoadOverrun \/ ClearOverrun \/ PopEmpty \/ NoReply
  <2>1. UNCHANGED << rx, unread, raced, rxne, loaded >>
    BY <1>5 DEF Release, LoadOverrun, ClearOverrun, PopEmpty, NoReply, lineVars, rxVars
  <2>2. {pc["control"], pc'["control"]} \cap CountingDown = {}
    BY <1>1, <1>5, Going
    DEF Release, LoadOverrun, ClearOverrun, PopEmpty, NoReply, CountingDown
  <2> QED
    BY <2>1, <2>2, RxApart DEF RxInv
<1>6. CASE MaskLoad \/ MaskStore \/ UnmaskLoad \/ UnmaskStore
  <2>1. UNCHANGED << rx, unread, raced, rxne, loaded >>
    BY <1>6 DEF MaskLoad, MaskStore, UnmaskLoad, UnmaskStore, LoadCr1, StoreCr1,
                lineVars, rxVars
  <2>2. {pc["control"], pc'["control"]} \cap CountingDown = {}
    BY <1>1, <1>6, Going DEF MaskLoad, MaskStore, UnmaskLoad, UnmaskStore, LoadCr1,
                             StoreCr1, CountingDown
  <2> QED
    BY <2>1, <2>2, RxApart DEF RxInv
<1> QED
  BY <1>2, <1>3, <1>4, <1>5, <1>6 DEF ControlStep

LEMMA SendReads ==
  ASSUME UartInv, RxInv, NEW task \in Task, SendStep(task) PROVE RxInv'
<1>1. UNCHANGED << rx, unread, raced, rxne, loaded >>
  BY DEF SendStep, Write, WriteRefused, TxeLoad, TxeStore, LoadCr1, StoreCr1,
         lineVars, rxVars
<1>2. Start(task) \in {"handle", "wait"} /\ After(task) \in {"poll", "wait"}
  BY DEF Start, After
<1>3. \/ pc'["control"] = pc["control"]
      \/ {pc["control"], pc'["control"]} \cap CountingDown = {}
  <2>1. PICK from \in {"handle", "wait", "txe_load", "txe_store"},
             to \in {"txe_load", "txe_store", "poll", "wait"} : Goto(task, from, to)
    BY <1>2 DEF SendStep, Write, WriteRefused, TxeLoad, TxeStore, LoadCr1, StoreCr1
  <2>2. /\ pc[task] = from /\ pc'[task] = to
        /\ \A other \in Task \ {task} : pc'[other] = pc[other]
    BY <2>1, Going DEF UartInv, Labels
  <2> QED
    BY <2>2, TaskNames DEF CountingDown
<1> QED
  BY <1>1, <1>3, RxApart DEF RxInv

\* A byte is pushed: outside the count-down, or before it has loaded the
\* count; between its load and its store the push is the race.
LEMMA InterruptReads ==
  ASSUME RxInv, Interrupt PROVE RxInv'
<1>1. UNCHANGED << pc, loaded >> /\ rxne' = << >> /\ ReceiveByte
  BY DEF Interrupt
<1>2. rxne' \in Seq(Byte)
  BY <1>1
<1>3. CASE rxne = << >>
  BY <1>1, <1>2, <1>3, RxApart DEF ReceiveByte
<1>4. CASE rxne # << >>
  <2>1. /\ rx' = IF Room THEN PushRx(rxne[1]) ELSE rx
        /\ raced' = (raced \/ (Room /\ pc["control"] = "count_store"))
        /\ unread' = CASE raced' -> << >>
                       [] ~raced' /\ Room -> Append(unread, rxne[1])
                       [] ~raced' /\ ~Room -> unread
    BY <1>1, <1>4 DEF ReceiveByte
  <2>2. CASE raced'
    BY <1>2, <2>2 DEF RxInv
  <2>3. CASE ~raced' /\ ~Room
    <3>1. UNCHANGED << rx, unread, pc, loaded >> /\ ~raced /\ ~raced'
      BY <1>1, <2>1, <2>3
    <3> QED
      BY <1>2, <3>1, RxApart
  <2>4. CASE ~raced' /\ Room
    <3>1. /\ ~raced /\ ~raced' /\ pc["control"] # "count_store"
          /\ rx' = PushRx(rxne[1]) /\ unread' = Append(unread, rxne[1])
      BY <2>1, <2>4
    <3>2. rxne[1] \in Byte
      BY <1>4 DEF RxInv
    <3>3. /\ rx \in Ring /\ unread \in Seq(Byte) /\ Holds(rx, unread) /\ CountKept
      BY <3>1 DEF RxInv
    <3>4. rx.count < RxCapacity /\ Len(unread) < RxCapacity /\ Len(unread) \in Nat
      BY <2>4, <3>3, Sizes DEF Room, CountKept
    <3>5. rx' = Pushed(rx, rxne[1])
      BY <3>1, <3>3 DEF PushRx, Pushed, Ring
    <3>6. /\ rx' \in Ring /\ rx'.count = rx.count + 1
          /\ unread' \in Seq(Byte) /\ Len(unread') = Len(unread) + 1
          /\ Holds(rx', unread')
      <4>1. /\ Pushed(rx, rxne[1]) \in Ring
            /\ Pushed(rx, rxne[1]).count = rx.count + 1
            /\ Append(unread, rxne[1]) \in Seq(Byte)
            /\ Len(Append(unread, rxne[1])) = Len(unread) + 1
            /\ Holds(Pushed(rx, rxne[1]), Append(unread, rxne[1]))
        BY <3>2, <3>3, <3>4, PushHolds, Zenon
      <4> QED
        BY <3>1, <3>5, <4>1, Zenon
    <3>7. CountKept'
      BY <1>1, <3>1, <3>3, <3>4, <3>6, Sizes DEF CountKept, CountingDown
    <3> QED
      BY <1>2, <3>6, <3>7 DEF RxInv
  <2> QED
    BY <2>2, <2>3, <2>4
<1> QED
  BY <1>3, <1>4

LEMMA RxStep == UartInv /\ RxInv /\ [UartNext]_uartVars => RxInv'
<1> SUFFICES ASSUME UartInv, RxInv, [UartNext]_uartVars PROVE RxInv'
  OBVIOUS
<1>1. CASE LineByte
  <2>1. UNCHANGED << rx, unread, raced, loaded, pc >>
    BY <1>1 DEF LineByte, rxVars, ctrlVars
  <2>2. rxne' \in Seq(Byte)
    <3>1. rxne' = rxne \/ \E b \in Byte : rxne' = <<b>>
      BY <1>1 DEF LineByte
    <3>2. rxne \in Seq(Byte) /\ \A b \in Byte : <<b>> \in Seq(Byte)
      BY DEF RxInv
    <3> QED
      BY <3>1, <3>2
  <2> QED
    BY <2>1, <2>2, RxApart
<1>2. CASE LineFree \/ UNCHANGED uartVars
  <2>1. UNCHANGED << rx, unread, raced, loaded, pc, rxne >>
    BY <1>2 DEF LineFree, uartVars, rxVars, ctrlVars, lineVars
  <2> QED
    BY <2>1, RxApart DEF RxInv
<1> QED
  BY <1>1, <1>2, ControlReads, SendReads, InterruptReads DEF UartNext

\* RxFaithful of UartRings: whatever interleaves with the control task, and
\* whatever the size of the ring, it pops the bytes that were pushed, each
\* once and in their order, until a push falls into a count-down.
THEOREM RxAlwaysFaithful == UartSpec => []RxFaithful
<1>1. RxInv => RxFaithful
  <2> SUFFICES ASSUME RxInv, ~raced, pc["control"] \notin CountingDown
               PROVE  Contents = unread
    BY DEF RxFaithful
  <2>1. unread \in Seq(Byte) /\ rx.count = Len(unread) /\ Holds(rx, unread)
    BY DEF RxInv, CountKept
  <2>2. \A i \in 1 .. rx.count : unread[i] = rx.slots[(rx.tail + i - 1) % RxCapacity]
    <3>1. ASSUME NEW i \in 1 .. rx.count
          PROVE  unread[i] = rx.slots[(rx.tail + i - 1) % RxCapacity]
      <4>1. unread[i] = rx.slots[Place(rx.tail, i - 1)]
        BY <2>1, <3>1 DEF Holds
      <4>2. rx.tail + i - 1 = rx.tail + (i - 1)
        <5>1. rx.tail \in Nat
          BY Sizes DEF RxInv, Ring, Slot
        <5> QED
          BY <5>1
      <4> QED
        BY <4>1, <4>2 DEF Place
    <3> QED
      BY <3>1
  <2> QED
    BY <2>1, <2>2 DEF Contents
<1> QED
  BY <1>1, RxInvInit, RxStep, UartAlways, PTL DEF UartSpec
=============================================================================
