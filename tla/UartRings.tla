------------------------------ MODULE UartRings -----------------------------
(***************************************************************************)
(* The UART driver (drivers/drv_uart.cpp) and the two rings it shares      *)
(* (drivers/ring_buffer.h) between the USART interrupt, the control task   *)
(* and the logger task.                                                    *)
(*                                                                         *)
(* One processor: the interrupt runs to completion between two             *)
(* instructions of a task, so the handler is one action, and so is         *)
(* write()'s copy, which runs with interrupts off. Everything else a task  *)
(* does to shared state is split at every load and store that the          *)
(* interrupt could separate. The control task preempts the logger task,    *)
(* never the other way round. No task holds interrupts off while the       *)
(* transmit ring is only partly updated, so that ring is its contents; the *)
(* receive ring keeps its count apart from its indices.                    *)
(***************************************************************************)
EXTENDS Naturals, Sequences

CONSTANTS
  RxCapacity,   \* kRxCapacity
  TxCapacity,   \* kTxCapacity
  Byte,         \* the bytes the host may send
  FrameLen      \* the bytes of each frame the two tasks may send

Task == {"control", "logger"}

ASSUME UartConfig ==
  /\ RxCapacity \in Nat \ {0, 1}
  /\ TxCapacity \in Nat \ {0, 1}
  /\ FrameLen \in Nat \ {0}

VARIABLES
  cr1,        \* the two interrupt enable bits of CR1
  copy,       \* per task, its copy of CR1 while it changes a bit
  pc,         \* per task, where it is
  rxne,       \* a received byte waits in DR: a sequence of at most one
  ore,        \* a byte was lost in the receiver
  txe,        \* DR can take a byte to send
  rx,         \* rx_: slots, tail, head and count
  loaded,     \* count_ as pop() has loaded it
  overrun,    \* overrun_
  was,        \* take_overrun()'s copy of it, which it returns
  tx,         \* tx_, the bytes that wait to be sent
  sent,       \* the byte handed to the transmitter last
  unread,     \* history: the bytes pushed and not yet popped
  raced       \* history: a byte was pushed between pop()'s load and store

ctrlVars == <<cr1, copy, pc>>
lineVars == <<rxne, ore, txe>>
rxVars   == <<rx, loaded, overrun, was, unread, raced>>
txVars   == <<tx, sent>>
uartVars == <<ctrlVars, lineVars, rxVars, txVars>>

-----------------------------------------------------------------------------
(* Rings and frames *)

Slot == 0 .. RxCapacity - 1

NextSlot(i) == (i + 1) % RxCapacity

\* Fault: one byte more than the ring has slots.
RoomOneMore == rx.count <= RxCapacity

Room == rx.count < RxCapacity

\* A byte of a frame: whose it is and how many follow it.
FrameByte(task, left) == [task |-> task, left |-> left]

FrameBytes(task) == [i \in 1 .. FrameLen |-> FrameByte(task, FrameLen - i)]

PushRx(byte) ==
  [rx EXCEPT !.slots[rx.head] = byte, !.head = NextSlot(@), !.count = @ + 1]

-----------------------------------------------------------------------------
(* The tasks. Turn is the scheduler's part of every step of a task.         *)

Turn(task) == task = "logger" => pc["control"] = "wait"

Goto(task, from, to) ==
  /\ Turn(task)
  /\ pc[task] = from
  /\ pc' = [pc EXCEPT ![task] = to]

\* The load of a read-modify-write of CR1.
LoadCr1(task, from, to) ==
  /\ Goto(task, from, to)
  /\ copy' = [copy EXCEPT ![task] = cr1]
  /\ UNCHANGED <<cr1, lineVars, rxVars, txVars>>

\* Its store: the task's copy with one bit changed.
StoreCr1(task, bit, value, from, to) ==
  /\ Goto(task, from, to)
  /\ cr1' = [copy[task] EXCEPT ![bit] = value]
  /\ UNCHANGED <<copy, lineVars, rxVars, txVars>>

\* The control task's next cycle is due.
Release ==
  /\ Goto("control", "wait", "flag_load")
  /\ UNCHANGED <<cr1, copy, lineVars, rxVars, txVars>>

\* take_overrun: a drop between the two steps is cleared unread.
LoadOverrun ==
  /\ Goto("control", "flag_load", "flag_clear")
  /\ was' = overrun
  /\ UNCHANGED <<cr1, copy, lineVars, rx, loaded, overrun, unread, raced, txVars>>

ClearOverrun ==
  /\ Goto("control", "flag_clear", "poll")
  /\ overrun' = FALSE
  /\ was' = FALSE
  /\ UNCHANGED <<cr1, copy, lineVars, rx, loaded, unread, raced, txVars>>

\* Fault: the bit is stored back as it was.
MaskStoreAsLoaded ==
  StoreCr1("control", "rxneie", copy["control"].rxneie, "mask_store", "pop")

\* Uart::read masks the receive interrupt ...
MaskLoad  == LoadCr1("control", "poll", "mask_store")
MaskStore == StoreCr1("control", "rxneie", FALSE, "mask_store", "pop")

\* Fault: read() returns as soon as it finds nothing, its mask still set.
PopEmptyAtOnce ==
  /\ rx.count = 0
  /\ Goto("control", "pop", "wait")
  /\ UNCHANGED <<cr1, copy, lineVars, rxVars, txVars>>

\* ... pops, which finds nothing ...
PopEmpty ==
  /\ rx.count = 0
  /\ Goto("control", "pop", "unmask_empty")
  /\ UNCHANGED <<cr1, copy, lineVars, rxVars, txVars>>

\* ... or takes the oldest byte and advances the tail ...
PopItem ==
  /\ rx.count > 0
  /\ Goto("control", "pop", "count_load")
  /\ rx' = [rx EXCEPT !.tail = NextSlot(@)]
  /\ unread' = IF raced THEN << >> ELSE Tail(unread)
  /\ UNCHANGED <<cr1, copy, lineVars, loaded, overrun, was, raced, txVars>>

\* ... and counts down, which is a load and a store ...
CountLoad ==
  /\ Goto("control", "count_load", "count_store")
  /\ loaded' = rx.count
  /\ UNCHANGED <<cr1, copy, lineVars, rx, overrun, was, unread, raced, txVars>>

CountStore ==
  /\ Goto("control", "count_store", "unmask_got")
  /\ rx' = [rx EXCEPT !.count = loaded - 1]
  /\ loaded' = 0
  /\ UNCHANGED <<cr1, copy, lineVars, overrun, was, unread, raced, txVars>>

\* ... and unmasks. An empty ring ends the poll and with it the cycle.
UnmaskLoad ==
  \/ LoadCr1("control", "unmask_empty", "unmask_store_empty")
  \/ LoadCr1("control", "unmask_got", "unmask_store_got")

UnmaskStore ==
  \/ StoreCr1("control", "rxneie", TRUE, "unmask_store_empty", "wait")
  \/ StoreCr1("control", "rxneie", TRUE, "unmask_store_got", "handle")

\* The byte completes no frame that wants an answer; poll's budget may be up.
NoReply ==
  /\ \/ Goto("control", "handle", "poll")
     \/ Goto("control", "handle", "wait")
  /\ UNCHANGED <<cr1, copy, lineVars, rxVars, txVars>>

Start(task) == IF task = "control" THEN "handle" ELSE "wait"
After(task) == IF task = "control" THEN "poll" ELSE "wait"

\* Fault: what fits of the frame is queued.
WriteTruncated(task) ==
  /\ Goto(task, Start(task), "txe_load")
  /\ \E n \in 0 .. FrameLen :
       /\ Len(tx) + n <= TxCapacity
       /\ n = FrameLen \/ Len(tx) + n = TxCapacity
       /\ tx' = tx \o SubSeq(FrameBytes(task), 1, n)
  /\ UNCHANGED <<cr1, copy, lineVars, rxVars, sent>>

\* Uart::write: all of the frame is queued at once ...
Write(task) ==
  /\ Len(tx) + FrameLen <= TxCapacity
  /\ Goto(task, Start(task), "txe_load")
  /\ tx' = tx \o FrameBytes(task)
  /\ UNCHANGED <<cr1, copy, lineVars, rxVars, sent>>

\* ... or none of it ...
WriteRefused(task) ==
  /\ Len(tx) + FrameLen > TxCapacity
  /\ Goto(task, Start(task), After(task))
  /\ UNCHANGED <<cr1, copy, lineVars, rxVars, txVars>>

\* ... and the transmit interrupt is asked for.
TxeLoad(task)  == LoadCr1(task, "txe_load", "txe_store")
TxeStore(task) == StoreCr1(task, "txeie", TRUE, "txe_store", After(task))

ControlStep ==
  \/ Release \/ LoadOverrun \/ ClearOverrun
  \/ MaskLoad \/ MaskStore \/ PopEmpty \/ PopItem
  \/ CountLoad \/ CountStore \/ UnmaskLoad \/ UnmaskStore
  \/ NoReply

SendStep(task) ==
  \/ Write(task) \/ WriteRefused(task)
  \/ TxeLoad(task) \/ TxeStore(task)

-----------------------------------------------------------------------------
(* The interrupt *)

\* The conditions under which the peripheral asks for it.
Pending ==
  \/ cr1.rxneie /\ (rxne # << >> \/ ore)
  \/ cr1.txeie /\ txe

\* First part of on_irq: a received byte, pushed or dropped. It is taken
\* whenever there is one, whichever condition raised the interrupt.
ReceiveByte ==
  IF rxne = << >>
  THEN /\ overrun' = (overrun \/ ore)
       /\ UNCHANGED <<rx, unread, raced>>
  ELSE /\ rx' = IF Room THEN PushRx(rxne[1]) ELSE rx
       /\ overrun' = (overrun \/ ~Room \/ ore)
       /\ raced' = (raced \/ (Room /\ pc["control"] = "count_store"))
       /\ unread' = CASE raced' -> << >>
                      [] ~raced' /\ Room -> Append(unread, rxne[1])
                      [] ~raced' /\ ~Room -> unread

\* Fault: the transmit interrupt is switched off after every byte.
TransmitNextOnce ==
  IF cr1.txeie /\ txe
  THEN /\ cr1' = [cr1 EXCEPT !.txeie = FALSE]
       /\ IF tx # << >>
          THEN tx' = Tail(tx) /\ sent' = Head(tx) /\ txe' = FALSE
          ELSE UNCHANGED <<txVars, txe>>
  ELSE UNCHANGED <<cr1, txVars, txe>>

\* Second part: the next byte to send, or no more of these interrupts.
TransmitNext ==
  IF cr1.txeie /\ txe
  THEN IF tx # << >>
       THEN tx' = Tail(tx) /\ sent' = Head(tx) /\ txe' = FALSE /\ UNCHANGED cr1
       ELSE cr1' = [cr1 EXCEPT !.txeie = FALSE] /\ UNCHANGED <<txVars, txe>>
  ELSE UNCHANGED <<cr1, txVars, txe>>

\* Reading DR clears both receive flags.
Interrupt ==
  /\ Pending
  /\ ReceiveByte
  /\ TransmitNext
  /\ rxne' = << >>
  /\ ore' = FALSE
  /\ UNCHANGED <<copy, pc, loaded, was>>

-----------------------------------------------------------------------------
(* The wire *)

\* A byte from the host; one that comes before the last was read is lost.
LineByte ==
  /\ IF rxne = << >>
     THEN \E b \in Byte : rxne' = <<b>> /\ UNCHANGED ore
     ELSE ore' = TRUE /\ UNCHANGED rxne
  /\ UNCHANGED <<ctrlVars, txe, rxVars, txVars>>

\* The transmitter has moved its byte on.
LineFree ==
  /\ ~txe
  /\ txe' = TRUE
  /\ UNCHANGED <<ctrlVars, rxne, ore, rxVars, txVars>>

UartInit ==
  /\ cr1 = [rxneie |-> TRUE, txeie |-> FALSE]
  /\ copy = [task \in Task |-> [rxneie |-> TRUE, txeie |-> FALSE]]
  /\ pc = [task \in Task |-> "wait"]
  /\ rxne = << >> /\ ore = FALSE /\ txe = TRUE
  /\ \E b \in Byte :
       rx = [slots |-> [i \in Slot |-> b], head |-> 0, tail |-> 0, count |-> 0]
  /\ loaded = 0 /\ overrun = FALSE /\ was = FALSE
  /\ tx = << >> /\ sent = FrameByte("control", 0)
  /\ unread = << >> /\ raced = FALSE

UartNext ==
  \/ ControlStep
  \/ \E task \in Task : SendStep(task)
  \/ Interrupt
  \/ LineByte
  \/ LineFree

UartSpec == UartInit /\ [][UartNext]_uartVars

-----------------------------------------------------------------------------
(* Properties *)

CountingDown == {"count_load", "count_store"}

\* The bytes between tail and head, oldest first, as far as count_ tells.
Contents == [i \in 1 .. rx.count |-> rx.slots[(rx.tail + i - 1) % RxCapacity]]

\* A CR1 value, a place in the receive ring, and where the tasks can be. The
\* count never exceeds the capacity, races or not.
UartTypeOK ==
  /\ {cr1, copy["control"], copy["logger"]}
        \subseteq [rxneie : BOOLEAN, txeie : BOOLEAN]
  /\ rx.head \in Slot /\ rx.tail \in Slot
  /\ rx.count \in 0 .. RxCapacity
  /\ Len(tx) <= TxCapacity
  /\ Len(rxne) <= 1
  /\ pc["logger"] \in {"wait", "txe_load", "txe_store"}

\* Between frames, what is queued starts with the first byte of a frame.
Continues(last, next) ==
  IF last.left = 0 THEN next.left = FrameLen - 1
  ELSE next = FrameByte(last.task, last.left - 1)

\* What goes over the wire is whole frames, one after the other: neither the
\* interrupt nor the other task's frame cuts into one, and no part of a
\* frame is queued when the ring is nearly full.
FramesWhole ==
  LET wire == <<sent>> \o tx
  IN  /\ \A i \in 1 .. Len(wire) - 1 : Continues(wire[i], wire[i + 1])
      /\ wire[Len(wire)].left = 0

\* Bytes that wait to be sent will be: the transmit interrupt is on, or the
\* task that queued them has yet to switch it on. The interrupt switches it
\* off concurrently, and three read-modify-writes of CR1 interleave with it.
NoStrandedBytes ==
  tx # << >> => \/ cr1.txeie
                \/ \E task \in Task : pc[task] \in {"txe_load", "txe_store"}

\* Outside read() the receive interrupt is on, although the logger task may
\* store back a copy of CR1 that it made before the control task ran.
ReceiverListens ==
  pc["control"] \in {"wait", "flag_load", "flag_clear", "handle"} => cr1.rxneie

\* The receive ring is a FIFO of the bytes pushed and not yet popped, as long
\* as no push has fallen into pop()'s count-down.
RxFaithful ==
  ~raced /\ pc["control"] \notin CountingDown => Contents = unread

\* A push falls into the count-down only by way of the transmit interrupt:
\* against the receive interrupt alone, read()'s mask is enough.
RaceNeedsTransmitter ==
  [][ ~raced /\ raced' => cr1.txeie /\ txe /\ ~cr1.rxneie ]_uartVars

\* ring_buffer.h: "safe for exactly one producer and one consumer (typically
\* an ISR on one side and a task on the other), because push() only advances
\* head_ and pop() only advances tail_". Between two pops, then, count_ is
\* the number of slots from tail_ to head_, or full when the two meet.
OneProducerOneConsumer ==
  pc["control"] \notin CountingDown =>
    (rx.head + RxCapacity - rx.tail) % RxCapacity = rx.count % RxCapacity
=============================================================================
