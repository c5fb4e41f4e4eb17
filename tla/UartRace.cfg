SPECIFICATION UartSpec
CONSTANTS
  RxCapacity = 2
  TxCapacity = 3
  Byte = {b1, b2}
  FrameLen = 2
INVARIANTS
  OneProducerOneConsumer
