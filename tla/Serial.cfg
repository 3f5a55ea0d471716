SPECIFICATION FairSpec
CONSTANTS
  Bytes = {b0, b1}
  RxSize = 3
  TxSize = 3
  Burst = 1
INVARIANTS TypeOK UdrieIffWork
PROPERTIES RxIsFifo TxIsFifo WriteReturns
