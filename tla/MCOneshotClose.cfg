SPECIFICATION OneshotSpec
CONSTANTS
  RxWakers = {w1, w2}
  TxWakers = {v1, v2}
  NoWaker = NoWaker
INVARIANT SendAfterCloseFails
CHECK_DEADLOCK FALSE
