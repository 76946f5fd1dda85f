CONSTANTS
  TxBufSize = 3
  Payloads <- MCPayloads
  Writes <- MCWrites
  Greeting = 2
  MaxBytes = 10
  MaxLinks = 3
SPECIFICATION BleFairSpec
INVARIANTS BleTypeOK NoLostWakeup StreamIsOwn
PROPERTY Drains
CHECK_DEADLOCK FALSE
