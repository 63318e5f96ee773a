\* reset interrupted by the consumer
CONSTANTS
  Byte = {b1}
  UINT16_MAX = 65535
  Lengths = {3}
  MaxBatch = 1
  MaxRead = 1
  Modes = {"interrupt"}
SPECIFICATION LifecycleSpec
INVARIANTS OnlyPushedBytes
