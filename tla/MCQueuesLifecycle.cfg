\* reset and initialise in all three modes, with buffers of two sizes
CONSTANTS
  Byte = {b1, b2}
  UINT16_MAX = 3
  Lengths = {1, 3}
  MaxBatch = 1
  MaxRead = 2
  Modes = {"masked", "interrupt", "threads"}
SPECIFICATION LifecycleSpec
INVARIANTS IndicesInBuffer OutBufferBound CountsAgree
PROPERTIES ImplementsClearableFifo
