\* Buffers of two and three slots (one and two usable): every wrap position,
\* refusals and reads cut short all happen.
CONSTANTS
  Byte = {b1, b2}
  UINT16_MAX = 65535
  Lengths = {2, 3}
  MaxBatch = 3
  MaxRead = 3
SPECIFICATION FairSpec
INVARIANTS TypeOK NoUnreadOverwritten PromiseHolds BatchComplete
PROPERTIES ImplementsFifo RefusedOnlyWhenFull PushReturns PopReturns
