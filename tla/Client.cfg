SPECIFICATION Spec
CONSTANTS
  B = 3
  W32 = 5
  W64 = 7
  Args <- MCArgs
  Tids = {9}
  Entities <- MCEntities
  Addresses = {a1, a2}
  MaxArgs = 2
  MaxNops = 1
  MaxVector = 2
INVARIANTS ArgumentsArrive PacketUsedUp BoundsErrorExact EncodersUndone
PROPERTY DeltaApplied
