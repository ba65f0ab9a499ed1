SPECIFICATION Spec
CONSTANTS
  Low = Low
  Mid = Mid
  High = High
  Junk = Junk
  None = None
  Alloc = Alloc
  Elements <- MCElements
  Prio <- MCPrio
  Arrays <- MCArrays
  MaxCount = 6
INVARIANT HeapOrder
PROPERTY
  ImplementsQueue
