SPECIFICATION Spec
CONSTANTS
  a = a
  b = b
  c = c
  Nothing = Nothing
  Junk = Junk
  Vals <- MCVals
  MinCap = 1
  MaxCap = 4
  Arrays <- MCArrays
  Requests <- MCRequests
INVARIANT RingOK
PROPERTIES
  ImplementsQueue
  GrowsOnlyWhenFull
