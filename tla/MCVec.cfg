SPECIFICATION Spec
CONSTANTS
  v1 = v1
  v2 = v2
  a1 = a1
  a2 = a2
  Junk = Junk
  Nothing = Nothing
  Vals <- MCVals
  Allocs <- MCAllocs
  Arrays <- MCArrays
  MaxCap = 4
INVARIANT TypeOK
PROPERTIES
  ImplementsList
  AllocatorKept
