SPECIFICATION Spec
CONSTANTS
  k1 = k1
  k2 = k2
  k3 = k3
  v1 = v1
  v2 = v2
  NoKey = NoKey
  Absent = Absent
  Nothing = Nothing
  Keys <- MCKeys
  Vals <- MCVals
  Hash <- MCHash
  Fp <- MCFp
  MinCap = 2
  MaxCap = 8
  LoadNum = 3
  LoadDen = 4
  Reserves <- MCReserves
  Assigns <- MCAssigns
INVARIANTS
  ProbesEnd
  CountersExact
PROPERTIES
  ImplementsMap
  ReserveKept
  ChurnKeepsCapacity
  AddressesKept
