\* Words of two bits; sizes below, at and beyond one and two words.
SPECIFICATION BitsetSpec
CONSTANTS
  W = 2
  Names = {x, y}
  Sizes = {1, 2, 3, 4, 5, 6}
INVARIANTS
  Represents
  QueriesExact
  BitOpsExact
