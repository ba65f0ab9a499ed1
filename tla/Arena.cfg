\* A buffer at an address that is not aligned for the largest request, or no
\* buffer at all (0 is NULL); requests small enough for several blocks to fit.
SPECIFICATION Spec
CONSTANTS
  Starts = {0, 3, 4}
  Cap = 7
  Sizes = {0, 1, 2, 3}
  Aligns = {1, 2, 4}
  MaxLive = 3
  MaxMarks = 2
INVARIANT ArenaSafe
PROPERTY ImplementsBlocks
