\* Buffers of one to four bytes in a small address space, so that a stack grows
\* to three arenas, reuses them out of order, and serves an alignment above that of
\* the backing allocator.  The buffers at 3, 5 and 9 may be adjacent, in the order of
\* the arenas or against it.
SPECIFICATION Spec
CONSTANTS
  Bases = {3, 5, 9}
  AddrEnd = 13
  AlignMax = 1
  InitSizes = {0, 2}
  Sizes = {0, 1, 2}
  Aligns = {1, 2}
  MaxLive = 2
  MaxMarks = 1
INVARIANT LiveConsumed
PROPERTIES
  ImplementsBlocks
  BuffersKept
  RewindReclaimsApart
