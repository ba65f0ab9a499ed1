\* Words of two bits, and pools that use none, one, two full ones, or a part of
\* the second.
SPECIFICATION Spec
CONSTANTS
  Junk = Junk
  W = 2
  Vals = {a, b}
  Caps = {0, 2, 3, 4}
INVARIANTS
  HeldExact
  EraseVisitsAll
