CONSTANTS
  Slots   = {1, 2}
  Asserts <- MCAsserts
  Plans   <- MCPlans
  Faults  = {"abrt", "segv"}
  Codes   = {"0", "3"}
SPECIFICATION Spec
INVARIANTS SlotsFree CellsImpossible
PROPERTIES VerdictsTrue ImplementsRun RunEnds
