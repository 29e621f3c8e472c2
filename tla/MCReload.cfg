SPECIFICATION Spec
CONSTANTS
  p = p
  q = q
  Line = {p, q}
  CellCap = 9
  MaxStart = 3
  MaxLines = 4
  MaxEdits = 4
  Slot <- Slots
SYMMETRY Symmetry
INVARIANTS
  DiffIsRight
  SharedLandsOnce
  MergeLosesNothing
  MergesSlots
