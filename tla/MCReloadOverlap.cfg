SPECIFICATION Spec
CONSTANTS
  p = p
  q = q
  Line = {p, q}
  CellCap = 100
  MaxStart = 3
  MaxLines = 4
  MaxEdits = 4
  Slot <- Slots
SYMMETRY Symmetry
INVARIANT
  DeletedStaysDeleted
