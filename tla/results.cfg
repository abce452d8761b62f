SPECIFICATION Spec
CONSTANTS
  Cases = {c1, c2, c3}
  Blocks <- MCBlocks
  MaxEvents = 4
INVARIANTS
  FiguresFromRecords
  RowsAccounted
  RanksAreReference
CHECK_DEADLOCK FALSE
SYMMETRY MCSymmetry
