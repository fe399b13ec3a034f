CONSTANTS
  Columns = 3
  MaxState = 3
  SmallRow = 1
  MaxDifferences = 2
SPECIFICATION Spec
INVARIANTS
  TableOK
  NoHoleBelowTop
PROPERTY ImplementsPlainTable
