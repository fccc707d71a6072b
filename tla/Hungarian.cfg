\* Square and oblong matrices in both directions.
SPECIFICATION Spec
CONSTANTS
  RowCounts = {1, 2, 3}
  ColumnCounts = {2, 3}
  Costs = {0, 1, 2}
INVARIANTS
  Optimal
  ScansSucceed
PROPERTY Terminates
CHECK_DEADLOCK FALSE
