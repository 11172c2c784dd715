\* Are the rows in the order of current_ids?
SPECIFICATION Spec
CONSTANTS
  Ids <- MCIds
  MaxBatch = 2
  Repeats = FALSE
INVARIANT RowsFollowIds
