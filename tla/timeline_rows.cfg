\* Answers of the service in any order, overlapping and with repeated updates.
SPECIFICATION Spec
CONSTANTS
  Ids <- MCIds
  MaxBatch = 3
  Repeats = TRUE
INVARIANTS
  TypeOK
  IdsSorted
  RowsAreTheIds
PROPERTIES
  ShownRowsStay
  InOrderWhenAlone
