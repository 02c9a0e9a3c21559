SPECIFICATION Spec
CONSTANTS
  Team <- MCTeam
  Rows <- MCRows
  Values <- MCValues
  Sizes <- MCSizes
INVARIANTS
  TypeOK
  OneBound
  ChunksIntact
  RowsRestored
PROPERTY
  Terminates
