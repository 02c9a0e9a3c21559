SPECIFICATION Spec
CONSTANT Configs <- FastConfigs
INVARIANTS
  TypeOK
  ReadsNeighbours
  Reconstructs
  ListsConsumed
PROPERTY
  FollowsOrder
