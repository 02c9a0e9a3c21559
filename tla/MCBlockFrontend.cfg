SPECIFICATION Spec
CONSTANT Configs <- FrontendConfigs
INVARIANTS
  AllCoded
  PrevIsNeighbour
  InStep
  ListsConsumed
PROPERTY
  FollowsOrder
