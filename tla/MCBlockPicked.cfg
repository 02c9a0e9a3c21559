SPECIFICATION Spec
CONSTANT Configs <- PickedConfigs
INVARIANT
  SaveSucceeds
