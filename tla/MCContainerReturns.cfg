CONSTANTS
  Inputs <- StrangeInputs
  Callers <- SomeCallers
SPECIFICATION Spec
INVARIANT Returns
CHECK_DEADLOCK FALSE
