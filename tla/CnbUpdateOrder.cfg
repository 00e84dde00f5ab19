SPECIFICATION Spec
CONSTANTS
  Versions <- OneLine
  Stacks = {1, 2}
  BuildStack = 2
  CopyStacks = {1}
  AnyStack = TRUE
  Keep = 2
  MaxBuilds = 2
  MaxRebuilds = 0
  MaxEdits = 0
  MaxOpen = 2
INVARIANT OrderIsADependency
CHECK_DEADLOCK FALSE
