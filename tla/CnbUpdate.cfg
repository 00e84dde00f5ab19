SPECIFICATION Spec
CONSTANTS
  Versions <- TwoLines
  Stacks = {1, 2}
  BuildStack = 2
  CopyStacks = {1}
  AnyStack = TRUE
  Keep = 1
  MaxBuilds = 2
  MaxRebuilds = 1
  MaxEdits = 1
  MaxOpen = 2
INVARIANTS TypeOK OfferedIsKept OneBinaryPerStack StacksAreListed
CHECK_DEADLOCK FALSE
