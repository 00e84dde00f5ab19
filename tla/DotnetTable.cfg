SPECIFICATION Spec
CONSTANTS
  Sdks <- TwoChannels
  Contains <- Mistaken
  MaxReruns = 2
INVARIANTS TypeOK SupportedSdkIsOffered SupportedHasOneSdk
CHECK_DEADLOCK FALSE
