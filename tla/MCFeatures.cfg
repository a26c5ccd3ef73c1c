SPECIFICATION Spec
CONSTANTS
  Features <- BothFeatures
  WriteFails = TRUE
  DiskFails = TRUE
  MaxCuts = 2
  MaxExits = 2
INVARIANTS
  TypeOK
  MenuShowsUsb
  NoOtherChoice
PROPERTIES
  AppliedBeforeSaved
  ToggleEnds
  ComesBackWithChannel
