SPECIFICATION Spec
CONSTANTS
  Features <- BothFeatures
  WriteFails = FALSE
  DiskFails = TRUE
  MaxCuts = 0
  MaxExits = 1
PROPERTY ComesBackWithNetworking
