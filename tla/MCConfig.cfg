SPECIFICATION Spec
CONSTANTS
  InitialFiles <- MCInitialFiles
  Brightness <- MCBrightness
  WriteFails = TRUE
  MaxUnsynced = 2
INVARIANT TypeOK
PROPERTY StoreSpec
