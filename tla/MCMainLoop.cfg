SPECIFICATION Spec
CONSTANTS
  Spare = 7
  DimAfter = 2
  OffAfter = 4
  NagTouches = 3
  Batteries <- MCBatteries
INVARIANTS
  TypeOK
  ScreenStays
  MenuRefreshed
  LitWithSpare
PROPERTIES
  StatusTrue
  ScreenSaverSpec
