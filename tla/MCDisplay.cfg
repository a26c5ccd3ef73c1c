SPECIFICATION Spec
CONSTANTS
  InitialConfig <- MCInitialConfig
  DebugBrightness <- MCDebugBrightness
INVARIANTS
  TypeOK
  NoAbort
  ShownIsApplied
  BrightnessValid
