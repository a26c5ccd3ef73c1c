\* The downloads of the two build scripts, with three failures.
CONSTANTS
  Debs <- TwoDebs
  MaxFailures = 3
SPECIFICATION Spec
INVARIANTS TypeOK ImageWhole
PROPERTY RootfsHeals
