SPECIFICATION Spec
CONSTANTS
  Menus <- MCMenus
  Root = "main"
  NumItems <- MCNumItems
  Item <- MCItem
  HasSetup <- MCHasSetup
  Depth <- MCDepth
  StackSize = 10
INVARIANTS
  TypeOK
  NoAbort
  Breadcrumbs
  DrawnPrepared
PROPERTY PathSpec
