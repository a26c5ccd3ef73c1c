SPECIFICATION Spec
CONSTANTS
  Kbds <- ThreeKbds
  MaxKbds = 2
  Keys <- PressedKeys
  Garbage <- EnterOnly
  Brightness = 57
  DimAfter = 2
  MaxQueue = 4
  MaxErrors = 1
INVARIANTS
  TypeOK
  AnsweredLit
  LightFollows
PROPERTIES
  PressTaken
  ScreenSaverSpec
  ButtonsAnswered
  IdleGoesDark
\* The program blocks in read(stdin) when nothing was typed.
CHECK_DEADLOCK FALSE
