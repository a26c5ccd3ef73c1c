SPECIFICATION Spec
CONSTANTS
  Kbds <- OneKbd
  MaxKbds = 2
  Keys <- PressedKeys
  Garbage <- OtherOnly
  Brightness = 57
  DimAfter = 2
  MaxQueue = 4
  MaxErrors = 0
PROPERTY ButtonsAlwaysAnswered
\* The program blocks in read(stdin) when nothing was typed.
CHECK_DEADLOCK FALSE
