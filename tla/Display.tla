------------------------------ MODULE Display ------------------------------
(***************************************************************************)
(* The screen's brightness: the digit editor of settings.c, the backlight  *)
(* of screen.c, the brightness line of the configuration file of conf.c    *)
(* and the screen entries of the debugging menu.                           *)
(*                                                                         *)
(* The editor applies every intermediate value at once, so a wrong step    *)
(* leaves the user with a black screen, or ends the program at an assert.  *)
(* The file is rewritten in place and never synced: a power cut before the *)
(* kernel has written it back leaves a prefix of it.                       *)
(*                                                                         *)
(* Abstracted: drawing; the other lines of the file, of which only "cut    *)
(* before the brightness" matters here; the waiting for input, whose       *)
(* dimming ends before the editor sees the event (AnsweredLit of Input).   *)
(***************************************************************************)
EXTENDS Integers

CONSTANTS
  InitialConfig,    \* what the file may hold at first
  DebugBrightness   \* the values of the debugging menu

VARIABLES
  pc,            \* "menu", "display" (the editor runs) or "aborted"
  numbers, curNumberSel, isInNumber, backSelected,   \* locals of the editor
  brightness,    \* SCREEN_Brightness
  backlight,     \* the files under /sys/class/backlight
  config,        \* the brightness line of the file, NoConfig if it ends before
  written        \* the kernel has written the file back

editor == <<numbers, curNumberSel, isInNumber, backSelected>>
vars == <<pc, editor, brightness, backlight, config, written>>

NoConfig == -1

ASSUME DisplayAssumption ==
  /\ InitialConfig # {} /\ InitialConfig \subseteq (1 .. 100) \cup {NoConfig}
  /\ DebugBrightness \subseteq 1 .. 100
-----------------------------------------------------------------------------
\* The array numbers, and NUM_ARR_TO_INT.
Digits(h, t, u) == [i \in 0 .. 2 |-> CASE i = 0 -> h [] i = 1 -> t [] i = 2 -> u]
Value(n) == n[0] * 100 + n[1] * 10 + n[2]
ToDigits(b) == Digits((b \div 100) % 10, (b \div 10) % 10, b % 10)

\* SCREEN_ApplyBrightness: the value is never negative, so bl_power is always 0.
Applied_DivideFirst(percent) ==
  [brightness |-> (percent \div 100) * 255, blPower |-> 0]
Applied(percent) ==
  LET val == (percent * 255) \div 100
  IN  [brightness |-> val, blPower |-> IF val >= 0 THEN 0 ELSE 1]

\* INPUT_TYPE_UP while digit c is edited.
Increased_NoNine(n, c) ==
  IF c = 0 /\ n[0] = 0 THEN Digits(1, 0, 0)
  ELSE IF n[0] = 1 THEN n
  ELSE [n EXCEPT ![c] = @ + 1]
Increased(n, c) ==
  IF c = 0 /\ n[0] = 0 THEN Digits(1, 0, 0)
  ELSE IF n[0] = 1 \/ n[c] = 9 THEN n
  ELSE [n EXCEPT ![c] = @ + 1]

\* INPUT_TYPE_DOWN while digit c is edited.
Decreased_NoFloor(n, c) ==
  IF c = 0 /\ n[0] = 1 THEN Digits(0, 9, 9)
  ELSE IF n[c] = 0 THEN n
  ELSE [n EXCEPT ![c] = @ - 1]
Decreased(n, c) ==
  IF c = 0 /\ n[0] = 1 THEN Digits(0, 9, 9)
  ELSE IF c = 1 /\ n[0] = 0 /\ n[1] = 1 /\ n[2] = 0 THEN Digits(0, 0, 9)
  ELSE IF c = 2 /\ n[0] = 0 /\ n[1] = 0 /\ n[2] = 1 THEN n
  ELSE IF n[c] = 0 THEN n
  ELSE [n EXCEPT ![c] = @ - 1]

\* What is left of the brightness line, printed without leading zeros, after a
\* power cut: the digits that were written.  (An older file may survive too;
\* its brightness was valid as well.)
Cut_Padded(b) == {b, b \div 10, b \div 100, NoConfig}
Cut(b) == {x \in {b, b \div 10, b \div 100} : x > 0} \cup {NoConfig}

\* CONF_Init: what is read; CONF_Reset for a file that ends too early.
Loaded(c) == IF c = NoConfig THEN 100 ELSE c
-----------------------------------------------------------------------------
\* CONF_Write once the file is open, and so truncated: whether its lines can be
\* written is not looked at.
Rewrite(b) == config' \in {b, NoConfig} /\ written' = FALSE

\* CONF_Write as the menus call it: that it cannot open the file changes nothing.
Write(b) == Rewrite(b) \/ UNCHANGED <<config, written>>

\* CONF_Init on a file with line c, which the disk has or not.  (If CONF_Reset
\* cannot open the file for writing, main ends at once: Features.tla.)
Boot(c, onDisk) ==
  /\ brightness' = Loaded(c)
  /\ backlight' = Applied(brightness')
  /\ \/ c # NoConfig /\ config' = c /\ written' = onDisk
     \/ c = NoConfig /\ Rewrite(brightness')

Idle == /\ numbers' = Digits(0, 0, 0) /\ curNumberSel' = 0
        /\ isInNumber' = FALSE /\ backSelected' = FALSE

Init ==
  /\ pc = "menu"
  /\ numbers = Digits(0, 0, 0) /\ curNumberSel = 0
  /\ isInNumber = FALSE /\ backSelected = FALSE
  /\ \E c \in InitialConfig :
       /\ brightness = Loaded(c)
       /\ \/ c # NoConfig /\ config = c /\ written = TRUE
          \/ c = NoConfig /\ config \in {brightness, NoConfig} /\ written = FALSE
  /\ backlight = Applied(brightness)

\* The end of each turn of the editor's loop: the asserts, then the new
\* brightness is applied.
Show(n) ==
  IF n[0] \in {0, 1} /\ n[1] \in 0 .. 9 /\ n[2] \in 0 .. 9 /\ Value(n) \in 1 .. 100
    THEN pc' = "display" /\ brightness' = Value(n) /\ backlight' = Applied(Value(n))
    ELSE pc' = "aborted" /\ UNCHANGED <<brightness, backlight>>

\* configureDisplay, up to its first draw.
Open ==
  /\ pc = "menu"
  /\ numbers' = ToDigits(brightness)
  /\ curNumberSel' = 0 /\ isInNumber' = FALSE /\ backSelected' = FALSE
  /\ Show(numbers')
  /\ UNCHANGED <<config, written>>

\* A key press while a digit is edited.
EditDigit ==
  /\ pc = "display" /\ isInNumber
  /\ \/ /\ numbers' \in {Increased(numbers, curNumberSel), Decreased(numbers, curNumberSel)}
        /\ UNCHANGED isInNumber
     \/ /\ isInNumber' = FALSE
        /\ UNCHANGED numbers
  /\ Show(numbers')
  /\ UNCHANGED <<curNumberSel, backSelected, config, written>>

\* A key press while a digit, or Back, is chosen.
ChooseUp ==
  /\ pc = "display" /\ ~ isInNumber
  /\ curNumberSel' = IF backSelected THEN 0
                     ELSE IF curNumberSel < 2 THEN curNumberSel + 1 ELSE curNumberSel
  /\ backSelected' = FALSE
  /\ Show(numbers)
  /\ UNCHANGED <<numbers, isInNumber, config, written>>

ChooseDown ==
  /\ pc = "display" /\ ~ isInNumber
  /\ IF curNumberSel > 0 /\ ~ backSelected
       THEN curNumberSel' = curNumberSel - 1 /\ UNCHANGED backSelected
       ELSE backSelected' = TRUE /\ UNCHANGED curNumberSel
  /\ Show(numbers)
  /\ UNCHANGED <<numbers, isInNumber, config, written>>

ChooseDigit ==
  /\ pc = "display" /\ ~ isInNumber /\ ~ backSelected
  /\ isInNumber' = TRUE
  /\ Show(numbers)
  /\ UNCHANGED <<numbers, curNumberSel, backSelected, config, written>>

\* Back: CONF_Write, whose result is ignored.
Leave ==
  /\ pc = "display" /\ ~ isInNumber /\ backSelected
  /\ pc' = "menu"
  /\ Idle
  /\ Write(brightness)
  /\ UNCHANGED <<brightness, backlight>>

\* toggle() of the features menu rewrites the file as well.
SaveFeatures ==
  /\ pc = "menu"
  /\ Write(brightness)
  /\ UNCHANGED <<pc, editor, brightness, backlight>>

\* The screen entries of the debugging menu.
DebugScreen ==
  /\ pc = "menu"
  /\ \/ \E b \in DebugBrightness : brightness' = b /\ backlight' = Applied(b)
     \/ \E p \in {0, brightness} : backlight' = Applied(p) /\ UNCHANGED brightness
     \/ \E l \in {50, 25, 10, 5, 1} :
          backlight' = Applied((l * brightness) \div 100) /\ UNCHANGED brightness
  /\ UNCHANGED <<pc, editor, config, written>>

\* The kernel writes the file back.
WriteBack ==
  /\ ~ written
  /\ written' = TRUE
  /\ UNCHANGED <<pc, editor, brightness, backlight, config>>

\* The power is cut and the program starts again.
PowerCut ==
  /\ \E c \in IF written THEN {config} ELSE Cut(config) : Boot(c, TRUE)
  /\ pc' = "menu"
  /\ Idle

\* The program ends, at an entry of the debugging menu or at an assert, and is
\* started again: it reads what it wrote last, written back or not.
Restart ==
  /\ pc # "display"
  /\ pc' = "menu"
  /\ Boot(config, written)
  /\ Idle

Next ==
  \/ Open \/ EditDigit \/ ChooseUp \/ ChooseDown \/ ChooseDigit \/ Leave
  \/ SaveFeatures \/ DebugScreen \/ WriteBack \/ PowerCut \/ Restart

Spec == Init /\ [][Next]_vars
-----------------------------------------------------------------------------
\* The types of the variables.
TypeOK ==
  /\ pc \in {"menu", "display", "aborted"}
  /\ numbers \in [0 .. 2 -> 0 .. 9]
  /\ curNumberSel \in 0 .. 2
  /\ isInNumber \in BOOLEAN /\ backSelected \in BOOLEAN
  /\ brightness \in Nat
  /\ backlight \in [brightness : 0 .. 255, blPower : {0, 1}]
  /\ config \in Nat \cup {NoConfig}
  /\ written \in BOOLEAN

\* No sequence of key presses makes an assert of the editor fail.
NoAbort == pc # "aborted"

\* "Prevent accidentally turning off the screen" (settings.c:62): what the
\* editor shows is what is set and what the backlight has, and it is visible.
ShownIsApplied ==
  pc = "display" =>
    /\ Value(numbers) = brightness
    /\ backlight = Applied(brightness)
    /\ backlight.brightness > 0

\* The brightness is a percentage above zero at all times, and so is the one
\* the next start reads, whenever the power is cut while the file is rewritten.
BrightnessValid ==
  /\ brightness \in 1 .. 100
  /\ (IF written THEN {config} ELSE Cut(config)) \subseteq (1 .. 100) \cup {NoConfig}
=============================================================================
