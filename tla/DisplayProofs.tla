--------------------------- MODULE DisplayProofs ---------------------------
(***************************************************************************)
(* Proofs about the brightness, for every content of the configuration     *)
(* file the program itself can have written.  The argument: the editor's   *)
(* steps map digits of a value in 1..100 to digits of a value in 1..100,   *)
(* and what a power cut leaves of a line without leading zeros is zero for *)
(* no value in 1..100.                                                     *)
(***************************************************************************)
EXTENDS Display, TLAPS

Percent == 1 .. 100

\* The digits of a percentage.
Editable == {n \in [0 .. 2 -> 0 .. 9] : Value(n) \in Percent}

\* The flags are Boolean; everything else.
Flags == isInNumber \in BOOLEAN /\ backSelected \in BOOLEAN /\ written \in BOOLEAN

Core ==
  /\ pc \in {"menu", "display"}
  /\ numbers \in [0 .. 2 -> 0 .. 9] /\ curNumberSel \in 0 .. 2
  /\ brightness \in Percent /\ config \in Percent \cup {NoConfig}
  /\ backlight \in [brightness : 0 .. 255, blPower : {0, 1}]
  /\ pc = "display" => /\ Value(numbers) = brightness
                       /\ backlight = Applied(brightness)

IInv == Flags /\ Core
-----------------------------------------------------------------------------
\* The three digits made from a percentage stand for that percentage.
LEMMA DigitsOfPercent ==
  ASSUME NEW b \in Percent
  PROVE  /\ ToDigits(b) \in Editable
         /\ Value(ToDigits(b)) = b
<1> DEFINE h == (b \div 100) % 10
           t == (b \div 10) % 10
           u == b % 10
<1>1. h \in 0 .. 9 /\ t \in 0 .. 9 /\ u \in 0 .. 9 /\ h * 100 + t * 10 + u = b
  BY DEF Percent
<1>2. /\ ToDigits(b) \in [0 .. 2 -> 0 .. 9]
      /\ ToDigits(b)[0] = h /\ ToDigits(b)[1] = t /\ ToDigits(b)[2] = u
  BY <1>1 DEF ToDigits, Digits
<1>3. Value(ToDigits(b)) = b
  BY <1>1, <1>2 DEF Value
<1>4. QED  BY <1>2, <1>3 DEF Editable

\* Three digits that make a percentage.
LEMMA DigitsEditable ==
  ASSUME NEW h \in 0 .. 9, NEW t \in 0 .. 9, NEW u \in 0 .. 9,
         h * 100 + t * 10 + u \in Percent
  PROVE  Digits(h, t, u) \in Editable
<1>1. /\ Digits(h, t, u) \in [0 .. 2 -> 0 .. 9]
      /\ Digits(h, t, u)[0] = h /\ Digits(h, t, u)[1] = t /\ Digits(h, t, u)[2] = u
  BY DEF Digits
<1>2. Value(Digits(h, t, u)) \in Percent
  BY <1>1, Zenon DEF Value
<1>3. QED  BY <1>1, <1>2, Zenon DEF Editable

\* One digit replaced: the digits of a percentage if the new ones make one.
LEMMA ExceptEditable ==
  ASSUME NEW n \in [0 .. 2 -> 0 .. 9], NEW c \in 0 .. 2, NEW d \in 0 .. 9,
         (IF c = 0 THEN d ELSE n[0]) * 100 + (IF c = 1 THEN d ELSE n[1]) * 10
           + (IF c = 2 THEN d ELSE n[2]) \in Percent
  PROVE  [n EXCEPT ![c] = d] \in Editable
<1> DEFINE m == [n EXCEPT ![c] = d]
<1>1. /\ m \in [0 .. 2 -> 0 .. 9]
      /\ m[0] = (IF c = 0 THEN d ELSE n[0])
      /\ m[1] = (IF c = 1 THEN d ELSE n[1])
      /\ m[2] = (IF c = 2 THEN d ELSE n[2])
  OBVIOUS
<1>2. Value(m) \in Percent
  BY <1>1, Zenon DEF Value
<1>3. QED  BY <1>1, <1>2, Zenon DEF Editable

\* An increase keeps the digits those of a percentage.
LEMMA IncreasedEditable ==
  ASSUME NEW n \in Editable, NEW c \in 0 .. 2
  PROVE  Increased(n, c) \in Editable
<1>1. /\ n \in [0 .. 2 -> 0 .. 9] /\ n[0] \in 0 .. 9 /\ n[1] \in 0 .. 9 /\ n[2] \in 0 .. 9
      /\ n[0] * 100 + n[1] * 10 + n[2] \in 1 .. 100
  BY DEF Editable, Value, Percent
<1>2. CASE c = 0 /\ n[0] = 0
  <2>1. Increased(n, c) = Digits(1, 0, 0)
    BY <1>2, Zenon DEF Increased
  <2>2. 1 \in 0 .. 9 /\ 0 \in 0 .. 9 /\ 1 * 100 + 0 * 10 + 0 \in Percent
    BY DEF Percent
  <2>3. Digits(1, 0, 0) \in Editable
    BY <2>2, DigitsEditable, Zenon
  <2>4. QED  BY <2>1, <2>3, Zenon
<1>3. CASE ~ (c = 0 /\ n[0] = 0) /\ (n[0] = 1 \/ n[c] = 9)
  BY <1>3, Zenon DEF Increased
<1>4. CASE n[0] # 1 /\ n[c] # 9 /\ ~ (c = 0 /\ n[0] = 0)
  <2>1. Increased(n, c) = [n EXCEPT ![c] = n[c] + 1]
    BY <1>4, Zenon DEF Increased
  <2>2. n[0] = 0 /\ c # 0 /\ n[c] + 1 \in 0 .. 9
    BY <1>1, <1>4
  <2>3. (IF c = 0 THEN n[c] + 1 ELSE n[0]) * 100 + (IF c = 1 THEN n[c] + 1 ELSE n[1]) * 10
          + (IF c = 2 THEN n[c] + 1 ELSE n[2]) \in Percent
    BY <1>1, <2>2 DEF Percent
  <2>4. [n EXCEPT ![c] = n[c] + 1] \in Editable
    BY <1>1, <2>2, <2>3, ExceptEditable, Zenon
  <2>5. QED  BY <2>1, <2>4, Zenon
<1>5. QED  BY <1>2, <1>3, <1>4, Zenon

\* So does a decrease: no digit goes down to a value of zero.
LEMMA DecreasedEditable ==
  ASSUME NEW n \in Editable, NEW c \in 0 .. 2
  PROVE  Decreased(n, c) \in Editable
<1> DEFINE floor == \/ c = 1 /\ n[0] = 0 /\ n[1] = 1 /\ n[2] = 0
                    \/ c = 2 /\ n[0] = 0 /\ n[1] = 0 /\ n[2] = 1
<1>1. /\ n \in [0 .. 2 -> 0 .. 9] /\ n[0] \in 0 .. 9 /\ n[1] \in 0 .. 9 /\ n[2] \in 0 .. 9
      /\ n[0] * 100 + n[1] * 10 + n[2] \in 1 .. 100
  BY DEF Editable, Value, Percent
<1>2. /\ 0 \in 0 .. 9 /\ 9 \in 0 .. 9
      /\ 0 * 100 + 9 * 10 + 9 \in Percent /\ 0 * 100 + 0 * 10 + 9 \in Percent
  BY DEF Percent
<1>3. CASE c = 0 /\ n[0] = 1
  <2>1. Decreased(n, c) = Digits(0, 9, 9)
    BY <1>3, Zenon DEF Decreased
  <2>2. Digits(0, 9, 9) \in Editable
    BY <1>2, DigitsEditable, Zenon
  <2>3. QED  BY <2>1, <2>2, Zenon
<1>4. CASE c = 1 /\ n[0] = 0 /\ n[1] = 1 /\ n[2] = 0
  <2>1. Decreased(n, c) = Digits(0, 0, 9)
    BY <1>4 DEF Decreased
  <2>2. Digits(0, 0, 9) \in Editable
    BY <1>2, DigitsEditable, Zenon
  <2>3. QED  BY <2>1, <2>2, Zenon
<1>5. CASE \/ c = 2 /\ n[0] = 0 /\ n[1] = 0 /\ n[2] = 1
           \/ ~ (c = 0 /\ n[0] = 1) /\ ~ floor /\ n[c] = 0
  BY <1>5 DEF Decreased
<1>6. CASE ~ (c = 0 /\ n[0] = 1) /\ ~ floor /\ n[c] # 0
  <2>1. Decreased(n, c) = [n EXCEPT ![c] = n[c] - 1]
    BY <1>6, Zenon DEF Decreased
  <2>2. n[c] - 1 \in 0 .. 9
    BY <1>1, <1>6
  <2>3. (IF c = 0 THEN n[c] - 1 ELSE n[0]) * 100 + (IF c = 1 THEN n[c] - 1 ELSE n[1]) * 10
          + (IF c = 2 THEN n[c] - 1 ELSE n[2]) \in Percent
    <3>1. CASE c = 0
      BY <1>1, <1>6, <3>1
    <3>2. CASE c = 1
      BY <1>1, <1>6, <3>2 DEF Percent
    <3>3. CASE c = 2
      BY <1>1, <1>6, <3>3 DEF Percent
    <3>4. QED  BY <3>1, <3>2, <3>3
  <2>4. [n EXCEPT ![c] = n[c] - 1] \in Editable
    BY <1>1, <2>2, <2>3, ExceptEditable, Zenon
  <2>5. QED  BY <2>1, <2>4, Zenon
<1>7. QED  BY <1>3, <1>4, <1>5, <1>6, Zenon

\* The digits a power cut leaves of a percentage are those of a percentage; of a
\* file that ends before them it leaves none.
LEMMA CutPercent ==
  ASSUME NEW b \in Percent \cup {NoConfig}
  PROVE  Cut(b) \subseteq Percent \cup {NoConfig}
<1>1. CASE b \in Percent
  BY <1>1 DEF Cut, Percent
<1>2. CASE b = NoConfig
  BY <1>2 DEF Cut, NoConfig
<1>3. QED  BY <1>1, <1>2

\* The backlight takes a value of a byte, above zero for a percentage.
LEMMA AppliedByte ==
  ASSUME NEW p \in 0 .. 100
  PROVE  /\ Applied(p) \in [brightness : 0 .. 255, blPower : {0, 1}]
         /\ p > 0 => Applied(p).brightness > 0
<1>1. (p * 255) \div 100 \in 0 .. 255 /\ (p > 0 => (p * 255) \div 100 > 0)
  OBVIOUS
<1>2. QED  BY <1>1 DEF Applied

\* A start reads a percentage, and leaves one in the file or none.
LEMMA BootPercent ==
  ASSUME NEW c \in Percent \cup {NoConfig}, NEW onDisk, Boot(c, onDisk)
  PROVE  /\ brightness' \in Percent /\ config' \in Percent \cup {NoConfig}
         /\ backlight' \in [brightness : 0 .. 255, blPower : {0, 1}]
<1>1. brightness' \in Percent
  BY DEF Boot, Loaded, Percent
<1>2. config' \in Percent \cup {NoConfig}
  BY <1>1 DEF Boot, Rewrite
<1>3. Applied(brightness') \in [brightness : 0 .. 255, blPower : {0, 1}]
  <2>1. brightness' \in 0 .. 100
    BY <1>1 DEF Percent
  <2>2. QED  BY <2>1, AppliedByte, Zenon
<1>4. backlight' = Applied(brightness')
  BY Zenon DEF Boot
<1>5. QED  BY <1>1, <1>2, <1>3, <1>4, Zenon

\* A turn of the editor's loop that draws the digits of a percentage.
LEMMA ShowKeeps ==
  ASSUME NEW n \in Editable, Show(n)
  PROVE  /\ pc' = "display"
         /\ brightness' = Value(n) /\ brightness' \in Percent
         /\ backlight' = Applied(brightness')
         /\ backlight' \in [brightness : 0 .. 255, blPower : {0, 1}]
<1>1. n \in [0 .. 2 -> 0 .. 9] /\ Value(n) \in 1 .. 100 /\ n[0] \in {0, 1}
  BY DEF Editable, Percent, Value
<1>2. pc' = "display" /\ brightness' = Value(n) /\ backlight' = Applied(Value(n))
  BY <1>1 DEF Show
<1>3. Applied(Value(n)) \in [brightness : 0 .. 255, blPower : {0, 1}]
  <2>1. Value(n) \in 0 .. 100
    BY <1>1
  <2>2. QED  BY <2>1, AppliedByte, Zenon
<1>4. QED  BY <1>1, <1>2, <1>3 DEF Percent
-----------------------------------------------------------------------------
\* The flags are Boolean at first.
LEMMA InitFlags == Init => Flags
BY Zenon DEF Init, Flags

\* Every step keeps the flags Boolean.
LEMMA NextFlags == Flags /\ [Next]_vars => Flags'
<1> SUFFICES ASSUME Flags, [Next]_vars PROVE Flags'
  OBVIOUS
<1> USE DEF Flags
<1>1. CASE Open
  BY <1>1, Zenon DEF Open
<1>2. CASE EditDigit
  BY <1>2, Zenon DEF EditDigit
<1>3. CASE ChooseUp
  BY <1>3, Zenon DEF ChooseUp
<1>4. CASE ChooseDown
  BY <1>4, Zenon DEF ChooseDown
<1>5. CASE ChooseDigit
  BY <1>5, Zenon DEF ChooseDigit
<1>6. CASE Leave
  BY <1>6, Zenon DEF Leave, Write, Rewrite, Idle
<1>7. CASE SaveFeatures
  BY <1>7, Zenon DEF SaveFeatures, Write, Rewrite, editor
<1>8. CASE DebugScreen
  BY <1>8, Zenon DEF DebugScreen, editor
<1>9. CASE WriteBack
  BY <1>9, Zenon DEF WriteBack, editor
<1>10. CASE PowerCut
  BY <1>10, Zenon DEF PowerCut, Idle, Boot, Rewrite
<1>11. CASE UNCHANGED vars
  BY <1>11, Zenon DEF vars, editor
<1>12. CASE Restart
  BY <1>12, Zenon DEF Restart, Idle, Boot, Rewrite
<1>13. QED
  BY <1>1, <1>2, <1>3, <1>4, <1>5, <1>6, <1>7, <1>8, <1>9, <1>10, <1>11, <1>12, Zenon
     DEF Next

\* Whatever file the program starts from, the rest of the invariant holds.
LEMMA InitCore == Init => Core
<1> SUFFICES ASSUME Init PROVE Core
  OBVIOUS
<1>1. PICK c \in InitialConfig :
         /\ brightness = Loaded(c)
         /\ \/ c # NoConfig /\ config = c
            \/ config \in {brightness, NoConfig}
  BY Zenon DEF Init
<1>2. brightness \in Percent /\ config \in Percent \cup {NoConfig}
  BY <1>1, DisplayAssumption DEF Percent, Loaded
<1>3. pc = "menu" /\ backlight = Applied(brightness)
  BY Zenon DEF Init
<1>4. numbers = Digits(0, 0, 0) /\ curNumberSel = 0
  BY Zenon DEF Init
<1>5. backlight \in [brightness : 0 .. 255, blPower : {0, 1}]
  <2>1. brightness \in 0 .. 100
    BY <1>2 DEF Percent
  <2>2. Applied(brightness) \in [brightness : 0 .. 255, blPower : {0, 1}]
    BY <2>1, AppliedByte, Zenon
  <2>3. QED  BY <1>3, <2>2, Zenon
<1>6. numbers \in [0 .. 2 -> 0 .. 9]
  BY <1>4 DEF Digits
<1>7. QED  BY <1>2, <1>3, <1>4, <1>5, <1>6 DEF Core

\* A turn of the editor's loop keeps the rest of the invariant.
LEMMA ShowCore ==
  ASSUME Core, numbers' \in Editable, Show(numbers'),
         curNumberSel' \in 0 .. 2, config' = config
  PROVE  Core'
BY ShowKeeps DEF Core, Editable

\* Every step keeps the rest of the invariant.
LEMMA NextCore == Core /\ [Next]_vars => Core'
<1> SUFFICES ASSUME Core, [Next]_vars PROVE Core'
  OBVIOUS
<1>1. pc = "display" => numbers \in Editable /\ curNumberSel \in 0 .. 2
  BY DEF Core, Editable
<1>2. CASE Open
  <2>1. numbers' \in Editable
    BY <1>2, DigitsOfPercent DEF Open, Core
  <2>2. Show(numbers') /\ curNumberSel' = 0 /\ config' = config
    BY <1>2, Zenon DEF Open
  <2>3. QED  BY <2>1, <2>2, ShowCore
<1>3. CASE EditDigit
  <2>1. numbers \in Editable /\ curNumberSel \in 0 .. 2
    BY <1>1, <1>3 DEF EditDigit
  <2>2. Increased(numbers, curNumberSel) \in Editable
    BY <2>1, IncreasedEditable
  <2>3. Decreased(numbers, curNumberSel) \in Editable
    BY <2>1, DecreasedEditable
  <2>4. numbers' \in Editable
    BY <1>3, <2>1, <2>2, <2>3, Zenon DEF EditDigit
  <2>5. Show(numbers') /\ curNumberSel' = curNumberSel /\ config' = config
    BY <1>3, Zenon DEF EditDigit
  <2>6. QED  BY <2>1, <2>4, <2>5, ShowCore
<1>4. CASE ChooseUp \/ ChooseDown \/ ChooseDigit
  <2>1. numbers' = numbers /\ numbers \in Editable /\ Show(numbers') /\ config' = config
    BY <1>1, <1>4 DEF ChooseUp, ChooseDown, ChooseDigit
  <2>2. curNumberSel' \in 0 .. 2
    <3>1. curNumberSel \in 0 .. 2
      BY DEF Core
    <3>2. CASE ChooseUp
      BY <3>1, <3>2 DEF ChooseUp
    <3>3. CASE ChooseDown
      BY <3>1, <3>3 DEF ChooseDown
    <3>4. CASE ChooseDigit
      BY <3>1, <3>4 DEF ChooseDigit
    <3>5. QED  BY <1>4, <3>2, <3>3, <3>4
  <2>3. QED  BY <2>1, <2>2, ShowCore
<1>5. CASE Leave
  <2>1. /\ pc' = "menu" /\ config' \in {config, brightness, NoConfig}
        /\ numbers' = Digits(0, 0, 0) /\ curNumberSel' = 0
        /\ UNCHANGED <<brightness, backlight>>
    BY <1>5 DEF Leave, Write, Rewrite, Idle
  <2>2. QED  BY <2>1 DEF Core, Digits
<1>6. CASE SaveFeatures
  BY <1>6 DEF SaveFeatures, Write, Rewrite, editor, Core
<1>7. CASE DebugScreen
  <2>1. /\ brightness' \in Percent
        /\ \E p \in 0 .. 100 : backlight' = Applied(p)
        /\ UNCHANGED <<pc, editor, config>> /\ pc = "menu"
    <3>1. CASE \E b \in DebugBrightness : brightness' = b /\ backlight' = Applied(b)
      BY <1>7, <3>1, DisplayAssumption DEF DebugScreen, Percent
    <3>2. CASE \E p \in {0, brightness} : backlight' = Applied(p) /\ UNCHANGED brightness
      BY <1>7, <3>2 DEF DebugScreen, Core, Percent
    <3>3. CASE \E l \in {50, 25, 10, 5, 1} :
                 backlight' = Applied((l * brightness) \div 100) /\ UNCHANGED brightness
      <4>1. PICK l \in {50, 25, 10, 5, 1} :
                   backlight' = Applied((l * brightness) \div 100) /\ UNCHANGED brightness
        BY <3>3
      <4>2. (l * brightness) \div 100 \in 0 .. 100
        BY DEF Core, Percent
      <4>3. QED  BY <1>7, <4>1, <4>2 DEF DebugScreen, Core
    <3>4. QED  BY <1>7, <3>1, <3>2, <3>3 DEF DebugScreen
  <2>2. backlight' \in [brightness : 0 .. 255, blPower : {0, 1}]
    BY <2>1, AppliedByte, Zenon
  <2>3. QED  BY <2>1, <2>2 DEF editor, Core
<1>8. CASE WriteBack
  BY <1>8 DEF WriteBack, editor, Core
<1>9. CASE PowerCut
  <2>1. PICK c \in {config} \cup Cut(config) : Boot(c, TRUE)
    BY <1>9 DEF PowerCut
  <2>2. c \in Percent \cup {NoConfig}
    BY CutPercent DEF Core
  <2>3. pc' = "menu" /\ numbers' = Digits(0, 0, 0) /\ curNumberSel' = 0
    BY <1>9, Zenon DEF PowerCut, Idle
  <2>4. /\ brightness' \in Percent /\ config' \in Percent \cup {NoConfig}
        /\ backlight' \in [brightness : 0 .. 255, blPower : {0, 1}]
    BY <2>1, <2>2, BootPercent, Zenon
  <2>5. QED  BY <2>3, <2>4 DEF Core, Digits
<1>10. CASE UNCHANGED vars
  BY <1>10 DEF vars, editor, Core
<1>11. CASE Restart
  <2>1. /\ pc' = "menu" /\ numbers' = Digits(0, 0, 0) /\ curNumberSel' = 0
        /\ Boot(config, written)
    BY <1>11, Zenon DEF Restart, Idle
  <2>2. config \in Percent \cup {NoConfig}
    BY DEF Core
  <2>3. QED  BY <2>1, <2>2, BootPercent DEF Core, Digits
<1>12. QED
  BY <1>2, <1>3, <1>4, <1>5, <1>6, <1>7, <1>8, <1>9, <1>10, <1>11 DEF Next

\* The strengthened invariant: brightness and configuration are percentages
\* above zero, and the editor's digits are those of the brightness.
THEOREM Invariance == Spec => []IInv
<1>1. QED  BY InitFlags, NextFlags, InitCore, NextCore, PTL DEF Spec, IInv

\* Type correctness: each digit of the editor stays a digit, and the backlight
\* gets a byte.
THEOREM TypeCorrect == Spec => []TypeOK
<1>1. IInv => TypeOK
  BY DEF IInv, Flags, Core, TypeOK, Percent
<1>2. QED  BY <1>1, Invariance, PTL

\* No assert of configureDisplay ever fails, whatever keys are pressed.
THEOREM NeverAborts == Spec => []NoAbort
<1>1. IInv => NoAbort
  BY DEF IInv, Core, NoAbort
<1>2. QED  BY <1>1, Invariance, PTL

\* While it is edited the brightness is visible, and what is shown is set.
THEOREM EditorFaithful == Spec => []ShownIsApplied
<1>1. IInv => ShownIsApplied
  BY AppliedByte DEF IInv, Core, ShownIsApplied, Percent
<1>2. QED  BY <1>1, Invariance, PTL

\* The brightness is never zero, not even after a power cut that tears the
\* configuration file.
THEOREM NeverBlack == Spec => []BrightnessValid
<1>1. IInv => BrightnessValid
  BY CutPercent DEF IInv, Core, BrightnessValid, Percent
<1>2. QED  BY <1>1, Invariance, PTL
=============================================================================
