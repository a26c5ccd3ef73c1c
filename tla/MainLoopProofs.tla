--------------------------- MODULE MainLoopProofs ---------------------------
(***************************************************************************)
(* Proofs about the main loop and its nested screens, for every number of  *)
(* free descriptors, every pair of times of the screen saver and every     *)
(* battery: what is drawn and when, what the status tells, and that        *)
(* waiting below a screen makes the same ScreenSaver as INPUT_Wait alone.  *)
(***************************************************************************)
EXTENDS MainLoop, TLAPS

\* Who may be waiting for input, and what STATE_NoMenuRefresh is meanwhile.  The
\* message about touch input is shown only where the menu may be drawn.
Waiting ==
  /\ where \in Screens \cup {"menu"}
  /\ pc = "boot" => where = "menu"
  /\ where \in SetsNoRefresh => noMenuRefresh /\ pc # "nag"
  /\ where \notin SetsNoRefresh => ~ noMenuRefresh

\* The screens and the menu are not drawn over.
Shown == Waiting /\ ScreenStays /\ MenuRefreshed

\* At first nothing is drawn and nobody waits.
LEMMA ShownInit == Init => Shown
BY DEF Init, Shown, Waiting, ScreenStays, MenuRefreshed, SetsNoRefresh, Screens

\* Every step keeps them: a handler that sets STATE_NoMenuRefresh clears it when
\* it ends, and nothing in between draws.
LEMMA ShownKept ==
  ASSUME Shown, [Next]_vars
  PROVE  Shown'
<1> USE DEF Shown, Waiting, ScreenStays, MenuRefreshed, SetsNoRefresh, Screens
<1>1. CASE FirstDraw \/ PressMenu
  BY <1>1 DEF FirstDraw, PressMenu, Redraw, Wait
<1>2. CASE Timeout
  BY <1>2 DEF Timeout, Redraw
<1>3. CASE LeaveDark \/ Ignored
  <2>1. /\ where' = where /\ noMenuRefresh' = noMenuRefresh /\ drawn' = drawn
        /\ pc \notin {"boot", "nag"} /\ pc' \notin {"boot", "nag"}
    BY <1>3 DEF LeaveDark, Ignored
  <2>2. QED  BY <2>1
<1>4. CASE Tap
  <2>1. /\ where' = where /\ noMenuRefresh' = noMenuRefresh
        /\ pc \in {"poll", "event"}
        /\ \/ ~ noMenuRefresh /\ pc' = "nag" /\ drawn' = "nag"
           \/ pc' = "poll" /\ drawn' = drawn
    BY <1>4 DEF Tap
  <2>2. QED  BY <2>1
<1>5. CASE EndNag
  BY <1>5 DEF EndNag, Redraw
<1>6. ASSUME NEW s \in Screens, Open(s) PROVE Shown'
  BY <1>6 DEF Open, Wait
<1>7. CASE Edit
  BY <1>7 DEF Edit, Wait
<1>8. CASE Close
  BY <1>8 DEF Close, Wait, Redraw, ClearsNoRefresh
<1>9. CASE Restart
  BY <1>9 DEF Restart
<1>10. CASE Change \/ UNCHANGED vars
  BY <1>10 DEF Change, vars, locals, touch, fds, bat
<1>11. QED
  BY <1>1, <1>2, <1>3, <1>4, <1>5, <1>6, <1>7, <1>8, <1>9, <1>10 DEF Next

\* A screen that asked for no redraw stays on the terminal while its handler
\* waits.
THEOREM ScreensStay == Spec => []ScreenStays
<1>1. Shown => ScreenStays
  BY DEF Shown
<1>2. QED  BY <1>1, ShownInit, ShownKept, PTL DEF Spec

\* Back in the menus the idle redraw goes on, and the terminal shows the menu.
THEOREM MenuStaysFresh == Spec => []MenuRefreshed
<1>1. Shown => MenuRefreshed
  BY DEF Shown
<1>2. QED  BY <1>1, ShownInit, ShownKept, PTL DEF Spec
-----------------------------------------------------------------------------
\* The descriptors, the battery and what is drawn of it.
Counted ==
  /\ leaked \in Nat /\ Free >= 0
  /\ battery \in Batteries /\ status \in [percent : -1 .. 100, rate : Int]

\* What batStatus draws of any two states of the battery is a percentage, or -1,
\* and a number.
LEMMA DrawnStatus ==
  ASSUME NEW a \in Batteries, NEW b \in Batteries, NEW c \in Batteries, NEW m \in Int, NEW n \in Int
  PROVE  [percent |-> Percent(a, m), rate |-> DrawnRate(ChargeRate(b, c, n))]
           \in [percent : -1 .. 100, rate : Int]
<1>1. /\ a.capacity \in 0 .. 100 /\ b.current \in Int
      /\ c.status \in {"Charging", "Discharging", "Full"}
  BY MainLoopAssumption DEF BatteryRecord
<1>2. Percent(a, m) \in -1 .. 100
  BY <1>1 DEF Percent
<1>3. Signed(b.current, c.status) \in Int
  BY <1>1 DEF Signed
<1>4. Quotient(Signed(b.current, c.status), 1000) \in Int
  BY <1>3 DEF Quotient
<1>5. DrawnRate(ChargeRate(b, c, n)) \in Int
  BY <1>1, <1>4 DEF DrawnRate, ChargeRate
<1>6. QED  BY <1>2, <1>5

\* A redraw leaks at most the descriptors there are.
LEMMA RedrawCounted ==
  ASSUME Counted, BatStatus, UNCHANGED comOpen
  PROVE  Counted' /\ leaked <= leaked'
<1>1. PICK b \in {battery, battery'}, later \in {battery, battery'} :
        status' = [percent |-> Percent(battery, Free),
                   rate |-> DrawnRate(ChargeRate(b, later, Free - Leak(battery, Free)))]
  BY DEF BatStatus
<1>2. leaked' = leaked + Leak(battery, Free) /\ battery' \in Batteries
  BY DEF BatStatus
<1>3. Free \in Int /\ Leak(battery, Free) \in {0, 1} /\ Leak(battery, Free) <= Free
  BY MainLoopAssumption DEF Counted, Free, Leak
<1>4. Free' = Free - Leak(battery, Free)
  BY <1>2, <1>3, MainLoopAssumption DEF Counted, Free
<1>5. status' \in [percent : -1 .. 100, rate : Int]
  <2>1. battery \in Batteries /\ Free - Leak(battery, Free) \in Int
    BY <1>3 DEF Counted
  <2>2. QED  BY <1>1, <1>2, <1>3, <2>1, DrawnStatus
<1>6. QED  BY <1>2, <1>3, <1>4, <1>5 DEF Counted

\* Every step leaves descriptors in order.
LEMMA CountedKept ==
  ASSUME Counted, [Next]_vars
  PROVE  Counted'
<1>1. CASE FirstDraw \/ PressMenu \/ Close \/ EndNag
  BY <1>1, RedrawCounted DEF FirstDraw, PressMenu, Close, EndNag, Redraw
<1>2. CASE Timeout
  <2>1. UNCHANGED <<leaked, comOpen, bat>> \/ (BatStatus /\ UNCHANGED comOpen)
    BY <1>2 DEF Timeout, Redraw
  <2>2. QED  BY <2>1, RedrawCounted DEF bat, Counted, Free
<1>3. CASE LeaveDark \/ Ignored \/ Tap \/ Edit \/ UNCHANGED vars
  <2>1. UNCHANGED <<leaked, comOpen, battery, status>>
    BY <1>3 DEF LeaveDark, Ignored, Tap, Edit, vars, fds, bat
  <2>2. QED  BY <2>1 DEF Counted, Free
<1>4. ASSUME NEW s \in Screens, Open(s) PROVE Counted'
  <2>1. UNCHANGED <<leaked, battery, status>> /\ (UNCHANGED comOpen \/ ReopenCom)
    BY <1>4 DEF Open, bat
  <2>2. Free' >= 0
    BY <2>1, MainLoopAssumption DEF Counted, Free, ReopenCom
  <2>3. QED  BY <2>1, <2>2 DEF Counted
<1>5. CASE Restart
  <2>1. leaked' = 0 /\ comOpen' /\ battery' = battery /\ status' = Undrawn
    BY <1>5 DEF Restart
  <2>2. QED  BY <2>1, MainLoopAssumption DEF Counted, Free, Undrawn
<1>6. CASE Change
  <2>1. UNCHANGED <<leaked, comOpen, status>> /\ battery' \in Batteries
    BY <1>6 DEF Change, fds
  <2>2. QED  BY <2>1 DEF Counted, Free
<1>7. QED  BY <1>1, <1>2, <1>3, <1>4, <1>5, <1>6 DEF Next
-----------------------------------------------------------------------------
\* The count of timeouts reaches its end only in the dark, and the screen saver
\* has done nothing before the menu is drawn.
Counting ==
  /\ counter \in 0 .. OffAfter
  /\ pc # "dark" => counter < OffAfter
  /\ pc = "boot" => ~ NeedsLight

\* The screen saver's flags and the backlight agree, with what this rests on:
\* the descriptors and the count.
Lit == Counted /\ Counting /\ LitWithSpare

\* With a descriptor to spare the backlight obeys, and input leaves it full.
LEMMA AppliedWithSpare ==
  ASSUME Lit, leaked < Spare
  PROVE  /\ \A level : Applied(level) = level
         /\ Relit = "full"
<1>1. Free > 0
  BY MainLoopAssumption DEF Lit, Counted, Free
<1>2. QED  BY <1>1 DEF Lit, Applied, Relit, NeedsLight, LitWithSpare

\* The screen is lit when the menu starts.
LEMMA LitInit == Init => Lit
BY MainLoopAssumption
   DEF Init, Lit, Counted, Counting, LitWithSpare, NeedsLight, Free, Undrawn

\* Every step keeps the count, and the backlight with it.
LEMMA LitKept ==
  ASSUME Lit, [Next]_vars
  PROVE  Counting' /\ LitWithSpare'
<1> USE MainLoopAssumption
<1>1. CASE FirstDraw \/ PressMenu \/ Close
  <2>1. leaked \in Nat /\ leaked' \in Nat /\ leaked <= leaked'
    BY <1>1, RedrawCounted DEF Lit, FirstDraw, PressMenu, Close, Redraw, Counted
  <2>2. backlight' = Relit \/ (backlight' = backlight /\ ~ NeedsLight)
    BY <1>1 DEF FirstDraw, PressMenu, Close, Lit, Counting
  <2>3. counter' = 0 /\ pc' = "poll"
    BY <1>1 DEF FirstDraw, PressMenu, Close, Wait
  <2>4. ASSUME leaked' < Spare PROVE backlight' = "full"
    <3>1. leaked < Spare
      BY <2>1, <2>4
    <3>2. QED  BY <2>2, <3>1, AppliedWithSpare DEF Lit, LitWithSpare, NeedsLight
  <2>5. QED  BY <2>3, <2>4 DEF Counting, LitWithSpare
<1>2. CASE Timeout
  <2>1. leaked \in Nat /\ leaked' \in Nat /\ leaked <= leaked'
    <3>1. UNCHANGED leaked \/ (BatStatus /\ UNCHANGED comOpen)
      BY <1>2 DEF Timeout, Redraw
    <3>2. QED  BY <3>1, RedrawCounted DEF Lit, Counted
  <2>2. /\ pc = "poll" /\ counter < OffAfter /\ counter' = counter + 1
        /\ pc' = IF disabled' THEN "dark" ELSE "poll"
    BY <1>2 DEF Timeout, Lit, Counting
  <2>3. CASE counter' < DimAfter /\ UNCHANGED <<dimmed, disabled, backlight>>
    BY <2>1, <2>2, <2>3 DEF Lit, Counting, LitWithSpare
  <2>4. CASE /\ counter' \in DimAfter .. OffAfter - 1 /\ dimmed'
    BY <2>1, <2>2, <2>4 DEF Lit, Counting, LitWithSpare
  <2>5. CASE counter' = OffAfter /\ backlight' = Applied("off") /\ disabled'
    <3>1. leaked' < Spare => backlight' = "off"
      BY <2>1, <2>5, AppliedWithSpare
    <3>2. QED  BY <2>2, <2>5, <3>1 DEF Lit, Counting, LitWithSpare
  <2>6. QED  BY <1>2, <2>3, <2>4, <2>5 DEF Timeout
<1>3. CASE LeaveDark
  <2>1. counter' = 0 /\ pc' = "event" /\ leaked' = leaked /\ backlight' = Applied("full")
    BY <1>3 DEF LeaveDark, fds
  <2>2. QED  BY <2>1, AppliedWithSpare DEF Counting, LitWithSpare
<1>4. CASE Ignored \/ EndNag \/ Change \/ UNCHANGED vars
  <2>1. UNCHANGED locals /\ backlight' = backlight
    BY <1>4 DEF Ignored, EndNag, Change, vars
  <2>2. leaked \in Nat /\ leaked' \in Nat /\ leaked <= leaked'
    <3>1. UNCHANGED leaked \/ (BatStatus /\ UNCHANGED comOpen)
      BY <1>4 DEF Ignored, EndNag, Redraw, Change, vars, fds
    <3>2. QED  BY <3>1, RedrawCounted DEF Lit, Counted
  <2>3. /\ pc # "dark" \/ pc' = "dark"
        /\ pc # "dark" /\ pc' = "dark" => counter < OffAfter
        /\ pc' = "boot" => pc = "boot"
    BY <1>4 DEF Ignored, EndNag, Change, vars, Lit, Counting
  <2>4. QED  BY <2>1, <2>2, <2>3 DEF Lit, Counting, LitWithSpare, locals, NeedsLight
<1>5. CASE Tap
  <2>1. /\ leaked' = leaked /\ backlight' = Relit /\ pc # "dark" /\ pc' \notin {"dark", "boot"}
        /\ counter' = 0 \/ counter' = counter
    BY <1>5 DEF Tap, fds, locals
  <2>2. QED  BY <2>1, AppliedWithSpare DEF Lit, Counting, LitWithSpare
<1>6. ASSUME NEW s \in Screens, Open(s) PROVE Counting' /\ LitWithSpare'
  <2>1. /\ leaked' = leaked /\ backlight' \in {Relit, Applied("full")}
        /\ counter' = 0 /\ pc' = "poll"
    BY <1>6 DEF Open, Wait
  <2>2. QED  BY <2>1, AppliedWithSpare DEF Counting, LitWithSpare
<1>7. CASE Edit
  <2>1. /\ leaked' = leaked /\ backlight' = Applied("full")
        /\ counter' = 0 /\ pc' = "poll"
    BY <1>7 DEF Edit, Wait, fds
  <2>2. QED  BY <2>1, AppliedWithSpare DEF Counting, LitWithSpare
<1>8. CASE Restart
  <2>1. /\ backlight' = "full" /\ counter' = 0 /\ pc' = "boot"
        /\ ~ dimmed' /\ ~ disabled'
    BY <1>8 DEF Restart
  <2>2. QED  BY <2>1 DEF Counting, LitWithSpare, NeedsLight
<1>9. QED
  BY <1>1, <1>2, <1>3, <1>4, <1>5, <1>6, <1>7, <1>8 DEF Next

\* Until the redraws have used up the descriptors, the backlight is what the
\* screen saver's flags say it is.
THEOREM LitWhileSpare == Spec => []LitWithSpare
<1>1. Lit /\ [Next]_vars => Lit'
  BY CountedKept, LitKept DEF Lit
<1>2. Lit => LitWithSpare
  BY DEF Lit
<1>3. QED  BY <1>1, <1>2, LitInit, PTL DEF Spec
-----------------------------------------------------------------------------
\* Division by 1000 rounds towards zero, so it keeps the sign; and so does the
\* threshold of what is drawn.
LEMMA QuotientSign ==
  ASSUME NEW n \in Int
  PROVE  /\ Quotient(n, 1000) \in Int
         /\ n <= 0 => Quotient(n, 1000) <= 0
         /\ n >= 0 => Quotient(n, 1000) >= 0
BY DEF Quotient

LEMMA DrawnSign ==
  ASSUME NEW n \in Int
  PROVE  (n <= 0 => DrawnRate(n) <= 0) /\ (n >= 0 => DrawnRate(n) >= 0)
BY DEF DrawnRate

\* The rate drawn when the current is read from one state of the battery and the
\* status from another: its sign is right if both agree on what the battery does.
LEMMA RateSign ==
  ASSUME NEW b \in Batteries, NEW later \in Batteries, NEW n \in Nat \ {0}
  PROVE  /\ Discharges(b) /\ Discharges(later) => DrawnRate(ChargeRate(b, later, n)) <= 0
         /\ Charges(b) /\ Charges(later) => DrawnRate(ChargeRate(b, later, n)) >= 0
<1>1. b.current \in Int
  BY MainLoopAssumption DEF BatteryRecord
<1>2. Signed(b.current, later.status) \in Int
  BY <1>1 DEF Signed
<1>3. b.readable = Files /\ later.readable = Files =>
        ChargeRate(b, later, n) = Quotient(Signed(b.current, later.status), 1000)
  BY DEF ChargeRate, Files
<1>4. ASSUME Discharges(b), Discharges(later)
      PROVE  DrawnRate(ChargeRate(b, later, n)) <= 0
  <2>1. Signed(b.current, later.status) <= 0
    BY <1>1, <1>4 DEF Signed, Discharges
  <2>2. QED  BY <1>2, <1>3, <1>4, <2>1, QuotientSign, DrawnSign DEF Discharges
<1>5. ASSUME Charges(b), Charges(later)
      PROVE  DrawnRate(ChargeRate(b, later, n)) >= 0
  <2>1. Signed(b.current, later.status) >= 0
    BY <1>1, <1>5 DEF Signed, Charges
  <2>2. QED  BY <1>2, <1>3, <1>5, <2>1, QuotientSign, DrawnSign DEF Charges
<1>6. QED  BY <1>4, <1>5

\* A redraw, which may read the battery before and after a change.
LEMMA RedrawTrue ==
  ASSUME Counted, BatStatus, UNCHANGED comOpen
  PROVE  StatusStep
<1> SUFFICES ASSUME leaked' > leaked, Free' > 0
    PROVE  /\ status'.percent = battery.capacity
           /\ Discharges(battery) /\ Discharges(battery') => status'.rate <= 0
           /\ Charges(battery) /\ Charges(battery') => status'.rate >= 0
  BY DEF StatusStep
<1>1. PICK b \in {battery, battery'}, later \in {battery, battery'} :
        status' = [percent |-> Percent(battery, Free),
                   rate |-> DrawnRate(ChargeRate(b, later, Free - Leak(battery, Free)))]
  BY DEF BatStatus
<1>2. leaked' = leaked + Leak(battery, Free) /\ battery \in Batteries /\ battery' \in Batteries
  BY DEF BatStatus, Counted
<1>3. Free > 0 /\ "capacity" \in battery.readable /\ Leak(battery, Free) = 1
  BY <1>2 DEF Counted, Leak
<1>4. Free' = Free - Leak(battery, Free) /\ Free' \in Nat \ {0}
  BY <1>2, <1>3, MainLoopAssumption DEF Counted, Free
<1>5. status'.percent = battery.capacity
  BY <1>1, <1>3 DEF Percent
<1>6. /\ Discharges(battery) /\ Discharges(battery') => status'.rate <= 0
      /\ Charges(battery) /\ Charges(battery') => status'.rate >= 0
  <2>1. status'.rate = DrawnRate(ChargeRate(b, later, Free'))
    BY <1>1, <1>4
  <2>2. /\ Discharges(b) /\ Discharges(later) => status'.rate <= 0
        /\ Charges(b) /\ Charges(later) => status'.rate >= 0
    BY <1>2, <1>4, <2>1, RateSign
  <2>3. QED  BY <2>2
<1>7. QED  BY <1>5, <1>6

\* StatusTrue: for every battery and every number of descriptors, what batStatus
\* (menu.c) draws has the charge and the sign of the battery, although current
\* and status are read at two moments (battery.c).
THEOREM StatusTells == Spec => StatusTrue
<1>1. Counted /\ [Next]_vars => [StatusStep]_vars
  <2> SUFFICES ASSUME Counted, Next PROVE StatusStep
    OBVIOUS
  <2>1. CASE FirstDraw \/ PressMenu \/ Close \/ EndNag
    BY <2>1, RedrawTrue DEF FirstDraw, PressMenu, Close, EndNag, Redraw
  <2>2. CASE Timeout
    <3>1. UNCHANGED leaked \/ (BatStatus /\ UNCHANGED comOpen)
      BY <2>2 DEF Timeout, Redraw
    <3>2. QED  BY <3>1, RedrawTrue DEF Counted, StatusStep
  <2>3. CASE LeaveDark \/ Ignored \/ Tap \/ Edit \/ Change \/ \E s \in Screens : Open(s)
    <3>1. UNCHANGED leaked
      BY <2>3 DEF LeaveDark, Ignored, Tap, Edit, Change, Open, fds
    <3>2. QED  BY <3>1 DEF Counted, StatusStep
  <2>4. CASE Restart
    <3>1. leaked' = 0
      BY <2>4 DEF Restart
    <3>2. QED  BY <3>1 DEF Counted, StatusStep
  <2>5. QED  BY <2>1, <2>2, <2>3, <2>4 DEF Next
<1>2. Lit /\ [Next]_vars => Lit'
  BY CountedKept, LitKept DEF Lit
<1>3. Lit => Counted
  BY DEF Lit
<1>4. QED  BY <1>1, <1>2, <1>3, LitInit, PTL DEF Spec, StatusTrue
-----------------------------------------------------------------------------
\* What is neither counted nor Boolean.
Words ==
  /\ pc \in {"boot", "poll", "dark", "event", "nag"}
  /\ where \in Screens \cup {"menu"}
  /\ drawn \in Screens \cup {"menu", "nag", "nothing"}
  /\ backlight \in {"full", "dim", "off"}
  /\ touchCounter \in 0 .. NagTouches - 1

\* The Boolean variables, which are proved apart.
Flags ==
  /\ noMenuRefresh \in BOOLEAN /\ dimmed \in BOOLEAN /\ disabled \in BOOLEAN
  /\ currentlyTouched \in BOOLEAN /\ comOpen \in BOOLEAN

\* A tap is counted modulo NagTouches.
LEMMA TouchesBounded ==
  ASSUME NEW n \in Nat
  PROVE  NextTouches(n) \in 0 .. NagTouches - 1
BY MainLoopAssumption DEF NextTouches

\* Every step keeps the words.
LEMMA WordsKept ==
  ASSUME Words, [Next]_vars
  PROVE  Words'
<1>1. CASE Tap
  <2>1. /\ pc' \in {"nag", "poll"} /\ where' = where
        /\ drawn' \in {"nag", drawn} /\ backlight' \in {"full", backlight}
        /\ touchCounter' \in {touchCounter, NextTouches(touchCounter), NextTouches(0)}
    BY <1>1 DEF Tap, Relit, Applied
  <2>2. touchCounter' \in 0 .. NagTouches - 1
    BY <2>1, TouchesBounded, MainLoopAssumption DEF Words
  <2>3. QED  BY <2>1, <2>2 DEF Words
<1>2. CASE Restart
  BY <1>2, MainLoopAssumption DEF Restart, Words
<1>3. CASE FirstDraw \/ PressMenu \/ EndNag \/ Edit \/ Close
  BY <1>3 DEF FirstDraw, PressMenu, EndNag, Edit, Close, Redraw, Wait, Relit, Applied,
              Words, Screens, touch
<1>4. CASE Timeout
  BY <1>4 DEF Timeout, Redraw, Applied, Words, touch
<1>5. ASSUME NEW s \in Screens, Open(s) PROVE Words'
  BY <1>5 DEF Open, Wait, Relit, Applied, Words, touch
<1>6. CASE LeaveDark
  BY <1>6 DEF LeaveDark, Applied, Words, touch
<1>7. CASE Ignored \/ Change \/ UNCHANGED vars
  <2>1. /\ pc' \in {pc, "dark", "poll"}
        /\ UNCHANGED <<where, drawn, backlight, touchCounter>>
    BY <1>7 DEF Ignored, Change, vars, touch
  <2>2. QED  BY <2>1 DEF Words
<1>8. QED
  BY <1>1, <1>2, <1>3, <1>4, <1>5, <1>6, <1>7 DEF Next

\* Every step keeps the flags Boolean.
LEMMA FlagsKept ==
  ASSUME Flags, [Next]_vars
  PROVE  Flags'
<1> USE DEF Flags
<1>1. CASE FirstDraw \/ PressMenu \/ EndNag \/ Edit
  BY <1>1, Zenon DEF FirstDraw, PressMenu, EndNag, Edit, Wait, touch, fds, locals
<1>2. CASE Timeout
  <2>1. /\ dimmed' \in {dimmed, TRUE, FALSE} /\ disabled' \in {disabled, TRUE}
        /\ UNCHANGED <<noMenuRefresh, currentlyTouched, comOpen>>
    BY <1>2, Zenon DEF Timeout, touch
  <2>2. QED  BY <2>1, Zenon
<1>3. CASE LeaveDark \/ Ignored \/ Change \/ UNCHANGED vars
  BY <1>3, Zenon DEF LeaveDark, Ignored, Change, vars, touch, fds, locals
<1>4. CASE Tap
  BY <1>4, Zenon DEF Tap, fds, locals
<1>5. ASSUME NEW s \in Screens, Open(s) PROVE Flags'
  BY <1>5, Zenon DEF Open, ReopenCom, Wait, touch
<1>6. CASE Close \/ Restart
  BY <1>6, Zenon DEF Close, Restart, Wait, touch
<1>7. QED
  BY <1>1, <1>2, <1>3, <1>4, <1>5, <1>6, Zenon DEF Next

\* The types of the variables, for every number of descriptors: redraws stop
\* leaking when none is left, and the count of taps starts anew in time.
THEOREM TypeCorrect == Spec => []TypeOK
<1> DEFINE Typed == Words /\ Flags /\ Lit
<1>1. Init => Typed
  <2>1. Init => Flags
    BY Zenon DEF Init, Flags
  <2>2. Init => Words
    BY MainLoopAssumption DEF Init, Words
  <2>3. QED  BY <2>1, <2>2, LitInit
<1>2. Typed /\ [Next]_vars => Typed'
  <2>1. Lit /\ [Next]_vars => Lit'
    BY CountedKept, LitKept DEF Lit
  <2>2. QED  BY <2>1, WordsKept, FlagsKept
<1>3. Typed => TypeOK
  <2>1. Lit => /\ counter \in 0 .. OffAfter /\ leaked \in 0 .. Spare + 1 /\ Free >= 0
               /\ battery \in Batteries /\ status \in [percent : -1 .. 100, rate : Int]
    BY MainLoopAssumption DEF Lit, Counted, Counting, Free
  <2>2. QED  BY <2>1 DEF Words, Flags, TypeOK
<1>4. QED  BY <1>1, <1>2, <1>3, PTL DEF Spec
-----------------------------------------------------------------------------
\* While INPUT_Wait polls with a timeout the screen saver has not gone dark, and
\* while the message about touch input is shown it has done nothing.
Awake ==
  /\ pc \in {"poll", "nag"} => ~ disabled
  /\ pc = "boot" => ~ NeedsLight /\ counter = 0

\* Every step keeps the screen saver awake.
LEMMA AwakeKept ==
  ASSUME Flags, Awake, [Next]_vars
  PROVE  Awake'
<1> USE DEF Awake, NeedsLight
<1>1. CASE FirstDraw \/ PressMenu \/ Edit \/ Close \/ \E s \in Screens : Open(s)
  <2>1. pc' = "poll" /\ disabled' = FALSE
    BY <1>1 DEF FirstDraw, PressMenu, Edit, Close, Open, Wait
  <2>2. QED  BY <2>1
<1>2. CASE Timeout
  BY <1>2 DEF Timeout
<1>3. CASE LeaveDark
  BY <1>3 DEF LeaveDark
<1>4. CASE Ignored
  <2>1. pc' = (IF disabled THEN "dark" ELSE "poll") /\ disabled' = disabled
    BY <1>4 DEF Ignored, locals
  <2>2. QED  BY <2>1
<1>5. CASE Tap
  <2>1. pc' \in {"poll", "nag"} /\ (NeedsLight => disabled' = FALSE) /\ (~ NeedsLight => disabled' = disabled)
    BY <1>5 DEF Tap, locals
  <2>2. QED  BY <2>1
<1>6. CASE EndNag
  BY <1>6 DEF EndNag, locals
<1>7. CASE Restart
  BY <1>7 DEF Restart
<1>8. CASE Change \/ UNCHANGED vars
  BY <1>8 DEF Change, vars, locals
<1>9. QED
  BY <1>1, <1>2, <1>3, <1>4, <1>5, <1>6, <1>7, <1>8 DEF Next

\* A step that resets the flags and lights the screen again if they were set is
\* a press.
LEMMA ResetPresses ==
  ASSUME pc # "dark", pc' = "poll", Wait, backlight' \in {Relit, Applied("full")}
  PROVE  Screen!Next
<1>1. Screen!Press
  BY DEF Wait, Relit, Applied, NeedsLight, Screen!Press, Screen!Reset, Screen!Set
<1>2. QED  BY <1>1 DEF Screen!Next

\* Every step is a step of ScreenSaver or leaves the screen saver alone.
LEMMA ScreenStep ==
  ASSUME Flags, Awake, [Next]_vars
  PROVE  [Screen!Next]_(Screen!vars)
<1>1. CASE PressMenu \/ Edit \/ Close \/ \E s \in Screens : Open(s)
  <2>1. pc # "dark" /\ Wait /\ pc' = "poll" /\ backlight' \in {Relit, Applied("full")}
    BY <1>1 DEF PressMenu, Edit, Close, Open, Wait
  <2>2. QED  BY <2>1, ResetPresses
<1>2. CASE FirstDraw
  <2>1. /\ pc = "boot" /\ pc' = "poll" /\ backlight' = backlight
        /\ counter' = 0 /\ dimmed' = FALSE /\ disabled' = FALSE
    BY <1>2 DEF FirstDraw, Wait
  <2>2. counter = 0 /\ dimmed = FALSE /\ disabled = FALSE
    BY <2>1 DEF Awake, Flags, NeedsLight
  <2>3. QED  BY <2>1, <2>2 DEF Screen!vars
<1>3. CASE Timeout
  <2>1. /\ pc = "poll" /\ ~ disabled /\ counter' = counter + 1
        /\ pc' = IF disabled' THEN "dark" ELSE "poll"
    BY <1>3 DEF Timeout, Awake
  <2>2. disabled' \in BOOLEAN
    BY FlagsKept DEF Flags
  <2>3. Screen!Tick
    BY <1>3, <2>1, <2>2 DEF Timeout, Applied, Screen!Tick, Screen!Set
  <2>4. QED  BY <2>3 DEF Screen!Next
<1>4. CASE LeaveDark
  <2>1. Screen!Leave
    BY <1>4 DEF LeaveDark, Applied, Screen!Leave, Screen!Set
  <2>2. QED  BY <2>1 DEF Screen!Next
<1>5. CASE Ignored
  <2>1. /\ pc \in {"poll", "event"} /\ pc' = IF disabled THEN "dark" ELSE "poll"
        /\ UNCHANGED <<locals, backlight>>
    BY <1>5 DEF Ignored
  <2>2. CASE disabled
    BY <2>1, <2>2 DEF Screen!Next, Screen!Back, locals
  <2>3. CASE ~ disabled
    BY <2>1, <2>3 DEF Screen!vars, locals
  <2>4. QED  BY <2>2, <2>3
<1>6. CASE Tap
  <2>1. pc # "dark" /\ pc' # "dark" /\ backlight' = Relit
    BY <1>6 DEF Tap
  <2>2. CASE NeedsLight
    <3>1. Screen!Press
      BY <1>6, <2>1, <2>2
         DEF Tap, Relit, Applied, NeedsLight, Screen!Press, Screen!Reset, Screen!Set
    <3>2. QED  BY <3>1 DEF Screen!Next
  <2>3. CASE ~ NeedsLight
    BY <1>6, <2>1, <2>3 DEF Tap, Relit, Screen!vars, locals
  <2>4. QED  BY <2>2, <2>3
<1>7. CASE EndNag
  BY <1>7 DEF EndNag, Screen!vars, locals
<1>8. CASE Restart
  <2>1. Screen!Restart
    BY <1>8 DEF Restart, Screen!Restart, Screen!Reset
  <2>2. QED  BY <2>1 DEF Screen!Next
<1>9. CASE Change \/ UNCHANGED vars
  BY <1>9 DEF Change, vars, Screen!vars, locals
<1>10. QED
  BY <1>1, <1>2, <1>3, <1>4, <1>5, <1>6, <1>7, <1>8, <1>9 DEF Next

\* ScreenSaverSpec: for every pair of times, every number of descriptors and
\* every battery, the loop of INPUT_Wait (input.c) under STATE_Run and the
\* handlers' own calls of it implement ScreenSaver.
THEOREM ScreenSaved == Spec => ScreenSaverSpec
<1>1. Init => Screen!Init
  BY DEF Init, Screen!Init
<1>2. Init => Flags
  BY Zenon DEF Init, Flags
<1>3. Init => Awake
  BY DEF Init, Awake, NeedsLight
<1>4. Flags /\ [Next]_vars => Flags'
  BY FlagsKept
<1>5. Flags /\ Awake /\ [Next]_vars => Awake'
  BY AwakeKept
<1>6. Flags /\ Awake /\ [Next]_vars => [Screen!Next]_(Screen!vars)
  BY ScreenStep
<1>7. QED
  BY <1>1, <1>2, <1>3, <1>4, <1>5, <1>6, PTL DEF Spec, ScreenSaverSpec, Screen!Spec
=============================================================================
