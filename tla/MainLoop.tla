------------------------------ MODULE MainLoop ------------------------------
(***************************************************************************)
(* The main loop and the screens that wait for input themselves: STATE_Run *)
(* of state.c, the handlers of featuresMenu.c, deviceInfo.c, settings.c    *)
(* and update.c, the idle redraw of INPUT_Wait, and the descriptors that   *)
(* every redraw leaves open (BAT_GetPercent of battery.c).                 *)
(*                                                                         *)
(* INPUT_Wait redraws the menu when nothing happens for 5 s.  A handler    *)
(* that shows a screen of its own calls INPUT_Wait again, below STATE_Run, *)
(* and has to keep that redraw away with STATE_NoMenuRefresh.  Lighting    *)
(* and dimming the screen opens a file, so it needs a free descriptor.     *)
(*                                                                         *)
(* Abstracted: which menu is shown (Menu.tla); which device an event is    *)
(* from and the order of reads (Input.tla), so an input is a press, a tap  *)
(* or something ignored; the levels of dimming, all of them "dim" (the     *)
(* last may be no light at all, see Input.tla); what the scripts and the   *)
(* handshake do; the screen entries of the debugging menu (Display.tla).   *)
(* The battery and its driver are an environment that changes at any time. *)
(***************************************************************************)
EXTENDS Battery

CONSTANTS
  Spare,       \* descriptors that are free when the menu is first drawn
  DimAfter,    \* timeouts before the first dimming, 10 in the code
  OffAfter,    \* timeouts before the backlight is off, 15 in the code
  NagTouches,  \* taps before the message about touch input, 10 in the code
  Batteries    \* what the files of the battery may say

ASSUME MainLoopAssumption ==
  /\ Spare \in Nat /\ DimAfter \in Nat \ {0}
  /\ OffAfter \in Nat /\ DimAfter < OffAfter
  /\ NagTouches \in Nat \ {0, 1}
  /\ Batteries # {} /\ Batteries \subseteq BatteryRecord

VARIABLES
  pc,        \* "boot", or where INPUT_Wait is: "poll", "dark", "event", "nag"
  where,     \* who called it: "menu" (STATE_Run) or a screen's handler
  drawn,     \* what is on the terminal
  noMenuRefresh,               \* STATE_NoMenuRefresh
  counter, dimmed, disabled,   \* locals of INPUT_Wait
  currentlyTouched, touchCounter,   \* statics of input.c
  backlight,                   \* "full", "dim" or "off"
  leaked,    \* descriptors that redraws have left open
  comOpen,   \* com.c has its descriptor
  battery,   \* the battery
  status     \* the percentage and the rate drawn in the corner of the menu

locals == <<counter, dimmed, disabled>>
fds == <<leaked, comOpen>>
touch == <<currentlyTouched, touchCounter>>
bat == <<battery, status>>
vars == <<pc, where, drawn, noMenuRefresh, locals, touch, backlight, fds, bat>>

\* toggle's message, DEV_DisplayDeviceInfo, configureDisplay, updateSystem.
Screens == {"features", "info", "display", "update"}
-----------------------------------------------------------------------------
\* The descriptors left to the process.
Free == Spare - leaked + (IF comOpen THEN 0 ELSE 1)

\* SCREEN_ApplyBrightness gives up if it cannot open the file.
Applied(level) == IF Free > 0 THEN level ELSE backlight

\* batStatus: the battery may change before the current or the status is read.
BatStatus ==
  LET leak == Leak(battery, Free) IN
    /\ leaked' = leaked + leak
    /\ battery' \in Batteries
    /\ \E b, later \in {battery, battery'} :
         /\ b = battery' => later = battery'
         /\ status' = [percent |-> Percent(battery, Free),
                       rate |-> DrawnRate(ChargeRate(b, later, Free - leak))]

\* MENU_Update.
Redraw == drawn' = "menu" /\ BatStatus

\* A new call of INPUT_Wait.
Wait ==
  /\ pc' = "poll"
  /\ counter' = 0 /\ dimmed' = FALSE /\ disabled' = FALSE

\* A press or a tap resets the screen saver.
NeedsLight_OnlyDark == disabled
NeedsLight == dimmed \/ disabled
Relit == IF NeedsLight THEN Applied("full") ELSE backlight

\* The handlers that set STATE_NoMenuRefresh, and those that clear it again
\* (toggle through settingsMenuSetup).
SetsNoRefresh_NotInfo == {"features", "display"}
SetsNoRefresh == {"features", "info", "display"}
ClearsNoRefresh_NotFeatures == {"info", "display"}
ClearsNoRefresh == {"features", "info", "display"}

NextTouches_NotReset(n) == n + 1
NextTouches(n) == (n + 1) % NagTouches
-----------------------------------------------------------------------------
\* Nothing is drawn before the first MENU_Update.
Undrawn == [percent |-> -1, rate |-> 0]

\* main, when everything is set up.
Init ==
  /\ pc = "boot" /\ where = "menu" /\ drawn = "nothing"
  /\ noMenuRefresh = FALSE
  /\ counter = 0 /\ dimmed = FALSE /\ disabled = FALSE
  /\ currentlyTouched = FALSE /\ touchCounter = 0
  /\ backlight = "full"
  /\ leaked = 0 /\ comOpen = TRUE
  /\ battery \in Batteries /\ status = Undrawn

\* main: the first MENU_Update, and STATE_Run.
FirstDraw ==
  /\ pc = "boot"
  /\ Redraw
  /\ Wait
  /\ UNCHANGED <<where, noMenuRefresh, touch, backlight, comOpen>>

\* INPUT_Wait: 5 s without an event.
Timeout ==
  /\ pc = "poll"
  /\ counter' = counter + 1
  /\ \/ /\ counter' < DimAfter
        /\ UNCHANGED <<dimmed, disabled, backlight>>
     \/ /\ counter' \in DimAfter .. OffAfter - 1
        /\ backlight' = Applied("dim") /\ dimmed' = TRUE
        /\ UNCHANGED disabled
     \/ /\ counter' = OffAfter
        /\ backlight' = Applied("off") /\ dimmed' = FALSE /\ disabled' = TRUE
  /\ IF noMenuRefresh THEN UNCHANGED <<drawn, leaked, bat>> ELSE Redraw
  /\ pc' = IF disabled' THEN "dark" ELSE "poll"
  /\ UNCHANGED <<where, noMenuRefresh, touch, comOpen>>

\* INPUT_Wait: the wait in the dark ends, with an event to read.
LeaveDark ==
  /\ pc = "dark"
  /\ counter' = 0
  /\ backlight' = Applied("full")
  /\ pc' = "event"
  /\ UNCHANGED <<where, drawn, noMenuRefresh, dimmed, disabled, touch, fds, bat>>

\* INPUT_Wait: an event no branch acts on, or the finger is lifted.
Ignored ==
  /\ pc \in {"poll", "event"}
  /\ currentlyTouched' \in {currentlyTouched, FALSE}
  /\ pc' = IF disabled THEN "dark" ELSE "poll"
  /\ UNCHANGED <<where, drawn, noMenuRefresh, locals, touchCounter, backlight, fds, bat>>

\* INPUT_Wait: the panel is touched; it counts if it was not touched before,
\* from 0 after a pause of 30 s.
Tap ==
  /\ pc \in {"poll", "event"}
  /\ backlight' = Relit
  /\ IF NeedsLight THEN counter' = 0 /\ dimmed' = FALSE /\ disabled' = FALSE
                   ELSE UNCHANGED locals
  /\ currentlyTouched' = TRUE
  /\ touchCounter' \in IF currentlyTouched THEN {touchCounter}
                       ELSE {NextTouches(touchCounter), NextTouches(0)}
  /\ IF touchCounter' = 0 /\ touchCounter # 0 /\ ~ noMenuRefresh
       THEN pc' = "nag" /\ drawn' = "nag"
       ELSE pc' = "poll" /\ UNCHANGED drawn
  /\ UNCHANGED <<where, noMenuRefresh, fds, bat>>

\* INPUT_Wait: the message about touch input has been shown for 5 s.
EndNag ==
  /\ pc = "nag"
  /\ Redraw
  /\ pc' = "poll"
  /\ UNCHANGED <<where, noMenuRefresh, locals, touch, backlight, comOpen>>

\* A press that stays in the menus: INPUT_DoAction, MENU_Update.
PressMenu ==
  /\ pc \in {"poll", "event"} /\ where = "menu"
  /\ backlight' = Relit
  /\ Redraw
  /\ Wait
  /\ UNCHANGED <<where, noMenuRefresh, touch, comOpen>>

\* FEAT_Apply closes the channel's descriptor, and opens it again if there is
\* a channel and a descriptor for it.
ReopenCom ==
  /\ comOpen' \in BOOLEAN
  /\ comOpen' => comOpen \/ Free > 0

\* A press that opens a screen.
Open(s) ==
  /\ pc \in {"poll", "event"} /\ where = "menu"
  /\ backlight' = IF s = "display" THEN Applied("full") ELSE Relit
  /\ where' = s /\ drawn' = s
  /\ noMenuRefresh' = IF s \in SetsNoRefresh THEN TRUE ELSE noMenuRefresh
  /\ IF s = "features" THEN ReopenCom ELSE UNCHANGED comOpen
  /\ Wait
  /\ UNCHANGED <<touch, leaked, bat>>

\* A press in the editor of the brightness: it draws itself again.
Edit ==
  /\ pc \in {"poll", "event"} /\ where = "display"
  /\ backlight' = Applied("full")
  /\ drawn' = "display"
  /\ Wait
  /\ UNCHANGED <<where, noMenuRefresh, touch, fds, bat>>

\* A press that ends a screen; STATE_Run draws the menu.
Close ==
  /\ pc \in {"poll", "event"} /\ where \in Screens
  /\ backlight' = Relit
  /\ noMenuRefresh' = IF where \in ClearsNoRefresh THEN FALSE ELSE noMenuRefresh
  /\ where' = "menu"
  /\ Redraw
  /\ Wait
  /\ UNCHANGED <<touch, comOpen>>

\* The program ends at an entry of the debugging menu and is started again:
\* CONF_Init lights the screen.
Restart ==
  /\ pc \in {"poll", "event"} /\ where = "menu"
  /\ pc' = "boot" /\ drawn' = "nothing" /\ backlight' = "full"
  /\ noMenuRefresh' = FALSE /\ currentlyTouched' = FALSE /\ touchCounter' = 0
  /\ counter' = 0 /\ dimmed' = FALSE /\ disabled' = FALSE
  /\ leaked' = 0 /\ comOpen' = TRUE
  /\ status' = Undrawn
  /\ UNCHANGED <<where, battery>>

\* The battery changes.
Change ==
  /\ battery' \in Batteries
  /\ UNCHANGED <<pc, where, drawn, noMenuRefresh, locals, touch, backlight, fds, status>>

Next ==
  \/ FirstDraw \/ Timeout \/ LeaveDark \/ Ignored \/ Tap \/ EndNag \/ Change
  \/ PressMenu \/ (\E s \in Screens : Open(s)) \/ Edit \/ Close \/ Restart

Spec == Init /\ [][Next]_vars
-----------------------------------------------------------------------------
\* The types of the variables.
TypeOK ==
  /\ pc \in {"boot", "poll", "dark", "event", "nag"}
  /\ where \in Screens \cup {"menu"}
  /\ drawn \in Screens \cup {"menu", "nag", "nothing"}
  /\ noMenuRefresh \in BOOLEAN
  /\ counter \in 0 .. OffAfter
  /\ dimmed \in BOOLEAN /\ disabled \in BOOLEAN
  /\ currentlyTouched \in BOOLEAN /\ touchCounter \in 0 .. NagTouches - 1
  /\ backlight \in {"full", "dim", "off"}
  /\ leaked \in 0 .. Spare + 1 /\ comOpen \in BOOLEAN /\ Free >= 0
  /\ battery \in Batteries /\ status \in [percent : -1 .. 100, rate : Int]

\* A screen that asked for no redraw stays on the terminal for as long as its
\* handler waits, through timeouts, the dark and any number of taps.
ScreenStays == where \in {"features", "info", "display"} => drawn = where

\* Back in the menus, whatever screen the user comes from, the idle redraw (the
\* only thing that keeps the battery status current) goes on, and the terminal
\* shows the menu or the message about touch input.
MenuRefreshed ==
  where = "menu" =>
    /\ ~ noMenuRefresh
    /\ drawn = CASE pc = "nag"  -> "nag"
                 [] pc = "boot" -> "nothing"
                 [] OTHER       -> "menu"

\* Until the redraws have used up the descriptors, the backlight is what the
\* screen saver's flags say it is, in every screen and after each of them.
LitWithSpare ==
  leaked < Spare =>
    /\ ~ dimmed /\ ~ disabled => backlight = "full"
    /\ pc = "dark" /\ counter = OffAfter => backlight = "off"

\* The screen saver as its user sees it.
Screen == INSTANCE ScreenSaver WITH
  able <- Free > 0, failed <- 0, dark <- pc = "dark", light <- backlight

\* The screen saver is the same below every screen: opening, editing and closing
\* one, the message about touch input and a restart count as presses or not at
\* all, and each lights what it resets, as long as there is a descriptor for it.
ScreenSaverSpec == Screen!Spec

\* What a battery does, as far as its driver says: one whose current is negative
\* under "Charging" does neither.
Discharges(b) == b.readable = Files /\ b.status = "Discharging"
Charges(b) == b.readable = Files /\ b.status = "Charging" /\ b.current >= 0

\* A redraw that still has descriptors for all three files shows a charge that
\* the battery had, and never turns a discharge into a charge or a charge into a
\* discharge unless the battery went from one to the other meanwhile.
StatusStep ==
  leaked' > leaked /\ Free' > 0 =>
    /\ status'.percent = battery.capacity
    /\ Discharges(battery) /\ Discharges(battery') => status'.rate <= 0
    /\ Charges(battery) /\ Charges(battery') => status'.rate >= 0
StatusTrue == [][StatusStep]_vars

\* "Wake screen on tap" (README.md:66): after input that reset the screen
\* saver, the screen is lit.
WokenLit == ~ dimmed /\ ~ disabled => backlight = "full"
=============================================================================
