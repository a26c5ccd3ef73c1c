------------------------------- MODULE Input -------------------------------
(***************************************************************************)
(* Waiting for input and the screen saver: INPUT_Init and INPUT_Wait of    *)
(* input.c, with the backlight of screen.c.                                *)
(*                                                                         *)
(* INPUT_Init opens the buttons and the panel, and then the keyboards in   *)
(* the order of the directory, as many as its table holds.  An iteration   *)
(* of INPUT_Wait polls every device for up to 5 s, reads ONE event from    *)
(* each ready one in the order power, volume, touch, keyboards, and        *)
(* returns at the first press.  Fifteen timeouts in a row turn the         *)
(* backlight off; then the loop waits for a button or the panel alone.     *)
(* Events arrive at any time, between two reads of one iteration too.      *)
(*                                                                         *)
(* Abstracted: a device delivers packets of symbolic events, "other" being *)
(* every event no branch of the code tests (releases, EV_SYN, positions);  *)
(* the file of the backlight opens (that it may not is in MainLoop.tla,    *)
(* with the redrawing and the count of taps).                              *)
(***************************************************************************)
EXTENDS Integers, Sequences, FiniteSetsExt

CONSTANTS
  Kbds,        \* names for the keyboards of /dev/input, in its order
  MaxKbds,     \* MAX_KBD_DEVICES
  Keys,        \* the keys the user presses, of those the code tests for
  Garbage,     \* what the uninitialised variable ev may hold
  Brightness,  \* SCREEN_Brightness, in percent
  DimAfter,    \* timeouts before the first dimming, 10 in the code
  MaxQueue,    \* bound: events the devices hold
  MaxErrors    \* bound: failures of poll

VARIABLES
  numKbdFds,         \* keyboards that INPUT_Init has opened
  queue,             \* queue[d]: events device d has not delivered yet
  unplugged,         \* keyboards that were removed
  pc,                \* where INPUT_Wait is
  revents,           \* devices with POLLIN that this iteration has not read
  counter, dimmed, disabled,   \* locals of INPUT_Wait
  ev,                \* the local ev, as far as the keyboard branch tests it
  result,            \* what INPUT_Wait returned
  backlight,         \* what the file of the backlight was written, 0 to 255
  errors

locals == <<counter, dimmed, disabled>>
vars == <<numKbdFds, queue, unplugged, pc, revents, locals, ev, result, backlight, errors>>

KbdKeys == {"kup", "kdown", "kenter"}
Keyboards == {Kbds[k] : k \in DOMAIN Kbds}
Opened == {Kbds[k] : k \in 1 .. numKbdFds}

ASSUME InputAssumption ==
  /\ MaxKbds \in Nat /\ Kbds \in Seq(STRING)
  /\ \A j, k \in DOMAIN Kbds : Kbds[j] = Kbds[k] => j = k
  /\ Keys \subseteq KbdKeys \cup {"select", "up", "down"}
  /\ Garbage # {} /\ Garbage \subseteq KbdKeys \cup {"other"}
  /\ Brightness \in 0 .. 100 /\ DimAfter \in Nat \ {0}
  /\ MaxQueue \in Nat /\ MaxErrors \in Nat
  /\ Keyboards \cap {"power", "volume", "touch", "stdin"} = {}
-----------------------------------------------------------------------------
Buttons == {"power", "volume"}
Devices == Buttons \cup {"touch"} \cup Keyboards

\* What the branches of INPUT_Wait test for, on each device.
EventsOf(d) ==
  CASE d = "power"  -> Keys \cap {"select"}
    [] d = "volume" -> Keys \cap {"up", "down"}
    [] d = "touch"  -> {"contact"}
    [] OTHER        -> Keys \cap KbdKeys

\* The packets a device may deliver at once.
Packets(d) ==
  {<<"other">>} \cup {<<e, "other">> : e \in EventsOf(d)}

\* What INPUT_Wait returns for a press.
Answer ==
  [select |-> "SELECT", up |-> "UP", down |-> "DOWN",
   kenter |-> "SELECT", kup |-> "UP", kdown |-> "DOWN"]
Press == DOMAIN Answer

\* SCREEN_ApplyBrightness: what it writes.
Applied(percent) == (percent * 255) \div 100

\* SCREEN_Enable, SCREEN_Disable and dimLevelPercentages.
Full == Applied(Brightness)
Off == Applied(0)
DimLevel == <<50, 25, 10, 5, 1>>
OffAfter == DimAfter + Len(DimLevel)

\* SCREEN_Dim after that many timeouts.  The percentage of a percentage is
\* rounded down: the last level is no light at all below full brightness.
Dimmed(timeouts) ==
  Applied((DimLevel[timeouts - DimAfter + 1] * Brightness) \div 100)

\* The file descriptor read when keyboard k is ready: the loop variable i of
\* the code is k + 2 and the code reads kbdFds[i - 2], counting from 0.  The
\* entry after the last keyboard is still 0, the terminal.
ReadFrom(k) == IF k < numKbdFds THEN Kbds[k + 1] ELSE "stdin"

\* The keyboards the loop over fds looks at: all but the last of a full table.
ScannedKbds_All == 1 .. numKbdFds
ScannedKbds == {k \in 1 .. numKbdFds : k < MaxKbds}
Scanned == Buttons \cup {"touch"} \cup {Kbds[k] : k \in ScannedKbds}

Ready == {d \in Devices : queue[d] # <<>>}

\* The devices whose POLLIN ends the wait in the dark.
DarkDevices == Buttons \cup {"touch"}
-----------------------------------------------------------------------------
Init ==
  /\ numKbdFds = 0
  /\ queue = [d \in Devices \cup {"stdin"} |-> <<>>]
  /\ unplugged = {}
  /\ pc = "start"
  /\ revents = {}
  /\ counter = 0 /\ dimmed = FALSE /\ disabled = FALSE
  /\ ev \in Garbage
  /\ result = "none"
  /\ backlight = Full
  /\ errors = 0

\* INPUT_Init: the buttons and the panel.  If one cannot be opened, main ends
\* and agetty starts it again.
OpenButtons ==
  /\ pc = "start" /\ pc' = "scandir"
  /\ UNCHANGED <<numKbdFds, queue, unplugged, revents, locals, ev, result, backlight, errors>>

\* Whether the table has room for a keyboard.
Room_OneMore == numKbdFds <= MaxKbds
Room == numKbdFds < MaxKbds

\* INPUT_Init: another file of the directory is a keyboard and opens.
AddKeyboard ==
  /\ pc = "scandir"
  /\ numKbdFds < Len(Kbds) /\ Room
  /\ numKbdFds' = numKbdFds + 1
  /\ UNCHANGED <<queue, unplugged, pc, revents, locals, ev, result, backlight, errors>>

\* INPUT_Init: no file is left; INPUT_Wait is called.
EndScandir ==
  /\ pc = "scandir" /\ pc' = "poll"
  /\ UNCHANGED <<numKbdFds, queue, unplugged, revents, locals, ev, result, backlight, errors>>

\* The events the devices hold.
Held == MapThenSumSet(LAMBDA d : Len(queue[d]), Devices)

\* The environment: a packet arrives.  A key pressed on a keyboard also types
\* characters on the terminal; a key no branch tests may do so.
Arrive(d) ==
  /\ pc # "start" /\ d \notin (Keyboards \ Opened) \cup unplugged
  /\ \E p \in Packets(d), typed \in BOOLEAN :
       /\ Held + Len(p) <= MaxQueue
       /\ typed => d \in Keyboards
       /\ Head(p) \in KbdKeys => typed
       /\ queue' = [queue EXCEPT ![d] = @ \o p,
                                 !["stdin"] = IF typed THEN <<"typed">> ELSE @]
  /\ UNCHANGED <<numKbdFds, unplugged, pc, revents, locals, ev, result, backlight, errors>>

\* The environment: a keyboard is removed; its descriptor polls as hung up.
Unplug(d) ==
  /\ d \in Opened \ unplugged
  /\ unplugged' = unplugged \cup {d}
  /\ UNCHANGED <<numKbdFds, queue, pc, revents, locals, ev, result, backlight, errors>>

\* poll returns a positive number.
Poll ==
  /\ pc = "poll"
  /\ Ready # {} \/ unplugged # {}
  /\ revents' = Ready
  /\ pc' = "scan"
  /\ UNCHANGED <<numKbdFds, queue, unplugged, locals, ev, result, backlight, errors>>

\* The count of timeouts after one more.
NextCount_UntilDim == IF dimmed THEN counter ELSE counter + 1
NextCount == counter + 1

\* poll returns 0.
Timeout ==
  /\ pc = "poll"
  /\ Ready = {} /\ unplugged = {}
  /\ counter' = NextCount
  /\ \/ /\ counter' < DimAfter
        /\ UNCHANGED <<dimmed, disabled, backlight>>
     \/ /\ counter' \in DimAfter .. OffAfter - 1
        /\ backlight' = Dimmed(counter')
        /\ dimmed' = TRUE
        /\ UNCHANGED disabled
     \/ /\ counter' = OffAfter
        /\ backlight' = Off
        /\ dimmed' = FALSE
        /\ disabled' = TRUE
  /\ pc' = IF disabled' THEN "dark" ELSE "poll"
  /\ UNCHANGED <<numKbdFds, queue, unplugged, revents, ev, result, errors>>

\* poll fails, here or in the dark.
PollError ==
  /\ pc \in {"poll", "dark"}
  /\ errors < MaxErrors
  /\ errors' = errors + 1
  /\ pc' = "returned"
  /\ result' = "ERROR"
  /\ UNCHANGED <<numKbdFds, queue, unplugged, revents, locals, ev, backlight>>

\* Input resets the screen saver.
NeedsLight_OnlyDark == disabled
NeedsLight == dimmed \/ disabled
Wake ==
  IF NeedsLight
    THEN backlight' = Full /\ dimmed' = FALSE /\ disabled' = FALSE /\ counter' = 0
    ELSE UNCHANGED <<backlight, locals>>

Return(r) == pc' = "returned" /\ result' = r

\* What a button press that finds the screen dark does.
PressAnswered_WakesOnly(e) == e \in Press /\ ~ disabled
PressAnswered(e) == e \in Press

\* Read the power button, then the volume buttons.
ReadButton(d) ==
  /\ pc = "scan" /\ d \in revents
  /\ d = "volume" => "power" \notin revents
  /\ LET e == Head(queue[d]) IN
       /\ queue' = [queue EXCEPT ![d] = Tail(@)]
       /\ revents' = revents \ {d}
       /\ IF PressAnswered(e)
            THEN Wake /\ Return(Answer[e])
            ELSE UNCHANGED <<pc, result, backlight, locals>>
  /\ ev' = "other"
  /\ UNCHANGED <<numKbdFds, unplugged, errors>>

\* Read the panel.  What else a contact does is Tap of MainLoop.tla.
ReadTouch ==
  /\ pc = "scan" /\ "touch" \in revents /\ revents \cap Buttons = {}
  /\ queue' = [queue EXCEPT !["touch"] = Tail(@)]
  /\ revents' = revents \ {"touch"}
  /\ IF Head(queue["touch"]) = "contact" THEN Wake ELSE UNCHANGED <<backlight, locals>>
  /\ ev' = "other"
  /\ UNCHANGED <<numKbdFds, unplugged, pc, result, errors>>

\* Read "for keyboard k".  The terminal blocks until something was typed and
\* never fills ev as far as its code; an empty keyboard leaves ev as it is.
ReadKbd(k) ==
  /\ pc = "scan" /\ Kbds[k] \in revents
  /\ revents \cap (Scanned \ {Kbds[j] : j \in k .. numKbdFds}) = {}
  /\ LET fd == ReadFrom(k) IN
       /\ fd = "stdin" => queue[fd] # <<>>
       /\ queue' = [queue EXCEPT ![fd] = IF @ = <<>> THEN @ ELSE Tail(@)]
       /\ ev' = IF fd = "stdin" \/ queue[fd] = <<>> THEN ev ELSE Head(queue[fd])
  /\ revents' = revents \ {Kbds[k]}
  /\ IF ev' \in KbdKeys
       THEN Wake /\ Return(Answer[ev'])
       ELSE UNCHANGED <<pc, result, backlight, locals>>
  /\ UNCHANGED <<numKbdFds, unplugged, errors>>

\* Every ready device was read and none had a press.
EndScan ==
  /\ pc = "scan" /\ revents \cap Scanned = {}
  /\ revents' = {}
  /\ pc' = IF disabled THEN "dark" ELSE "poll"
  /\ UNCHANGED <<numKbdFds, queue, unplugged, locals, ev, result, backlight, errors>>

\* The backlight once the wait in the dark is over.
LightAfterDark_Unchanged == backlight
LightAfterDark == Full

\* The wait without a timeout ends: disabled is left as it is.
LeaveDark ==
  /\ pc = "dark" /\ Ready \cap DarkDevices # {}
  /\ counter' = 0
  /\ backlight' = LightAfterDark
  /\ pc' = "poll"
  /\ UNCHANGED <<numKbdFds, queue, unplugged, revents, dimmed, disabled, ev, result, errors>>

\* STATE_Run acts on the event and waits again, with new locals.
Resume ==
  /\ pc = "returned"
  /\ pc' = "poll"
  /\ result' = "none"
  /\ revents' = {}
  /\ counter' = 0 /\ dimmed' = FALSE /\ disabled' = FALSE
  /\ ev' \in Garbage
  /\ UNCHANGED <<numKbdFds, queue, unplugged, backlight, errors>>

Environment == \E d \in Devices : Arrive(d) \/ Unplug(d)

Program ==
  \/ AddKeyboard \/ EndScandir
  \/ Poll \/ Timeout \/ EndScan \/ LeaveDark \/ Resume
  \/ \E d \in Buttons : ReadButton(d)
  \/ ReadTouch
  \/ \E k \in ScannedKbds : ReadKbd(k)

Next == Environment \/ OpenButtons \/ Program \/ PollError

\* The scheduler runs the program whenever it is not blocked; nothing is
\* assumed of the user.
Spec == Init /\ [][Next]_vars /\ WF_vars(Program)
-----------------------------------------------------------------------------
\* The types of the variables.
TypeOK ==
  /\ numKbdFds \in 0 .. MaxKbds
  /\ \A d \in Devices : queue[d] \in Seq(Press \cup {"contact", "other"})
  /\ queue["stdin"] \in {<<>>, <<"typed">>}
  /\ unplugged \subseteq Opened
  /\ pc \in {"start", "scandir", "poll", "scan", "dark", "returned"}
  /\ revents \subseteq Devices
  /\ counter \in 0 .. OffAfter
  /\ dimmed \in BOOLEAN /\ disabled \in BOOLEAN
  /\ ev \in KbdKeys \cup {"other"}
  /\ result \in {"none", "UP", "DOWN", "SELECT", "ERROR"}
  /\ backlight \in 0 .. 255
  /\ errors \in 0 .. MaxErrors

\* The screen is fully lit whenever a press is acted on, whatever the screen
\* saver had done before: dimmed and disabled are locals that are lost when
\* INPUT_Wait returns, so a backlight left down here would stay down.  (It does
\* after a failure of poll, which no signal handler of the program can cause.)
AnsweredLit ==
  result \in {"UP", "DOWN", "SELECT"} /\ errors = 0 => backlight = Full

\* The light is what the locals of INPUT_Wait say, until poll has failed: the
\* level of this many timeouts when dimmed, none in the wait without a timeout
\* that fifteen of them began, and full in all else, in a wait without a timeout
\* that an event which is no press has interrupted too.
LightFollows ==
  errors = 0 =>
    backlight = IF dimmed THEN Dimmed(counter)
                ELSE IF pc = "dark" /\ counter = OffAfter THEN Off ELSE Full

\* The number of presses a device still holds.
Presses(q) == Cardinality({i \in DOMAIN q : q[i] \in Press})

\* No press of a button is swallowed, not even the one that lights the screen:
\* the step that takes it from the device returns its event.
PressStep ==
  \A d \in Buttons :
    Presses(queue'[d]) < Presses(queue[d])
      => pc' = "returned" /\ result' = Answer[Head(queue[d])]
PressTaken == [][PressStep]_vars

\* The screen saver as its user sees it.  The locals are forgotten when
\* INPUT_Wait returns; with a brightness of 0 the light is what it always is.
Local(value, fresh) == IF pc = "returned" THEN fresh ELSE value
Screen == INSTANCE ScreenSaver WITH
  able <- Brightness # 0, failed <- errors, dark <- pc = "dark",
  counter <- Local(counter, 0),
  dimmed <- Local(dimmed, FALSE), disabled <- Local(disabled, FALSE),
  light <- IF backlight = Full THEN "full" ELSE IF backlight = Off THEN "off" ELSE "dim"

\* INPUT_Wait implements ScreenSaver, whatever arrives between two reads, on
\* whichever device: no timeout is counted while an event is still to be read
\* after the dark, and the locals are never lost with the light down.
ScreenSaverSpec == Screen!Spec

\* A press of a button is eventually taken if there is no keyboard, and also if
\* the table of keyboards is full: the loop passes over the last one, whose
\* descriptor it would take for the terminal, and no event of the others can
\* hold it up, read or unread.
ButtonsAnswered ==
  /\ (Presses(queue["power"]) > 0 /\ pc = "poll" /\ numKbdFds \in {0, MaxKbds})
       ~> (result = "SELECT")
  /\ (Presses(queue["volume"]) > 0 /\ pc = "poll" /\ numKbdFds \in {0, MaxKbds})
       ~> (result \in {"UP", "DOWN"})

\* "Use the volume buttons to move up/down, and the power button to select"
\* (menu.h:32): so it is with any number of keyboards.
ButtonsAlwaysAnswered ==
  /\ (Presses(queue["power"]) > 0) ~> (result = "SELECT")
  /\ (Presses(queue["volume"]) > 0) ~> (result \in {"UP", "DOWN"})

\* A screen that nobody touches goes dark, whatever was lit, dimmed or pressed
\* before: unless the wait in the dark was left by an event that is no press
\* (disabled still set), and unless an unplugged keyboard keeps poll returning.
IdleGoesDark ==
  (pc = "poll" /\ ~ disabled /\ Ready = {} /\ unplugged = {})
    ~> ((pc = "dark" /\ backlight = Off) \/ Ready # {} \/ unplugged # {})
=============================================================================
