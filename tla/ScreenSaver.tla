---------------------------- MODULE ScreenSaver ----------------------------
(***************************************************************************)
(* What the screen saver promises: an idle screen is dimmed, goes dark and *)
(* stays dark until something happens; whoever presses a key finds it lit, *)
(* unless the light cannot be set or the wait has failed.  The count of    *)
(* timeouts and what was done to the light are forgotten together, never   *)
(* one without the other.                                                  *)
(*                                                                         *)
(* INPUT_Wait implements this with three locals that are lost whenever it  *)
(* returns, in Input.tla over the devices it reads and in MainLoop.tla     *)
(* below the screens that call it.                                         *)
(***************************************************************************)
EXTENDS Integers

CONSTANTS
  DimAfter,  \* timeouts before the first dimming
  OffAfter   \* timeouts before the screen is dark

VARIABLES
  able,      \* whether the light can be set at all
  failed,    \* how often the wait has failed
  counter,   \* timeouts in a row
  dimmed, disabled,   \* what the screen saver has done
  dark,      \* waiting without a timeout
  light      \* "full", "dim" or "off"

vars == <<failed, counter, dimmed, disabled, dark, light>>

\* The light after an attempt to set it.
Set(level) == IF able THEN level ELSE light

Reset == counter' = 0 /\ dimmed' = FALSE /\ disabled' = FALSE /\ dark' = FALSE

Init ==
  /\ failed = 0
  /\ counter = 0 /\ dimmed = FALSE /\ disabled = FALSE /\ dark = FALSE
  /\ light = "full"

\* Another timeout.  Dimming far enough puts the light out as well.
Tick ==
  /\ ~ dark /\ ~ disabled
  /\ counter' = counter + 1
  /\ \/ counter' < DimAfter /\ UNCHANGED <<dimmed, disabled, light>>
     \/ /\ counter' \in DimAfter .. OffAfter - 1
        /\ dimmed' = TRUE /\ light' \in {Set("dim"), Set("off")} /\ UNCHANGED disabled
     \/ /\ counter' = OffAfter
        /\ dimmed' = FALSE /\ light' = Set("off") /\ disabled' = TRUE
  /\ dark' = disabled'
  /\ UNCHANGED failed

\* A press or a tap: what was dimmed or dark is lit.  (The editor of the
\* brightness sets the light in any case.)
Press ==
  /\ ~ dark
  /\ Reset
  /\ light' \in {Set("full"), IF dimmed \/ disabled THEN Set("full") ELSE light}
  /\ UNCHANGED failed

\* Something happens in the dark; it may yet turn out to be no press.
Leave ==
  /\ dark /\ dark' = FALSE
  /\ counter' = 0 /\ light' = Set("full")
  /\ UNCHANGED <<failed, dimmed, disabled>>

\* It was none: the dark goes on, with the light as it is.
Back ==
  /\ ~ dark /\ disabled /\ dark' = TRUE
  /\ UNCHANGED <<failed, counter, dimmed, disabled, light>>

\* The wait fails: nobody knows any more that the light is down.
Fail ==
  /\ failed' = failed + 1
  /\ Reset
  /\ UNCHANGED light

\* The program starts again.
Restart ==
  /\ ~ dark
  /\ Reset
  /\ light' = "full"
  /\ UNCHANGED failed

Next == Tick \/ Press \/ Leave \/ Back \/ Fail \/ Restart

Spec == Init /\ [][Next]_vars
=============================================================================
