------------------------------- MODULE Config -------------------------------
(***************************************************************************)
(* The configuration file of conf.c, its writers (toggle of featuresMenu.c *)
(* and the brightness editor of settings.c), and the ways the program      *)
(* ends: an entry of the debugging menu, an assert, a shutdown that it     *)
(* asked for itself (sys.c), the power.                                    *)
(*                                                                         *)
(* The six lines are read one by one into the globals, and any line may    *)
(* turn out bad after the flags were set.  The file is truncated when it   *)
(* is opened for writing and written when it is closed, and a shutdown is  *)
(* only begun by system("reboot"): the menu goes on, may save again, and   *)
(* is killed somewhere.                                                    *)
(*                                                                         *)
(* Abstracted: a file is the sequence of the numbers after the magic line; *)
(* <<>> is any file that is missing or does not begin with the magic line. *)
(* What the choice is used for is in Features.tla and Display.tla.         *)
(***************************************************************************)
EXTENDS Integers, Sequences

CONSTANTS
  InitialFiles,   \* what the file may hold at first, edited by hand perhaps
  Brightness,     \* the values the user picks in the editor
  WriteFails,     \* whether opening and writing the file may fail
  MaxUnsynced     \* bound: times the file is opened before the kernel writes back

ASSUME ConfigAssumption ==
  /\ InitialFiles # {} /\ InitialFiles \subseteq Seq(Int)
  /\ Brightness \subseteq 1 .. 100
  /\ WriteFails \in BOOLEAN /\ MaxUnsynced \in Nat

VARIABLES
  pc,        \* "off", "menu", "applying" (toggle), "editor", "saving" (CONF_Write)
  mem,       \* ramdiskEnabled, networkingEnabled, SCREEN_Brightness
  file,      \* the file as the kernel has it
  onDisk,    \* what a power cut may leave of it
  stopping,  \* a reboot or poweroff was asked for
  unsynced

disk == <<file, onDisk, unsynced>>
vars == <<pc, mem, disk, stopping>>

Default == [ramdisk |-> 0, networking |-> 0, brightness |-> 100]
Blank == [ramdisk |-> 0, networking |-> 0, brightness |-> 0]
-----------------------------------------------------------------------------
\* The numbers CONF_Init accepts on line i after the magic.
Allowed_AnyFlag(i) == IF i = 5 THEN 0 .. 100 ELSE 0 .. 9
Allowed(i) == IF i = 5 THEN 0 .. 100 ELSE 0 .. 1

Good(f, i) == i \in DOMAIN f /\ f[i] \in Allowed(i)
Whole(f) == \A i \in 1 .. 5 : Good(f, i)

\* The globals when CONF_Init stops reading: each flag is set as soon as its
\* line was read, the brightness at the end.
Read(f) ==
  [ramdisk    |-> IF Good(f, 1) THEN f[1] ELSE Blank.ramdisk,
   networking |-> IF Good(f, 1) /\ Good(f, 2) THEN f[2] ELSE Blank.networking,
   brightness |-> IF Whole(f) THEN f[5] ELSE Blank.brightness]

\* CONF_Reset, on the globals as they were left.
Reset_BrightnessOnly(read) == [read EXCEPT !.brightness = 100]
Reset(read) == Default

Loaded(f) == IF Whole(f) THEN Read(f) ELSE Reset(Read(f))

\* The lines CONF_Write prints, and what is left of them after a cut: some
\* whole lines, or digits of the last.
Text(c) == <<c.ramdisk, c.networking, 0, 0, c.brightness>>
Prefixes(b) == IF b = 0 THEN {0} ELSE {b, b \div 10, b \div 100} \ {0}
Cuts(c) ==
  {[i \in 1 .. n |-> Text(c)[i]] : n \in 0 .. 4}
    \cup {Text([c EXCEPT !.brightness = b]) : b \in Prefixes(c.brightness)}
-----------------------------------------------------------------------------
Init ==
  /\ pc = "off" /\ mem = Blank
  /\ file \in InitialFiles /\ onDisk = {file}
  /\ stopping = FALSE /\ unsynced = 0

\* The process ends; the next one starts with its globals zero.
Die == pc' = "off" /\ mem' = Blank

\* CONF_Write: fopen truncates the file.
OpenFile ==
  /\ unsynced < MaxUnsynced /\ unsynced' = unsynced + 1
  /\ file' = <<>> /\ onDisk' = onDisk \cup {<<>>}
  /\ pc' = "saving"

\* CONF_Write: fopen fails.
CannotOpen == WriteFails /\ UNCHANGED disk

\* CONF_Init finds a good file.
Start ==
  /\ pc = "off" /\ ~ stopping
  /\ Whole(file)
  /\ mem' = Loaded(file) /\ pc' = "menu"
  /\ UNCHANGED <<disk, stopping>>

\* CONF_Init finds no good file: CONF_Reset.  main ends if it cannot write.
StartReset ==
  /\ pc = "off" /\ ~ stopping
  /\ ~ Whole(file)
  /\ \/ mem' = Loaded(file) /\ OpenFile
     \/ Die /\ CannotOpen
  /\ UNCHANGED stopping

\* toggle: the flag changes, and FEAT_Apply runs the scripts.
Toggle ==
  /\ pc = "menu" /\ pc' = "applying"
  /\ \/ mem' = [mem EXCEPT !.ramdisk = 1 - @]
     \/ mem' = [mem EXCEPT !.networking = 1 - @]
  /\ UNCHANGED <<disk, stopping>>

\* configureDisplay, which asserts that the brightness is not zero.
OpenEditor ==
  /\ pc = "menu"
  /\ IF mem.brightness = 0 THEN Die ELSE pc' = "editor" /\ UNCHANGED mem
  /\ UNCHANGED <<disk, stopping>>

\* A new brightness: in the editor, or from the debugging menu.
SetBrightness ==
  /\ pc \in {"menu", "editor"}
  /\ \E b \in Brightness : mem' = [mem EXCEPT !.brightness = b]
  /\ UNCHANGED <<pc, disk, stopping>>

\* toggle saves after FEAT_Apply, the editor when it is left.
BeginWrite ==
  /\ pc \in {"applying", "editor"}
  /\ OpenFile \/ (CannotOpen /\ pc' = "menu")
  /\ UNCHANGED <<mem, stopping>>

\* CONF_Write: fclose writes the lines.  Its result is not looked at.
FinishWrite ==
  /\ pc = "saving" /\ pc' = "menu"
  /\ \/ file' = Text(mem) /\ onDisk' = onDisk \cup Cuts(mem)
     \/ WriteFails /\ UNCHANGED <<file, onDisk>>
  /\ UNCHANGED <<mem, stopping, unsynced>>

\* SYS_DoRestart, SYS_DoShutdown: the command returns before the system is down.
Reboot ==
  /\ pc = "menu"
  /\ stopping' = TRUE
  /\ UNCHANGED <<pc, mem, disk>>

\* An entry of the debugging menu ends the program in the menu; the shutdown
\* kills it wherever it is.
End ==
  /\ pc = "menu" \/ (stopping /\ pc # "off")
  /\ Die
  /\ UNCHANGED <<disk, stopping>>

Settle == onDisk' = {file} /\ unsynced' = 0 /\ UNCHANGED file

\* The shutdown unmounts the boot partition; then the power comes back.
Halt ==
  /\ stopping /\ pc = "off"
  /\ stopping' = FALSE
  /\ Settle
  /\ UNCHANGED <<pc, mem>>

\* The kernel writes the file back.
WriteBack ==
  /\ onDisk # {file}
  /\ Settle
  /\ UNCHANGED <<pc, mem, stopping>>

\* The power is cut.
PowerCut ==
  /\ file' \in onDisk /\ onDisk' = {file'} /\ unsynced' = 0
  /\ Die /\ stopping' = FALSE

Next ==
  \/ Start \/ StartReset \/ Toggle \/ OpenEditor \/ SetBrightness
  \/ BeginWrite \/ FinishWrite \/ Reboot \/ End
  \/ Halt \/ WriteBack \/ PowerCut

Spec == Init /\ [][Next]_vars
-----------------------------------------------------------------------------
\* The types of the variables: whatever a hand or a cut has done to the file,
\* the flags in use are indices of the two names each feature has.
TypeOK ==
  /\ pc \in {"off", "menu", "applying", "editor", "saving"}
  /\ mem \in [ramdisk : {0, 1}, networking : {0, 1}, brightness : 0 .. 100]
  /\ file \in Seq(Int) /\ onDisk \subseteq Seq(Int) /\ file \in onDisk
  /\ stopping \in BOOLEAN
  /\ unsynced \in 0 .. MaxUnsynced

\* The file is a store of whole choices (Choices.tla): a start reads one choice
\* that was saved as a whole, never the flags of one and the brightness of
\* another, and the last one unless the power was cut or a save was cut short.
Store == INSTANCE Choices WITH
  running <- pc # "off", inForce <- mem,
  next <- Loaded(file), candidates <- {Loaded(f) : f \in onDisk}
StoreSpec == Store!Spec
=============================================================================
