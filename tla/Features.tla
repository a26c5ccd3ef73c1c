------------------------------ MODULE Features ------------------------------
(***************************************************************************)
(* USB features from power on to the menu and back: main() of main.c,      *)
(* FEAT_Apply and toggle() of featuresMenu.c, the gadget scripts of        *)
(* src/usb, the flags in the file of conf.c, and files/profile under       *)
(* agetty's respawn: the menu that ended is started again, or a shell      *)
(* takes its place once the debugging menu has left .debugShell behind.    *)
(*                                                                         *)
(* Three copies of the choice have to agree: the flags in memory, the file *)
(* and the functions of the gadget; the item names of the features menu    *)
(* show a fourth.  The gadget and the disk image outlive the program, the  *)
(* file and .debugShell outlive the power.                                 *)
(*                                                                         *)
(* Abstracted: a feature is its flag; the scripts' steps that keep nothing *)
(* (ids, strings, MAC addresses); the rest of the file (Config.tla).       *)
(***************************************************************************)
EXTENDS Integers

CONSTANTS
  Features,     \* the features the user toggles
  WriteFails,   \* whether opening and writing the file may fail
  DiskFails,    \* whether /tmp may lack the room for the disk image
  MaxCuts,      \* bound: power cuts
  MaxExits      \* bound: times the user ends the program

VARIABLES
  pc,
  reason,     \* why FEAT_Apply runs: "boot" or "toggle"
  enabled,    \* ramdiskEnabled, networkingEnabled
  labels,     \* the features the item names show as enabled, or Unset
  config,     \* the flags in the file, or Gone
  onDisk,     \* what a power cut may leave of the file
  notSaved,   \* the last CONF_Write returned an error; toggle says so
  functions,  \* the functions linked into the gadget
  bound,      \* the gadget is bound to a controller
  image,      \* /tmp/swapdisk.img: "none", "whole", or "empty" for want of room
  comOpen,    \* com.c holds /dev/ttyGS0 open
  writable,   \* the root file system is mounted for writing
  debugFlag,  \* .debugShell exists
  cuts, exits

file == <<config, onDisk>>
gadget == <<functions, bound, image>>
shell == <<writable, debugFlag>>
vars == <<pc, reason, enabled, labels, file, notSaved, gadget, comOpen, shell, cuts, exits>>

ASSUME FeaturesAssumption ==
  /\ Features \subseteq {"ramdisk", "networking"}
  /\ WriteFails \in BOOLEAN /\ DiskFails \in BOOLEAN
  /\ MaxCuts \in Nat /\ MaxExits \in Nat
-----------------------------------------------------------------------------
Flags == SUBSET Features

\* A file that is missing or cut off before its end; names that are not set.
Gone == {"gone"}
Unset == {"unset"}

\* The functions each script links: eth.sh alone does not source configs/com.sh.
Script_NoCom(f) ==
    (IF "ramdisk" \in f THEN {"mass_storage"} ELSE {})
      \cup (IF "networking" \in f THEN {"ecm"} ELSE {})
Script(f) ==
  CASE f = {"ramdisk", "networking"} -> {"acm", "mass_storage", "ecm"}
    [] f = {"ramdisk"}               -> {"acm", "mass_storage"}
    [] f = {"networking"}            -> {"ecm"}
    [] f = {}                        -> {"acm"}

\* CONF_Init: the flags it reads; CONF_Reset for a file that ends too early.
Loaded_NoReset(c) == c
Loaded(c) == IF c = Gone THEN {} ELSE c

\* CONF_Write truncates the file and writes it anew; the kernel writes it back
\* later, so a cut before that leaves the old one, the new one or a part.  Only
\* a failing fopen is an error: that the lines could not be written, which
\* fclose would tell, is not looked at.
Write(f) ==
  \/ /\ config' = f
     /\ onDisk' = onDisk \cup {f, Gone}
     /\ notSaved' = FALSE
  \/ /\ WriteFails
     /\ config' = Gone
     /\ onDisk' = onDisk \cup {Gone}
     /\ notSaved' = FALSE
  \/ /\ WriteFails
     /\ notSaved' = TRUE
     /\ UNCHANGED file
-----------------------------------------------------------------------------
Init ==
  /\ pc = "down" /\ reason = "boot"
  /\ enabled = {} /\ labels = Unset
  /\ config \in Flags \cup {Gone} /\ onDisk = {config}
  /\ notSaved = FALSE
  /\ functions = {} /\ bound = FALSE /\ image = "none"
  /\ comOpen = FALSE
  /\ writable \in BOOLEAN /\ debugFlag = FALSE
  /\ cuts = 0 /\ exits = 0

\* main(), up to CONF_Init.  If CONF_Reset cannot write, main returns 1.
Start ==
  /\ pc = "down"
  /\ reason' = "boot" /\ labels' = Unset
  /\ enabled' = Loaded(config)
  /\ IF config # Gone
       THEN pc' = "close" /\ notSaved' = FALSE /\ UNCHANGED file
       ELSE Write({}) /\ pc' = IF notSaved' THEN "profile" ELSE "close"
  /\ UNCHANGED <<gadget, comOpen, shell, cuts, exits>>

\* FEAT_Apply: COM_Shutdown.
Closed_Forgotten == comOpen
Closed == FALSE
Close ==
  /\ pc = "close"
  /\ comOpen' = Closed
  /\ pc' = "teardown"
  /\ UNCHANGED <<reason, enabled, labels, file, notSaved, gadget, shell, cuts, exits>>

\* What teardown.sh leaves of the disk image.
ImageLeft_Kept == image
ImageLeft == "none"

\* teardown.sh.  Removing the serial function waits until its line is closed.
Teardown ==
  /\ pc = "teardown"
  /\ "acm" \in functions => ~ comOpen
  /\ functions' = {} /\ bound' = FALSE
  /\ image' = ImageLeft
  /\ pc' = "script"
  /\ UNCHANGED <<reason, enabled, labels, file, notSaved, comOpen, shell, cuts, exits>>

\* The script for the flags, up to finalize.  Whether fallocate had the room is
\* not looked at.
Setup ==
  /\ pc = "script"
  /\ functions' = Script(enabled)
  /\ IF "mass_storage" \in functions'
       THEN image' = "whole" \/ (DiskFails /\ image' = "empty")
       ELSE UNCHANGED image
  /\ pc' = "bind"
  /\ UNCHANGED <<reason, enabled, labels, file, notSaved, bound, comOpen, shell, cuts, exits>>

\* finalize: it retries until the controller takes the gadget.
Bind ==
  /\ pc = "bind"
  /\ bound' = TRUE
  /\ pc' = "com"
  /\ UNCHANGED <<reason, enabled, labels, file, notSaved, functions, image, comOpen, shell, cuts, exits>>

\* COM_Init, twice in main.  /dev/ttyGS0 exists if the gadget has the serial
\* function.  FEAT_Apply returns -3 without it: main ends, toggle goes on.
OpenCom ==
  /\ pc = "com"
  /\ comOpen' = ("acm" \in functions)
  /\ pc' = IF reason = "toggle" THEN "save" ELSE IF comOpen' THEN "menu" ELSE "profile"
  /\ UNCHANGED <<reason, enabled, labels, file, notSaved, gadget, shell, cuts, exits>>

\* toggle() saves the flags, whatever FEAT_Apply returned.
SaveWanted_OnlyIfApplied == comOpen
SaveWanted == TRUE
Saved_AsShown == labels
Saved == enabled
Save ==
  /\ pc = "save"
  /\ IF SaveWanted THEN Write(Saved) ELSE UNCHANGED <<file, notSaved>>
  /\ pc' = "message"
  /\ UNCHANGED <<reason, enabled, labels, gadget, comOpen, shell, cuts, exits>>

\* "Press any key/button to return": then the names are set again.
LabelsAfter == enabled
Acknowledge ==
  /\ pc = "message"
  /\ labels' = LabelsAfter
  /\ pc' = "menu"
  /\ UNCHANGED <<reason, enabled, file, notSaved, gadget, comOpen, shell, cuts, exits>>

\* The features menu is opened: settingsMenuSetup.
OpenMenu ==
  /\ pc = "menu" /\ labels = Unset
  /\ labels' = enabled
  /\ UNCHANGED <<pc, reason, enabled, file, notSaved, gadget, comOpen, shell, cuts, exits>>

\* The user toggles a feature.
Toggle ==
  /\ pc = "menu" /\ labels # Unset
  /\ \E f \in Features :
       enabled' = IF f \in enabled THEN enabled \ {f} ELSE enabled \cup {f}
  /\ reason' = "toggle"
  /\ pc' = "close"
  /\ UNCHANGED <<labels, file, notSaved, gadget, comOpen, shell, cuts, exits>>

\* An entry of the debugging menu ends the program, and one of them makes
\* .debugShell first: the kernel closes the descriptors, the gadget stays.
Exit ==
  /\ pc = "menu" /\ exits < MaxExits
  /\ exits' = exits + 1
  /\ \E launchShell \in BOOLEAN :
       debugFlag' = IF launchShell /\ writable THEN TRUE ELSE debugFlag
  /\ pc' = "profile"
  /\ comOpen' = FALSE
  /\ UNCHANGED <<reason, enabled, labels, file, notSaved, gadget, writable, cuts>>

\* profile, when the menu has ended: a shell if .debugShell is there; else
\* the session ends, and agetty starts the next.
Profile ==
  /\ pc = "profile"
  /\ pc' = IF debugFlag THEN "shell" ELSE "down"
  /\ UNCHANGED <<reason, enabled, labels, file, notSaved, gadget, comOpen, shell, cuts, exits>>

\* The user leaves the shell.  Nothing removes .debugShell but the user.
LeaveShell ==
  /\ pc = "shell" /\ pc' = "down"
  /\ debugFlag' \in {debugFlag, debugFlag /\ ~ writable}
  /\ UNCHANGED <<reason, enabled, labels, file, notSaved, gadget, comOpen, writable, cuts, exits>>

\* The kernel writes the file back.
WriteBack ==
  /\ onDisk # {config}
  /\ onDisk' = {config}
  /\ UNCHANGED <<pc, reason, enabled, labels, config, notSaved, gadget, comOpen, shell, cuts, exits>>

\* The power is cut.
PowerCut ==
  /\ cuts < MaxCuts
  /\ cuts' = cuts + 1
  /\ config' \in onDisk /\ onDisk' = {config'}
  /\ pc' = "down"
  /\ functions' = {} /\ bound' = FALSE /\ image' = "none" /\ comOpen' = FALSE
  /\ UNCHANGED <<reason, enabled, labels, notSaved, shell, exits>>

Apply == Close \/ Teardown \/ Setup \/ Bind \/ OpenCom
Program == Start \/ Apply \/ Save \/ Profile

Next ==
  \/ Program
  \/ Acknowledge \/ OpenMenu \/ Toggle \/ Exit \/ LeaveShell \/ WriteBack \/ PowerCut

\* agetty starts the menu again, the scripts run, and the controller takes the
\* gadget in the end.  Nothing is assumed of the user, the kernel's write-back
\* or the power.
Spec == Init /\ [][Next]_vars /\ WF_vars(Program)
-----------------------------------------------------------------------------
\* The types of the variables.
TypeOK ==
  /\ pc \in {"down", "close", "teardown", "script", "bind", "com", "save",
             "message", "menu", "profile", "shell"}
  /\ reason \in {"boot", "toggle"}
  /\ enabled \in Flags
  /\ labels \in Flags \cup {Unset}
  /\ config \in Flags \cup {Gone}
  /\ onDisk \subseteq Flags \cup {Gone} /\ config \in onDisk
  /\ notSaved \in BOOLEAN
  /\ functions \subseteq {"acm", "mass_storage", "ecm"}
  /\ bound \in BOOLEAN /\ comOpen \in BOOLEAN
  /\ image \in {"none", "whole", "empty"}
  /\ writable \in BOOLEAN /\ debugFlag \in {FALSE, writable}
  /\ cuts \in 0 .. MaxCuts /\ exits \in 0 .. MaxExits

\* In the menu, what the item names show, the flags, the functions on the bus,
\* the disk image that takes 2 GB of memory and the state of the channel agree,
\* after any sequence of toggles, restarts over a gadget that was left behind,
\* and power cuts.
MenuShowsUsb ==
  pc = "menu" =>
    /\ labels \in {Unset, enabled}
    /\ bound /\ functions = Script(enabled)
    /\ comOpen <=> "acm" \in functions
    /\ image = "none" <=> "ramdisk" \notin enabled

\* In the menu, the file does not hold another choice than the one in force,
\* unless the user was told that it could not be saved: it holds this choice, or
\* none since a write failed unnoticed, and then the next start takes the
\* default one.  Toggles, restarts, resets and power cuts may all come between.
NoOtherChoice == pc = "menu" /\ ~ notSaved => config \in {enabled, Gone}

\* toggle saves last: no choice enters the file, or what a power cut may leave
\* of the file, before its gadget is on the bus and its disk image is there or
\* gone.  What a start finds there was on the bus once, or is the default one of
\* a reset: a cut in the middle of a script brings back the choice before.
AppliedStep ==
  \A c \in (onDisk' \ onDisk) \ {Gone} :
    \/ pc = "down" /\ c = {}
    \/ /\ bound /\ functions = Script(c)
       /\ image = "none" <=> "ramdisk" \notin c
AppliedBeforeSaved == [][AppliedStep]_vars

\* The script that tears the gadget down is never left waiting for the line
\* this program itself holds open: a toggle and a boot come to their end.
ToggleEnds == (pc = "close") ~> (pc \in {"message", "menu", "profile", "down"})

\* Once the program has ended, for whatever reason, with choice c saved, the menu
\* comes up again, or the shell that the user asked for; unless the power is cut.
ComesBack(c) ==
  \A n \in 0 .. MaxCuts :
    (pc = "profile" /\ config = c /\ cuts = n) ~> (pc \in {"menu", "shell"} \/ cuts > n)

\* So it is for every choice whose gadget has a serial function, over a gadget,
\* an image and a .debugShell that the session before left behind.
ComesBackWithChannel == \A c \in Flags \ {{"networking"}} : ComesBack(c)

\* "Networking Toggle" (README.md:71): the menu comes back with networking too.
ComesBackWithNetworking == ComesBack({"networking"})
=============================================================================
