--------------------------- MODULE FeaturesProofs ---------------------------
(***************************************************************************)
(* Proofs about the USB features, for every set of features, every content *)
(* of the file and any number of power cuts and ends of the program.       *)
(***************************************************************************)
EXTENDS Features, TLAPS

Applying == {"close", "teardown", "script", "bind", "com"}

\* What FEAT_Apply has done of its work when it has come to pc.
Progress ==
  /\ enabled \in Flags
  /\ pc = "script" => image = "none"
  /\ pc \in {"bind", "com", "save", "message", "menu"} =>
       /\ functions = Script(enabled)
       /\ image = "none" <=> "ramdisk" \notin enabled
  /\ pc \in {"com", "save", "message", "menu"} => bound
  /\ pc \in {"save", "message", "menu"} => (comOpen <=> "acm" \in functions)

\* The item names are those of the choice in force, or not set: they are set
\* when the menu is opened and after each toggle, and no boot finds them set.
Named ==
  /\ reason \in {"boot", "toggle"}
  /\ pc \in Applying /\ reason = "boot" => labels = Unset
  /\ pc = "menu" => labels \in {Unset, enabled}

\* Unless the last CONF_Write returned an error, the file holds the choice in
\* force, or none: since the start, and again once a toggle has saved.
Written ==
  (pc \in Applying /\ reason = "boot") \/ pc \in {"message", "menu"} =>
    (~ notSaved => config \in {enabled, Gone})

\* The file holds a choice, or ends before it.
Stored ==
  /\ config \in Flags \cup {Gone} /\ onDisk \subseteq Flags \cup {Gone}
  /\ config \in onDisk

Agreed == Progress /\ Named /\ Written /\ Stored
-----------------------------------------------------------------------------
\* A script links the disk exactly if the RAM disk is enabled.
LEMMA ScriptDisk ==
  ASSUME NEW f \in Flags
  PROVE  "mass_storage" \in Script(f) <=> "ramdisk" \in f
<1>1. f \in {{"ramdisk", "networking"}, {"ramdisk"}, {"networking"}, {}}
  BY FeaturesAssumption DEF Flags
<1>2. CASE f = {"ramdisk", "networking"}
  BY <1>2 DEF Script
<1>3. CASE f = {"ramdisk"}
  BY <1>3 DEF Script
<1>4. CASE f = {"networking"}
  BY <1>4 DEF Script
<1>5. CASE f = {}
  BY <1>5 DEF Script
<1>6. QED  BY <1>1, <1>2, <1>3, <1>4, <1>5

\* A choice that is read from the file is a choice.
LEMMA LoadedFlags ==
  ASSUME NEW c \in Flags \cup {Gone}
  PROVE  Loaded(c) \in Flags /\ (c # Gone => Loaded(c) = c)
BY DEF Loaded, Flags

\* Writing a choice leaves that one in the file, or none, or the file as it is;
\* nothing else is added to what a power cut may leave.
LEMMA WriteStored ==
  ASSUME Stored, NEW f \in Flags, Write(f)
  PROVE  /\ Stored' /\ (~ notSaved' => config' \in {f, Gone})
         /\ onDisk' \subseteq onDisk \cup {f, Gone}
<1>1. CASE config' = f /\ onDisk' = onDisk \cup {f, Gone}
  BY <1>1 DEF Stored
<1>2. CASE config' = Gone /\ onDisk' = onDisk \cup {Gone}
  BY <1>2 DEF Stored
<1>3. CASE notSaved' /\ UNCHANGED file
  BY <1>3 DEF Stored, file
<1>4. QED  BY <1>1, <1>2, <1>3 DEF Write
-----------------------------------------------------------------------------
\* Every step keeps them all.
LEMMA AgreedKept ==
  ASSUME Agreed, [Next]_vars
  PROVE  Agreed'
<1> USE DEF Agreed, Applying
<1>1. CASE Start
  <2>1. /\ enabled' = Loaded(config) /\ reason' = "boot" /\ labels' = Unset
        /\ pc' \in {"profile", "close"}
    BY <1>1 DEF Start
  <2>2. Loaded(config) \in Flags
    BY LoadedFlags DEF Stored
  <2>3. CASE config # Gone
    <3>1. UNCHANGED <<config, onDisk>> /\ config = Loaded(config)
      BY <1>1, <2>3, LoadedFlags DEF Start, file, Stored
    <3>2. QED  BY <2>1, <2>2, <3>1 DEF Progress, Named, Written, Stored
  <2>4. CASE config = Gone
    <3>1. Write({}) /\ Loaded(config) = {} /\ {} \in Flags
      BY <1>1, <2>4 DEF Start, Loaded, Flags
    <3>2. Stored' /\ (~ notSaved' => config' \in {{}, Gone})
      BY <3>1, WriteStored
    <3>3. QED  BY <2>1, <2>2, <3>1, <3>2 DEF Progress, Named, Written
  <2>5. QED  BY <2>3, <2>4
<1>2. CASE Close
  <2>1. /\ UNCHANGED <<enabled, reason, labels, config, onDisk, notSaved>>
        /\ pc = "close" /\ pc' = "teardown"
    BY <1>2 DEF Close, file
  <2>2. QED  BY <2>1 DEF Progress, Named, Written, Stored
<1>3. CASE Teardown
  <2>1. /\ UNCHANGED <<enabled, reason, labels, config, onDisk, notSaved>>
        /\ pc = "teardown" /\ pc' = "script" /\ image' = "none"
    BY <1>3 DEF Teardown, ImageLeft, file
  <2>2. QED  BY <2>1 DEF Progress, Named, Written, Stored
<1>4. CASE Setup
  <2>1. /\ UNCHANGED <<enabled, reason, labels, config, onDisk, notSaved>>
        /\ pc = "script" /\ pc' = "bind" /\ functions' = Script(enabled)
    BY <1>4 DEF Setup, file
  <2>2. image' = "none" <=> "mass_storage" \notin functions'
    BY <1>4 DEF Setup, Progress
  <2>3. image' = "none" <=> "ramdisk" \notin enabled
    BY <2>1, <2>2, ScriptDisk DEF Progress
  <2>4. QED  BY <2>1, <2>3 DEF Progress, Named, Written, Stored
<1>5. CASE Bind
  <2>1. /\ UNCHANGED <<enabled, reason, labels, config, onDisk, notSaved, functions, image>>
        /\ pc = "bind" /\ pc' = "com" /\ bound'
    BY <1>5 DEF Bind, file
  <2>2. QED  BY <2>1 DEF Progress, Named, Written, Stored
<1>6. CASE OpenCom
  <2>1. /\ UNCHANGED <<enabled, reason, labels, config, onDisk, notSaved>>
        /\ UNCHANGED <<functions, image>> /\ (bound => bound')
        /\ pc = "com" /\ pc' \in {"save", "menu", "profile"}
        /\ reason = "boot" => pc' # "save"
        /\ reason = "toggle" => pc' = "save"
        /\ comOpen' <=> "acm" \in functions
    BY <1>6 DEF OpenCom, file, gadget
  <2>2. QED  BY <2>1 DEF Progress, Named, Written, Stored
<1>7. CASE Save
  <2>1. /\ UNCHANGED <<enabled, reason, labels, functions, image>>
        /\ (bound => bound') /\ (comOpen <=> comOpen')
        /\ pc = "save" /\ pc' = "message" /\ Write(enabled)
    BY <1>7 DEF Save, SaveWanted, Saved, gadget
  <2>2. Stored' /\ (~ notSaved' => config' \in {enabled, Gone})
    BY <2>1, WriteStored DEF Progress
  <2>3. QED  BY <2>1, <2>2 DEF Progress, Named, Written
<1>8. CASE Acknowledge \/ OpenMenu
  <2>1. /\ UNCHANGED <<enabled, reason, functions, image, config, onDisk>>
        /\ (bound => bound') /\ (comOpen <=> comOpen') /\ (notSaved => notSaved')
        /\ pc \in {"message", "menu"} /\ pc' = "menu" /\ labels' = enabled
    BY <1>8 DEF Acknowledge, OpenMenu, LabelsAfter, file, gadget
  <2>2. QED  BY <2>1 DEF Progress, Named, Written, Stored
<1>9. CASE Toggle
  <2>1. reason' = "toggle" /\ pc' = "close" /\ UNCHANGED <<config, onDisk>>
    BY <1>9 DEF Toggle, file
  <2>2. enabled' \in Flags
    BY <1>9 DEF Toggle, Flags, Progress
  <2>3. QED  BY <2>1, <2>2 DEF Progress, Named, Written, Stored
<1>10. CASE Exit \/ Profile \/ LeaveShell
  <2>1. /\ UNCHANGED <<enabled, reason, config, onDisk>>
        /\ pc' \in {"profile", "shell", "down"}
    BY <1>10 DEF Exit, Profile, LeaveShell, file
  <2>2. QED  BY <2>1 DEF Progress, Named, Written, Stored
<1>11. CASE WriteBack
  <2>1. /\ UNCHANGED <<pc, enabled, reason, labels, functions, image, config>>
        /\ (bound <=> bound') /\ (comOpen <=> comOpen') /\ (notSaved <=> notSaved')
        /\ onDisk' = {config}
    BY <1>11 DEF WriteBack, gadget
  <2>2. QED  BY <2>1 DEF Progress, Named, Written, Stored
<1>12. CASE PowerCut
  <2>1. UNCHANGED <<enabled, reason>> /\ pc' = "down" /\ config' \in onDisk /\ onDisk' = {config'}
    BY <1>12 DEF PowerCut
  <2>2. QED  BY <2>1 DEF Progress, Named, Written, Stored
<1>13. CASE UNCHANGED vars
  <2>1. /\ UNCHANGED <<pc, enabled, reason, labels, functions, image, config, onDisk>>
        /\ (bound <=> bound') /\ (comOpen <=> comOpen') /\ (notSaved <=> notSaved')
    BY <1>13 DEF vars, gadget, file
  <2>2. QED  BY <2>1 DEF Progress, Named, Written, Stored
<1>14. QED
  BY <1>1, <1>2, <1>3, <1>4, <1>5, <1>6, <1>7, <1>8, <1>9, <1>10, <1>11, <1>12, <1>13
     DEF Next, Program, Apply

\* With the power off nothing is in force.
LEMMA AgreedInit == Init => Agreed
BY DEF Init, Agreed, Applying, Progress, Named, Written, Stored, Flags

\* In the menu the item names, the flags, the functions on the bus, the disk
\* image and the channel agree.
THEOREM MenuAgrees == Spec => []MenuShowsUsb
<1>1. Agreed => MenuShowsUsb
  BY DEF Agreed, Progress, Named, MenuShowsUsb
<1>2. QED  BY <1>1, AgreedInit, AgreedKept, PTL DEF Spec

\* In the menu the file holds the choice in force or none, or toggle has said
\* that it could not be saved; a write that fails unnoticed is one of the
\* outcomes of CONF_Write (conf.c).
THEOREM ChoiceSaved == Spec => []NoOtherChoice
<1>1. Agreed => NoOtherChoice
  BY DEF Agreed, Written, NoOtherChoice
<1>2. QED  BY <1>1, AgreedInit, AgreedKept, PTL DEF Spec

\* No choice enters the file before FEAT_Apply (featuresMenu.c) has put its
\* gadget on the bus: only toggle and a reset add to it, and toggle saves at the
\* end, what it has applied.
THEOREM SavedApplied == Spec => AppliedBeforeSaved
<1>1. Agreed /\ [Next]_vars => [AppliedStep]_vars
  <2> SUFFICES ASSUME Agreed, Next,
                      NEW c \in (onDisk' \ onDisk) \ {Gone}
               PROVE  \/ pc = "down" /\ c = {}
                      \/ /\ bound /\ functions = Script(c)
                         /\ image = "none" <=> "ramdisk" \notin c
    BY DEF AppliedStep
  <2>1. CASE Start
    <3>1. pc = "down" /\ (Write({}) \/ UNCHANGED file)
      BY <2>1 DEF Start
    <3>2. Write({})
      BY <3>1 DEF file
    <3>3. c \in {{}, Gone}
      BY <3>2, WriteStored DEF Agreed, Flags
    <3>4. QED  BY <3>1, <3>3
  <2>2. CASE Save
    <3>1. pc = "save" /\ Write(enabled)
      BY <2>2 DEF Save, SaveWanted, Saved
    <3>2. c = enabled
      BY <3>1, WriteStored DEF Agreed, Progress
    <3>3. QED  BY <3>1, <3>2 DEF Agreed, Progress
  <2>3. CASE WriteBack \/ PowerCut
    BY <2>3 DEF WriteBack, PowerCut, Agreed, Stored
  <2>4. CASE UNCHANGED file
    BY <2>4 DEF file
  <2>5. QED
    BY <2>1, <2>2, <2>3, <2>4
       DEF Next, Program, Apply, Close, Teardown, Setup, Bind, OpenCom, Profile, Acknowledge,
           OpenMenu, Toggle, Exit, LeaveShell
<1>2. QED  BY <1>1, AgreedInit, AgreedKept, PTL DEF Spec, AppliedBeforeSaved
-----------------------------------------------------------------------------
\* The types that are not Boolean and not part of Agreed.
Words ==
  /\ pc \in {"down", "close", "teardown", "script", "bind", "com", "save",
             "message", "menu", "profile", "shell"}
  /\ labels \in Flags \cup {Unset}
  /\ functions \subseteq {"acm", "mass_storage", "ecm"}
  /\ image \in {"none", "whole", "empty"}
  /\ cuts \in 0 .. MaxCuts /\ exits \in 0 .. MaxExits

\* The Boolean ones; .debugShell is made only where the root can be written.
Switches ==
  /\ notSaved \in BOOLEAN /\ bound \in BOOLEAN /\ comOpen \in BOOLEAN
  /\ writable \in BOOLEAN /\ debugFlag \in {FALSE, writable}

\* Every step keeps the words.
LEMMA WordsKept ==
  ASSUME Words, Agreed, [Next]_vars
  PROVE  Words'
<1> USE FeaturesAssumption DEF Words
<1>1. CASE Start \/ Close \/ Teardown \/ Bind \/ OpenCom \/ Save
  BY <1>1 DEF Start, Close, Teardown, ImageLeft, Bind, OpenCom, Save, gadget
<1>2. CASE Setup
  <2>1. functions' \subseteq {"acm", "mass_storage", "ecm"}
    BY <1>2 DEF Setup, Script, Agreed, Progress, Flags
  <2>2. QED  BY <1>2, <2>1 DEF Setup
<1>3. CASE Acknowledge \/ OpenMenu \/ Toggle
  BY <1>3 DEF Acknowledge, LabelsAfter, OpenMenu, Toggle, gadget, Agreed, Progress
<1>4. CASE Exit \/ Profile \/ LeaveShell \/ WriteBack
  <2>1. /\ UNCHANGED <<labels, functions, image, cuts>>
        /\ pc' \in {pc, "profile", "shell", "down"}
    BY <1>4 DEF Exit, Profile, LeaveShell, WriteBack, gadget
  <2>2. exits' = exits \/ (exits < MaxExits /\ exits' = exits + 1)
    BY <1>4 DEF Exit, Profile, LeaveShell, WriteBack
  <2>3. exits' \in 0 .. MaxExits
    BY <2>2
  <2>4. QED  BY <2>1, <2>3
<1>5. CASE PowerCut
  BY <1>5 DEF PowerCut
<1>6. CASE UNCHANGED vars
  BY <1>6 DEF vars, gadget
<1>7. QED
  BY <1>1, <1>2, <1>3, <1>4, <1>5, <1>6 DEF Next, Program, Apply

\* Every step keeps the switches.
LEMMA SwitchesKept ==
  ASSUME Switches, [Next]_vars
  PROVE  Switches'
<1> USE DEF Switches, gadget, shell, file
<1>1. CASE Start \/ Save
  <2>1. notSaved' \in {TRUE, FALSE, notSaved}
    BY <1>1, Zenon DEF Start, Save, Write
  <2>2. UNCHANGED <<bound, comOpen, writable, debugFlag>>
    BY <1>1, Zenon DEF Start, Save
  <2>3. QED  BY <2>1, <2>2, Zenon
<1>2. CASE Close \/ Teardown \/ Setup \/ Bind
  BY <1>2, Zenon DEF Close, Closed, Teardown, Setup, Bind
<1>3. CASE OpenCom
  <2>1. comOpen' = ("acm" \in functions)
    BY <1>3, Zenon DEF OpenCom
  <2>2. ("acm" \in functions) \in BOOLEAN
    OBVIOUS
  <2>3. comOpen' \in BOOLEAN
    BY <2>1, <2>2, Zenon
  <2>4. UNCHANGED <<notSaved, bound, writable, debugFlag>>
    BY <1>3, Zenon DEF OpenCom
  <2>5. QED  BY <2>3, <2>4, Zenon
<1>4. CASE Acknowledge \/ OpenMenu \/ Toggle \/ Profile
  BY <1>4, Zenon DEF Acknowledge, OpenMenu, Toggle, Profile
<1>5. CASE Exit
  BY <1>5, Zenon DEF Exit
<1>6. CASE LeaveShell
  BY <1>6, Zenon DEF LeaveShell
<1>7. CASE WriteBack \/ PowerCut \/ UNCHANGED vars
  BY <1>7, Zenon DEF WriteBack, PowerCut, vars
<1>8. QED
  BY <1>1, <1>2, <1>3, <1>4, <1>5, <1>6, <1>7, Zenon DEF Next, Program, Apply

\* The types of the variables: what is in force is always a set of features,
\* whatever a power cut left of the file, and .debugShell can exist only on a
\* root file system that is writable.
THEOREM TypeCorrect == Spec => []TypeOK
<1> DEFINE Typed == Agreed /\ Words /\ Switches
<1>1. Init => Typed
  <2>1. Init => Words
    BY FeaturesAssumption DEF Init, Words
  <2>2. Init => Switches
    BY Zenon DEF Init, Switches
  <2>3. QED  BY <2>1, <2>2, AgreedInit
<1>2. Typed /\ [Next]_vars => Typed'
  BY AgreedKept, WordsKept, SwitchesKept
<1>3. Typed => TypeOK
  BY DEF Agreed, Progress, Named, Stored, Words, Switches, TypeOK
<1>4. QED  BY <1>1, <1>2, <1>3, PTL DEF Spec
=============================================================================
