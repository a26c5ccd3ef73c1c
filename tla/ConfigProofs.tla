---------------------------- MODULE ConfigProofs ----------------------------
(***************************************************************************)
(* Proofs about the configuration file, for every file it may hold at      *)
(* first and every brightness the user may pick.                           *)
(*                                                                         *)
(* The argument goes through what a start would read: Loaded of the empty  *)
(* file is the default choice (LoadedEmpty), Loaded of a file that was     *)
(* written as a whole is what was in force (LoadedText), and Loaded of a   *)
(* part of such a file is the default choice or one with a shorter         *)
(* brightness (LoadedCuts).                                                *)
(***************************************************************************)
EXTENDS Config, TLAPS

\* What the file saves: two flags and a percentage.
Choice == [ramdisk : {0, 1}, networking : {0, 1}, brightness : 0 .. 100]

\* Without the program there is no choice in force.
OffBlank == pc = "off" => mem = Blank

\* The types that are not Boolean; Boolean variables are proved on their own.
Core ==
  /\ pc \in {"off", "menu", "applying", "editor", "saving"}
  /\ mem \in Choice
  /\ file \in Seq(Int) /\ onDisk \subseteq Seq(Int) /\ file \in onDisk
  /\ unsynced \in 0 .. MaxUnsynced
  /\ OffBlank

\* The inductive invariant: the types of all variables, and OffBlank.
IInv == TypeOK /\ OffBlank
-----------------------------------------------------------------------------
\* Whatever a file holds, the flags that CONF_Init leaves are 0 or 1 and the
\* brightness is a percentage.
LEMMA LoadedChoice ==
  ASSUME NEW f \in Seq(Int)
  PROVE  Loaded(f) \in Choice
<1>1. CASE Whole(f)
  <2>1. \A i \in 1 .. 5 : Good(f, i)
    BY <1>1 DEF Whole
  <2>2. f[1] \in 0 .. 1 /\ f[2] \in 0 .. 1 /\ f[5] \in 0 .. 100
    BY <2>1 DEF Good, Allowed
  <2>3. Loaded(f) = [ramdisk |-> f[1], networking |-> f[2], brightness |-> f[5]]
    BY <1>1, <2>1 DEF Loaded, Read
  <2>4. QED  BY <2>2, <2>3 DEF Choice
<1>2. CASE ~ Whole(f)
  BY <1>2 DEF Loaded, Reset, Default, Choice
<1>3. QED  BY <1>1, <1>2

\* A file that ends before its sixth line is rejected as a whole.
LEMMA LoadedShort ==
  ASSUME NEW f, 5 \notin DOMAIN f
  PROVE  Loaded(f) = Default
BY DEF Loaded, Whole, Good, Reset

\* The empty file that an opening leaves reads as the default choice.
LEMMA LoadedEmpty == Loaded(<<>>) = Default
BY LoadedShort

\* A file that was written as a whole gives back what was written.
LEMMA LoadedText ==
  ASSUME NEW c \in Choice
  PROVE  Text(c) \in Seq(Int) /\ Loaded(Text(c)) = c
<1> DEFINE t == Text(c)
<1>1. /\ t \in Seq(Int) /\ DOMAIN t = 1 .. 5
      /\ t[1] = c.ramdisk /\ t[2] = c.networking
      /\ t[3] = 0 /\ t[4] = 0 /\ t[5] = c.brightness
  BY DEF Text, Choice
<1>2. c.ramdisk \in 0 .. 1 /\ c.networking \in 0 .. 1 /\ c.brightness \in 0 .. 100
  BY DEF Choice
<1> HIDE DEF t
<1>3. Whole(t)
  <2>1. t[1] \in 0 .. 1 /\ t[2] \in 0 .. 1 /\ t[3] \in 0 .. 1 /\ t[4] \in 0 .. 1
    BY <1>1, <1>2
  <2>2. t[5] \in 0 .. 100
    BY <1>1, <1>2
  <2>3. ASSUME NEW i \in 1 .. 5 PROVE Good(t, i)
    <3>1. CASE i = 5
      BY <1>1, <2>2, <3>1 DEF Good, Allowed
    <3>2. CASE i # 5
      <4>1. i = 1 \/ i = 2 \/ i = 3 \/ i = 4
        BY <3>2
      <4>2. t[i] \in 0 .. 1
        BY <2>1, <4>1
      <4>3. QED  BY <1>1, <3>2, <4>2 DEF Good, Allowed
    <3>3. QED  BY <3>1, <3>2
  <2>4. QED  BY <2>3 DEF Whole
<1>4. Loaded(t) = [ramdisk |-> t[1], networking |-> t[2], brightness |-> t[5]]
  BY <1>3 DEF Loaded, Read, Whole
<1>5. c = [ramdisk |-> c.ramdisk, networking |-> c.networking, brightness |-> c.brightness]
  BY DEF Choice
<1>6. t \in Seq(Int) /\ Loaded(t) = c
  BY <1>1, <1>4, <1>5
<1>7. QED  BY <1>6 DEF t

\* A choice with digits missing is a choice.
LEMMA ShorterChoice ==
  ASSUME NEW c \in Choice, NEW b \in Prefixes(c.brightness)
  PROVE  [c EXCEPT !.brightness = b] \in Choice
<1>1. c.brightness \in 0 .. 100
  BY DEF Choice
<1>2. b \in 0 .. 100
  BY <1>1 DEF Prefixes
<1>3. QED  BY <1>2 DEF Choice

\* What a cut leaves of a file reads as what Choices.tla says remains.
LEMMA LoadedCuts ==
  ASSUME NEW c \in Choice
  PROVE  /\ Cuts(c) \subseteq Seq(Int) /\ Text(c) \in Cuts(c)
         /\ {Loaded(f) : f \in Cuts(c)} = Store!Remains(c)
<1> DEFINE Part(n) == [i \in 1 .. n |-> Text(c)[i]]
           With(b) == [c EXCEPT !.brightness = b]
<1>1. Cuts(c) = {Part(n) : n \in 0 .. 4} \cup {Text(With(b)) : b \in Prefixes(c.brightness)}
  BY DEF Cuts
<1>2. \A n \in 0 .. 4 : Part(n) \in Seq(Int) /\ Loaded(Part(n)) = Default
  <2> SUFFICES ASSUME NEW n \in 0 .. 4
               PROVE  Part(n) \in Seq(Int) /\ Loaded(Part(n)) = Default
    OBVIOUS
  <2>1. \A i \in 1 .. n : Text(c)[i] \in Int
    BY DEF Text, Choice
  <2>2. Part(n) \in Seq(Int)
    BY <2>1
  <2>3. 5 \notin DOMAIN Part(n)
    OBVIOUS
  <2>4. QED  BY <2>2, <2>3, LoadedShort
<1>3. \A b \in Prefixes(c.brightness) :
        Text(With(b)) \in Seq(Int) /\ Loaded(Text(With(b))) = With(b)
  BY ShorterChoice, LoadedText
<1>4. c.brightness \in Prefixes(c.brightness) /\ With(c.brightness) = c
  BY DEF Prefixes, Choice
<1>5. Store!Remains(c) = {Default} \cup {With(b) : b \in Prefixes(c.brightness)}
  BY DEF Store!Remains, Store!Prefixes, Prefixes, Store!Default, Default
<1> HIDE DEF Part, With
<1>6. {Loaded(f) : f \in Cuts(c)} = Store!Remains(c)
  <2>1. \A f \in Cuts(c) : Loaded(f) \in Store!Remains(c)
    BY <1>1, <1>2, <1>3, <1>5
  <2>2. \A r \in Store!Remains(c) : \E f \in Cuts(c) : Loaded(f) = r
    <3>1. Part(0) \in Cuts(c) /\ Loaded(Part(0)) = Default
      BY <1>1, <1>2
    <3>2. QED  BY <1>1, <1>3, <1>5, <3>1
  <2>3. QED  BY <2>1, <2>2
<1>7. QED  BY <1>1, <1>2, <1>3, <1>4, <1>6
-----------------------------------------------------------------------------
\* The file and what a power cut may leave of it.
Disk ==
  /\ file \in Seq(Int) /\ onDisk \subseteq Seq(Int) /\ file \in onDisk
  /\ unsynced \in 0 .. MaxUnsynced

\* Each way the file changes keeps its types.
LEMMA DiskKept ==
  ASSUME Disk, mem \in Choice, OpenFile \/ FinishWrite \/ Settle \/ PowerCut \/ UNCHANGED disk
  PROVE  Disk'
<1> USE ConfigAssumption DEF Disk
<1>1. CASE OpenFile
  <2>1. file' = <<>> /\ onDisk' = onDisk \cup {<<>>}
    BY <1>1 DEF OpenFile
  <2>2. <<>> \in Seq(Int)
    OBVIOUS
  <2>3. unsynced' \in 0 .. MaxUnsynced
    BY <1>1 DEF OpenFile
  <2>4. QED  BY <2>1, <2>2, <2>3
<1>2. CASE FinishWrite
  <2>1. CASE file' = Text(mem) /\ onDisk' = onDisk \cup Cuts(mem)
    <3>1. Text(mem) \in Seq(Int) /\ Text(mem) \in Cuts(mem) /\ Cuts(mem) \subseteq Seq(Int)
      BY LoadedText, LoadedCuts
    <3>2. QED  BY <1>2, <2>1, <3>1 DEF FinishWrite
  <2>2. CASE UNCHANGED <<file, onDisk>>
    BY <1>2, <2>2 DEF FinishWrite
  <2>3. QED  BY <1>2, <2>1, <2>2 DEF FinishWrite
<1>3. CASE Settle
  BY <1>3 DEF Settle
<1>4. CASE PowerCut
  BY <1>4 DEF PowerCut
<1>5. CASE UNCHANGED disk
  BY <1>5 DEF disk
<1>6. QED  BY <1>1, <1>2, <1>3, <1>4, <1>5

\* What a program holds before it reads the file is a choice.
LEMMA BlankChoice == Blank \in Choice
BY DEF Blank, Choice

\* Every step keeps the types, and leaves no choice in force without a program.
LEMMA CoreKept ==
  ASSUME Core, [Next]_vars
  PROVE  Core'
<1> USE DEF Core, OffBlank, Disk
<1>1. CASE Start \/ StartReset
  <2>1. Loaded(file) \in Choice
    BY LoadedChoice
  <2>2. Disk'
    BY <1>1, DiskKept DEF Start, StartReset, CannotOpen
  <2>3. (pc' = "off" /\ mem' = Blank) \/ (pc' \in {"menu", "saving"} /\ mem' \in Choice)
    BY <1>1, <2>1 DEF Start, StartReset, OpenFile, Die
  <2>4. QED  BY <2>2, <2>3, BlankChoice
<1>2. CASE Toggle \/ SetBrightness
  <2>1. Disk'
    BY <1>2, DiskKept DEF Toggle, SetBrightness
  <2>2. pc' \in {"menu", "applying", "editor"}
    BY <1>2 DEF Toggle, SetBrightness
  <2>3. mem' = [mem EXCEPT !.ramdisk = 1 - @]
        \/ mem' = [mem EXCEPT !.networking = 1 - @]
        \/ \E b \in 1 .. 100 : mem' = [mem EXCEPT !.brightness = b]
    BY <1>2, ConfigAssumption DEF Toggle, SetBrightness
  <2>4. mem' \in Choice
    <3>1. /\ 1 - mem.ramdisk \in {0, 1} /\ 1 - mem.networking \in {0, 1}
          /\ 1 .. 100 \subseteq 0 .. 100
      BY DEF Choice
    <3>2. CASE mem' = [mem EXCEPT !.ramdisk = 1 - @]
      BY <3>1, <3>2 DEF Choice
    <3>3. CASE mem' = [mem EXCEPT !.networking = 1 - @]
      BY <3>1, <3>3 DEF Choice
    <3>4. CASE \E b \in 1 .. 100 : mem' = [mem EXCEPT !.brightness = b]
      BY <3>1, <3>4 DEF Choice
    <3>5. QED  BY <2>3, <3>2, <3>3, <3>4
  <2>5. QED  BY <2>1, <2>2, <2>4
<1>3. CASE OpenEditor \/ Reboot \/ End
  <2>1. Disk'
    BY <1>3, DiskKept DEF OpenEditor, Reboot, End
  <2>2. (pc' = "off" /\ mem' = Blank) \/ (pc' \in {"menu", "editor"} /\ mem' = mem)
    <3>1. OpenEditor => (pc' = "off" /\ mem' = Blank) \/ (pc' = "editor" /\ mem' = mem)
      BY DEF OpenEditor, Die
    <3>2. Reboot => pc' = "menu" /\ mem' = mem
      BY Zenon DEF Reboot
    <3>3. End => pc' = "off" /\ mem' = Blank
      BY Zenon DEF End, Die
    <3>4. QED  BY <1>3, <3>1, <3>2, <3>3
  <2>3. QED  BY <2>1, <2>2, BlankChoice
<1>4. CASE BeginWrite \/ FinishWrite
  <2>1. Disk'
    BY <1>4, DiskKept DEF BeginWrite, CannotOpen
  <2>2. pc' \in {"menu", "saving"} /\ mem' = mem
    BY <1>4 DEF BeginWrite, FinishWrite, OpenFile
  <2>3. QED  BY <2>1, <2>2
<1>5. CASE Halt \/ WriteBack
  <2>1. Disk'
    BY <1>5, DiskKept DEF Halt, WriteBack
  <2>2. QED  BY <1>5, <2>1 DEF Halt, WriteBack
<1>6. CASE PowerCut
  <2>1. Disk'
    BY <1>6, DiskKept
  <2>2. QED  BY <1>6, <2>1, BlankChoice DEF PowerCut, Die
<1>7. CASE UNCHANGED vars
  BY <1>7 DEF vars, disk
<1>8. QED
  BY <1>1, <1>2, <1>3, <1>4, <1>5, <1>6, <1>7 DEF Next

\* The flag that says a restart was asked for stays Boolean.
LEMMA FlagKept ==
  ASSUME stopping \in BOOLEAN, [Next]_vars
  PROVE  stopping' \in BOOLEAN
<1>1. CASE Start \/ StartReset \/ Toggle \/ OpenEditor \/ SetBrightness \/ BeginWrite
  BY <1>1 DEF Start, StartReset, Toggle, OpenEditor, SetBrightness, BeginWrite
<1>2. CASE FinishWrite \/ Reboot \/ End \/ Halt \/ WriteBack \/ PowerCut
  BY <1>2, Zenon DEF FinishWrite, Reboot, End, Halt, WriteBack, PowerCut
<1>3. CASE UNCHANGED vars
  BY <1>3 DEF vars
<1>4. QED  BY <1>1, <1>2, <1>3 DEF Next

\* The inductive invariant: the types, and no choice without a program.
THEOREM Invariance == Spec => []IInv
<1>1. Init => Core
  BY BlankChoice, ConfigAssumption DEF Init, Core, OffBlank
<1>2. Init => stopping \in BOOLEAN
  BY Zenon DEF Init
<1>3. Core /\ stopping \in BOOLEAN <=> IInv
  BY DEF Core, IInv, TypeOK, Choice
<1>4. IInv /\ [Next]_vars => IInv'
  <2> SUFFICES ASSUME IInv, [Next]_vars PROVE IInv'
    OBVIOUS
  <2>1. Core' /\ stopping' \in BOOLEAN
    BY <1>3, CoreKept, FlagKept
  <2>2. QED  BY <2>1 DEF Core, IInv, TypeOK, Choice, OffBlank
<1>5. Init => IInv
  BY <1>1, <1>2, <1>3
<1>6. QED  BY <1>4, <1>5, PTL DEF Spec

\* Whatever the file holds, the flags in use are indices of the two names of
\* their feature and the brightness is a percentage.
THEOREM TypeCorrect == Spec => []TypeOK
<1>1. IInv => TypeOK
  BY DEF IInv
<1>2. QED  BY <1>1, Invariance, PTL
-----------------------------------------------------------------------------
\* What a start would find, and what a power cut may leave.
Found == Loaded(file)
Left == {Loaded(f) : f \in onDisk}

\* A first start finds the file, and nothing else may be left of it.
LEMMA StoreInit == Init => Store!Init
<1> SUFFICES ASSUME Init PROVE Store!Init
  OBVIOUS
<1>1. Found \in Choice /\ Left = {Found}
  BY LoadedChoice, ConfigAssumption DEF Init, Found, Left
<1>2. QED
  BY <1>1 DEF Init, Found, Left, Store!Init, Store!Choice, Choice, Store!Blank, Blank

\* How each way the file changes looks to the store.
LEMMA StoreDisk ==
  ASSUME Core
  PROVE  /\ Found \in Left
         /\ OpenFile => Found' = Default /\ Left' = Left \cup {Default}
         /\ UNCHANGED <<file, onDisk>> => Found' = Found /\ Left' = Left
         /\ file' = Text(mem) /\ onDisk' = onDisk \cup Cuts(mem)
              => Found' = mem /\ Left' = Left \cup Store!Remains(mem)
         /\ Settle => Found' = Found /\ Left' = {Found}
         /\ PowerCut => Found' \in Left /\ Left' = {Found'}
<1>1. Found \in Left
  BY DEF Core, Found, Left
<1>2. ASSUME OpenFile PROVE Found' = Default /\ Left' = Left \cup {Default}
  <2>1. file' = <<>> /\ onDisk' = onDisk \cup {<<>>}
    BY <1>2 DEF OpenFile
  <2>2. Left' = Left \cup {Loaded(<<>>)}
    BY <2>1 DEF Left
  <2>3. QED  BY <2>1, <2>2, LoadedEmpty DEF Found
<1>3. ASSUME UNCHANGED <<file, onDisk>> PROVE Found' = Found /\ Left' = Left
  BY <1>3 DEF Found, Left
<1>4. ASSUME file' = Text(mem), onDisk' = onDisk \cup Cuts(mem)
      PROVE  Found' = mem /\ Left' = Left \cup Store!Remains(mem)
  <2>1. mem \in Choice
    BY DEF Core
  <2>2. Left' = Left \cup {Loaded(f) : f \in Cuts(mem)}
    BY <1>4 DEF Left
  <2>3. QED  BY <1>4, <2>1, <2>2, LoadedText, LoadedCuts DEF Found
<1>5. ASSUME Settle PROVE Found' = Found /\ Left' = {Found}
  BY <1>5 DEF Settle, Found, Left
<1>6. ASSUME PowerCut PROVE Found' \in Left /\ Left' = {Found'}
  BY <1>6 DEF PowerCut, Found, Left
<1>7. QED  BY <1>1, <1>2, <1>3, <1>4, <1>5, <1>6

\* A choice that was written whole is among what a cut may leave of it.
LEMMA OwnRemains ==
  ASSUME NEW c \in Store!Choice
  PROVE  c \in Store!Remains(c)
<1>1. c.brightness \in Store!Prefixes(c.brightness)
  BY DEF Store!Choice, Store!Prefixes
<1>2. c = [c EXCEPT !.brightness = c.brightness]
  BY DEF Store!Choice
<1>3. QED  BY <1>1, <1>2 DEF Store!Remains

\* Every step is a step of the store or leaves it alone.
LEMMA StoreStep == IInv /\ [Next]_vars => [Store!Next]_(Store!vars)
<1> SUFFICES ASSUME IInv, [Next]_vars PROVE [Store!Next]_(Store!vars)
  OBVIOUS
<1>1. Core /\ mem \in Store!Choice /\ mem' \in Store!Choice
  <2>1. Core
    BY DEF IInv, TypeOK, Core, Choice
  <2>2. Core'
    BY <2>1, CoreKept
  <2>3. QED  BY <2>1, <2>2 DEF Core, Choice, Store!Choice
<1>2. /\ Store!Blank = Blank /\ Store!Default = Default
      /\ OffBlank
  BY <1>1 DEF Store!Blank, Blank, Store!Default, Default, Core
<1>3. CASE Start
  <2>1. Found' = Found /\ Left' = Left
    BY <1>1, <1>3, StoreDisk DEF Start, disk
  <2>2. Store!Load
    BY <1>3, <2>1 DEF Start, Store!Load, Found, Left
  <2>3. QED  BY <2>2 DEF Store!Next
<1>4. CASE StartReset
  <2>1. CASE mem' = Loaded(file) /\ OpenFile
    <3>1. Found = Default
      BY <1>4 DEF StartReset, Found, Loaded, Reset
    <3>2. Found' = Found /\ Left' = Left
      BY <1>1, <2>1, <3>1, StoreDisk
    <3>3. pc = "off" /\ pc' = "saving"
      BY <1>4, <2>1 DEF StartReset, OpenFile
    <3>4. Store!Load
      BY <2>1, <3>2, <3>3 DEF Store!Load, Found, Left
    <3>5. QED  BY <3>4 DEF Store!Next
  <2>2. CASE Die /\ CannotOpen
    <3>1. pc = "off" /\ pc' = "off" /\ mem' = mem
      BY <1>2, <1>4, <2>2 DEF StartReset, Die, OffBlank
    <3>2. Found' = Found /\ Left' = Left
      BY <1>1, <2>2, StoreDisk DEF CannotOpen, disk
    <3>3. QED  BY <3>1, <3>2 DEF Store!vars, Found, Left
  <2>3. QED  BY <1>4, <2>1, <2>2 DEF StartReset
<1>5. CASE Toggle \/ SetBrightness
  <2>1. Found' = Found /\ Left' = Left
    BY <1>1, <1>5, StoreDisk DEF Toggle, SetBrightness, disk
  <2>2. pc # "off" /\ pc' # "off"
    BY <1>5 DEF Toggle, SetBrightness
  <2>3. Store!Alter
    BY <1>1, <2>1, <2>2 DEF Store!Alter, Found, Left
  <2>4. QED  BY <2>3 DEF Store!Next
<1>6. CASE OpenEditor \/ Reboot \/ End
  <2>1. Found' = Found /\ Left' = Left
    BY <1>1, <1>6, StoreDisk DEF OpenEditor, Reboot, End, disk
  <2>2. /\ pc # "off"
        /\ (pc' = "off" /\ mem' = Blank) \/ (pc' # "off" /\ mem' = mem)
    <3>1. OpenEditor => pc # "off" /\ ((pc' = "off" /\ mem' = Blank) \/ (pc' # "off" /\ mem' = mem))
      BY DEF OpenEditor, Die
    <3>2. Reboot => pc # "off" /\ pc' # "off" /\ mem' = mem
      BY DEF Reboot
    <3>3. End => pc # "off" /\ pc' = "off" /\ mem' = Blank
      BY DEF End, Die
    <3>4. QED  BY <1>6, <3>1, <3>2, <3>3
  <2>3. CASE pc' = "off" /\ mem' = Blank
    <3>1. Store!Stop
      BY <1>2, <2>1, <2>2, <2>3 DEF Store!Stop, Found, Left
    <3>2. QED  BY <3>1 DEF Store!Next
  <2>4. CASE pc' # "off" /\ mem' = mem
    BY <2>1, <2>2, <2>4 DEF Store!vars, Found, Left
  <2>5. QED  BY <2>2, <2>3, <2>4
<1>7. CASE BeginWrite
  <2>1. pc # "off" /\ mem' = mem
    BY <1>7 DEF BeginWrite
  <2>2. CASE OpenFile
    <3>1. Found' = Default /\ Left' = Left \cup {Default} /\ pc' # "off"
      BY <1>1, <2>2, StoreDisk DEF OpenFile
    <3>2. Store!BeginSave
      BY <1>2, <2>1, <3>1 DEF Store!BeginSave, Found, Left
    <3>3. QED  BY <3>2 DEF Store!Next
  <2>3. CASE CannotOpen /\ pc' = "menu"
    <3>1. Found' = Found /\ Left' = Left
      BY <1>1, <2>3, StoreDisk DEF CannotOpen, disk
    <3>2. QED  BY <2>1, <2>3, <3>1 DEF Store!vars, Found, Left
  <2>4. QED  BY <1>7, <2>2, <2>3 DEF BeginWrite
<1>8. CASE FinishWrite
  <2>1. pc # "off" /\ pc' # "off" /\ mem' = mem
    BY <1>8 DEF FinishWrite
  <2>2. CASE file' = Text(mem) /\ onDisk' = onDisk \cup Cuts(mem)
    <3>1. Found' = mem /\ Left' = Left \cup Store!Remains(mem)
      BY <1>1, <2>2, StoreDisk
    <3>2. mem \in Store!Remains(mem)
      BY <1>1, OwnRemains
    <3>3. Store!Save
      BY <2>1, <3>1, <3>2 DEF Store!Save, Found, Left
    <3>4. QED  BY <3>3 DEF Store!Next
  <2>3. CASE UNCHANGED <<file, onDisk>>
    <3>1. Found' = Found /\ Left' = Left
      BY <1>1, <2>3, StoreDisk
    <3>2. QED  BY <2>1, <3>1 DEF Store!vars, Found, Left
  <2>4. QED  BY <1>8, <2>2, <2>3 DEF FinishWrite
<1>9. CASE Halt \/ WriteBack
  <2>1. Settle /\ pc' = pc /\ mem' = mem
    BY <1>9 DEF Halt, WriteBack
  <2>2. Found' = Found /\ Left' = {Found}
    BY <1>1, <2>1, StoreDisk
  <2>3. Store!Settle
    BY <2>1, <2>2 DEF Store!Settle, Found, Left
  <2>4. QED  BY <2>3 DEF Store!Next
<1>10. CASE PowerCut
  <2>1. pc' = "off" /\ mem' = Blank
    BY <1>10 DEF PowerCut, Die
  <2>2. Found' \in Left /\ Left' = {Found'}
    BY <1>1, <1>10, StoreDisk
  <2>3. Store!PowerCut
    BY <1>2, <2>1, <2>2 DEF Store!PowerCut, Found, Left
  <2>4. QED  BY <2>3 DEF Store!Next
<1>11. CASE UNCHANGED vars
  <2>1. Found' = Found /\ Left' = Left
    BY <1>1, <1>11, StoreDisk DEF vars, disk
  <2>2. QED  BY <1>11, <2>1 DEF vars, Store!vars, Found, Left
<1>12. QED
  BY <1>3, <1>4, <1>5, <1>6, <1>7, <1>8, <1>9, <1>10, <1>11 DEF Next

\* The file, its early resets and its writes in place implement a store of whole
\* choices: no start ever works with parts of two of them.
THEOREM Refinement == Spec => StoreSpec
<1>1. QED  BY StoreInit, StoreStep, Invariance, PTL DEF Spec, StoreSpec, Store!Spec
=============================================================================
