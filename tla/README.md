# Formal models of the Wii-Linux Switch Companion

TLA+ models of the program that runs on the Switch (`userspace-utils/src/menu`), of
the scripts it starts (`userspace-utils/src/usb`) and of its peer on the Wii
(`userspace-utils/src/client-app`), with TLC configurations and TLAPS proofs.
Paths below are relative to `src/userspace-utils/src/menu` unless they begin with
`src/`.

    tlc -config MCMenu.cfg MCMenu       # a run: every .cfg goes with the MC module of its name
    tlapm MenuProofs.tla                # the proofs of a module

## The system

One single-threaded process, the *menu*, started by a login shell on tty1 and
restarted when it ends. It draws menus, waits for input, sets up a USB gadget
with shell scripts and talks to a client app on the Wii over the gadget's serial
line. Everything concurrent is outside it: input devices, the USB line and the
peer, the kernel's write-back, the power, the supervisor.

| component | state | operations | interacts with |
|---|---|---|---|
| Menu navigation: `menu.c`, `input.c` INPUT_DoAction | `menu_t.selection` of each menu, `menuStack`, `menuStackIndex`, `STATE_CurMenu` | up, down, open, back, draw | the handlers of the entries; setup callbacks |
| Input and screen saver: `input.c` INPUT_Init, INPUT_Wait, `screen.c` | `fds`, `kbdFds`, `numKbdFds`, touch counter; per call `counter`, `dimmed`, `disabled`, `ev` | find the keyboards, poll, read one event per device, dim, darken, wake | evdev devices, the terminal, the backlight |
| Main loop and screens: `state.c`, handlers in `featuresMenu.c`, `deviceInfo.c`, `settings.c`, `update.c` | `STATE_NoMenuRefresh`, the terminal, the descriptor table | STATE_Run; screens that call INPUT_Wait again | INPUT_Wait redraws the menu behind their back |
| Brightness: `settings.c`, `screen.c` | `SCREEN_Brightness`, the editor's digits, sysfs files | edit a digit, choose, leave, dim | configuration |
| Configuration: `conf.c` | a six-line text file on the boot partition | CONF_Init, CONF_Write, CONF_Reset | brightness, features; power cuts |
| USB features: `featuresMenu.c`, `../usb/*.sh` | two flags, their menu entries' names, the gadget in configfs | FEAT_Apply, toggle, tear down, set up, bind | configuration, channel |
| Communication channel: `com.c` | descriptor, packet buffer, two device infos | COM_Init, COM_Shutdown, COM_Handshake | the client app |
| Device info: `deviceInfo.c`, `util.c` | the two records of `com.c` | gather, print | `/proc`, `/etc`; the handshake and COM_Shutdown write the same records |
| Client app: `../client-app/main.c` | one run of the handshake | | the host |
| Battery: `battery.c` | none intended; one leaked descriptor per call | read percent and rate | each redraw |
| Debugging menu: `debug.c`; update stub: `update.c` | | exit, screen entries | screen, supervisor |
| Restart and shutdown: `sys.c` | | `reboot`, `poweroff`, which return at once | kills the menu, unmounts |
| Supervisor: `src/files/profile`, agetty respawn of `src/mkrootfs.sh` | the flag file `.debugShell` | restart | exit code of the menu |
| Build scripts: `src/build-userspace.sh`, `src/mkrootfs.sh` | a download cache | fetch, check, unpack | network |

### What makes it right, and what is hard

* **Navigation.** "Back" has to show the parent as it was left. The code copies
  whole `menu_t` objects and then works *inside* the copies, so the current menu
  may be an element of the array the next push overwrites.
* **Input.** A press must be acted on exactly once, and with the screen lit.
  Events arrive between any two reads; whether the screen is dim is known only to
  locals of the call of INPUT_Wait that is waiting.
* **Screens.** A handler waits for a key below STATE_Run, in a second call of
  INPUT_Wait, which redraws the menu every 5 s unless a global flag forbids it.
  Each handler sets and clears the flag in a way of its own.
* **Brightness.** Single digits are edited and each intermediate value is applied
  at once; 0 and anything above 100 end the program at an assert.
* **Features.** Flags, file, gadget and entry names are four copies of one choice;
  the gadget outlives the process and the file outlives the power, and the write is
  not atomic.
* **Handshake.** Reads return what has arrived; no packet says which attempt it
  belongs to; both sides time out.
* **Configuration.** The file is read line by line into globals, so a bad line comes
  after good ones were taken over; it is truncated and rewritten in place, by a
  program that is cut off by the power or by the shutdown it asked for.
* **Battery.** Current and status are read at two moments, and the sign of the one
  depends on the other.
* **Builds.** Whether a download is needed is decided by the existence of a file
  that an interruption may have left damaged.
* **Limits.** A stack of ten menus, eight keyboards, a finite descriptor table.

## The modules

| module | models | state ↔ code |
|---|---|---|
| `MenuPath` | what the menus promise: a path from the main menu, each frame with its highlighted entry | abstract |
| `ScreenSaver` | what the screen saver promises: an idle screen dims, goes dark and stays dark until something happens, and a press finds it lit | abstract |
| `Menu` | `menu.c`, INPUT_DoAction | `selection` the static objects, `menuStack`/`menuStackIndex`, `curMenu` the address in STATE_CurMenu (a static object or a slot), `prepared` the menus whose setup has run |
| `Input` | INPUT_Init, INPUT_Wait, the backlight | `numKbdFds` keyboards found so far, `queue` undelivered events, `revents` the devices still to read in this iteration; actions `AddKeyboard`, `Poll`, `Timeout`, `ReadButton`, `ReadTouch`, `ReadKbd`, `EndScan`, `LeaveDark`, `Return` follow the code |
| `Battery` | `battery.c`, batStatus: operators on what the driver's files say | none |
| `MainLoop` | STATE_Run, the screens, taps, descriptors; extends `Battery` | `where` who called INPUT_Wait, `drawn` the terminal, `noMenuRefresh`, `leaked`, `currentlyTouched`/`touchCounter`, `battery` the driver and `status` what is drawn of it |
| `Display` | configureDisplay, `screen.c`, brightness in the file | `numbers`, `curNumberSel`, `isInNumber`, `backSelected`; `config`/`written` the file before and after write-back |
| `Choices` | what the configuration promises: a store of whole choices | abstract |
| `Config` | `conf.c`, its writers, `sys.c`, the ends of the program | `mem` the three globals, `file` the lines as the kernel has them, `onDisk` what a power cut may leave, `stopping` a shutdown was asked for; `pc` where the menu is |
| `Features` | main, FEAT_Apply, toggle, scripts, flags in the file, `src/files/profile` | `enabled`, `labels`, `config`/`onDisk`, `functions`/`bound`, `image` the disk image, `comOpen`, `debugFlag` the file `.debugShell`; `pc` is the step of the program |
| `Exchange` | what a handshake promises: whole infos of a session of the other side, and a success of the client only on one of the host | abstract |
| `Handshake` | COM_Handshake on both sides | `wire` and `avail` the line, `step` and `waiting` where each side is, `channel` whether there is a line, `timely` whether it is slow |
| `DeviceInfo` | DEV_GatherDeviceInfo, `util.c`, printDeviceInfo; extends `Handshake` | `failed` what a side does not find on its machine, `shown` the page it printed last; the two records are functions of what the handshake copied and of resets |
| `BuildCache` | the downloads of `src/build-userspace.sh` and `src/mkrootfs.sh` | `file`, `dir`: missing, damaged or whole; `arch` the machine; `pc` the step of the scripts |
| `MC*` | constants for TLC | |
| `MenuProofs`, `DisplayProofs`, `ConfigProofs`, `MainLoopProofs`, `InputProofs`, `FeaturesProofs`, `HandshakeProofs`, `BuildCacheProofs` | theorems | |

The modules meet at the calls of the program. `Menu` treats a handler as a leaf;
`MainLoop` says what a handler does to the terminal and the flag, and takes from
`Input` that a call ends with a press and from `Battery` what a redraw shows;
both implement `ScreenSaver`, the one over the devices and the other below the
screens, with the same count and the same light. `Config`, `Display` and `Features`
share the configuration file: `Config` has the whole of it and implements `Choices`,
the other two have the lines their handler reads and writes. All three write it as
CONF_Write does: it may not open, which the caller is told, or be truncated and stay
empty, which nobody is told.
`Features` decides when the channel exists, `Handshake` what happens on it, and
`DeviceInfo` runs every step of `Handshake` together with the page that a return
of COM_Handshake prints.
Definitions whose name has an underscore (`Pushed_StaticObject`) are variants of
the definition that follows them, with a bug the code could have had; nothing
uses them in the modules, they record how each property can fail.

## The runs

| run | instance | shows |
|---|---|---|
| `menu` | the menu tree of a DEBUG_FEATURES build, stack of 10 | no assert of `menu.c` fails (`NoAbort`), live slots and current menu stay a path (`Breadcrumbs`), no menu is drawn before its setup (`DrawnPrepared`), and `Menu` implements `MenuPath` (`PathSpec`) |
| `input` | 0 to 3 keyboards that may be unplugged, a table of 2, an uninitialised `ev` that looks like Enter, one failure of poll | presses are acted on lit (`AnsweredLit`), the backlight is at all times what the three locals of INPUT_Wait say (`LightFollows`), a read press is returned (`PressTaken`); with no keyboard or a full table a press is answered in the end, from the dark too (`ButtonsAnswered`); an idle screen goes dark (`IdleGoesDark`); `Input` implements `ScreenSaver` (`ScreenSaverSpec`); the table is never overrun (`TypeOK`) |
| `main_loop` | 7 spare descriptors; a battery that charges, discharges with either sign, or cannot be read | a screen stays on the terminal while it waits (`ScreenStays`), the idle redraw resumes after it (`MenuRefreshed`), the backlight obeys until descriptors run out (`LitWithSpare`), the status shown has the right charge and sign (`StatusTrue`), and `MainLoop` implements `ScreenSaver` (`ScreenSaverSpec`) |
| `display` | file missing or holding 57; writes that fail, or leave nothing | no assert of the editor fails, what is shown is applied and visible, no torn file yields a brightness of 0 (`BrightnessValid`) |
| `features` | both features, any file, 2 power cuts, 2 exits, failing writes, a full tmpfs, a root file system that is writable or not | menu, flags, gadget and disk image agree (`MenuShowsUsb`), the file holds no other choice than the one in force unless the user was told (`NoOtherChoice`), and none before it was on the bus (`AppliedBeforeSaved`); tearing down never waits for the program's own descriptor (`ToggleEnds`), and a menu that ended comes back, or the shell that was asked for, with every choice that has a channel (`ComesBackWithChannel`) |
| `handshake` | 3 attempts, 2 client runs, 1 toggle; packets whole and in time, or cut, delayed and left over; a line or none; each machine with all its files, or without some | device info is never torn or mixed (`WholeInfo`), after one timely attempt both sides agree (`Agreement`), a page shows as the target what the client gathered (`ShownTarget`), `Handshake` implements `Exchange`, in which the client succeeds only with the info of an attempt that has succeeded (`ExchangeSpec`), every attempt ends (`AttemptsEnd`) |
| `config` | six files: missing, good, edited by hand in four ways; failing writes | flags stay indices of the names (`TypeOK`), and `Config` implements `Choices` (`StoreSpec`) |
| `build_cache` | 2 packages, 3 failures; four kinds of machine | images are made of a root file system that matches its hash and of whole packages (`ImageWhole`), a damaged root file system is replaced (`RootfsHeals`) |
| `input_buttons` | one keyboard, a table of 2 | **violated**: see divergence 1 |
| `main_loop_wake` | as `main_loop` | **violated**: divergence 2 |
| `features_boot` | both features | **violated**: divergence 3 |
| `device_name` | one attempt, one client run | **violated**: divergence 4 |

### Bounds

* `MaxQueue = 4` events that the devices hold together: a packet of two for two
  devices, or one packet and a press that comes on top of another. Reads take one
  event per device and iteration, so longer queues only repeat the step.
* `MaxKbds = 2` with up to three keyboards: none, one, a full table and one keyboard
  too many; the keyboard the code never reads is the eighth of eight there and the
  second of two here. The keys are select, down and the keyboard's Enter; up
  differs from down in the value returned only.
* `DimAfter = 2` in `input` and `main_loop` instead of 10, as only "before, during and
  after dimming" differ; the five levels are all there in `input`, two in `main_loop`.
  `NagTouches` is 3 instead of 10: the counter and its reset are reached.
  `MaxErrors = 1` failure of poll.
* `Brightness = 57`: at any brightness below 100 the last of the five levels, 1 % of
  it, is rounded down to a backlight of 0, as in the dark, and at 57 the other four
  are four different values above. The theorems have every brightness of 0..100.
* `Spare = 7` stands for the thousand or so descriptors a process has: enough for a
  whole cycle of dimming before, and every step after, the last one is gone.
* The editor's values are not bounded: all of 1..100 are reached from 57. The debug
  build's three brightness entries are all there.
* `MaxCuts = 2`, `MaxExits = 2`: a cut during the start that follows a cut, and a start
  over a gadget that was left behind, with and without the debug shell.
* `MaxAttempts`, `MaxRuns`, `MaxResets`: leftovers of a first attempt meet a second and
  a third, on a line that was reset or not. `HdrSize = InfoSize = 2` is the least
  at which a header and an info can be cut. A machine has all that is looked for; or a
  name of its model in `/proc/cpuinfo` but no file of it; or neither, and no uname.
* `MaxUnsynced = 2` openings of the file before the kernel writes back: the file on
  disk may be of before either save. The user picks 57 in the editor; 100 is the
  default, and a cut 57 reads as 5.
* `MaxFailures = 3` downloads or runs that break off: one damaged part more than the
  two packages, so that a repaired one can be damaged again.

### Fairness

* `Input`: weak fairness of the program's steps taken together, since a process that
  is not blocked is scheduled, and a directory ends. The blocking read of the terminal
  and the poll without a timeout are guards, so fairness never carries the program past
  them. Nothing is assumed of the user or of unplugging; a failing poll is never forced.
* `Features`: weak fairness of the program, which includes agetty's respawn and the
  retry loop of `finalize` (the controller takes the gadget in the end). None for the
  user, the write-back or the power.
* `Handshake`, `DeviceInfo`: each side's receiving step (a blocked read wakes with data
  or after VTIME) and delivery by the USB stack. None for starting or toggling.
* `BuildCache`: the script goes on, and the developer starts it again when it has
  ended; failures are bounded, so they end. This is no promise of the code, but
  without it nothing can be said of a run after a failed one.
* `Menu`, `Display`, `MainLoop`, `Config` have no liveness property and no fairness.

Deadlock is checked except where the program really stops or blocks: `input` and
`input_buttons` (a read of the terminal that nothing answers), `handshake` and
`device_name` (the user stops after the last attempt).

## The proofs

All are checked by TLAPS, without unproved leaves.

**`MenuProofs`**, for every tree of menus that satisfies `MenuTree` (depths grow by one
along an entry, none exceeds the stack, only a submenu has "Back"): type correctness,
`NoAbort`, `Breadcrumbs`, `DrawnPrepared` and the refinement `Spec => PathSpec`.
`Breadcrumbs` is not inductive: a push overwrites a slot, and without knowing where
STATE_CurMenu points this could be the menu on screen or a live frame. The invariant
adds `Aliasing` (a slot that is current is the first *free* one, so a push writes the
menu on screen onto itself) and `Live` (the i-th frame is filled, at depth i of the
tree, prepared), which gives the bounds of the stack from the depth of the tree.
The lemmas `MovePath`, `EnterPath`, `LeavePath` say what each action does to the path;
both the invariant and the refinement follow from them.

**`DisplayProofs`**, for every percentage the file may hold at first: type correctness,
`NoAbort`, `ShownIsApplied`, `BrightnessValid`. The invariant adds that inside the
editor the digits are those of `brightness`, and that brightness and file are in
1..100. The lemmas are about the digits: `DigitsOfPercent` (taking a number apart and
putting it together), `IncreasedEditable`, `DecreasedEditable` (a key press keeps a
value in 1..100) and `CutPercent` (a number printed without leading zeros has no
prefix that is zero). `BootPercent` covers a start over a file that a failed write has left
empty: it resets, and the reset may fail in the same way.

Boolean flags and arithmetic are kept in separate conjuncts (`Flags`, `Core`), as the
provers handle them separately.

**`ConfigProofs`** proves that `Config` implements `Choices` (`Refinement`: `Spec =>
StoreSpec`), for every file the first start may find, every set of brightnesses the
user may pick and every number of changes that are not yet synced. The run has six
files and one brightness; the theorem has every sequence of integers. What makes it
true is what a start reads from a file, and the proof is built on that: a file that
ends before its sixth line is rejected as a whole (`LoadedShort`), so a truncated
one reads as the default choice (`LoadedEmpty`); a file that was written to its end
gives back what was in force (`LoadedText`); and what a power cut leaves of a write
reads as the default choice or as the same choice with digits of its brightness
missing (`LoadedCuts`), which is exactly what the store promises. Each action then
maps to one step of the store or to none (`StoreStep`). The inductive invariant adds
one fact to the types: without a program there is no choice in force (`OffBlank`),
without which the end of the program would be no step of the store. Zenon proves the
Boolean variable (`FlagKept`), SMT the rest. The only assumption is
`ConfigAssumption`.

**`MainLoopProofs`**, for every number of spare descriptors, every pair of dimming
times and every battery: `ScreenStays`, `MenuRefreshed`, `LitWithSpare`, the types,
`StatusTrue` and the refinement `Spec => ScreenSaverSpec`. `ScreenStays` follows from
what each handler has done to the terminal and to STATE_NoMenuRefresh by the time it
waits (`Waiting`), `LitWithSpare` from what the counter of the wait says about the
backlight. `StatusTrue` is about one step of the
program and two of the driver: it holds for every battery, as a negative current
under "Charging" counts neither as a charge nor as a discharge (`Charges`), and the
code shows it as it is. The refinement needs that `disabled` is
not set while INPUT_Wait polls with a timeout, and that nothing is dimmed when the
program starts (`Awake`).

**`InputProofs`**, for every list of keyboards, every table size, every brightness and
every content of the uninitialised event: `AnsweredLit`, `LightFollows`, the types,
among them that INPUT_Init stays inside its table, `PressTaken` and the refinement `Spec
=> ScreenSaverSpec`. The invariant is what the locals `dimmed` and `disabled` say of the
backlight, and that an event read belongs to the device it was read from. `PressTaken`
counts the presses a device holds by the cardinality of their places, so that taking the
first event is a bijection onto the rest and needs no induction. In the refinement a
timeout is a tick of the screen saver (`TimeoutTicks`) and a press that is read ends it
(`ReadPresses`); the light of the screen saver is read off the value of the backlight
(`Light`), so a level that is rounded down to nothing is off there as it is on the
panel, and `LightFollows` says which of the two waits it is in. The step that is not
obvious is the wait with a timeout while `disabled` is set: it can be entered only in
the iteration whose event has just ended the dark (`Lingering`), so nothing ticks there.

**`FeaturesProofs`**: `MenuShowsUsb`, `NoOtherChoice`, `AppliedBeforeSaved` and the
types, for every set of features and any number of power cuts and exits. The invariant
says for each step of main and toggle how far gadget, labels and file have come
(`Progress`, `Named`, `Written`, `Stored`), over whatever an earlier program left
behind. Only one lemma looks into CONF_Write (`WriteStored`): it leaves the choice,
nothing, or the file as it was and an error. `AppliedBeforeSaved` is an action property
and follows from `Progress` where `toggle` saves: a write adds nothing to what a cut
may leave but that choice and the empty file.

**`HandshakeProofs`**, for every size of a header and of a device info and any number of
attempts, runs and toggles: `WholeInfo`, `ShownTarget`, `Agreement`, the types and the
refinement `InfoSpec => ExchangeSpec`. The invariant is about what a side has still to
read, delivered or not (`Inbound`). Bytes are lost at the front only, at any place, and
whole packets are added at the end only; so two cells that can be of one packet are
(`Unbroken`), and the last packet is whole (`Ended`). Stated for two cells at any
distance this needs no induction. When a header was read whole, its data is next
(`DataNext`), and a second read of full length copies one info (`DataIsInfo`). For the
success of the client it adds that every info of the host on the line is of an attempt
that succeeded (`Told`), which holds as success is never taken back (`Fresh`).

`Agreement` needs to know where both sides are. When nothing is late, no feature is
toggled and the host has tried once, the exchange is at one of eight moments, from
`Called` (INIT_C on the line) to `Closed` (the client reads the last data), or it was
given up before the host's success, or it is over (`Course`). A moment says what each
side waits for and which packets, whole or half read, are on the line to it (`Holds`);
a read that has what it waits for leads to the next moment (`HeaderTurn`, `DataTurn`,
`HeaderOpens`), and a timeout is possible only where nobody has anything to read
(`NoTimeout`): before the client has started, never after the host has succeeded.

In the refinement a peer knows the session whose info it has (`Known`), which the
first cell of a whole info tells (`InfoFrom`). The host learns with the data it reads
and succeeds with the next packet; the client does both at once, and the header it has
read is of an attempt that had succeeded (`HeaderHeard`). Reads that fail, deliveries
and all packets in between are stutters or failures of the exchange
(`ReceiveExchanges`).

**`BuildCacheProofs`**, for every list of packages and any number of failures:
`ImageWhole` and the types. The invariant says for each place of the scripts what is
whole there (`Matched`, `Passed`), although an earlier run may have fetched it. It needs
that no package is listed twice (`BuildCacheAssumption`).

**Only model-checked**: the liveness properties, `ButtonsAnswered` and
`IdleGoesDark` of `Input`, `ToggleEnds` and `ComesBackWithChannel` of `Features`,
`AttemptsEnd` of `Handshake`, `RootfsHeals` of `BuildCache`; every other property that
a run checks and the code fulfils is a theorem. Liveness and ENABLED are out of the prover's
reach here, as is induction over data.

## Divergences between the code and what it says

Each of the first four is a violated run; the others were found while modelling,
and are in the models as they are in the code.

1. `input.c:249` reads `kbdFds[i - 2]` for the keyboard in `fds[i]` whose index is
   `i - 3`. A keyboard's events are never read; the last keyboard's turn reads
   descriptor 0, the terminal, and blocks until something is typed. `menu.h:32-33`
   promises buttons and keyboards.
2. `battery.c:19` returns without closing the file: each redraw leaks a descriptor,
   and when the table is full the backlight can no longer be opened. A dark screen
   stays dark, against "Wake screen on tap" (`src/README.md:66`).
3. `../usb/eth.sh` does not source `configs/com.sh`, against the comment at
   `featuresMenu.c:31`. `COM_Init` fails, but `toggle` saves the choice, so main
   returns 1 at every later start and is respawned for ever (`src/README.md:71`).
4. `deviceInfo.c:40,43` write the name of the menu's machine into the client's record;
   the page shows the host without a name (`src/README.md:74`). The stray name is
   never shown as the target's (`ShownTarget`).
5. `conf.c:117` ignores whether the lines could be written: on a full partition the
   file stays empty, as fopen has truncated it, and the screen says "Configuration
   saved." (`featuresMenu.c:86`). The file never holds *another* choice than the one in
   force (`NoOtherChoice`); the next start takes the default one.
6. `src/build-userspace.sh` fetches an archive again after a download that broke off, but
   wget does not overwrite: the part is unpacked (line 44) and what comes out of it is
   the toolchain from then on (line 32), against `src/README.md:27`, "will automatically
   download the Linaro toolchain".
7. The host's next attempt accepts an INIT_H that acknowledges an earlier attempt's
   INIT_C (`com.h:28`), as nothing empties the line.
8. `input.c:302` lights the screen and leaves `disabled` set: after an event that is
   no press the loop blocks without a timeout on a lit screen (comment at line 294).
   It then neither dims nor redraws until the next event (the exception in
   `IdleGoesDark`).
9. `update.c:18-32` does not set STATE_NoMenuRefresh: the idle redraw paints the menu
   over its prompt, and the next press is swallowed. (`ScreenStays` leaves it out.)
10. `screen.c:27` compares `val >= 0`: the panel is never powered off, against the
    comment at line 21.
11. `input.c:247` stops before the eighth keyboard; an unplugged keyboard makes poll
    return at once for ever, so the screen never dims (the other exception).
12. `conf.c:92` accepts a brightness of 0, which the editor's assert does not; the
    program itself never writes one (`BrightnessValid`), only an edit by hand can.
13. `battery.c:43,47` return the current in microamperes when the status cannot be
    read, and the menu shows it as milliamperes.
14. `../usb/configs/ramdisk.sh:12` ignores whether there was room for the disk image;
    toggling either feature removes the image and what the Wii had written to it
    (`../usb/teardown.sh:17`).
15. `src/userspace-utils/Makefile:9` sets CFLAGS anew and so drops the `--sysroot` that
    `src/build-userspace.sh:77,90` exports: the sysroot is fetched and never used, and a run
    that was interrupted before it was fetched (line 32) builds all the same.
16. A damaged package (`src/mkrootfs.sh:112`) makes every later run fail, as nothing removes
    it. That is safe (`ImageWhole`) and never healed.
17. `screen.c:46` and `screen.c:12` round down: at any brightness below 100 the last dim
    level, 1 %, is a backlight of 0. The screen is dark one timeout before it is
    "disabled" and while INPUT_Wait still counts (`LightFollows`).

## Not modelled

Drawing, colours and wording; the text of the device info; the inside of the gadget
scripts beyond functions, binding and disk image (ids, strings, MAC addresses,
failures of single commands, whose status nobody sees: FEAT_Apply's -1 and -2 cannot
be returned, as both scripts end with a command that succeeds); opening the buttons
and the panel when they are missing (main ends before anything runs); INPUT_Shutdown,
STATE_Shutdown and FEAT_Setup, which nothing reaches; what `mkrootfs.sh` does with the
unpacked files, a straight line of copying; `../usb/cleanup.sh`, which nothing
calls; boot files.

## Plan

1. The safety part of the liveness properties as invariants with proofs: that a
   teardown never meets the program's own descriptor, that an attempt on a line
   without a peer has nothing to wait for but its 5 s.
2. A composition of `Input` and `MainLoop` that replaces the abstract inputs of the
   latter, if its size allows; what they share is `ScreenSaver`.
