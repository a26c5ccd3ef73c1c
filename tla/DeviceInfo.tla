----------------------------- MODULE DeviceInfo -----------------------------
(***************************************************************************)
(* The "Device Info" page of the menu and of the client app: what each     *)
(* gathers about its machine (DEV_GatherDeviceInfo of deviceInfo.c, util.c)*)
(* and what printDeviceInfo shows once the handshake of Handshake.tla has  *)
(* returned.                                                               *)
(*                                                                         *)
(* Both programs have two records, one for the host and one for the        *)
(* client, and gather before the first handshake.  The menu writes the     *)
(* name of its machine into the client's record, which COM_Shutdown clears *)
(* and a handshake overwrites.                                             *)
(*                                                                         *)
(* Abstracted: a field is the side it tells of, or what stands for the     *)
(* lack of it; every run of the client finds the same machine.             *)
(***************************************************************************)
EXTENDS Handshake

CONSTANT Failures   \* the sets of Inputs that may be missing together

\* What is looked for: two lines of /proc/cpuinfo, which is without them or cannot
\* be opened, the file of the model, uname, and /etc/os-release.
Inputs == {"cpu name", "machine", "model", "uname", "release"}
ASSUME DeviceInfoAssumption == Failures # {} /\ Failures \subseteq SUBSET Inputs

VARIABLES
  failed,  \* failed[p]: what p does not find on its machine
  shown    \* shown[p]: the page p printed last

allVars == <<vars, failed, shown>>
-----------------------------------------------------------------------------
\* A comDeviceInfo_t that is all zero.
Empty ==
  [model |-> "", cpu |-> "", mem |-> "", kernel |-> "", distro |-> "", arch |-> ""]

\* UTIL_GetModelFromCPUInfo, which only the client has; UTIL_GetCPUName, with
\* the number of cores added.
ModelInCPUInfo(p) == p = "client" /\ "machine" \notin failed[p]
CPUName(p) == IF "cpu name" \in failed[p] THEN "cores only" ELSE p

\* The name of the machine.
Model(p) ==
  IF "model" \in failed[p] /\ ~ ModelInCPUInfo(p) THEN "Unknown" ELSE p

\* The other fields, which are filled in order; the first failure ends it.
Fields(p) ==
  LET uname == "uname" \notin failed[p]
      release == uname /\ "release" \notin failed[p]
  IN  [Empty EXCEPT
         !.cpu = CPUName(p),
         !.mem = p,
         !.kernel = IF uname THEN p ELSE "",
         !.distro = IF release THEN p ELSE "",
         !.arch = IF release THEN p ELSE ""]

\* What the client gathers, and the two records of the menu after gathering.
ClientGathered == [Fields("client") EXCEPT !.model = Model("client")]
MenuHostInfo == Fields("host")
MenuClientInfo == [Empty EXCEPT !.model = Model("host")]

\* comHostDeviceInfo and comClientDeviceInfo of p: a handshake copies the
\* peer's record, COM_Shutdown clears the client's.
HostInfo(p) == IF p = "host" \/ info[p] # <<>> THEN MenuHostInfo ELSE Empty
ClientInfo(p) ==
  IF p = "client" \/ info[p] # <<>> THEN ClientGathered
  ELSE IF resets > 0 THEN Empty ELSE MenuClientInfo

\* printDeviceInfo, when COM_Handshake has returned r.
NoTarget == [error |-> TRUE]
Target_Unchecked(p, r) == ClientInfo(p)
Target(p, r) == IF r = "OK" THEN ClientInfo(p) ELSE NoTarget
Page(p) == [host |-> HostInfo(p), target |-> Target(p, result[p][session[p]])]
NoPage == [host |-> Empty, target |-> NoTarget]
-----------------------------------------------------------------------------
InfoInit ==
  /\ Init
  /\ failed \in [Peers -> Failures]
  /\ shown = [p \in Peers |-> NoPage]

\* A page is printed whenever a handshake returns.
ShowPage == shown' = [p \in Peers |-> IF result'[p] # result[p] THEN Page(p)' ELSE shown[p]]

InfoNext == Next /\ UNCHANGED failed /\ ShowPage

InfoSpec == InfoInit /\ [][InfoNext]_allVars /\ Fairness
-----------------------------------------------------------------------------
\* What the menu and the client show of the target is what the client gathered,
\* never the name of the menu's own machine that waits in the same record; and a
\* page with a target shows the host as the menu knows it.
ShownTarget ==
  \A p \in Peers : shown[p].target # NoTarget =>
    shown[p] = [host |-> MenuHostInfo, target |-> ClientGathered]

\* "Reports host device info" (README.md:74): the page of the menu names the
\* machine it runs on.
HostNamed == shown["host"] # NoPage => shown["host"].host.model = Model("host")
=============================================================================
