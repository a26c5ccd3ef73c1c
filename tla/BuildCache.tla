----------------------------- MODULE BuildCache -----------------------------
(***************************************************************************)
(* The downloads of build-userspace.sh and mkrootfs.sh, which a developer  *)
(* starts again after every failure.                                       *)
(*                                                                         *)
(* Whether something has to be fetched is decided by its mere existence.   *)
(* A download that fails or is interrupted leaves a part of a file, and an *)
(* unpacking a part of a directory; only the root file system has a hash.  *)
(* wget does not overwrite: it saves a second copy under another name,     *)
(* which nobody reads.  build-userspace.sh ignores the results of tar and  *)
(* mv, mkrootfs.sh (set -e) ends at the first command that fails.          *)
(*                                                                         *)
(* Abstracted: a file or a directory is missing, damaged or whole; a ppc   *)
(* machine runs a distribution with pacman or another one; what mkrootfs.sh*)
(* does with the unpacked files.  External: wget, tar, make.               *)
(***************************************************************************)
EXTENDS Naturals, Sequences

CONSTANTS
  Debs,         \* the packages, in the order they are fetched
  MaxFailures   \* bound: downloads that fail, and interruptions

\* What is not a package: the other downloads and the other steps.
OtherFiles == {"gcc", "sysroot", "hash", "rootfs"}
OtherSteps == {"start", "untar gcc", "mv", "pacman", "getSysroot", "untar sysroot",
               "make", "check", "image"}

\* No package is fetched twice.
ASSUME BuildCacheAssumption ==
  /\ Debs \in Seq(STRING) /\ MaxFailures \in Nat
  /\ \A i \in DOMAIN Debs : Debs[i] \notin OtherFiles \cup OtherSteps
  /\ \A i, j \in DOMAIN Debs : Debs[i] = Debs[j] => i = j

VARIABLES
  arch,      \* the machine that builds, "ppc other" if it lacks pacman
  pc,
  file,      \* the files in downloads
  dir,       \* the directories: "unpacked" before mv, "linaro", "sysroot"
  failures

vars == <<arch, pc, file, dir, failures>>

Files == OtherFiles \cup {Debs[i] : i \in DOMAIN Debs}
Dirs == {"unpacked", "linaro", "sysroot"}
States == {"none", "part", "whole"}
Machines == {"x86_64", "aarch64", "ppc", "ppc other"}

DebStep(i) == IF i > Len(Debs) THEN "image" ELSE Debs[i]
Steps == OtherSteps \cup Files
-----------------------------------------------------------------------------
\* Nothing was fetched yet; a ppc machine may have the compiler installed.
Init ==
  /\ arch \in Machines
  /\ pc = "start"
  /\ file = [f \in Files |-> "none"]
  /\ \E installed \in {"none"} \cup (IF arch \in {"ppc", "ppc other"} THEN {"whole"} ELSE {}) :
       dir = [d \in Dirs |-> IF d = "linaro" THEN installed ELSE "none"]
  /\ failures = 0

Go(from, to) == pc = from /\ pc' = to

\* wget ends well.  What is there already is kept: by a test for it, or
\* because wget saves the new copy under another name.
Fetch(f, next) ==
  /\ Go(f, next)
  /\ file' = [file EXCEPT ![f] = IF @ = "none" THEN "whole" ELSE @]
  /\ UNCHANGED <<arch, dir, failures>>

\* What a failed download leaves of all files.
Cleanup(left, f) ==
  IF f = "rootfs" THEN [left EXCEPT !["hash"] = "none"]
  ELSE IF f \in {Debs[i] : i \in DOMAIN Debs} THEN [left EXCEPT ![f] = "none"]
  ELSE left

\* wget is needed and fails.
FetchFails(f) ==
  /\ Go(f, "start")
  /\ f \in {"gcc", "sysroot"} \/ file[f] = "none"
  /\ failures < MaxFailures /\ failures' = failures + 1
  /\ \E left \in {"none", "part"} :
       file' = Cleanup(IF file[f] = "none" THEN [file EXCEPT ![f] = left] ELSE file, f)
  /\ UNCHANGED <<arch, dir>>

\* The developer or the power ends the script, in the middle of a step.
Interrupt ==
  /\ pc # "start" /\ pc' = "start"
  /\ failures < MaxFailures /\ failures' = failures + 1
  /\ file' \in {file} \cup
       {[file EXCEPT ![f] = "part"] : f \in {pc} \cap {g \in Files : file[g] = "none"}}
  /\ dir' \in {dir} \cup
       (IF pc = "untar gcc" THEN {[dir EXCEPT !["unpacked"] = "part"]}
        ELSE IF pc = "untar sysroot" THEN {[dir EXCEPT !["sysroot"] = "part"]}
        ELSE {})
  /\ UNCHANGED arch

\* checkLinaro, checkPPCToolchain: whether the compiler has to be fetched.
CheckCompiler ==
  /\ pc = "start"
  /\ pc' = IF arch = "aarch64" \/ dir["linaro"] # "none" THEN "make"
           ELSE IF arch = "x86_64" THEN "gcc" ELSE "pacman"
  /\ UNCHANGED <<arch, file, dir, failures>>

\* pacman installs the compiler or fails, which nobody looks at.
Pacman ==
  /\ arch # "ppc other" /\ Go("pacman", "getSysroot")
  /\ dir' \in {dir, [dir EXCEPT !["linaro"] = "whole"]}
  /\ UNCHANGED <<arch, file, failures>>

\* Another distribution cannot install it.
Unsupported ==
  /\ arch = "ppc other" /\ Go("pacman", "start")
  /\ UNCHANGED <<arch, file, dir, failures>>

\* tar, of a damaged archive as far as it goes.
Unpacked(f, before) ==
  IF file[f] = "whole" THEN {"whole"} ELSE {before, "part"}

UntarGcc ==
  /\ Go("untar gcc", "mv")
  /\ \E d \in Unpacked("gcc", dir["unpacked"]) : dir' = [dir EXCEPT !["unpacked"] = d]
  /\ UNCHANGED <<arch, file, failures>>

\* mv fails if there is nothing to move; rm; getSysroot is called.
MvGcc ==
  /\ Go("mv", "getSysroot")
  /\ dir' = [dir EXCEPT !["linaro"] = dir["unpacked"], !["unpacked"] = "none"]
  /\ file' = [file EXCEPT !["gcc"] = "none"]
  /\ UNCHANGED <<arch, failures>>

GetSysroot ==
  /\ pc = "getSysroot"
  /\ pc' = IF dir["sysroot"] # "none" THEN "make" ELSE "sysroot"
  /\ UNCHANGED <<arch, file, dir, failures>>

UntarSysroot ==
  /\ Go("untar sysroot", "make")
  /\ \E d \in Unpacked("sysroot", "none") : dir' = [dir EXCEPT !["sysroot"] = d]
  /\ file' = [file EXCEPT !["sysroot"] = "none"]
  /\ UNCHANGED <<arch, failures>>

\* make needs a compiler; that it was unpacked to the end nobody checks, and one
\* of which only a part is there may do, or not.  The sysroot it never sees: the
\* Makefile sets CFLAGS anew, and so drops the one the script exports.
Compiles == arch = "aarch64" \/ dir["linaro"] # "none"
Damaged == arch # "aarch64" /\ dir["linaro"] = "part"
Make ==
  /\ pc = "make"
  /\ \/ Compiles /\ pc' = "hash"
     \/ (~ Compiles \/ Damaged) /\ pc' = "start"
  /\ UNCHANGED <<arch, file, dir, failures>>

\* sha256sum, and the removal of both files if it does not match.
Matches_Unchecked == TRUE
Matches_HashOnly == file["hash"] = "whole"
Matches == file["rootfs"] = "whole" /\ file["hash"] = "whole"
Removed_OnlyHash == [file EXCEPT !["hash"] = "none"]
Removed == [file EXCEPT !["hash"] = "none", !["rootfs"] = "none"]
Check ==
  /\ pc = "check"
  /\ IF Matches THEN pc' = DebStep(1) /\ UNCHANGED file
                ELSE pc' = "start" /\ file' = Removed
  /\ UNCHANGED <<arch, dir, failures>>

\* ar and tar fail on a damaged package.
Deb(i) ==
  /\ pc = Debs[i]
  /\ file' = [file EXCEPT ![Debs[i]] = IF @ = "none" THEN "whole" ELSE @]
  /\ pc' = IF file'[Debs[i]] = "whole" THEN DebStep(i + 1) ELSE "start"
  /\ UNCHANGED <<arch, dir, failures>>

\* The image is made; the developer starts another one.
Image ==
  /\ Go("image", "start")
  /\ UNCHANGED <<arch, file, dir, failures>>

Script ==
  \/ CheckCompiler
  \/ Fetch("gcc", "untar gcc") \/ UntarGcc \/ MvGcc \/ Pacman \/ Unsupported
  \/ GetSysroot \/ Fetch("sysroot", "untar sysroot") \/ UntarSysroot \/ Make
  \/ Fetch("hash", "rootfs") \/ Fetch("rootfs", "check") \/ Check
  \/ (\E i \in DOMAIN Debs : Deb(i)) \/ Image

Next == Script \/ Interrupt \/ \E f \in Files : FetchFails(f)

\* The developer starts the script again whenever it has ended.
Spec == Init /\ [][Next]_vars /\ WF_vars(Script)
-----------------------------------------------------------------------------
\* The root file system and its hash are there and belong together.
Fetched == file["rootfs"] = "whole" /\ file["hash"] = "whole"

\* The types of the variables.  A package is there only beside a root file
\* system that matched its hash, which is the order of mkrootfs.sh.
TypeOK ==
  /\ arch \in Machines
  /\ pc \in Steps
  /\ file \in [Files -> States] /\ dir \in [Dirs -> States]
  /\ failures \in 0 .. MaxFailures
  /\ (\E i \in DOMAIN Debs : file[Debs[i]] # "none") => Fetched

\* Whatever was interrupted before, an image is made of a root file system that
\* matches its hash and of undamaged packages only.  (Of the menu in it nothing
\* is promised: a compiler of which only a part is there may have made it.)
ImageWhole ==
  pc = "image" =>
    /\ Fetched
    /\ \A i \in DOMAIN Debs : file[Debs[i]] = "whole"

\* A damaged root file system, or a damaged hash, does not outlive the runs that
\* follow, as long as the menu compiles: both files are removed and fetched
\* anew.  (A damaged package or toolchain does: nothing ever removes it.)
RootfsHeals ==
  (Compiles /\ ~ Damaged /\ (file["rootfs"] = "part" \/ file["hash"] = "part"))
    ~> Fetched
=============================================================================
