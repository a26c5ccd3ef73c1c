-------------------------- MODULE BuildCacheProofs --------------------------
(***************************************************************************)
(* Proofs about the build scripts, for every list of packages and any      *)
(* number of failures.                                                     *)
(*                                                                         *)
(* An image is made at the end of a run, and a run knows no more than that *)
(* it has come so far: the invariant says for each place in the scripts    *)
(* what must be whole there, although it was perhaps an earlier run that   *)
(* fetched it.                                                             *)
(***************************************************************************)
EXTENDS BuildCache, TLAPS

Names == {Debs[i] : i \in DOMAIN Debs}

\* From the first package on, the root file system has matched its hash.
Matched == pc \in Names \cup {"image"} => Fetched

\* The packages before the one that is next are whole.
Passed ==
  \A k \in 1 .. Len(Debs) + 1 : pc = DebStep(k) =>
    \A i \in 1 .. k - 1 : file[Debs[i]] = "whole"

IInv == TypeOK /\ Matched /\ Passed
-----------------------------------------------------------------------------
\* The places of the packages, and their end.
LEMMA Places ==
  /\ Len(Debs) \in Nat /\ DOMAIN Debs = 1 .. Len(Debs) /\ MaxFailures \in Nat
  /\ Files = OtherFiles \cup Names
  /\ Names \cap (OtherFiles \cup OtherSteps) = {}
  /\ \A i \in DOMAIN Debs : Debs[i] \in Names /\ DebStep(i) = Debs[i] /\ i \in 1 .. Len(Debs) + 1
  /\ \A k \in 1 .. Len(Debs) + 1 : k \in DOMAIN Debs \/ k = Len(Debs) + 1
  /\ DebStep(Len(Debs) + 1) = "image"
<1>1. Len(Debs) \in Nat /\ DOMAIN Debs = 1 .. Len(Debs)
  BY BuildCacheAssumption
<1>2. \A i \in DOMAIN Debs : DebStep(i) = Debs[i] /\ i \in 1 .. Len(Debs) + 1
  BY <1>1 DEF DebStep
<1>3. DebStep(Len(Debs) + 1) = "image"
  BY <1>1 DEF DebStep
<1>4. \A k \in 1 .. Len(Debs) + 1 : k \in DOMAIN Debs \/ k = Len(Debs) + 1
  BY <1>1
<1>5. Names \cap (OtherFiles \cup OtherSteps) = {}
  BY BuildCacheAssumption DEF Names
<1>6. QED  BY <1>1, <1>2, <1>3, <1>4, <1>5, BuildCacheAssumption DEF Names, Files

\* A step is next at one place only.
LEMMA OnePlace ==
  ASSUME NEW j \in 1 .. Len(Debs) + 1, NEW k \in 1 .. Len(Debs) + 1, DebStep(j) = DebStep(k)
  PROVE  j = k
<1>1. "image" \notin Names
  BY Places DEF OtherSteps
<1>2. CASE j \in DOMAIN Debs /\ k \in DOMAIN Debs
  BY <1>2, Places, BuildCacheAssumption
<1>3. CASE ~ (j \in DOMAIN Debs /\ k \in DOMAIN Debs)
  BY <1>1, <1>3, Places
<1>4. QED  BY <1>2, <1>3

\* The next place is a place.
LEMMA NextPlace ==
  ASSUME NEW k \in 1 .. Len(Debs) + 1
  PROVE  DebStep(k) \in Names \cup {"image"}
BY Places

\* Outside the packages nothing has to be shown of them.
LEMMA NotPassing ==
  ASSUME pc' \in OtherFiles \cup (OtherSteps \ {"image"})
  PROVE  Matched' /\ Passed'
<1>1. pc' \notin Names \cup {"image"}
  BY Places DEF OtherFiles, OtherSteps
<1>2. QED  BY <1>1, NextPlace DEF Matched, Passed

\* The start and the search for a compiler need nothing.
LEMMA NothingYet ==
  ASSUME pc' \in OtherSteps \cup {"gcc", "sysroot"}, pc' \notin {"check", "image"}
  PROVE  Matched' /\ Passed'
BY NotPassing DEF OtherFiles, OtherSteps

\* Types of what a step leaves when no package is touched and Fetched stays.
LEMMA TypeKept ==
  ASSUME TypeOK, arch' = arch, pc' \in Steps, file' \in [Files -> States],
         dir' \in [Dirs -> States], failures' \in 0 .. MaxFailures,
         Fetched => Fetched',
         (\E i \in DOMAIN Debs : file'[Debs[i]] # "none") =>
           Fetched \/ Fetched' \/ \E i \in DOMAIN Debs : file[Debs[i]] # "none"
  PROVE  TypeOK'
BY DEF TypeOK

\* An interruption in the middle of a step.
LEMMA InterruptStep ==
  ASSUME IInv, Interrupt
  PROVE  IInv'
<1>1. /\ TypeOK /\ pc' = "start" /\ failures < MaxFailures /\ failures' = failures + 1
      /\ arch' = arch /\ pc \in Steps /\ Matched
  BY DEF IInv, Interrupt, TypeOK
<1>2. \/ file' = file
      \/ pc \in Files /\ file[pc] = "none" /\ file' = [file EXCEPT ![pc] = "part"]
  BY DEF Interrupt
<1>3. dir' \in [Dirs -> States]
  BY <1>1 DEF Interrupt, TypeOK, Dirs, States
<1>4. failures' \in 0 .. MaxFailures
  BY <1>1, Places DEF TypeOK
<1>5. file \in [Files -> States] /\ "rootfs" \in Files /\ "hash" \in Files
  BY <1>1 DEF TypeOK, Files, OtherFiles
<1>6. file' \in [Files -> States]
  <2>1. "part" \in States
    BY DEF States
  <2>2. QED  BY <1>2, <1>5, <2>1
<1>7. Fetched => Fetched'
  BY <1>2, <1>5 DEF Fetched
<1>8. ASSUME NEW i \in DOMAIN Debs, file'[Debs[i]] # "none"
      PROVE  Fetched \/ \E j \in DOMAIN Debs : file[Debs[j]] # "none"
  <2>1. CASE file'[Debs[i]] = file[Debs[i]]
    BY <1>8, <2>1
  <2>2. CASE file'[Debs[i]] # file[Debs[i]]
    <3>1. pc = Debs[i]
      <4>1. Debs[i] \in Files
        BY Places
      <4>2. QED  BY <1>2, <1>5, <2>2, <4>1
    <3>2. QED  BY <1>1, <3>1, Places DEF Matched
  <2>3. QED  BY <2>1, <2>2
<1>9. "start" \in Steps
  BY DEF Steps, OtherSteps
<1>10. TypeOK'
  BY <1>1, <1>3, <1>4, <1>6, <1>7, <1>8, <1>9, TypeKept
<1>11. Matched' /\ Passed'
  BY <1>1, NothingYet DEF OtherSteps
<1>12. QED  BY <1>10, <1>11 DEF IInv

\* A download that fails.
LEMMA FetchFailsStep ==
  ASSUME IInv, NEW f \in Files, FetchFails(f)
  PROVE  IInv'
<1>1. /\ TypeOK /\ pc = f /\ pc' = "start" /\ failures < MaxFailures
      /\ failures' = failures + 1 /\ arch' = arch /\ dir' = dir /\ Matched
      /\ f \in {"gcc", "sysroot"} \/ file[f] = "none"
  BY DEF IInv, FetchFails, Go
<1>2. PICK left \in {"none", "part"} :
        file' = Cleanup(IF file[f] = "none" THEN [file EXCEPT ![f] = left] ELSE file, f)
  BY DEF FetchFails
<1> DEFINE had == IF file[f] = "none" THEN [file EXCEPT ![f] = left] ELSE file
<1>3. file \in [Files -> States] /\ "rootfs" \in Files /\ "hash" \in Files
  BY <1>1 DEF TypeOK, Files, OtherFiles
<1>4. /\ had \in [Files -> States]
      /\ \A g \in Files \ {f} : had[g] = file[g]
  BY <1>3 DEF States
<1> HIDE DEF had
<1>5. /\ f = "rootfs" => file' = [had EXCEPT !["hash"] = "none"]
      /\ f \in Names => file' = [had EXCEPT ![f] = "none"]
      /\ f \in {"gcc", "sysroot", "hash"} => file' = had
  <2>1. f \in Names => f # "rootfs"
    BY Places DEF OtherFiles
  <2>2. f \in {"gcc", "sysroot", "hash"} => f \notin Names /\ f # "rootfs"
    BY Places DEF OtherFiles
  <2>3. file' = Cleanup(had, f)
    BY <1>2 DEF had
  <2>4. QED  BY <2>1, <2>2, <2>3 DEF Cleanup, Names
<1>6. f \in Names \/ f \in OtherFiles
  BY Places
<1>7. file' \in [Files -> States]
  BY <1>4, <1>5, <1>6 DEF States, OtherFiles
<1>8. Fetched => Fetched'
  <2>1. CASE f \in Names
    <3>1. f # "rootfs" /\ f # "hash"
      BY <2>1, Places DEF OtherFiles
    <3>2. file'["rootfs"] = file["rootfs"] /\ file'["hash"] = file["hash"]
      BY <1>3, <1>4, <1>5, <2>1, <3>1
    <3>3. QED  BY <3>2 DEF Fetched
  <2>2. CASE f \in {"gcc", "sysroot"}
    <3>1. file'["rootfs"] = file["rootfs"] /\ file'["hash"] = file["hash"]
      BY <1>3, <1>4, <1>5, <2>2
    <3>2. QED  BY <3>1 DEF Fetched
  <2>3. CASE f \in {"rootfs", "hash"}
    BY <1>1, <2>3 DEF Fetched
  <2>4. QED  BY <1>6, <2>1, <2>2, <2>3 DEF OtherFiles
<1>9. ASSUME NEW i \in DOMAIN Debs, file'[Debs[i]] # "none"
      PROVE  file[Debs[i]] # "none"
  <2>1. Debs[i] \in Names /\ Debs[i] \in Files /\ Debs[i] \notin OtherFiles
    BY Places
  <2>2. CASE f = Debs[i]
    BY <1>4, <1>5, <1>9, <2>1, <2>2
  <2>3. CASE f # Debs[i]
    BY <1>3, <1>4, <1>5, <1>6, <1>9, <2>1, <2>3 DEF OtherFiles
  <2>4. QED  BY <2>2, <2>3
<1>10. failures' \in 0 .. MaxFailures /\ "start" \in Steps
  <2>1. failures \in 0 .. MaxFailures /\ MaxFailures \in Nat
    BY <1>1, Places DEF TypeOK
  <2>2. "start" \in Steps
    BY DEF Steps, OtherSteps
  <2>3. QED  BY <1>1, <2>1, <2>2
<1>11. dir' \in [Dirs -> States]
  BY <1>1 DEF TypeOK
<1>12. TypeOK'
  BY <1>1, <1>7, <1>8, <1>9, <1>10, <1>11, TypeKept
<1>13. Matched' /\ Passed'
  BY <1>1, NothingYet DEF OtherSteps
<1>14. QED  BY <1>12, <1>13 DEF IInv
-----------------------------------------------------------------------------
\* The steps up to make touch the compiler and the sysroot only.
LEMMA EarlyStep ==
  ASSUME IInv, arch' = arch, failures' = failures,
         pc' \in OtherSteps \cup {"gcc", "sysroot"}, pc' \notin {"check", "image"},
         file' \in [Files -> States], dir' \in [Dirs -> States],
         \A f \in Files \ {"gcc", "sysroot"} : file'[f] = file[f]
  PROVE  IInv'
<1>1. /\ TypeOK /\ failures' \in 0 .. MaxFailures
  BY DEF IInv, TypeOK
<1>2. pc' \in Steps
  BY DEF Steps, Files, OtherFiles
<1>3. Fetched => Fetched'
  BY DEF Fetched, Files, OtherFiles
<1>4. \A i \in DOMAIN Debs : file'[Debs[i]] = file[Debs[i]]
  <2>1. \A i \in DOMAIN Debs : Debs[i] \in Files /\ Debs[i] \notin OtherFiles
    BY Places
  <2>2. QED  BY <2>1 DEF OtherFiles
<1>5. TypeOK'
  BY <1>1, <1>2, <1>3, <1>4, TypeKept
<1>6. QED  BY <1>5, NothingYet DEF IInv

\* A download that ends well.
LEMMA FetchStep ==
  ASSUME IInv, NEW f \in OtherFiles, NEW next, Fetch(f, next),
         \/ f = "gcc" /\ next = "untar gcc"
         \/ f = "sysroot" /\ next = "untar sysroot"
         \/ f = "hash" /\ next = "rootfs"
         \/ f = "rootfs" /\ next = "check"
  PROVE  IInv'
<1>1. /\ TypeOK /\ pc = f /\ pc' = next
      /\ file' = [file EXCEPT ![f] = IF @ = "none" THEN "whole" ELSE @]
      /\ arch' = arch /\ dir' = dir /\ failures' = failures
      /\ file \in [Files -> States] /\ f \in Files
      /\ dir' \in [Dirs -> States] /\ failures' \in 0 .. MaxFailures
  BY DEF IInv, Fetch, Go, TypeOK, Files
<1>2. file' \in [Files -> States]
  <2>1. "whole" \in States
    BY DEF States
  <2>2. QED  BY <1>1, <2>1
<1>3. CASE f \in {"gcc", "sysroot"}
  <2>1. \A g \in Files \ {"gcc", "sysroot"} : file'[g] = file[g]
    BY <1>1, <1>3
  <2>2. pc' \in OtherSteps /\ pc' \notin {"check", "image"}
    BY <1>1, <1>3 DEF OtherSteps
  <2>3. QED  BY <1>1, <1>2, <2>1, <2>2, EarlyStep
<1>4. CASE f \in {"hash", "rootfs"}
  <2>1. pc' \in {"rootfs", "check"}
    BY <1>1, <1>4
  <2>2. Fetched => Fetched'
    BY <1>1 DEF Fetched, Files, OtherFiles
  <2>3. \A i \in DOMAIN Debs : file'[Debs[i]] = file[Debs[i]]
    <3>1. \A i \in DOMAIN Debs : Debs[i] \in Files /\ Debs[i] \notin OtherFiles
      BY Places
    <3>2. QED  BY <1>1, <3>1
  <2>4. pc' \in Steps
    BY <2>1 DEF Steps, Files, OtherFiles, OtherSteps
  <2>5. TypeOK'
    BY <1>1, <1>2, <2>2, <2>3, <2>4, TypeKept
  <2>6. Matched' /\ Passed'
    BY <2>1, NotPassing DEF OtherFiles, OtherSteps
  <2>7. QED  BY <2>5, <2>6 DEF IInv
<1>5. QED  BY <1>3, <1>4 DEF OtherFiles

\* make is before the packages.
LEMMA MakeStep ==
  ASSUME IInv, Make
  PROVE  IInv'
<1>1. /\ TypeOK /\ arch' = arch /\ file' = file /\ dir' = dir /\ failures' = failures
      /\ file' \in [Files -> States] /\ dir' \in [Dirs -> States]
  BY DEF IInv, TypeOK, Make
<1>2. CASE pc' = "start"
  BY <1>1, <1>2, EarlyStep DEF OtherSteps
<1>3. CASE Compiles /\ pc' = "hash"
  <2>1. TypeOK'
    BY <1>1, <1>3 DEF TypeOK, Steps, Files, OtherFiles, Fetched
  <2>2. Matched' /\ Passed'
    BY <1>3, NotPassing DEF OtherFiles
  <2>3. QED  BY <2>1, <2>2 DEF IInv
<1>4. QED  BY <1>2, <1>3 DEF Make

\* A root file system that does not match its hash is removed, and no package is
\* there then.
LEMMA CheckStep ==
  ASSUME IInv, Check
  PROVE  IInv'
<1>1. /\ TypeOK /\ pc = "check"
      /\ arch' = arch /\ dir' = dir /\ failures' = failures
      /\ file \in [Files -> States] /\ dir' \in [Dirs -> States]
      /\ failures' \in 0 .. MaxFailures /\ Len(Debs) \in Nat
  BY Places DEF IInv, TypeOK, Check
<1>2. CASE Matches
  <2>1. pc' = DebStep(1) /\ file' = file /\ Fetched
    BY <1>2 DEF Check, Matches, Fetched
  <2>2. 1 \in 1 .. Len(Debs) + 1
    BY <1>1
  <2>3. pc' \in Names \cup {"image"}
    BY <2>1, <2>2, NextPlace
  <2>4. TypeOK'
    <3>1. pc' \in Steps
      BY <2>3, Places DEF Steps, OtherSteps
    <3>2. QED  BY <1>1, <2>1, <3>1 DEF TypeOK, Fetched
  <2>5. Matched'
    BY <2>1 DEF Matched, Fetched
  <2>6. Passed'
    <3>1. ASSUME NEW k \in 1 .. Len(Debs) + 1, pc' = DebStep(k) PROVE k = 1
      BY <2>1, <2>2, <3>1, OnePlace
    <3>2. 1 .. 1 - 1 = {}
      OBVIOUS
    <3>3. QED  BY <3>1, <3>2 DEF Passed
  <2>7. QED  BY <2>4, <2>5, <2>6 DEF IInv
<1>3. CASE ~ Matches
  <2>1. pc' = "start" /\ file' = [file EXCEPT !["hash"] = "none", !["rootfs"] = "none"]
    BY <1>3 DEF Check, Removed
  <2>2. "none" \in States /\ "hash" \in Files /\ "rootfs" \in Files /\ "start" \in Steps
    BY DEF States, Files, OtherFiles, Steps, OtherSteps
  <2>3. file' \in [Files -> States]
    BY <1>1, <2>1, <2>2
  <2>4. \A i \in DOMAIN Debs : file'[Debs[i]] = file[Debs[i]]
    <3>1. \A i \in DOMAIN Debs : Debs[i] \in Files /\ Debs[i] \notin OtherFiles
      BY Places
    <3>2. QED  BY <1>1, <2>1, <3>1 DEF OtherFiles
  <2>5. ~ Fetched
    BY <1>3 DEF Matches, Fetched
  <2>6. TypeOK'
    BY <1>1, <2>1, <2>2, <2>3, <2>4, <2>5, TypeKept
  <2>7. QED  BY <2>1, <2>6, NothingYet DEF IInv, OtherSteps
<1>4. QED  BY <1>2, <1>3

\* A package is fetched, or there already, and unpacked.
LEMMA DebsStep ==
  ASSUME IInv, NEW i \in DOMAIN Debs, Deb(i)
  PROVE  IInv'
<1>1. /\ TypeOK /\ Passed /\ Matched /\ pc = Debs[i]
      /\ arch' = arch /\ dir' = dir /\ failures' = failures
      /\ file' = [file EXCEPT ![Debs[i]] = IF @ = "none" THEN "whole" ELSE @]
      /\ pc' = IF file'[Debs[i]] = "whole" THEN DebStep(i + 1) ELSE "start"
      /\ file \in [Files -> States] /\ dir' \in [Dirs -> States]
      /\ failures' \in 0 .. MaxFailures
  BY DEF IInv, TypeOK, Deb
<1>2. /\ Debs[i] \in Names /\ Debs[i] \in Files /\ Debs[i] \notin OtherFiles
      /\ i \in Nat /\ i >= 1 /\ i <= Len(Debs) /\ Len(Debs) \in Nat
      /\ i \in 1 .. Len(Debs) + 1 /\ i + 1 \in 1 .. Len(Debs) + 1
      /\ DebStep(i) = Debs[i]
  <2>1. Len(Debs) \in Nat /\ i \in 1 .. Len(Debs)
    BY Places
  <2>2. i \in Nat /\ i >= 1 /\ i <= Len(Debs) /\ i + 1 \in 1 .. Len(Debs) + 1
    BY <2>1
  <2>3. QED  BY <2>1, <2>2, Places
<1>3. file' \in [Files -> States]
  <2>1. "whole" \in States
    BY DEF States
  <2>2. QED  BY <1>1, <2>1
<1>4. Fetched /\ Fetched'
  <2>1. Fetched
    BY <1>1, <1>2 DEF Matched
  <2>2. file'["rootfs"] = file["rootfs"] /\ file'["hash"] = file["hash"]
    BY <1>1, <1>2 DEF Files, OtherFiles
  <2>3. QED  BY <2>1, <2>2 DEF Fetched
<1>5. pc' \in Names \cup {"image", "start"}
  BY <1>1, <1>2, NextPlace
<1>6. TypeOK'
  <2>1. pc' \in Steps
    BY <1>5, Places DEF Steps, OtherSteps
  <2>2. QED  BY <1>1, <1>3, <1>4, <2>1, TypeKept
<1>7. CASE file'[Debs[i]] # "whole"
  BY <1>1, <1>6, <1>7, NothingYet DEF IInv, OtherSteps
<1>8. CASE file'[Debs[i]] = "whole"
  <2>1. pc' = DebStep(i + 1)
    BY <1>1, <1>8
  <2>2. Matched'
    BY <1>4 DEF Matched
  <2>3. Passed'
    <3> SUFFICES ASSUME NEW k \in 1 .. Len(Debs) + 1, pc' = DebStep(k), NEW j \in 1 .. k - 1
                 PROVE  file'[Debs[j]] = "whole"
      BY DEF Passed
    <3>1. k = i + 1
      BY <1>2, <2>1, OnePlace
    <3>2. j \in 1 .. i - 1 \/ j = i
      BY <1>2, <3>1
    <3>3. CASE j \in 1 .. i - 1
      <4>1. file[Debs[j]] = "whole"
        BY <1>1, <1>2, <3>3 DEF Passed
      <4>2. j \in DOMAIN Debs
        <5>1. j \in 1 .. Len(Debs)
          BY <1>2, <3>3
        <5>2. QED  BY <5>1, Places
      <4>3. Debs[j] \in Files
        BY <4>2, Places
      <4>4. QED  BY <1>1, <4>1, <4>3
    <3>4. QED  BY <1>8, <3>2, <3>3
  <2>4. QED  BY <1>6, <2>2, <2>3 DEF IInv
<1>9. QED  BY <1>7, <1>8

\* Every step of the scripts keeps the invariant.
LEMMA ScriptStep ==
  ASSUME IInv, Script
  PROVE  IInv'
<1>1. file \in [Files -> States] /\ dir \in [Dirs -> States]
  BY DEF IInv, TypeOK
<1>2. "none" \in States /\ "part" \in States /\ "whole" \in States
  BY DEF States
<1>3. ASSUME NEW d \in Dirs PROVE dir[d] \in States
  BY <1>1
<1>4. \A d \in Dirs : \A f \in Files : Unpacked(f, dir[d]) \cup Unpacked(f, "none") \subseteq States
  BY <1>2, <1>3 DEF Unpacked
<1>5. /\ "unpacked" \in Dirs /\ "linaro" \in Dirs /\ "sysroot" \in Dirs
      /\ "gcc" \in Files /\ "sysroot" \in Files
  BY DEF Dirs, Files, OtherFiles
<1>6. CASE CheckCompiler
  BY <1>1, <1>6, EarlyStep DEF CheckCompiler, OtherSteps
<1>7. CASE Pacman
  <2>1. dir' \in [Dirs -> States]
    BY <1>1, <1>2, <1>7 DEF Pacman
  <2>2. QED  BY <1>1, <1>7, <2>1, EarlyStep DEF Pacman, Go, OtherSteps
<1>8. CASE UntarGcc
  <2>1. PICK d \in Unpacked("gcc", dir["unpacked"]) : dir' = [dir EXCEPT !["unpacked"] = d]
    BY <1>8 DEF UntarGcc
  <2>2. dir' \in [Dirs -> States]
    BY <1>1, <1>4, <1>5, <2>1
  <2>3. QED  BY <1>1, <1>8, <2>2, EarlyStep DEF UntarGcc, Go, OtherSteps
<1>9. CASE UntarSysroot
  <2>1. PICK d \in Unpacked("sysroot", "none") : dir' = [dir EXCEPT !["sysroot"] = d]
    BY <1>9 DEF UntarSysroot
  <2>2. dir' \in [Dirs -> States]
    BY <1>1, <1>4, <1>5, <2>1
  <2>3. /\ file' \in [Files -> States]
        /\ \A f \in Files \ {"gcc", "sysroot"} : file'[f] = file[f]
    BY <1>1, <1>2, <1>9 DEF UntarSysroot
  <2>4. QED  BY <1>9, <2>2, <2>3, EarlyStep DEF UntarSysroot, Go, OtherSteps
<1>10. CASE MvGcc
  <2>1. dir' \in [Dirs -> States]
    BY <1>1, <1>2, <1>3, <1>5, <1>10 DEF MvGcc
  <2>2. /\ file' \in [Files -> States]
        /\ \A f \in Files \ {"gcc", "sysroot"} : file'[f] = file[f]
    BY <1>1, <1>2, <1>10 DEF MvGcc
  <2>3. QED  BY <1>10, <2>1, <2>2, EarlyStep DEF MvGcc, Go, OtherSteps
<1>11. CASE GetSysroot
  BY <1>1, <1>11, EarlyStep DEF GetSysroot, OtherSteps
<1>12. CASE Image
  BY <1>1, <1>12, EarlyStep DEF Image, Go, OtherSteps
<1>13. CASE \/ Fetch("gcc", "untar gcc") \/ Fetch("sysroot", "untar sysroot")
            \/ Fetch("hash", "rootfs") \/ Fetch("rootfs", "check")
  BY <1>13, FetchStep DEF OtherFiles
<1>14. CASE Unsupported
  BY <1>1, <1>14, EarlyStep DEF Unsupported, Go, OtherSteps
<1>15. QED
  BY <1>6, <1>7, <1>8, <1>9, <1>10, <1>11, <1>12, <1>13, <1>14, MakeStep, CheckStep, DebsStep DEF Script

\* IInv is inductive.
LEMMA Invariance == Spec => []IInv
<1>1. Init => IInv
  <2> SUFFICES ASSUME Init PROVE IInv
    OBVIOUS
  <2>1. \A f \in Files : file[f] = "none"
    BY DEF Init
  <2>2. \A i \in DOMAIN Debs : file[Debs[i]] = "none"
    BY <2>1, Places
  <2>3. 0 \in 0 .. MaxFailures
    BY Places
  <2>4. TypeOK
    BY <2>2, <2>3 DEF Init, TypeOK, States, Steps, OtherSteps, Machines
  <2>5. pc \notin Names \cup {"hash", "rootfs", "check", "image"}
    BY Places DEF Init, OtherSteps
  <2>6. Matched /\ Passed
    BY <2>5, NextPlace DEF Matched, Passed
  <2>7. QED  BY <2>4, <2>6 DEF IInv
<1>2. IInv /\ [Next]_vars => IInv'
  <2> SUFFICES ASSUME IInv, [Next]_vars PROVE IInv'
    OBVIOUS
  <2>1. CASE UNCHANGED vars
    BY <2>1 DEF vars, IInv, TypeOK, Fetched, Matched, Passed
  <2>2. QED  BY <2>1, ScriptStep, InterruptStep, FetchFailsStep DEF Next
<1>3. QED  BY <1>1, <1>2, PTL DEF Spec

\* Types; and a package is there only beside a root file system that matched its
\* hash, the order of mkrootfs.sh.
THEOREM TypeCorrect == Spec => []TypeOK
<1>1. IInv => TypeOK
  BY DEF IInv
<1>2. QED  BY <1>1, Invariance, PTL

\* ImageWhole: wherever earlier runs of build-userspace.sh and mkrootfs.sh were
\* interrupted, an image is made of a root file system that matches its hash and
\* of undamaged packages.
THEOREM WholeImage == Spec => []ImageWhole
<1>1. IInv => ImageWhole
  <2> SUFFICES ASSUME IInv, pc = "image" PROVE ImageWhole
    BY DEF ImageWhole
  <2>1. /\ Len(Debs) \in Nat /\ pc = DebStep(Len(Debs) + 1)
        /\ Len(Debs) + 1 \in 1 .. Len(Debs) + 1 /\ (Len(Debs) + 1) - 1 = Len(Debs)
    BY Places
  <2>2. \A i \in 1 .. Len(Debs) : file[Debs[i]] = "whole"
    BY <2>1 DEF IInv, Passed
  <2>3. QED  BY <2>2, Places DEF IInv, Matched, ImageWhole
<1>2. QED  BY <1>1, Invariance, PTL
=============================================================================
