------------------------------- MODULE InstallsProofs -------------------------------
(***************************************************************************)
(* What holds of an install for every value of the constants.              *)
(*                                                                         *)
(* The install directory (DirSwap), for any versions and any number of     *)
(* failed calls in a job: the promise of KeptVersions, step by step, and   *)
(* what a job says of itself when it ends.                                 *)
(*                                                                         *)
(* The download cache (AssetCache), for any releases, file names and       *)
(* processes: what an install gets is what it fetched or verified.         *)
(*                                                                         *)
(* The configuration archives (Snapshots), for any files, versions, calls  *)
(* and size of the directory: restores are undoable, and rollbacks find    *)
(* the configuration of their version.                                     *)
(*                                                                         *)
(* A shared prefix (PrefixInstall), for any files, directories and         *)
(* releases: a failed first install undoes itself, an uninstall is exact,  *)
(* the user's other files are not touched.                                 *)
(***************************************************************************)
EXTENDS MCInstalls, FiniteSetTheorems, WellFoundedInduction, TLAPS

-----------------------------------------------------------------------------
(* What is known of a running job before each of its calls.                *)

\* The new install, before and after its manifest is written.
New(b) == [ver |-> job.ver, whole |-> TRUE, listed |-> b]

Untouched == live = before.live /\ prev = before.prev
Between   == live = None /\ aside = before.live /\ prev = before.prev

\* The replaced version is kept unless a call failed.
KeptIfAble == faults = 0 /\ before.live # None => prev = before.live

IsJob(type) == job \in Job /\ job.type = type

InstallShape ==
  /\ pc \in {"unpack", "setAside", "swapIn", "putBack", "dropPrev", "keepPrev", "dropOld",
             "writeManifest"} => IsJob("install")
  /\ pc = "unpack" => stage = [ver |-> job.ver, whole |-> FALSE, listed |-> FALSE]
  /\ pc \in {"setAside", "swapIn", "putBack"} => stage = New(FALSE)
  /\ pc \in {"unpack", "setAside"} => Untouched
  /\ pc \in {"swapIn", "putBack"} => Between
  /\ pc \in {"dropPrev", "keepPrev", "dropOld", "writeManifest"} => live = New(FALSE)
  /\ pc \in {"dropPrev", "keepPrev", "dropOld"} => aside = before.live /\ aside # None
  /\ pc = "keepPrev" /\ prev # None => faults > 0
  /\ pc \in {"putBack", "dropOld"} => faults > 0
  /\ pc = "writeManifest" => KeptIfAble

RollbackShape ==
  /\ pc \in {"stash", "restore", "unstash", "rollForward", "dropStash"} => IsJob("rollback")
  /\ pc \in {"stash", "restore", "unstash"} => before.prev # None
  /\ pc = "stash" => Untouched
  /\ pc \in {"restore", "unstash"} => Between
  /\ pc \in {"rollForward", "dropStash"} =>
       /\ live = before.prev /\ live # None /\ prev = None
       /\ aside = before.live /\ aside # None
  /\ pc \in {"unstash", "dropStash"} => faults > 0

UninstallShape ==
  /\ pc \in {"removeLive", "removePrev"} => IsJob("uninstall")
  /\ pc = "removePrev" => live = None

RecordShape ==
  pc = "record" =>
    \/ IsJob("install") /\ live = New(TRUE) /\ KeptIfAble
    \/ /\ IsJob("rollback") /\ live = before.prev /\ live # None
       /\ faults = 0 => prev = before.live
    \/ IsJob("uninstall") /\ live = None /\ (faults = 0 => prev = None)

\* Temporary directories are there only while a call of the job needs them.
NoLitter ==
  /\ pc \notin {"unpack", "setAside", "swapIn", "putBack"} => stage = None
  /\ pc \notin {"swapIn", "putBack", "dropPrev", "keepPrev", "dropOld", "restore", "unstash",
                "rollForward", "dropStash"} => aside = None

SwapInv ==
  /\ TypeOK
  /\ pc # "idle" => outcome = "none" /\ job \in Job
  /\ InstallShape /\ RollbackShape /\ UninstallShape /\ RecordShape /\ NoLitter
  /\ FailureRestores /\ SuccessIsExact
-----------------------------------------------------------------------------
LEMMA RecordIsNotNone == \A d \in Dir : d # None
  BY SwapAssumption DEF Dir

LEMMA RemainsArePlaces ==
  \A d \in Place : \A e \in Remains(d) : e \in Place /\ (e = None <=> d = None)
<1> SUFFICES ASSUME NEW d \in Place, d # None, NEW e \in Remains(d) PROVE e \in Dir
  BY RecordIsNotNone DEF Place, Remains
<1>1. d \in Dir
  BY DEF Place
<1>2. CASE e = d
  BY <1>1, <1>2
<1>3. CASE \E b \in BOOLEAN : e = [d EXCEPT !.whole = FALSE, !.listed = b]
  BY <1>1, <1>3 DEF Dir
<1> QED BY <1>2, <1>3 DEF Remains

LEMMA CompleteAreVersions == \A d \in Place : Complete(d) \subseteq Versions
  BY DEF Place, Dir, Complete

LEMMA MarkedIsDir == \A d \in Dir : /\ [d EXCEPT !.whole = TRUE] \in Dir
                                    /\ [d EXCEPT !.listed = TRUE] \in Dir
  BY DEF Dir

-----------------------------------------------------------------------------
(* Beginning a job.                                                        *)

LEMMA BeginInstallStep == ASSUME SwapInv, NEW v \in Versions, BeginInstall(v) PROVE SwapInv'
<1>1. TypeOK' /\ (pc # "idle" => outcome = "none" /\ job \in Job)'
  BY SwapAssumption, RecordIsNotNone DEF BeginInstall, Begin, SwapInv, TypeOK, PC, Place, Job,
     IsJob, New, Untouched, Between, Dir
<1>2. InstallShape' /\ RollbackShape' /\ UninstallShape' /\ RecordShape'
  BY SwapAssumption, RecordIsNotNone DEF BeginInstall, Begin, SwapInv, InstallShape,
     RollbackShape, UninstallShape, RecordShape, IsJob, New, Untouched, Between, KeptIfAble,
     TypeOK, Job, Place, PC, NoLitter
<1>3. NoLitter'
  BY DEF BeginInstall, Begin, SwapInv, NoLitter
<1>4. FailureRestores' /\ SuccessIsExact'
  BY DEF BeginInstall, Begin, SwapInv, FailureRestores, SuccessIsExact
<1> QED
  BY <1>1, <1>2, <1>3, <1>4 DEF SwapInv

LEMMA BeginRollbackStep == ASSUME SwapInv, BeginRollback PROVE SwapInv'
<1>1. TypeOK' /\ (pc # "idle" => outcome = "none" /\ job \in Job)'
  BY SwapAssumption DEF BeginRollback, Begin, dirVars, SwapInv, TypeOK, PC, Place, Job, IsJob
<1>2. InstallShape' /\ RollbackShape' /\ UninstallShape' /\ RecordShape'
  BY SwapAssumption, RecordIsNotNone DEF BeginRollback, Begin, dirVars, SwapInv, InstallShape,
     RollbackShape, UninstallShape, RecordShape, IsJob, New, Untouched, Between, KeptIfAble,
     TypeOK, Job, Place, PC, NoLitter
<1>3. NoLitter'
  BY DEF BeginRollback, Begin, dirVars, SwapInv, NoLitter
<1>4. FailureRestores' /\ SuccessIsExact'
  BY DEF BeginRollback, Begin, dirVars, SwapInv, FailureRestores, SuccessIsExact
<1> QED
  BY <1>1, <1>2, <1>3, <1>4 DEF SwapInv

LEMMA BeginUninstallStep == ASSUME SwapInv, BeginUninstall PROVE SwapInv'
<1>1. TypeOK' /\ (pc # "idle" => outcome = "none" /\ job \in Job)'
  BY SwapAssumption DEF BeginUninstall, Begin, dirVars, SwapInv, TypeOK, PC, Place, Job, IsJob
<1>2. InstallShape' /\ RollbackShape' /\ UninstallShape' /\ RecordShape'
  BY SwapAssumption, RecordIsNotNone DEF BeginUninstall, Begin, dirVars, SwapInv, InstallShape,
     RollbackShape, UninstallShape, RecordShape, IsJob, New, Untouched, Between, KeptIfAble,
     TypeOK, Job, Place, PC, NoLitter
<1>3. NoLitter'
  BY DEF BeginUninstall, Begin, dirVars, SwapInv, NoLitter
<1>4. FailureRestores' /\ SuccessIsExact'
  BY DEF BeginUninstall, Begin, dirVars, SwapInv, FailureRestores, SuccessIsExact
<1> QED
  BY <1>1, <1>2, <1>3, <1>4 DEF SwapInv

-----------------------------------------------------------------------------
(* The steps of an install.                                                *)

LEMMA UnpackStep == ASSUME SwapInv, Unpack PROVE SwapInv'
<1>1. TypeOK' /\ (pc # "idle" => outcome = "none" /\ job \in Job)'
  <2>1. job.ver \in Versions
    BY DEF Unpack, SwapInv, InstallShape, IsJob, Job
  <2>2. [ver |-> job.ver, whole |-> FALSE, listed |-> FALSE] \in Dir
    BY <2>1 DEF Dir
  <2>3. stage = [ver |-> job.ver, whole |-> FALSE, listed |-> FALSE]
    BY DEF Unpack, SwapInv, InstallShape
  <2>4. stage \in Dir
    BY <2>2, <2>3
  <2> QED
    BY <2>4, SwapAssumption, MarkedIsDir DEF Unpack, Goto, End, SwapInv, TypeOK, PC, Place
<1>2. InstallShape' /\ RollbackShape' /\ UninstallShape' /\ RecordShape'
  BY DEF Unpack, Goto, End, SwapInv, InstallShape, RollbackShape, UninstallShape, RecordShape,
     IsJob, New, Untouched, Between, KeptIfAble
<1>3. NoLitter'
  BY DEF Unpack, Goto, End, SwapInv, NoLitter
<1>4. FailureRestores' /\ SuccessIsExact'
  BY DEF Unpack, Goto, End, SwapInv, FailureRestores, SuccessIsExact, InstallShape, IsJob,
     Untouched, Between, New, KeptIfAble
<1> QED
  BY <1>1, <1>2, <1>3, <1>4 DEF SwapInv

LEMMA SetAsideStep == ASSUME SwapInv, SetAside PROVE SwapInv'
<1>1. TypeOK' /\ (pc # "idle" => outcome = "none" /\ job \in Job)'
  BY SwapAssumption, RecordIsNotNone DEF SetAside, Goto, End, Succeeds, Fails, SwapInv, TypeOK,
     PC, Place, Job, InstallShape, IsJob, New, Untouched, Between, Dir
<1>2. InstallShape' /\ RollbackShape' /\ UninstallShape' /\ RecordShape'
  BY DEF SetAside, Goto, End, Succeeds, Fails, SwapInv, InstallShape, RollbackShape,
     UninstallShape, RecordShape, IsJob, New, Untouched, Between, KeptIfAble
<1>3. NoLitter'
  BY DEF SetAside, Goto, End, Succeeds, Fails, SwapInv, NoLitter
<1>4. FailureRestores' /\ SuccessIsExact'
  BY DEF SetAside, Goto, End, Succeeds, Fails, SwapInv, FailureRestores, SuccessIsExact,
     InstallShape, IsJob, Untouched, Between, New, KeptIfAble
<1> QED
  BY <1>1, <1>2, <1>3, <1>4 DEF SwapInv

LEMMA SwapInStep == ASSUME SwapInv, SwapIn PROVE SwapInv'
<1>1. TypeOK' /\ (pc # "idle" => outcome = "none" /\ job \in Job)'
  BY SwapAssumption, RecordIsNotNone DEF SwapIn, Goto, Succeeds, Fails, SwapInv, TypeOK, PC,
     Place, Job, InstallShape, IsJob, New, Untouched, Between, Dir
<1>2. InstallShape' /\ RollbackShape' /\ UninstallShape' /\ RecordShape'
  BY SwapAssumption, RecordIsNotNone DEF SwapIn, Goto, Succeeds, Fails, SwapInv, InstallShape,
     RollbackShape, UninstallShape, RecordShape, IsJob, New, Untouched, Between, KeptIfAble,
     TypeOK, Job, Place, PC, NoLitter
<1>3. NoLitter'
  BY DEF SwapIn, Goto, Succeeds, Fails, SwapInv, NoLitter
<1>4. FailureRestores' /\ SuccessIsExact'
  BY DEF SwapIn, Goto, Succeeds, Fails, SwapInv, FailureRestores, SuccessIsExact
<1> QED
  BY <1>1, <1>2, <1>3, <1>4 DEF SwapInv

LEMMA PutBackStep == ASSUME SwapInv, PutBack PROVE SwapInv'
<1>1. TypeOK' /\ (pc # "idle" => outcome = "none" /\ job \in Job)'
  BY SwapAssumption, CompleteAreVersions DEF PutBack, End, Succeeds, Fails, Complete, SwapInv,
     TypeOK, PC, Place, Job, InstallShape, IsJob
<1>2. InstallShape' /\ RollbackShape' /\ UninstallShape' /\ RecordShape'
  BY DEF PutBack, End, Succeeds, Fails, Complete, SwapInv, InstallShape, RollbackShape,
     UninstallShape, RecordShape
<1>3. NoLitter'
  BY DEF PutBack, End, Succeeds, Fails, Complete, SwapInv, NoLitter
<1>4. FailureRestores' /\ SuccessIsExact'
  BY SwapAssumption, CompleteAreVersions DEF PutBack, End, Succeeds, Fails, Complete, SwapInv,
     FailureRestores, SuccessIsExact, InstallShape, IsJob, Untouched, Between, New, KeptIfAble,
     RecordShape, NoLitter, TypeOK, Job
<1> QED
  BY <1>1, <1>2, <1>3, <1>4 DEF SwapInv

LEMMA DropPrevStep == ASSUME SwapInv, DropPrev PROVE SwapInv'
<1>1. TypeOK' /\ (pc # "idle" => outcome = "none" /\ job \in Job)'
  BY SwapAssumption, RemainsArePlaces, RecordIsNotNone DEF DropPrev, Goto, Succeeds, Fails,
     SwapInv, TypeOK, PC, Place, Job, InstallShape, IsJob, New, Untouched, Between, Dir
<1>2. InstallShape' /\ RollbackShape' /\ UninstallShape' /\ RecordShape'
  BY SwapAssumption, RemainsArePlaces, RecordIsNotNone DEF DropPrev, Goto, Succeeds, Fails,
     SwapInv, InstallShape, RollbackShape, UninstallShape, RecordShape, IsJob, New, Untouched,
     Between, KeptIfAble, TypeOK, Job, Place, PC, NoLitter
<1>3. NoLitter'
  BY DEF DropPrev, Goto, Succeeds, Fails, SwapInv, NoLitter
<1>4. FailureRestores' /\ SuccessIsExact'
  BY DEF DropPrev, Goto, Succeeds, Fails, SwapInv, FailureRestores, SuccessIsExact
<1> QED
  BY <1>1, <1>2, <1>3, <1>4 DEF SwapInv

LEMMA KeepPrevStep == ASSUME SwapInv, KeepPrev PROVE SwapInv'
<1>1. TypeOK' /\ (pc # "idle" => outcome = "none" /\ job \in Job)'
  BY SwapAssumption, RecordIsNotNone DEF KeepPrev, Goto, Succeeds, Fails, SwapInv, TypeOK, PC,
     Place, Job, InstallShape, IsJob, New, Untouched, Between, Dir
<1>2. InstallShape' /\ RollbackShape' /\ UninstallShape' /\ RecordShape'
  BY SwapAssumption, RecordIsNotNone DEF KeepPrev, Goto, Succeeds, Fails, SwapInv, InstallShape,
     RollbackShape, UninstallShape, RecordShape, IsJob, New, Untouched, Between, KeptIfAble,
     TypeOK, Job, Place, PC, NoLitter
<1>3. NoLitter'
  BY DEF KeepPrev, Goto, Succeeds, Fails, SwapInv, NoLitter
<1>4. FailureRestores' /\ SuccessIsExact'
  BY DEF KeepPrev, Goto, Succeeds, Fails, SwapInv, FailureRestores, SuccessIsExact
<1> QED
  BY <1>1, <1>2, <1>3, <1>4 DEF SwapInv

LEMMA DropOldStep == ASSUME SwapInv, DropOld PROVE SwapInv'
<1>1. TypeOK' /\ (pc # "idle" => outcome = "none" /\ job \in Job)'
  BY SwapAssumption, RemainsArePlaces, CompleteAreVersions, RecordIsNotNone DEF DropOld, Goto,
     Succeeds, Fails, Complete, SwapInv, TypeOK, PC, Place, Job, InstallShape, IsJob, New,
     Untouched, Between, Dir
<1>2. InstallShape' /\ RollbackShape' /\ UninstallShape' /\ RecordShape'
  BY SwapAssumption, RemainsArePlaces, CompleteAreVersions, RecordIsNotNone DEF DropOld, Goto,
     Succeeds, Fails, Complete, SwapInv, InstallShape, RollbackShape, UninstallShape,
     RecordShape, IsJob, New, Untouched, Between, KeptIfAble, TypeOK, Job, Place, PC, NoLitter
<1>3. NoLitter'
  BY DEF DropOld, Goto, Succeeds, Fails, Complete, SwapInv, NoLitter
<1>4. FailureRestores' /\ SuccessIsExact'
  BY DEF DropOld, Goto, Succeeds, Fails, Complete, SwapInv, FailureRestores, SuccessIsExact
<1> QED
  BY <1>1, <1>2, <1>3, <1>4 DEF SwapInv

LEMMA WriteManifestStep == ASSUME SwapInv, WriteManifest PROVE SwapInv'
<1>1. TypeOK' /\ (pc # "idle" => outcome = "none" /\ job \in Job)'
  <2>1. job.ver \in Versions
    BY DEF WriteManifest, SwapInv, InstallShape, IsJob, Job
  <2>2. New(FALSE) \in Dir
    BY <2>1 DEF New, Dir
  <2>3. live = New(FALSE)
    BY DEF WriteManifest, SwapInv, InstallShape
  <2>4. [live EXCEPT !.listed = TRUE] \in Dir
    BY <2>2, <2>3, MarkedIsDir
  <2>5. live' \in Place
    BY <2>2, <2>3, <2>4 DEF WriteManifest, Place
  <2>6. faults' \in 0..MaxFaults
    BY SwapAssumption DEF WriteManifest, Succeeds, Fails, SwapInv, TypeOK
  <2> QED
    BY <2>5, <2>6 DEF WriteManifest, Goto, End, SwapInv, TypeOK, PC
<1>2. InstallShape' /\ RollbackShape' /\ UninstallShape' /\ RecordShape'
  BY DEF WriteManifest, Goto, End, Succeeds, Fails, SwapInv, InstallShape, RollbackShape,
     UninstallShape, RecordShape, IsJob, New, Untouched, Between, KeptIfAble
<1>3. NoLitter'
  BY DEF WriteManifest, Goto, End, Succeeds, Fails, SwapInv, NoLitter
<1>4. FailureRestores' /\ SuccessIsExact'
  BY DEF WriteManifest, Goto, End, Succeeds, Fails, SwapInv, FailureRestores, SuccessIsExact,
     InstallShape, IsJob, Untouched, Between, New, KeptIfAble
<1> QED
  BY <1>1, <1>2, <1>3, <1>4 DEF SwapInv

-----------------------------------------------------------------------------
(* The steps of a rollback.                                                *)

LEMMA StashStep == ASSUME SwapInv, Stash PROVE SwapInv'
<1>1. TypeOK' /\ (pc # "idle" => outcome = "none" /\ job \in Job)'
  BY SwapAssumption DEF Stash, Goto, End, Succeeds, Fails, SwapInv, TypeOK, PC, Place, Job,
     RollbackShape, IsJob
<1>2. InstallShape' /\ RollbackShape' /\ UninstallShape' /\ RecordShape'
  BY DEF Stash, Goto, End, Succeeds, Fails, SwapInv, InstallShape, RollbackShape,
     UninstallShape,
     RecordShape, IsJob, New, Untouched, Between, KeptIfAble
<1>3. NoLitter'
  BY DEF Stash, Goto, End, Succeeds, Fails, SwapInv, NoLitter
<1>4. FailureRestores' /\ SuccessIsExact'
  BY DEF Stash, Goto, End, Succeeds, Fails, SwapInv, FailureRestores, SuccessIsExact,
     RollbackShape, IsJob, Untouched, Between, New, KeptIfAble
<1> QED
  BY <1>1, <1>2, <1>3, <1>4 DEF SwapInv

LEMMA RestoreStep == ASSUME SwapInv, Restore PROVE SwapInv'
<1>1. TypeOK' /\ (pc # "idle" => outcome = "none" /\ job \in Job)'
  BY SwapAssumption DEF Restore, Goto, Succeeds, Fails, SwapInv, TypeOK, PC, Place, Job,
     RollbackShape, IsJob
<1>2. InstallShape' /\ RollbackShape' /\ UninstallShape' /\ RecordShape'
  BY SwapAssumption, RecordIsNotNone DEF Restore, Goto, Succeeds, Fails, SwapInv, InstallShape,
     RollbackShape, UninstallShape, RecordShape, IsJob, New, Untouched, Between, KeptIfAble,
     TypeOK, Job, Place, PC, NoLitter
<1>3. NoLitter'
  BY DEF Restore, Goto, Succeeds, Fails, SwapInv, NoLitter
<1>4. FailureRestores' /\ SuccessIsExact'
  BY DEF Restore, Goto, Succeeds, Fails, SwapInv, FailureRestores, SuccessIsExact
<1> QED
  BY <1>1, <1>2, <1>3, <1>4 DEF SwapInv

LEMMA UnstashStep == ASSUME SwapInv, Unstash PROVE SwapInv'
<1>1. TypeOK' /\ (pc # "idle" => outcome = "none" /\ job \in Job)'
  BY SwapAssumption, CompleteAreVersions DEF Unstash, End, Succeeds, Fails, Complete, SwapInv,
     TypeOK, PC, Place, Job, RollbackShape, IsJob
<1>2. InstallShape' /\ RollbackShape' /\ UninstallShape' /\ RecordShape'
  BY DEF Unstash, End, Succeeds, Fails, Complete, SwapInv, InstallShape, RollbackShape,
     UninstallShape, RecordShape
<1>3. NoLitter'
  BY DEF Unstash, End, Succeeds, Fails, Complete, SwapInv, NoLitter
<1>4. FailureRestores' /\ SuccessIsExact'
  BY SwapAssumption, CompleteAreVersions DEF Unstash, End, Succeeds, Fails, Complete, SwapInv,
     FailureRestores, SuccessIsExact, RollbackShape, IsJob, Untouched, Between, New, KeptIfAble,
     RecordShape, NoLitter, TypeOK, Job
<1> QED
  BY <1>1, <1>2, <1>3, <1>4 DEF SwapInv

LEMMA RollForwardStep == ASSUME SwapInv, RollForward PROVE SwapInv'
<1>1. TypeOK' /\ (pc # "idle" => outcome = "none" /\ job \in Job)'
  BY SwapAssumption DEF RollForward, Goto, Succeeds, Fails, SwapInv, TypeOK, PC, Place, Job,
     RollbackShape, IsJob
<1>2. InstallShape' /\ RollbackShape' /\ UninstallShape' /\ RecordShape'
  BY SwapAssumption, RecordIsNotNone DEF RollForward, Goto, Succeeds, Fails, SwapInv,
     InstallShape, RollbackShape, UninstallShape, RecordShape, IsJob, New, Untouched, Between,
     KeptIfAble, TypeOK, Job, Place, PC, NoLitter
<1>3. NoLitter'
  BY DEF RollForward, Goto, Succeeds, Fails, SwapInv, NoLitter
<1>4. FailureRestores' /\ SuccessIsExact'
  BY DEF RollForward, Goto, Succeeds, Fails, SwapInv, FailureRestores, SuccessIsExact
<1> QED
  BY <1>1, <1>2, <1>3, <1>4 DEF SwapInv

LEMMA DropStashStep == ASSUME SwapInv, DropStash PROVE SwapInv'
<1>1. TypeOK' /\ (pc # "idle" => outcome = "none" /\ job \in Job)'
  BY SwapAssumption, RemainsArePlaces, CompleteAreVersions DEF DropStash, Goto, Succeeds, Fails,
     Complete, SwapInv, TypeOK, PC, Place, Job, RollbackShape, IsJob
<1>2. InstallShape' /\ RollbackShape' /\ UninstallShape' /\ RecordShape'
  BY SwapAssumption, RemainsArePlaces, CompleteAreVersions, RecordIsNotNone DEF DropStash, Goto,
     Succeeds, Fails, Complete, SwapInv, InstallShape, RollbackShape, UninstallShape,
     RecordShape, IsJob, New, Untouched, Between, KeptIfAble, TypeOK, Job, Place, PC, NoLitter
<1>3. NoLitter'
  BY DEF DropStash, Goto, Succeeds, Fails, Complete, SwapInv, NoLitter
<1>4. FailureRestores' /\ SuccessIsExact'
  BY DEF DropStash, Goto, Succeeds, Fails, Complete, SwapInv, FailureRestores, SuccessIsExact
<1> QED
  BY <1>1, <1>2, <1>3, <1>4 DEF SwapInv

-----------------------------------------------------------------------------
(* The steps of an uninstall.                                              *)

LEMMA RemoveLiveStep == ASSUME SwapInv, RemoveLive PROVE SwapInv'
<1>1. TypeOK' /\ (pc # "idle" => outcome = "none" /\ job \in Job)'
  BY SwapAssumption, RemainsArePlaces DEF RemoveLive, Goto, End, Succeeds, Fails, SwapInv,
     TypeOK, PC, Place, Job, UninstallShape, IsJob
<1>2. InstallShape' /\ RollbackShape' /\ UninstallShape' /\ RecordShape'
  BY DEF RemoveLive, Goto, End, Succeeds, Fails, SwapInv, InstallShape, RollbackShape,
     UninstallShape, RecordShape, IsJob, New, Untouched, Between, KeptIfAble
<1>3. NoLitter'
  BY DEF RemoveLive, Goto, End, Succeeds, Fails, SwapInv, NoLitter
<1>4. FailureRestores' /\ SuccessIsExact'
  BY DEF RemoveLive, Goto, End, Succeeds, Fails, SwapInv, FailureRestores, SuccessIsExact,
     UninstallShape, IsJob, Untouched, Between, New, KeptIfAble
<1> QED
  BY <1>1, <1>2, <1>3, <1>4 DEF SwapInv

LEMMA RemovePrevStep == ASSUME SwapInv, RemovePrev PROVE SwapInv'
<1>1. TypeOK' /\ (pc # "idle" => outcome = "none" /\ job \in Job)'
  BY SwapAssumption, RemainsArePlaces
     DEF RemovePrev, Goto, Succeeds, Fails, SwapInv, TypeOK, PC,
     Place, Job, UninstallShape, IsJob
<1>2. InstallShape' /\ RollbackShape' /\ UninstallShape' /\ RecordShape'
  BY SwapAssumption, RemainsArePlaces, RecordIsNotNone DEF RemovePrev, Goto, Succeeds, Fails,
     SwapInv, InstallShape, RollbackShape, UninstallShape, RecordShape, IsJob, New, Untouched,
     Between, KeptIfAble, TypeOK, Job, Place, PC, NoLitter
<1>3. NoLitter'
  BY DEF RemovePrev, Goto, Succeeds, Fails, SwapInv, NoLitter
<1>4. FailureRestores' /\ SuccessIsExact'
  BY DEF RemovePrev, Goto, Succeeds, Fails, SwapInv, FailureRestores, SuccessIsExact
<1> QED
  BY <1>1, <1>2, <1>3, <1>4 DEF SwapInv

-----------------------------------------------------------------------------
(* The end of a job.                                                       *)

LEMMA RecordStep == ASSUME SwapInv, Record PROVE SwapInv'
<1>1. TypeOK' /\ (pc # "idle" => outcome = "none" /\ job \in Job)'
  BY SwapAssumption, RecordIsNotNone DEF Record, End, dirVars, SwapInv, TypeOK, PC, Place, Job,
     RecordShape, IsJob, New, Untouched, Between, Dir
<1>2. InstallShape' /\ RollbackShape' /\ UninstallShape' /\ RecordShape'
  BY DEF Record, End, dirVars, SwapInv, InstallShape, RollbackShape, UninstallShape, RecordShape
<1>3. NoLitter'
  BY DEF Record, End, dirVars, SwapInv, NoLitter
<1>4. FailureRestores' /\ SuccessIsExact'
  BY DEF Record, End, dirVars, SwapInv, FailureRestores, SuccessIsExact, RecordShape, IsJob,
     Untouched, Between, New, KeptIfAble
<1> QED
  BY <1>1, <1>2, <1>3, <1>4 DEF SwapInv

LEMMA CrashStep == ASSUME SwapInv, Crash PROVE SwapInv'
<1>1. TypeOK' /\ (pc # "idle" => outcome = "none" /\ job \in Job)'
  BY SwapAssumption, RemainsArePlaces, CompleteAreVersions DEF Crash, End, Complete, SwapInv,
     TypeOK, PC, Place, Job, IsJob
<1>2. InstallShape' /\ RollbackShape' /\ UninstallShape' /\ RecordShape'
  BY DEF Crash, End, Complete, SwapInv, InstallShape, RollbackShape, UninstallShape, RecordShape
<1>3. NoLitter'
  BY DEF Crash, End, Complete, SwapInv, NoLitter
<1>4. FailureRestores' /\ SuccessIsExact'
  BY DEF Crash, End, Complete, SwapInv, FailureRestores, SuccessIsExact
<1> QED
  BY <1>1, <1>2, <1>3, <1>4 DEF SwapInv

-----------------------------------------------------------------------------
LEMMA InitHolds == ASSUME Init PROVE SwapInv
  BY SwapAssumption
     DEF Init, SwapInv, TypeOK, Place, PC, InstallShape, RollbackShape, UninstallShape,
         RecordShape, NoLitter, FailureRestores, SuccessIsExact

LEMMA StutterStep == ASSUME SwapInv, UNCHANGED vars PROVE SwapInv'
<1> USE DEF vars, dirVars, runVars, SwapInv
<1>1. TypeOK' /\ (pc # "idle" => outcome = "none" /\ job \in Job)'
  BY DEF TypeOK
<1>2. InstallShape' /\ RollbackShape' /\ UninstallShape' /\ RecordShape'
  BY DEF InstallShape, RollbackShape, UninstallShape, RecordShape, IsJob, New, Untouched,
         Between, KeptIfAble
<1>3. NoLitter'
  BY DEF NoLitter
<1>4. FailureRestores' /\ SuccessIsExact'
  BY DEF FailureRestores, SuccessIsExact
<1> QED
  BY <1>1, <1>2, <1>3, <1>4

LEMMA NextStep == ASSUME SwapInv, [Next]_vars PROVE SwapInv'
<1>1. CASE \E v \in Versions : BeginInstall(v)
  BY <1>1, BeginInstallStep
<1>2. CASE BeginRollback \/ BeginUninstall
  BY <1>2, BeginRollbackStep, BeginUninstallStep
<1>3. CASE Install
  BY <1>3, UnpackStep, SetAsideStep, SwapInStep, PutBackStep, DropPrevStep, KeepPrevStep,
     DropOldStep, WriteManifestStep
     DEF Install
<1>4. CASE Rollback
  BY <1>4, StashStep, RestoreStep, UnstashStep, RollForwardStep, DropStashStep DEF Rollback
<1>5. CASE Uninstall
  BY <1>5, RemoveLiveStep, RemovePrevStep DEF Uninstall
<1>6. CASE Record \/ Crash
  BY <1>6, RecordStep, CrashStep
<1>7. CASE UNCHANGED vars
  BY <1>7, StutterStep
<1> QED
  BY <1>1, <1>2, <1>3, <1>4, <1>5, <1>6, <1>7 DEF Next

\* The inductive invariant: what each call of a job finds, whatever failed or
\* crashed before (stagedInstall, rollbackDir, standardUninstall).
THEOREM SwapInvariant == Spec => []SwapInv
  BY InitHolds, NextStep, PTL DEF Spec

-----------------------------------------------------------------------------
\* The complete versions a launch or a rollback could still reach.
Copies == Complete(live) \cup Complete(aside) \cup Complete(prev)

(* What a step leaves on the disk.                                           *)

LEMMA NewIsWhole == ASSUME IsJob("install"), NEW b \in BOOLEAN
                    PROVE  New(b) \in Dir /\ Complete(New(b)) = {job.ver}
<1>1. job.ver \in Versions
  BY DEF IsJob, Job
<1>2. New(b) \in Dir
  BY <1>1 DEF New, Dir
<1>3. New(b) # None /\ New(b).whole /\ New(b).ver = job.ver
  BY <1>2, RecordIsNotNone DEF New
<1> QED
  BY <1>2, <1>3 DEF Complete

LEMMA SwappedIsWhole ==
  ASSUME SwapInv, pc \in {"dropPrev", "keepPrev", "dropOld", "writeManifest"}
  PROVE  live \in Dir /\ live.whole /\ Complete(live) # {}
<1>1. IsJob("install") /\ live = New(FALSE)
  BY DEF SwapInv, InstallShape
<1>2. live \in Dir /\ Complete(live) # {}
  BY <1>1, NewIsWhole
<1>3. live.whole
  BY <1>1 DEF New
<1> QED
  BY <1>2, <1>3

LEMMA CopiesStep ==
  ASSUME SwapInv, [Next]_vars, Copies # {}, pc \notin {"removeLive", "removePrev"},
         pc = "dropStash" => Complete(before.prev) # {}
  PROVE  (Copies \cup stranded)' # {}
<1> USE DEF Copies, Complete, dirVars, Goto, End, Succeeds, Fails
<1>1. CASE \E v \in Versions : BeginInstall(v)
  BY <1>1 DEF BeginInstall, Begin
<1>2. CASE BeginRollback \/ BeginUninstall \/ Record \/ UNCHANGED vars
  BY <1>2 DEF BeginRollback, BeginUninstall, Begin, Record, vars
<1>3. CASE Unpack
  BY <1>3 DEF Unpack
<1>4. CASE SetAside
  BY <1>4 DEF SetAside, SwapInv, NoLitter
<1>5. CASE SwapIn
  BY <1>5 DEF SwapIn, SwapInv, InstallShape, Between
<1>6. CASE PutBack
  BY <1>6 DEF PutBack, SwapInv, InstallShape, Between
<1>7. CASE DropPrev
  BY <1>7, SwappedIsWhole DEF DropPrev
<1>8. CASE KeepPrev
  BY <1>8 DEF KeepPrev
<1>9. CASE DropOld
  BY <1>9, SwappedIsWhole DEF DropOld
<1>10. CASE WriteManifest
  <2>1. live \in Dir /\ live.whole
    BY <1>10, SwappedIsWhole DEF WriteManifest
  <2>2. [live EXCEPT !.listed = TRUE] \in Dir /\ [live EXCEPT !.listed = TRUE].whole
    BY <2>1 DEF Dir
  <2>3. live' \in Dir /\ live'.whole
    BY <1>10, <2>1, <2>2 DEF WriteManifest
  <2> QED
    BY <2>3, RecordIsNotNone
<1>11. CASE Stash
  BY <1>11 DEF Stash, SwapInv, NoLitter
<1>12. CASE Restore
  BY <1>12 DEF Restore, SwapInv, RollbackShape, Between
<1>13. CASE Unstash
  BY <1>13 DEF Unstash, SwapInv, RollbackShape, Between
<1>14. CASE RollForward
  BY <1>14 DEF RollForward, SwapInv, RollbackShape
<1>15. CASE DropStash
  BY <1>15 DEF DropStash, SwapInv, RollbackShape
<1>16. CASE Uninstall
  BY <1>16 DEF Uninstall, RemoveLive, RemovePrev
<1>17. CASE Crash
  <2>1. CASE pc = "dropPrev" \/ pc = "dropOld"
    BY <1>17, <2>1, SwappedIsWhole DEF Crash
  <2>2. CASE pc = "dropStash"
    BY <1>17, <2>2 DEF Crash, SwapInv, RollbackShape
  <2>3. CASE pc \notin {"dropPrev", "dropOld", "dropStash"}
    BY <1>17, <2>3 DEF Crash
  <2> QED
    BY <2>1, <2>2, <2>3
<1> QED
  BY <1>1, <1>2, <1>3, <1>4, <1>5, <1>6, <1>7, <1>8, <1>9, <1>10, <1>11, <1>12, <1>13, <1>14,
     <1>15, <1>16, <1>17 DEF Next, Install, Rollback

\* Whatever is installed, rolled back or removed, whatever fails or crashes: a
\* job ends as it says it did, and no failure of an install or a rollback takes
\* the last complete copy ("a failure can never destroy both copies",
\* rollbackDir of util.js).
THEOREM JobsAreAlwaysSafe == Spec => JobsAreSafe
<1>1. SwapInv => TypeOK /\ FailureRestores /\ SuccessIsExact
  BY DEF SwapInv
<1>2. SwapInv /\ [Next]_vars =>
        [/\ Complete(live) \cup Complete(aside) \cup Complete(prev) # {}
         /\ pc \notin {"removeLive", "removePrev"}
         /\ pc = "dropStash" => Complete(before.prev) # {}
         => (Complete(live) \cup Complete(aside) \cup Complete(prev) \cup stranded)' # {}]_vars
  BY CopiesStep DEF Copies
<1> QED
  BY <1>1, <1>2, SwapInvariant, PTL DEF Spec, JobsAreSafe, SomeCopySurvives

-----------------------------------------------------------------------------
\* What KeptVersions sees of the three directories.
Current == Seen(IF live # None THEN live ELSE aside)
Leaving == Seen(IF live # None THEN aside ELSE None)
Stutter == UNCHANGED <<Current, Seen(prev), Leaving>>

LEMMA SeenOfDir ==
  \A d \in Dir : /\ d # None
                 /\ d.whole => Seen(d) = d.ver /\ d.ver \in Versions
                 /\ ~d.whole => Seen(d) = Damaged
                 /\ Seen(d) # None
  BY RecordIsNotNone, SwapAssumption DEF Seen, Dir

LEMMA SeenOfRemains == \A d \in Place : \A e \in Remains(d) : Seen(e) \in {Seen(d), Damaged}
<1> SUFFICES ASSUME NEW d \in Dir, NEW b \in BOOLEAN,
                    NEW e, e = [d EXCEPT !.whole = FALSE, !.listed = b]
             PROVE  Seen(e) = Damaged
  BY DEF Place, Remains
<1>1. e \in Dir /\ ~e.whole
  BY DEF Dir
<1> QED
  BY <1>1, SeenOfDir

LEMMA KeptInit == Init => Kept!KInit
  BY DEF Init, Seen, Kept!KInit

(* Each step of a job is a step of KeptVersions, or none.                  *)

LEMMA BeginKept ==
  ASSUME \/ \E v \in Versions : BeginInstall(v)
         \/ BeginRollback \/ BeginUninstall \/ Record \/ UNCHANGED vars
  PROVE  Stutter
  BY DEF BeginInstall, BeginRollback, BeginUninstall, Record, Begin, vars, dirVars, Stutter,
         Current,
         Leaving

LEMMA UnpackKept == ASSUME Unpack PROVE Stutter
  BY DEF Unpack, Stutter, Current, Leaving

LEMMA AsideKept == ASSUME SwapInv, SetAside \/ Stash PROVE Stutter
  BY DEF SetAside, Stash, SwapInv, NoLitter, Stutter, Current, Leaving

LEMMA BackKept == ASSUME SwapInv, PutBack \/ Unstash PROVE Stutter \/ Kept!Strand
  BY DEF PutBack, Unstash, SwapInv, InstallShape, RollbackShape, Between, Stutter, Current,
         Leaving, Seen, Kept!Strand

LEMMA SwapInKept ==
  ASSUME SwapInv, SwapIn
  PROVE  Stutter \/ (Kept!Replace(job.ver) /\ job.ver \in Versions)
<1>1. IsJob("install") /\ stage = New(FALSE) /\ Between
  BY DEF SwapIn, SwapInv, InstallShape
<1>2. CASE live' = stage
  <2>1. Seen(stage) = job.ver /\ job.ver \in Versions /\ stage # None
    BY <1>1, NewIsWhole, SeenOfDir DEF New
  <2>2. Kept!Replace(job.ver)
    BY <1>1, <1>2, <2>1 DEF SwapIn, Between, Seen, Kept!Replace
  <2> QED
    BY <2>1, <2>2
<1>3. CASE UNCHANGED live
  BY <1>3 DEF SwapIn, Stutter, Current, Leaving
<1> QED
  BY <1>2, <1>3 DEF SwapIn

LEMMA DropPrevKept == ASSUME SwapInv, DropPrev \/ RemovePrev PROVE Stutter \/ Kept!Forget
  BY SeenOfRemains
     DEF DropPrev, RemovePrev, SwapInv, TypeOK, Stutter, Current, Leaving, Seen, Kept!Forget

LEMMA KeepPrevKept == ASSUME SwapInv, KeepPrev PROVE Stutter \/ Kept!Keep
  BY SwappedIsWhole, RecordIsNotNone, SeenOfDir
     DEF KeepPrev, SwapInv, InstallShape, TypeOK, Place, Stutter, Current, Leaving, Seen,
         Kept!Keep

LEMMA RollForwardKept == ASSUME SwapInv, RollForward PROVE Stutter \/ Kept!Keep
  BY RecordIsNotNone, SeenOfDir
     DEF RollForward, SwapInv, RollbackShape, TypeOK, Place, Stutter, Current, Leaving, Seen,
         Kept!Keep

LEMMA DropOldKept == ASSUME SwapInv, DropOld \/ DropStash PROVE Kept!Drop
  BY SwappedIsWhole, RecordIsNotNone
     DEF DropOld, DropStash, SwapInv, RollbackShape, Seen, Kept!Drop

LEMMA ManifestKept == ASSUME SwapInv, WriteManifest PROVE Stutter
<1>1. live \in Dir /\ live.whole
  BY SwappedIsWhole DEF WriteManifest
<1>2. live' \in Dir /\ live'.whole /\ live'.ver = live.ver
  BY <1>1 DEF WriteManifest, Dir
<1> QED
  BY <1>1, <1>2, SeenOfDir DEF WriteManifest, Stutter, Current, Leaving

LEMMA RestoreKept == ASSUME SwapInv, Restore PROVE Stutter \/ Kept!Restore
  BY RecordIsNotNone, SeenOfDir
     DEF Restore, SwapInv, RollbackShape, Between, TypeOK, Place, Stutter, Current, Leaving,
         Seen, Kept!Restore

LEMMA RemoveLiveKept == ASSUME SwapInv, RemoveLive PROVE Stutter \/ Kept!Remove
<1>1. aside = None /\ aside' = None /\ prev' = prev
  BY DEF RemoveLive, SwapInv, NoLitter
<1>2. CASE live = None
  BY <1>1, <1>2 DEF RemoveLive, Stutter, Current, Leaving
<1>3. CASE live # None
  <2>1. live \in Dir /\ Seen(live) # None
    BY <1>3, SeenOfDir DEF SwapInv, TypeOK, Place
  <2>2. Seen(live') \in {Seen(live), None, Damaged}
    BY SeenOfRemains DEF RemoveLive, SwapInv, TypeOK, Seen
  <2>3. live' \in {None} \cup Remains(live)
    BY DEF RemoveLive
  <2> QED
    BY <1>1, <1>3, <2>1, <2>2, <2>3, RemainsArePlaces
       DEF SwapInv, TypeOK, Seen, Stutter, Current, Leaving, Kept!Remove
<1> QED
  BY <1>2, <1>3

LEMMA CrashKept == ASSUME SwapInv, Crash PROVE Stutter \/ Kept!Remove \/ Kept!Strand
<1>1. aside' = None /\ Leaving' = None
  BY DEF Crash, Leaving, Seen
<1>2. CASE pc = "removeLive"
  <2>1. aside = None /\ prev' = prev 
    BY <1>2 DEF Crash, SwapInv, NoLitter
  <2> QED
    BY <1>1, <1>2, <2>1, SeenOfRemains, RemainsArePlaces, SeenOfDir
       DEF Crash, SwapInv, TypeOK, Place, Seen, Stutter, Current, Leaving, Kept!Remove
<1>3. CASE pc # "removeLive"
  <2>1. live' = live 
    BY <1>3 DEF Crash
  <2>2. Seen(prev') \in {Seen(prev), Damaged}
    BY SeenOfRemains DEF Crash, SwapInv, TypeOK
  <2> QED
    BY <1>1, <2>1, <2>2 DEF Current, Leaving, Seen, Kept!Strand
<1> QED
  BY <1>2, <1>3

LEMMA NextKept == ASSUME SwapInv, [Next]_vars PROVE Stutter \/ Kept!KNext
<1>1. CASE \/ \E v \in Versions : BeginInstall(v)
           \/ BeginRollback \/ BeginUninstall \/ Record \/ UNCHANGED vars
  BY <1>1, BeginKept
<1>2. CASE Install
  BY <1>2, UnpackKept, AsideKept, BackKept, SwapInKept, DropPrevKept, KeepPrevKept, DropOldKept,
     ManifestKept
     DEF Install, Kept!KNext
<1>3. CASE Rollback
  BY <1>3, AsideKept, BackKept, RestoreKept, RollForwardKept, DropOldKept
     DEF Rollback, Kept!KNext
<1>4. CASE Uninstall
  BY <1>4, RemoveLiveKept, DropPrevKept DEF Uninstall, Kept!KNext
<1>5. CASE Crash
  BY <1>5, CrashKept DEF Kept!KNext
<1> QED
  BY <1>1, <1>2, <1>3, <1>4, <1>5 DEF Next

\* The directory keeps the promise of KeptVersions: what a launch starts and
\* what a rollback would restore go from one complete version to another in
\* single steps (stagedInstall, rollbackDir).
THEOREM DirectoryKeepsPromise == Spec => ImplementsKept
<1>1. Init => Kept!KInit
  BY KeptInit
<1>2. SwapInv /\ [Next]_vars => [Kept!KNext]_Kept!kvars
  BY NextKept DEF Stutter, Current, Leaving, Kept!kvars
<1> QED
  BY <1>1, <1>2, SwapInvariant, PTL DEF Spec, ImplementsKept, Kept!KSpec

-----------------------------------------------------------------------------
(* The download cache (AssetCache).                                        *)

\* A nonempty set of naturals has a least element.
LEMMA LeastNatural ==
  ASSUME NEW T, T \subseteq Nat, T # {}
  PROVE  \E x \in T : \A y \in T : x <= y
<1>1. PICK x \in T : \A y \in T : ~(<<y, x>> \in OpToRel(<, Nat))
  BY NatLessThanWellFounded, WFMin
<1>2. \A y \in T : ~(y < x)
  BY <1>1 DEF OpToRel
<1> QED
  BY <1>2

-----------------------------------------------------------------------------
(* The invariant.                                                          *)

\* Actor a has the lock, and what it reads and writes is under it.
AtWork(a) == cPc[a] \notin {"idle", "lock"}

Busy(a) == cPc[a] # "idle"

\* A job is for a release, and an install records the version it fetches.
Tasked ==
  /\ \A a \in Cache!Actors : Busy(a) => task[a] \in Cache!Task
  /\ \A i \in Installers : Busy(i) => Cache!Asset(i) = Cache!Label(i)

\* Whoever is at work has the lock of the file it works at.
Locked == ~disturbed => \A a \in Cache!Actors : AtWork(a) => lock[Cache!File(a)] = a

\* The installers that owe their version to another one find it on record.
Known == /\ \A i \in own : AtWork(i)
         /\ \A i \in news : Busy(i) /\ cRecord = Cache!Label(i) /\ ~task[i].wasBefore

CacheInv ==
  /\ Cache!TypeOK /\ shipped # {}
  /\ Tasked /\ Locked /\ Known
  /\ Cache!FetchedBytesStay /\ Cache!SignedBytesOnly /\ Cache!NoRepeat

LEMMA CacheInvInit == ASSUME Cache!CacheAssumption, Cache!Init PROVE CacheInv
<1> USE DEF Cache!CacheAssumption, Cache!Init
<1>1. 1 \in Cache!Releases
  BY DEF Cache!Releases
<1>2. Cache!TypeOK /\ shipped # {}
  BY <1>1 DEF Cache!TypeOK, Cache!PC, Cache!Actors
<1>3. \A a \in Cache!Actors : cPc[a] = "idle"
  OBVIOUS
<1> QED
  BY <1>2, <1>3 DEF CacheInv, Tasked, Locked, Known, Cache!FetchedBytesStay,
     Cache!SignedBytesOnly, Cache!NoRepeat,
                    Cache!Using, AtWork, Busy, Cache!Actors

\* There is a newest release that has the asset.
LEMMA SourceExists ==
  ASSUME Cache!CacheAssumption, Cache!TypeOK, shipped # {}
  PROVE  Cache!Source \in shipped
<1> DEFINE T == {LastVersion - v : v \in shipped}
<1>0. \A v \in shipped : v \in Nat /\ v <= LastVersion
  BY DEF Cache!CacheAssumption, Cache!TypeOK, Cache!Releases
<1>1. T \subseteq Nat /\ T # {}
  BY <1>0 DEF Cache!CacheAssumption
<1>2. PICK t \in T : \A u \in T : t <= u
  BY <1>1, LeastNatural
<1>3. PICK v \in shipped : t = LastVersion - v
  BY <1>2
<1>4. ASSUME NEW w \in shipped PROVE w <= v
  <2>1. t <= LastVersion - w
    BY <1>2
  <2> QED
    BY <2>1, <1>0, <1>3 DEF Cache!CacheAssumption
<1> QED
  BY <1>4 DEF Cache!Source

-----------------------------------------------------------------------------
(* What the parts of a step change.                                        *)

\* The version and the file of a job are what they are said to be.
LEMMA JobTypes ==
  ASSUME Cache!CacheAssumption, CacheInv, NEW a \in Cache!Actors, Busy(a)
  PROVE  /\ task[a] \in Cache!Task
         /\ Cache!Asset(a) \in Cache!Releases /\ Cache!Label(a) \in Cache!Releases
         /\ Cache!File(a) \in Paths
BY DEF Cache!CacheAssumption, CacheInv, Tasked, Cache!Task, Cache!Asset, Cache!Label, Cache!File

LEMMA PutTypes ==
  ASSUME Cache!CacheAssumption, CacheInv, NEW a \in Cache!Actors, Busy(a),
         NEW content \in Cache!Releases \cup {None, Garbage}, Cache!Put(a, content)
  PROVE  /\ file' \in [Paths -> Cache!Releases \cup {None, Garbage}]
         /\ file'[Cache!File(a)] = content
         /\ \A f \in Paths : f # Cache!File(a) => file'[f] = file[f]
BY JobTypes DEF Cache!Put, CacheInv, Cache!TypeOK

ActorTypes == /\ lock \in [Paths -> Cache!Actors \cup {None}]
              /\ cPc \in [Cache!Actors -> Cache!PC]
              /\ task \in [Cache!Actors -> Cache!Task \cup {None}]
              /\ judging \in SUBSET Cache!Actors
              /\ own \in SUBSET Installers /\ disturbed \in BOOLEAN

LEMMA GoOnTypes ==
  ASSUME CacheInv, NEW a \in Cache!Actors, NEW next \in Cache!PC, Cache!GoOn(a, next)
  PROVE  ActorTypes'
BY DEF CacheInv, Cache!TypeOK, ActorTypes, Cache!GoOn, Cache!GoTo

LEMMA LeaveTypes ==
  ASSUME Cache!CacheAssumption, CacheInv, NEW a \in Cache!Actors, Busy(a), Cache!Leave(a)
  PROVE  ActorTypes'
<1>1. cPc' \in [Cache!Actors -> Cache!PC]
  BY DEF CacheInv, Cache!TypeOK, Cache!Leave, Cache!GoTo, Cache!PC
<1>2. task' \in [Cache!Actors -> Cache!Task \cup {None}]
  BY DEF CacheInv, Cache!TypeOK, Cache!Leave
<1>3. lock' \in [Paths -> Cache!Actors \cup {None}]
  BY JobTypes DEF CacheInv, Cache!TypeOK, Cache!Leave
<1>4. own' \in SUBSET Installers /\ judging' \in SUBSET Cache!Actors
  BY DEF CacheInv, Cache!TypeOK, Cache!Leave
<1>5. disturbed' \in BOOLEAN
  BY DEF Cache!Leave
<1> QED
  BY <1>1, <1>2, <1>3, <1>4, <1>5 DEF ActorTypes

\* Two at work are at work at different files.
LEMMA Alone ==
  ASSUME CacheInv, ~disturbed, NEW a \in Cache!Actors, NEW b \in Cache!Actors, a # b,
         AtWork(a), AtWork(b)
  PROVE  Cache!File(a) # Cache!File(b)
BY DEF CacheInv, Locked

\* A step that leaves the job of b as it is, and b at work or not.
KeepsJob(b) ==
  /\ Cache!Asset(b)' = Cache!Asset(b) /\ Cache!Label(b)' = Cache!Label(b)
  /\ Cache!File(b)' = Cache!File(b)
  /\ Busy(b)' <=> Busy(b)
Keeps(b) == KeepsJob(b) /\ (AtWork(b)' <=> AtWork(b))

\* All of the invariant but the types.
Sound == /\ Tasked /\ Locked /\ Known
         /\ Cache!FetchedBytesStay /\ Cache!SignedBytesOnly /\ Cache!NoRepeat

\* What the properties ask of one installer.
Served(i) == /\ Cache!Using(i) /\ i \in own => file[Cache!File(i)] = Cache!Label(i)
             /\ strict /\ cPc[i] = "engine" => file[Cache!File(i)] = Cache!Label(i)

LEMMA ServedIsSound ==
  (~disturbed => \A i \in Installers : Served(i))
    <=> Cache!FetchedBytesStay /\ Cache!SignedBytesOnly
BY DEF Served, Cache!FetchedBytesStay, Cache!SignedBytesOnly

\* An actor at work goes on, having touched at most its own file.
LEMMA WorkGoesOn ==
  ASSUME Cache!CacheAssumption, CacheInv, NEW a \in Cache!Actors, AtWork(a),
         NEW next \in Cache!PC \ {"idle", "lock"}, Cache!GoOn(a, next),
         \A f \in Paths : f # Cache!File(a) => file'[f] = file[f],
         a \in Installers /\ ~disturbed => Served(a)',
         UNCHANGED <<cRecord, strict>>
  PROVE  Sound'
<1>1. cPc'[a] = next /\ \A b \in Cache!Actors \ {a} : cPc'[b] = cPc[b]
  BY DEF CacheInv, Cache!TypeOK, Cache!GoOn, Cache!GoTo
<1>2. UNCHANGED <<lock, task, own, news, disturbed>>
  BY DEF Cache!GoOn
<1>3. \A b \in Cache!Actors : Keeps(b)
  BY <1>1, <1>2 DEF Keeps, KeepsJob, Cache!Asset, Cache!Label, Cache!File, Busy, AtWork
<1>4. Tasked' /\ Locked' /\ Known'
  BY <1>2, <1>3 DEF Keeps, KeepsJob, CacheInv, Sound, Tasked, Locked, Known, Cache!TypeOK,
     Cache!Actors
<1>5. ASSUME ~disturbed, NEW i \in Installers, i # a PROVE Served(i)'
  <2>1. CASE AtWork(i)
    <3>1. file'[Cache!File(i)] = file[Cache!File(i)]
      BY <1>5, <2>1, Alone, JobTypes DEF AtWork, Busy, Cache!Actors
    <3> QED
      BY <1>1, <1>2, <1>3, <1>5, <3>1
         DEF Keeps, KeepsJob, Served, Cache!Using, CacheInv, Cache!FetchedBytesStay,
                                          Cache!SignedBytesOnly, Cache!Actors
  <2>2. CASE ~AtWork(i)
    BY <1>1, <1>5, <2>2 DEF Served, Cache!Using, AtWork, Cache!Actors
  <2> QED
    BY <2>1, <2>2
<1>6. Cache!FetchedBytesStay' /\ Cache!SignedBytesOnly'
  BY <1>2, <1>5 DEF Served, Cache!FetchedBytesStay, Cache!SignedBytesOnly
<1>7. Cache!NoRepeat'
  BY <1>1, <1>2 DEF CacheInv, Cache!NoRepeat, AtWork, Cache!TypeOK, Cache!Actors
<1> QED
  BY <1>4, <1>6, <1>7 DEF Sound

\* An actor leaves, having touched at most its own file, and that only at work.
LEMMA WorkEnds ==
  ASSUME Cache!CacheAssumption, CacheInv, NEW a \in Cache!Actors, Busy(a), Cache!Leave(a),
         \A f \in Paths : f # Cache!File(a) \/ ~AtWork(a) => file'[f] = file[f],
         UNCHANGED strict,
         \/ news' = news \ {a} /\ UNCHANGED cRecord
         \/ AtWork(a) /\ a \in Installers /\ cRecord' = Cache!Label(a)
            /\ news' = {j \in Installers \ {a} :
                   cPc[j] # "idle" /\ Cache!Label(j) = Cache!Label(a) /\ ~task[j].wasBefore}
  PROVE  Sound'
<1>1. cPc'[a] = "idle" /\ \A b \in Cache!Actors \ {a} : cPc'[b] = cPc[b] /\ task'[b] = task[b]
  BY DEF CacheInv, Cache!TypeOK, Cache!Leave, Cache!GoTo
<1>2. own' = own \ {a} /\ (disturbed' <=> disturbed /\ \E b \in Cache!Actors \ {a} : Busy(b))
  BY DEF Cache!Leave, Busy
<1>3. \A b \in Cache!Actors \ {a} : Keeps(b)
  BY <1>1 DEF Keeps, KeepsJob, Cache!Asset, Cache!Label, Cache!File, Busy, AtWork
<1>4. ~Busy(a)' /\ ~AtWork(a)'
  BY <1>1 DEF Busy, AtWork
<1>5. Tasked'
  BY <1>1, <1>3, <1>4 DEF Keeps, KeepsJob, CacheInv, Tasked, Cache!Actors
<1>6. ASSUME ~disturbed', NEW b \in Cache!Actors, AtWork(b)' PROVE ~disturbed /\ b # a /\ AtWork(b)
  BY <1>2, <1>3, <1>4, <1>6 DEF Keeps, KeepsJob, AtWork, Busy
<1>7. Locked'
  <2> SUFFICES ASSUME ~disturbed', NEW b \in Cache!Actors, AtWork(b)'
               PROVE  lock'[Cache!File(b)'] = b
    BY DEF Locked
  <2>1. /\ lock[Cache!File(b)] = b /\ b # a
        /\ Cache!File(b)' = Cache!File(b) /\ Cache!File(b) \in Paths
    BY <1>3, <1>6, JobTypes DEF Keeps, KeepsJob, CacheInv, Locked, AtWork, Busy
  <2> QED
    BY <2>1, JobTypes DEF Cache!Leave, CacheInv, Cache!TypeOK
<1>8. Known'
  <2>1. \A i \in own' : AtWork(i)'
    BY <1>2, <1>3 DEF Keeps, KeepsJob, CacheInv, Known, Cache!TypeOK, Cache!Actors
  <2>2. \A i \in news' : Busy(i)' /\ cRecord' = Cache!Label(i)' /\ ~task'[i].wasBefore
    BY <1>1, <1>3 DEF Keeps, KeepsJob, CacheInv, Known, Cache!TypeOK, Cache!Actors, Busy
  <2> QED
    BY <2>1, <2>2 DEF Known
<1>9. ASSUME ~disturbed', NEW i \in Installers PROVE Served(i)'
  <2>1. CASE AtWork(i)'
    <3>1. ~disturbed /\ i # a /\ AtWork(i)
      BY <1>6, <1>9, <2>1 DEF Cache!Actors
    <3>2. file'[Cache!File(i)] = file[Cache!File(i)]
      BY <3>1, Alone, JobTypes DEF AtWork, Busy, Cache!Actors
    <3> QED
      BY <1>1, <1>2, <1>3, <3>1, <3>2
         DEF Keeps, KeepsJob, Served, Cache!Using, CacheInv, Cache!FetchedBytesStay,
                                          Cache!SignedBytesOnly, Cache!Actors
  <2>2. CASE ~AtWork(i)'
    BY <2>2 DEF Served, Cache!Using, AtWork
  <2> QED
    BY <2>1, <2>2
<1>10. Cache!FetchedBytesStay' /\ Cache!SignedBytesOnly'
  BY <1>9 DEF Served, Cache!FetchedBytesStay, Cache!SignedBytesOnly
<1>11. Cache!NoRepeat'
  <2> SUFFICES ASSUME ~disturbed', NEW i \in news' PROVE cPc'[i] = "lock"
    BY DEF Cache!NoRepeat
  <2>1. i \in Cache!Actors /\ i # a /\ Busy(i)
    BY DEF CacheInv, Known, Cache!TypeOK, Cache!Actors, Busy
  <2>2. ~disturbed
    BY <1>2, <2>1
  <2>3. CASE i \in news
    BY <1>1, <2>1, <2>2, <2>3 DEF CacheInv, Cache!NoRepeat
  <2>4. CASE i \notin news
    <3>1. AtWork(a) /\ a \in Installers /\ i \in Installers /\ Cache!Label(i) = Cache!Label(a)
      BY <2>4
    <3>2. Cache!File(i) = Cache!File(a)
      BY <2>1, <3>1 DEF CacheInv, Tasked, Cache!File, Cache!Asset, Cache!Label
    <3>3. ~AtWork(i)
      BY <2>1, <2>2, <3>1, <3>2, Alone
    <3> QED
      BY <1>1, <2>1, <3>3 DEF AtWork, Busy
  <2> QED
    BY <2>3, <2>4
<1> QED
  BY <1>5, <1>7, <1>8, <1>10, <1>11 DEF Sound

-----------------------------------------------------------------------------
(* The steps.                                                              *)

\* A job begins to wait for the lock.
LEMMA BeginStep ==
  ASSUME Cache!CacheAssumption, CacheInv, NEW a \in Cache!Actors, NEW what \in Cache!Task,
         a \in Installers => what.asset = what.label, Cache!Begin(a, what)
  PROVE  CacheInv'
<1>1. cPc[a] = "idle" /\ cPc'[a] = "lock" /\ task'[a] = what
  BY DEF CacheInv, Cache!TypeOK, Cache!Begin, Cache!GoTo
<1>2. \A b \in Cache!Actors \ {a} : cPc'[b] = cPc[b] /\ task'[b] = task[b]
  BY DEF CacheInv, Cache!TypeOK, Cache!Begin, Cache!GoTo
<1>3. UNCHANGED <<file, lock, stale, download, cRecord, latest, shipped, strict, own, news,
                  disturbed>>
  BY DEF Cache!Begin, Cache!diskVars, Cache!releases
<1>4. ActorTypes'
  BY DEF CacheInv, Cache!TypeOK, ActorTypes, Cache!Begin, Cache!GoTo, Cache!PC, Cache!diskVars
<1>5. \A b \in Cache!Actors : AtWork(b)' <=> AtWork(b)
  BY <1>1, <1>2 DEF AtWork
<1>6. \A b \in Cache!Actors \ {a} : KeepsJob(b)
  BY <1>2 DEF KeepsJob, Cache!Asset, Cache!Label, Cache!File, Busy
<1>7. a \notin own /\ a \notin news /\ ~AtWork(a)
  BY <1>1 DEF CacheInv, Known, AtWork, Busy
<1>8. Tasked'
  <2>1. Cache!Asset(a)' = what.asset /\ Cache!Label(a)' = what.label
    BY <1>1 DEF Cache!Asset, Cache!Label
  <2>2. \A b \in Cache!Actors \ {a} : Busy(b)' => task'[b] \in Cache!Task
    BY <1>2, <1>6 DEF Keeps, KeepsJob, CacheInv, Tasked
  <2>3. \A i \in Installers \ {a} : Busy(i)' => Cache!Asset(i)' = Cache!Label(i)'
    BY <1>6 DEF Keeps, KeepsJob, CacheInv, Tasked, Cache!Actors
  <2> QED
    BY <1>1, <2>1, <2>2, <2>3 DEF Tasked
<1>9. Locked' /\ Known'
  BY <1>2, <1>3, <1>5, <1>6, <1>7
     DEF Keeps, KeepsJob, CacheInv, Locked, Known, Cache!TypeOK, Cache!Actors
<1>10. Cache!FetchedBytesStay' /\ Cache!SignedBytesOnly' /\ Cache!NoRepeat'
  BY <1>1, <1>2, <1>3, <1>6, <1>7
     DEF Keeps, KeepsJob, CacheInv, Cache!FetchedBytesStay, Cache!SignedBytesOnly,
         Cache!NoRepeat, Cache!Using, Cache!TypeOK, Cache!Actors
<1> QED
  BY <1>3, <1>4, <1>8, <1>9, <1>10
     DEF CacheInv, Cache!TypeOK, Sound, ActorTypes, Cache!releases

\* It has the lock, and takes what is on record or fetches.
LEMMA LockStep ==
  ASSUME Cache!CacheAssumption, CacheInv, NEW a \in Cache!Actors,
         cPc[a] = "lock", lock[Cache!File(a)] = None,
         Cache!LockAndReuse(a) \/ Cache!LockAndFetch(a),
         a \in news => FALSE
  PROVE  CacheInv'
<1>1. PICK next \in {"delta", "full", "verify"} : Cache!Lock(a, next)
  BY DEF Cache!LockAndReuse, Cache!LockAndFetch
<1>2. /\ cPc'[a] = next /\ \A b \in Cache!Actors \ {a} : cPc'[b] = cPc[b] /\ task'[b] = task[b]
      /\ next \notin {"idle", "lock", "engine"}
  BY <1>1 DEF CacheInv, Cache!TypeOK, Cache!Lock, Cache!GoTo
<1>3. UNCHANGED <<file, download, cRecord, Cache!releases, news, disturbed>>
  BY <1>1 DEF Cache!Lock
<1>4. own' \in {own, own \cup ({a} \cap Installers)} /\ (next = "verify" => own' = own)
  <2>1. CASE Cache!LockAndReuse(a)
    BY <2>1 DEF Cache!LockAndReuse
  <2>2. CASE Cache!LockAndFetch(a)
    BY <1>2, <2>2 DEF Cache!LockAndFetch, Cache!Lock, Cache!GoTo, CacheInv, Cache!TypeOK
  <2> QED
    BY <2>1, <2>2
<1>5. /\ task[a] \in Cache!Task /\ Cache!Asset(a) \in Cache!Releases
      /\ Cache!Label(a) \in Cache!Releases /\ Cache!File(a) \in Paths
  BY JobTypes DEF Busy
<1>6. /\ task'[a] \in Cache!Task /\ Cache!Asset(a)' = Cache!Asset(a)
      /\ Cache!Label(a)' = Cache!Label(a) /\ Cache!File(a)' = Cache!File(a)
  BY <1>1, <1>5 DEF Cache!Lock, Cache!Task, Cache!Asset, Cache!Label, Cache!File, CacheInv,
     Cache!TypeOK
<1>7. \A b \in Cache!Actors \ {a} : Keeps(b)
  BY <1>2 DEF Keeps, KeepsJob, Cache!Asset, Cache!Label, Cache!File, Busy, AtWork
<1>8. a \notin own /\ Busy(a) /\ AtWork(a)' /\ Busy(a)'
  BY <1>2 DEF CacheInv, Known, AtWork, Busy
<1>9. /\ lock' = [lock EXCEPT ![Cache!File(a)] = a]
      /\ stale' = stale \ {Cache!File(a)}
  BY <1>1 DEF Cache!Lock
<1>10. ActorTypes'
  <2>1. cPc' \in [Cache!Actors -> Cache!PC]
    BY <1>1 DEF Cache!Lock, Cache!GoTo, CacheInv, Cache!TypeOK, Cache!PC, Cache!Routes
  <2>2. task' \in [Cache!Actors -> Cache!Task \cup {None}]
    BY <1>1, <1>6 DEF Cache!Lock, CacheInv, Cache!TypeOK
  <2>3. lock' \in [Paths -> Cache!Actors \cup {None}]
    BY <1>9 DEF CacheInv, Cache!TypeOK
  <2>4. judging' \in SUBSET Cache!Actors
    BY <1>1 DEF Cache!Lock, CacheInv, Cache!TypeOK
  <2> QED
    BY <1>3, <1>4, <2>1, <2>2, <2>3, <2>4 DEF ActorTypes, CacheInv, Cache!TypeOK
<1>11. Tasked'
  <2>1. \A b \in Cache!Actors \ {a} : Busy(b)' => task'[b] \in Cache!Task
    BY <1>2, <1>7 DEF Keeps, KeepsJob, CacheInv, Tasked
  <2>2. \A i \in Installers : Busy(i)' => Cache!Asset(i)' = Cache!Label(i)'
    BY <1>6, <1>7, <1>8 DEF Keeps, KeepsJob, CacheInv, Tasked, Cache!Actors
  <2> QED
    BY <1>6, <2>1, <2>2 DEF Tasked
<1>12. Locked'
  <2> SUFFICES ASSUME ~disturbed', NEW b \in Cache!Actors, AtWork(b)'
               PROVE  lock'[Cache!File(b)'] = b
    BY DEF Locked
  <2>1. CASE b = a
    BY <1>5, <1>6, <1>9, <2>1 DEF CacheInv, Cache!TypeOK
  <2>2. CASE b # a
    <3>1. lock[Cache!File(b)] = b /\ Cache!File(b)' = Cache!File(b) /\ Cache!File(b) \in Paths
      BY <1>3, <1>7, <2>2, JobTypes DEF Keeps, KeepsJob, CacheInv, Locked, AtWork, Busy
    <3>2. b # None
      BY DEF Cache!CacheAssumption, Cache!Actors
    <3> QED
      BY <1>9, <3>1, <3>2 DEF CacheInv, Cache!TypeOK
  <2> QED
    BY <2>1, <2>2
<1>13. Known'
  BY <1>2, <1>3, <1>4, <1>7, <1>8
     DEF Keeps, KeepsJob, CacheInv, Known, Cache!TypeOK, Cache!Actors
<1>14. Cache!FetchedBytesStay' /\ Cache!SignedBytesOnly' /\ Cache!NoRepeat'
  <2>1. ASSUME ~disturbed, NEW i \in Installers PROVE Served(i)'
    <3>1. CASE i = a
      BY <1>2, <1>4, <1>8, <3>1 DEF Served, Cache!Using
    <3>2. CASE i # a
      BY <1>2, <1>3, <1>4, <1>7, <2>1, <3>2
         DEF Keeps, KeepsJob, Served, Cache!Using, CacheInv, Cache!FetchedBytesStay,
             Cache!SignedBytesOnly, Cache!Actors, Cache!releases
    <3> QED
      BY <3>1, <3>2
  <2>2. Cache!FetchedBytesStay' /\ Cache!SignedBytesOnly'
    BY <1>3, <2>1 DEF Served, Cache!FetchedBytesStay, Cache!SignedBytesOnly
  <2>3. Cache!NoRepeat'
    BY <1>2, <1>3 DEF CacheInv, Cache!NoRepeat, Cache!TypeOK, Cache!Actors
  <2> QED
    BY <2>2, <2>3
<1> QED
  BY <1>3, <1>9, <1>10, <1>11, <1>12, <1>13, <1>14
     DEF CacheInv, Cache!TypeOK, Sound, ActorTypes, Cache!releases

\* A step of one at work that goes on, as it changes the rest.
LEMMA GoesOn ==
  ASSUME Cache!CacheAssumption, CacheInv, NEW a \in Cache!Actors, AtWork(a),
         NEW next \in Cache!PC \ {"idle", "lock"}, Cache!GoOn(a, next),
         \/ UNCHANGED file
         \/ \E content \in Cache!Releases \cup {None, Garbage} : Cache!Put(a, content),
         a \in Installers /\ ~disturbed => Served(a)',
         UNCHANGED <<download, cRecord, Cache!releases>>
  PROVE  CacheInv'
<1>1. /\ file' \in [Paths -> Cache!Releases \cup {None, Garbage}]
      /\ \A f \in Paths : f # Cache!File(a) => file'[f] = file[f]
  <2>1. CASE UNCHANGED file
    BY <2>1 DEF CacheInv, Cache!TypeOK
  <2>2. CASE \E content \in Cache!Releases \cup {None, Garbage} : Cache!Put(a, content)
    BY <2>2, PutTypes DEF AtWork, Busy
  <2> QED
    BY <2>1, <2>2
<1>2. Sound'
  BY <1>1, WorkGoesOn DEF Cache!releases
<1>3. ActorTypes'
  BY GoOnTypes
<1> QED
  BY <1>1, <1>2, <1>3
     DEF CacheInv, Cache!TypeOK, Sound, ActorTypes, Cache!GoOn, Cache!releases

\* A step that ends a job without an install.
LEMMA Ends ==
  ASSUME Cache!CacheAssumption, CacheInv, NEW a \in Cache!Actors, Busy(a), Cache!Leave(a),
         news' = news \ {a}, stale' \in SUBSET Paths,
         \/ UNCHANGED file
         \/ /\ AtWork(a)
            /\ \E content \in Cache!Releases \cup {None, Garbage} : Cache!Put(a, content),
         download' \in Cache!Download \cup {None},
         UNCHANGED <<cRecord, Cache!releases>>
  PROVE  CacheInv'
<1>1. /\ file' \in [Paths -> Cache!Releases \cup {None, Garbage}]
      /\ \A f \in Paths : f # Cache!File(a) \/ ~AtWork(a) => file'[f] = file[f]
  <2>1. CASE UNCHANGED file
    BY <2>1 DEF CacheInv, Cache!TypeOK
  <2>2. CASE /\ AtWork(a)
             /\ \E content \in Cache!Releases \cup {None, Garbage} : Cache!Put(a, content)
    BY <2>2, PutTypes
  <2> QED
    BY <2>1, <2>2
<1>2. Sound'
  BY <1>1, WorkEnds DEF Cache!releases
<1>3. ActorTypes'
  BY LeaveTypes
<1> QED
  BY <1>1, <1>2, <1>3
     DEF CacheInv, Cache!TypeOK, Sound, ActorTypes, Cache!releases

LEMMA OverEnds ==
  ASSUME CacheInv, NEW a \in Cache!Actors, Cache!Over(a)
  PROVE  Cache!Leave(a) /\ news' = news \ {a} /\ stale' \in SUBSET Paths
BY DEF Cache!Over, CacheInv, Cache!TypeOK

\* Every step of an install.
LEMMA InstallSteps ==
  ASSUME Cache!CacheAssumption, CacheInv, NEW i \in Installers, Cache!InstallStep(i)
  PROVE  CacheInv'
<1> i \in Cache!Actors
  BY DEF Cache!Actors
<1>1. CASE Cache!BeginInstall(i)
  <2>1. PICK v \in shipped :
          Cache!Begin(i, [asset |-> v, label |-> v, wasBefore |-> cRecord = v])
    BY <1>1 DEF Cache!BeginInstall
  <2>2. [asset |-> v, label |-> v, wasBefore |-> cRecord = v] \in Cache!Task
    <3>1. v \in Cache!Releases /\ (cRecord = v) \in BOOLEAN
      BY DEF CacheInv, Cache!TypeOK
    <3> QED
      BY <3>1, Zenon DEF Cache!Task
  <2> QED
    BY <2>1, <2>2, BeginStep
<1>2. CASE Cache!LockInstall(i)
  <2>1. Busy(i)
    BY <1>2 DEF Cache!LockInstall, Busy
  <2>2. CASE Cache!Over(i) /\ UNCHANGED <<file, download, cRecord, Cache!releases>>
    BY <2>1, <2>2, Ends, OverEnds DEF CacheInv, Cache!TypeOK
  <2>3. CASE /\ cRecord = Cache!Label(i) => task[i].wasBefore
             /\ Cache!LockAndReuse(i) \/ Cache!LockAndFetch(i)
    BY <1>2, <2>3, LockStep DEF Cache!LockInstall, CacheInv, Known
  <2> QED
    BY <1>2, <2>2, <2>3 DEF Cache!LockInstall
<1>3. CASE Cache!BeginDelta(i)
  <2>1. AtWork(i) /\ ~Cache!Using(i)' /\ cPc'[i] # "engine"
    BY <1>3 DEF Cache!BeginDelta, AtWork, Cache!Using, Cache!GoOn, Cache!GoTo, CacheInv,
       Cache!TypeOK
  <2> QED
    BY <1>3, <2>1, GoesOn DEF Cache!BeginDelta, Served, Cache!PC
<1>4. CASE Cache!EndDelta(i)
  <2>1. AtWork(i) /\ Busy(i)
    BY <1>4 DEF Cache!EndDelta, AtWork, Busy
  <2>2. Cache!Asset(i) \in Cache!Releases /\ Cache!Asset(i) = Cache!Label(i)
    BY <2>1, JobTypes DEF CacheInv, Tasked
  <2>3. CASE Cache!Put(i, Cache!Asset(i)) /\ Cache!GoOn(i, "verify")
    <3>1. Served(i)'
      BY <2>1, <2>2, <2>3, PutTypes DEF Served, Cache!GoOn, Cache!File, Cache!Label, Cache!Asset
    <3> QED
      BY <1>4, <2>1, <2>2, <2>3, <3>1, GoesOn DEF Cache!EndDelta, Cache!PC
  <2>4. CASE Cache!Put(i, None) /\ Cache!GoOn(i, "seed")
    <3>1. ~Cache!Using(i)' /\ cPc'[i] # "engine"
      BY <2>4 DEF Cache!Using, Cache!GoOn, Cache!GoTo, CacheInv, Cache!TypeOK
    <3> QED
      BY <1>4, <2>1, <2>4, <3>1, GoesOn DEF Cache!EndDelta, Served, Cache!PC, Cache!Routes
  <2>5. CASE Cache!Put(i, None) /\ Cache!Over(i)
    BY <1>4, <2>1, <2>5, Ends, OverEnds DEF Cache!EndDelta, CacheInv, Cache!TypeOK
  <2> QED
    BY <1>4, <2>3, <2>4, <2>5 DEF Cache!EndDelta
<1>5. CASE Cache!SeedFails(i)
  <2>1. AtWork(i) /\ Busy(i)
    BY <1>5 DEF Cache!SeedFails, AtWork, Busy
  <2>2. CASE Cache!GoOn(i, "full")
    <3>1. ~Cache!Using(i)' /\ cPc'[i] # "engine"
      BY <2>2 DEF Cache!Using, Cache!GoOn, Cache!GoTo, CacheInv, Cache!TypeOK
    <3> QED
      BY <1>5, <2>1, <2>2, <3>1, GoesOn DEF Cache!SeedFails, Served, Cache!PC, Cache!Routes
  <2>3. CASE Cache!Over(i)
    BY <1>5, <2>1, <2>3, Ends, OverEnds DEF Cache!SeedFails, CacheInv, Cache!TypeOK
  <2> QED
    BY <1>5, <2>2, <2>3 DEF Cache!SeedFails
<1>6. CASE Cache!Verify(i)
  <2>1. AtWork(i) /\ Busy(i)
    BY <1>6 DEF Cache!Verify, AtWork, Busy
  <2>2. ~disturbed => Served(i)'
    BY <1>6 DEF Cache!Verify, Cache!GoOn, Cache!releases, Served, Cache!Using, Cache!File,
       Cache!Label, Cache!Asset, CacheInv, Cache!FetchedBytesStay
  <2> QED
    BY <1>6, <2>1, <2>2, GoesOn DEF Cache!Verify, Cache!PC
<1>7. CASE Cache!Refuse(i) \/ Cache!InstallFails(i)
  <2>1. Busy(i) /\ Cache!Over(i) /\ UNCHANGED <<file, download, cRecord, Cache!releases>>
    BY <1>7 DEF Cache!Refuse, Cache!InstallFails, Busy
  <2> QED
    BY <2>1, Ends, OverEnds DEF CacheInv, Cache!TypeOK
<1>8. CASE Cache!BadSignature(i)
  <2>1. AtWork(i) /\ Busy(i)
    BY <1>8 DEF Cache!BadSignature, AtWork, Busy
  <2> QED
    BY <1>8, <2>1, Ends, OverEnds DEF Cache!BadSignature
<1>9. CASE Cache!Install(i)
  <2>1. AtWork(i) /\ Busy(i)
    BY <1>9 DEF Cache!Install, AtWork, Busy
  <2>2. /\ file' \in [Paths -> Cache!Releases \cup {None, Garbage}]
        /\ \A f \in Paths : f # Cache!File(i) => file'[f] = file[f]
    BY <1>9, <2>1, PutTypes DEF Cache!Install
  <2>3. Sound'
    BY <1>9, <2>1, <2>2, WorkEnds DEF Cache!Install, Cache!releases
  <2>4. ActorTypes'
    BY <1>9, <2>1, LeaveTypes DEF Cache!Install
  <2>5. Cache!Label(i) \in Cache!Releases
    BY <2>1, JobTypes
  <2> QED
    BY <1>9, <2>2, <2>3, <2>4, <2>5
       DEF Cache!Install, CacheInv, Cache!TypeOK, Sound, ActorTypes, Cache!releases
<1> QED
  BY <1>1, <1>2, <1>3, <1>4, <1>5, <1>6, <1>7, <1>8, <1>9 DEF Cache!InstallStep

\* Every step of a pre-download.
LEMMA PrefetchSteps ==
  ASSUME Cache!CacheAssumption, CacheInv, NEW p \in Prefetchers, Cache!PrefetchStep(p)
  PROVE  CacheInv'
<1> p \in Cache!Actors /\ p \notin Installers
  BY DEF Cache!Actors, Cache!CacheAssumption
<1>1. CASE Cache!BeginPrefetch(p)
  <2>1. [asset |-> Cache!Source, label |-> latest, wasBefore |-> FALSE] \in Cache!Task
    <3>1. Cache!Source \in Cache!Releases /\ latest \in Cache!Releases
      BY SourceExists DEF CacheInv, Cache!TypeOK
    <3> QED
      BY <3>1 DEF Cache!Task
  <2> QED
    BY <1>1, <2>1, BeginStep DEF Cache!BeginPrefetch
<1>2. CASE Cache!LockPrefetch(p)
  <2>1. Busy(p) /\ p \notin news
    BY <1>2 DEF Cache!LockPrefetch, Busy, CacheInv, Cache!TypeOK
  <2>2. CASE Cache!Over(p) /\ UNCHANGED <<file, download, cRecord, Cache!releases>>
    BY <2>1, <2>2, Ends, OverEnds DEF CacheInv, Cache!TypeOK
  <2>3. CASE Cache!LockAndFetch(p)
    BY <1>2, <2>1, <2>3, LockStep DEF Cache!LockPrefetch
  <2> QED
    BY <1>2, <2>2, <2>3 DEF Cache!LockPrefetch
<1>3. CASE Cache!NoteDownload(p)
  <2>1. Busy(p)
    BY <1>3 DEF Cache!NoteDownload, Busy
  <2>2. download' \in Cache!Download
    BY <1>3, <2>1, JobTypes DEF Cache!NoteDownload, Cache!Download
  <2> QED
    BY <1>3, <2>1, <2>2, Ends, OverEnds DEF Cache!NoteDownload
<1> QED
  BY <1>1, <1>2, <1>3 DEF Cache!PrefetchStep

\* Downloads, locks taken away, and processes that die.
LEMMA AnyonesSteps ==
  ASSUME Cache!CacheAssumption, CacheInv, NEW a \in Cache!Actors,
         Cache!Fetch(a) \/ Cache!FetchFails(a) \/ Cache!BreakAgain(a) \/ Cache!Crash(a)
  PROVE  CacheInv'
<1>1. CASE Cache!Fetch(a)
  <2>1. AtWork(a) /\ Busy(a)
    BY <1>1 DEF Cache!Fetch, AtWork, Busy, Cache!Routes
  <2>2. /\ Cache!Asset(a) \in Cache!Releases
        /\ (a \in Installers => Cache!Asset(a) = Cache!Label(a))
    BY <2>1, JobTypes DEF CacheInv, Tasked
  <2>3. PICK next \in {"verify", "note"} : Cache!GoOn(a, next)
    BY <1>1 DEF Cache!Fetch
  <2>4. a \in Installers => Served(a)'
    BY <1>1, <2>1, <2>2, <2>3, PutTypes
       DEF Cache!Fetch, Served, Cache!GoOn, Cache!File, Cache!Label, Cache!Asset
  <2> QED
    BY <1>1, <2>1, <2>2, <2>3, <2>4, GoesOn DEF Cache!Fetch, Cache!PC
<1>2. CASE Cache!FetchFails(a)
  <2>1. Busy(a)
    BY <1>2 DEF Cache!FetchFails, Busy, Cache!Routes
  <2> QED
    BY <1>2, <2>1, Ends, OverEnds DEF Cache!FetchFails, CacheInv, Cache!TypeOK
<1>3. CASE Cache!Crash(a)
  <2>1. Busy(a) /\ (cPc[a] \in Cache!Routes => AtWork(a))
    BY <1>3 DEF Cache!Crash, Busy, AtWork, Cache!Routes
  <2>2. stale' \in SUBSET Paths
    BY <1>3, <2>1, JobTypes DEF Cache!Crash, CacheInv, Cache!TypeOK
  <2> QED
    BY <1>3, <2>1, <2>2, Ends DEF Cache!Crash, CacheInv, Cache!TypeOK
<1>4. CASE Cache!BreakAgain(a)
  <2>1. Busy(a)
    BY <1>4 DEF Cache!BreakAgain, Busy
  <2>2. /\ lock' = [lock EXCEPT ![Cache!File(a)] = None]
        /\ stale' = stale \ {Cache!File(a)} /\ judging' = judging \ {a}
        /\ disturbed' = (disturbed \/ lock[Cache!File(a)] # None)
    BY <1>4 DEF Cache!BreakAgain
  <2>3. UNCHANGED <<file, download, cRecord, latest, shipped, strict, cPc, task, own, news>>
    BY <1>4 DEF Cache!BreakAgain, Cache!releases
  <2>4. Cache!TypeOK' /\ shipped' # {}
    BY <2>2, <2>3 DEF CacheInv, Cache!TypeOK
  <2>5. ~disturbed' => ~disturbed /\ lock' = lock
    BY <2>1, <2>2, JobTypes DEF CacheInv, Cache!TypeOK
  <2> QED
    BY <2>3, <2>4, <2>5
       DEF CacheInv, Tasked, Locked, Known, Cache!FetchedBytesStay, Cache!SignedBytesOnly,
           Cache!NoRepeat, AtWork, Busy, Cache!Using, Cache!File, Cache!Asset, Cache!Label
<1> QED
  BY <1>1, <1>2, <1>3, <1>4

\* What the user and GitHub do.
LEMMA OtherSteps ==
  ASSUME Cache!CacheAssumption, CacheInv,
         Cache!ChangeInstall \/ Cache!Publish \/ Cache!ClearCache \/ UNCHANGED Cache!vars
  PROVE  CacheInv'
<1>1. CASE Cache!ChangeInstall
  BY <1>1 DEF Cache!ChangeInstall, Cache!releases, CacheInv, Cache!TypeOK, Tasked, Locked,
     Known, Cache!FetchedBytesStay,
              Cache!SignedBytesOnly, Cache!NoRepeat, AtWork, Busy, Cache!Using, Cache!File,
              Cache!Asset, Cache!Label
<1>2. CASE Cache!Publish
  BY <1>2 DEF Cache!Publish, Cache!diskVars, Cache!actorVars, CacheInv, Cache!TypeOK, Tasked,
     Locked, Known,
              Cache!FetchedBytesStay, Cache!SignedBytesOnly, Cache!NoRepeat, AtWork, Busy,
              Cache!Using, Cache!File, Cache!Asset, Cache!Label
<1>3. CASE Cache!ClearCache
  <2>1. Cache!TypeOK' /\ shipped' # {}
    BY <1>3 DEF Cache!ClearCache, Cache!releases, CacheInv, Cache!TypeOK
  <2>2. ~disturbed' => \A a \in Cache!Actors : ~Busy(a)'
    BY <1>3 DEF Cache!ClearCache, Busy
  <2>3. Tasked' /\ Known'
    BY <1>3 DEF Cache!ClearCache, CacheInv, Tasked, Known, AtWork, Busy, Cache!Asset,
       Cache!Label
  <2> QED
    BY <2>1, <2>2, <2>3
       DEF CacheInv, Known, Cache!TypeOK, Locked, Cache!FetchedBytesStay, Cache!SignedBytesOnly,
                            Cache!NoRepeat, AtWork, Busy, Cache!Using, Cache!Actors
<1>4. CASE UNCHANGED Cache!vars
  BY <1>4 DEF Cache!vars, Cache!diskVars, Cache!releases, Cache!actorVars, CacheInv,
     Cache!TypeOK, Tasked, Locked, Known,
              Cache!FetchedBytesStay, Cache!SignedBytesOnly, Cache!NoRepeat, AtWork, Busy,
              Cache!Using, Cache!File, Cache!Asset, Cache!Label
<1> QED
  BY <1>1, <1>2, <1>3, <1>4

\* The strengthened invariant of the cache holds in every reachable state.
THEOREM CacheInvariant == Cache!Spec => []CacheInv
<1>1. Cache!Init => CacheInv
  BY InstallsAssumption, CacheInvInit
<1>2. CacheInv /\ [Cache!Next]_Cache!vars => CacheInv'
  BY InstallsAssumption, InstallSteps, PrefetchSteps, AnyonesSteps, OtherSteps DEF Cache!Next
<1> QED
  BY <1>1, <1>2, PTL DEF Cache!Spec

\* However installs, pre-downloads, crashes and new releases of any number of
\* processes interleave over any number of files: an install gets the bytes it
\* fetched, a pinned owner's app is installed from signed bytes only, and nobody
\* does again what another has just done ("one hub process at a time per asset
\* file", runInstall), unless the cache was cleared under them, or one of them,
\* having read the lock of a dead holder, removed the lock of a live one.
THEOREM CacheIsAlwaysSound == Cache!Spec => []CacheIsSound
<1>1. CacheInv => CacheIsSound
  BY DEF CacheInv, CacheIsSound, Cache!CacheIsSound
<1> QED
  BY <1>1, CacheInvariant, PTL

-----------------------------------------------------------------------------
(* The configuration archives (Snapshots).                                 *)

MaybeVersion == Versions \union {None}
Opening == [holds: Snap!Held, whole: BOOLEAN]
Entry   == [why: Snap!Reasons, version: MaybeVersion, holds: Snap!Held, whole: BOOLEAN]
CallRecord == [at: {"idle", "packing", "unpacking"}, why: Snap!Reasons, stamp: Nat,
               todo: SUBSET Snap!ConfigFiles, target: Nat, was: MaybeVersion, to: MaybeVersion,
               from: Opening, lost: Snap!Held, dirty: SUBSET Snap!ConfigFiles]

Typed ==
  /\ config \in [Snap!ConfigFiles -> Contents \union {Absent}]
  /\ last \in 0..MaxStamp /\ writes \in 0..MaxWrites
  /\ DOMAIN archive \subseteq 1..last
  /\ \A s \in DOMAIN archive : archive[s] \in Entry
  /\ version \in MaybeVersion
  /\ way \in [version: MaybeVersion, stamp: 0..last]
  /\ call \in [Callers -> CallRecord]
  /\ \A c \in Callers : call[c].stamp <= last /\ call[c].target <= last

\* File f is in archive s as k.
Has(s, f, k) == f \in DOMAIN archive[s].holds /\ archive[s].holds[f] = k

InPlace(s) == s \in DOMAIN archive \/ Snap!PushedOut(s)

\* An archive is written by one call, and not by one whose update is over.
OwnStamps ==
  /\ \A c, d \in Callers : c # d /\ call[c].stamp # 0 => call[c].stamp # call[d].stamp
  /\ \A c \in Callers : call[c].at = "packing" /\ call[c].stamp # 0 => call[c].stamp # way.stamp
  /\ \A c \in Callers : call[c].at = "idle" => call[c].stamp = 0

\* What a capture has read, and nobody wrote since, is in its archive.
Read(c) ==
  LET s == call[c].stamp
  IN s \in DOMAIN archive =>
       /\ archive[s].why = call[c].why /\ archive[s].version = call[c].was
       /\ \A f \in Snap!ConfigFiles \ (call[c].todo \union call[c].dirty) :
             config[f] # Absent => Has(s, f, config[f])

\* What a restore has overwritten, or will, is in its archive.
Saved(c) ==
  LET s == call[c].stamp
  IN s \in DOMAIN archive =>
       /\ \A f \in call[c].todo \ call[c].dirty : config[f] # Absent => Has(s, f, config[f])
       /\ \A f \in DOMAIN call[c].lost : Has(s, f, call[c].lost[f])

CallIsSound(c) ==
  /\ call[c].at # "idle" /\ call[c].stamp # 0 => InPlace(call[c].stamp)
  /\ call[c].at = "packing" => DOMAIN call[c].lost = {}
  /\ call[c].at = "packing" /\ call[c].stamp # 0 => Read(c)
  /\ call[c].at = "unpacking" => call[c].todo \subseteq DOMAIN call[c].from.holds
  /\ call[c].at = "unpacking" /\ call[c].stamp # 0 => Saved(c)

\* The way back is an archive in place that is the newest of its kind.
Newest(s, v) == /\ s \in Snap!PreUpdates(v) /\ archive[s].whole
                /\ \A t \in Snap!PreUpdates(v) : t <= s

WayIsOpen ==
  way.stamp # 0 => Snap!PushedOut(way.stamp) \/ Newest(way.stamp, way.version)

SnapInv ==
  /\ Typed /\ OwnStamps /\ WayIsOpen
  /\ \A c \in Callers : CallIsSound(c)

-----------------------------------------------------------------------------
(* What the sets and records are.                                          *)

LEMMA HeldMeans ==
  ASSUME NEW h \in Snap!Held
  PROVE  DOMAIN h \subseteq Snap!ConfigFiles /\ \A f \in DOMAIN h : h[f] \in Contents
BY DEF Snap!Held

LEMMA HeldMore ==
  ASSUME NEW h \in Snap!Held, NEW f \in Snap!ConfigFiles, NEW k \in Contents
  PROVE  /\ [g \in DOMAIN h \union {f} |-> IF g = f THEN k ELSE h[g]] \in Snap!Held
<1> DEFINE more == [g \in DOMAIN h \union {f} |-> IF g = f THEN k ELSE h[g]]
<1>1. DOMAIN h \union {f} \in SUBSET Snap!ConfigFiles
  BY HeldMeans
<1>2. more \in [DOMAIN h \union {f} -> Contents]
  BY HeldMeans
<1> HIDE DEF more
<1> QED
  BY <1>1, <1>2 DEF Snap!Held

LEMMA NothingHeld == <<>> \in Snap!Held /\ DOMAIN <<>> = {}
<1>1. <<>> \in [{} -> Contents] /\ {} \in SUBSET Snap!ConfigFiles
  OBVIOUS
<1> QED
  BY <1>1 DEF Snap!Held

LEMMA IdleRecord == Snap!Idle \in CallRecord
<1>1. [holds |-> <<>>, whole |-> TRUE] \in Opening
  BY NothingHeld DEF Opening
<1> QED
  BY <1>1, NothingHeld DEF Snap!Idle, CallRecord, MaybeVersion, Snap!Reasons

\* An archive that a capture deletes is among those Retention later ones
\* have pushed out.
LEMMA DroppedIsOut ==
  ASSUME Snap!SnapshotsAssumption, Typed, NEW s \in DOMAIN archive, ~Snap!Survives(s)
  PROVE  Snap!PushedOut(s)
<1>1. last \in Nat /\ s \in Nat /\ s <= last /\ Retention \in Nat \ {0}
  BY DEF Typed, Snap!SnapshotsAssumption
<1>2. Snap!Newer(s) \in SUBSET ((s+1)..last)
  BY <1>1 DEF Typed, Snap!Newer
<1>0. s + 1 \in Int /\ last \in Int
  BY <1>1
<1>3. /\ IsFiniteSet((s+1)..last)
      /\ Cardinality((s+1)..last) = IF s + 1 > last THEN 0 ELSE last - (s+1) + 1
  BY <1>0, FS_Interval, Zenon
<1>4. /\ IsFiniteSet(Snap!Newer(s)) /\ Cardinality(Snap!Newer(s)) <= Cardinality((s+1)..last)
  BY <1>2, <1>3, FS_Subset
<1>5. Cardinality(Snap!Newer(s)) \in Nat
  BY <1>4, FS_CardinalityType
<1>6. Retention <= Cardinality(Snap!Newer(s))
  <2>1. ~(Cardinality(Snap!Newer(s)) < Retention)
    BY DEF Snap!Survives, Snap!Cardinality, Cardinality
  <2> QED
    BY <1>1, <1>5, <2>1
<1>7. Cardinality((s+1)..last) = last - s
  BY <1>1, <1>3
<1>8. Retention <= last - s
  BY <1>1, <1>4, <1>5, <1>6, <1>7
<1> QED
  BY <1>8 DEF Snap!PushedOut

-----------------------------------------------------------------------------
LEMMA SnapInit == ASSUME Snap!SnapshotsAssumption, Snap!Init PROVE SnapInv
<1>1. \A c \in Callers : call[c] = Snap!Idle /\ call[c].stamp = 0 /\ call[c].at = "idle"
                         /\ call[c].target = 0
  BY DEF Snap!Init, Snap!Idle
<1>2. call \in [Callers -> CallRecord]
  BY IdleRecord DEF Snap!Init
<1>3. Typed
  BY <1>1, <1>2, NothingHeld DEF Snap!Init, Typed, Snap!SnapshotsAssumption, MaybeVersion
<1>4. OwnStamps
  BY <1>1 DEF OwnStamps
<1>5. WayIsOpen
  BY DEF Snap!Init, WayIsOpen
<1>6. \A c \in Callers : CallIsSound(c)
  BY <1>1 DEF CallIsSound
<1> QED
  BY <1>3, <1>4, <1>5, <1>6 DEF SnapInv

-----------------------------------------------------------------------------
(* Files that are written.                                                 *)

\* A call that someone else disturbs at f does not count on f any more.
LEMMA DisturbedIsSound ==
  ASSUME SnapInv, NEW f \in Snap!ConfigFiles, NEW d \in Callers,
         config' \in [Snap!ConfigFiles -> Contents \union {Absent}],
         \A g \in Snap!ConfigFiles : g # f => config'[g] = config[g],
         call'[d] = Snap!Disturbed(f, call)[d], UNCHANGED <<archive, last>>
  PROVE  /\ CallIsSound(d)' /\ call'[d] \in CallRecord /\ call'[d].stamp = call[d].stamp
         /\ call'[d].at = call[d].at /\ call'[d].target <= last
<1>1. CASE call[d].at = "idle"
  <2>1. call'[d] = Snap!Idle
    BY <1>1 DEF Snap!Disturbed
  <2>2. call[d].stamp = 0
    BY <1>1 DEF SnapInv, OwnStamps
  <2>3. CallIsSound(d)'
    BY <2>1 DEF CallIsSound, Snap!Idle
  <2>4. last \in Nat
    BY DEF SnapInv, Typed
  <2> QED
    BY <1>1, <2>1, <2>2, <2>3, <2>4, IdleRecord DEF Snap!Idle
<1>2. CASE call[d].at # "idle"
  <2>1. call[d] \in CallRecord /\ call[d].target <= last
    BY DEF SnapInv, Typed
  <2>2. call'[d] = [call[d] EXCEPT !.dirty = @ \union {f}]
    BY <1>2 DEF Snap!Disturbed
  <2>3. /\ call'[d] \in CallRecord
        /\ call'[d].at = call[d].at /\ call'[d].stamp = call[d].stamp
        /\ call'[d].todo = call[d].todo /\ call'[d].lost = call[d].lost
        /\ call'[d].from = call[d].from /\ call'[d].why = call[d].why
        /\ call'[d].was = call[d].was /\ call'[d].target = call[d].target
        /\ call'[d].dirty = call[d].dirty \union {f}
    BY <2>1, <2>2 DEF CallRecord
  <2>4. CallIsSound(d)
    BY DEF SnapInv
  <2>5. Read(d) => Read(d)'
    BY <2>3 DEF Read, Has
  <2>6. Saved(d) => Saved(d)'
    BY <2>1, <2>3 DEF Saved, Has, CallRecord
  <2>7. InPlace(call[d].stamp) => InPlace(call[d].stamp)'
    BY <2>3 DEF InPlace, Snap!PushedOut
  <2>8. CallIsSound(d)'
    BY <2>3, <2>4, <2>5, <2>6, <2>7 DEF CallIsSound
  <2> QED
    BY <2>1, <2>3, <2>8
<1> QED
  BY <1>1, <1>2

LEMMA WriteKeeps ==
  ASSUME Snap!SnapshotsAssumption, SnapInv, NEW f \in Snap!ConfigFiles,
         NEW k \in Contents \union {Absent}, Snap!Write(f, k)
  PROVE  SnapInv'
<1>1. /\ config' \in [Snap!ConfigFiles -> Contents \union {Absent}]
      /\ \A g \in Snap!ConfigFiles : g # f => config'[g] = config[g]
      /\ writes' \in 0..MaxWrites
  BY DEF Snap!Write, SnapInv, Typed, Snap!SnapshotsAssumption
<1>2. \A d \in Callers : call'[d] = Snap!Disturbed(f, call)[d]
  BY DEF Snap!Write
<1>3. UNCHANGED <<archive, last, version, way>>
  BY DEF Snap!Write
<1>4. \A d \in Callers :
        /\ CallIsSound(d)' /\ call'[d] \in CallRecord /\ call'[d].stamp = call[d].stamp
        /\ call'[d].at = call[d].at /\ call'[d].target <= last
  BY <1>1, <1>2, <1>3, DisturbedIsSound
<1>5. call' \in [Callers -> CallRecord]
  BY <1>4 DEF Snap!Write, Snap!Disturbed
<1>6. Typed'
  BY <1>1, <1>3, <1>4, <1>5 DEF SnapInv, Typed
<1>7. OwnStamps'
  BY <1>3, <1>4 DEF SnapInv, OwnStamps
<1>8. WayIsOpen'
  BY <1>3 DEF SnapInv, WayIsOpen, Snap!PushedOut, Newest, Snap!PreUpdates
<1> QED
  BY <1>4, <1>6, <1>7, <1>8 DEF SnapInv

LEMMA UnpackKeeps ==
  ASSUME Snap!SnapshotsAssumption, SnapInv, NEW c \in Callers, NEW f \in Snap!ConfigFiles,
         Snap!Unpack(c, f)
  PROVE  SnapInv'
<1> DEFINE was  == call[c].lost
           lost == IF config[f] = Absent \/ f \in call[c].dirty THEN was
                   ELSE [g \in DOMAIN was \union {f} |-> IF g = f THEN config[f] ELSE was[g]]
<1>1. /\ call[c].at = "unpacking" /\ f \in call[c].todo
      /\ call[c] \in CallRecord /\ CallIsSound(c) /\ was \in Snap!Held
  BY DEF Snap!Unpack, Snap!Turn, SnapInv, Typed, CallRecord
<1>2. UNCHANGED <<archive, last, version, way, writes>>
  BY DEF Snap!Unpack
<1>3. /\ config' \in [Snap!ConfigFiles -> Contents \union {Absent}]
      /\ \A g \in Snap!ConfigFiles : g # f => config'[g] = config[g]
  <2>1. call[c].from.holds[f] \in Contents
    BY <1>1, HeldMeans DEF CallIsSound, CallRecord, Opening
  <2> QED
    BY <2>1 DEF Snap!Unpack, SnapInv, Typed
<1>4. \A d \in Callers \ {c} : call'[d] = Snap!Disturbed(f, call)[d]
  BY DEF Snap!Unpack, Snap!Disturbed
<1>5. /\ lost \in Snap!Held
      /\ \A g \in DOMAIN lost :
            IF g \in DOMAIN was /\ g # f THEN lost[g] = was[g]
            ELSE g = f /\ (lost[g] = config[f] \/ lost = was)
  <2>1. config[f] # Absent => config[f] \in Contents
    BY DEF SnapInv, Typed
  <2> QED
    BY <1>1, <2>1, HeldMore
<1>6. call'[c] = [call[c] EXCEPT !.todo = @ \ {f}, !.lost = lost]
  BY DEF Snap!Unpack, Snap!Disturbed
<1>7. /\ call'[c] \in CallRecord
      /\ call'[c].todo = call[c].todo \ {f} /\ call'[c].lost = lost
      /\ call'[c].at = "unpacking" /\ call'[c].stamp = call[c].stamp
      /\ call'[c].target = call[c].target /\ call'[c].from = call[c].from
      /\ call'[c].dirty = call[c].dirty
  <2> HIDE DEF lost
  <2>1. /\ call'[c] \in CallRecord
        /\ call'[c].todo = call[c].todo \ {f} /\ call'[c].lost = lost
        /\ call'[c].at = call[c].at /\ call'[c].stamp = call[c].stamp
        /\ call'[c].target = call[c].target /\ call'[c].from = call[c].from
        /\ call'[c].dirty = call[c].dirty
    BY <1>1, <1>5, <1>6 DEF CallRecord
  <2> QED
    BY <1>1, <2>1
<1>8. \A d \in Callers \ {c} :
        /\ CallIsSound(d)' /\ call'[d] \in CallRecord /\ call'[d].stamp = call[d].stamp
        /\ call'[d].at = call[d].at /\ call'[d].target <= last
  BY <1>2, <1>3, <1>4, DisturbedIsSound
<1>9. call[c].stamp # 0 => Saved(c)'
  <2>1. SUFFICES ASSUME call[c].stamp # 0, call[c].stamp \in DOMAIN archive
                 PROVE  Saved(c)'
    BY <1>2, <1>7 DEF Saved
  <2>2. Saved(c)
    BY <1>1, <2>1 DEF CallIsSound
  <2>3. \A g \in call'[c].todo \ call'[c].dirty :
           config'[g] # Absent => Has(call[c].stamp, g, config'[g])
    BY <1>1, <1>3, <1>7, <2>1, <2>2 DEF Saved, CallRecord
  <2>4. config[f] # Absent /\ f \notin call[c].dirty => Has(call[c].stamp, f, config[f])
    BY <1>1, <2>1, <2>2 DEF Saved
  <2>5. \A g \in DOMAIN was : Has(call[c].stamp, g, was[g])
    BY <2>1, <2>2 DEF Saved
  <2>6. \A g \in DOMAIN lost : Has(call[c].stamp, g, lost[g])
    BY <2>4, <2>5
  <2> QED
    BY <1>2, <1>7, <2>3, <2>6 DEF Saved, Has
<1>10. CallIsSound(c)'
  <2>1. InPlace(call[c].stamp) => InPlace(call[c].stamp)'
    BY <1>2, <1>7 DEF InPlace, Snap!PushedOut
  <2> QED
    BY <1>1, <1>7, <1>9, <2>1 DEF CallIsSound
<1>11. Typed'
  <2>1. call' \in [Callers -> CallRecord]
    BY <1>7, <1>8 DEF Snap!Unpack, Snap!Disturbed
  <2> QED
    BY <1>2, <1>3, <1>7, <1>8, <2>1 DEF SnapInv, Typed
<1>12. OwnStamps'
  BY <1>1, <1>2, <1>7, <1>8 DEF SnapInv, OwnStamps
<1>13. WayIsOpen'
  BY <1>2 DEF SnapInv, WayIsOpen, Snap!PushedOut, Newest, Snap!PreUpdates
<1> QED
  BY <1>8, <1>10, <1>11, <1>12, <1>13 DEF SnapInv

-----------------------------------------------------------------------------
(* Calls that end, and archives that are deleted.                          *)

LEMMA EndedKeeps ==
  ASSUME Snap!SnapshotsAssumption, SnapInv, NEW c \in Callers, Snap!Killed(c) \/ Snap!Unpacked(c)
  PROVE  SnapInv'
<1>1. /\ call' = [call EXCEPT ![c] = Snap!Idle]
      /\ UNCHANGED <<config, archive, last, version, way, writes>>
  BY DEF Snap!Killed, Snap!Unpacked
<1>2. call'[c] = Snap!Idle /\ \A d \in Callers \ {c} : call'[d] = call[d]
  BY <1>1 DEF SnapInv, Typed
<1>3. Typed'
  <2>1. call' \in [Callers -> CallRecord]
    BY <1>1, IdleRecord DEF SnapInv, Typed
  <2>2. Snap!Idle.stamp = 0 /\ Snap!Idle.target = 0 /\ last \in Nat
    BY DEF Snap!Idle, SnapInv, Typed
  <2> QED
    BY <1>1, <1>2, <2>1, <2>2 DEF SnapInv, Typed
<1>4. OwnStamps'
  BY <1>1, <1>2 DEF SnapInv, OwnStamps, Snap!Idle
<1>5. WayIsOpen'
  BY <1>1 DEF SnapInv, WayIsOpen, Snap!PushedOut, Newest, Snap!PreUpdates
<1>6. CallIsSound(c)'
  BY <1>2 DEF CallIsSound, Snap!Idle
<1>7. \A d \in Callers \ {c} : CallIsSound(d)'
  <2>1. ASSUME NEW d \in Callers \ {c} PROVE CallIsSound(d)'
    <3>1. CallIsSound(d)
      BY DEF SnapInv
    <3> QED
      BY <1>1, <1>2, <3>1 DEF CallIsSound, Read, Saved, Has, InPlace, Snap!PushedOut
  <2> QED
    BY <2>1
<1> QED
  BY <1>3, <1>4, <1>5, <1>6, <1>7 DEF SnapInv

LEMMA DeleteKeeps ==
  ASSUME Snap!SnapshotsAssumption, SnapInv, NEW s \in DOMAIN archive, Snap!Delete(s)
  PROVE  SnapInv'
<1>1. /\ DOMAIN archive' = DOMAIN archive \ {s}
      /\ \A t \in DOMAIN archive' : archive'[t] = archive[t]
      /\ UNCHANGED <<config, last, version>> /\ writes' \in 0..MaxWrites
  <2>1. archive' = [t \in DOMAIN archive \ {s} |-> archive[t]]
    BY DEF Snap!Delete, Snap!Only
  <2>3. writes < MaxWrites /\ writes' = writes + 1
    BY DEF Snap!Delete
  <2>2. writes' \in 0..MaxWrites
    BY <2>3 DEF SnapInv, Typed, Snap!SnapshotsAssumption
  <2> QED
    BY <2>1, <2>2 DEF Snap!Delete
<1>2. ASSUME NEW c \in Callers
      PROVE  /\ call'[c] \in CallRecord
             /\ call'[c].stamp = IF call[c].stamp = s THEN 0 ELSE call[c].stamp
             /\ call'[c].target \in {0, call[c].target}
             /\ call'[c].at = call[c].at /\ call'[c].todo = call[c].todo
             /\ call'[c].lost = call[c].lost /\ call'[c].from = call[c].from
             /\ call'[c].why = call[c].why /\ call'[c].was = call[c].was
             /\ call'[c].dirty = call[c].dirty
  <2>1. call[c] \in CallRecord
    BY DEF SnapInv, Typed
  <2>2. call'[c] = [call[c] EXCEPT !.stamp = IF @ = s THEN 0 ELSE @,
                                   !.target = IF @ = s THEN 0 ELSE @]
    BY DEF Snap!Delete
  <2>3. PICK m \in Nat, n \in Nat : /\ m = IF call[c].stamp = s THEN 0 ELSE call[c].stamp
                                   /\ n = IF call[c].target = s THEN 0 ELSE call[c].target
    BY <2>1 DEF CallRecord
  <2>4. call'[c] = [call[c] EXCEPT !.stamp = m, !.target = n]
    BY <2>2, <2>3
  <2> QED
    BY <2>1, <2>3, <2>4 DEF CallRecord
<1>3. Typed'
  <2>0. call' = [c \in Callers |-> call'[c]]
    BY DEF Snap!Delete
  <2>1. call' \in [Callers -> CallRecord]
    BY <1>2, <2>0
  <2>4. way \in [version: MaybeVersion, stamp: 0..last] /\ 0 \in 0..last
    BY DEF SnapInv, Typed
  <2>5. way' = way \/ way' = [way EXCEPT !.stamp = 0]
    BY DEF Snap!Delete
  <2>2. way' \in [version: MaybeVersion, stamp: 0..last]
    BY <2>4, <2>5
  <2>3. last \in Nat
    BY DEF SnapInv, Typed
  <2> QED
    BY <1>1, <1>2, <2>1, <2>2, <2>3 DEF SnapInv, Typed
<1>4. way'.version = way.version /\ way'.stamp = IF way.stamp = s THEN 0 ELSE way.stamp
  BY DEF Snap!Delete, SnapInv, Typed
<1>5. OwnStamps'
  BY <1>2, <1>4 DEF SnapInv, OwnStamps
<1>6. WayIsOpen'
  BY <1>1, <1>4 DEF SnapInv, WayIsOpen, Snap!PushedOut, Newest, Snap!PreUpdates
<1>7. \A d \in Callers : CallIsSound(d)'
  <2>1. ASSUME NEW d \in Callers PROVE CallIsSound(d)'
    <3>1. CallIsSound(d)
      BY DEF SnapInv
    <3>2. CASE call[d].stamp = s \/ call[d].stamp = 0
      BY <1>2, <3>1, <3>2 DEF CallIsSound
    <3>3. CASE call[d].stamp # s /\ call[d].stamp # 0
      BY <1>1, <1>2, <3>1, <3>3 DEF CallIsSound, Read, Saved, Has, InPlace, Snap!PushedOut
    <3> QED
      BY <3>2, <3>3
  <2> QED
    BY <2>1
<1> QED
  BY <1>3, <1>5, <1>6, <1>7 DEF SnapInv

-----------------------------------------------------------------------------
(* A capture reads a file.                                                 *)

LEMMA PackKeeps ==
  ASSUME Snap!SnapshotsAssumption, SnapInv, NEW c \in Callers, NEW f \in Snap!ConfigFiles,
         Snap!Pack(c, f)
  PROVE  SnapInv'
<1> DEFINE s == call[c].stamp
           more == [g \in DOMAIN archive[s].holds \union {f} |->
                      IF g = f THEN config[f] ELSE archive[s].holds[g]]
<1>1. /\ call[c].at = "packing" /\ f \in call[c].todo /\ config[f] \in Contents
      /\ call[c] \in CallRecord /\ CallIsSound(c)
  BY DEF Snap!Pack, Snap!Turn, SnapInv, Typed
<1>2. UNCHANGED <<config, last, version, way, writes>>
  BY DEF Snap!Pack
<1>3. /\ call'[c] \in CallRecord
      /\ call'[c].todo = call[c].todo \ {f} /\ call'[c].dirty = call[c].dirty \ {f}
      /\ call'[c].at = "packing" /\ call'[c].stamp = s
      /\ call'[c].target = call[c].target /\ call'[c].lost = call[c].lost
      /\ call'[c].why = call[c].why /\ call'[c].was = call[c].was
  <2>1. call'[c] = [call[c] EXCEPT !.todo = @ \ {f}, !.dirty = @ \ {f}]
    BY DEF Snap!Pack, SnapInv, Typed
  <2> QED
    BY <1>1, <2>1 DEF CallRecord
<1>4. call' \in [Callers -> CallRecord] /\ \A d \in Callers \ {c} : call'[d] = call[d]
  <2> DEFINE k == [call[c] EXCEPT !.todo = @ \ {f}, !.dirty = @ \ {f}]
  <2>1. call' = [call EXCEPT ![c] = k] /\ call \in [Callers -> CallRecord]
    BY DEF Snap!Pack, SnapInv, Typed
  <2>2. k \in CallRecord
    BY <1>3, <2>1
  <2> HIDE DEF k
  <2> QED
    BY <2>1, <2>2
<1>5. s \in DOMAIN archive => more \in Snap!Held
  <2>1. s \in DOMAIN archive => archive[s].holds \in Snap!Held
    BY DEF SnapInv, Typed, Entry
  <2> QED
    BY <1>1, <2>1, HeldMore
<1>6. /\ DOMAIN archive' = DOMAIN archive
      /\ \A t \in DOMAIN archive : t # s => archive'[t] = archive[t]
      /\ s \in DOMAIN archive =>
           /\ archive'[s] \in Entry /\ archive'[s].holds = more
           /\ archive'[s].why = archive[s].why /\ archive'[s].version = archive[s].version
           /\ archive'[s].whole = archive[s].whole
  <2> HIDE DEF more
  <2>1. archive' = IF s \in DOMAIN archive THEN [archive EXCEPT ![s].holds = more] ELSE archive
    BY DEF Snap!Pack, more
  <2>2. s \in DOMAIN archive => archive[s] \in Entry
    BY DEF SnapInv, Typed
  <2> QED
    BY <1>5, <2>1, <2>2 DEF Entry
<1>7. Typed'
  BY <1>2, <1>3, <1>4, <1>6 DEF SnapInv, Typed
<1>8. OwnStamps'
  BY <1>1, <1>2, <1>3, <1>4 DEF SnapInv, OwnStamps
<1>9. WayIsOpen'
  BY <1>2, <1>6 DEF SnapInv, WayIsOpen, Snap!PushedOut, Newest, Snap!PreUpdates
<1>10. CallIsSound(c)'
  <2>1. s # 0 => Read(c)'
    <3>1. SUFFICES ASSUME s # 0, s \in DOMAIN archive PROVE Read(c)'
      BY <1>3, <1>6 DEF Read
    <3>2. Read(c)
      BY <1>1, <3>1 DEF CallIsSound
    <3>3. ASSUME NEW g \in Snap!ConfigFiles \ (call'[c].todo \union call'[c].dirty), config[g] # Absent
          PROVE  g \in DOMAIN more /\ more[g] = config[g]
      BY <1>3, <3>1, <3>2, <3>3 DEF Read, Has
    <3> HIDE DEF more
    <3> QED
      BY <1>2, <1>3, <1>6, <3>1, <3>2, <3>3 DEF Read, Has
  <2>2. InPlace(s) => InPlace(s)'
    BY <1>2, <1>3, <1>6 DEF InPlace, Snap!PushedOut
  <2> QED
    BY <1>1, <1>3, <2>1, <2>2 DEF CallIsSound
<1>11. ASSUME NEW d \in Callers \ {c} PROVE CallIsSound(d)'
  <2>1. CallIsSound(d) /\ call'[d] = call[d]
    BY <1>4 DEF SnapInv
  <2>2. call[d].stamp # 0 => call[d].stamp # s
    BY DEF SnapInv, OwnStamps
  <2> HIDE DEF s
  <2> QED
    BY <1>2, <1>6, <2>1, <2>2 DEF CallIsSound, Read, Saved, Has, InPlace, Snap!PushedOut
<1> QED
  BY <1>7, <1>8, <1>9, <1>10, <1>11 DEF SnapInv

-----------------------------------------------------------------------------
(* A capture begins.                                                       *)

Begins(c, me) ==
  /\ Snap!Present # {} /\ last < MaxStamp
  /\ last' = last + 1
  /\ archive' = [s \in DOMAIN archive \union {last'} |->
                   IF s = last' THEN [why |-> me.why, version |-> version,
                                      holds |-> <<>>, whole |-> FALSE]
                   ELSE archive[s]]
  /\ call' = [call EXCEPT ![c] = [me EXCEPT !.at = "packing", !.stamp = last',
                                     !.was = version, !.todo = Snap!Present]]
  /\ way' = IF me.why = "pre-update" /\ way.version = version THEN [way EXCEPT !.stamp = 0]
            ELSE way
  /\ UNCHANGED version

\* What a call asks a capture for.
Asking(me) == me \in CallRecord /\ me.stamp = 0 /\ me.target <= last /\ DOMAIN me.lost = {}

LEMMA BeginsKeeps ==
  ASSUME Snap!SnapshotsAssumption, SnapInv, NEW c \in Callers, NEW me, Asking(me), Begins(c, me),
         UNCHANGED <<config, writes>>
  PROVE  SnapInv'
<1>1. last \in Nat /\ last' = last + 1 /\ last' \in 0..MaxStamp
  BY DEF Begins, SnapInv, Typed, Snap!SnapshotsAssumption
<1>2. /\ call'[c] \in CallRecord
      /\ call'[c].todo = Snap!Present /\ call'[c].was = version
      /\ call'[c].at = "packing" /\ call'[c].stamp = last'
      /\ call'[c].target = me.target /\ call'[c].lost = me.lost /\ call'[c].why = me.why
  <2>1. call'[c] = [me EXCEPT !.at = "packing", !.stamp = last', !.was = version,
                         !.todo = Snap!Present]
    BY DEF Begins, SnapInv, Typed
  <2>2. me \in CallRecord /\ version \in MaybeVersion /\ Snap!Present \in SUBSET Snap!ConfigFiles
    BY DEF Asking, SnapInv, Typed, Snap!Present
  <2>3. PICK n \in Nat : n = last'
    BY <1>1
  <2>4. call'[c] = [me EXCEPT !.at = "packing", !.stamp = n, !.was = version,
                         !.todo = Snap!Present]
    BY <2>1, <2>3
  <2> HIDE DEF Snap!Present
  <2> QED
    BY <2>2, <2>3, <2>4 DEF CallRecord
<1>3. call' \in [Callers -> CallRecord] /\ \A d \in Callers \ {c} : call'[d] = call[d]
  BY <1>2 DEF Begins, SnapInv, Typed
<1>4. /\ DOMAIN archive' = DOMAIN archive \union {last'}
      /\ \A s \in DOMAIN archive : s # last' /\ s <= last /\ archive'[s] = archive[s]
  BY <1>1 DEF Begins, SnapInv, Typed
<1>5. /\ archive'[last'] \in Entry
      /\ archive'[last'].why = me.why /\ archive'[last'].version = version
  <2>1. archive'[last'] = [why |-> me.why, version |-> version, holds |-> <<>>, whole |-> FALSE]
    BY DEF Begins
  <2>2. version \in MaybeVersion /\ me.why \in Snap!Reasons
    BY DEF SnapInv, Typed, Asking, CallRecord
  <2> QED
    BY <2>1, <2>2, NothingHeld DEF Entry
<1>6. /\ way' \in [version: MaybeVersion, stamp: 0..last] /\ way'.version = way.version
      /\ \/ way'.stamp = 0
         \/ way'.stamp = way.stamp /\ ~(me.why = "pre-update" /\ way.version = version)
  <2>1. way \in [version: MaybeVersion, stamp: 0..last] /\ 0 \in 0..last
    BY DEF SnapInv, Typed
  <2>2. \/ way' = [way EXCEPT !.stamp = 0]
        \/ way' = way /\ ~(me.why = "pre-update" /\ way.version = version)
    BY DEF Begins
  <2>3. CASE way' = [way EXCEPT !.stamp = 0]
    BY <2>1, <2>3
  <2>4. CASE way' = way /\ ~(me.why = "pre-update" /\ way.version = version)
    BY <2>1, <2>4
  <2> QED
    BY <2>2, <2>3, <2>4
<1>7. UNCHANGED <<config, writes, version>>
  BY DEF Begins
<1>8. Typed'
  <2>1. \A s \in DOMAIN archive' : archive'[s] \in Entry
    BY <1>4, <1>5 DEF SnapInv, Typed
  <2>2. DOMAIN archive' \subseteq 1..last'
    BY <1>1, <1>4 DEF SnapInv, Typed
  <2>3. way' \in [version: MaybeVersion, stamp: 0..last']
    BY <1>1, <1>6
  <2>4. \A d \in Callers : call'[d].stamp <= last' /\ call'[d].target <= last'
    <3>1. call'[c].stamp <= last' /\ call'[c].target <= last'
      BY <1>1, <1>2 DEF Asking, CallRecord
    <3>2. \A d \in Callers :
             call[d] \in CallRecord /\ call[d].stamp <= last /\ call[d].target <= last
      BY DEF SnapInv, Typed
    <3>3. \A d \in Callers : call[d].stamp \in Nat /\ call[d].target \in Nat
      BY <3>2 DEF CallRecord
    <3> QED
      BY <1>1, <1>3, <3>1, <3>2, <3>3
  <2> QED
    BY <1>1, <1>3, <1>7, <2>1, <2>2, <2>3, <2>4 DEF SnapInv, Typed
<1>9. \A d \in Callers : call[d].stamp # last'
  <2>1. \A d \in Callers : call[d] \in CallRecord /\ call[d].stamp <= last
    BY DEF SnapInv, Typed
  <2> QED
    BY <1>1, <2>1 DEF CallRecord
<1>10. way'.stamp # last'
  BY <1>1, <1>6 
<1>11. OwnStamps'
  BY <1>1, <1>2, <1>3, <1>6, <1>9, <1>10 DEF SnapInv, OwnStamps
<1>12. WayIsOpen'
  <2>1. SUFFICES ASSUME way'.stamp # 0 PROVE WayIsOpen'
    BY DEF WayIsOpen
  <2>2. way'.stamp = way.stamp /\ ~(me.why = "pre-update" /\ way.version = version)
    BY <1>6, <2>1
  <2>3. CASE Snap!PushedOut(way.stamp)
    <3>1. way.stamp \in Nat /\ Retention \in Nat
      BY DEF SnapInv, Typed, Snap!SnapshotsAssumption
    <3> QED
      BY <1>1, <2>2, <2>3, <3>1 DEF WayIsOpen, Snap!PushedOut
  <2>4. CASE Newest(way.stamp, way.version)
    <3>1. Snap!PreUpdates(way.version)' = Snap!PreUpdates(way.version)
      BY <1>4, <1>5, <1>6, <2>2 DEF Snap!PreUpdates
    <3> QED
      BY <1>4, <1>6, <2>2, <2>4, <3>1 DEF WayIsOpen, Newest, Snap!PreUpdates
  <2> QED
    BY <2>1, <2>2, <2>3, <2>4 DEF SnapInv, WayIsOpen
<1>13. CallIsSound(c)'
  <2>1. Read(c)'
    BY <1>2, <1>5, <1>7 DEF Read, Snap!Present
  <2> QED
    BY <1>2, <1>4, <2>1 DEF CallIsSound, InPlace, Asking
<1>14. ASSUME NEW d \in Callers \ {c} PROVE CallIsSound(d)'
  <2>1. CallIsSound(d) /\ call'[d] = call[d] /\ call[d].stamp # last'
    BY <1>3, <1>9 DEF SnapInv
  <2>2. call[d].stamp \in Nat /\ Retention \in Nat
    BY DEF SnapInv, Typed, CallRecord, Snap!SnapshotsAssumption
  <2>3. InPlace(call[d].stamp) => InPlace(call[d].stamp)'
    BY <1>1, <1>4, <2>1, <2>2 DEF InPlace, Snap!PushedOut
  <2>4. Read(d) => Read(d)'
    BY <1>4, <1>7, <2>1 DEF Read, Has
  <2>5. Saved(d) => Saved(d)'
    BY <1>4, <1>7, <2>1 DEF Saved, Has
  <2> QED
    BY <2>1, <2>3, <2>4, <2>5 DEF CallIsSound
<1> QED
  BY <1>8, <1>11, <1>12, <1>13, <1>14 DEF SnapInv

-----------------------------------------------------------------------------
(* A capture has ended, taken or not, and its caller goes on.              *)

\* Archives have been deleted: what is left holds what it held.
Shrunk ==
  /\ DOMAIN archive' \subseteq DOMAIN archive
  /\ \A s \in DOMAIN archive' :
       /\ archive'[s] \in Entry
       /\ archive'[s].why = archive[s].why /\ archive'[s].version = archive[s].version
       /\ archive'[s].holds = archive[s].holds
       /\ archive[s].whole => archive'[s].whole

\* Only the rule deletes archives, but for the one of a capture that failed.
ByRule(me, taken) ==
  \A s \in DOMAIN archive \ DOMAIN archive' : Snap!PushedOut(s) \/ (s = me.stamp /\ ~taken)

\* The record a caller goes on with is its own, and that of a capture that
\* succeeded has nothing left to read.
Resumes(c, me, taken) ==
  /\ me \in CallRecord /\ me.target <= last /\ DOMAIN me.lost = {}
  /\ me.stamp # 0 \/ taken => call[c].at = "packing" /\ me = call[c]
  /\ taken => /\ me.todo = {}
              /\ me.stamp \in DOMAIN archive' => archive'[me.stamp].whole

\* The outcomes of AfterCapture.
EndsWith(c, me, taken) ==
  /\ call' = [call EXCEPT ![c] = Snap!Idle] /\ version' \in MaybeVersion
  /\ \/ way' = way \/ way' = [way EXCEPT !.stamp = 0]
     \/ /\ taken /\ me.why = "pre-update" /\ ~Snap!Repeated(me)
        /\ way' = [version |-> me.was, stamp |-> me.stamp]

Restores(c, me, taken) ==
  /\ me.target \in DOMAIN archive'
  /\ call' = [call EXCEPT ![c] = [me EXCEPT !.at = "unpacking", !.from = Snap!Opened(me.target),
                                     !.todo = DOMAIN archive'[me.target].holds,
                                     !.stamp = IF taken THEN @ ELSE 0]]
  /\ UNCHANGED <<version, way>>

LEMMA AfterOutcomes ==
  ASSUME SnapInv, NEW c \in Callers, NEW me, NEW taken \in BOOLEAN, Resumes(c, me, taken),
         Snap!AfterCapture(c, me, taken)
  PROVE  EndsWith(c, me, taken) \/ Restores(c, me, taken)
<1>1. version \in MaybeVersion /\ me.to \in MaybeVersion /\ None \in MaybeVersion
  BY DEF SnapInv, Typed, Resumes, CallRecord, MaybeVersion
<1> QED
  BY <1>1 DEF Snap!AfterCapture, EndsWith, Restores

LEMMA OthersAreSound ==
  ASSUME Snap!SnapshotsAssumption, SnapInv, NEW c \in Callers, NEW me, NEW taken \in BOOLEAN,
         Resumes(c, me, taken), Shrunk, ByRule(me, taken), UNCHANGED <<config, last, writes>>,
         NEW d \in Callers \ {c}, call'[d] = call[d]
  PROVE  CallIsSound(d)'
<1>1. CallIsSound(d) /\ call[d].stamp \in Nat
  BY DEF SnapInv, Typed, CallRecord
<1>2. call[d].stamp # 0 => call[d].stamp # me.stamp
  BY DEF SnapInv, OwnStamps, Resumes
<1>3. call[d].stamp # 0 /\ InPlace(call[d].stamp) => InPlace(call[d].stamp)'
  BY <1>2 DEF InPlace, Snap!PushedOut, ByRule
<1>4. Read(d) => Read(d)'
  BY DEF Read, Has, Shrunk
<1>5. Saved(d) => Saved(d)'
  BY DEF Saved, Has, Shrunk
<1> QED
  BY <1>1, <1>3, <1>4, <1>5 DEF CallIsSound

\* The way back stays open while its archive is not the one that goes.
LEMMA WayStays ==
  ASSUME Snap!SnapshotsAssumption, SnapInv, NEW c \in Callers, NEW me, NEW taken \in BOOLEAN,
         Resumes(c, me, taken), Shrunk, ByRule(me, taken), UNCHANGED <<config, last, writes>>,
         way' = way
  PROVE  WayIsOpen'
<1>1. SUFFICES ASSUME way.stamp # 0, Newest(way.stamp, way.version), ~Snap!PushedOut(way.stamp)
               PROVE  Newest(way.stamp, way.version)'
  BY DEF SnapInv, WayIsOpen, Snap!PushedOut
<1>2. me.stamp # way.stamp
  BY <1>1 DEF SnapInv, OwnStamps, Resumes
<1>3. way.stamp \in DOMAIN archive'
  BY <1>1, <1>2 DEF ByRule, Newest, Snap!PreUpdates
<1> QED
  BY <1>1, <1>3 DEF Newest, Snap!PreUpdates, Shrunk

LEMMA TypesStay ==
  ASSUME SnapInv, NEW c \in Callers, Shrunk, UNCHANGED <<config, last, writes>>,
         version' \in MaybeVersion, way' \in [version: MaybeVersion, stamp: 0..last],
         NEW k \in CallRecord, k.stamp <= last, k.target <= last, call' = [call EXCEPT ![c] = k]
  PROVE  Typed'
<1>1. call' \in [Callers -> CallRecord]
  BY DEF SnapInv, Typed
<1>2. \A d \in Callers : call'[d].stamp <= last /\ call'[d].target <= last
  BY DEF SnapInv, Typed
<1>3. DOMAIN archive' \subseteq 1..last /\ \A s \in DOMAIN archive' : archive'[s] \in Entry
  BY DEF SnapInv, Typed, Shrunk
<1> QED
  BY <1>1, <1>2, <1>3 DEF SnapInv, Typed

LEMMA EndsKeeps ==
  ASSUME Snap!SnapshotsAssumption, SnapInv, NEW c \in Callers, NEW me, NEW taken \in BOOLEAN,
         Resumes(c, me, taken), Shrunk, ByRule(me, taken), UNCHANGED <<config, last, writes>>,
         EndsWith(c, me, taken)
  PROVE  SnapInv'
<1>1. /\ call' = [call EXCEPT ![c] = Snap!Idle] /\ call'[c] = Snap!Idle
      /\ \A d \in Callers \ {c} : call'[d] = call[d]
  BY DEF EndsWith, SnapInv, Typed
<1>2. last \in Nat /\ way \in [version: MaybeVersion, stamp: 0..last]
  BY DEF SnapInv, Typed
<1>3. \A d \in Callers \ {c} : CallIsSound(d)'
  BY <1>1, OthersAreSound
<1>4. CallIsSound(c)'
  BY <1>1 DEF CallIsSound, Snap!Idle
<1>5. ASSUME way' \in [version: MaybeVersion, stamp: 0..last] PROVE Typed'
  <2>1. Snap!Idle.stamp <= last /\ Snap!Idle.target <= last
    BY <1>2 DEF Snap!Idle
  <2>2. version' \in MaybeVersion
    BY DEF EndsWith
  <2> QED
    BY <1>1, <1>5, <2>1, <2>2, IdleRecord, TypesStay
<1>6. CASE way' = way
  <2>1. OwnStamps'
    BY <1>1, <1>6 DEF SnapInv, OwnStamps, Snap!Idle
  <2>2. WayIsOpen'
    BY <1>6, WayStays
  <2> QED
    BY <1>2, <1>3, <1>4, <1>5, <1>6, <2>1, <2>2 DEF SnapInv
<1>7. CASE way' = [way EXCEPT !.stamp = 0]
  <2>1. way' \in [version: MaybeVersion, stamp: 0..last] /\ way'.stamp = 0
    BY <1>2, <1>7
  <2>2. \A d \in Callers : call[d].stamp # 0 => call[d].stamp # way'.stamp
    BY <2>1
  <2>3. OwnStamps'
    BY <1>1, <2>1, <2>2 DEF SnapInv, OwnStamps, Snap!Idle
  <2>4. WayIsOpen'
    BY <2>1 DEF WayIsOpen
  <2> QED
    BY <1>3, <1>4, <1>5, <2>1, <2>3, <2>4 DEF SnapInv
<1>8. CASE /\ taken /\ me.why = "pre-update" /\ ~Snap!Repeated(me)
           /\ way' = [version |-> me.was, stamp |-> me.stamp]
  <2>1. /\ me = call[c] /\ call[c].at = "packing" /\ me \in CallRecord /\ me.stamp <= last
        /\ CallIsSound(c)
    BY <1>8 DEF Resumes, SnapInv, Typed
  <2>2. way' \in [version: MaybeVersion, stamp: 0..last]
    BY <1>2, <1>8, <2>1 DEF CallRecord
  <2>3. OwnStamps'
    BY <1>1, <1>8, <2>1 DEF SnapInv, OwnStamps, Snap!Idle
  <2>4. WayIsOpen'
    <3>1. SUFFICES ASSUME me.stamp # 0, ~Snap!PushedOut(me.stamp) PROVE Newest(me.stamp, me.was)'
      BY <1>8 DEF WayIsOpen, Snap!PushedOut
    <3>2. me.stamp \in DOMAIN archive /\ Read(c)
      BY <2>1, <3>1 DEF CallIsSound, InPlace
    <3>3. me.stamp \in DOMAIN archive' /\ archive'[me.stamp].whole
      BY <1>8, <3>1, <3>2 DEF ByRule, Resumes
    <3>4. archive'[me.stamp].why = "pre-update" /\ archive'[me.stamp].version = me.was
      BY <1>8, <2>1, <3>2, <3>3 DEF Read, Shrunk
    <3>5. ASSUME NEW t \in DOMAIN archive', archive'[t].why = "pre-update",
                 archive'[t].version = me.was
          PROVE  t <= me.stamp
      <4>1. ~(t > me.stamp)
        BY <1>8, <3>5 DEF Snap!Repeated
      <4>2. t \in Nat /\ me.stamp \in Nat
        BY <2>1 DEF Shrunk, SnapInv, Typed, CallRecord
      <4> QED
        BY <4>1, <4>2
    <3> QED
      BY <3>3, <3>4, <3>5 DEF Newest, Snap!PreUpdates
  <2> QED
    BY <1>3, <1>4, <1>5, <2>2, <2>3, <2>4 DEF SnapInv
<1> QED
  BY <1>6, <1>7, <1>8 DEF EndsWith

LEMMA RestoresKeeps ==
  ASSUME Snap!SnapshotsAssumption, SnapInv, NEW c \in Callers, NEW me, NEW taken \in BOOLEAN,
         Resumes(c, me, taken), Shrunk, ByRule(me, taken), UNCHANGED <<config, last, writes>>,
         Restores(c, me, taken)
  PROVE  SnapInv'
<1> DEFINE n == IF taken THEN me.stamp ELSE 0
           held == DOMAIN archive'[me.target].holds
           k == [me EXCEPT !.at = "unpacking", !.from = Snap!Opened(me.target), !.todo = held,
                           !.stamp = n]
<1>0. me \in CallRecord /\ me.target \in DOMAIN archive' /\ last \in Nat
  BY DEF Resumes, Restores, SnapInv, Typed
<1>1. Snap!Opened(me.target) \in Opening /\ held \in SUBSET Snap!ConfigFiles
  <2>1. archive'[me.target] \in Entry
    BY <1>0 DEF Shrunk
  <2> QED
    BY <2>1, HeldMeans DEF Snap!Opened, Opening, Entry
<1>2. n \in Nat /\ n <= last
  <2>1. taken => me = call[c]
    BY DEF Resumes
  <2> QED
    BY <1>0, <2>1 DEF SnapInv, Typed, CallRecord
<1>3. call' = [call EXCEPT ![c] = k]
  BY DEF Restores
<1>4. /\ k \in CallRecord /\ k.at = "unpacking" /\ k.stamp = n /\ k.todo = held
      /\ k.from.holds = archive'[me.target].holds /\ k.target = me.target /\ k.dirty = me.dirty
      /\ k.lost = me.lost
  <2>1. Snap!Opened(me.target).holds = archive'[me.target].holds
    BY DEF Snap!Opened
  <2>2. PICK o \in Opening, h \in SUBSET Snap!ConfigFiles, m \in Nat :
           o = Snap!Opened(me.target) /\ h = held /\ m = n
    BY <1>1, <1>2
  <2>3. k = [me EXCEPT !.at = "unpacking", !.from = o, !.todo = h, !.stamp = m]
    BY <2>2
  <2> HIDE DEF k, n, held
  <2> QED
    BY <1>0, <2>1, <2>2, <2>3 DEF CallRecord
<1> HIDE DEF k
<1>5. call'[c] = k /\ \A d \in Callers \ {c} : call'[d] = call[d]
  BY <1>3 DEF SnapInv, Typed
<1>6. Typed'
  <2>1. version' \in MaybeVersion /\ way' \in [version: MaybeVersion, stamp: 0..last]
    BY DEF Restores, SnapInv, Typed
  <2>2. k.stamp <= last /\ k.target <= last
    BY <1>2, <1>4 DEF Resumes
  <2> QED
    BY <1>3, <1>4, <2>1, <2>2, TypesStay
<1>7. OwnStamps'
  <2>1. n # 0 => n = call[c].stamp
    BY DEF Resumes
  <2>2. way' = way
    BY DEF Restores
  <2> HIDE DEF n
  <2> QED
    BY <1>4, <1>5, <2>1, <2>2 DEF SnapInv, OwnStamps
<1>8. WayIsOpen'
  BY WayStays DEF Restores
<1>9. CallIsSound(c)'
  <2>1. n # 0 => InPlace(n)' /\ Saved(c)'
    <3>1. SUFFICES ASSUME n # 0 PROVE InPlace(n)' /\ Saved(c)'
      OBVIOUS
    <3>2. /\ taken /\ n = me.stamp /\ me = call[c] /\ call[c].at = "packing" /\ me.todo = {}
          /\ CallIsSound(c)
      BY <3>1 DEF Resumes, SnapInv
    <3>3. InPlace(n) /\ Read(c) /\ DOMAIN me.lost = {}
      BY <3>1, <3>2 DEF CallIsSound
    <3>4. InPlace(n)'
      <4>1. n' = n
        BY <3>2
      <4> QED
        BY <3>2, <3>3 DEF InPlace, Snap!PushedOut, ByRule
    <3>5. ASSUME n \in DOMAIN archive', NEW f \in held \ me.dirty, config[f] # Absent
          PROVE  f \in DOMAIN archive'[n].holds /\ archive'[n].holds[f] = config[f]
      BY <1>1, <3>2, <3>3, <3>5 DEF Read, Has, Shrunk
    <3> HIDE DEF n, held
    <3>6. Saved(c)'
      BY <1>4, <1>5, <3>3, <3>5 DEF Saved, Has
    <3> QED
      BY <3>4, <3>6
  <2> QED
    BY <1>4, <1>5, <2>1 DEF CallIsSound, InPlace, Snap!PushedOut
<1>10. \A d \in Callers \ {c} : CallIsSound(d)'
  BY <1>5, OthersAreSound
<1> QED
  BY <1>6, <1>7, <1>8, <1>9, <1>10 DEF SnapInv

LEMMA AfterKeeps ==
  ASSUME Snap!SnapshotsAssumption, SnapInv, NEW c \in Callers, NEW me, NEW taken \in BOOLEAN,
         Resumes(c, me, taken), Shrunk, ByRule(me, taken), UNCHANGED <<config, last, writes>>,
         Snap!AfterCapture(c, me, taken)
  PROVE  SnapInv'
BY AfterOutcomes, EndsKeeps, RestoresKeeps

-----------------------------------------------------------------------------
(* The calls that capture.                                                 *)

LEMMA CaptureKeeps ==
  ASSUME Snap!SnapshotsAssumption, SnapInv, NEW c \in Callers, NEW me,
         Asking(me), Snap!Capture(c, me),
         UNCHANGED <<config, writes>>
  PROVE  SnapInv'
<1>1. CASE Begins(c, me)
  BY <1>1, BeginsKeeps
<1>2. CASE UNCHANGED <<archive, last>> /\ Snap!AfterCapture(c, me, FALSE)
  <2>1. Resumes(c, me, FALSE)
    BY DEF Asking, Resumes
  <2>2. Shrunk /\ ByRule(me, FALSE)
    BY <1>2 DEF SnapInv, Typed, Shrunk, ByRule
  <2> QED
    BY <1>2, <2>1, <2>2, AfterKeeps
<1> QED
  BY <1>1, <1>2 DEF Snap!Capture, Begins

LEMMA CallsKeep ==
  ASSUME Snap!SnapshotsAssumption, SnapInv, NEW c \in Callers,
         \/ \E v \in Versions : Snap!Install(c, v)
         \/ Snap!Uninstall(c)
         \/ \E s \in DOMAIN archive : Snap!Restore(c, s)
  PROVE  SnapInv'
<1>1. /\ Snap!Idle \in CallRecord /\ DOMAIN Snap!Idle.lost = {}
      /\ Snap!Idle.stamp = 0 /\ Snap!Idle.target = 0 /\ last \in Nat
  BY IdleRecord, NothingHeld DEF Snap!Idle, SnapInv, Typed
<1>2. ASSUME NEW v \in Versions, Snap!Install(c, v) PROVE SnapInv'
  <2>1. CASE version = None
    <3>1. version' = v /\ UNCHANGED <<config, archive, last, call, way, writes>>
      BY <1>2, <2>1 DEF Snap!Install
    <3>2. Typed' /\ OwnStamps' /\ WayIsOpen'
      BY <3>1 DEF SnapInv, Typed, MaybeVersion, OwnStamps, WayIsOpen, Snap!PushedOut, Newest,
         Snap!PreUpdates
    <3>3. \A d \in Callers : CallIsSound(d)'
      BY <3>1 DEF SnapInv, CallIsSound, Read, Saved, Has, InPlace, Snap!PushedOut
    <3> QED
      BY <3>2, <3>3 DEF SnapInv
  <2>2. CASE version # None
    <3> DEFINE me == [Snap!Idle EXCEPT !.why = "pre-update", !.to = v]
    <3>0. v \in MaybeVersion
      BY DEF MaybeVersion
    <3>1. me \in CallRecord
      BY <1>1, <3>0 DEF CallRecord, Snap!Reasons
    <3>4. DOMAIN me.lost = {} /\ me.stamp = 0 /\ me.target = 0
      BY <1>1 DEF CallRecord
    <3>3. Asking(me)
      BY <1>1, <3>1, <3>4 DEF Asking
    <3>2. Snap!Capture(c, me) /\ UNCHANGED <<config, writes>>
      BY <1>2, <2>2 DEF Snap!Install
    <3> HIDE DEF me
    <3> QED
      BY <3>3, <3>2, CaptureKeeps
  <2> QED
    BY <2>1, <2>2
<1>3. ASSUME Snap!Uninstall(c) PROVE SnapInv'
  <2> DEFINE me == [Snap!Idle EXCEPT !.why = "pre-uninstall"]
  <2>1. Asking(me)
    BY <1>1 DEF Asking, CallRecord, Snap!Reasons
  <2>2. Snap!Capture(c, me) /\ UNCHANGED <<config, writes>>
    BY <1>3 DEF Snap!Uninstall
  <2> HIDE DEF me
  <2> QED
    BY <2>1, <2>2, CaptureKeeps
<1>4. ASSUME NEW s \in DOMAIN archive, Snap!Restore(c, s) PROVE SnapInv'
  <2> DEFINE me == [Snap!Idle EXCEPT !.why = "pre-restore", !.target = s]
  <2>0. s \in Nat /\ s <= last
    BY DEF SnapInv, Typed
  <2>1. Asking(me)
    BY <1>1, <2>0 DEF Asking, CallRecord, Snap!Reasons
  <2>2. Snap!Capture(c, me) /\ UNCHANGED <<config, writes>>
    BY <1>4 DEF Snap!Restore
  <2> HIDE DEF me
  <2> QED
    BY <2>1, <2>2, CaptureKeeps
<1> QED
  BY <1>2, <1>3, <1>4

LEMMA PackedKeeps ==
  ASSUME Snap!SnapshotsAssumption, SnapInv, NEW c \in Callers, Snap!Packed(c)
  PROVE  SnapInv'
<1> DEFINE kept == {s \in DOMAIN archive : Snap!Survives(s)}
<1>1. /\ call[c].at = "packing" /\ call[c].todo = {} /\ Snap!AfterCapture(c, call[c], TRUE)
      /\ UNCHANGED <<config, last, writes>>
      /\ archive' = [s \in kept |-> IF s = call[c].stamp THEN [archive[s] EXCEPT !.whole = TRUE]
                                    ELSE archive[s]]
  BY DEF Snap!Packed
<1>2. \A s \in DOMAIN archive : archive[s] \in Entry
  BY DEF SnapInv, Typed
<1>3. ASSUME NEW s \in kept
      PROVE  /\ archive'[s] \in Entry
             /\ archive'[s].why = archive[s].why /\ archive'[s].version = archive[s].version
             /\ archive'[s].holds = archive[s].holds
             /\ archive[s].whole \/ s = call[c].stamp => archive'[s].whole
  <2>1. CASE s = call[c].stamp
    <3>1. archive'[s] = [archive[s] EXCEPT !.whole = TRUE]
      BY <1>1, <2>1
    <3> QED
      BY <1>2, <2>1, <3>1 DEF Entry
  <2>2. CASE s # call[c].stamp
    BY <1>1, <1>2, <2>2
  <2> QED
    BY <2>1, <2>2
<1>4. DOMAIN archive' = kept
  BY <1>1
<1>5. Shrunk
  BY <1>3, <1>4 DEF Shrunk
<1>6. ByRule(call[c], TRUE)
  <2>1. \A s \in DOMAIN archive \ kept : Snap!PushedOut(s)
    BY DroppedIsOut DEF SnapInv
  <2> QED
    BY <1>4, <2>1 DEF ByRule
<1>7. Resumes(c, call[c], TRUE)
  BY <1>1, <1>3, <1>4 DEF Resumes, SnapInv, Typed, CallIsSound
<1> QED
  BY <1>1, <1>5, <1>6, <1>7, AfterKeeps

LEMMA PackFailsKeeps ==
  ASSUME Snap!SnapshotsAssumption, SnapInv, NEW c \in Callers, Snap!PackFails(c)
  PROVE  SnapInv'
<1>1. /\ call[c].at = "packing" /\ Snap!AfterCapture(c, call[c], FALSE)
      /\ UNCHANGED <<config, last, writes>>
      /\ archive' = [s \in DOMAIN archive \ {call[c].stamp} |-> archive[s]]
  BY DEF Snap!PackFails, Snap!Only
<1>2. Shrunk /\ ByRule(call[c], FALSE)
  BY <1>1 DEF SnapInv, Typed, Shrunk, ByRule
<1>3. Resumes(c, call[c], FALSE)
  BY <1>1 DEF Resumes, SnapInv, Typed, CallIsSound
<1> QED
  BY <1>1, <1>2, <1>3, AfterKeeps

LEMMA StutterKeeps == ASSUME SnapInv, UNCHANGED Snap!vars PROVE SnapInv'
<1>1. Typed' /\ OwnStamps' /\ WayIsOpen'
  BY DEF Snap!vars, SnapInv, Typed, OwnStamps, WayIsOpen, Snap!PushedOut, Newest,
     Snap!PreUpdates
<1>2. \A d \in Callers : CallIsSound(d)'
  BY DEF Snap!vars, SnapInv, CallIsSound, Read, Saved, Has, InPlace, Snap!PushedOut
<1> QED
  BY <1>1, <1>2 DEF SnapInv

\* The strengthened invariant of the archives holds in every reachable state.
THEOREM SnapInvariant == Snap!Spec => []SnapInv
<1>0. Snap!SnapshotsAssumption
  BY InstallsAssumption
<1>1. Snap!Init => SnapInv
  BY <1>0, SnapInit
<1>2. SnapInv /\ [Snap!Next]_Snap!vars => SnapInv'
  <2> SUFFICES ASSUME Snap!SnapshotsAssumption, SnapInv, [Snap!Next]_Snap!vars PROVE SnapInv'
    BY <1>0
  <2>1. CASE \E f \in Snap!ConfigFiles, k \in Contents \union {Absent} : Snap!Write(f, k)
    BY <2>1, WriteKeeps
  <2>2. CASE \E c \in Callers : \/ \E v \in Versions : Snap!Install(c, v)
                                \/ Snap!Uninstall(c)
                                \/ \E s \in DOMAIN archive : Snap!Restore(c, s)
    BY <2>2, CallsKeep
  <2>3. CASE \E c \in Callers : Snap!Packed(c)
    BY <2>3, PackedKeeps
  <2>4. CASE \E c \in Callers : Snap!PackFails(c)
    BY <2>4, PackFailsKeeps
  <2>5. CASE \E c \in Callers : Snap!Killed(c) \/ Snap!Unpacked(c)
    BY <2>5, EndedKeeps
  <2>6. CASE \E c \in Callers, f \in Snap!ConfigFiles : Snap!Pack(c, f)
    BY <2>6, PackKeeps
  <2>7. CASE \E c \in Callers, f \in Snap!ConfigFiles : Snap!Unpack(c, f)
    BY <2>7, UnpackKeeps
  <2>8. CASE \E s \in DOMAIN archive : Snap!Delete(s)
    BY <2>8, DeleteKeeps
  <2>9. CASE UNCHANGED Snap!vars
    BY <2>9, StutterKeeps
  <2> QED
    BY <2>1, <2>2, <2>3, <2>4, <2>5, <2>6, <2>7, <2>8, <2>9 DEF Snap!Next
<1> QED
  BY <1>1, <1>2, PTL DEF Snap!Spec

LEMMA FindsNewest ==
  ASSUME NEW s \in Nat, NEW v, Newest(s, v), DOMAIN archive \subseteq Nat
  PROVE  Snap!FindPreUpdate(v) = s
<1>1. \A t \in Snap!PreUpdates(v) : t \in Nat
  BY DEF Snap!PreUpdates
<1>2. \A t \in Snap!PreUpdates(v) : (\A u \in Snap!PreUpdates(v) : u <= t) => t = s
  BY <1>1 DEF Newest
<1> QED
  BY <1>2 DEF Snap!FindPreUpdate, Newest

\* The types of the archives' state.
THEOREM SnapTypes == Snap!Spec => []Snap!TypeOK
<1>1. ASSUME SnapInv PROVE Snap!TypeOK
  <2>1. \A c \in Callers : /\ call[c].at \in {"idle", "packing", "unpacking"}
                           /\ call[c].stamp \in 0..last /\ call[c].target \in 0..last
                           /\ call[c].lost \in Snap!Held
    BY <1>1 DEF SnapInv, Typed, CallRecord
  <2> QED
    BY <1>1, <2>1 DEF SnapInv, Typed, Snap!TypeOK, Entry, MaybeVersion
<1> QED
  BY <1>1, SnapInvariant, PTL

\* However captures, restores, updates, kills and the writes of others
\* interleave: what a restore has overwritten is in the archive it took first,
\* until Retention later ones push it out (restore, prune).
THEOREM RestoresAreUndoable == Snap!Spec => []RestoreIsUndoable
<1>1. ASSUME SnapInv PROVE RestoreIsUndoable
  BY <1>1 DEF SnapInv, CallIsSound, InPlace, Saved, Has, RestoreIsUndoable,
     Snap!RestoreIsUndoable
<1> QED
  BY <1>1, SnapInvariant, PTL

\* And what a rollback is offered is the complete archive of the update that
\* replaced the version (findPreUpdate).
THEOREM RollbacksFindConfig == Snap!Spec => []RollbackFindsConfig
<1>1. ASSUME SnapInv PROVE RollbackFindsConfig
  <2>1. SUFFICES ASSUME way.stamp # 0, Newest(way.stamp, way.version)
                 PROVE  /\ way.stamp \in DOMAIN archive /\ archive[way.stamp].whole
                        /\ Snap!FindPreUpdate(way.version) = way.stamp
    BY <1>1 DEF SnapInv, WayIsOpen, RollbackFindsConfig, Snap!RollbackFindsConfig
  <2>2. way.stamp \in Nat /\ DOMAIN archive \subseteq Nat
    BY <1>1 DEF SnapInv, Typed
  <2>3. Snap!FindPreUpdate(way.version) = way.stamp
    BY <2>1, <2>2, FindsNewest
  <2> QED
    BY <2>1, <2>3 DEF Newest, Snap!PreUpdates
<1> QED
  BY <1>1, SnapInvariant, PTL
-----------------------------------------------------------------------------
(* Shared prefixes (PrefixInstall): what each loop of a job knows of the      *)
(* files and directories it did not make.                                     *)

\* The steps of an install, and of an uninstall.
Installing == pPc \in {"copy", "undo", "undoDirs", "stale", "staleDirs", "manifest"}
Removing   == pPc \in {"remove", "removeDirs", "removeManifest"}

\* Every file is in a directory that is there, in both histories too.
Housed(d, ds) == \A f \in Files : d[f] # None => HomeOf[f] \in ds

\* TypeOK without todo, with the types of the history.
PrefixTypes ==
  /\ disk \in [Files -> Prefix!Content] /\ dirs \in SUBSET Dirs /\ Housed(disk, dirs)
  /\ manifest \in Prefix!Manifest \cup {None}
  /\ pPc \in Prefix!PC /\ pJob \in Prefix!Job \cup {None}
  /\ written \in SUBSET Files /\ created \in SUBSET Dirs
  /\ pOutcome \in {"none", "ok", "error", "crash"}
  /\ tainted \in BOOLEAN /\ updated \in BOOLEAN /\ skipped \in BOOLEAN
  /\ pFaults \in 0..PrefixFaults
  /\ pBefore \in [disk: [Files -> Prefix!Content], dirs: SUBSET Dirs,
                  manifest: Prefix!Manifest \cup {None}]
  /\ base \in [disk: [Files -> Prefix!Content], dirs: SUBSET Dirs]
  /\ Housed(pBefore.disk, pBefore.dirs) /\ Housed(base.disk, base.dirs)

\* What a job has to do in each of its loops.
Phases ==
  /\ pPc = "idle" => todo = {} /\ written = {} /\ created = {}
  /\ pPc # "idle" => pOutcome = "none" /\ manifest = pBefore.manifest
  /\ pOutcome # "none" => pJob \in Prefix!Job
  /\ pOutcome = "ok" /\ pJob.type = "uninstall" => manifest = None
  /\ Installing => /\ pJob \in [type: {"install"}, ver: Versions]
                   /\ written \subseteq Ships[pJob.ver]
                   /\ updated \/ manifest = None
  /\ Removing => pJob = [type |-> "uninstall"] /\ written = {} /\ created = {}
  /\ pPc = "copy" => todo = Ships[pJob.ver] \ written
  /\ pPc = "undo" => todo \subseteq written
  /\ pPc = "undoDirs" => todo \subseteq created
  /\ pPc \in {"stale", "staleDirs", "manifest"} => written = Ships[pJob.ver]
  /\ pPc = "stale" => todo \subseteq Prefix!Listed \ written
  /\ pPc = "remove" => todo \subseteq Prefix!Listed
  /\ pPc \in {"staleDirs", "removeDirs"} => todo \subseteq Prefix!ListDirs
  /\ pPc \in {"manifest", "removeManifest"} => todo = {}
  /\ pPc \in {"copy", "stale", "staleDirs", "manifest"} => \A f \in written : disk[f] # None

\* Files outside S are as in w, or gone.
KnownFiles(d, w, S) == \A f \in Files \ S : d[f] \in {None, w[f]}

\* Directories outside L are as in w, but for those that lost a file of the user's.
Explained(d, ds, w, wds, L) ==
  /\ ds \subseteq wds \cup L
  /\ \A h \in wds \ ds : \E f \in Files : HomeOf[f] = h /\ w[f] # None /\ d[f] = None
  /\ \A h \in L \cap wds : \E f \in Files : HomeOf[f] = h /\ w[f] # None

\* What the catch has to take back is in S and L.
Undoable(S, L) ==
  /\ \A f \in Files \ Ships[pJob.ver] : disk[f] = pBefore.disk[f]
  /\ KnownFiles(disk, pBefore.disk, S) /\ Explained(disk, dirs, pBefore.disk, pBefore.dirs, L)

\* A first install can be undone.
FirstInv ==
  pBefore.manifest = None /\ ~skipped =>
    /\ pPc = "copy" => Undoable(written, created)
    /\ pPc = "undo" => Undoable(todo, created)
    /\ pPc = "undoDirs" => Undoable({}, todo)
    /\ pOutcome = "error" /\ pJob.type = "install" =>
         manifest = None /\ (Undoable({}, {}) \/ \A f \in Ships[pJob.ver] : disk[f] # None)

\* Files and directories that are not the app's, as far as the job has come.
Foreigners(S, L) ==
  /\ KnownFiles(disk, base.disk, S)
  /\ ~updated => Explained(disk, dirs, base.disk, base.dirs, L)

\* The same since the app was not there, through installs, updates and uninstalls that went well.
CleanInv ==
  /\ ~tainted /\ pPc = "idle" => Foreigners(Prefix!Listed, Prefix!ListDirs)
  /\ ~tainted /\ pFaults = 0 =>
       /\ pPc = "copy" => Foreigners(Prefix!Listed \cup written, created)
       /\ pPc = "stale" => Foreigners(todo \cup written, created)
       /\ pPc \in {"staleDirs", "manifest"} => Foreigners(written, created)
       /\ pPc = "remove" => Foreigners(todo, Prefix!ListDirs)
       /\ pPc = "removeDirs" => Foreigners({}, todo)
       /\ pPc = "removeManifest" => Foreigners({}, {})

PrefixInv == PrefixTypes /\ Phases /\ FirstInv /\ CleanInv

\* The assumptions on the constants, as the steps use them.
LEMMA PrefixConstants ==
  /\ \A f \in Files : HomeOf[f] \in Dirs
  /\ \A v \in Versions : Ships[v] \in SUBSET Files /\ v \in Prefix!Content /\ v # None
  /\ Foreign # None /\ Partial # None /\ None \notin Prefix!Manifest /\ None \in Prefix!Content
  /\ Foreign \in Prefix!Content /\ Partial \in Prefix!Content
BY InstallsAssumption DEF Prefix!PrefixAssumption, Prefix!Content

\* One file goes.
LEMMA KnownWithout ==
  ASSUME NEW d \in [Files -> Prefix!Content], NEW w, NEW S, NEW f \in Files, KnownFiles(d, w, S)
  PROVE  KnownFiles([d EXCEPT ![f] = None], w, S \ {f})
BY DEF KnownFiles

\* One file comes, the job's or the user's.
LEMMA KnownWith ==
  ASSUME NEW d \in [Files -> Prefix!Content], NEW w, NEW S, NEW f \in Files, NEW c,
         KnownFiles(d, w, S)
  PROVE  KnownFiles([d EXCEPT ![f] = c], w, S \cup {f})
BY DEF KnownFiles

\* The user puts a file there: to the history it was always there.
LEMMA KnownPut ==
  ASSUME NEW d \in [Files -> Prefix!Content], NEW w \in [Files -> Prefix!Content], NEW S,
         NEW f \in Files,
         NEW c, KnownFiles(d, w, S)
  PROVE  KnownFiles([d EXCEPT ![f] = c], [w EXCEPT ![f] = c], S)
BY DEF KnownFiles

\* A file that goes makes no directory come or go.
LEMMA ExplainedWithout ==
  ASSUME NEW d \in [Files -> Prefix!Content], NEW ds, NEW w, NEW wds, NEW L, NEW f \in Files,
         Explained(d, ds, w, wds, L)
  PROVE  Explained([d EXCEPT ![f] = None], ds, w, wds, L)
<1>1. \A g \in Files : d[g] = None => [d EXCEPT ![f] = None][g] = None
  OBVIOUS
<1> QED
  BY <1>1 DEF Explained

\* A file that comes notes its directory if that was missing.
LEMMA ExplainedWith ==
  ASSUME NEW d \in [Files -> Prefix!Content], NEW ds, NEW w, NEW wds, NEW L, NEW f \in Files, NEW c,
         Explained(d, ds, w, wds, L)
  PROVE  Explained([d EXCEPT ![f] = c], ds \cup {HomeOf[f]}, w, wds, L \cup ({HomeOf[f]} \ ds))
<1> DEFINE e == [d EXCEPT ![f] = c]
<1>1. \A g \in Files : g # f => e[g] = d[g]
  OBVIOUS
<1> HIDE DEF e
<1>2. \A h \in wds \ (ds \cup {HomeOf[f]}) :
        \E g \in Files : HomeOf[g] = h /\ w[g] # None /\ e[g] = None
  BY <1>1 DEF Explained
<1> QED
  BY <1>2 DEF Explained, e

\* The user's file brings its directory, now and in the history.
LEMMA ExplainedPut ==
  ASSUME NEW d \in [Files -> Prefix!Content], NEW ds, NEW w \in [Files -> Prefix!Content], NEW wds,
         NEW L,
         NEW f \in Files, NEW c, c # None, Explained(d, ds, w, wds, L)
  PROVE  Explained([d EXCEPT ![f] = c], ds \cup {HomeOf[f]},
                   [w EXCEPT ![f] = c], wds \cup {HomeOf[f]}, L)
<1> DEFINE e == [d EXCEPT ![f] = c]
           v == [w EXCEPT ![f] = c]
<1>1. /\ \A g \in Files : g # f => e[g] = d[g] /\ v[g] = w[g]
      /\ v[f] # None
  OBVIOUS
<1> HIDE DEF e, v
<1>2. \A h \in (wds \cup {HomeOf[f]}) \ (ds \cup {HomeOf[f]}) :
        \E g \in Files : HomeOf[g] = h /\ v[g] # None /\ e[g] = None
  BY <1>1 DEF Explained
<1>3. \A h \in L \cap (wds \cup {HomeOf[f]}) : \E g \in Files : HomeOf[g] = h /\ v[g] # None
  BY <1>1 DEF Explained
<1> QED
  BY <1>2, <1>3 DEF Explained, e, v

\* A directory that is tried is gone or is one of theirs.
LEMMA ExplainedTried ==
  ASSUME NEW d \in [Files -> Prefix!Content], NEW ds, NEW w \in [Files -> Prefix!Content], NEW wds,
         NEW L,
         NEW h \in L, Explained(d, ds, w, wds, L), KnownFiles(d, w, {}), Housed(w, wds),
         NEW es, es = IF \A f \in Files : HomeOf[f] = h => d[f] = None THEN ds \ {h} ELSE ds
  PROVE  Explained(d, es, w, wds, L \ {h})
<1>1. CASE \A f \in Files : HomeOf[f] = h => d[f] = None
  <2>1. \A k \in wds \ (ds \ {h}) : \E f \in Files : HomeOf[f] = k /\ w[f] # None /\ d[f] = None
    BY <1>1 DEF Explained
  <2> QED
    BY <1>1, <2>1 DEF Explained
<1>2. CASE ~\A f \in Files : HomeOf[f] = h => d[f] = None
  <2>1. PICK f \in Files : HomeOf[f] = h /\ d[f] # None
    BY <1>2
  <2>2. h \in wds
    BY <2>1 DEF KnownFiles, Housed
  <2> QED
    BY <1>2, <2>2 DEF Explained
<1> QED
  BY <1>1, <1>2

\* Where nothing has been touched.
LEMMA NothingTouched ==
  ASSUME NEW d, NEW ds PROVE KnownFiles(d, d, {}) /\ Explained(d, ds, d, ds, {})
BY DEF KnownFiles, Explained

\* Files that may be anything may be more.
LEMMA KnownMore ==
  ASSUME NEW d, NEW w, NEW S, NEW T, S \subseteq T, KnownFiles(d, w, S) PROVE KnownFiles(d, w, T)
BY DEF KnownFiles

\* A file has a directory when it comes, and the others keep theirs.
LEMMA HousedStill ==
  ASSUME NEW d \in [Files -> Prefix!Content], NEW ds, Housed(d, ds), NEW f \in Files, NEW c
  PROVE  /\ Housed([d EXCEPT ![f] = c], ds \cup {HomeOf[f]})
         /\ Housed([d EXCEPT ![f] = None], ds)
         /\ c \in Prefix!Content => [d EXCEPT ![f] = c] \in [Files -> Prefix!Content]
BY PrefixConstants DEF Housed

\* What a job knows of its own kind.
LEMMA JobFacts ==
  /\ \A v \in Versions : [type |-> "install", ver |-> v] \in [type: {"install"}, ver: Versions]
  /\ \A j \in [type: {"install"}, ver: Versions] :
       j \in Prefix!Job /\ j.type = "install" /\ j.ver \in Versions
  /\ [type |-> "uninstall"] \in Prefix!Job
BY DEF Prefix!Job

\* The types of what is remembered and listed.
LEMMA TypeFacts ==
  ASSUME PrefixTypes
  PROVE  /\ pBefore.disk \in [Files -> Prefix!Content] /\ pBefore.dirs \in SUBSET Dirs
         /\ base.disk \in [Files -> Prefix!Content] /\ base.dirs \in SUBSET Dirs
         /\ Prefix!Listed \in SUBSET Files /\ Prefix!ListDirs \in SUBSET Dirs
BY DEF PrefixTypes, Prefix!Listed, Prefix!ListDirs, Prefix!Manifest

\* A failed call is counted.
LEMMA Faulted ==
  ASSUME PrefixTypes, Prefix!Fault
  PROVE pFaults' \in 0..PrefixFaults /\ pFaults' > 0 /\ pFaults' # 0
<1>1. pFaults \in 0..PrefixFaults /\ PrefixFaults \in Nat
  BY InstallsAssumption DEF PrefixTypes, Prefix!PrefixAssumption
<1> QED
  BY <1>1 DEF Prefix!Fault

-----------------------------------------------------------------------------
\* Before the first job only the user has files in the prefix.
LEMMA PrefixInvInit == Prefix!Init => PrefixInv
<1> SUFFICES ASSUME Prefix!Init PROVE PrefixInv
  OBVIOUS
<1>1. disk \in [Files -> Prefix!Content] /\ dirs \in SUBSET Dirs /\ Housed(disk, dirs)
  BY PrefixConstants DEF Prefix!Init, Housed, Prefix!Content
<1>2. /\ pBefore = [disk |-> disk, dirs |-> dirs, manifest |-> None]
      /\ base = [disk |-> disk, dirs |-> dirs]
  BY DEF Prefix!Init
<1>3. /\ pBefore \in [disk: [Files -> Prefix!Content], dirs: SUBSET Dirs,
                      manifest: Prefix!Manifest \cup {None}]
      /\ base \in [disk: [Files -> Prefix!Content], dirs: SUBSET Dirs]
      /\ pBefore.disk = disk /\ pBefore.dirs = dirs /\ base.disk = disk /\ base.dirs = dirs
  BY <1>1, <1>2
<1>4. tainted \in BOOLEAN /\ updated \in BOOLEAN /\ skipped \in BOOLEAN
  BY Zenon DEF Prefix!Init
<1>5. /\ manifest = None /\ pPc = "idle" /\ pJob = None /\ todo = {} /\ written = {} /\ created = {}
      /\ pOutcome = "none" /\ pFaults = 0
  BY DEF Prefix!Init
<1>6. pFaults \in 0..PrefixFaults
  BY <1>5, InstallsAssumption DEF Prefix!PrefixAssumption
<1>7. PrefixTypes
  BY <1>1, <1>3, <1>4, <1>5, <1>6 DEF PrefixTypes, Prefix!PC
<1>8. Phases
  BY <1>5 DEF Phases, Installing, Removing
<1>9. FirstInv
  BY <1>5 DEF FirstInv
<1>10. CleanInv
  <2>1. Prefix!Listed = {} /\ Prefix!ListDirs = {}
    BY <1>5 DEF Prefix!Listed, Prefix!ListDirs
  <2>2. Foreigners({}, {})
    BY <1>3, NothingTouched DEF Foreigners
  <2> QED
    BY <1>5, <2>1, <2>2 DEF CleanInv
<1> QED
  BY <1>7, <1>8, <1>9, <1>10 DEF PrefixInv
-----------------------------------------------------------------------------
\* A loop over files.
LEMMA RemoveFileStep ==
  ASSUME PrefixInv, NEW loop \in {"undo", "stale", "remove"}, Prefix!RemoveFile(loop)
  PROVE  PrefixInv'
<1> USE DEF PrefixInv
<1>1. PICK f \in todo :
        /\ pPc = loop /\ todo' = todo \ {f}
        /\ \/ disk' = [disk EXCEPT ![f] = None] /\ UNCHANGED <<pFaults, skipped>>
           \/ disk[f] # None /\ Prefix!Fault /\ skipped' = TRUE /\ UNCHANGED disk
        /\ UNCHANGED <<dirs, manifest, pPc, pJob, written, created, pOutcome, pBefore, base,
                       tainted, updated>>
  BY DEF Prefix!RemoveFile
<1>2. f \in Files /\ Prefix!Listed' = Prefix!Listed /\ Prefix!ListDirs' = Prefix!ListDirs
  BY <1>1, TypeFacts DEF Phases, Prefix!Listed, Prefix!ListDirs, PrefixTypes
<1>3. CASE disk' = [disk EXCEPT ![f] = None] /\ UNCHANGED <<pFaults, skipped>>
  <2>1. disk' \in [Files -> Prefix!Content] /\ Housed(disk', dirs)
    BY <1>2, <1>3, HousedStill, PrefixConstants DEF PrefixTypes
  <2>2. PrefixTypes'
    BY <1>1, <1>3, <2>1, Zenon DEF PrefixTypes
  <2>3. \A g \in Files : g # f => disk'[g] = disk[g]
    BY <1>3 DEF PrefixTypes
  <2>4. Phases'
    BY <1>1, <1>2, <2>3 DEF Phases, Installing, Removing, PrefixTypes
  <2>5. \A S, w : KnownFiles(disk, w, S) => KnownFiles(disk', w, S \ {f})
    BY <1>2, <1>3, KnownWithout DEF PrefixTypes
  <2>6. \A L, w, wds : Explained(disk, dirs, w, wds, L) => Explained(disk', dirs, w, wds, L)
    BY <1>2, <1>3, ExplainedWithout DEF PrefixTypes
  <2>7. FirstInv'
    <3>1. CASE pPc = "undo"
      <4>1. f \in Ships[pJob.ver]
        BY <1>1, <3>1 DEF Phases, Installing
      <4>2. Undoable(todo, created) => Undoable(todo, created)'
        BY <1>1, <2>3, <2>5, <2>6, <4>1 DEF Undoable
      <4> QED
        BY <1>1, <1>3, <3>1, <4>2 DEF FirstInv, Phases
    <3>2. CASE pPc # "undo"
      BY <1>1, <1>3, <3>2 DEF FirstInv, Phases
    <3> QED
      BY <3>1, <3>2
  <2>8. CleanInv'
    <3>1. CASE pPc = "stale"
      <4>1. f \notin written
        BY <1>1, <3>1 DEF Phases
      <4>2. (todo \cup written) \ {f} = todo' \cup written'
        BY <1>1, <4>1
      <4>3. Foreigners(todo \cup written, created) => Foreigners(todo \cup written, created)'
        BY <1>1, <2>5, <2>6, <4>2 DEF Foreigners
      <4> QED
        BY <1>1, <1>3, <3>1, <4>3 DEF CleanInv
    <3>2. CASE pPc = "remove"
      <4>1. Foreigners(todo, Prefix!ListDirs) => Foreigners(todo, Prefix!ListDirs)'
        BY <1>1, <1>2, <2>5, <2>6 DEF Foreigners
      <4> QED
        BY <1>1, <1>3, <3>2, <4>1 DEF CleanInv
    <3>3. CASE pPc = "undo"
      BY <1>1, <3>3 DEF CleanInv
    <3> QED
      BY <1>1, <3>1, <3>2, <3>3
  <2> QED
    BY <2>2, <2>4, <2>7, <2>8
<1>4. CASE Prefix!Fault /\ skipped' = TRUE /\ UNCHANGED disk
  <2>1. pFaults' \in 0..PrefixFaults /\ pFaults' # 0
    BY <1>4, Faulted
  <2>2. PrefixTypes'
    <3>1. skipped' \in BOOLEAN
      BY <1>4, Zenon
    <3> QED
      BY <1>1, <1>4, <2>1, <3>1, Zenon DEF PrefixTypes
  <2>3. Phases'
    BY <1>1, <1>2, <1>4 DEF Phases, Installing, Removing
  <2>4. FirstInv'
    BY <1>4 DEF FirstInv
  <2>5. CleanInv'
    BY <1>1, <2>1 DEF CleanInv
  <2> QED
    BY <2>2, <2>3, <2>4, <2>5
<1> QED
  BY <1>1, <1>3, <1>4

\* A loop over directories.
LEMMA RemoveDirStep ==
  ASSUME PrefixInv, NEW loop \in {"undoDirs", "staleDirs", "removeDirs"}, Prefix!RemoveDir(loop)
  PROVE  PrefixInv'
<1> USE DEF PrefixInv
<1>1. PICK d \in todo :
        /\ pPc = loop /\ todo' = todo \ {d}
        /\ \/ /\ dirs' = (IF Prefix!EmptyDir(d) THEN dirs \ {d} ELSE dirs)
              /\ UNCHANGED <<pFaults, skipped>>
           \/ d \in dirs /\ Prefix!Fault /\ skipped' = TRUE /\ UNCHANGED dirs
        /\ UNCHANGED <<disk, manifest, pPc, pJob, written, created, pOutcome, pBefore, base,
                       tainted, updated>>
  BY DEF Prefix!RemoveDir
<1>2. Prefix!Listed' = Prefix!Listed /\ Prefix!ListDirs' = Prefix!ListDirs
  BY <1>1 DEF Prefix!Listed, Prefix!ListDirs
<1>3. CASE /\ dirs' = (IF Prefix!EmptyDir(d) THEN dirs \ {d} ELSE dirs)
           /\ UNCHANGED <<pFaults, skipped>>
  <2>1. dirs' \in SUBSET Dirs /\ Housed(disk, dirs')
    BY <1>3 DEF PrefixTypes, Housed, Prefix!EmptyDir
  <2>2. PrefixTypes'
    BY <1>1, <1>3, <2>1, Zenon DEF PrefixTypes
  <2>3. Phases'
    BY <1>1, <1>2 DEF Phases, Installing, Removing
  <2>4. ASSUME NEW w \in [Files -> Prefix!Content], NEW wds, Housed(w, wds),
               KnownFiles(disk, w, {}),
               Explained(disk, dirs, w, wds, todo)
        PROVE  Explained(disk, dirs', w, wds, todo')
    BY <1>1, <1>3, <2>4, ExplainedTried DEF PrefixTypes, Prefix!EmptyDir
  <2>5. FirstInv'
    <3>1. CASE pPc = "undoDirs"
      <4>1. Undoable({}, todo) => Undoable({}, todo)'
        BY <1>1, <2>4, TypeFacts DEF Undoable, PrefixTypes
      <4> QED
        BY <1>1, <1>3, <3>1, <4>1 DEF FirstInv, Phases
    <3>2. CASE pPc # "undoDirs"
      BY <1>1, <1>3, <3>2 DEF FirstInv, Phases
    <3> QED
      BY <3>1, <3>2
  <2>6. CleanInv'
    <3>1. CASE pPc = "staleDirs"
      <4>1. updated
        BY <1>1, <3>1 DEF Phases, Installing, Prefix!ListDirs
      <4>2. Foreigners(written, created) => Foreigners(written, created)'
        BY <1>1, <4>1 DEF Foreigners
      <4> QED
        BY <1>1, <1>3, <3>1, <4>2 DEF CleanInv
    <3>2. CASE pPc = "removeDirs"
      <4>1. Foreigners({}, todo) => Foreigners({}, todo)'
        BY <1>1, <2>4, TypeFacts DEF Foreigners, PrefixTypes
      <4> QED
        BY <1>1, <1>3, <3>2, <4>1 DEF CleanInv
    <3>3. CASE pPc = "undoDirs"
      BY <1>1, <3>3 DEF CleanInv
    <3> QED
      BY <1>1, <3>1, <3>2, <3>3
  <2> QED
    BY <2>2, <2>3, <2>5, <2>6
<1>4. CASE Prefix!Fault /\ skipped' = TRUE /\ UNCHANGED dirs
  <2>1. pFaults' \in 0..PrefixFaults /\ pFaults' # 0
    BY <1>4, Faulted
  <2>2. PrefixTypes'
    <3>1. skipped' \in BOOLEAN
      BY <1>4, Zenon
    <3> QED
      BY <1>1, <1>4, <2>1, <3>1, Zenon DEF PrefixTypes
  <2>3. Phases'
    BY <1>1, <1>2 DEF Phases, Installing, Removing
  <2>4. FirstInv'
    BY <1>4 DEF FirstInv
  <2>5. CleanInv'
    BY <1>1, <2>1 DEF CleanInv
  <2> QED
    BY <2>2, <2>3, <2>4, <2>5
<1> QED
  BY <1>1, <1>3, <1>4

\* From one loop to the next.
LEMMA EndLoopStep ==
  ASSUME PrefixInv, NEW loop, NEW next, NEW items, Prefix!EndLoop(loop, next, items),
         \/ loop = "undo" /\ next = "undoDirs" /\ items = created
         \/ loop = "copy" /\ next = "stale" /\ items = Prefix!Listed \ written
         \/ loop = "stale" /\ next = "staleDirs" /\ items = Prefix!ListDirs
         \/ loop = "staleDirs" /\ next = "manifest" /\ items = {}
         \/ loop = "remove" /\ next = "removeDirs" /\ items = Prefix!ListDirs
         \/ loop = "removeDirs" /\ next = "removeManifest" /\ items = {}
  PROVE  PrefixInv'
<1> USE DEF PrefixInv
<1>1. /\ pPc = loop /\ todo = {} /\ pPc' = next /\ todo' = items
      /\ UNCHANGED <<disk, dirs, manifest, pJob, written, created, pOutcome,
                     pBefore, base, tainted, updated, pFaults, skipped>>
  BY DEF Prefix!EndLoop, Prefix!Enter, Prefix!fsVars, Prefix!history
<1>2. Prefix!Listed' = Prefix!Listed /\ Prefix!ListDirs' = Prefix!ListDirs
  BY <1>1 DEF Prefix!Listed, Prefix!ListDirs
<1>3. PrefixTypes'
  <2>1. pPc' \in Prefix!PC
    BY <1>1 DEF Prefix!PC
  <2> QED
    BY <1>1, <2>1, Zenon DEF PrefixTypes
<1>4. Phases'
  BY <1>1, <1>2 DEF Phases, Installing, Removing
<1>5. FirstInv'
  <2>1. Undoable(todo, created)' <=> Undoable(items, created)
    BY <1>1 DEF Undoable
  <2>2. Undoable({}, todo)' <=> Undoable({}, items)
    BY <1>1 DEF Undoable
  <2> QED
    BY <1>1, <2>1, <2>2 DEF FirstInv, Phases
<1>6. CleanInv'
  <2>1. /\ Foreigners(todo \cup written, created)' <=> Foreigners(items \cup written, created)
        /\ Foreigners(written, created)' <=> Foreigners(written, created)
        /\ Foreigners(todo, Prefix!ListDirs)' <=> Foreigners(items, Prefix!ListDirs)
        /\ Foreigners({}, todo)' <=> Foreigners({}, items)
        /\ Foreigners({}, {})' <=> Foreigners({}, {})
    BY <1>1, <1>2 DEF Foreigners
  <2>2. CASE pPc = "copy"
    <3>1. items \cup written = Prefix!Listed \cup written
      BY <1>1, <2>2
    <3> QED
      BY <1>1, <2>1, <2>2, <3>1 DEF CleanInv
  <2>3. CASE pPc = "stale"
    <3>1. todo \cup written = written
      BY <1>1
    <3> QED
      BY <1>1, <2>1, <2>3, <3>1 DEF CleanInv
  <2>4. CASE pPc \in {"undo", "staleDirs"}
    BY <1>1, <2>1, <2>4 DEF CleanInv
  <2>5. CASE pPc \in {"remove", "removeDirs"}
    BY <1>1, <2>1, <2>5 DEF CleanInv
  <2> QED
    BY <1>1, <2>2, <2>3, <2>4, <2>5
<1> QED
  BY <1>3, <1>4, <1>5, <1>6

\* A job begins.
LEMMA BeginFacts ==
  ASSUME PrefixInv, NEW j \in Prefix!Job, Prefix!Begin(j)
  PROVE  /\ pPc = "idle" /\ pJob' = j /\ pOutcome' = "none" /\ pFaults' = 0 /\ skipped' = FALSE
         /\ pBefore'.disk = disk /\ pBefore'.dirs = dirs /\ pBefore'.manifest = manifest
         /\ pBefore' \in [disk: [Files -> Prefix!Content], dirs: SUBSET Dirs,
                          manifest: Prefix!Manifest \cup {None}]
         /\ pFaults' \in 0..PrefixFaults
         /\ UNCHANGED <<disk, dirs, manifest, written, created>>
         /\ written = {} /\ created = {} /\ Prefix!Listed' = Prefix!Listed
         /\ Prefix!ListDirs' = Prefix!ListDirs
<1>1. /\ pPc = "idle" /\ pJob' = j /\ pOutcome' = "none" /\ pFaults' = 0 /\ skipped' = FALSE
      /\ pBefore' = [disk |-> disk, dirs |-> dirs, manifest |-> manifest]
      /\ UNCHANGED <<disk, dirs, manifest, written, created>>
  BY DEF Prefix!Begin, Prefix!fsVars
<1>2. /\ pBefore'.disk = disk /\ pBefore'.dirs = dirs /\ pBefore'.manifest = manifest
      /\ pBefore' \in [disk: [Files -> Prefix!Content], dirs: SUBSET Dirs,
                       manifest: Prefix!Manifest \cup {None}]
  BY <1>1 DEF PrefixInv, PrefixTypes
<1>3. pFaults' \in 0..PrefixFaults
  BY <1>1, InstallsAssumption DEF Prefix!PrefixAssumption
<1>4. written = {} /\ created = {}
  BY <1>1 DEF PrefixInv, Phases
<1>5. Prefix!Listed' = Prefix!Listed /\ Prefix!ListDirs' = Prefix!ListDirs
  BY <1>1 DEF Prefix!Listed, Prefix!ListDirs
<1> QED
  BY <1>1, <1>2, <1>3, <1>4, <1>5, Zenon

\* An install begins with all that its release ships to be copied.
LEMMA PrefixBeginInstall ==
  ASSUME PrefixInv, NEW v \in Versions, Prefix!BeginInstall(v) PROVE PrefixInv'
<1> USE DEF PrefixInv
<1>1. PICK j \in [type: {"install"}, ver: Versions] : Prefix!Begin(j) /\ j.ver = v
  <2>1. [type |-> "install", ver |-> v].ver = v
    OBVIOUS
  <2> QED
    BY <2>1, JobFacts DEF Prefix!BeginInstall
<1>2. j \in Prefix!Job /\ j.type = "install"
  BY JobFacts
<1>3. /\ pPc = "idle" /\ pJob' = j /\ pOutcome' = "none" /\ pFaults' = 0 /\ skipped' = FALSE
      /\ pBefore'.disk = disk /\ pBefore'.dirs = dirs /\ pBefore'.manifest = manifest
      /\ pBefore' \in [disk: [Files -> Prefix!Content], dirs: SUBSET Dirs,
                       manifest: Prefix!Manifest \cup {None}]
      /\ pFaults' \in 0..PrefixFaults
      /\ UNCHANGED <<disk, dirs, manifest, written, created>>
      /\ written = {} /\ created = {} /\ Prefix!Listed' = Prefix!Listed
      /\ Prefix!ListDirs' = Prefix!ListDirs
  BY <1>1, <1>2, BeginFacts
<1>4. /\ pPc' = "copy" /\ todo' = Ships[v]
      /\ \/ /\ manifest = None /\ base' = [disk |-> disk, dirs |-> dirs]
            /\ tainted' = FALSE /\ updated' = FALSE
         \/ manifest # None /\ updated' = TRUE /\ UNCHANGED <<base, tainted>>
  BY DEF Prefix!BeginInstall, Prefix!Enter
<1>5. PrefixTypes'
  <2>1. /\ base' \in [disk: [Files -> Prefix!Content], dirs: SUBSET Dirs]
        /\ Housed(base'.disk, base'.dirs)
    BY <1>4 DEF PrefixTypes
  <2>2. tainted' \in BOOLEAN /\ updated' \in BOOLEAN /\ skipped' \in BOOLEAN
    BY <1>3, <1>4, Zenon DEF PrefixTypes
  <2>3. pPc' \in Prefix!PC /\ pJob' \in Prefix!Job /\ pOutcome' \in {"none", "ok", "error", "crash"}
    BY <1>2, <1>3, <1>4 DEF Prefix!PC
  <2>4. Housed(pBefore'.disk, pBefore'.dirs)
    BY <1>3, Zenon DEF PrefixTypes
  <2> QED
    BY <1>3, <2>1, <2>2, <2>3, <2>4, Zenon DEF PrefixTypes
<1>6. Phases'
  BY <1>1, <1>2, <1>3, <1>4 DEF Phases, Installing, Removing
<1>7. FirstInv'
  <2>1. KnownFiles(disk, disk, {}) /\ Explained(disk, dirs, disk, dirs, {})
    BY NothingTouched
  <2>2. Undoable(written, created)'
    BY <1>3, <2>1 DEF Undoable
  <2> QED
    BY <1>3, <1>4, <2>2 DEF FirstInv
<1>8. CleanInv'
  <2>1. ASSUME ~tainted' PROVE Foreigners(Prefix!Listed \cup written, created)'
    <3>1. CASE manifest = None /\ base' = [disk |-> disk, dirs |-> dirs]
      <4>1. base'.disk = disk /\ base'.dirs = dirs /\ Prefix!Listed = {}
        BY <3>1 DEF Prefix!Listed
      <4>2. KnownFiles(disk, disk, {}) /\ Explained(disk, dirs, disk, dirs, {})
        BY NothingTouched
      <4> QED
        BY <1>3, <4>1, <4>2 DEF Foreigners
    <3>2. CASE manifest # None /\ updated' = TRUE /\ UNCHANGED <<base, tainted>>
      <4>1. Foreigners(Prefix!Listed, Prefix!ListDirs)
        BY <1>3, <2>1, <3>2 DEF CleanInv
      <4>2. Prefix!Listed' \cup written' = Prefix!Listed
        BY <1>3
      <4> QED
        BY <1>3, <3>2, <4>1, <4>2 DEF Foreigners
    <3> QED
      BY <1>4, <3>1, <3>2
  <2> QED
    BY <1>4, <2>1 DEF CleanInv
<1> QED
  BY <1>5, <1>6, <1>7, <1>8

\* An uninstall begins with all that the manifest lists to be removed.
LEMMA PrefixBeginUninstall == ASSUME PrefixInv, Prefix!BeginUninstall PROVE PrefixInv'
<1> USE DEF PrefixInv
<1>1. PICK j \in Prefix!Job : Prefix!Begin(j) /\ j = [type |-> "uninstall"]
  BY JobFacts DEF Prefix!BeginUninstall
<1>2. /\ pPc = "idle" /\ pJob' = j /\ pOutcome' = "none" /\ pFaults' = 0 /\ skipped' = FALSE
      /\ pBefore'.disk = disk /\ pBefore'.dirs = dirs /\ pBefore'.manifest = manifest
      /\ pBefore' \in [disk: [Files -> Prefix!Content], dirs: SUBSET Dirs,
                       manifest: Prefix!Manifest \cup {None}]
      /\ pFaults' \in 0..PrefixFaults
      /\ UNCHANGED <<disk, dirs, manifest, written, created>>
      /\ written = {} /\ created = {} /\ Prefix!Listed' = Prefix!Listed
      /\ Prefix!ListDirs' = Prefix!ListDirs
  BY <1>1, BeginFacts
<1>3. pPc' = "remove" /\ todo' = Prefix!Listed /\ UNCHANGED <<base, tainted, updated>>
  BY DEF Prefix!BeginUninstall, Prefix!Enter
<1>4. PrefixTypes'
  <2>1. pPc' \in Prefix!PC /\ pJob' \in Prefix!Job /\ pOutcome' \in {"none", "ok", "error", "crash"}
    BY <1>1, <1>2, <1>3 DEF Prefix!PC
  <2>2. skipped' \in BOOLEAN /\ Housed(pBefore'.disk, pBefore'.dirs)
    BY <1>2, Zenon DEF PrefixTypes
  <2> QED
    BY <1>2, <1>3, <2>1, <2>2, Zenon DEF PrefixTypes
<1>5. Phases'
  BY <1>1, <1>2, <1>3 DEF Phases, Installing, Removing
<1>6. FirstInv'
  BY <1>2, <1>3 DEF FirstInv
<1>7. CleanInv'
  BY <1>2, <1>3 DEF CleanInv, Foreigners
<1> QED
  BY <1>4, <1>5, <1>6, <1>7

\* A file is copied, or its copying fails with the old one removed or not.
LEMMA CopyFacts ==
  ASSUME PrefixInv, NEW f \in todo, pPc = "copy", NEW c \in Prefix!Content,
         NEW d, d = [disk EXCEPT ![f] = c]
  PROVE  /\ f \in Files /\ f \in Ships[pJob.ver] /\ f \notin written /\ HomeOf[f] \in Dirs
         /\ d \in [Files -> Prefix!Content] /\ Housed(d, dirs \cup {HomeOf[f]})
         /\ d[f] = c /\ \A g \in Files : g # f => d[g] = disk[g]
         /\ \A S, w : KnownFiles(disk, w, S) => KnownFiles(d, w, S \cup {f})
         /\ \A L, w, wds : Explained(disk, dirs, w, wds, L) =>
              Explained(d, dirs \cup {HomeOf[f]}, w, wds, L \cup ({HomeOf[f]} \ dirs))
<1> USE DEF PrefixInv
<1>1. pJob.ver \in Versions
  BY JobFacts DEF Phases, Installing
<1>2. f \in Files /\ f \in Ships[pJob.ver] /\ f \notin written
  BY <1>1, PrefixConstants DEF Phases
<1>3. HomeOf[f] \in Dirs
  BY <1>2, PrefixConstants
<1>4. d \in [Files -> Prefix!Content] /\ Housed(d, dirs \cup {HomeOf[f]})
  BY <1>2, HousedStill DEF PrefixTypes
<1>5. d[f] = c /\ \A g \in Files : g # f => d[g] = disk[g]
  BY <1>2 DEF PrefixTypes
<1>6. \A S, w : KnownFiles(disk, w, S) => KnownFiles(d, w, S \cup {f})
  BY <1>2, KnownWith DEF PrefixTypes
<1>7. \A L, w, wds : Explained(disk, dirs, w, wds, L) =>
        Explained(d, dirs \cup {HomeOf[f]}, w, wds, L \cup ({HomeOf[f]} \ dirs))
  BY <1>2, ExplainedWith DEF PrefixTypes
<1> QED
  BY <1>2, <1>3, <1>4, <1>5, <1>6, <1>7, Zenon

\* One file is copied (copyEntry).
LEMMA CopyStep == ASSUME PrefixInv, Prefix!Copy PROVE PrefixInv'
<1> USE DEF PrefixInv
<1>1. PICK f \in todo :
        /\ pPc = "copy"
        /\ created' = created \cup ({HomeOf[f]} \ dirs) /\ dirs' = dirs \cup {HomeOf[f]}
        /\ disk' = [disk EXCEPT ![f] = pJob.ver]
        /\ written' = written \cup {f} /\ todo' = todo \ {f}
        /\ UNCHANGED <<manifest, pPc, pJob, pOutcome, pBefore, base, tainted, updated, pFaults,
                       skipped>>
  BY DEF Prefix!Copy, Prefix!history
<1>2. pJob.ver \in Versions /\ pJob.ver \in Prefix!Content /\ pJob.ver # None
  BY <1>1, JobFacts, PrefixConstants DEF Phases, Installing
<1>3. /\ f \in Files /\ f \in Ships[pJob.ver] /\ f \notin written /\ HomeOf[f] \in Dirs
      /\ disk' \in [Files -> Prefix!Content] /\ Housed(disk', dirs')
      /\ disk'[f] = pJob.ver /\ \A g \in Files : g # f => disk'[g] = disk[g]
      /\ \A S, w : KnownFiles(disk, w, S) => KnownFiles(disk', w, S \cup {f})
      /\ \A L, w, wds : Explained(disk, dirs, w, wds, L) =>
           Explained(disk', dirs', w, wds, L \cup ({HomeOf[f]} \ dirs))
  <2> DEFINE D == [disk EXCEPT ![f] = pJob.ver]
  <2>1. f \in todo /\ pPc = "copy" /\ dirs' = dirs \cup {HomeOf[f]} /\ disk' = D
    BY <1>1, <1>2
  <2>2. /\ f \in Files /\ f \in Ships[pJob.ver] /\ f \notin written /\ HomeOf[f] \in Dirs
        /\ D \in [Files -> Prefix!Content] /\ Housed(D, dirs \cup {HomeOf[f]})
        /\ D[f] = pJob.ver /\ \A g \in Files : g # f => D[g] = disk[g]
        /\ \A S, w : KnownFiles(disk, w, S) => KnownFiles(D, w, S \cup {f})
        /\ \A L, w, wds : Explained(disk, dirs, w, wds, L) =>
             Explained(D, dirs \cup {HomeOf[f]}, w, wds, L \cup ({HomeOf[f]} \ dirs))
    BY <2>1, <1>2, CopyFacts, Zenon
  <2> HIDE DEF D
  <2> QED
    BY <2>1, <2>2, Zenon
<1>4. PrefixTypes'
  <2>1. dirs' \in SUBSET Dirs /\ created' \in SUBSET Dirs /\ written' \in SUBSET Files
    BY <1>1, <1>3 DEF PrefixTypes
  <2> QED
    BY <1>1, <1>3, <2>1, Zenon DEF PrefixTypes
<1>5. Phases'
  BY <1>1, <1>2, <1>3 DEF Phases, Installing, Removing, PrefixTypes
<1>6. FirstInv'
  <2>1. Undoable(written, created) => Undoable(written, created)'
    BY <1>1, <1>3 DEF Undoable
  <2> QED
    BY <1>1, <2>1 DEF FirstInv, Phases
<1>7. CleanInv'
  <2>1. /\ Prefix!Listed' = Prefix!Listed
        /\ (Prefix!Listed \cup written) \cup {f} = Prefix!Listed' \cup written'
    BY <1>1 DEF Prefix!Listed
  <2>2. Foreigners(Prefix!Listed \cup written, created) =>
           Foreigners(Prefix!Listed \cup written, created)'
    BY <1>1, <1>3, <2>1 DEF Foreigners
  <2> QED
    BY <1>1, <2>2 DEF CleanInv
<1> QED
  BY <1>4, <1>5, <1>6, <1>7

\* Its copying fails and the install turns to its catch.
LEMMA CopyFailsStep == ASSUME PrefixInv, Prefix!CopyFails PROVE PrefixInv'
<1> USE DEF PrefixInv
<1>1. PICK f \in todo :
        /\ pPc = "copy" /\ Prefix!Fault
        /\ created' = created \cup ({HomeOf[f]} \ dirs) /\ dirs' = dirs \cup {HomeOf[f]}
        /\ disk' \in {disk, [disk EXCEPT ![f] = None]}
        /\ pPc' = "undo" /\ todo' = written
        /\ UNCHANGED <<manifest, pJob, written, pOutcome, pBefore, base, tainted, updated, skipped>>
  BY DEF Prefix!CopyFails, Prefix!Enter
<1>2. PICK c \in Prefix!Content : disk' = [disk EXCEPT ![f] = c] /\ c \in {None, disk[f]}
  <2>1. f \in Files /\ disk[f] \in Prefix!Content
    BY <1>1, CopyFacts, PrefixConstants DEF PrefixTypes
  <2>2. disk = [disk EXCEPT ![f] = disk[f]]
    BY <2>1 DEF PrefixTypes
  <2> QED
    BY <1>1, <2>1, <2>2, PrefixConstants
<1>3. /\ f \in Files /\ f \in Ships[pJob.ver] /\ f \notin written /\ HomeOf[f] \in Dirs
      /\ disk' \in [Files -> Prefix!Content] /\ Housed(disk', dirs')
      /\ disk'[f] = c /\ \A g \in Files : g # f => disk'[g] = disk[g]
      /\ \A L, w, wds : Explained(disk, dirs, w, wds, L) =>
           Explained(disk', dirs', w, wds, L \cup ({HomeOf[f]} \ dirs))
  <2> DEFINE D == [disk EXCEPT ![f] = c]
  <2>1. f \in todo /\ pPc = "copy" /\ dirs' = dirs \cup {HomeOf[f]} /\ disk' = D
    BY <1>1, <1>2
  <2>2. /\ f \in Files /\ f \in Ships[pJob.ver] /\ f \notin written /\ HomeOf[f] \in Dirs
        /\ D \in [Files -> Prefix!Content] /\ Housed(D, dirs \cup {HomeOf[f]})
        /\ D[f] = c /\ \A g \in Files : g # f => D[g] = disk[g]
        /\ \A S, w : KnownFiles(disk, w, S) => KnownFiles(D, w, S \cup {f})
        /\ \A L, w, wds : Explained(disk, dirs, w, wds, L) =>
             Explained(D, dirs \cup {HomeOf[f]}, w, wds, L \cup ({HomeOf[f]} \ dirs))
    BY <2>1, <1>2, CopyFacts, Zenon
  <2> HIDE DEF D
  <2> QED
    BY <2>1, <2>2, Zenon
<1>4. pFaults' \in 0..PrefixFaults /\ pFaults' # 0
  BY <1>1, Faulted
<1>5. PrefixTypes'
  <2>1. dirs' \in SUBSET Dirs /\ created' \in SUBSET Dirs /\ pPc' \in Prefix!PC
    BY <1>1, <1>3 DEF PrefixTypes, Prefix!PC
  <2> QED
    BY <1>1, <1>3, <1>4, <2>1, Zenon DEF PrefixTypes
<1>6. Phases'
  BY <1>1, <1>3 DEF Phases, Installing, Removing
<1>7. FirstInv'
  <2>1. \A w, S : KnownFiles(disk, w, S) => KnownFiles(disk', w, S)
    BY <1>2, <1>3 DEF KnownFiles
  <2>2. Undoable(written, created) => Undoable(todo, created)'
    BY <1>1, <1>3, <2>1 DEF Undoable
  <2> QED
    BY <1>1, <2>2 DEF FirstInv, Phases
<1>8. CleanInv'
  BY <1>1, <1>4 DEF CleanInv
<1> QED
  BY <1>5, <1>6, <1>7, <1>8

\* A cancel does the same.
LEMMA GiveUpStep == ASSUME PrefixInv, Prefix!GiveUp PROVE PrefixInv'
<1> USE DEF PrefixInv
<1>1. /\ pPc = "copy" /\ pPc' = "undo" /\ todo' = written
      /\ UNCHANGED <<disk, dirs, manifest, pJob, written, created, pOutcome,
                     pBefore, base, tainted, updated, pFaults, skipped>>
  BY DEF Prefix!GiveUp, Prefix!Enter, Prefix!fsVars, Prefix!history
<1>2. PrefixTypes'
  <2>1. pPc' \in Prefix!PC
    BY <1>1 DEF Prefix!PC
  <2> QED
    BY <1>1, <2>1, Zenon DEF PrefixTypes
<1>3. Phases'
  BY <1>1 DEF Phases, Installing, Removing
<1>4. FirstInv'
  <2>1. Undoable(written, created) => Undoable(todo, created)'
    BY <1>1 DEF Undoable
  <2> QED
    BY <1>1, <2>1 DEF FirstInv, Phases
<1>5. CleanInv'
  BY <1>1 DEF CleanInv
<1> QED
  BY <1>2, <1>3, <1>4, <1>5

\* How a job ends.
LEMMA EndFacts ==
  ASSUME PrefixInv, NEW o \in {"ok", "error", "crash"}, Prefix!End(o)
  PROVE  /\ pPc' = "idle" /\ pOutcome' = o /\ todo' = {} /\ written' = {} /\ created' = {}
         /\ tainted' \in BOOLEAN
         /\ ~tainted' => ~tainted /\ o = "ok" /\ pFaults = 0
         /\ UNCHANGED <<pJob, pBefore, base, updated, skipped>>
         /\ pPc' \in Prefix!PC
<1>1. /\ pPc' = "idle" /\ pOutcome' = o /\ todo' = {} /\ written' = {} /\ created' = {}
      /\ UNCHANGED <<pJob, pBefore, base, updated, skipped>>
  BY DEF Prefix!End
<1>2. tainted' = (tainted \/ o # "ok" \/ pFaults > 0)
  BY Zenon DEF Prefix!End
<1>3. pFaults \in 0..PrefixFaults /\ PrefixFaults \in Nat
  BY InstallsAssumption DEF PrefixInv, PrefixTypes, Prefix!PrefixAssumption
<1>4. (pFaults > 0) \in BOOLEAN /\ (~(pFaults > 0) => pFaults = 0)
  BY <1>3
<1>5. tainted' \in BOOLEAN
  BY <1>2, Zenon
<1>6. ~tainted' => ~tainted /\ o = "ok" /\ pFaults = 0
  BY <1>2, <1>4, Zenon
<1>7. pPc' \in Prefix!PC
  BY <1>1 DEF Prefix!PC
<1> QED
  BY <1>1, <1>5, <1>6, <1>7, Zenon

\* Undo has come to its end.
LEMMA UndoneStep ==
  ASSUME PrefixInv, pPc = "undoDirs", todo = {}, Prefix!End("error"),
         UNCHANGED <<Prefix!fsVars, pFaults>>
  PROVE  PrefixInv'
<1> USE DEF PrefixInv
<1>1. /\ pPc' = "idle" /\ pOutcome' = "error" /\ todo' = {} /\ written' = {} /\ created' = {}
      /\ tainted' \in BOOLEAN /\ tainted'
      /\ UNCHANGED <<pJob, pBefore, base, updated, skipped>> /\ pPc' \in Prefix!PC
  BY EndFacts
<1>2. UNCHANGED <<disk, dirs, manifest, pFaults>>
  BY DEF Prefix!fsVars
<1>3. PrefixTypes'
  BY <1>1, <1>2 DEF PrefixTypes
<1>4. Phases'
  BY <1>1, <1>2, JobFacts DEF Phases, Installing, Removing
<1>5. FirstInv'
  <2>1. Undoable({}, todo) => Undoable({}, {})'
    BY <1>1, <1>2 DEF Undoable
  <2> QED
    BY <1>1, <1>2, <2>1 DEF FirstInv, Phases
<1>6. CleanInv'
  BY <1>1 DEF CleanInv
<1> QED
  BY <1>3, <1>4, <1>5, <1>6

\* The catch: files go, then the directories noted for them.
LEMMA UndoStep == ASSUME PrefixInv, Prefix!Undo PROVE PrefixInv'
<1>1. CASE Prefix!RemoveFile("undo")
  BY <1>1, RemoveFileStep
<1>2. CASE Prefix!EndLoop("undo", "undoDirs", created)
  BY <1>2, EndLoopStep
<1>3. CASE Prefix!RemoveDir("undoDirs")
  BY <1>3, RemoveDirStep
<1>4. CASE /\ pPc = "undoDirs" /\ todo = {} /\ Prefix!End("error")
           /\ UNCHANGED <<Prefix!fsVars, pFaults>>
  BY <1>4, UndoneStep
<1> QED
  BY <1>1, <1>2, <1>3, <1>4 DEF Prefix!Undo

\* What the manifest lists beyond the new version goes.
LEMMA DropStaleStep == ASSUME PrefixInv, Prefix!DropStale PROVE PrefixInv'
<1>1. CASE Prefix!EndLoop("copy", "stale", Prefix!Listed \ written)
  BY <1>1, EndLoopStep
<1>2. CASE Prefix!RemoveFile("stale")
  BY <1>2, RemoveFileStep
<1>3. CASE Prefix!EndLoop("stale", "staleDirs", Prefix!ListDirs)
  BY <1>3, EndLoopStep
<1>4. CASE Prefix!RemoveDir("staleDirs")
  BY <1>4, RemoveDirStep
<1>5. CASE Prefix!EndLoop("staleDirs", "manifest", {})
  BY <1>5, EndLoopStep
<1> QED
  BY <1>1, <1>2, <1>3, <1>4, <1>5 DEF Prefix!DropStale

\* The loops of an uninstall.
LEMMA RemoveStep == ASSUME PrefixInv, Prefix!Remove PROVE PrefixInv'
<1>1. CASE Prefix!RemoveFile("remove")
  BY <1>1, RemoveFileStep
<1>2. CASE Prefix!EndLoop("remove", "removeDirs", Prefix!ListDirs)
  BY <1>2, EndLoopStep
<1>3. CASE Prefix!RemoveDir("removeDirs")
  BY <1>3, RemoveDirStep
<1>4. CASE Prefix!EndLoop("removeDirs", "removeManifest", {})
  BY <1>4, EndLoopStep
<1> QED
  BY <1>1, <1>2, <1>3, <1>4 DEF Prefix!Remove

\* The manifest takes over from what the job knew, or the job fails with its files
\* in place.
LEMMA PrefixWriteManifest == ASSUME PrefixInv, Prefix!WriteManifest PROVE PrefixInv'
<1> USE DEF PrefixInv
<1>1. pPc = "manifest" /\ UNCHANGED <<disk, dirs>>
  BY DEF Prefix!WriteManifest
<1>2. CASE /\ manifest' = [files |-> written, dirs |-> created] /\ Prefix!End("ok")
           /\ UNCHANGED pFaults
  <2>1. /\ pPc' = "idle" /\ pOutcome' = "ok" /\ todo' = {} /\ written' = {} /\ created' = {}
        /\ tainted' \in BOOLEAN /\ (~tainted' => ~tainted /\ pFaults = 0)
        /\ UNCHANGED <<pJob, pBefore, base, updated, skipped>> /\ pPc' \in Prefix!PC
    BY <1>2, EndFacts
  <2>2. manifest' \in Prefix!Manifest /\ manifest'.files = written /\ manifest'.dirs = created
    BY <1>2 DEF Prefix!Manifest, PrefixTypes
  <2>3. manifest' # None => Prefix!Listed' = written /\ Prefix!ListDirs' = created
    BY <2>2 DEF Prefix!Listed, Prefix!ListDirs
  <2>4. pJob \in Prefix!Job /\ pJob.type = "install"
    BY <1>1, JobFacts DEF Phases, Installing
  <2>5. PrefixTypes'
    BY <1>1, <1>2, <2>1, <2>2, Zenon DEF PrefixTypes
  <2>6. Phases'
    BY <2>1, <2>4 DEF Phases, Installing, Removing
  <2>7. FirstInv'
    BY <2>1 DEF FirstInv
  <2>8. CleanInv'
    BY <1>1, <2>1, <2>3, <2>2, PrefixConstants DEF CleanInv, Foreigners
  <2> QED
    BY <2>5, <2>6, <2>7, <2>8
<1>3. CASE Prefix!Fault /\ Prefix!End("error") /\ UNCHANGED manifest
  <2>1. /\ pPc' = "idle" /\ pOutcome' = "error" /\ todo' = {} /\ written' = {} /\ created' = {}
        /\ tainted' \in BOOLEAN /\ tainted'
        /\ UNCHANGED <<pJob, pBefore, base, updated, skipped>> /\ pPc' \in Prefix!PC
    BY <1>3, EndFacts
  <2>2. pFaults' \in 0..PrefixFaults
    BY <1>3, Faulted
  <2>3. PrefixTypes'
    BY <1>1, <1>3, <2>1, <2>2, Zenon DEF PrefixTypes
  <2>4. Phases'
    BY <1>1, <2>1, JobFacts DEF Phases, Installing, Removing
  <2>5. FirstInv'
    BY <1>1, <1>3, <2>1 DEF FirstInv, Phases
  <2>6. CleanInv'
    BY <2>1 DEF CleanInv
  <2> QED
    BY <2>3, <2>4, <2>5, <2>6
<1> QED
  BY <1>2, <1>3 DEF Prefix!WriteManifest

\* The install directory goes, in part perhaps.
LEMMA RemoveManifestStep == ASSUME PrefixInv, Prefix!RemoveManifest PROVE PrefixInv'
<1> USE DEF PrefixInv
<1>1. pPc = "removeManifest" /\ UNCHANGED <<disk, dirs>>
  BY DEF Prefix!RemoveManifest
<1>2. pJob \in Prefix!Job /\ pJob.type = "uninstall"
  BY <1>1, JobFacts DEF Phases, Removing
<1>3. CASE manifest' = None /\ Prefix!End("ok") /\ UNCHANGED pFaults
  <2>1. /\ pPc' = "idle" /\ pOutcome' = "ok" /\ todo' = {} /\ written' = {} /\ created' = {}
        /\ tainted' \in BOOLEAN /\ (~tainted' => ~tainted /\ pFaults = 0)
        /\ UNCHANGED <<pJob, pBefore, base, updated, skipped>> /\ pPc' \in Prefix!PC
    BY <1>3, EndFacts
  <2>2. Prefix!Listed' = {} /\ Prefix!ListDirs' = {}
    BY <1>3 DEF Prefix!Listed, Prefix!ListDirs
  <2>3. PrefixTypes'
    BY <1>1, <1>3, <2>1, Zenon DEF PrefixTypes
  <2>4. Phases'
    BY <1>2, <1>3, <2>1 DEF Phases, Installing, Removing
  <2>5. FirstInv'
    BY <2>1 DEF FirstInv
  <2>6. CleanInv'
    BY <1>1, <2>1, <2>2 DEF CleanInv, Foreigners
  <2> QED
    BY <2>3, <2>4, <2>5, <2>6
<1>4. CASE Prefix!Fault /\ Prefix!End("error") /\ manifest' \in {manifest, None}
  <2>1. /\ pPc' = "idle" /\ pOutcome' = "error" /\ todo' = {} /\ written' = {} /\ created' = {}
        /\ tainted' \in BOOLEAN /\ tainted'
        /\ UNCHANGED <<pJob, pBefore, base, updated, skipped>> /\ pPc' \in Prefix!PC
    BY <1>4, EndFacts
  <2>2. pFaults' \in 0..PrefixFaults /\ manifest' \in Prefix!Manifest \cup {None}
    BY <1>4, Faulted DEF PrefixTypes
  <2>3. PrefixTypes'
    BY <1>1, <2>1, <2>2, Zenon DEF PrefixTypes
  <2>4. Phases'
    BY <1>2, <2>1 DEF Phases, Installing, Removing
  <2>5. FirstInv'
    BY <1>2, <2>1 DEF FirstInv
  <2>6. CleanInv'
    BY <2>1 DEF CleanInv
  <2> QED
    BY <2>3, <2>4, <2>5, <2>6
<1> QED
  BY <1>3, <1>4 DEF Prefix!RemoveManifest

\* The user puts a file of their own into the prefix, in the middle of anything.
LEMMA UserPutsStep == ASSUME PrefixInv, Prefix!UserPuts PROVE PrefixInv'
<1> USE DEF PrefixInv
<1>1. PICK f \in Files :
        /\ disk[f] = None
        /\ disk' = [disk EXCEPT ![f] = Foreign] /\ dirs' = dirs \cup {HomeOf[f]}
        /\ pBefore' = [pBefore EXCEPT !.disk[f] = Foreign, !.dirs = @ \cup {HomeOf[f]}]
        /\ base' = [base EXCEPT !.disk[f] = Foreign, !.dirs = @ \cup {HomeOf[f]}]
        /\ UNCHANGED <<manifest, pPc, pJob, todo, written, created, pOutcome,
                       tainted, updated, pFaults, skipped>>
  BY DEF Prefix!UserPuts, Prefix!jobVars
<1>2. HomeOf[f] \in Dirs /\ Foreign \in Prefix!Content /\ Foreign # None
  BY PrefixConstants
<1>3. /\ pBefore'.disk = [pBefore.disk EXCEPT ![f] = Foreign]
      /\ pBefore'.dirs = pBefore.dirs \cup {HomeOf[f]} /\ pBefore'.manifest = pBefore.manifest
      /\ pBefore' \in [disk: [Files -> Prefix!Content], dirs: SUBSET Dirs,
                       manifest: Prefix!Manifest \cup {None}]
  <2>1. pBefore \in [disk: [Files -> Prefix!Content], dirs: SUBSET Dirs,
                     manifest: Prefix!Manifest \cup {None}]
    BY DEF PrefixTypes
  <2> QED
    BY <1>1, <1>2, <2>1
<1>4. /\ base'.disk = [base.disk EXCEPT ![f] = Foreign]
      /\ base'.dirs = base.dirs \cup {HomeOf[f]}
      /\ base' \in [disk: [Files -> Prefix!Content], dirs: SUBSET Dirs]
  <2>1. base \in [disk: [Files -> Prefix!Content], dirs: SUBSET Dirs]
    BY DEF PrefixTypes
  <2> QED
    BY <1>1, <1>2, <2>1
<1>5. PrefixTypes'
  <2>1. \A d \in [Files -> Prefix!Content] : \A ds : Housed(d, ds) =>
          Housed([d EXCEPT ![f] = Foreign], ds \cup {HomeOf[f]})
    BY HousedStill
  <2>2. /\ Housed(disk', dirs') /\ Housed(pBefore'.disk, pBefore'.dirs)
        /\ Housed(base'.disk, base'.dirs)
    BY <1>1, <1>3, <1>4, <2>1, TypeFacts DEF PrefixTypes
  <2>3. disk' \in [Files -> Prefix!Content] /\ dirs' \in SUBSET Dirs
    BY <1>1, <1>2 DEF PrefixTypes
  <2> QED
    BY <1>1, <1>3, <1>4, <2>2, <2>3, Zenon DEF PrefixTypes
<1>6. /\ disk'[f] # None /\ \A g \in Files : g # f => disk'[g] = disk[g]
      /\ Prefix!Listed' = Prefix!Listed /\ Prefix!ListDirs' = Prefix!ListDirs
  BY <1>1, <1>2 DEF PrefixTypes, Prefix!Listed, Prefix!ListDirs
<1>7. Phases'
  BY <1>1, <1>3, <1>6 DEF Phases, Installing, Removing, PrefixTypes
<1>8. \A S : \A w \in [Files -> Prefix!Content] :
        KnownFiles(disk, w, S) => KnownFiles(disk', [w EXCEPT ![f] = Foreign], S)
  BY <1>1, KnownPut DEF PrefixTypes
<1>9. \A L, wds : \A w \in [Files -> Prefix!Content] :
        Explained(disk, dirs, w, wds, L) =>
          Explained(disk', dirs', [w EXCEPT ![f] = Foreign], wds \cup {HomeOf[f]}, L)
  BY <1>1, <1>2, ExplainedPut DEF PrefixTypes
<1>10. FirstInv'
  <2>1. pBefore'.disk[f] = Foreign /\ disk'[f] = Foreign
        /\ \A g \in Files : g # f => pBefore'.disk[g] = pBefore.disk[g]
    BY <1>1, <1>3, TypeFacts DEF PrefixTypes
  <2>2. (\A g \in Files \ Ships[pJob.ver] : disk[g] = pBefore.disk[g])
          => \A g \in Files \ Ships[pJob.ver] : disk'[g] = pBefore'.disk[g]
    BY <1>6, <2>1
  <2>3. \A S : KnownFiles(disk, pBefore.disk, S) => KnownFiles(disk', pBefore'.disk, S)
    BY <1>3, <1>8, TypeFacts
  <2>4. \A L : Explained(disk, dirs, pBefore.disk, pBefore.dirs, L)
                 => Explained(disk', dirs', pBefore'.disk, pBefore'.dirs, L)
    BY <1>3, <1>9, TypeFacts
  <2>5. /\ Undoable(written, created) => Undoable(written, created)'
        /\ Undoable(todo, created) => Undoable(todo, created)'
        /\ Undoable({}, todo) => Undoable({}, todo)'
        /\ Undoable({}, {}) => Undoable({}, {})'
    BY <1>1, <2>2, <2>3, <2>4 DEF Undoable
  <2>6. (\A g \in Ships[pJob.ver] : disk[g] # None) /\ pJob.ver \in Versions
          => \A g \in Ships[pJob.ver] : disk'[g] # None
    BY <1>6, PrefixConstants
  <2>7. pOutcome = "error" /\ pJob.type = "install" => pJob.ver \in Versions
    BY DEF Phases, Prefix!Job
  <2> QED
    BY <1>1, <1>3, <2>5, <2>6, <2>7 DEF FirstInv
<1>11. CleanInv'
  <2>1. \A S : KnownFiles(disk, base.disk, S) => KnownFiles(disk', base'.disk, S)
    BY <1>4, <1>8, TypeFacts
  <2>2. \A L : Explained(disk, dirs, base.disk, base.dirs, L)
                 => Explained(disk', dirs', base'.disk, base'.dirs, L)
    BY <1>4, <1>9, TypeFacts
  <2>3. /\ Foreigners(Prefix!Listed, Prefix!ListDirs) => Foreigners(Prefix!Listed, Prefix!ListDirs)'
        /\ Foreigners(Prefix!Listed \cup written, created) =>
             Foreigners(Prefix!Listed \cup written, created)'
        /\ Foreigners(todo \cup written, created) => Foreigners(todo \cup written, created)'
        /\ Foreigners(written, created) => Foreigners(written, created)'
        /\ Foreigners(todo, Prefix!ListDirs) => Foreigners(todo, Prefix!ListDirs)'
        /\ Foreigners({}, todo) => Foreigners({}, todo)'
        /\ Foreigners({}, {}) => Foreigners({}, {})'
    BY <1>1, <1>6, <2>1, <2>2 DEF Foreigners
  <2> QED
    BY <1>1, <2>3 DEF CleanInv
<1> QED
  BY <1>5, <1>7, <1>10, <1>11

\* The hub dies: it owes nothing then but types.
LEMMA PrefixCrash == ASSUME PrefixInv, Prefix!Crash PROVE PrefixInv'
<1> USE DEF PrefixInv
<1>1. /\ pPc' = "idle" /\ pOutcome' = "crash" /\ todo' = {} /\ written' = {} /\ created' = {}
      /\ tainted' \in BOOLEAN /\ tainted'
      /\ UNCHANGED <<pJob, pBefore, base, updated, skipped>> /\ pPc' \in Prefix!PC
  BY EndFacts DEF Prefix!Crash
<1>2. pPc # "idle" /\ UNCHANGED pFaults
  BY DEF Prefix!Crash
<1>3. /\ disk' \in [Files -> Prefix!Content] /\ dirs' \in SUBSET Dirs /\ Housed(disk', dirs')
      /\ manifest' \in Prefix!Manifest \cup {None}
  <2>1. CASE UNCHANGED Prefix!fsVars
    BY <2>1 DEF Prefix!fsVars, PrefixTypes
  <2>2. CASE \E f \in todo : /\ pPc = "copy" /\ dirs' = dirs \cup {HomeOf[f]}
                            /\ disk' \in {[disk EXCEPT ![f] = c] : c \in {disk[f], None, Partial}}
                            /\ UNCHANGED manifest
    <3>1. PICK f \in todo : \E c \in {disk[f], None, Partial} :
            /\ pPc = "copy" /\ dirs' = dirs \cup {HomeOf[f]} /\ disk' = [disk EXCEPT ![f] = c]
            /\ UNCHANGED manifest
      BY <2>2
    <3>2. f \in Files /\ HomeOf[f] \in Dirs
      BY <3>1, JobFacts, PrefixConstants DEF Phases, Installing
    <3>3. PICK c \in Prefix!Content : disk' = [disk EXCEPT ![f] = c]
      BY <3>1, <3>2, PrefixConstants DEF PrefixTypes
    <3>4. [disk EXCEPT ![f] = c] \in [Files -> Prefix!Content]
          /\ Housed([disk EXCEPT ![f] = c], dirs \cup {HomeOf[f]})
      BY <3>2, <3>3, HousedStill DEF PrefixTypes
    <3>5. dirs' \in SUBSET Dirs
      BY <3>1, <3>2 DEF PrefixTypes
    <3> QED
      BY <3>1, <3>3, <3>4, <3>5, Zenon DEF PrefixTypes
  <2>3. CASE manifest' = None /\ UNCHANGED <<disk, dirs>>
    BY <2>3 DEF PrefixTypes
  <2> QED
    BY <2>1, <2>2, <2>3 DEF Prefix!Crash
<1>4. pJob \in Prefix!Job
  BY <1>2, JobFacts DEF Phases, Installing, Removing, PrefixTypes, Prefix!PC
<1>5. PrefixTypes'
  BY <1>1, <1>2, <1>3, Zenon DEF PrefixTypes
<1>6. Phases'
  BY <1>1, <1>4 DEF Phases, Installing, Removing
<1>7. FirstInv'
  BY <1>1 DEF FirstInv
<1>8. CleanInv'
  BY <1>1 DEF CleanInv
<1> QED
  BY <1>5, <1>6, <1>7, <1>8

\* Every step keeps the invariant.
LEMMA PrefixInvStep == ASSUME PrefixInv, [Prefix!Next]_Prefix!vars PROVE PrefixInv'
<1>1. CASE \E v \in Versions : Prefix!BeginInstall(v)
  BY <1>1, PrefixBeginInstall
<1>2. CASE Prefix!BeginUninstall
  BY <1>2, PrefixBeginUninstall
<1>3. CASE Prefix!Copy \/ Prefix!CopyFails \/ Prefix!GiveUp \/ Prefix!Undo
  BY <1>3, CopyStep, CopyFailsStep, GiveUpStep, UndoStep
<1>4. CASE Prefix!DropStale \/ Prefix!WriteManifest \/ Prefix!Remove \/ Prefix!RemoveManifest
  BY <1>4, DropStaleStep, PrefixWriteManifest, RemoveStep, RemoveManifestStep
<1>5. CASE Prefix!UserPuts \/ Prefix!Crash
  BY <1>5, UserPutsStep, PrefixCrash
<1>6. CASE UNCHANGED Prefix!vars
  <2>1. UNCHANGED <<disk, dirs, manifest, pPc, pJob, todo, written, created, pOutcome,
                    pBefore, base, tainted, updated, pFaults, skipped>>
    BY <1>6 DEF Prefix!vars, Prefix!fsVars, Prefix!jobVars, Prefix!history
  <2>2. PrefixTypes'
    BY <2>1, Zenon DEF PrefixInv, PrefixTypes
  <2>3. Phases'
    BY <2>1 DEF PrefixInv, Phases, Installing, Removing, Prefix!Listed, Prefix!ListDirs
  <2>4. FirstInv'
    BY <2>1 DEF PrefixInv, FirstInv, Undoable
  <2>5. CleanInv'
    BY <2>1 DEF PrefixInv, CleanInv, Foreigners, Prefix!Listed, Prefix!ListDirs
  <2> QED
    BY <2>2, <2>3, <2>4, <2>5 DEF PrefixInv
<1> QED
  BY <1>1, <1>2, <1>3, <1>4, <1>5, <1>6 DEF Prefix!Next

\* What the invariant says of a job that is over.
LEMMA PrefixInvImplies ==
  PrefixInv => Prefix!TypeOK /\ Prefix!FirstInstallRestores /\ Prefix!UninstallIsExact
<1> SUFFICES ASSUME PrefixInv
             PROVE Prefix!TypeOK /\ Prefix!FirstInstallRestores /\ Prefix!UninstallIsExact
  OBVIOUS
<1> USE DEF PrefixInv
<1>1. Prefix!TypeOK
  <2>1. todo \in SUBSET Files \/ todo \in SUBSET Dirs
    BY TypeFacts, JobFacts, PrefixConstants DEF Phases, Installing, Removing, PrefixTypes, Prefix!PC
  <2>2. {tainted, updated, skipped} \subseteq BOOLEAN
    BY Zenon DEF PrefixTypes
  <2>3. todo \in (SUBSET Files) \cup (SUBSET Dirs)
    BY <2>1
  <2> QED
    BY <2>2, <2>3, Zenon DEF Prefix!TypeOK, PrefixTypes, Housed
<1>2. Prefix!FirstInstallRestores
  <2> SUFFICES ASSUME pOutcome = "error", pJob.type = "install", pBefore.manifest = None, ~skipped
               PROVE  /\ manifest = None
                      /\ \/ /\ \A f \in Files : disk[f] = pBefore.disk[f]
                                                 \/ (f \in Ships[pJob.ver] /\ disk[f] = None)
                            /\ Prefix!DirsAreBack(pBefore)
                         \/ \A f \in Ships[pJob.ver] : disk[f] # None
    BY DEF Prefix!FirstInstallRestores
  <2>1. manifest = None /\ (Undoable({}, {}) \/ \A f \in Ships[pJob.ver] : disk[f] # None)
    BY DEF FirstInv
  <2>2. ASSUME Undoable({}, {})
        PROVE  /\ \A f \in Files : disk[f] = pBefore.disk[f]
                                    \/ (f \in Ships[pJob.ver] /\ disk[f] = None)
               /\ Prefix!DirsAreBack(pBefore)
    BY <2>2 DEF Undoable, KnownFiles, Explained, Prefix!DirsAreBack
  <2> QED
    BY <2>1, <2>2
<1>3. Prefix!UninstallIsExact
  <2> SUFFICES ASSUME pOutcome = "ok", pJob.type = "uninstall", ~tainted
               PROVE  /\ \A f \in Files : disk[f] \in {None, base.disk[f]}
                      /\ ~updated => Prefix!DirsAreBack(base)
    BY DEF Prefix!UninstallIsExact
  <2>1. Prefix!Listed = {} /\ Prefix!ListDirs = {} /\ pPc = "idle"
    BY DEF Phases, Prefix!Listed, Prefix!ListDirs
  <2>2. Foreigners({}, {})
    BY <2>1 DEF CleanInv
  <2> QED
    BY <2>2 DEF Foreigners, KnownFiles, Explained, Prefix!DirsAreBack
<1> QED
  BY <1>1, <1>2, <1>3

\* A file of the user's that no release in question has is left alone.
LEMMA ForeignStays ==
  ASSUME PrefixInv, [Prefix!Next]_Prefix!vars,
         NEW f \in Files, disk[f] = Foreign, f \notin Prefix!Listed \cup Prefix!Shipping
  PROVE  disk'[f] = Foreign
<1> USE DEF PrefixInv
<1>1. pPc \in {"copy", "undo", "stale", "remove"} => f \notin todo
  BY JobFacts DEF Phases, Installing, Prefix!Shipping
<1>2. ASSUME NEW loop \in {"undo", "stale", "remove"}, Prefix!RemoveFile(loop)
      PROVE disk'[f] = disk[f]
  BY <1>1, <1>2 DEF Prefix!RemoveFile, PrefixTypes
<1>3. ASSUME NEW loop, Prefix!RemoveDir(loop) PROVE disk'[f] = disk[f]
  BY <1>3 DEF Prefix!RemoveDir
<1>4. ASSUME NEW loop, NEW next, NEW items, Prefix!EndLoop(loop, next, items)
      PROVE disk'[f] = disk[f]
  BY <1>4 DEF Prefix!EndLoop, Prefix!fsVars
<1>5. CASE \E v \in Versions : Prefix!BeginInstall(v)
  BY <1>5 DEF Prefix!BeginInstall, Prefix!Begin, Prefix!fsVars
<1>6. CASE Prefix!BeginUninstall
  BY <1>6 DEF Prefix!BeginUninstall, Prefix!Begin, Prefix!fsVars
<1>7. CASE Prefix!Copy
  BY <1>1, <1>7 DEF Prefix!Copy, PrefixTypes
<1>8. CASE Prefix!CopyFails
  BY <1>1, <1>8 DEF Prefix!CopyFails, PrefixTypes
<1>9. CASE Prefix!GiveUp
  BY <1>9 DEF Prefix!GiveUp, Prefix!fsVars
<1>10. CASE Prefix!Undo
  BY <1>2, <1>3, <1>4, <1>10 DEF Prefix!Undo, Prefix!fsVars
<1>11. CASE Prefix!DropStale
  BY <1>2, <1>3, <1>4, <1>11 DEF Prefix!DropStale
<1>12. CASE Prefix!WriteManifest \/ Prefix!RemoveManifest
  BY <1>12 DEF Prefix!WriteManifest, Prefix!RemoveManifest
<1>13. CASE Prefix!Remove
  BY <1>2, <1>3, <1>4, <1>13 DEF Prefix!Remove
<1>14. CASE Prefix!UserPuts
  BY <1>14 DEF Prefix!UserPuts, PrefixTypes
<1>15. CASE Prefix!Crash
  <2>1. CASE UNCHANGED Prefix!fsVars
    BY <2>1 DEF Prefix!fsVars
  <2>2. CASE \E g \in todo : /\ pPc = "copy" /\ dirs' = dirs \cup {HomeOf[g]}
                            /\ disk' \in {[disk EXCEPT ![g] = c] : c \in {disk[g], None, Partial}}
                            /\ UNCHANGED manifest
    BY <1>1, <2>2 DEF PrefixTypes
  <2>3. CASE UNCHANGED <<disk, dirs>>
    BY <2>3
  <2> QED
    BY <1>15, <2>1, <2>2, <2>3 DEF Prefix!Crash
<1>16. CASE UNCHANGED Prefix!vars
  BY <1>16 DEF Prefix!vars, Prefix!fsVars
<1> QED
  BY <1>5, <1>6, <1>7, <1>8, <1>9, <1>10, <1>11, <1>12, <1>13, <1>14, <1>15, <1>16 DEF Prefix!Next

\* "A shared prefix like ~/.local is never at risk", "Uninstall is exact" (tarball-prefix.js):
\* whatever fails, is cancelled or crashes, and whatever the user puts there meanwhile.  A first
\* install that fails takes its files and directories back; an uninstall after clean installs
\* leaves no file of theirs; a file of the user's that no release in question has is not touched.
THEOREM PrefixAlwaysExact == Prefix!Spec => PrefixIsExact
<1>1. PrefixInv /\ [Prefix!Next]_Prefix!vars =>
        [\A f \in Files : disk[f] = Foreign /\ f \notin Prefix!Listed \cup Prefix!Shipping
                            => disk'[f] = Foreign]_Prefix!vars
  BY ForeignStays
<1>2. Prefix!Spec => [](Prefix!TypeOK /\ Prefix!FirstInstallRestores /\ Prefix!UninstallIsExact)
  BY PrefixInvInit, PrefixInvStep, PrefixInvImplies, PTL DEF Prefix!Spec
<1>3. Prefix!Spec => Prefix!ForeignUntouched
  BY <1>1, PrefixInvInit, PrefixInvStep, PTL DEF Prefix!Spec, Prefix!ForeignUntouched
<1> QED
  BY <1>2, <1>3, PTL DEF PrefixIsExact, Prefix!PrefixIsExact
=============================================================================
