------------------------------- MODULE DirSwap -------------------------------
(***************************************************************************)
(* One install directory of a dir-based app (kind "archive-dir") and the   *)
(* three jobs that change it: install (stagedInstall of                    *)
(* src/main/install/util.js and what archive-dir.js and runInstall do      *)
(* after it), rollback (rollbackDir, runRollback) and uninstall            *)
(* (standardUninstall, runUninstall).  The queue of JobQueue runs one such *)
(* job at a time.                                                          *)
(*                                                                         *)
(* Every file system call that the code awaits is a step; it may fail, and *)
(* the hub may crash before it.  A recursive removal that fails or is      *)
(* killed may have removed part of the directory.  A directory under a     *)
(* temporary name (".x.new-", ".x.old-", ".x.rollback-", each with fresh   *)
(* random digits) is never looked at again once its job is over.           *)
(***************************************************************************)
EXTENDS Naturals

CONSTANTS
  Versions,
  None,         \* nothing there
  Unknown,      \* state.json has a record without a version
  Damaged,      \* what a cut-short removal leaves, to KeptVersions
  MaxFaults     \* bound: file system calls of one job that fail

ASSUME SwapAssumption ==
  /\ None \notin Versions /\ Unknown \notin Versions /\ Damaged # None
  /\ None \notin [ver : Versions, whole : BOOLEAN, listed : BOOLEAN]
  /\ MaxFaults \in Nat

VARIABLES
  live,         \* what is at installDir
  prev,         \* what is at installDir.prev
  stage,        \* the directory being unpacked
  aside,        \* the replaced install, under its backup or stash name
  stranded,     \* versions complete under a temporary name nobody looks at
  record,       \* the version state.json records, None if not installed
  pc,           \* the next call of the running job
  job,          \* the running or last job: its type and version
  outcome,      \* how it ended
  before,       \* history: live and prev when it began
  faults        \* history: its calls that failed

dirVars == <<live, prev, stage, aside, stranded>>
runVars == <<pc, job, outcome, before, faults>>
vars    == <<dirVars, record, runVars>>

\* A directory: its version, whether all its files are there, and whether a
\* readable manifest is among them.
Dir   == [ver : Versions, whole : BOOLEAN, listed : BOOLEAN]
Place == Dir \cup {None}
Job   == [type : {"install"}, ver : Versions] \cup [type : {"rollback", "uninstall"}]
PC    == {"idle", "unpack", "setAside", "swapIn", "putBack", "dropPrev", "keepPrev", "dropOld",
          "writeManifest", "stash", "restore", "unstash", "rollForward", "dropStash",
          "removeLive", "removePrev", "record"}

TypeOK ==
  /\ live \in Place /\ prev \in Place /\ stage \in Place /\ aside \in Place
  /\ stranded \in SUBSET Versions
  /\ record \in Versions \cup {None, Unknown}
  /\ pc \in PC
  /\ job \in Job \cup {None}
  /\ outcome \in {"none", "ok", "error", "crash"}
  /\ before \in [live : Place, prev : Place]
  /\ faults \in 0..MaxFaults

Init ==
  /\ live = None /\ prev = None /\ stage = None /\ aside = None
  /\ stranded = {}
  /\ record = None
  /\ pc = "idle" /\ job = None /\ outcome = "none"
  /\ before = [live |-> None, prev |-> None]
  /\ faults = 0

-----------------------------------------------------------------------------
Goto(next) == pc' = next /\ UNCHANGED <<job, outcome, before>>
End(o)     == pc' = "idle" /\ outcome' = o /\ UNCHANGED <<job, before>>
Succeeds   == UNCHANGED faults
Fails      == faults < MaxFaults /\ faults' = faults + 1

\* What a removal of directory d that fails or is killed may leave: all of it,
\* or some of it, the manifest included or not.
Remains(d) == IF d = None THEN {None}
              ELSE {d} \cup {[d EXCEPT !.whole = FALSE, !.listed = b] : b \in BOOLEAN}

\* The version of a directory that is complete.
Complete(d) == IF d # None /\ d.whole THEN {d.ver} ELSE {}

Begin(j) ==
  /\ pc = "idle"
  /\ job' = j /\ outcome' = "none"
  /\ before' = [live |-> live, prev |-> prev]
  /\ faults' = 0

-----------------------------------------------------------------------------
(* Install.                                                                *)

\* stagedInstall makes an empty stage and runs the engine's unpacking in it.
BeginInstall(v) ==
  /\ Begin([type |-> "install", ver |-> v])
  /\ stage' = [ver |-> v, whole |-> FALSE, listed |-> FALSE]
  /\ pc' = "unpack"
  /\ UNCHANGED <<live, prev, aside, stranded, record>>

\* Defect: the stage is swapped in while the archive is still being unpacked.
HastyUnpack ==
  /\ pc = "unpack"
  /\ Goto("setAside")
  /\ UNCHANGED <<dirVars, record, faults>>

\* The archive is unpacked and its binary found, or a bad archive, a full disk
\* or a cancel makes it throw: the stage is removed.
Unpack ==
  /\ pc = "unpack"
  /\ \/ stage' = [stage EXCEPT !.whole = TRUE] /\ Goto("setAside")
     \/ stage' = None /\ End("error")
  /\ UNCHANGED <<live, prev, aside, stranded, record, faults>>

\* rename(installDir, backup) if there is an install.
SetAside ==
  /\ pc = "setAside"
  /\ \/ /\ live' = None /\ aside' = live
        /\ Succeeds /\ Goto("swapIn")
        /\ UNCHANGED stage
     \/ /\ live # None
        /\ Fails /\ End("error")
        /\ stage' = None
        /\ UNCHANGED <<live, aside>>
  /\ UNCHANGED <<prev, stranded, record>>

\* Defect: a swap that fails half-way is left like that.
ForsakenSwapIn ==
  /\ pc = "swapIn"
  /\ \/ /\ live' = stage /\ stage' = None
        /\ Succeeds /\ Goto(IF aside = None THEN "writeManifest" ELSE "dropPrev")
        /\ UNCHANGED <<aside, stranded>>
     \/ /\ Fails /\ End("error")
        /\ stage' = None /\ aside' = None
        /\ stranded' = stranded \cup Complete(aside)
        /\ UNCHANGED live
  /\ UNCHANGED <<prev, record>>

\* rename(stage, installDir).
SwapIn ==
  /\ pc = "swapIn"
  /\ \/ /\ live' = stage /\ stage' = None
        /\ Succeeds /\ Goto(IF aside = None THEN "writeManifest" ELSE "dropPrev")
     \/ /\ Fails /\ Goto("putBack")
        /\ UNCHANGED <<live, stage>>
  /\ UNCHANGED <<prev, aside, stranded, record>>

\* Defect: whatever cannot be put back is cleaned up.
TidyPutBack ==
  /\ pc = "putBack"
  /\ \/ live' = aside /\ Succeeds
     \/ Fails /\ UNCHANGED live
  /\ stage' = None /\ aside' = None
  /\ End("error")
  /\ UNCHANGED <<prev, stranded, record>>

\* The catch of the swap: rename(backup, installDir), an error swallowed, and
\* the stage removed.
PutBack ==
  /\ pc = "putBack"
  /\ \/ /\ live' = aside
        /\ Succeeds
        /\ UNCHANGED stranded
     \/ /\ Fails
        /\ stranded' = stranded \cup Complete(aside)
        /\ UNCHANGED live
  /\ stage' = None /\ aside' = None
  /\ End("error")
  /\ UNCHANGED <<prev, record>>

\* rmrf(prev), an error swallowed.
DropPrev ==
  /\ pc = "dropPrev"
  /\ \/ prev' = None /\ Succeeds
     \/ prev # None /\ Fails /\ prev' \in Remains(prev)
  /\ Goto("keepPrev")
  /\ UNCHANGED <<live, stage, aside, stranded, record>>

\* rename(backup, prev): fails if the old prev would not go away.
KeepPrev ==
  /\ pc = "keepPrev"
  /\ \/ /\ prev = None
        /\ prev' = aside /\ aside' = None
        /\ Succeeds /\ Goto("writeManifest")
     \/ /\ IF prev = None THEN Fails ELSE Succeeds
        /\ Goto("dropOld")
        /\ UNCHANGED <<prev, aside>>
  /\ UNCHANGED <<live, stage, stranded, record>>

\* rmrf(backup): keeping the old version is best effort.
DropOld ==
  /\ pc = "dropOld"
  /\ \/ Succeeds /\ UNCHANGED stranded
     \/ Fails /\ \E d \in Remains(aside) : stranded' = stranded \cup Complete(d)
  /\ aside' = None
  /\ Goto("writeManifest")
  /\ UNCHANGED <<live, prev, stage, record>>

\* Defect: the new install is rebuilt around its manifest.
RebuildManifest ==
  /\ pc = "writeManifest"
  /\ live' = [ver |-> live.ver, listed |-> TRUE]
  /\ Succeeds /\ Goto("record")
  /\ UNCHANGED <<prev, stage, aside, stranded, record>>

\* The desktop entry and the manifest, in the install directory that is live by
\* now.  If they cannot be written the job fails, with the new version in place.
WriteManifest ==
  /\ pc = "writeManifest"
  /\ \/ /\ live' = [live EXCEPT !.listed = TRUE]
        /\ Succeeds /\ Goto("record")
     \/ /\ Fails /\ End("error")
        /\ UNCHANGED live
  /\ UNCHANGED <<prev, stage, aside, stranded, record>>

-----------------------------------------------------------------------------
(* Rollback.                                                               *)

\* rollbackDir needs a kept version to begin with.
BeginRollback ==
  /\ Begin([type |-> "rollback"])
  /\ pc' = "stash"
  /\ prev # None
  /\ UNCHANGED <<dirVars, record>>

\* rename(installDir, stash) if there is an install; an error ends the job.
Stash ==
  /\ pc = "stash"
  /\ \/ /\ live' = None /\ aside' = live
        /\ Succeeds /\ Goto("restore")
     \/ /\ live # None
        /\ Fails /\ End("error")
        /\ UNCHANGED <<live, aside>>
  /\ UNCHANGED <<prev, stage, stranded, record>>

\* rename(prev, installDir).
Restore ==
  /\ pc = "restore"
  /\ \/ /\ live' = prev /\ prev' = None
        /\ Succeeds /\ Goto(IF aside = None THEN "record" ELSE "rollForward")
     \/ /\ Fails /\ Goto("unstash")
        /\ UNCHANGED <<live, prev>>
  /\ UNCHANGED <<stage, aside, stranded, record>>

\* rename(stash, installDir), an error swallowed.
Unstash ==
  /\ pc = "unstash"
  /\ \/ /\ live' = aside
        /\ Succeeds
        /\ UNCHANGED stranded
     \/ /\ Fails
        /\ stranded' = stranded \cup Complete(aside)
        /\ UNCHANGED live
  /\ aside' = None
  /\ End("error")
  /\ UNCHANGED <<prev, stage, record>>

\* rename(stash, prev), so that the user can roll forward again.
RollForward ==
  /\ pc = "rollForward"
  /\ \/ /\ prev' = aside /\ aside' = None
        /\ Succeeds /\ Goto("record")
     \/ /\ Fails /\ Goto("dropStash")
        /\ UNCHANGED <<prev, aside>>
  /\ UNCHANGED <<live, stage, stranded, record>>

\* rmrf(stash), an error swallowed.
DropStash ==
  /\ pc = "dropStash"
  /\ \/ Succeeds /\ UNCHANGED stranded
     \/ Fails /\ \E d \in Remains(aside) : stranded' = stranded \cup Complete(d)
  /\ aside' = None
  /\ Goto("record")
  /\ UNCHANGED <<live, prev, stage, record>>

-----------------------------------------------------------------------------
(* Uninstall.                                                              *)

BeginUninstall ==
  /\ Begin([type |-> "uninstall"])
  /\ pc' = "removeLive"
  /\ UNCHANGED <<dirVars, record>>

\* rmrf(installDir) if it exists; an error ends the job.
RemoveLive ==
  /\ pc = "removeLive"
  /\ \/ /\ live' = None
        /\ Succeeds /\ Goto("removePrev")
     \/ /\ live # None
        /\ live' \in Remains(live)
        /\ Fails /\ End("error")
  /\ UNCHANGED <<prev, stage, aside, stranded, record>>

\* rmrf(prev), an error swallowed.
RemovePrev ==
  /\ pc = "removePrev"
  /\ \/ prev' = None /\ Succeeds
     \/ prev # None /\ Fails /\ prev' \in Remains(prev)
  /\ Goto("record")
  /\ UNCHANGED <<live, stage, aside, stranded, record>>

-----------------------------------------------------------------------------
\* Defect: a rollback records the version it rolled back from.
StaleRecord ==
  /\ pc = "record"
  /\ record' = CASE job.type = "install"   -> job.ver
                 [] job.type = "rollback"  -> record
                 [] job.type = "uninstall" -> None
  /\ End("ok")
  /\ UNCHANGED <<dirVars, faults>>

\* The job's last step: recordInstall or removeInstall.  A rollback records
\* what the manifest it brought back says.
Record ==
  /\ pc = "record"
  /\ record' = CASE job.type = "install"   -> job.ver
                 [] job.type = "rollback"  -> IF live.listed THEN live.ver ELSE Unknown
                 [] job.type = "uninstall" -> None
  /\ End("ok")
  /\ UNCHANGED <<dirVars, faults>>

\* The hub dies.  A removal under way stops where it is; what is under a
\* temporary name stays there.  Nothing is repaired at the next start.
Crash ==
  /\ pc # "idle"
  /\ live' \in IF pc = "removeLive" THEN Remains(live) ELSE {live}
  /\ prev' \in IF pc \in {"dropPrev", "removePrev"} THEN Remains(prev) ELSE {prev}
  /\ \E d \in IF pc \in {"dropOld", "dropStash"} THEN Remains(aside) ELSE {aside} :
       stranded' = stranded \cup Complete(d)
  /\ stage' = None /\ aside' = None
  /\ End("crash")
  /\ UNCHANGED <<record, faults>>

Install   == Unpack \/ SetAside \/ SwapIn \/ PutBack \/ DropPrev \/ KeepPrev \/ DropOld
             \/ WriteManifest
Rollback  == Stash \/ Restore \/ Unstash \/ RollForward \/ DropStash
Uninstall == RemoveLive \/ RemovePrev

Next == \/ \E v \in Versions : BeginInstall(v)
        \/ BeginRollback
        \/ BeginUninstall
        \/ Install \/ Rollback \/ Uninstall
        \/ Record
        \/ Crash

Spec == Init /\ [][Next]_vars

-----------------------------------------------------------------------------
\* A directory as KeptVersions sees it.
Seen(d) == IF d = None THEN None ELSE IF d.whole THEN d.ver ELSE Damaged

Kept == INSTANCE KeptVersions WITH
          current <- Seen(IF live # None THEN live ELSE aside),
          kept    <- Seen(prev),
          leaving <- Seen(IF live # None THEN aside ELSE None)

\* Through every failure and crash the directory keeps the promise of
\* KeptVersions: whatever a launch starts or a rollback restores is one complete
\* version, unless its removal had begun.
ImplementsKept == Kept!KSpec

\* "A failure can never destroy both copies" (rollbackDir), nor can a crash: as
\* long as nobody uninstalls, or rolls back to a damaged directory, a complete
\* copy of some version stays on the disk.
SomeCopySurvives ==
  [][/\ Complete(live) \cup Complete(aside) \cup Complete(prev) # {}
     /\ pc \notin {"removeLive", "removePrev"}
     /\ pc = "dropStash" => Complete(before.prev) # {}
     => (Complete(live) \cup Complete(aside) \cup Complete(prev) \cup stranded)' # {}]_vars

\* "A failure anywhere leaves the previous install untouched" (stagedInstall):
\* after one failed call, or a bad archive or a cancel, a failed install or
\* rollback leaves what it found; the one exception is a failure after the swap
\* (the manifest or the desktop entry), which leaves the complete new version.
FailureRestores ==
  outcome = "error" /\ faults <= 1 /\ job.type # "uninstall" =>
    \/ live = before.live /\ prev = before.prev
    \/ job.type = "install" /\ live = [ver |-> job.ver, whole |-> TRUE, listed |-> FALSE]

\* A job that reports success did it, whatever earlier crashes and failures left
\* lying around: an install is complete, listed and recorded; a rollback brought
\* back exactly the kept version, recorded it and, unless a call failed, kept
\* the version it replaced; an uninstall left no install.
SuccessIsExact ==
  outcome = "ok" =>
    CASE job.type = "install" ->
           /\ live = [ver |-> job.ver, whole |-> TRUE, listed |-> TRUE]
           /\ record = job.ver
           /\ faults = 0 /\ before.live # None => prev = before.live
      [] job.type = "rollback" ->
           /\ live = before.prev
           /\ record = IF live.listed THEN live.ver ELSE Unknown
           /\ faults = 0 => prev = before.live
      [] job.type = "uninstall" ->
           /\ live = None /\ record = None
           /\ faults = 0 => prev = None

\* All of it: no copy of the app is ever at risk, and a job ends as it says it did.
JobsAreSafe == [](TypeOK /\ FailureRestores /\ SuccessIsExact) /\ SomeCopySurvives

\* "There is no 'partially installed' in the hub's vocabulary" (README): a job
\* that found a complete install and reports success does not leave an incomplete
\* one.
SuccessIsComplete ==
  outcome = "ok" /\ Complete(before.live) # {} /\ live # None => live.whole
=============================================================================
