---------------------------- MODULE PrefixInstall ----------------------------
(***************************************************************************)
(* Apps of kind "tarball-prefix" (src/main/install/tarball-prefix.js): a   *)
(* release is copied file by file into a prefix the user shares with other *)
(* programs (~/.local), and a manifest in the install directory lists the  *)
(* files and the directories that were made for it.  Uninstalling          *)
(* (standardUninstall of common.js) goes by that list.                     *)
(*                                                                         *)
(* One job at a time (JobQueue).  Every file system call of a loop is a    *)
(* step; it may fail, the job may be cancelled, the hub may crash, and the *)
(* user may put files of their own anywhere meanwhile.  Directories do not *)
(* nest here: the loops go deepest first, so that a parent is tried when   *)
(* it is as empty as it will get.                                          *)
(***************************************************************************)
EXTENDS Naturals

CONSTANTS
  Versions,
  Files,        \* paths below the prefix
  Dirs,
  HomeOf,       \* the directory each file is in
  Ships,        \* version -> the files under stripPrefix in its tarball
  None,
  Foreign,      \* a file of the user's
  Partial,      \* a file the hub was copying when it died
  MaxFaults     \* bound: calls of one job that fail

Manifest == [files : SUBSET Files, dirs : SUBSET Dirs]

PrefixAssumption ==
  /\ HomeOf \in [Files -> Dirs]
  /\ Ships \in [Versions -> (SUBSET Files) \ {{}}]
  /\ Versions \cap {None, Foreign, Partial} = {} /\ None \notin {Foreign, Partial} \cup Manifest
  /\ MaxFaults \in Nat

VARIABLES
  disk,         \* file -> what is there
  dirs,         \* the directories that exist
  manifest,     \* .nx-manifest.json of the install directory
  pc,           \* the loop or step the running job is in
  job,          \* the running or last job
  todo,         \* what is left of that loop
  written,      \* files this install has copied
  created,      \* createdDirs
  outcome,
  before,       \* history: disk, dirs and manifest when the job began
  base,         \* history: disk and dirs when the app was not installed yet
  tainted,      \* history: a job or a call has failed since
  updated,      \* history: it was installed over itself since
  faults,       \* history: calls of this job that failed
  skipped       \* history: among them a removal, whose error is ignored

fsVars   == <<disk, dirs, manifest>>
jobVars  == <<pc, job, todo, written, created, outcome>>
history  == <<before, base, tainted, updated, faults, skipped>>
vars     == <<fsVars, jobVars, history>>

Content  == Versions \cup {None, Foreign, Partial}
Job      == [type : {"install"}, ver : Versions] \cup [type : {"uninstall"}]
PC       == {"idle", "copy", "undo", "undoDirs", "stale", "staleDirs", "manifest",
             "remove", "removeDirs", "removeManifest"}

TypeOK ==
  /\ disk \in [Files -> Content] /\ dirs \in SUBSET Dirs
  /\ manifest \in Manifest \cup {None}
  /\ pc \in PC /\ job \in Job \cup {None}
  /\ todo \in (SUBSET Files) \cup (SUBSET Dirs)
  /\ written \in SUBSET Files /\ created \in SUBSET Dirs
  /\ outcome \in {"none", "ok", "error", "crash"}
  /\ {tainted, updated, skipped} \subseteq BOOLEAN /\ faults \in 0..MaxFaults
  /\ \A f \in Files : disk[f] # None => HomeOf[f] \in dirs

\* Nothing of the hub is there; the user's own files may be anywhere.
Init ==
  /\ disk \in [Files -> {None, Foreign}]
  /\ dirs = {HomeOf[f] : f \in {g \in Files : disk[g] # None}}
  /\ manifest = None
  /\ pc = "idle" /\ job = None /\ todo = {} /\ written = {} /\ created = {}
  /\ outcome = "none"
  /\ before = [disk |-> disk, dirs |-> dirs, manifest |-> None]
  /\ base = [disk |-> disk, dirs |-> dirs]
  /\ tainted = FALSE /\ updated = FALSE /\ faults = 0 /\ skipped = FALSE

-----------------------------------------------------------------------------
EmptyDir(d) == \A f \in Files : HomeOf[f] = d => disk[f] = None

Listed   == IF manifest = None THEN {} ELSE manifest.files
ListDirs == IF manifest = None THEN {} ELSE manifest.dirs

Fault == faults < MaxFaults /\ faults' = faults + 1

\* The job goes on with the loop or step "next".
Enter(next, items) == pc' = next /\ todo' = items

\* The job ends.
End(o) ==
  /\ pc' = "idle" /\ outcome' = o
  /\ todo' = {} /\ written' = {} /\ created' = {}
  /\ tainted' = (tainted \/ o # "ok" \/ faults > 0)
  /\ UNCHANGED <<job, before, base, updated, skipped>>

Begin(j) ==
  /\ pc = "idle"
  /\ job' = j /\ outcome' = "none" /\ faults' = 0 /\ skipped' = FALSE
  /\ before' = [disk |-> disk, dirs |-> dirs, manifest |-> manifest]
  /\ UNCHANGED <<fsVars, written, created>>

\* One step of a loop that removes the files in todo with their errors ignored.
RemoveFile(loop) ==
  \E f \in todo :
    /\ pc = loop /\ todo' = todo \ {f}
    /\ \/ disk' = [disk EXCEPT ![f] = None] /\ UNCHANGED <<faults, skipped>>
       \/ disk[f] # None /\ Fault /\ skipped' = TRUE /\ UNCHANGED disk
    /\ UNCHANGED <<dirs, manifest, pc, job, written, created, outcome, before, base,
                   tainted, updated>>

\* One step of a loop that does rmdir for the directories in todo: only an empty
\* one goes.
RemoveDir(loop) ==
  \E d \in todo :
    /\ pc = loop /\ todo' = todo \ {d}
    /\ \/ dirs' = (IF EmptyDir(d) THEN dirs \ {d} ELSE dirs) /\ UNCHANGED <<faults, skipped>>
       \/ d \in dirs /\ Fault /\ skipped' = TRUE /\ UNCHANGED dirs
    /\ UNCHANGED <<disk, manifest, pc, job, written, created, outcome, before, base,
                   tainted, updated>>

\* The loop is done; the next one begins.
EndLoop(loop, next, items) ==
  /\ pc = loop /\ todo = {}
  /\ Enter(next, items)
  /\ UNCHANGED <<fsVars, job, written, created, outcome, history>>

-----------------------------------------------------------------------------
(* Install.                                                                *)

\* The tarball is unpacked in a work directory; what is under stripPrefix is to
\* be copied.
BeginInstall(v) ==
  /\ Begin([type |-> "install", ver |-> v])
  /\ Enter("copy", Ships[v])
  /\ IF manifest = None
     THEN /\ base' = [disk |-> disk, dirs |-> dirs]
          /\ tainted' = FALSE /\ updated' = FALSE
     ELSE /\ updated' = TRUE
          /\ UNCHANGED <<base, tainted>>

\* Defect: a directory is looked for after copyEntry has made it.
LateCopy ==
  \E f \in todo :
    /\ pc = "copy"
    /\ dirs' = dirs \cup {HomeOf[f]} /\ created' = created \cup ({HomeOf[f]} \ dirs')
    /\ disk' = [disk EXCEPT ![f] = job.ver]
    /\ written' = written \cup {f} /\ todo' = todo \ {f}
    /\ UNCHANGED <<manifest, pc, job, outcome, history>>

\* Defect: the directory is noted, and not made.
BareCopy ==
  \E f \in todo :
    /\ pc = "copy"
    /\ created' = created \cup ({HomeOf[f]} \ dirs)
    /\ disk' = [disk EXCEPT ![f] = job.ver]
    /\ written' = written \cup {f} /\ todo' = todo \ {f}
    /\ UNCHANGED <<dirs, manifest, pc, job, outcome, history>>

\* One file: its directory is noted if it is missing, and made; the old file is
\* removed, the new one copied.
Copy ==
  \E f \in todo :
    /\ pc = "copy"
    /\ created' = created \cup ({HomeOf[f]} \ dirs) /\ dirs' = dirs \cup {HomeOf[f]}
    /\ disk' = [disk EXCEPT ![f] = job.ver]
    /\ written' = written \cup {f} /\ todo' = todo \ {f}
    /\ UNCHANGED <<manifest, pc, job, outcome, history>>

\* It fails before or after the old file is removed (copyFile removes what it has
\* copied so far).
CopyFails ==
  \E f \in todo :
    /\ pc = "copy" /\ Fault
    /\ created' = created \cup ({HomeOf[f]} \ dirs) /\ dirs' = dirs \cup {HomeOf[f]}
    /\ disk' \in {disk, [disk EXCEPT ![f] = None]}
    /\ Enter("undo", written)
    /\ UNCHANGED <<manifest, job, written, outcome, before, base, tainted, updated, skipped>>

\* A cancel, or a bad archive before the first file.
GiveUp ==
  /\ pc = "copy" /\ todo # {}
  /\ Enter("undo", written)
  /\ UNCHANGED <<fsVars, job, written, created, outcome, history>>

\* The catch: the copied files go, then the directories made for them, and the
\* error is thrown on.
Undo ==
  \/ RemoveFile("undo")
  \/ EndLoop("undo", "undoDirs", created)
  \/ RemoveDir("undoDirs")
  \/ /\ pc = "undoDirs" /\ todo = {}
     /\ End("error")
     /\ UNCHANGED <<fsVars, faults>>

\* Defect: what the new version no longer ships stays.
KeepStale ==
  \/ EndLoop("copy", "stale", {})
  \/ RemoveFile("stale")
  \/ EndLoop("stale", "staleDirs", ListDirs)
  \/ RemoveDir("staleDirs")
  \/ EndLoop("staleDirs", "manifest", {})

\* Defect: the directories of the old version are removed with all that is in
\* them.
SweepStale ==
  \/ EndLoop("copy", "stale", Listed \ written)
  \/ RemoveFile("stale")
  \/ EndLoop("stale", "staleDirs", ListDirs)
  \/ \E d \in todo : /\ pc = "staleDirs" /\ todo' = todo \ {d}
                     /\ disk' = [f \in Files |-> IF HomeOf[f] = d /\ f \notin written
                                                 THEN None ELSE disk[f]]
                     /\ UNCHANGED <<dirs, manifest, pc, job, written, created, outcome, history>>
  \/ EndLoop("staleDirs", "manifest", {})

\* What the new version no longer ships goes, and directories that are empty now.
DropStale ==
  \/ EndLoop("copy", "stale", Listed \ written)
  \/ RemoveFile("stale")
  \/ EndLoop("stale", "staleDirs", ListDirs)
  \/ RemoveDir("staleDirs")
  \/ EndLoop("staleDirs", "manifest", {})

\* stagedInstall puts an install directory with the new manifest in place of the
\* old one.  If it cannot, nobody undoes the copying.
WriteManifest ==
  /\ pc = "manifest"
  /\ \/ /\ manifest' = [files |-> written, dirs |-> created]
        /\ End("ok")
        /\ UNCHANGED faults
     \/ /\ Fault
        /\ End("error")
        /\ UNCHANGED manifest
  /\ UNCHANGED <<disk, dirs>>

-----------------------------------------------------------------------------
(* Uninstall.                                                              *)

BeginUninstall ==
  /\ Begin([type |-> "uninstall"])
  /\ Enter("remove", Listed)
  /\ UNCHANGED <<base, tainted, updated>>

Remove ==
  \/ RemoveFile("remove")
  \/ EndLoop("remove", "removeDirs", ListDirs)
  \/ RemoveDir("removeDirs")
  \/ EndLoop("removeDirs", "removeManifest", {})

\* rmrf(installDir).
RemoveManifest ==
  /\ pc = "removeManifest"
  /\ \/ manifest' = None /\ End("ok") /\ UNCHANGED faults
     \/ manifest # None /\ Fault /\ End("error") /\ manifest' \in {manifest, None}
  /\ UNCHANGED <<disk, dirs>>

-----------------------------------------------------------------------------
(* Around them.                                                            *)

\* The user puts a file where none is; to the history it was always there.
UserPuts ==
  \E f \in Files :
    /\ disk[f] = None
    /\ disk' = [disk EXCEPT ![f] = Foreign] /\ dirs' = dirs \cup {HomeOf[f]}
    /\ before' = [before EXCEPT !.disk[f] = Foreign, !.dirs = @ \cup {HomeOf[f]}]
    /\ base' = [base EXCEPT !.disk[f] = Foreign, !.dirs = @ \cup {HomeOf[f]}]
    /\ UNCHANGED <<manifest, jobVars, tainted, updated, faults, skipped>>

\* The hub dies: a file may be half copied, the install directory be gone between
\* the two renames of its swap or half removed.
Crash ==
  /\ pc # "idle"
  /\ \/ UNCHANGED fsVars
     \/ \E f \in todo : /\ pc = "copy" /\ dirs' = dirs \cup {HomeOf[f]}
                        /\ disk' \in {[disk EXCEPT ![f] = c] : c \in {disk[f], None, Partial}}
                        /\ UNCHANGED manifest
     \/ pc \in {"manifest", "removeManifest"} /\ manifest' = None /\ UNCHANGED <<disk, dirs>>
  /\ End("crash")
  /\ UNCHANGED faults

Next == \/ \E v \in Versions : BeginInstall(v)
        \/ BeginUninstall
        \/ Copy \/ CopyFails \/ GiveUp \/ Undo \/ DropStale \/ WriteManifest
        \/ Remove \/ RemoveManifest
        \/ UserPuts
        \/ Crash

Spec == Init /\ [][Next]_vars

-----------------------------------------------------------------------------
Shipping == IF pc # "idle" /\ job.type = "install" THEN Ships[job.ver] ELSE {}

\* "A shared prefix like ~/.local is never at risk" (tarball-prefix.js): a file
\* of the user's is touched only if the release being installed has a file of the
\* same name or the manifest lists it; no loop, rollback or crash reaches others.
ForeignUntouched ==
  [][\A f \in Files : disk[f] = Foreign /\ f \notin Listed \cup Shipping
                        => disk'[f] = Foreign]_vars

\* The directories are back as they were, but for one that a file of the user's was put
\* into while the job ran and which it lost when the release had one of that name: of two
\* shipped files in a new directory, the user may put the second there after the first.
DirsAreBack(was) ==
  /\ dirs \subseteq was.dirs
  /\ \A d \in was.dirs \ dirs :
       \E f \in Files : HomeOf[f] = d /\ was.disk[f] # None /\ disk[f] = None

\* A first install that fails undoes itself: files and directories are as they
\* were, except for a file of the user's that was in the way, unless a removal of
\* the undoing fails too.  Only if it is the manifest that cannot be written, all
\* the files stay.
FirstInstallRestores ==
  outcome = "error" /\ job.type = "install" /\ before.manifest = None /\ ~skipped =>
    /\ manifest = None
    /\ \/ /\ \A f \in Files : disk[f] = before.disk[f] \/ (f \in Ships[job.ver] /\ disk[f] = None)
          /\ DirsAreBack(before)
       \/ \A f \in Ships[job.ver] : disk[f] # None

\* "Uninstall is exact" (tarball-prefix.js): if nothing has failed since the app
\* was not there, an uninstall leaves no file of any version it was updated
\* through, and leaves the directories as they were if it was never updated.
UninstallIsExact ==
  outcome = "ok" /\ job.type = "uninstall" /\ ~tainted =>
    /\ \A f \in Files : disk[f] \in {None, base.disk[f]}
    /\ ~updated => DirsAreBack(base)

\* All of it: what comes into the prefix can be undone, and nothing else is touched.
PrefixIsExact == [](TypeOK /\ FirstInstallRestores /\ UninstallIsExact) /\ ForeignUntouched

\* "Failures at any stage roll back to the pre-transaction state" (README): an
\* update that fails or is cancelled leaves the files of the installed version.
FailedUpdateKeepsInstall ==
  outcome = "error" /\ job.type = "install" /\ before.manifest # None =>
    \A f \in before.manifest.files : before.disk[f] # None => disk[f] # None
=============================================================================
