------------------------------ MODULE AssetCache ------------------------------
(***************************************************************************)
(* The downloaded file of one artifact, downloads/<app>-<asset>, and the   *)
(* hub processes that share it: installs (runInstall of src/main/jobs.js)  *)
(* and the pre-downloads of the "download" update policy (predownload),    *)
(* with what state.json says about the file and about the installed        *)
(* version, and the "clear download cache" of housekeeping.js.             *)
(*                                                                         *)
(* An actor is the install queue or the update policy of one process.  The *)
(* lock file is taken here for what AssetLock shows of it: held by one     *)
(* actor at a time, and free for the next when the holder has died; only,  *)
(* where two other processes find a dead holder's lock, the slower one may *)
(* remove the lock that the quicker has taken in its place.                *)
(***************************************************************************)
EXTENDS Naturals

CONSTANTS
  LastVersion,   \* bound: releases are numbered from 1 to this
  None,          \* no file, no record, no holder
  Garbage,       \* bytes that are no release asset: a half-rebuilt delta
  Files,         \* asset paths
  FileOf,        \* the path of each version's asset; names need not carry a version
  Installers,
  Prefetchers,
  HubOf          \* the process of each actor

Releases == 1..LastVersion

CacheAssumption ==
  /\ LastVersion \in Nat \ {0}
  /\ None \notin Releases /\ Garbage \notin Releases /\ None # Garbage
  /\ FileOf \in [Releases -> Files]
  /\ Installers \cap Prefetchers = {}
  /\ None \notin Installers \cup Prefetchers

Actors == Installers \cup Prefetchers

VARIABLES
  file,        \* path -> whose bytes are there
  lock,        \* path -> the actor that holds <path>.lock
  stale,       \* the paths with a lock that its holder left behind
  download,    \* state.json downloads: the recorded pre-download of the artifact
  record,      \* state.json installed: the version, None if not installed
  latest,      \* app.latest.version
  shipped,     \* the releases that have the artifact's asset
  strict,      \* the owner is pinned and requireSignatures is on
  pc,          \* actor -> what it does next
  task,        \* actor -> the version whose asset it handles (asset), the one
               \* it takes that to be (label), and whether that was on record
               \* when it began (wasBefore); None when idle
  judging,     \* the actors that may have read a stale lock and not removed it
  own,         \* history: the installers whose bytes are of their own fetching
  news,        \* history: the installers that began without their version on
               \* record, and since then another one has put it there
  disturbed    \* history: the cache was cleared, or a lock taken away, while
               \* these actors ran

releases  == <<latest, shipped, strict>>
diskVars  == <<file, lock, stale, download, record>>
actorVars == <<pc, task, judging, own, news, disturbed>>
vars      == <<diskVars, releases, actorVars>>

Download == [ver : Releases, path : Files]
Task     == [asset : Releases, label : Releases, wasBefore : BOOLEAN]
Routes   == {"delta", "seed", "full"}
PC       == {"idle", "lock", "rebuild", "note", "verify", "engine"} \cup Routes

TypeOK ==
  /\ file \in [Files -> Releases \cup {None, Garbage}]
  /\ lock \in [Files -> Actors \cup {None}] /\ stale \in SUBSET Files
  /\ download \in Download \cup {None}
  /\ record \in Releases \cup {None}
  /\ latest \in Releases /\ shipped \in SUBSET Releases /\ strict \in BOOLEAN
  /\ pc \in [Actors -> PC]
  /\ task \in [Actors -> Task \cup {None}]
  /\ judging \in SUBSET Actors
  /\ own \in SUBSET Installers /\ news \in SUBSET Installers
  /\ disturbed \in BOOLEAN

Init ==
  /\ file = [f \in Files |-> None] /\ lock = [f \in Files |-> None] /\ stale = {}
  /\ download = None
  /\ record = None
  /\ latest = 1 /\ shipped = {latest} /\ strict \in BOOLEAN
  /\ pc = [a \in Actors |-> "idle"]
  /\ task = [a \in Actors |-> None]
  /\ judging = {} /\ own = {} /\ news = {}
  /\ disturbed = FALSE

-----------------------------------------------------------------------------
Asset(a) == task[a].asset
Label(a) == task[a].label
File(a)  == FileOf[Asset(a)]

Put(a, content) == file' = [file EXCEPT ![File(a)] = content]

GoTo(a, next) == pc' = [pc EXCEPT ![a] = next]

\* The actor goes on to its next step.
GoOn(a, next) == GoTo(a, next) /\ UNCHANGED <<lock, stale, task, judging, own, news, disturbed>>

\* It is done or has failed; the release function removes the lock only if it
\* is still its own.
Leave(a) ==
  /\ GoTo(a, "idle")
  /\ lock' = IF lock[File(a)] = a THEN [lock EXCEPT ![File(a)] = None] ELSE lock
  /\ task' = [task EXCEPT ![a] = None]
  /\ judging' = judging \ {a} /\ own' = own \ {a}
  /\ disturbed' = (disturbed /\ \E b \in Actors \ {a} : pc[b] # "idle")

Over(a) == Leave(a) /\ news' = news \ {a} /\ UNCHANGED stale

\* A pre-download of version v at path f is on record and the file is there.
Recorded(v, f) == download = [ver |-> v, path |-> f] /\ file[f] # None

-----------------------------------------------------------------------------
(* Beginning.                                                              *)

Begin(a, what) ==
  /\ pc[a] = "idle"
  /\ task' = [task EXCEPT ![a] = what]
  /\ GoTo(a, "lock")
  /\ UNCHANGED <<diskVars, releases, judging, own, news, disturbed>>

\* runInstall resolves its version: the artifact's source release, or any
\* published one by its tag, older ones included.
BeginInstall(i) ==
  \E v \in shipped : Begin(i, [asset |-> v, label |-> v, wasBefore |-> record = v])

\* artifact.sourceVersion: the newest release that has the asset.
Source == CHOOSE v \in shipped : \A w \in shipped : w <= v

\* applyUpdatePolicies finds an update: the asset is the source release's, the
\* version it will be recorded under that of the app's latest release, which may
\* have come without the asset.
BeginPrefetch(p) ==
  /\ record \notin {None, Source}
  /\ Begin(p, [asset |-> Source, label |-> latest, wasBefore |-> FALSE])

\* The actor has the lock.  If it broke a stale one for it, an actor of another
\* process that waits may have read that one as well, and be about to break it.
\* (wasBefore is not looked at again, and reset so that equal situations are
\* equal states.)
Lock(a, next) ==
  /\ lock' = [lock EXCEPT ![File(a)] = a]
  /\ stale' = stale \ {File(a)}
  /\ judging' = (judging \ {a}) \cup
        {b \in Actors : /\ pc[b] = "lock" /\ File(b) = File(a) /\ HubOf[b] # HubOf[a]
                        /\ File(a) \in stale}
  /\ task' = [task EXCEPT ![a].wasBefore = FALSE]
  /\ GoTo(a, next)
  /\ UNCHANGED <<file, download, record, releases, news, disturbed>>

\* It breaks the lock it has read as stale, whoever holds it by now.
BreakAgain(a) ==
  /\ a \in judging /\ pc[a] = "lock"
  /\ lock' = [lock EXCEPT ![File(a)] = None]
  /\ stale' = stale \ {File(a)}
  /\ judging' = judging \ {a}
  /\ disturbed' = (disturbed \/ lock[File(a)] # None)
  /\ UNCHANGED <<file, download, record, releases, pc, task, own, news>>

\* It must fetch the asset, or a download of its version is on record.
LockAndFetch(a) == /\ ~Recorded(Label(a), File(a))
                   /\ Lock(a, IF a \in Installers THEN "delta" ELSE "full")
                   /\ own' = own \cup ({a} \cap Installers)
LockAndReuse(a) == /\ Recorded(Label(a), File(a))
                   /\ Lock(a, "verify")
                   /\ UNCHANGED own

\* Defect: the record is not read again after the wait for the lock.
BlindLockInstall(i) ==
  /\ pc[i] = "lock" /\ lock[File(i)] = None
  /\ LockAndReuse(i) \/ LockAndFetch(i)

\* The install has the lock.  Another process may have done the same job in the
\* meantime; a recorded pre-download of this version is used as it is.
LockInstall(i) ==
  /\ pc[i] = "lock" /\ lock[File(i)] = None
  /\ \/ /\ record = Label(i) /\ ~task[i].wasBefore
        /\ Over(i)
        /\ UNCHANGED <<file, download, record, releases>>
     \/ /\ record = Label(i) => task[i].wasBefore
        /\ LockAndReuse(i) \/ LockAndFetch(i)

\* Defect: a pre-download does not ask for the lock.
UnlockedPrefetch(p) ==
  /\ pc[p] = "lock"
  /\ GoOn(p, "full")
  /\ UNCHANGED <<file, download, record, releases>>

\* The pre-download has the lock, and stops here if it was done before.
LockPrefetch(p) ==
  /\ pc[p] = "lock" /\ lock[File(p)] = None
  /\ \/ /\ Recorded(Label(p), File(p))
        /\ Over(p)
        /\ UNCHANGED <<file, download, record, releases>>
     \/ LockAndFetch(p)

-----------------------------------------------------------------------------
(* Fetching.                                                               *)

\* tryDelta has the patch: the file goes away and zstd begins to write it.
BeginDelta(i) ==
  /\ pc[i] = "delta" /\ record \notin {None, Label(i)}
  /\ Put(i, Garbage)
  /\ GoOn(i, "rebuild")
  /\ UNCHANGED <<download, record, releases>>

\* The rebuilt file equals the sidecar's hash; otherwise it is removed and the
\* other routes follow, or the job is over if it was cancelled.
EndDelta(i) ==
  /\ pc[i] = "rebuild"
  /\ \/ Put(i, Asset(i)) /\ GoOn(i, "verify")
     \/ Put(i, None) /\ GoOn(i, "seed")
     \/ Put(i, None) /\ Over(i)
  /\ UNCHANGED <<download, record, releases>>

\* A LAN seed that fails takes the file at the asset's path with it.
SeedFails(i) ==
  /\ pc[i] \in {"delta", "seed"}
  /\ Put(i, None)
  /\ GoOn(i, "full") \/ Over(i)
  /\ UNCHANGED <<download, record, releases>>

\* downloadAsset and fetchAsset write a file of their own and rename it over the
\* asset when its size and hash are right.
Fetch(a) ==
  /\ pc[a] \in Routes
  /\ Put(a, Asset(a))
  /\ GoOn(a, IF a \in Installers THEN "verify" ELSE "note")
  /\ UNCHANGED <<download, record, releases>>

\* A failed or cancelled download leaves the asset's path as it was.
FetchFails(a) ==
  /\ pc[a] \in Routes
  /\ Over(a)
  /\ UNCHANGED <<file, download, record, releases>>

\* Defect: the version is taken from the bytes that are at the path by now.
LateNoteDownload(p) ==
  /\ pc[p] = "note"
  /\ download' = [ver |-> file[File(p)], path |-> File(p)]
  /\ Over(p)
  /\ UNCHANGED <<file, record, releases>>

\* recordDownload, the last step of a pre-download.
NoteDownload(p) ==
  /\ pc[p] = "note"
  /\ download' = [ver |-> Label(p), path |-> File(p)]
  /\ Over(p)
  /\ UNCHANGED <<file, record, releases>>

-----------------------------------------------------------------------------
(* Installing.                                                             *)

\* Defect: bytes that were there before are not asked for their signature.
TrustingVerify(i) ==
  /\ pc[i] = "verify"
  /\ strict /\ i \in own => file[File(i)] = Label(i)
  /\ GoOn(i, "engine")
  /\ UNCHANGED <<file, download, record, releases>>

\* verifySignature lets the bytes through: signed by the pinned key, or nobody
\* asked for a signature, or there is none to be had and none is required.
Verify(i) ==
  /\ pc[i] = "verify"
  /\ strict => file[File(i)] = Label(i)
  /\ GoOn(i, "engine")
  /\ UNCHANGED <<file, download, record, releases>>

\* It refuses: no usable signature where one is required, or a cancel.
Refuse(i) ==
  /\ pc[i] = "verify"
  /\ Over(i)
  /\ UNCHANGED <<file, download, record, releases>>

\* The signature does not verify: the bytes and their record are dropped.
BadSignature(i) ==
  /\ pc[i] = "verify"
  /\ Put(i, None)
  /\ download' = None
  /\ Over(i)
  /\ UNCHANGED <<record, releases>>

\* The engine unpacks the file into the install directory (DirSwap); what
\* follows does not wait for anything: recordInstall, and the cleanup, which
\* removes the file and the recorded pre-download.
Install(i) ==
  /\ pc[i] = "engine" /\ file[File(i)] # None
  /\ record' = Label(i)
  /\ Put(i, None)
  /\ download' = None
  /\ Leave(i)
  /\ news' = {j \in Installers \ {i} : /\ pc[j] # "idle" /\ Label(j) = Label(i)
                                      /\ ~task[j].wasBefore}
  /\ UNCHANGED <<stale, releases>>

InstallFails(i) ==
  /\ pc[i] = "engine"
  /\ Over(i)
  /\ UNCHANGED <<file, download, record, releases>>

-----------------------------------------------------------------------------
(* Around them.                                                            *)

\* An uninstall or a rollback, of any process: they touch neither the file nor
\* its lock.
ChangeInstall ==
  /\ record # None
  /\ record' \in (shipped \cup {None}) \ {record}
  /\ news' = {}
  /\ UNCHANGED <<file, lock, stale, download, releases, pc, task, judging, own, disturbed>>

\* A release comes out, with or without an asset for this artifact, which may
\* also be added to it later.
Publish ==
  /\ \/ /\ latest + 1 \in Releases
        /\ latest' = latest + 1
        /\ shipped' \in {shipped, shipped \cup {latest'}}
     \/ /\ shipped' = shipped \cup {latest}
        /\ UNCHANGED latest
  /\ UNCHANGED <<diskVars, strict, actorVars>>

\* clearDownloadCache removes whatever is in downloads/, one by one: assets and
\* locks alike; then it forgets the pre-downloads.
ClearCache ==
  /\ \/ \E f \in Files : file' = [file EXCEPT ![f] = None] /\ UNCHANGED <<lock, stale, download>>
     \/ \E f \in Files : /\ lock' = [lock EXCEPT ![f] = None] /\ stale' = stale \ {f}
                          /\ UNCHANGED <<file, download>>
     \/ download' = None /\ UNCHANGED <<file, lock, stale>>
  /\ disturbed' = \E a \in Actors : pc[a] # "idle"
  /\ UNCHANGED <<record, releases, pc, task, judging, own, news>>

\* The process of actor a dies and leaves its lock behind (as it does when the
\* write of its pid fails); a rename over the asset removes the old file first,
\* so that it may be gone.
Crash(a) ==
  /\ pc[a] # "idle"
  /\ \/ UNCHANGED file
     \/ pc[a] \in Routes /\ Put(a, None)
  /\ Leave(a)
  /\ news' = news \ {a}
  /\ stale' = IF lock[File(a)] = a THEN stale \cup {File(a)} ELSE stale
  /\ UNCHANGED <<download, record, releases>>

InstallStep(i)  == \/ BeginInstall(i) \/ LockInstall(i) \/ BeginDelta(i) \/ EndDelta(i)
                   \/ SeedFails(i) \/ Verify(i) \/ Refuse(i) \/ BadSignature(i)
                   \/ Install(i) \/ InstallFails(i)
PrefetchStep(p) == BeginPrefetch(p) \/ LockPrefetch(p) \/ NoteDownload(p)

Next == \/ \E i \in Installers : InstallStep(i)
        \/ \E p \in Prefetchers : PrefetchStep(p)
        \/ \E a \in Actors : Fetch(a) \/ FetchFails(a) \/ BreakAgain(a) \/ Crash(a)
        \/ ChangeInstall \/ Publish \/ ClearCache

Spec == Init /\ [][Next]_vars

-----------------------------------------------------------------------------
Using(i) == pc[i] \in {"verify", "engine"}

\* An install gets exactly the bytes it fetched, through the verification and
\* the unpacking, whatever installs and pre-downloads other processes run on the
\* same path, unless somebody clears the cache under it, or removes its lock for
\* one that it had read before ("one hub process at a time per asset file",
\* runInstall).
FetchedBytesStay ==
  ~disturbed => \A i \in Installers : Using(i) /\ i \in own => file[File(i)] = Label(i)

\* Where signatures are required, the engine unpacks the version the job will
\* record, also when it reuses what is lying in downloads/: a half-rebuilt
\* delta or another version's bytes never pass.
SignedBytesOnly ==
  strict /\ ~disturbed =>
    \A i \in Installers : pc[i] = "engine" => file[File(i)] = Label(i)

\* An update that another process did while this one waited for the lock is not
\* done again.
NoRepeat ==
  ~disturbed => \A i \in news : pc[i] = "lock"

\* All of it: the cache gives an install its bytes, whoever else is at work there.
CacheIsSound == TypeOK /\ FetchedBytesStay /\ SignedBytesOnly /\ NoRepeat

\* "Whatever route those bytes took, they have now been hash-checked"
\* (runInstall): the engine unpacks the bytes of the version it installs.
EngineGetsTheVersion ==
  ~disturbed => \A i \in Installers : pc[i] = "engine" => file[File(i)] = Label(i)
=============================================================================
