----------------------------- MODULE MCInstalls -----------------------------
(* What an install job does to the disk, one of four parts of it in each      *)
(* behaviour (`part`); the parts share no file.                               *)
(*                                                                            *)
(* "swap": the engines that own a directory (DirSwap): two versions, in any   *)
(* order and again, up to two failed calls in each job, crashes anywhere.     *)
(* "prefix": the engine that copies into a shared prefix (PrefixInstall): one *)
(* version with two files in one directory, one with the first of them only,  *)
(* and a third file, in a directory of its own, that is the user's.           *)
(* "cache": the download cache (AssetCache): two versions whose assets have   *)
(* one file name, the installs of two terminals and the update policy of the  *)
(* window.                                                                    *)
(* "snapshots": the configuration archives (Snapshots): two files, two calls  *)
(* at a time, a directory of two archives and three captures, so that it      *)
(* overflows; one write or deletion between.                                  *)
EXTENDS DirSwap, TLC

CONSTANTS
  v1, v2, program, icon, note, bin, share, Files, Dirs, HomeOf, Ships, PrefixFaults,
  Foreign, Partial,
  LastVersion, Garbage, theFile, Paths, FileOf, Installers, Prefetchers, HubOf,
  k1, k2, Contents, Absent, LastFile, Callers, Retention, MaxStamp, MaxWrites

VARIABLES
  part,
  disk, dirs, manifest, pPc, pJob, todo, written, created, pOutcome,
  pBefore, base, tainted, updated, pFaults, skipped,
  file, lock, stale, download, cRecord, latest, shipped, strict, cPc, task, judging, own, news,
  disturbed,
  config, archive, last, version, call, way, writes

prefixVars == <<disk, dirs, manifest, pPc, pJob, todo, written, created, pOutcome,
                pBefore, base, tainted, updated, pFaults, skipped>>
cacheVars  == <<file, lock, stale, download, cRecord, latest, shipped, strict, cPc, task,
                judging, own, news, disturbed>>
snapshotVars == <<config, archive, last, version, call, way, writes>>

Prefix == INSTANCE PrefixInstall WITH
            MaxFaults <- PrefixFaults,
            pc <- pPc, job <- pJob, outcome <- pOutcome, before <- pBefore, faults <- pFaults

Cache == INSTANCE AssetCache WITH
            Files <- Paths, record <- cRecord, pc <- cPc

Snap == INSTANCE Snapshots WITH
          AppVersions <- Versions, NotInstalled <- None

ASSUME InstallsAssumption ==
         Prefix!PrefixAssumption /\ Cache!CacheAssumption /\ Snap!SnapshotsAssumption

(* Where the files of a shared prefix are, and which version has them.        *)
MCHomeOf == program :> bin @@ icon :> share @@ note :> share
MCShips  == v1 :> {icon, note} @@ v2 :> {icon}

(* All assets have one file name.                                             *)
MCFileOf == [v \in 1..LastVersion |-> theFile]

(* Three processes.                                                           *)
MCHubOf == [a \in Installers \cup Prefetchers |-> a]

Interchangeable == Permutations(Installers) \cup Permutations(Callers)

(* A part that is not the one looked at stays in one initial state; the       *)
(* configuration files begin alike and with one of the versions installed.    *)
MCInit ==
  /\ part \in {"swap", "prefix", "cache", "snapshots"}
  /\ Init /\ Prefix!Init /\ Cache!Init /\ Snap!Init
  /\ part # "prefix" => \A f \in DOMAIN disk : disk[f] = None
  /\ part # "cache" => strict
  /\ version = v1 /\ \A f \in DOMAIN config : config[f] = k1

MCNext ==
  /\ UNCHANGED part
  /\ \/ part = "swap"   /\ Next        /\ UNCHANGED <<prefixVars, cacheVars, snapshotVars>>
     \/ part = "prefix" /\ Prefix!Next /\ UNCHANGED <<vars, cacheVars, snapshotVars>>
     \/ part = "cache"  /\ Cache!Next  /\ UNCHANGED <<vars, prefixVars, snapshotVars>>
     \/ part = "snapshots" /\ Snap!Next /\ UNCHANGED <<vars, prefixVars, cacheVars>>

MCSpec == MCInit /\ [][MCNext]_<<part, vars, prefixVars, cacheVars, snapshotVars>>

(* The properties of the parts that are instances, as they state them.    *)
PrefixIsExact       == Prefix!PrefixIsExact
CacheIsSound        == Cache!CacheIsSound
RestoreIsUndoable   == Snap!RestoreIsUndoable
RollbackFindsConfig == Snap!RollbackFindsConfig
RestoreIsNotBlocked == Snap!RestoreIsNotBlocked

(* Known not to hold, as SuccessIsComplete of DirSwap: see the README.        *)
FailedUpdateKeepsInstall == Prefix!FailedUpdateKeepsInstall
EngineGetsTheVersion     == Cache!EngineGetsTheVersion
=============================================================================
