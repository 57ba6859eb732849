------------------------------ MODULE Snapshots ------------------------------
(***************************************************************************)
(* The configuration archives of one app (src/main/snapshots.js).  Before  *)
(* an update, an uninstall or a restore the configured paths are packed    *)
(* into a new archive; after a capture only the newest Retention archives  *)
(* stay.  A restore packs what is there first and then unpacks the archive *)
(* it was asked for over it.                                               *)
(*                                                                         *)
(* tar runs beside the hub: it writes at the final name and reads file by  *)
(* file, and the app, the user, other calls and other processes act in     *)
(* between.  A killed call leaves an archive that looks like any other.    *)
(* An archive is known by its stamp; later captures have later stamps.     *)
(***************************************************************************)
EXTENDS Integers, FiniteSets

CONSTANTS
    LastFile,    \* the files under the configured paths, in tar's order: 1..LastFile
    Contents,    \* what a file may hold
    Absent,      \* no such file
    Callers,     \* calls at one time: jobs, the window, a terminal
    AppVersions, \* versions of the app
    NotInstalled,
    Retention,   \* archives that survive a capture (snapshots.js: 5)
    MaxStamp,    \* bound: captures in a behaviour
    MaxWrites    \* bound: writes by the app or the user, and archives deleted

ConfigFiles == 1..LastFile

SnapshotsAssumption ==
    /\ LastFile \in Nat \ {0}
    /\ Retention \in Nat \ {0} /\ MaxStamp \in Nat /\ MaxWrites \in Nat
    /\ Absent \notin Contents /\ NotInstalled \notin AppVersions

VARIABLES
    config,   \* file -> contents or Absent
    archive,  \* stamp -> [why, version, holds, whole], the files in the directory
    last,     \* the last stamp given
    version,  \* the version state.json records
    call,     \* caller -> what it is doing
    way,      \* a ghost: the capture of the last update, and the version it replaced
    writes    \* writes and deletions so far

vars == <<config, archive, last, version, call, way, writes>>

Reasons == {"pre-update", "pre-uninstall", "pre-restore"}

Idle == [at |-> "idle", why |-> "pre-update", stamp |-> 0, todo |-> {}, target |-> 0,
         was |-> NotInstalled, to |-> NotInstalled, from |-> [holds |-> <<>>, whole |-> TRUE], lost |-> <<>>,
         dirty |-> {}]

(* The contents by file of some of the files.                              *)
Held == UNION {[some -> Contents] : some \in SUBSET ConfigFiles}

TypeOK ==
    /\ config \in [ConfigFiles -> Contents \union {Absent}]
    /\ last \in 0..MaxStamp /\ writes \in 0..MaxWrites
    /\ DOMAIN archive \subseteq 1..last
    /\ \A s \in DOMAIN archive :
          archive[s] \in [why: Reasons, version: AppVersions \union {NotInstalled},
                          holds: Held, whole: BOOLEAN]
    /\ version \in AppVersions \union {NotInstalled}
    /\ way \in [version: AppVersions \union {NotInstalled}, stamp: 0..last]
    /\ \A c \in Callers :
          /\ call[c].at \in {"idle", "packing", "unpacking"}
          /\ call[c].stamp \in 0..last /\ call[c].target \in 0..last
          /\ call[c].lost \in Held

Init ==
    /\ config \in [ConfigFiles -> Contents \union {Absent}]
    /\ archive = <<>> /\ last = 0
    /\ version \in AppVersions \union {NotInstalled}
    /\ call = [c \in Callers |-> Idle]
    /\ way = [version |-> NotInstalled, stamp |-> 0]
    /\ writes = 0

-----------------------------------------------------------------------------
(* The directory.                                                          *)

Newer(s) == {t \in DOMAIN archive : t > s}

(* Mutant: the archives are listed oldest first.                           *)
SurvivesOldestFirst(s) == Cardinality(DOMAIN archive \ Newer(s)) <= Retention

(* The archive is among the newest Retention.                              *)
Survives(s) == Cardinality(Newer(s)) < Retention

Only(stamps) == [s \in stamps |-> archive[s]]

(* The archive a rollback to version v offers along with the build.        *)
PreUpdates(v) == {s \in DOMAIN archive : archive[s].why = "pre-update" /\ archive[s].version = v}

FindPreUpdate(v) ==
    CHOOSE s \in PreUpdates(v) : \A t \in PreUpdates(v) : t <= s

-----------------------------------------------------------------------------
(* A capture.                                                              *)

(* The calls after a file was written by someone else: what they have read *)
(* or unpacked of it is no longer what is there.                           *)
Disturbed(f, calls) ==
    [c \in Callers |-> IF calls[c].at = "idle" THEN Idle
                       ELSE [calls[c] EXCEPT !.dirty = @ \union {f}]]

(* The app or the user writes or removes a file.                           *)
Write(f, k) ==
    /\ writes < MaxWrites /\ writes' = writes + 1
    /\ config[f] # k /\ config' = [config EXCEPT ![f] = k]
    /\ call' = Disturbed(f, call)
    /\ UNCHANGED <<archive, last, version, way>>

Present == {f \in ConfigFiles : config[f] # Absent}

(* The archive a restore unpacks, as tar opens it.                         *)
Opened(s) == [holds |-> archive'[s].holds, whole |-> archive'[s].whole]

(* Another update from the same version has begun since.                   *)
Repeated(me) == \E s \in DOMAIN archive' : /\ s > me.stamp /\ archive'[s].why = "pre-update"
                                           /\ archive'[s].version = me.was

(* What a call goes on to once its capture has ended, taken or not.        *)
AfterCapture(c, me, taken) ==
    \/ /\ me.why = "pre-update"
       /\ \/ /\ version' = me.to     \* the engine installs it
             /\ way' = IF taken /\ ~Repeated(me) THEN [version |-> me.was, stamp |-> me.stamp]
                       ELSE [way EXCEPT !.stamp = 0]
          \/ UNCHANGED <<version, way>>   \* the job fails
       /\ call' = [call EXCEPT ![c] = Idle]
    \/ /\ me.why = "pre-uninstall" /\ version' = NotInstalled
       /\ call' = [call EXCEPT ![c] = Idle]
       /\ UNCHANGED way
    \/ /\ me.why = "pre-restore" /\ me.target \in DOMAIN archive'
       /\ call' = [call EXCEPT ![c] = [me EXCEPT !.at = "unpacking", !.from = Opened(me.target),
                                          !.todo = DOMAIN archive'[me.target].holds,
                                          !.stamp = IF taken THEN @ ELSE 0]]
       /\ UNCHANGED <<version, way>>
    \/ /\ me.why = "pre-restore" /\ me.target \notin DOMAIN archive'  \* tar fails
       /\ call' = [call EXCEPT ![c] = Idle]
       /\ UNCHANGED <<version, way>>

(* With nothing to pack the caller goes straight on; a machine without     *)
(* zstd has no archives at all.                                            *)
Capture(c, me) ==
    \/ /\ Present # {} /\ last < MaxStamp
       /\ last' = last + 1
       /\ archive' = [s \in DOMAIN archive \union {last'} |->
                        IF s = last' THEN [why |-> me.why, version |-> version,
                                           holds |-> <<>>, whole |-> FALSE]
                        ELSE archive[s]]
       /\ call' = [call EXCEPT ![c] = [me EXCEPT !.at = "packing", !.stamp = last',
                                          !.was = version, !.todo = Present]]
       /\ way' = IF me.why = "pre-update" /\ way.version = version THEN [way EXCEPT !.stamp = 0]
                 ELSE way     \* the way back to this version is the new archive
       /\ UNCHANGED version
    \/ /\ Present = {}
       /\ UNCHANGED <<archive, last>>
       /\ AfterCapture(c, me, FALSE)

(* An install job that replaces another version of the app, or puts it     *)
(* where there is none.  The asset's lock keeps the installs of one        *)
(* version by two processes apart.                                         *)
Install(c, v) ==
    /\ call[c] = Idle /\ version # v
    /\ \A d \in Callers : call[d].at = "idle" \/ call[d].to # v
    /\ IF version = NotInstalled
       THEN /\ version' = v
            /\ UNCHANGED <<archive, last, call, way>>
       ELSE Capture(c, [Idle EXCEPT !.why = "pre-update", !.to = v])
    /\ UNCHANGED <<config, writes>>

Uninstall(c) ==
    /\ call[c] = Idle /\ version # NotInstalled
    /\ Capture(c, [Idle EXCEPT !.why = "pre-uninstall"])
    /\ UNCHANGED <<config, writes>>

(* Mutant: what is there is not captured before it is overwritten.         *)
RestoreUncaptured(c, s) ==
    /\ call[c] = Idle /\ s \in DOMAIN archive
    /\ UNCHANGED <<archive, last>>
    /\ AfterCapture(c, [Idle EXCEPT !.why = "pre-restore", !.target = s, !.stamp = s], TRUE)
    /\ UNCHANGED <<config, writes>>

(* The archive asked for is looked for before the capture.                 *)
Restore(c, s) ==
    /\ call[c] = Idle /\ s \in DOMAIN archive
    /\ Capture(c, [Idle EXCEPT !.why = "pre-restore", !.target = s])
    /\ UNCHANGED <<config, writes>>

(* The file whose turn it is.                                              *)
Turn(c, f) == f \in call[c].todo /\ \A g \in call[c].todo : f <= g

(* tar reads one more file.  It goes on writing to an archive that has     *)
(* been deleted meanwhile.                                                 *)
Pack(c, f) ==
    /\ call[c].at = "packing" /\ Turn(c, f) /\ config[f] # Absent
    /\ call' = [call EXCEPT ![c].todo = @ \ {f}, ![c].dirty = @ \ {f}]
    /\ LET s == call[c].stamp
           more == [g \in DOMAIN archive[s].holds \union {f} |->
                      IF g = f THEN config[f] ELSE archive[s].holds[g]]
       IN archive' = IF s \in DOMAIN archive THEN [archive EXCEPT ![s].holds = more] ELSE archive
    /\ UNCHANGED <<config, last, version, way, writes>>

(* The capture has succeeded, and older archives are deleted.              *)
Packed(c) ==
    /\ call[c].at = "packing" /\ call[c].todo = {}
    /\ LET kept == {s \in DOMAIN archive : Survives(s)}
       IN archive' = [s \in kept |-> IF s = call[c].stamp THEN [archive[s] EXCEPT !.whole = TRUE]
                                     ELSE archive[s]]
    /\ AfterCapture(c, call[c], TRUE)
    /\ UNCHANGED <<config, last, writes>>

(* tar fails, as it does on a file that has gone: the archive is deleted,  *)
(* and the caller goes on without.                                         *)
PackFails(c) ==
    /\ call[c].at = "packing"
    /\ archive' = Only(DOMAIN archive \ {call[c].stamp})
    /\ AfterCapture(c, call[c], FALSE)
    /\ UNCHANGED <<config, last, writes>>

(* The process of the call is killed: what tar has written so far stays.   *)
Killed(c) ==
    /\ call[c].at # "idle"
    /\ call' = [call EXCEPT ![c] = Idle]
    /\ UNCHANGED <<config, archive, last, version, way, writes>>

-----------------------------------------------------------------------------
(* A restore.                                                              *)

(* tar puts one file back; it has the archive open, so that deleting it    *)
(* does no harm any more.                                                  *)
Unpack(c, f) ==
    /\ call[c].at = "unpacking" /\ Turn(c, f)
    /\ config' = [config EXCEPT ![f] = call[c].from.holds[f]]
    /\ LET was == call[c].lost
           lost == IF config[f] = Absent \/ f \in call[c].dirty THEN was
                   ELSE [g \in DOMAIN was \union {f} |-> IF g = f THEN config[f] ELSE was[g]]
       IN call' = [Disturbed(f, call) EXCEPT ![c] = [call[c] EXCEPT !.todo = @ \ {f},
                                                                    !.lost = lost]]
    /\ UNCHANGED <<archive, last, version, way, writes>>

(* The end of the archive, or of what was written of it: the caller is     *)
(* told which.                                                             *)
Unpacked(c) ==
    /\ call[c].at = "unpacking"
    /\ call[c].todo = {} \/ ~call[c].from.whole
    /\ call' = [call EXCEPT ![c] = Idle]
    /\ UNCHANGED <<config, archive, last, version, way, writes>>

(* The user deletes an archive.                                            *)
Delete(s) ==
    /\ s \in DOMAIN archive
    /\ writes < MaxWrites /\ writes' = writes + 1
    /\ archive' = Only(DOMAIN archive \ {s})
    /\ call' = [c \in Callers |-> [call[c] EXCEPT !.stamp = IF @ = s THEN 0 ELSE @,
                                                  !.target = IF @ = s THEN 0 ELSE @]]
    /\ way' = IF way.stamp = s THEN [way EXCEPT !.stamp = 0] ELSE way
    /\ UNCHANGED <<config, last, version>>

Next ==
    \/ \E f \in ConfigFiles, k \in Contents \union {Absent} : Write(f, k)
    \/ \E c \in Callers, v \in AppVersions : Install(c, v)
    \/ \E c \in Callers : Uninstall(c) \/ Packed(c) \/ PackFails(c) \/ Killed(c) \/ Unpacked(c)
    \/ \E c \in Callers, s \in DOMAIN archive : Restore(c, s)
    \/ \E c \in Callers, f \in ConfigFiles : Pack(c, f) \/ Unpack(c, f)
    \/ \E s \in DOMAIN archive : Delete(s)

Spec == Init /\ [][Next]_vars

-----------------------------------------------------------------------------
(* Properties.                                                             *)

(* Later captures may have pushed it out by the rule.                      *)
PushedOut(s) == last - s >= Retention

(* A restore is undoable: what it has overwritten so far, and nobody else  *)
(* wrote since, is in the archive it took first, which is still there      *)
(* unless the user deleted it.  Files the restore has brought back are not *)
(* part of the promise: undoing does not remove them.                      *)
RestoreIsUndoable ==
    \A c \in Callers :
        LET s == call[c].stamp
        IN call[c].at = "unpacking" /\ s # 0 =>
             \/ s \in DOMAIN archive /\ \A f \in DOMAIN call[c].lost :
                   f \in DOMAIN archive[s].holds /\ archive[s].holds[f] = call[c].lost[f]
             \/ PushedOut(s)

(* After an update the configuration of the version it replaced is what a  *)
(* rollback to that version is offered, complete, until Retention later    *)
(* captures, the user, or another update from that version.                *)
RollbackFindsConfig ==
    way.stamp # 0 =>
      \/ /\ way.stamp \in DOMAIN archive /\ archive[way.stamp].whole
         /\ FindPreUpdate(way.version) = way.stamp
      \/ PushedOut(way.stamp)

(* The capture before a restore never blocks the restore: the archive the  *)
(* user asked for, there until the capture ends, is then opened.  (It does *)
(* not hold: in a full directory that capture deletes the oldest archive,  *)
(* which may be the one asked for.)                                        *)
RestoreIsNotBlocked ==
    [][\A c \in Callers :
         Packed(c) /\ call[c].why = "pre-restore" /\ call[c].target \in DOMAIN archive =>
           call'[c].at = "unpacking"]_vars
=============================================================================
