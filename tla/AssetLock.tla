------------------------------ MODULE AssetLock ------------------------------
(***************************************************************************)
(* The lock file "<asset>.lock" that hub processes (a GUI hub, an          *)
(* "nx update" in a terminal, a restarted hub) use to take turns with one  *)
(* downloaded asset: acquireAssetLock of src/main/jobs.js and the release  *)
(* function it returns.                                                    *)
(*                                                                         *)
(* A client is one acquisition: an install job or a pre-download of some   *)
(* hub process.  Within a process the calls between two awaits run without *)
(* interruption; the system calls of different processes interleave, so    *)
(* each of open, write, read, stat and unlink is a step of its own.        *)
(***************************************************************************)
EXTENDS Naturals, FiniteSets

CONSTANTS
  Hubs,        \* hub processes, named by their pid
  Clients,     \* acquisitions
  HubOf,       \* the process each acquisition runs in
  Jobs,        \* the clients that are jobs: a cancel can end their wait
  Absent,      \* no lock file
  Infant       \* a lock file that was created but holds no pid yet

ASSUME LockAssumption ==
  /\ IsFiniteSet(Hubs)
  /\ HubOf \in [Clients -> Hubs]
  /\ Jobs \subseteq Clients
  /\ Absent \notin Hubs /\ Infant \notin Hubs /\ Absent # Infant

VARIABLES
  lock,     \* what is at lockPath: Absent, Infant, or the pid it names
  aged,     \* the file at lockPath is older than LOCK_INFANT_MS
  linked,   \* client -> the file it created is still the one at lockPath
  pc,       \* client -> where it is in acquire, hold and release
  seen,     \* client -> what its last read of the lock file returned
  dead      \* hub processes that have exited or crashed

vars == <<lock, aged, linked, pc, seen, dead>>

Content == Hubs \cup {Absent, Infant}

\* "open" .. "break" is one turn of the acquire loop, "hold" the work done under
\* the lock, "check" and "unlink" the release function.
Sync  == {"write", "look", "judge", "break", "retry", "unlink"}
Owned == {"write", "hold", "unlink"}
PC    == Sync \cup {"start", "sleep", "hold", "released", "aborted", "failed"}

TypeOK ==
  /\ lock \in Content
  /\ aged \in BOOLEAN
  /\ linked \in [Clients -> BOOLEAN]
  /\ pc \in [Clients -> PC]
  /\ seen \in [Clients -> Content]
  /\ dead \in SUBSET Hubs

Init ==
  /\ lock = Absent
  /\ aged = FALSE
  /\ linked = [c \in Clients |-> FALSE]
  /\ pc = [c \in Clients |-> "start"]
  /\ seen = [c \in Clients |-> Absent]
  /\ dead = {}

-----------------------------------------------------------------------------
Alive(c) == HubOf[c] \notin dead

\* The JavaScript of c's process is not in the middle of another client's
\* synchronous section.
HasTheThread(c) ==
  \A d \in Clients : d # c /\ HubOf[d] = HubOf[c] => pc[d] \notin Sync

GoTo(c, to) == pc' = [pc EXCEPT ![c] = to]

\* unlink(lockPath), whatever file is there by now.
Unlink == /\ lock' = Absent
          /\ aged' = FALSE
          /\ linked' = [c \in Clients |-> FALSE]

\* Defect: open without the exclusive flag, so an existing lock is taken over.
SharedOpen(c) ==
  /\ Alive(c) /\ HasTheThread(c)
  /\ pc[c] \in {"start", "sleep", "retry"}
  /\ lock' = Infant
  /\ aged' = FALSE
  /\ linked' = [linked EXCEPT ![c] = TRUE]
  /\ GoTo(c, "write")
  /\ UNCHANGED <<seen, dead>>

\* open(lockPath, "wx"): at the first call, after the 300 ms sleep, or again at
\* once after a stale lock was removed.
Open(c) ==
  /\ Alive(c) /\ HasTheThread(c)
  /\ pc[c] \in {"start", "sleep", "retry"}
  /\ \/ /\ lock = Absent
        /\ lock' = Infant
        /\ aged' = FALSE
        /\ linked' = [linked EXCEPT ![c] = TRUE]
        /\ GoTo(c, "write")
     \/ /\ lock # Absent
        /\ GoTo(c, "look")
        /\ UNCHANGED <<lock, aged, linked>>
  /\ UNCHANGED <<seen, dead>>

\* Defect: the lock names the acquisition, not the process.
MuddledWrite(c) ==
  /\ Alive(c)
  /\ pc[c] = "write"
  /\ IF linked[c] THEN lock' = c /\ aged' = FALSE
                  ELSE UNCHANGED <<lock, aged>>
  /\ GoTo(c, "hold")
  /\ UNCHANGED <<linked, seen, dead>>

\* write(fd, {pid}): reaches the lock only if nobody unlinked it meanwhile.
Write(c) ==
  /\ Alive(c)
  /\ pc[c] = "write"
  /\ IF linked[c] THEN lock' = HubOf[c] /\ aged' = FALSE
                  ELSE UNCHANGED <<lock, aged>>
  /\ GoTo(c, "hold")
  /\ UNCHANGED <<linked, seen, dead>>

\* The write throws (a full disk): the job fails and an empty lock stays.
WriteFails(c) ==
  /\ Alive(c)
  /\ pc[c] = "write"
  /\ GoTo(c, "failed")
  /\ UNCHANGED <<lock, aged, linked, seen, dead>>

\* Read the file that was in the way.
Look(c) ==
  /\ Alive(c)
  /\ pc[c] = "look"
  /\ seen' = [seen EXCEPT ![c] = lock]
  /\ GoTo(c, "judge")
  /\ UNCHANGED <<lock, aged, linked, dead>>

\* Is what was seen stale?  A pid is, when its process is gone; a file without
\* a pid is, when the file at lockPath (by now) is old.
Stale(c) == IF seen[c] \in Hubs THEN seen[c] \in dead ELSE lock # Absent /\ aged
Gone(c)  == seen[c] \notin Hubs /\ lock = Absent

\* Defect: a lock without a pid is broken on sight, not only an old one.
HastyJudge(c) ==
  /\ Alive(c)
  /\ pc[c] = "judge"
  /\ \/ (Stale(c) \/ seen[c] = Infant) /\ GoTo(c, "break")
     \/ ~Stale(c) /\ Gone(c) /\ GoTo(c, "retry")
     \/ ~Stale(c) /\ ~Gone(c) /\ GoTo(c, "sleep")
     \/ ~Stale(c) /\ ~Gone(c) /\ c \in Jobs /\ GoTo(c, "aborted")
  /\ UNCHANGED <<lock, aged, linked, seen, dead>>

\* Defect: the age check forgets the lock whose holder is dead.
TrustingJudge(c) ==
  /\ Alive(c)
  /\ pc[c] = "judge"
  /\ \/ Stale(c) /\ seen[c] \notin Hubs /\ GoTo(c, "break")
     \/ ~Stale(c) /\ Gone(c) /\ GoTo(c, "retry")
     \/ ~Gone(c) /\ GoTo(c, "sleep")
     \/ ~Gone(c) /\ c \in Jobs /\ GoTo(c, "aborted")
  /\ UNCHANGED <<lock, aged, linked, seen, dead>>

\* Break a stale lock, try again at once if it vanished, else wait; a cancelled
\* job stops waiting here.
Judge(c) ==
  /\ Alive(c)
  /\ pc[c] = "judge"
  /\ \/ Stale(c) /\ GoTo(c, "break")
     \/ ~Stale(c) /\ Gone(c) /\ GoTo(c, "retry")
     \/ ~Stale(c) /\ ~Gone(c) /\ GoTo(c, "sleep")
     \/ ~Stale(c) /\ ~Gone(c) /\ c \in Jobs /\ GoTo(c, "aborted")
  /\ UNCHANGED <<lock, aged, linked, seen, dead>>

\* safeUnlink(lockPath), then straight back to open.
Break(c) ==
  /\ Alive(c)
  /\ pc[c] = "break"
  /\ Unlink
  /\ GoTo(c, "retry")
  /\ UNCHANGED <<seen, dead>>

\* The release function reads the lock and goes on only if it names its hub.
Release(c) ==
  /\ Alive(c) /\ HasTheThread(c)
  /\ pc[c] = "hold"
  /\ GoTo(c, IF lock = HubOf[c] THEN "unlink" ELSE "released")
  /\ UNCHANGED <<lock, aged, linked, seen, dead>>

RemoveOwn(c) ==
  /\ Alive(c)
  /\ pc[c] = "unlink"
  /\ Unlink
  /\ GoTo(c, "released")
  /\ UNCHANGED <<seen, dead>>

-----------------------------------------------------------------------------
(* The environment: processes exit or crash anywhere, and time passes.     *)

Die(h) ==
  /\ h \notin dead
  /\ dead' = dead \cup {h}
  /\ UNCHANGED <<lock, aged, linked, pc, seen>>

\* A live creator writes its pid well within LOCK_INFANT_MS of creating the
\* file: only an abandoned empty lock gets old.
Age ==
  /\ lock = Infant /\ ~aged
  /\ \A c \in Clients : ~(pc[c] = "write" /\ linked[c] /\ Alive(c))
  /\ aged' = TRUE
  /\ UNCHANGED <<lock, linked, pc, seen, dead>>

Step(c) == \/ Open(c) \/ Write(c) \/ WriteFails(c) \/ Look(c) \/ Judge(c)
           \/ Break(c) \/ Release(c) \/ RemoveOwn(c)

Next == \/ \E c \in Clients : Step(c)
        \/ \E h \in Hubs : Die(h)
        \/ Age

\* Every process that lives keeps going: its event loop runs every callback
\* that is due (Open and Release wait for the thread, hence strong fairness),
\* whoever holds the lock finishes its work, and time passes.
Fairness == /\ \A c \in Clients : /\ WF_vars(Step(c))
                                /\ SF_vars(Open(c) \/ Release(c))
            /\ WF_vars(Age)

Spec == Init /\ [][Next]_vars /\ Fairness

-----------------------------------------------------------------------------
Holding(c)  == pc[c] \in {"hold", "unlink"} /\ Alive(c)
NoWriteFailed == \A c \in Clients : pc[c] # "failed"
Undisturbed == dead = {} /\ NoWriteFailed

\* "One hub process at a time per asset file" (runInstall): at most one
\* acquisition holds the lock.
Exclusive == \A c, d \in Clients : Holding(c) /\ Holding(d) => c = d

\* The same, as long as no hub process has exited and no lock write has failed
\* since: then nobody is ever entitled to break a lock, whatever the timing of
\* open, write, read and unlink.
ExclusiveUndisturbed == Undisturbed => Exclusive

\* With two hub processes (a window and one terminal) a crash does not break
\* the exclusion: only the survivor can find the lock stale, and it goes from
\* there to its own lock without a pause.  It takes a third process to break
\* the survivor's lock on what it read before.
ExclusiveOfTwo == Cardinality(Hubs) <= 2 /\ NoWriteFailed => Exclusive

\* As long as no hub process has exited and no lock write has failed, a lock
\* that names a hub is removed only by the client of that hub which holds it.
OnlyHolderRemoves ==
  [][Undisturbed /\ lock \in Hubs /\ lock' # lock
       => \E c \in Clients : pc[c] = "unlink" /\ HubOf[c] = lock]_vars

\* "A crashed hub must not wedge every later install": every acquisition of a
\* hub that stays alive gets the lock, is cancelled or fails (it never goes back),
\* although holders and waiters may die at any point, the empty lock of a dead
\* creator included.
Acquiring(c) == Alive(c) /\ pc[c] \notin {"hold", "unlink", "released", "aborted", "failed"}

NeverWedged == \A c \in Clients : []<>~Acquiring(c)
=============================================================================
