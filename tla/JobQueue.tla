------------------------------ MODULE JobQueue ------------------------------
(***************************************************************************)
(* The install/uninstall/rollback queue of one hub process                 *)
(* (src/main/jobs.js): the job table, one FIFO and at most one active job  *)
(* per app, cancellation, and the counting semaphore that caps transfers   *)
(* across apps (maxConcurrentDownloads).  The background pre-downloads of  *)
(* the "download" update policy compete for the same semaphore.            *)
(*                                                                         *)
(* Everything between two awaits of the JavaScript is one action.  The     *)
(* bytes, the engines and the asset lock are abstracted to "this takes a   *)
(* while and may throw"; AssetLock, AssetCache, DirSwap and PrefixInstall  *)
(* open those boxes.                                                       *)
(***************************************************************************)
EXTENDS Naturals, FiniteSets, Sequences

CONSTANTS
  Apps,          \* app ids
  NoApp,         \* not an app id
  Requests,      \* what can be asked for: one (app, artifact, type, tag) each
  NoRequest,     \* the request of a job id not handed out yet
  AppOf,         \* the app each request belongs to
  Installs,      \* the requests of type "install" (the others never download)
  Prefetchers,   \* concurrent pre-downloads of the update policy
  LastRoute,     \* ways to get the bytes: 3 (delta, LAN seed, full download)
  MaxJobs,       \* bound: job ids handed out (seq)
  MaxSlots       \* the largest maxConcurrentDownloads (config.js clamps it to 8)

ASSUME QueueAssumption ==
  /\ NoApp \notin Apps
  /\ NoRequest \notin Requests
  /\ AppOf \in [Requests -> Apps]
  /\ Installs \subseteq Requests
  /\ MaxJobs \in Nat
  /\ LastRoute \in Nat \ {0}
  /\ MaxSlots \in Nat \ {0}
  /\ Prefetchers \cap (1..MaxJobs) = {}
  /\ IsFiniteSet(Prefetchers)

VARIABLES
  seq,             \* job ids handed out so far
  request,         \* job id -> type, appId, artifactId and tag of the job
  status,          \* job id -> job.status
  cancelRequested, \* job id -> job.cancelRequested (and controller aborted)
  pending,         \* app -> q.pending
  active,          \* app -> q.active
  kicks,           \* apps whose setImmediate(pump) is scheduled
  limit,           \* downloads.limit
  used,            \* downloads.active
  waiters,         \* downloads.waiters
  phase,           \* where the run of a job, or a pre-download, is
  route            \* the last transfer a run that still has no bytes has tried:
                   \* 1 delta, 2 LAN seed, 3 full; 0 none yet

tableVars == <<seq, request, status, cancelRequested>>
queueVars == <<pending, active, kicks>>
slotVars  == <<limit, used, waiters>>
runVars   == <<phase, route>>
vars      == <<tableVars, queueVars, slotVars, runVars>>

Jobs    == 1..MaxJobs
NoJob   == 0
Users   == Jobs \cup Prefetchers       \* whoever may want a download slot
Ended   == {"done", "error", "cancelled"}
Status  == {"unborn", "queued", "running"} \cup Ended
Phase   == {"idle", "prepare", "waitSlot", "transfer", "engine", "unwind"}
Routes  == 1..LastRoute

Live(j)  == status[j] \in {"queued", "running"}
Owner(j) == IF request[j] \in Requests THEN AppOf[request[j]] ELSE NoApp

TypeOK ==
  /\ seq \in 0..MaxJobs
  /\ request \in [Jobs -> Requests \cup {NoRequest}]
  /\ status \in [Jobs -> Status]
  /\ cancelRequested \in [Jobs -> BOOLEAN]
  /\ pending \in [Apps -> Seq(Jobs)]
  /\ active \in [Apps -> Jobs \cup {NoJob}]
  /\ kicks \in SUBSET Apps
  /\ limit \in 0..MaxSlots
  /\ used \in Nat
  /\ waiters \in Seq(Users)
  /\ phase \in [Users -> Phase]
  /\ route \in [Jobs -> {0} \cup Routes]

Init ==
  /\ seq = 0
  /\ request = [j \in Jobs |-> NoRequest]
  /\ status = [j \in Jobs |-> "unborn"]
  /\ cancelRequested = [j \in Jobs |-> FALSE]
  /\ pending = [a \in Apps |-> <<>>]
  /\ active = [a \in Apps |-> NoJob]
  /\ kicks = {}
  /\ limit = 0
  /\ used = 0
  /\ waiters = <<>>
  /\ phase = [u \in Users |-> "idle"]
  /\ route = [j \in Jobs |-> 0]

-----------------------------------------------------------------------------
(* The counting semaphore.                                                 *)

\* How many waiters the drain loop wakes.
Grants(lim, u, w) ==
  LET room == IF lim > u THEN lim - u ELSE 0
  IN  IF room < Len(w) THEN room ELSE Len(w)

\* drainDownloadWaiters: wake waiters in order while there is room.  The slot
\* is counted before the waiter's promise resolves, so it is the waiter's from
\* here on.
Drain(lim, u, w, ph) ==
  LET g == Grants(lim, u, w)
  IN  /\ used' = u + g
      /\ waiters' = SubSeq(w, g + 1, Len(w))
      /\ phase' = [x \in Users |-> IF \E i \in 1..g : w[i] = x
                                   THEN "transfer" ELSE ph[x]]

\* Defect: the setting is not clamped.
UnclampedSetDownloadLimit(ph) ==
  \E n \in 1..MaxSlots : /\ limit' = n + 1
                         /\ Drain(n + 1, used, waiters, ph)

\* setDownloadLimit with settings.maxConcurrentDownloads, which the user may
\* have changed to any legal value since it was last read; then drain.
SetDownloadLimit(ph) ==
  \E n \in 1..MaxSlots : /\ limit' = n
                         /\ Drain(n, used, waiters, ph)

\* acquireDownloadSlot: take a free slot or line up.  (Its lazy default limit
\* never applies: every caller's first step was SetDownloadLimit.)
AcquireSlot(u) ==
  \/ /\ used < limit
     /\ used' = used + 1
     /\ phase' = [phase EXCEPT ![u] = "transfer"]
     /\ UNCHANGED <<limit, waiters>>
  \/ /\ used >= limit
     /\ waiters' = Append(waiters, u)
     /\ phase' = [phase EXCEPT ![u] = "waitSlot"]
     /\ UNCHANGED <<limit, used>>

\* Defect: a slot freed by a transfer is not handed to the next waiter.
NoDrainRelease(u, next) ==
  /\ used' = IF used > 0 THEN used - 1 ELSE 0
  /\ phase' = [phase EXCEPT ![u] = next]
  /\ UNCHANGED <<limit, waiters>>

\* Defect: a transfer that throws keeps its slot (no finally).
LeakyRelease(u, next) ==
  /\ IF next = "unwind" THEN /\ phase' = [phase EXCEPT ![u] = next]
                             /\ UNCHANGED <<used, waiters>>
     ELSE Drain(limit, IF used > 0 THEN used - 1 ELSE 0, waiters,
                [phase EXCEPT ![u] = next])
  /\ UNCHANGED limit

\* Defect: the limit is not looked at when a slot is handed on.
BlindRelease(u, next) ==
  /\ Drain(used + 1, IF used > 0 THEN used - 1 ELSE 0, waiters,
           [phase EXCEPT ![u] = next])
  /\ UNCHANGED limit

\* releaseDownloadSlot, in the finally of withDownloadSlot; the caller goes on
\* in phase "next".
ReleaseSlot(u, next) ==
  /\ Drain(limit, IF used > 0 THEN used - 1 ELSE 0, waiters,
           [phase EXCEPT ![u] = next])
  /\ UNCHANGED limit

-----------------------------------------------------------------------------
(* Dispatching.                                                            *)

\* Positions of the first job in q that is still queued (at most one).
FirstQueued(q, st) ==
  {i \in DOMAIN q : /\ st[q[i]] = "queued"
                    /\ \A k \in 1..(i - 1) : st[q[k]] # "queued"}

\* The part of a run before its first await: an install re-reads the settings
\* and applies the download limit; resolve() throws if the app is gone.
BeginRun(j, req) ==
  \/ /\ req[j] \in Installs
     /\ SetDownloadLimit([phase EXCEPT ![j] = "prepare"])
  \/ /\ req[j] \notin Installs
     /\ phase' = [phase EXCEPT ![j] = "engine"]
     /\ UNCHANGED slotVars
  \/ /\ phase' = [phase EXCEPT ![j] = "unwind"]
     /\ UNCHANGED slotVars

\* Defect: the newest waiting job is served first.
LifoPump(a, q, st, req) ==
  \/ /\ active[a] # NoJob \/ q = <<>>
     /\ pending' = [pending EXCEPT ![a] = q]
     /\ status' = st
     /\ UNCHANGED <<active, slotVars, phase>>
  \/ /\ active[a] = NoJob /\ q # <<>>
     /\ pending' = [pending EXCEPT ![a] = SubSeq(q, 1, Len(q) - 1)]
     /\ active' = [active EXCEPT ![a] = q[Len(q)]]
     /\ status' = [st EXCEPT ![q[Len(q)]] = "running"]
     /\ BeginRun(q[Len(q)], req)

\* pump(appId) on a queue whose content is q and job table whose statuses are
\* st: nothing while a job of the app is active, else start the first job that
\* is still queued, dropping the ids before it.
Pump(a, q, st, req) ==
  \/ /\ active[a] # NoJob
     /\ pending' = [pending EXCEPT ![a] = q]
     /\ status' = st
     /\ UNCHANGED <<active, slotVars, phase>>
  \/ /\ active[a] = NoJob
     /\ FirstQueued(q, st) = {}
     /\ pending' = [pending EXCEPT ![a] = <<>>]
     /\ status' = st
     /\ UNCHANGED <<active, slotVars, phase>>
  \/ /\ active[a] = NoJob
     /\ \E i \in FirstQueued(q, st) :
          /\ pending' = [pending EXCEPT ![a] = SubSeq(q, i + 1, Len(q))]
          /\ active' = [active EXCEPT ![a] = q[i]]
          /\ status' = [st EXCEPT ![q[i]] = "running"]
          /\ BeginRun(q[i], req)

-----------------------------------------------------------------------------
(* The calls a window, the tray, the CLI or the fleet makes.               *)

\* Defect: no check for a job that already does the same.
TwinEnqueue(r) ==
  LET a == AppOf[r]  j == seq + 1 IN
  /\ seq < MaxJobs
  /\ seq' = j
  /\ request' = [request EXCEPT ![j] = r]
  /\ Pump(a, Append(pending[a], j), [status EXCEPT ![j] = "queued"], request')
  /\ UNCHANGED <<cancelRequested, kicks, route>>

\* enqueue: a request somebody already waits for gets that job's id and
\* changes nothing; otherwise a new job is queued and the queue is pumped.
Enqueue(r) ==
  LET a == AppOf[r]  j == seq + 1 IN
  /\ seq < MaxJobs
  /\ \A k \in Jobs : ~(Live(k) /\ request[k] = r)
  /\ seq' = j
  /\ request' = [request EXCEPT ![j] = r]
  /\ Pump(a, Append(pending[a], j), [status EXCEPT ![j] = "queued"], request')
  /\ UNCHANGED <<cancelRequested, kicks, route>>

\* The queue without job j.
Without(q, j) ==
  IF \E i \in DOMAIN q : q[i] = j
  THEN LET i == CHOOSE k \in DOMAIN q : q[k] = j
       IN  SubSeq(q, 1, i - 1) \o SubSeq(q, i + 1, Len(q))
  ELSE q

\* Defect: a cancelled job leaves the queue but keeps its status.
ForgetfulCancelQueued(j) ==
  /\ status[j] = "queued"
  /\ pending' = [pending EXCEPT ![Owner(j)] = Without(@, j)]
  /\ UNCHANGED <<seq, request, status, cancelRequested, active, kicks,
                 slotVars, runVars>>

\* cancelJob on a queued job: out of the queue and over.
CancelQueued(j) ==
  /\ status[j] = "queued"
  /\ pending' = [pending EXCEPT ![Owner(j)] = Without(@, j)]
  /\ status' = [status EXCEPT ![j] = "cancelled"]
  /\ UNCHANGED <<seq, request, cancelRequested, active, kicks,
                 slotVars, runVars>>

\* Defect: cancelling a running job frees its app at once.
AbruptCancelRunning(j) ==
  /\ status[j] = "running"
  /\ status' = [status EXCEPT ![j] = "cancelled"]
  /\ active' = [active EXCEPT ![Owner(j)] = NoJob]
  /\ kicks' = kicks \cup {Owner(j)}
  /\ UNCHANGED <<seq, request, cancelRequested, pending,
                 slotVars, runVars>>

\* cancelJob on a running job only asks: the run ends where it next looks.
CancelRunning(j) ==
  /\ status[j] = "running"
  /\ cancelRequested' = [cancelRequested EXCEPT ![j] = TRUE]
  /\ UNCHANGED <<seq, request, status, queueVars,
                 slotVars, runVars>>

\* applyUpdatePolicies reaches a pre-download after setting the limit.
StartPrefetch(p) ==
  /\ phase[p] = "idle"
  /\ SetDownloadLimit([phase EXCEPT ![p] = "prepare"])
  /\ UNCHANGED <<tableVars, queueVars, route>>

-----------------------------------------------------------------------------
(* A run.                                                                  *)

\* predownload and the three transfers of runInstall ask for a slot.  Delta,
\* LAN seed and full download are tried in this order, each at most once.
AskSlot(u) ==
  /\ phase[u] = "prepare"
  /\ IF u \in Jobs
     THEN \E r \in Routes : r > route[u] /\ route' = [route EXCEPT ![u] = r]
     ELSE UNCHANGED route
  /\ AcquireSlot(u)
  /\ UNCHANGED <<tableVars, queueVars>>

\* Where runInstall goes after a transfer: on to the engine, back for the next
\* route if a delta or a seed was no good, or out by an exception.  A cancelled
\* job never falls back and never reaches the engine.
AfterTransfer(u) ==
  IF u \in Jobs
  THEN {"unwind"} \cup (IF cancelRequested[u] THEN {} ELSE {"engine"})
                  \cup (IF cancelRequested[u] \/ route[u] = LastRoute THEN {} ELSE {"prepare"})
  ELSE {"idle"}

EndTransfer(u) ==
  /\ phase[u] = "transfer"
  /\ \E next \in AfterTransfer(u) :
       /\ ReleaseSlot(u, next)
       /\ route' = [j \in Jobs |-> IF j = u /\ next # "prepare" THEN 0 ELSE route[j]]
  /\ UNCHANGED <<tableVars, queueVars>>

\* The bytes are already there (a recorded pre-download): no slot is needed.
ReuseDownload(u) ==
  /\ phase[u] = "prepare"
  /\ IF u \in Jobs
     THEN /\ route[u] = 0 /\ ~cancelRequested[u]
          /\ phase' = [phase EXCEPT ![u] = "engine"]
     ELSE phase' = [phase EXCEPT ![u] = "idle"]
  /\ UNCHANGED <<tableVars, queueVars, slotVars, route>>

\* Defect: the finally forgets to schedule the next pump.
SilentFinish(j, o) ==
  /\ status' = [status EXCEPT ![j] = o]
  /\ active' = [active EXCEPT ![Owner(j)] = NoJob]
  /\ phase' = [phase EXCEPT ![j] = "idle"]
  /\ route' = [route EXCEPT ![j] = 0]
  /\ cancelRequested' = [cancelRequested EXCEPT ![j] = FALSE]
  /\ UNCHANGED <<seq, request, pending, kicks, slotVars>>

\* finish(job), then the finally of pump: the app is free and a pump scheduled.
\* (The cancel request of an ended job is never read again; it is reset here so
\* that equal situations are equal states.)
Finish(j, o) ==
  /\ status' = [status EXCEPT ![j] = o]
  /\ active' = [active EXCEPT ![Owner(j)] = NoJob]
  /\ kicks' = kicks \cup {Owner(j)}
  /\ phase' = [phase EXCEPT ![j] = "idle"]
  /\ route' = [route EXCEPT ![j] = 0]
  /\ cancelRequested' = [cancelRequested EXCEPT ![j] = FALSE]
  /\ UNCHANGED <<seq, request, pending, slotVars>>

\* The run returns: installed, removed, restored, or another hub process did
\* it while this one waited for the asset lock (still before any transfer).
\* A cancel nobody looked at any more does not change the outcome.
RunReturns(j) ==
  /\ status[j] = "running"
  /\ phase[j] = "engine" \/ (phase[j] = "prepare" /\ route[j] = 0)
  /\ Finish(j, "done")

\* The run throws.  Requested cancels and any error that says "aborted" end as
\* cancelled, everything else as an error.
RunThrows(j) ==
  /\ status[j] = "running"
  /\ phase[j] \in {"prepare", "engine", "unwind"}
  /\ \E o \in {"error", "cancelled"} : /\ cancelRequested[j] => o = "cancelled"
                                       /\ Finish(j, o)

\* The setImmediate of a finished job fires.
Kick(a) ==
  /\ a \in kicks
  /\ kicks' = kicks \ {a}
  /\ Pump(a, pending[a], status, request)
  /\ UNCHANGED <<seq, request, cancelRequested, route>>

-----------------------------------------------------------------------------
Advance(u) == \/ AskSlot(u)
              \/ ReuseDownload(u)
              \/ EndTransfer(u)
              \/ u \in Jobs /\ (RunReturns(u) \/ RunThrows(u))

Next == \/ \E r \in Requests : Enqueue(r)
        \/ \E j \in Jobs : CancelQueued(j) \/ CancelRunning(j)
        \/ \E p \in Prefetchers : StartPrefetch(p)
        \/ \E u \in Users : Advance(u)
        \/ \E a \in Apps : Kick(a)

\* The event loop runs every scheduled pump, and everything a run awaits comes
\* to an end: a transfer, an engine, the asset lock.
Fairness == /\ \A u \in Users : WF_vars(Advance(u))
            /\ \A a \in Apps : WF_vars(Kick(a))

Spec == Init /\ [][Next]_vars /\ Fairness

-----------------------------------------------------------------------------
(* What must hold.                                                         *)

Holders == {u \in Users : phase[u] = "transfer"}
Waiting == {u \in Users : phase[u] = "waitSlot"}

\* One job per app: the jobs whose status is "running" are exactly the active
\* jobs of the queues, each in the queue of its own app, and only they are
\* anywhere in a run.  Violated if pump, finish or cancelJob let the job table
\* and the queues disagree, e.g. a cancelled run that still touches the disk
\* while the next job of the app has started (pump, cancelJob).
SerialPerApp ==
  /\ \A j \in Jobs : /\ status[j] = "running" <=> (\E a \in Apps : active[a] = j)
                     /\ status[j] = "running" <=> phase[j] # "idle"
  /\ \A a \in Apps : active[a] # NoJob => Owner(active[a]) = a

\* The queue of an app holds exactly its queued jobs, each once, oldest first:
\* no accepted job is lost from its queue, none is left in it after a cancel.
QueueIsExact ==
  \A a \in Apps :
    /\ \A i \in DOMAIN pending[a] : /\ status[pending[a][i]] = "queued"
                                    /\ Owner(pending[a][i]) = a
    /\ \A i, k \in DOMAIN pending[a] : i < k => pending[a][i] < pending[a][k]
    /\ \A j \in Jobs : status[j] = "queued" /\ Owner(j) = a
                         => \E i \in DOMAIN pending[a] : pending[a][i] = j

\* No lost wakeup: a job that waits in the queue of an app with nothing active
\* has a pump scheduled that will start it.
NoLostWakeup ==
  \A a \in Apps : pending[a] # <<>> /\ active[a] = NoJob => a \in kicks

\* downloads.active counts exactly the transfers under way and the waiter list
\* is exactly who is blocked, each once: no slot leaks on an error, a cancel or
\* a fallback to another route.
SlotAccounting ==
  /\ used = Cardinality(Holders)
  /\ \A i \in DOMAIN waiters : waiters[i] \in Waiting
  /\ \A u \in Waiting : \E i \in DOMAIN waiters : waiters[i] = u
  /\ \A i, k \in DOMAIN waiters : waiters[i] = waiters[k] => i = k

\* No free slot while somebody waits for one, also after the user raised the
\* limit: whoever waits, waits because the slots are taken.
NoIdleSlot == waiters # <<>> => used >= limit

\* A transfer begins only within the limit in force, also when the limit was
\* lowered below the number of transfers already running.
NoOvergrant == [][~(Holders' \subseteq Holders) => used' <= limit']_vars

\* Two live jobs never do the same thing to the same artifact at the same tag:
\* a double click is one job.
NoTwins == \A j, k \in Jobs : /\ Live(j) /\ Live(k) /\ request[j] = request[k]
                              => j = k

\* What holds of jobs, queues and who runs, together: through double clicks,
\* cancels, failures and pumps that come late, an accepted job is in exactly one
\* place, runs alone in its app and is never forgotten.
QueueIsSound == TypeOK /\ SerialPerApp /\ QueueIsExact /\ NoLostWakeup /\ NoTwins

\* What holds of the download slots, together: counted right and never idle.
SlotsAreSound == SlotAccounting /\ NoIdleSlot

\* Every accepted job ends, whether it waits for its app or was started as it
\* was accepted: it runs when its app is free, waits for a slot at most as long
\* as others transfer, and a requested cancel cannot wedge it.
EveryJobEnds == \A j \in Jobs : status[j] \in {"queued", "running"} ~> status[j] \in Ended

\* The queue keeps the promise of JobLedger: per app one job at a time and in
\* the order accepted, ended jobs stay ended, withdrawn jobs never run.
Ledger == INSTANCE JobLedger WITH app <- [j \in Jobs |-> Owner(j)], state <- status

ImplementsLedger == Ledger!LedgerSpec
=============================================================================
