----------------------------- MODULE FleetRequest -----------------------------
(***************************************************************************)
(* What one hub asks of another over a session of the fleet                *)
(* (src/main/fleet/index.js): install, update-all, launch, stop, probe,    *)
(* the search for an asset, and the relay of a job's end to the hub that   *)
(* asked for it.                                                           *)
(* How sessions come and go is FleetLink; here a session of a link is a    *)
(* number, and a new one replaces the old one, or it drops.                *)
(*                                                                         *)
(* A request waits in `inflight` of the hub that asks until its answer,    *)
(* its timeout or the end of the session.  The other hub answers at once,  *)
(* or when a launch, a stop or a probe is through, and then only over the  *)
(* session the request came by; what it relays of a job goes over the      *)
(* session of that moment.                                                 *)
(***************************************************************************)
EXTENDS Integers, FiniteSets, Sequences

CONSTANTS
    Links,            \* <<hub, hub>>: the first asks, the second serves
    Installs,         \* apps
    Knows,            \* server -> the apps that can be installed there
    Calls,            \* bound: link -> what is asked for beside installs and searches
    MaxRids,          \* bound: requests and searches
    MaxSession,       \* bound: the number of the last session; those at first are 1
    MaxJobs           \* bound: jobs of an app at a server

Askers  == {l[1] : l \in Links}
Servers == {l[2] : l \in Links}

(* What is answered later, and the two answers each may have.  A stop is   *)
(* answered with success whatever became of it; "gone" is the one that     *)
(* found nothing to end: an app that is not there, or one that ignored the *)
(* request and that this hub did not start.                                *)
Says == [launch |-> {"ok", "refused"}, stop |-> {"ok", "gone"}, probe |-> {"ok", "shut"}]

FleetRequestAssumption ==
    /\ MaxRids \in Nat /\ MaxSession \in Nat \ {0} /\ MaxJobs \in Nat
    /\ \A l \in Links : l = <<l[1], l[2]>>
    /\ Knows \in [Servers -> SUBSET Installs]
    /\ IsFiniteSet(Links) /\ Askers \intersect Servers = {}
    /\ Calls \in [Links -> SUBSET (DOMAIN Says \union {"update-all"})]
    /\ Installs \intersect (DOMAIN Says \union {"update-all", "search"}) = {}

VARIABLES
    live,      \* link -> the number of its session, 0 for none
    opened,    \* the number of the last session
    query,     \* link -> messages to the server, oldest first
    reply,     \* link -> messages to the asker, oldest first
    inflight,  \* requests and searches so far, see Request
    doing,     \* server -> launches, stops and probes that run
    job,       \* server -> app -> the number of its job, 0 for none
    jobs,      \* server -> app -> jobs it has had
    owner,     \* server -> app -> the request its job belongs to, 0 for none; jobOwners
    holds,     \* servers that have the asset searched for
    done,      \* a ghost: requests the server has carried out
    gap,       \* a ghost: <<link, job>> whose end was not to be delivered
    last       \* a ghost: server -> job -> the last request that was given the job, 0 for none

vars == <<live, opened, query, reply, inflight, doing, job, jobs, owner, holds, done, gap, last>>

Rids == 1..MaxRids
Jobs == Installs \X (1..MaxJobs)

(* What is asked for, of whom, in which state; a search asks several hubs  *)
(* and counts the answers it lacks.  jobs: the jobs named in the answer,   *)
(* told: those whose end was relayed.                                      *)
Request == [kind: Installs \union DOMAIN Says \union {"update-all", "search"},
            by: Askers, of: SUBSET Servers,
            state: {"waiting", "ok", "refused", "gone", "shut", "timeout", "ended", "nobody"},
            lacks: Int, jobs: SUBSET Jobs, told: SUBSET Jobs]

TypeOK ==
    /\ live \in [Links -> 0..MaxSession] /\ opened \in 0..MaxSession
    /\ Len(inflight) <= MaxRids /\ \A r \in DOMAIN inflight : inflight[r] \in Request
    /\ \A s \in Servers : doing[s] \subseteq [link: Links, session: 1..MaxSession, rid: Rids,
                                              kind: DOMAIN Says]
    /\ job \in [Servers -> [Installs -> 0..MaxJobs]]
    /\ jobs \in [Servers -> [Installs -> 0..MaxJobs]]
    /\ owner \in [Servers -> [Installs -> 0..MaxRids]]
    /\ last \in [Servers -> [Jobs -> 0..MaxRids]]
    /\ holds \subseteq Servers /\ done \subseteq Rids
    /\ gap \subseteq Links \X Jobs

Init ==
    /\ live = [l \in Links |-> 1] /\ opened = 1
    /\ query = [l \in Links |-> <<>>] /\ reply = [l \in Links |-> <<>>]
    /\ inflight = <<>> /\ doing = [s \in Servers |-> {}]
    /\ job = [s \in Servers |-> [a \in Installs |-> 0]] /\ jobs = job /\ owner = job
    /\ holds \in SUBSET Servers
    /\ done = {} /\ gap = {} /\ last = [s \in Servers |-> [j \in Jobs |-> 0]]

-----------------------------------------------------------------------------
(* Sessions.                                                               *)

Server(l) == l[2]

(* The ends of jobs that were on their way over the session are lost.      *)
Lost(l) == {<<l, j>> : j \in UNION {reply[l][i].jobs : i \in {i \in DOMAIN reply[l] :
                                                               reply[l][i].what = "event"}}}

Cut(l) == /\ query' = [query EXCEPT ![l] = <<>>]
          /\ reply' = [reply EXCEPT ![l] = <<>>]
          /\ gap' = gap \union Lost(l)

(* A first session, or one that replaces another: requests wait on.        *)
Open(l) ==
    /\ opened < MaxSession
    /\ opened' = opened + 1
    /\ live' = [live EXCEPT ![l] = opened']
    /\ Cut(l)
    /\ UNCHANGED <<inflight, doing, job, jobs, owner, holds, done, last>>

(* The session drops, and the requests to that hub fail.  A search is not  *)
(* among them: it waits on.                                                *)
FailInflightFor(l) ==
    [r \in DOMAIN inflight |->
       IF /\ inflight[r].state = "waiting" /\ inflight[r].kind # "search"
          /\ inflight[r].by = l[1] /\ inflight[r].of = {Server(l)}
       THEN [inflight[r] EXCEPT !.state = "ended"]
       ELSE inflight[r]]

Drop(l) ==
    /\ live[l] # 0
    /\ live' = [live EXCEPT ![l] = 0]
    /\ Cut(l)
    /\ inflight' = FailInflightFor(l)
    /\ UNCHANGED <<opened, doing, job, jobs, owner, holds, done, last>>

-----------------------------------------------------------------------------
(* The hub that asks.                                                      *)

Asked(kind, h, whom) ==
    Append(inflight, [kind |-> kind, by |-> h, of |-> whom, state |-> "waiting",
                      lacks |-> Cardinality(whom), jobs |-> {}, told |-> {}])

NextRid == Len(inflight) + 1

(* Without a session the hub dials first; a dial that fails refuses the    *)
(* request before it is one.                                               *)
Ask(l, kind) ==
    /\ live[l] # 0 /\ NextRid \in Rids
    /\ inflight' = Asked(kind, l[1], {Server(l)})
    /\ query' = [query EXCEPT ![l] = Append(@, [kind |-> kind, rid |-> NextRid])]
    /\ UNCHANGED <<live, opened, reply, doing, job, jobs, owner, holds, done, gap, last>>

(* findAsset: every hub with a session is asked at once.                   *)
Search(h) ==
    LET there == {l \in Links : l[1] = h /\ live[l] # 0}
    IN /\ there # {} /\ NextRid \in Rids
       /\ inflight' = Asked("search", h, {Server(l) : l \in there})
       /\ query' = [l \in Links |-> IF l \in there
                                    THEN Append(query[l], [kind |-> "search", rid |-> NextRid])
                                    ELSE query[l]]
       /\ UNCHANGED <<live, opened, reply, doing, job, jobs, owner, holds, done, gap, last>>

Timeout(r) ==
    /\ r \in DOMAIN inflight /\ inflight[r].state = "waiting"
    /\ inflight' = [inflight EXCEPT ![r].state = "timeout"]
    /\ UNCHANGED <<live, opened, query, reply, doing, job, jobs, owner, holds, done, gap, last>>

Waiting(r) == inflight[r].state = "waiting"

Took(l) == reply' = [reply EXCEPT ![l] = Tail(@)]

(* onAck, onProbeResult: an answer that comes after the timeout finds no   *)
(* request.                                                                *)
OnAck(l, m) ==
    /\ m.what \in {"ok", "refused", "gone", "shut"}
    /\ inflight' = IF Waiting(m.rid)
                   THEN [inflight EXCEPT ![m.rid].state = m.what, ![m.rid].jobs = m.jobs]
                   ELSE inflight
    /\ UNCHANGED gap

(* The first yes ends a search, and so does the last no.                   *)
OnAssetHave(l, m) ==
    /\ m.what \in {"have", "lacks"}
    /\ \/ ~Waiting(m.rid) /\ UNCHANGED inflight
       \/ /\ Waiting(m.rid) /\ m.what = "have"
          /\ inflight' = [inflight EXCEPT ![m.rid].state = "ok"]
       \/ /\ Waiting(m.rid) /\ m.what = "lacks" /\ inflight[m.rid].lacks > 1
          /\ inflight' = [inflight EXCEPT ![m.rid].lacks = @ - 1]
       \/ /\ Waiting(m.rid) /\ m.what = "lacks" /\ inflight[m.rid].lacks <= 1
          /\ inflight' = [inflight EXCEPT ![m.rid].state = "nobody", ![m.rid].lacks = 0]
    /\ UNCHANGED gap

(* The end of a job is shown with every request that was told of the job.  *)
OnJobEvent(l, m) ==
    /\ m.what = "event"
    /\ inflight' = [r \in DOMAIN inflight |->
                      IF inflight[r].by = l[1] /\ inflight[r].of = {Server(l)}
                      THEN [inflight[r] EXCEPT
                             !.told = @ \union (m.jobs \intersect inflight[r].jobs)]
                      ELSE inflight[r]]
    /\ UNCHANGED gap

Receive(l) ==
    /\ reply[l] # <<>> /\ Took(l)
    /\ LET m == Head(reply[l]) IN OnAck(l, m) \/ OnAssetHave(l, m) \/ OnJobEvent(l, m)
    /\ UNCHANGED <<live, opened, query, doing, job, jobs, owner, holds, done, last>>

-----------------------------------------------------------------------------
(* The hub that is asked.                                                  *)

Message(what, rid, js) == [what |-> what, rid |-> rid, jobs |-> js]

(* To a session that is no more a message is not sent.                     *)
Sent(l, session, m) ==
    IF live[l] = session /\ session # 0 THEN [reply EXCEPT ![l] = Append(@, m)] ELSE reply

ServedQuery(l) == query' = [query EXCEPT ![l] = Tail(@)]

(* The job an install of the app would be: the one under way, or a new one. *)
JobOf(s, a) == IF job[s][a] # 0 THEN job[s][a] ELSE jobs[s][a] + 1

(* The apps are queued for the request.  One that is being installed joins *)
(* that job, and the job's events go to whoever asked last.                *)
Queue(l, q, apps) ==
    LET s == Server(l)
        given == {<<a, JobOf(s, a)>> : a \in apps}
    IN /\ given \subseteq Jobs
       /\ job' = [job EXCEPT ![s] = [a \in Installs |-> IF a \in apps THEN JobOf(s, a) ELSE @[a]]]
       /\ jobs' = [jobs EXCEPT ![s] = [a \in Installs |-> IF a \in apps /\ job[s][a] = 0
                                                         THEN @[a] + 1 ELSE @[a]]]
       /\ owner' = [owner EXCEPT ![s] = [a \in Installs |-> IF a \in apps THEN q.rid ELSE @[a]]]
       /\ last' = [last EXCEPT ![s] = [j \in Jobs |-> IF j \in given THEN q.rid ELSE @[j]]]
       /\ done' = done \union {q.rid}
       /\ reply' = Sent(l, live[l], Message("ok", q.rid, given))
       /\ UNCHANGED doing

(* What is answered without a job.                                         *)
Answer(l, q, what) ==
    /\ reply' = Sent(l, live[l], Message(what, q.rid, {}))
    /\ UNCHANGED <<doing, job, jobs, owner, done, last>>

OnRemoteInstall(l, q) ==
    /\ q.kind \in Installs
    /\ \/ q.kind \in Knows[Server(l)] /\ Queue(l, q, {q.kind})
       \/ q.kind \notin Knows[Server(l)] /\ Answer(l, q, "refused")

(* Every app that has an update then; what cannot be queued is left out.   *)
OnRemoteUpdateAll(l, q) ==
    /\ q.kind = "update-all"
    /\ \E apps \in SUBSET Knows[Server(l)] : Queue(l, q, apps)

(* A launch, a stop or a probe begins, and its answer comes when it is     *)
(* through; one that names nothing is answered at once.                    *)
OnLater(l, q) ==
    /\ q.kind \in DOMAIN Says
    /\ \/ /\ doing' = [doing EXCEPT ![Server(l)] = @ \union {[link |-> l, session |-> live[l],
                                                             rid |-> q.rid, kind |-> q.kind]}]
          /\ UNCHANGED <<reply, job, jobs, owner, done, last>>
       \/ Answer(l, q, IF q.kind = "probe" THEN "shut" ELSE "refused")

OnAssetQuery(l, q) ==
    /\ q.kind = "search"
    /\ Answer(l, q, IF Server(l) \in holds THEN "have" ELSE "lacks")

Serve(l) ==
    /\ query[l] # <<>> /\ ServedQuery(l)
    /\ LET q == Head(query[l])
       IN OnRemoteInstall(l, q) \/ OnRemoteUpdateAll(l, q) \/ OnLater(l, q) \/ OnAssetQuery(l, q)
    /\ UNCHANGED <<live, opened, inflight, holds, gap>>

(* It is through, and the answer goes where it came from.  "ok": launched; *)
(* left the bus or signalled; the port is open.                            *)
Through(s, d, what) ==
    /\ d \in doing[s]
    /\ doing' = [doing EXCEPT ![s] = @ \ {d}]
    /\ done' = IF what = "ok" THEN done \union {d.rid} ELSE done
    /\ reply' = Sent(d.link, d.session, Message(what, d.rid, {}))
    /\ UNCHANGED <<live, opened, query, inflight, job, jobs, owner, holds, gap, last>>

(* A person at the server installs the app.                                *)
LocalInstall(s, a) ==
    /\ a \in Knows[s] /\ job[s][a] = 0 /\ jobs[s][a] < MaxJobs
    /\ jobs' = [jobs EXCEPT ![s][a] = @ + 1]
    /\ job' = [job EXCEPT ![s][a] = jobs'[s][a]]
    /\ UNCHANGED <<live, opened, query, reply, inflight, doing, owner, holds, done, gap, last>>

(* Mutant: the end goes over the session of the hub's first days.          *)
OwnerSessionFirst(l) == IF live[l] = 1 THEN 1 ELSE 0

(* The session of the moment.                                              *)
OwnerSession(l) == live[l]

(* onHubEvent at the end of a job: relayed to its owner, if it has one.    *)
JobEnds(s, a) ==
    LET rid == owner[s][a]
        l == <<inflight[rid].by, s>>
        ended == <<a, job[s][a]>>
    IN /\ job[s][a] # 0
       /\ job' = [job EXCEPT ![s][a] = 0]
       /\ owner' = [owner EXCEPT ![s][a] = 0]
       /\ IF rid # 0
          THEN /\ reply' = Sent(l, OwnerSession(l), Message("event", rid, {ended}))
               /\ gap' = IF live[l] = 0 THEN gap \union {<<l, ended>>} ELSE gap
          ELSE UNCHANGED <<reply, gap>>
       /\ UNCHANGED <<live, opened, query, inflight, doing, jobs, holds, done, last>>

Next ==
    \/ \E l \in Links : Open(l) \/ Drop(l) \/ Serve(l) \/ Receive(l)
    \/ \E l \in Links : \E kind \in Installs \union Calls[l] : Ask(l, kind)
    \/ \E h \in Askers : Search(h)
    \/ \E r \in Rids : Timeout(r)
    \/ \E s \in Servers : \E d \in doing[s] : \E what \in Says[d.kind] : Through(s, d, what)
    \/ \E s \in Servers, a \in Installs : LocalInstall(s, a) \/ JobEnds(s, a)

Spec == Init /\ [][Next]_vars

-----------------------------------------------------------------------------
(* Properties.                                                             *)

(* A request that shows as done was carried out (a stop that is answered   *)
(* with success and "gone" is not among them), and a search that ends      *)
(* before its time without a hub asked none that has the asset.            *)
AnswersAreTrue ==
    \A r \in DOMAIN inflight :
        /\ inflight[r].state = "ok" /\ inflight[r].kind # "search" => r \in done
        /\ inflight[r].state = "nobody" => inflight[r].of \intersect holds = {}

Quiet(l) == query[l] = <<>> /\ reply[l] = <<>>

(* A hub that was told of a job is told of its end, over whatever session  *)
(* there is then: unless there is none, or the message is lost with one,   *)
(* or the last hub that was given the same job is another one.  (Without   *)
(* the last exception it does not hold.)                                   *)
EndReachesAsker ==
    \A r \in DOMAIN inflight : \A l \in Links : \A j \in inflight[r].jobs :
        /\ inflight[r].by = l[1] /\ inflight[r].of = {Server(l)}
        /\ job[Server(l)][j[1]] # j[2]
        /\ Quiet(l) /\ <<l, j>> \notin gap
        /\ inflight[last[Server(l)][j]].by = l[1]
        => j \in inflight[r].told

(* Both together: the hub that asked learns what became of it.             *)
AskersAreTold == TypeOK /\ AnswersAreTrue /\ EndReachesAsker
=============================================================================
