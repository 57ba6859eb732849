--------------------------- MODULE JobQueueProofs ---------------------------
(***************************************************************************)
(* What holds of the job queue and its download slots for any number of    *)
(* apps, requests, jobs, pre-downloads and slots.                          *)
(***************************************************************************)
EXTENDS JobQueue, SequenceTheorems, FiniteSetTheorems, TLAPS

-----------------------------------------------------------------------------
(* The semaphore.                                                          *)

\* The waiter list w is exactly who is blocked according to ph, each once.
Lined(w, ph) ==
  /\ \A i \in DOMAIN w : ph[w[i]] = "waitSlot"
  /\ \A u \in Users : ph[u] = "waitSlot" => \E i \in DOMAIN w : w[i] = u
  /\ \A i, k \in DOMAIN w : w[i] = w[k] => i = k

\* From ph to ph2, blocked users may have been woken; nobody else moved.
Woken(ph, ph2) ==
  \A x \in Users : ph2[x] = ph[x] \/ (ph[x] = "waitSlot" /\ ph2[x] = "transfer")

InTransfer(ph) == {x \in Users : ph[x] = "transfer"}

\* There are finitely many users of download slots, so that transfers can be counted.
LEMMA UsersFinite == IsFiniteSet(Users)
<1>1. IsFiniteSet(Jobs)
  BY FS_Interval, QueueAssumption DEF Jobs
<1> QED
  BY <1>1, FS_Union, QueueAssumption DEF Users

\* drainDownloadWaiters wakes no more waiters than there are, fills the limit and
\* no more, and leaves somebody waiting only when the limit is reached.
LEMMA GrantsBounds ==
  ASSUME NEW lim \in Nat, NEW u \in Nat, NEW w \in Seq(Users)
  PROVE  /\ Grants(lim, u, w) \in 0..Len(w)
         /\ Grants(lim, u, w) > 0 => u + Grants(lim, u, w) <= lim
         /\ Grants(lim, u, w) < Len(w) => u + Grants(lim, u, w) >= lim
<1>1. Len(w) \in Nat
  BY LenProperties
<1> QED
  BY <1>1 DEF Grants

\* Everything drainDownloadWaiters does to the semaphore: it keeps the list
\* exact, it counts whom it wakes, it stays within the limit and it leaves
\* nobody waiting while there is room.
LEMMA DrainEffect ==
  ASSUME NEW lim \in Nat, NEW u \in Nat, NEW w \in Seq(Users),
         NEW ph \in [Users -> Phase],
         Lined(w, ph), Drain(lim, u, w, ph)
  PROVE  /\ used' \in Nat
         /\ waiters' \in Seq(Users)
         /\ phase' \in [Users -> Phase]
         /\ Woken(ph, phase')
         /\ Lined(waiters', phase')
         /\ u = Cardinality(InTransfer(ph)) => used' = Cardinality(InTransfer(phase'))
         /\ waiters' # <<>> => used' >= lim
         /\ ~(InTransfer(phase') \subseteq InTransfer(ph)) => used' <= lim
<1> DEFINE g == Grants(lim, u, w)
           W == {w[i] : i \in 1..g}
<1>1. /\ g \in 0..Len(w) /\ Len(w) \in Nat /\ DOMAIN w = 1..Len(w)
      /\ g > 0 => u + g <= lim
      /\ g < Len(w) => u + g >= lim
      /\ \A i \in 1..Len(w) : w[i] \in Users
  BY GrantsBounds, LenProperties, ElementOfSeq
<1>2. /\ used' = u + g
      /\ waiters' = SubSeq(w, g + 1, Len(w))
      /\ phase' = [x \in Users |-> IF \E i \in 1..g : w[i] = x THEN "transfer" ELSE ph[x]]
  BY DEF Drain
<1>0. /\ g \in Nat /\ Len(w) \in Nat /\ g <= Len(w)
      /\ g < Len(w) => u + g >= lim
  BY <1>1
<1> HIDE DEF g
<1>3. /\ waiters' \in Seq(Users)
      /\ Len(waiters') = Len(w) - g
      /\ \A i \in 1..(Len(w) - g) : waiters'[i] = w[g + i]
  <2>1. \A i \in (g + 1)..Len(w) : w[i] \in Users
    BY <1>1
  <2>2. /\ SubSeq(w, g + 1, Len(w)) \in Seq(Users)
        /\ Len(SubSeq(w, g + 1, Len(w))) = IF g + 1 <= Len(w) THEN Len(w) - (g + 1) + 1 ELSE 0
        /\ \A i \in 1..(Len(w) - (g + 1) + 1) : SubSeq(w, g + 1, Len(w))[i] = w[(g + 1) + i - 1]
    BY <1>1, <2>1, SubSeqProperties
  <2>3. \A i \in 1..(Len(w) - g) : (g + 1) + i - 1 = g + i /\ i \in 1..(Len(w) - (g + 1) + 1)
    BY <1>1
  <2>4. (IF g + 1 <= Len(w) THEN Len(w) - (g + 1) + 1 ELSE 0) = Len(w) - g
    BY <1>0
  <2>5. \A i \in 1..(Len(w) - g) : waiters'[i] = w[g + i]
    BY <1>2, <2>2, <2>3
  <2> QED
    BY <1>2, <2>2, <2>4, <2>5
<1>4. phase' \in [Users -> Phase]
  BY <1>2 DEF Phase
<1>5. \A i \in 1..g : w[i] \in Users /\ ph[w[i]] = "waitSlot"
  BY <1>1 DEF Lined
<1>6. Woken(ph, phase')
  BY <1>2, <1>5 DEF Woken
<1>7. Lined(waiters', phase')
  <2>0. DOMAIN waiters' = 1..(Len(w) - g)
    BY <1>3, LenProperties
  <2>1. ASSUME NEW i \in DOMAIN waiters' PROVE phase'[waiters'[i]] = "waitSlot"
    <3>1. /\ g + i \in 1..Len(w) /\ waiters'[i] = w[g + i] /\ w[g + i] \in Users
          /\ ~(g + i \in 1..g)
      BY <1>1, <1>3, <2>0
    <3>2. ~(\E k \in 1..g : w[k] = w[g + i])
      BY <1>1, <3>1 DEF Lined
    <3> QED
      BY <1>1, <1>2, <3>1, <3>2 DEF Lined
  <2>2. ASSUME NEW x \in Users, phase'[x] = "waitSlot"
        PROVE  \E i \in DOMAIN waiters' : waiters'[i] = x
    <3>1. ph[x] = "waitSlot" /\ ~(\E i \in 1..g : w[i] = x)
      BY <1>2, <2>2
    <3>2. PICK k \in 1..Len(w) : w[k] = x
      BY <1>1, <3>1 DEF Lined
    <3>3. k > g
      BY <1>1, <3>1, <3>2
    <3>4. k - g \in 1..(Len(w) - g) /\ g + (k - g) = k
      BY <1>1, <3>2, <3>3
    <3> QED
      BY <1>3, <2>0, <3>2, <3>4
  <2>3. ASSUME NEW i \in DOMAIN waiters', NEW k \in DOMAIN waiters', waiters'[i] = waiters'[k]
        PROVE  i = k
    <3>1. /\ g + i \in 1..Len(w) /\ waiters'[i] = w[g + i]
          /\ g + k \in 1..Len(w) /\ waiters'[k] = w[g + k]
      BY <1>1, <1>3, <2>0
    <3>2. g + i = g + k
      BY <1>1, <2>3, <3>1 DEF Lined
    <3> QED
      BY <1>1, <2>0, <3>2
  <2> QED
    BY <2>1, <2>2, <2>3 DEF Lined
<1>8. ASSUME u = Cardinality(InTransfer(ph))
      PROVE  used' = Cardinality(InTransfer(phase'))
  <2>1. IsFiniteSet(W) /\ Cardinality(W) = g
    <3> DEFINE f == [i \in 1..g |-> w[i]]
    <3>1. f \in Bijection(1..g, W)
      <4>1. \A i, k \in 1..g : f[i] = f[k] => i = k
        BY <1>1 DEF Lined
      <4> QED
        BY <4>1 DEF Bijection, Injection, Surjection, IsInjective
    <3>2. ExistsBijection(1..g, W)
      BY <3>1 DEF ExistsBijection
    <3>3. IsFiniteSet(1..g) /\ Cardinality(1..g) = g
      BY <1>1, FS_Interval
    <3> HIDE DEF W
    <3> QED
      BY <3>2, <3>3, FS_Bijection
  <2>2. IsFiniteSet(InTransfer(ph))
    BY UsersFinite, FS_Subset DEF InTransfer
  <2>3. InTransfer(phase') = InTransfer(ph) \cup W
    BY <1>2, <1>5 DEF InTransfer
  <2>4. InTransfer(ph) \cap W = {}
    BY <1>5 DEF InTransfer
  <2> HIDE DEF W
  <2>5. Cardinality(InTransfer(ph) \cap W) = 0
    BY <2>4, FS_EmptySet
  <2>6. Cardinality(InTransfer(ph) \cup W)
          = Cardinality(InTransfer(ph)) + Cardinality(W) - Cardinality(InTransfer(ph) \cap W)
    BY <2>1, <2>2, FS_Union
  <2>7. Cardinality(InTransfer(phase')) = u + g - 0
    BY <1>8, <2>1, <2>3, <2>5, <2>6
  <2> QED
    BY <1>1, <1>2, <2>7
<1>9. waiters' # <<>> => used' >= lim
  <2>1. waiters' # <<>> => Len(w) - g # 0
    BY <1>3, EmptySeq
  <2> QED
    BY <1>0, <1>2, <2>1
<1>10. ~(InTransfer(phase') \subseteq InTransfer(ph)) => used' <= lim
  <2>1. g = 0 => InTransfer(phase') = InTransfer(ph)
    BY <1>2 DEF InTransfer
  <2> QED
    BY <1>1, <1>2, <2>1
<1>11. used' \in Nat
  BY <1>1, <1>2
<1> QED
  BY <1>3, <1>4, <1>6, <1>7, <1>8, <1>9, <1>10, <1>11

\* What the semaphore's variables promise: an exact list, an exact count, and
\* nobody waiting while there is room.
SlotFacts(lim, u, w, ph) ==
  /\ Lined(w, ph)
  /\ u = Cardinality(InTransfer(ph))
  /\ w # <<>> => u >= lim

SlotTypes == /\ limit \in 0..MaxSlots /\ used \in Nat
             /\ waiters \in Seq(Users) /\ phase \in [Users -> Phase]

SlotInv == SlotTypes /\ SlotFacts(limit, used, waiters, phase)

\* A step keeps SlotInv and starts transfers only within the limit.
SlotStep == /\ SlotInv'
            /\ ~(InTransfer(phase') \subseteq InTransfer(phase)) => used' <= limit'

\* A run that begins keeps the semaphore's promises, whatever limit it sets.
LEMMA BeginRunSlots ==
  ASSUME SlotInv, NEW j \in Jobs, phase[j] = "idle", NEW req, BeginRun(j, req)
  PROVE  /\ SlotStep
         /\ \E to \in {"prepare", "engine", "unwind"} :
              Woken([phase EXCEPT ![j] = to], phase')
<1> USE DEF SlotInv, SlotTypes
<1>1. j \in Users
  BY DEF Users
<1>2. ASSUME NEW to \in {"prepare", "engine", "unwind"}
      PROVE  /\ [phase EXCEPT ![j] = to] \in [Users -> Phase]
             /\ Lined(waiters, [phase EXCEPT ![j] = to])
             /\ InTransfer([phase EXCEPT ![j] = to]) = InTransfer(phase)
  <2>1. \A i \in DOMAIN waiters : waiters[i] \in Users
    BY LenProperties, ElementOfSeq
  <2> QED
    BY <1>1, <2>1 DEF SlotFacts, Lined, InTransfer, Phase
<1>3. CASE SetDownloadLimit([phase EXCEPT ![j] = "prepare"])
  <2>1. PICK n \in 1..MaxSlots : /\ limit' = n
                                 /\ Drain(n, used, waiters, [phase EXCEPT ![j] = "prepare"])
    BY <1>3 DEF SetDownloadLimit
  <2>2. n \in Nat /\ n \in 0..MaxSlots
    BY QueueAssumption
  <2> DEFINE ph == [phase EXCEPT ![j] = "prepare"]
  <2>3. /\ used' \in Nat /\ waiters' \in Seq(Users) /\ phase' \in [Users -> Phase]
        /\ Woken(ph, phase')
        /\ Lined(waiters', phase')
        /\ used = Cardinality(InTransfer(ph)) => used' = Cardinality(InTransfer(phase'))
        /\ waiters' # <<>> => used' >= n
        /\ ~(InTransfer(phase') \subseteq InTransfer(ph)) => used' <= n
    <3> HIDE DEF ph
    <3>1. ph \in [Users -> Phase] /\ Lined(waiters, ph)
      BY <1>2 DEF ph
    <3> QED
      BY <2>1, <2>2, <3>1, DrainEffect DEF ph
  <2> QED
    BY <1>2, <2>1, <2>2, <2>3 DEF SlotStep, SlotFacts
<1>4. ASSUME NEW to \in {"engine", "unwind"},
             phase' = [phase EXCEPT ![j] = to], UNCHANGED slotVars
      PROVE  SlotStep /\ Woken([phase EXCEPT ![j] = to], phase')
  BY <1>2, <1>4 DEF slotVars, SlotStep, SlotFacts, Woken
<1> QED
  BY <1>3, <1>4 DEF BeginRun

\* A policy that starts a pre-download holds no slot yet: the slots are untouched.
LEMMA StartPrefetchSlots ==
  ASSUME SlotInv, NEW p \in Prefetchers, StartPrefetch(p)
  PROVE  SlotStep /\ Woken([phase EXCEPT ![p] = "prepare"], phase')
<1> USE DEF SlotInv, SlotTypes
<1> DEFINE ph == [phase EXCEPT ![p] = "prepare"]
<1>1. p \in Users /\ phase[p] = "idle"
  BY DEF Users, StartPrefetch
<1>2. /\ ph \in [Users -> Phase] /\ Lined(waiters, ph)
      /\ InTransfer(ph) = InTransfer(phase)
  <2>1. \A i \in DOMAIN waiters : waiters[i] \in Users
    BY LenProperties, ElementOfSeq
  <2> QED
    BY <1>1, <2>1 DEF SlotFacts, Lined, InTransfer, Phase
<1>3. PICK n \in 1..MaxSlots : limit' = n /\ Drain(n, used, waiters, ph)
  BY DEF StartPrefetch, SetDownloadLimit
<1>4. n \in Nat /\ n \in 0..MaxSlots
  BY QueueAssumption
<1> HIDE DEF ph
<1>5. /\ used' \in Nat /\ waiters' \in Seq(Users) /\ phase' \in [Users -> Phase]
      /\ Woken(ph, phase')
      /\ Lined(waiters', phase')
      /\ used = Cardinality(InTransfer(ph)) => used' = Cardinality(InTransfer(phase'))
      /\ waiters' # <<>> => used' >= n
      /\ ~(InTransfer(phase') \subseteq InTransfer(ph)) => used' <= n
  BY <1>2, <1>3, <1>4, DrainEffect
<1> QED
  BY <1>2, <1>3, <1>4, <1>5 DEF SlotStep, SlotFacts, ph

\* A slot given back, by whatever way the transfer ended.
LEMMA ReleaseSlots ==
  ASSUME SlotInv, NEW u \in Users, phase[u] = "transfer",
         NEW next \in {"idle", "prepare", "engine", "unwind"}, ReleaseSlot(u, next)
  PROVE  SlotStep /\ Woken([phase EXCEPT ![u] = next], phase')
<1> USE DEF SlotInv, SlotTypes
<1> DEFINE ph == [phase EXCEPT ![u] = next]
           less == IF used > 0 THEN used - 1 ELSE 0
<1>1. ph \in [Users -> Phase] /\ InTransfer(ph) = InTransfer(phase) \ {u}
  BY DEF Phase, InTransfer
<1>2. Lined(waiters, ph)
  <2>1. \A i \in DOMAIN waiters : waiters[i] \in Users
    BY LenProperties, ElementOfSeq
  <2> QED
    BY <2>1 DEF SlotFacts, Lined
<1>3. less \in Nat /\ less = Cardinality(InTransfer(ph))
  <2>1. IsFiniteSet(InTransfer(phase)) /\ u \in InTransfer(phase)
    BY UsersFinite, FS_Subset DEF InTransfer
  <2>2. Cardinality(InTransfer(phase) \ {u}) = used - 1
    BY <2>1, FS_RemoveElement DEF SlotFacts
  <2>3. used # 0
    BY <2>1, FS_EmptySet DEF SlotFacts
  <2>4. used > 0 /\ used - 1 \in Nat
    BY <2>3
  <2> HIDE DEF ph
  <2> QED
    BY ONLY <1>1, <2>2, <2>4 DEF less
<1>4. Drain(limit, less, waiters, ph) /\ limit' = limit /\ limit \in Nat
  BY QueueAssumption DEF ReleaseSlot
<1> HIDE DEF ph, less
<1>5. /\ used' \in Nat /\ waiters' \in Seq(Users) /\ phase' \in [Users -> Phase]
      /\ Woken(ph, phase')
      /\ Lined(waiters', phase')
      /\ used' = Cardinality(InTransfer(phase'))
      /\ waiters' # <<>> => used' >= limit
      /\ ~(InTransfer(phase') \subseteq InTransfer(ph)) => used' <= limit
  BY <1>1, <1>2, <1>3, <1>4, DrainEffect
<1> QED
  BY <1>1, <1>4, <1>5 DEF SlotStep, SlotFacts, ph

\* A slot taken, or a place at the end of the line.
LEMMA AcquireSlots ==
  ASSUME SlotInv, NEW u \in Users, phase[u] = "prepare", AcquireSlot(u)
  PROVE  /\ SlotStep
         /\ \E to \in {"transfer", "waitSlot"} : phase' = [phase EXCEPT ![u] = to]
<1> USE DEF SlotInv, SlotTypes
<1>1. /\ \A i \in DOMAIN waiters : waiters[i] \in Users
      /\ Len(waiters) \in Nat /\ DOMAIN waiters = 1..Len(waiters)
  BY LenProperties, ElementOfSeq
<1>2. limit \in Nat
  BY QueueAssumption
<1>3. ASSUME used < limit, used' = used + 1, phase' = [phase EXCEPT ![u] = "transfer"],
             UNCHANGED <<limit, waiters>>
      PROVE  SlotStep
  <2>1. IsFiniteSet(InTransfer(phase)) /\ u \notin InTransfer(phase)
    BY UsersFinite, FS_Subset DEF InTransfer
  <2>2. InTransfer(phase') = InTransfer(phase) \cup {u}
    BY <1>3 DEF InTransfer
  <2>3. used' = Cardinality(InTransfer(phase'))
    BY <1>3, <2>1, <2>2, FS_AddElement DEF SlotFacts
  <2>4. Lined(waiters', phase')
    BY <1>1, <1>3 DEF SlotFacts, Lined
  <2>5. phase' \in [Users -> Phase] /\ used' \in Nat /\ used' <= limit' /\ waiters' = <<>>
    BY <1>2, <1>3 DEF Phase, SlotFacts
  <2> QED
    BY <1>3, <2>3, <2>4, <2>5 DEF SlotStep, SlotFacts
<1>4. ASSUME used >= limit, waiters' = Append(waiters, u),
             phase' = [phase EXCEPT ![u] = "waitSlot"], UNCHANGED <<limit, used>>
      PROVE  SlotStep
  <2>1. /\ waiters' \in Seq(Users) /\ DOMAIN waiters' = 1..(Len(waiters) + 1)
        /\ \A i \in 1..Len(waiters) : waiters'[i] = waiters[i]
        /\ waiters'[Len(waiters) + 1] = u
    BY <1>1, <1>4
  <2>2. phase' \in [Users -> Phase] /\ InTransfer(phase') = InTransfer(phase)
    BY <1>4 DEF Phase, InTransfer
  <2>3. Lined(waiters', phase')
    BY <1>1, <1>4, <2>1 DEF SlotFacts, Lined
  <2> QED
    BY <1>4, <2>1, <2>2, <2>3 DEF SlotStep, SlotFacts
<1> QED
  BY <1>3, <1>4 DEF AcquireSlot

-----------------------------------------------------------------------------
(* Dispatching.                                                            *)

OwnerIn(req, j) == IF req[j] \in Requests THEN AppOf[req[j]] ELSE NoApp

\* SerialPerApp of statuses st, requests req, active jobs ac and phases ph.
Serial(st, req, ac, ph) ==
  /\ \A j \in Jobs : /\ st[j] = "running" <=> (\E a \in Apps : ac[a] = j)
                     /\ st[j] = "running" <=> ph[j] # "idle"
  /\ \A a \in Apps : ac[a] # NoJob => OwnerIn(req, ac[a]) = a

\* QueueIsExact for one app's queue q.
ExactFor(a, q, st, req) ==
  /\ \A i \in DOMAIN q : st[q[i]] = "queued" /\ OwnerIn(req, q[i]) = a
  /\ \A i, k \in DOMAIN q : i < k => q[i] < q[k]
  /\ \A j \in Jobs : st[j] = "queued" /\ OwnerIn(req, j) = a => \E i \in DOMAIN q : q[i] = j

Exact(st, req, pd) == \A a \in Apps : ExactFor(a, pd[a], st, req)

QueueTypes == pending \in [Apps -> Seq(Jobs)] /\ active \in [Apps -> Jobs \cup {NoJob}]

\* Of statuses st, at most that of the oldest queued job of app a changes, and
\* it changes to "running" and only if nothing of the app runs.
ServesOldest(a, st, req) ==
  \/ status' = st
  \/ /\ active[a] = NoJob
     /\ \E k \in Jobs :
          /\ st[k] = "queued" /\ OwnerIn(req, k) = a
          /\ \A l \in Jobs : l < k => ~(OwnerIn(req, l) = a /\ st[l] = "queued")
          /\ status' = [st EXCEPT ![k] = "running"]

\* What a pump of app a leaves behind, given what it found.
PumpResult(a, st, req) ==
  /\ SlotStep /\ ServesOldest(a, st, req)
  /\ QueueTypes' /\ status' \in [Jobs -> Status]
  /\ Serial(status', req, active', phase')
  /\ Exact(status', req, pending')
  /\ pending'[a] # <<>> => active'[a] # NoJob
  /\ \A b \in Apps \ {a} : pending'[b] = pending[b] /\ active'[b] = active[b]
  /\ \A j \in Jobs : status'[j] = st[j] \/ (st[j] = "queued" /\ status'[j] = "running")

\* Arithmetic of the indices of a queue without its head.
LEMMA TailLength ==
  ASSUME NEW n \in Nat, n >= 1
  PROVE  (IF 2 <= n THEN n - 2 + 1 ELSE 0) = n - 1
OBVIOUS

\* Arithmetic of the indices of a waiter list without its first m entries.
LEMMA RestLength ==
  ASSUME NEW n \in Nat, NEW m \in Nat, m <= n
  PROVE  /\ (IF m + 1 <= n THEN n - (m + 1) + 1 ELSE 0) = n - m
         /\ n - (m + 1) + 1 = n - m
         /\ \A i \in 1..(n - m) : (m + 1) + i - 1 = m + i
OBVIOUS

\* A pump that finds an exact queue leaves it exact, starts at most the oldest
\* job and never leaves jobs waiting for an idle app.
LEMMA PumpEffect ==
  ASSUME SlotInv, QueueTypes,
         NEW a \in Apps, NEW q \in Seq(Jobs), NEW st \in [Jobs -> Status],
         NEW req \in [Jobs -> Requests \cup {NoRequest}],
         Serial(st, req, active, phase),
         Exact(st, req, [pending EXCEPT ![a] = q]),
         Pump(a, q, st, req)
  PROVE  PumpResult(a, st, req)
<1> USE DEF QueueTypes
<1>1. /\ ExactFor(a, q, st, req)
      /\ \A b \in Apps \ {a} : ExactFor(b, pending[b], st, req)
  BY DEF Exact
<1>2. /\ Len(q) \in Nat /\ DOMAIN q = 1..Len(q)
      /\ \A i \in 1..Len(q) : q[i] \in Jobs
  BY LenProperties, ElementOfSeq
<1>3. SlotTypes /\ phase \in [Users -> Phase] /\ Jobs \subseteq Users /\ 0 \notin Jobs
  BY DEF SlotInv, SlotTypes, Users, Jobs
<1>4. ASSUME pending' = [pending EXCEPT ![a] = q], status' = st,
             UNCHANGED <<active, slotVars, phase>>, active[a] # NoJob \/ q = <<>>
      PROVE  PumpResult(a, st, req)
  <2>1. SlotStep
    BY <1>4 DEF SlotStep, SlotInv, SlotTypes, SlotFacts, Lined, slotVars
  <2> QED
    BY <1>4, <2>1 DEF PumpResult, ServesOldest
<1>5. CASE active[a] = NoJob /\ FirstQueued(q, st) = {} /\ pending' = [pending EXCEPT ![a] = <<>>]
           /\ status' = st /\ UNCHANGED <<active, slotVars, phase>>
  <2>1. Len(q) = 0
    <3>1. ASSUME Len(q) # 0 PROVE 1 \in FirstQueued(q, st)
      <4>1. 1 \in DOMAIN q /\ 1..(1 - 1) = {}
        BY <1>2, <3>1
      <4>2. st[q[1]] = "queued"
        BY <1>1, <4>1 DEF ExactFor
      <4> QED
        BY <4>1, <4>2 DEF FirstQueued
    <3> QED
      BY <1>5, <3>1
  <2>2. q = <<>>
    BY <2>1, EmptySeq
  <2> QED
    BY <1>4, <1>5, <2>2
<1>6. ASSUME active[a] = NoJob, NEW i \in FirstQueued(q, st),
             pending' = [pending EXCEPT ![a] = SubSeq(q, i + 1, Len(q))],
             active' = [active EXCEPT ![a] = q[i]],
             status' = [st EXCEPT ![q[i]] = "running"],
             BeginRun(q[i], req)
      PROVE  PumpResult(a, st, req)
  <2>1. i = 1 /\ 1 \in 1..Len(q)
    <3>1. i \in 1..Len(q) /\ \A k \in 1..(i - 1) : st[q[k]] # "queued"
      BY <1>2, <1>6 DEF FirstQueued
    <3>2. i # 1 => 1 \in 1..(i - 1) /\ 1 \in 1..Len(q)
      BY <1>2, <3>1
    <3> QED
      BY <1>1, <1>2, <3>1, <3>2 DEF ExactFor
  <2> DEFINE j == q[1]
             r == SubSeq(q, 2, Len(q))
  <2>2. /\ j \in Jobs /\ st[j] = "queued" /\ OwnerIn(req, j) = a
        /\ phase[j] = "idle" /\ \A b \in Apps : active[b] # j
    <3>1. j \in Jobs /\ st[j] = "queued" /\ OwnerIn(req, j) = a
      BY <1>1, <1>2, <2>1 DEF ExactFor
    <3> HIDE DEF j
    <3> QED
      BY <3>1 DEF Serial
  <2>0. Len(q) \in Nat /\ Len(q) >= 1
    BY <1>2, <2>1
  <2>3. /\ r \in Seq(Jobs) /\ DOMAIN r = 1..(Len(q) - 1)
        /\ \A k \in 1..(Len(q) - 1) : r[k] = q[k + 1]
    <3>1. \A k \in 2..Len(q) : q[k] \in Jobs
      BY <1>2
    <3>2. /\ r \in Seq(Jobs)
          /\ Len(r) = IF 2 <= Len(q) THEN Len(q) - 2 + 1 ELSE 0
          /\ \A k \in 1..(Len(q) - 2 + 1) : r[k] = q[2 + k - 1]
      BY <1>2, <3>1, SubSeqProperties
    <3>3. Len(r) = Len(q) - 1
      BY <2>0, <3>2, TailLength
    <3>4. \A k \in 1..(Len(q) - 1) : 2 + k - 1 = k + 1 /\ k \in 1..(Len(q) - 2 + 1)
      BY ONLY <2>0
    <3> QED
      BY <3>2, <3>3, <3>4, LenProperties
  <2>4. /\ pending' = [pending EXCEPT ![a] = r]
        /\ active' = [active EXCEPT ![a] = j]
        /\ status' = [st EXCEPT ![j] = "running"]
        /\ BeginRun(j, req)
    BY <1>6, <2>1
  <2> HIDE DEF j, r
  <2>5. /\ SlotStep
        /\ \E to \in {"prepare", "engine", "unwind"} :
              Woken([phase EXCEPT ![j] = to], phase')
    BY <2>2, <2>4, BeginRunSlots
  <2>6. phase'[j] # "idle" /\ \A k \in Jobs \ {j} : phase'[k] = "idle" <=> phase[k] = "idle"
    BY <1>3, <2>2, <2>5 DEF Woken
  <2>7. Serial(status', req, active', phase')
    BY <1>3, <1>6, <2>2, <2>4, <2>6 DEF Serial, NoJob
  <2>8. ExactFor(a, r, status', req)
    <3>0. \A k \in 1..(Len(q) - 1) : k + 1 \in 1..Len(q) /\ 1 < k + 1
      BY ONLY <2>0
    <3>1. \A k \in 1..(Len(q) - 1) : /\ k + 1 \in 1..Len(q) /\ 1 < k + 1
                                     /\ r[k] = q[k + 1] /\ q[k + 1] \in Jobs
      BY <1>2, <2>3, <3>0
    <3>2. \A k \in 1..(Len(q) - 1) : st[r[k]] = "queued" /\ OwnerIn(req, r[k]) = a
      BY <1>1, <1>2, <3>1 DEF ExactFor
    <3>6. \A k \in 1..(Len(q) - 1) : r[k] # j
      <4>1. \A k \in 1..(Len(q) - 1) : q[1] < q[k + 1]
        BY <1>1, <1>2, <2>1, <3>1 DEF ExactFor
      <4>2. \A x, y \in Jobs : x < y => x # y
        BY DEF Jobs
      <4> QED
        BY <2>2, <3>1, <4>1, <4>2 DEF j
    <3>3. \A k, l \in 1..(Len(q) - 1) : k < l => r[k] < r[l]
      <4>1. \A k, l \in 1..(Len(q) - 1) : k < l => k + 1 < l + 1
        BY ONLY <2>0
      <4>2. \A k, l \in 1..Len(q) : k < l => q[k] < q[l]
        BY <1>1, <1>2 DEF ExactFor
      <4> QED
        BY ONLY <3>1, <4>1, <4>2
    <3>4. ASSUME NEW x \in Jobs, status'[x] = "queued", OwnerIn(req, x) = a
          PROVE  \E k \in 1..(Len(q) - 1) : r[k] = x
      <4>1. st[x] = "queued" /\ x # j
        BY <2>2, <2>4, <3>4
      <4>2. PICK k \in 1..Len(q) : q[k] = x
        BY <1>1, <1>2, <3>4, <4>1 DEF ExactFor
      <4>3. k # 1
        BY <4>1, <4>2 DEF j
      <4>4. k - 1 \in 1..(Len(q) - 1) /\ (k - 1) + 1 = k
        BY <1>2, <4>2, <4>3
      <4> QED
        BY <2>3, <4>2, <4>4
    <3>5. \A k \in 1..(Len(q) - 1) : status'[r[k]] = "queued"
      BY <2>4, <3>1, <3>2, <3>6
    <3> QED
      BY <2>3, <3>2, <3>3, <3>4, <3>5 DEF ExactFor
  <2>9. ASSUME NEW b \in Apps \ {a} PROVE ExactFor(b, pending'[b], status', req)
    <3>1. pending'[b] = pending[b] /\ pending[b] \in Seq(Jobs)
      BY <2>4
    <3>2. \A k \in DOMAIN pending[b] : pending[b][k] \in Jobs
      BY <3>1, LenProperties, ElementOfSeq
    <3>3. \A k \in DOMAIN pending[b] : pending[b][k] # j
      BY <1>1, <2>2 DEF ExactFor
    <3> QED
      BY <1>1, <2>2, <2>4, <3>1, <3>2, <3>3 DEF ExactFor
  <2>10. Exact(status', req, pending')
    <3>1. pending'[a] = r
      BY <2>4
    <3> QED
      BY <2>8, <2>9, <3>1 DEF Exact
  <2>11. QueueTypes' /\ status' \in [Jobs -> Status]
    BY <2>2, <2>3, <2>4 DEF Status
  <2>12. active'[a] # NoJob
    BY <1>3, <2>2, <2>4 DEF NoJob
  <2>13. ServesOldest(a, st, req)
    <3>1. ASSUME NEW l \in Jobs, l < j, OwnerIn(req, l) = a, st[l] = "queued" PROVE FALSE
      <4>1. PICK k \in 1..Len(q) : q[k] = l
        BY <1>1, <1>2, <3>1 DEF ExactFor
      <4>2. \A m, n \in 1..Len(q) : m < n => q[m] < q[n]
        BY <1>1, <1>2 DEF ExactFor
      <4>3. 1 \in 1..Len(q) /\ (k # 1 => 1 < k)
        BY <2>1, <4>1
      <4> QED
        BY <2>2, <3>1, <4>1, <4>2, <4>3 DEF j, Jobs
    <3> QED
      BY <1>6, <2>2, <2>4, <3>1 DEF ServesOldest
  <2> QED
    BY <2>2, <2>4, <2>5, <2>7, <2>10, <2>11, <2>12, <2>13 DEF PumpResult
<1>7. CASE active[a] # NoJob /\ pending' = [pending EXCEPT ![a] = q] /\ status' = st
           /\ UNCHANGED <<active, slotVars, phase>>
  BY <1>4, <1>7
<1> QED
  BY <1>5, <1>6, <1>7 DEF Pump

\* w is queue q without job j.
IsRest(q, j, w) ==
  /\ w \in Seq(Jobs)
  /\ \A i \in DOMAIN w : w[i] # j /\ \E k \in DOMAIN q : w[i] = q[k]
  /\ \A k \in DOMAIN q : q[k] # j => \E i \in DOMAIN w : w[i] = q[k]
  /\ \A i, k \in DOMAIN w : i < k => w[i] < w[k]

\* Removing a job from a queue keeps everybody else, in order.
LEMMA WithoutEffect ==
  ASSUME NEW q \in Seq(Jobs), NEW j \in Jobs,
         \A i, k \in DOMAIN q : i < k => q[i] < q[k]
  PROVE  IsRest(q, j, Without(q, j))
<1> DEFINE w == Without(q, j)
<1> SUFFICES IsRest(q, j, w)
  OBVIOUS
<1> USE DEF IsRest
<1>0. \A x, y \in Jobs : x < y => x # y
  BY DEF Jobs
<1>1. /\ Len(q) \in Nat /\ DOMAIN q = 1..Len(q)
      /\ \A i \in 1..Len(q) : q[i] \in Jobs
  BY LenProperties, ElementOfSeq
<1>2. CASE ~\E i \in DOMAIN q : q[i] = j
  BY <1>2 DEF Without
<1>3. CASE \E i \in DOMAIN q : q[i] = j
  <2> DEFINE m == CHOOSE k \in DOMAIN q : q[k] = j
             l == SubSeq(q, 1, m - 1)
             r == SubSeq(q, m + 1, Len(q))
  <2>1. m \in 1..Len(q) /\ q[m] = j
    BY <1>1, <1>3
  <2>2. w = l \o r
    BY <1>3 DEF Without
  <2> HIDE DEF m, w
  <2>3. m \in Nat /\ m >= 1 /\ m <= Len(q) /\ Len(q) \in Nat
    BY <1>1, <2>1
  <2>4. /\ l \in Seq(Jobs) /\ Len(l) = m - 1
        /\ \A i \in 1..(m - 1) : l[i] = q[i]
    <3>1. \A i \in 1..(m - 1) : q[i] \in Jobs
      BY <1>1, <2>3
    <3>2. m - 1 \in Int
      BY <2>3
    <3>3. /\ l \in Seq(Jobs)
          /\ Len(l) = IF 1 <= m - 1 THEN m - 1 - 1 + 1 ELSE 0
          /\ \A i \in 1..(m - 1 - 1 + 1) : l[i] = q[1 + i - 1]
      BY <3>1, <3>2, SubSeqProperties
    <3>4. /\ (IF 1 <= m - 1 THEN m - 1 - 1 + 1 ELSE 0) = m - 1
          /\ m - 1 - 1 + 1 = m - 1
          /\ \A i \in 1..(m - 1) : 1 + i - 1 = i
      BY <2>3
    <3> QED
      BY <3>3, <3>4
  <2>5. /\ r \in Seq(Jobs) /\ Len(r) = Len(q) - m
        /\ \A i \in 1..(Len(q) - m) : r[i] = q[m + i]
    <3>1. \A i \in (m + 1)..Len(q) : q[i] \in Jobs
      BY <1>1, <2>3
    <3>2. m + 1 \in Int
      BY <2>3
    <3>3. /\ r \in Seq(Jobs)
          /\ Len(r) = IF m + 1 <= Len(q) THEN Len(q) - (m + 1) + 1 ELSE 0
          /\ \A i \in 1..(Len(q) - (m + 1) + 1) : r[i] = q[(m + 1) + i - 1]
      BY <2>3, <3>1, <3>2, SubSeqProperties
    <3>4. /\ (IF m + 1 <= Len(q) THEN Len(q) - (m + 1) + 1 ELSE 0) = Len(q) - m
          /\ Len(q) - (m + 1) + 1 = Len(q) - m
          /\ \A i \in 1..(Len(q) - m) : (m + 1) + i - 1 = m + i
      BY <2>3, RestLength
    <3> QED
      BY <3>3, <3>4
  <2> HIDE DEF l, r
  <2>6. /\ w \in Seq(Jobs) /\ DOMAIN w = 1..(Len(q) - 1)
        /\ \A i \in 1..(Len(q) - 1) : w[i] = IF i < m THEN q[i] ELSE q[i + 1]
    <3>1. /\ w \in Seq(Jobs) /\ Len(w) = (m - 1) + (Len(q) - m)
          /\ \A i \in 1..((m - 1) + (Len(q) - m)) :
               w[i] = IF i <= m - 1 THEN l[i] ELSE r[i - (m - 1)]
      <4>0. l \in Seq(Jobs) /\ r \in Seq(Jobs)
        BY <2>4, <2>5
      <4>1. /\ w \in Seq(Jobs) /\ Len(w) = Len(l) + Len(r)
            /\ \A i \in 1..(Len(l) + Len(r)) :
                 w[i] = IF i <= Len(l) THEN l[i] ELSE r[i - Len(l)]
        BY ONLY <2>2, <4>0, ConcatProperties
      <4> QED
        BY <2>4, <2>5, <4>1
    <3>2. (m - 1) + (Len(q) - m) = Len(q) - 1
      BY <2>3
    <3>3. ASSUME NEW i \in 1..(Len(q) - 1)
          PROVE  w[i] = IF i < m THEN q[i] ELSE q[i + 1]
      <4>1. CASE i < m
        <5>1. i \in 1..(m - 1) /\ i <= m - 1
          BY <2>3, <4>1
        <5> QED
          BY <2>4, <3>1, <3>2, <4>1, <5>1
      <4>2. CASE ~(i < m)
        <5>1. i - (m - 1) \in 1..(Len(q) - m) /\ m + (i - (m - 1)) = i + 1 /\ ~(i <= m - 1)
          BY <2>3, <4>2
        <5> QED
          BY <2>5, <3>1, <3>2, <4>2, <5>1
      <4> QED
        BY <4>1, <4>2
    <3> QED
      BY <3>1, <3>2, <3>3, LenProperties
  <2> DEFINE pos(i) == IF i < m THEN i ELSE i + 1
  <2>7. /\ \A i \in 1..(Len(q) - 1) : /\ pos(i) \in 1..Len(q) /\ pos(i) # m
                                      /\ w[i] = q[pos(i)]
        /\ \A i, k \in 1..(Len(q) - 1) : i < k => pos(i) < pos(k)
        /\ \A k \in 1..Len(q) : k # m => \E i \in 1..(Len(q) - 1) : pos(i) = k
    <3>1. \A i \in 1..(Len(q) - 1) : pos(i) \in 1..Len(q) /\ pos(i) # m
      BY <2>3
    <3>2. \A i, k \in 1..(Len(q) - 1) : i < k => pos(i) < pos(k)
      BY <2>3
    <3>3. ASSUME NEW k \in 1..Len(q), k # m
          PROVE  \E i \in 1..(Len(q) - 1) : pos(i) = k
      <4>1. CASE k < m
        BY <2>3, <4>1
      <4>2. CASE k > m
        <5>1. k - 1 \in 1..(Len(q) - 1) /\ pos(k - 1) = k
          BY <2>3, <4>2
        <5> QED
          BY <5>1
      <4> QED
        BY <2>3, <3>3, <4>1, <4>2
    <3> QED
      BY <2>6, <3>1, <3>2, <3>3
  <2> HIDE DEF pos
  <2>8. \A k \in 1..Len(q) : k # m => q[k] # j
    BY <1>0, <1>1, <2>1
  <2>9. \A i \in DOMAIN w : w[i] # j /\ \E k \in DOMAIN q : w[i] = q[k]
    BY <1>1, <2>6, <2>7, <2>8
  <2>10. \A k \in DOMAIN q : q[k] # j => \E i \in DOMAIN w : w[i] = q[k]
    BY <1>1, <2>1, <2>6, <2>7
  <2>11. \A i, k \in DOMAIN w : i < k => w[i] < w[k]
    BY <1>1, <2>6, <2>7
  <2> QED
    BY <2>6, <2>9, <2>10, <2>11
<1> QED
  BY <1>2, <1>3

-----------------------------------------------------------------------------
(* The inductive invariant.                                                *)

TableTypes == /\ seq \in 0..MaxJobs
              /\ request \in [Jobs -> Requests \cup {NoRequest}]
              /\ status \in [Jobs -> Status]
              /\ cancelRequested \in [Jobs -> BOOLEAN]
              /\ kicks \in SUBSET Apps
              /\ route \in [Jobs -> {0} \cup Routes]

\* Job ids are handed out in order, each with a request.
Numbered == \A j \in Jobs : /\ status[j] = "unborn" <=> j > seq
                            /\ status[j] # "unborn" => request[j] \in Requests

QueueInv ==
  /\ TableTypes /\ QueueTypes /\ Numbered
  /\ Serial(status, request, active, phase)
  /\ Exact(status, request, pending)
  /\ NoLostWakeup
  /\ NoTwins
  /\ SlotInv

\* The app of a job is read off its request, in the table as it is now.
LEMMA OwnerIsOwnerIn == \A j : Owner(j) = OwnerIn(request, j)
BY DEF Owner, OwnerIn

\* The strengthening contains the invariants the runs check.
LEMMA QueueInvImplies ==
  QueueInv => TypeOK /\ SerialPerApp /\ QueueIsExact /\ NoLostWakeup /\ NoTwins
                     /\ SlotAccounting /\ NoIdleSlot
<1> SUFFICES ASSUME QueueInv
             PROVE  TypeOK /\ SerialPerApp /\ QueueIsExact /\ NoLostWakeup /\ NoTwins
                           /\ SlotAccounting /\ NoIdleSlot
  OBVIOUS
<1>1. TypeOK
  BY DEF QueueInv, TableTypes, QueueTypes, SlotInv, SlotTypes, TypeOK
<1>2. SerialPerApp /\ QueueIsExact
  BY OwnerIsOwnerIn DEF QueueInv, Serial, Exact, ExactFor, SerialPerApp, QueueIsExact
<1>3. SlotAccounting /\ NoIdleSlot
  <2>1. \A i \in DOMAIN waiters : waiters[i] \in Users
    BY LenProperties, ElementOfSeq DEF QueueInv, SlotInv, SlotTypes
  <2> QED
    BY <2>1 DEF QueueInv, SlotInv, SlotFacts, Lined, InTransfer, SlotAccounting, NoIdleSlot,
                Holders, Waiting
<1> QED
  BY <1>1, <1>2, <1>3 DEF QueueInv

\* An empty job table, empty queues and a free counter satisfy it.
LEMMA QueueInvInit == Init => QueueInv
<1> SUFFICES ASSUME Init PROVE QueueInv
  OBVIOUS
<1> USE QueueAssumption DEF Init
<1>1. TableTypes /\ QueueTypes
  BY DEF TableTypes, QueueTypes, Status
<1>2. Numbered /\ NoLostWakeup /\ NoTwins
  BY DEF Numbered, NoLostWakeup, NoTwins, Jobs, Live
<1>3. Serial(status, request, active, phase) /\ Exact(status, request, pending)
  BY DEF Serial, Exact, ExactFor, Jobs, Users, NoJob
<1>4. SlotInv
  <2>1. InTransfer(phase) = {}
    BY DEF InTransfer
  <2>2. Lined(waiters, phase)
    BY DEF Lined
  <2>3. used = Cardinality(InTransfer(phase))
    BY <2>1, FS_EmptySet
  <2>4. SlotTypes
    BY DEF SlotTypes, Phase
  <2> QED
    BY <2>2, <2>3, <2>4 DEF SlotInv, SlotFacts
<1> QED
  BY <1>1, <1>2, <1>3, <1>4 DEF QueueInv

\* A user that neither waits nor transfers moves on without the semaphore.
LEMMA MoveSlots ==
  ASSUME SlotInv, NEW x \in Users, NEW to \in Phase,
         phase[x] \notin {"waitSlot", "transfer"}, to \notin {"waitSlot", "transfer"},
         phase' = [phase EXCEPT ![x] = to], UNCHANGED slotVars
  PROVE  SlotStep
<1>1. \A i \in DOMAIN waiters : waiters[i] \in Users
  BY LenProperties, ElementOfSeq DEF SlotInv, SlotTypes
<1>2. Lined(waiters', phase')
  BY <1>1 DEF slotVars, Lined, SlotInv, SlotTypes, SlotFacts
<1>3. InTransfer(phase') = InTransfer(phase)
  BY DEF InTransfer, SlotInv, SlotTypes
<1> QED
  BY <1>2, <1>3 DEF slotVars, SlotStep, SlotInv, SlotTypes, SlotFacts

\* What a step must show: the invariant again, and no grant beyond the limit.
GoodStep == QueueInv' /\ (~(InTransfer(phase') \subseteq InTransfer(phase)) => used' <= limit')

\* A step of a user that leaves the job table and the queues alone, and after
\* which a job is idle exactly when it was.
LEMMA RunStep ==
  ASSUME QueueInv, SlotStep, UNCHANGED <<tableVars, queueVars>>,
         route' \in [Jobs -> {0} \cup Routes],
         \A j \in Jobs : phase'[j] = "idle" <=> phase[j] = "idle"
  PROVE  GoodStep
<1> USE DEF QueueInv, tableVars, queueVars
<1>1. TableTypes' /\ QueueTypes' /\ Numbered' /\ NoLostWakeup' /\ NoTwins'
  BY DEF TableTypes, QueueTypes, Numbered, NoLostWakeup, NoTwins, Live
<1>2. Serial(status', request', active', phase') /\ Exact(status', request', pending')
  BY DEF Serial, Exact
<1> QED
  BY <1>1, <1>2 DEF GoodStep, SlotStep

\* A pre-download is begun by a policy, outside the queue: jobs are unaffected.
LEMMA StartPrefetchStep == ASSUME QueueInv, NEW p \in Prefetchers, StartPrefetch(p) PROVE GoodStep
<1>1. SlotStep /\ Woken([phase EXCEPT ![p] = "prepare"], phase')
  BY StartPrefetchSlots DEF QueueInv
<1>2. p \notin Jobs /\ Jobs \subseteq Users
  BY QueueAssumption DEF Jobs, Users
<1>3. \A j \in Jobs : phase'[j] = "idle" <=> phase[j] = "idle"
  BY <1>1, <1>2 DEF Woken, QueueInv, SlotInv, SlotTypes
<1>4. UNCHANGED <<tableVars, queueVars>> /\ route' = route
  BY DEF StartPrefetch
<1> QED
  BY <1>1, <1>3, <1>4, RunStep DEF QueueInv, TableTypes

\* A run that asks for a slot gets it or lines up; no job changes its status.
LEMMA AskSlotStep == ASSUME QueueInv, NEW u \in Users, AskSlot(u) PROVE GoodStep
<1>1. /\ SlotStep
      /\ \E to \in {"transfer", "waitSlot"} : phase' = [phase EXCEPT ![u] = to]
  BY AcquireSlots DEF QueueInv, AskSlot
<1>2. \A j \in Jobs : phase'[j] = "idle" <=> phase[j] = "idle"
  BY <1>1 DEF AskSlot, QueueInv, SlotInv, SlotTypes, Users
<1>3. UNCHANGED <<tableVars, queueVars>> /\ route' \in [Jobs -> {0} \cup Routes]
  BY DEF AskSlot, QueueInv, TableTypes
<1> QED
  BY <1>1, <1>2, <1>3, RunStep

\* A transfer that ends gives its slot to the next in line and its run goes on.
LEMMA EndTransferStep == ASSUME QueueInv, NEW u \in Users, EndTransfer(u) PROVE GoodStep
<1>1. PICK next \in AfterTransfer(u) :
         /\ ReleaseSlot(u, next)
         /\ route' = [j \in Jobs |-> IF j = u /\ next # "prepare" THEN 0 ELSE route[j]]
  BY DEF EndTransfer
<1>2. /\ next \in {"idle", "prepare", "engine", "unwind"}
      /\ u \in Jobs => next # "idle"
  BY DEF AfterTransfer
<1>3. SlotStep /\ Woken([phase EXCEPT ![u] = next], phase')
  BY <1>1, <1>2, ReleaseSlots DEF QueueInv, EndTransfer
<1>4. \A j \in Jobs : phase'[j] = "idle" <=> phase[j] = "idle"
  BY <1>2, <1>3 DEF Woken, EndTransfer, QueueInv, SlotInv, SlotTypes, Users
<1>5. UNCHANGED <<tableVars, queueVars>> /\ route' \in [Jobs -> {0} \cup Routes]
  BY <1>1 DEF EndTransfer, QueueInv, TableTypes
<1> QED
  BY <1>3, <1>4, <1>5, RunStep

\* A run that finds its download done skips the slot.
LEMMA ReuseDownloadStep == ASSUME QueueInv, NEW u \in Users, ReuseDownload(u) PROVE GoodStep
<1>1. PICK to \in {"engine", "idle"} : /\ phase' = [phase EXCEPT ![u] = to]
                                       /\ u \in Jobs => to = "engine"
  BY DEF ReuseDownload
<1>2. SlotStep
  <2>1. to \in Phase
    BY DEF Phase
  <2> QED
    BY <1>1, <2>1, MoveSlots DEF ReuseDownload, QueueInv
<1>3. \A j \in Jobs : phase'[j] = "idle" <=> phase[j] = "idle"
  BY <1>1 DEF ReuseDownload, QueueInv, SlotInv, SlotTypes, Users
<1>4. UNCHANGED <<tableVars, queueVars>> /\ route' = route
  BY DEF ReuseDownload
<1> QED
  BY <1>2, <1>3, <1>4, RunStep DEF QueueInv, TableTypes

\* A cancel of a running job is a request: table, queues and slots stay.
LEMMA CancelRunningStep == ASSUME QueueInv, NEW j \in Jobs, CancelRunning(j) PROVE GoodStep
<1> USE DEF QueueInv, CancelRunning, queueVars, slotVars, runVars
<1>1. TableTypes' /\ QueueTypes' /\ Numbered' /\ NoLostWakeup' /\ NoTwins'
  BY DEF TableTypes, QueueTypes, Numbered, NoLostWakeup, NoTwins, Live
<1>2. Serial(status', request', active', phase') /\ Exact(status', request', pending')
  OBVIOUS
<1>3. SlotInv'
  BY DEF SlotInv, SlotTypes
<1> QED
  BY <1>1, <1>2, <1>3 DEF GoodStep

\* A cancel of a queued job takes it, and only it, out of its queue.
LEMMA CancelQueuedStep == ASSUME QueueInv, NEW j \in Jobs, CancelQueued(j) PROVE GoodStep
<1> USE DEF QueueInv, CancelQueued, runVars, slotVars
<1> DEFINE a == OwnerIn(request, j)
           q == pending[a]
           w == Without(q, j)
<1>1. a \in Apps /\ status[j] = "queued"
  BY QueueAssumption DEF Numbered, OwnerIn
<1>2. /\ q \in Seq(Jobs) /\ ExactFor(a, q, status, request)
      /\ \A i \in DOMAIN q : q[i] \in Jobs
  <2>1. q \in Seq(Jobs) /\ ExactFor(a, q, status, request)
    BY <1>1 DEF QueueTypes, Exact
  <2> QED
    BY <2>1, LenProperties, ElementOfSeq
<1>3. /\ w \in Seq(Jobs)
      /\ \A i \in DOMAIN w : w[i] # j /\ \E k \in DOMAIN q : w[i] = q[k]
      /\ \A k \in DOMAIN q : q[k] # j => \E i \in DOMAIN w : w[i] = q[k]
      /\ \A i, k \in DOMAIN w : i < k => w[i] < w[k]
  <2>1. \A i, k \in DOMAIN q : i < k => q[i] < q[k]
    BY <1>2 DEF ExactFor
  <2>2. q \in Seq(Jobs)
    BY <1>2
  <2> HIDE DEF q
  <2> QED
    BY ONLY <2>1, <2>2, WithoutEffect, j \in Jobs DEF IsRest
<1>4. /\ pending' = [pending EXCEPT ![a] = w]
      /\ status' = [status EXCEPT ![j] = "cancelled"]
      /\ UNCHANGED <<seq, request, cancelRequested, active, kicks, slotVars, runVars>>
  BY OwnerIsOwnerIn
<1> HIDE DEF a, q, w
<1>5. TableTypes' /\ QueueTypes' /\ Numbered'
  <2>1. TableTypes'
    BY <1>4 DEF TableTypes, Status, Ended
  <2>2. QueueTypes'
    BY <1>1, <1>3, <1>4 DEF QueueTypes
  <2>3. Numbered'
    BY <1>1, <1>4 DEF Numbered, TableTypes
  <2> QED
    BY <2>1, <2>2, <2>3
<1>6. NoTwins'
  BY <1>1, <1>4 DEF NoTwins, Live, TableTypes
<1>7. Serial(status', request', active', phase')
  BY <1>1, <1>4 DEF Serial, TableTypes
<1>8. ASSUME NEW b \in Apps PROVE ExactFor(b, pending'[b], status', request')
  <2>1. CASE b = a
    <3>1. pending'[b] = w
      BY <1>4, <2>1 DEF QueueTypes
    <3>2. \A i \in DOMAIN w : w[i] \in Jobs
      BY <1>2, <1>3
    <3>3. \A i \in DOMAIN w : status'[w[i]] = "queued" /\ OwnerIn(request, w[i]) = a
      BY <1>2, <1>3, <1>4, <3>2 DEF ExactFor, TableTypes
    <3>4. ASSUME NEW x \in Jobs, status'[x] = "queued", OwnerIn(request, x) = a
          PROVE  \E i \in DOMAIN w : w[i] = x
      <4>1. x # j /\ status[x] = "queued"
        BY <1>4, <3>4 DEF TableTypes
      <4>2. PICK k \in DOMAIN q : q[k] = x
        BY <1>2, <3>4, <4>1 DEF ExactFor
      <4> QED
        BY <1>3, <4>1, <4>2
    <3> QED
      BY <1>3, <1>4, <2>1, <3>1, <3>3, <3>4 DEF ExactFor
  <2>2. CASE b # a
    <3>1. pending'[b] = pending[b] /\ ExactFor(b, pending[b], status, request)
      BY <1>4, <2>2 DEF QueueTypes, Exact
    <3>2. \A i \in DOMAIN pending[b] : pending[b][i] \in Jobs
      BY LenProperties, ElementOfSeq DEF QueueTypes
    <3>3. \A i \in DOMAIN pending[b] : pending[b][i] # j
      BY <2>2, <3>1 DEF ExactFor, a
    <3> QED
      BY <1>4, <3>1, <3>2, <3>3 DEF ExactFor, TableTypes
  <2> QED
    BY <2>1, <2>2
<1>9. NoLostWakeup'
  <2>1. q = <<>> => w = <<>>
    <3>1. q = <<>> => DOMAIN q = {}
      OBVIOUS
    <3>2. q = <<>> => DOMAIN w = {}
      BY <1>3, <3>1
    <3>3. DOMAIN w = 1..Len(w) /\ Len(w) \in Nat
      BY <1>3, LenProperties
    <3>4. q = <<>> => Len(w) = 0
      BY <3>2, <3>3
    <3> QED
      BY <1>3, <3>4, EmptySeq
  <2> QED
    BY <1>4, <2>1 DEF NoLostWakeup, QueueTypes, q
<1>10. SlotInv'
  BY <1>4 DEF SlotInv, SlotTypes
<1>11. UNCHANGED phase
  BY <1>4
<1> QED
  BY <1>5, <1>6, <1>7, <1>8, <1>9, <1>10, <1>11 DEF GoodStep, Exact

\* A request becomes a job at the end of its queue, unless it is one already, and
\* the pump it calls starts the first job of an idle queue.
LEMMA EnqueuePump ==
  ASSUME QueueInv, NEW r \in Requests, Enqueue(r)
  PROVE  LET a   == AppOf[r]
             j   == seq + 1
             st  == [status EXCEPT ![j] = "queued"]
             req == [request EXCEPT ![j] = r]
         IN  /\ a \in Apps /\ j \in Jobs /\ seq' = j /\ request' = req
             /\ UNCHANGED <<cancelRequested, kicks, route>>
             /\ \A k \in Jobs : ~(Live(k) /\ request[k] = r)
             /\ status[j] = "unborn" /\ \A k \in Jobs : status[k] # "unborn" => k < j
             /\ st \in [Jobs -> Status] /\ req \in [Jobs -> Requests \cup {NoRequest}]
             /\ st[j] = "queued" /\ req[j] = r /\ OwnerIn(req, j) = a
             /\ \A k \in Jobs \ {j} : /\ st[k] = status[k] /\ req[k] = request[k]
                                      /\ OwnerIn(req, k) = OwnerIn(request, k)
             /\ PumpResult(a, st, req)
<1> USE DEF QueueInv
<1> DEFINE a == AppOf[r]
           j == seq + 1
           q == Append(pending[a], j)
           st == [status EXCEPT ![j] = "queued"]
           req == [request EXCEPT ![j] = r]
<1>1. /\ a \in Apps /\ j \in Jobs /\ seq \in Nat /\ seq' = j /\ request' = req
      /\ \A k \in Jobs : ~(Live(k) /\ request[k] = r)
      /\ Pump(a, q, st, req)
      /\ UNCHANGED <<cancelRequested, kicks, route>>
  BY QueueAssumption DEF Enqueue, TableTypes, Jobs
<1>2. /\ status[j] = "unborn" /\ phase[j] = "idle" /\ \A b \in Apps : active[b] # j
      /\ \A k \in Jobs : status[k] # "unborn" => k < j
  BY <1>1 DEF Numbered, Serial, Jobs
<1>3. /\ pending[a] \in Seq(Jobs) /\ Len(pending[a]) \in Nat
      /\ DOMAIN pending[a] = 1..Len(pending[a])
      /\ \A i \in 1..Len(pending[a]) : pending[a][i] \in Jobs
  BY <1>1, LenProperties, ElementOfSeq DEF QueueTypes
<1>4. /\ q \in Seq(Jobs) /\ DOMAIN q = 1..(Len(pending[a]) + 1)
      /\ \A i \in 1..Len(pending[a]) : q[i] = pending[a][i]
      /\ q[Len(pending[a]) + 1] = j
  BY <1>1, <1>3
<1>5. /\ st \in [Jobs -> Status] /\ req \in [Jobs -> Requests \cup {NoRequest}]
      /\ st[j] = "queued" /\ req[j] = r
      /\ \A k \in Jobs \ {j} : st[k] = status[k] /\ req[k] = request[k]
      /\ OwnerIn(req, j) = a
      /\ \A k \in Jobs \ {j} : OwnerIn(req, k) = OwnerIn(request, k)
  BY <1>1 DEF TableTypes, Status, OwnerIn
<1> HIDE DEF a, j, q, st, req
<1>6. Serial(st, req, active, phase)
  BY <1>1, <1>2, <1>5 DEF Serial, QueueTypes
<1>7. Exact(st, req, [pending EXCEPT ![a] = q])
  <2>1. ExactFor(a, q, st, req)
    <3>1. ExactFor(a, pending[a], status, request)
      BY <1>1 DEF Exact
    <3>2. \A i \in 1..Len(pending[a]) : pending[a][i] < j /\ pending[a][i] # j
      BY <1>2, <1>3, <3>1 DEF ExactFor
    <3>3. \A i \in DOMAIN q : st[q[i]] = "queued" /\ OwnerIn(req, q[i]) = a
      BY <1>3, <1>4, <1>5, <3>1, <3>2 DEF ExactFor
    <3>4. ASSUME NEW i \in DOMAIN q, NEW k \in DOMAIN q, i < k PROVE q[i] < q[k]
      <4>1. i \in 1..Len(pending[a])
        BY <1>3, <1>4, <3>4
      <4>2. k \in 1..Len(pending[a]) \/ k = Len(pending[a]) + 1
        BY <1>3, <1>4
      <4>3. \A x, y \in 1..Len(pending[a]) : x < y => pending[a][x] < pending[a][y]
        BY <1>3, <3>1 DEF ExactFor
      <4>4. q[i] = pending[a][i]
        BY <1>4, <4>1
      <4>5. CASE k \in 1..Len(pending[a])
        BY <1>4, <3>4, <4>1, <4>3, <4>4, <4>5
      <4>6. CASE k = Len(pending[a]) + 1
        BY <1>4, <3>2, <4>1, <4>4, <4>6
      <4> QED
        BY <4>2, <4>5, <4>6
    <3>5. \A x \in Jobs : st[x] = "queued" /\ OwnerIn(req, x) = a
                            => \E i \in DOMAIN q : q[i] = x
      BY <1>3, <1>4, <1>5, <3>1 DEF ExactFor
    <3> QED
      BY <3>3, <3>4, <3>5 DEF ExactFor
  <2>2. ASSUME NEW b \in Apps \ {a} PROVE ExactFor(b, pending[b], st, req)
    <3>1. ExactFor(b, pending[b], status, request)
      BY DEF Exact
    <3>2. \A i \in DOMAIN pending[b] : pending[b][i] \in Jobs
      BY LenProperties, ElementOfSeq DEF QueueTypes
    <3>3. \A i \in DOMAIN pending[b] : pending[b][i] # j
      BY <1>2, <3>1 DEF ExactFor
    <3> QED
      BY <1>5, <3>1, <3>2, <3>3 DEF ExactFor
  <2> QED
    BY <1>1, <2>1, <2>2 DEF Exact, QueueTypes
<1>8. PumpResult(a, st, req)
  BY <1>1, <1>4, <1>5, <1>6, <1>7, PumpEffect
<1> QED
  BY <1>1, <1>2, <1>5, <1>8 DEF a, j, st, req

\* A new job is accepted under the next id.
LEMMA EnqueueStep == ASSUME QueueInv, NEW r \in Requests, Enqueue(r) PROVE GoodStep
<1> USE DEF QueueInv
<1> DEFINE a == AppOf[r]
           j == seq + 1
           st == [status EXCEPT ![j] = "queued"]
           req == [request EXCEPT ![j] = r]
<1>1. /\ a \in Apps /\ j \in Jobs /\ seq' = j /\ request' = req
      /\ UNCHANGED <<cancelRequested, kicks, route>>
      /\ \A k \in Jobs : ~(Live(k) /\ request[k] = r)
  BY EnqueuePump
<1>2. status[j] = "unborn" /\ \A k \in Jobs : status[k] # "unborn" => k < j
  BY EnqueuePump
<1>0. seq \in Nat
  BY QueueAssumption DEF TableTypes
<1>3. /\ st \in [Jobs -> Status] /\ req \in [Jobs -> Requests \cup {NoRequest}]
      /\ st[j] = "queued" /\ req[j] = r
      /\ \A k \in Jobs \ {j} : st[k] = status[k] /\ req[k] = request[k]
  BY EnqueuePump
<1>4. PumpResult(a, st, req)
  BY EnqueuePump
<1> HIDE DEF a, j, st, req
<1>5. /\ \A k \in Jobs : status'[k] = "unborn" <=> st[k] = "unborn"
      /\ \A k \in Jobs : status'[k] \in {"queued", "running"} <=> st[k] \in {"queued", "running"}
  BY <1>4 DEF PumpResult
<1>6. TableTypes' /\ QueueTypes'
  BY <1>1, <1>3, <1>4 DEF PumpResult, TableTypes, Jobs
<1>7. Numbered'
  <2>1. \A k \in Jobs : status'[k] = "unborn" <=> k > j
    BY <1>0, <1>1, <1>2, <1>3, <1>5 DEF Numbered, Jobs, j
  <2>2. \A k \in Jobs : status'[k] # "unborn" => req[k] \in Requests
    BY <1>1, <1>3, <1>5 DEF Numbered
  <2> QED
    BY <1>1, <2>1, <2>2 DEF Numbered
<1>8. NoTwins'
  <2>1. \A k \in Jobs \ {j} : status'[k] \in {"queued", "running"} <=> Live(k)
    BY <1>3, <1>5 DEF Live
  <2>2. ASSUME NEW k \in Jobs, NEW l \in Jobs, Live(k)', Live(l)', req[k] = req[l]
        PROVE  k = l
    BY <1>1, <1>3, <2>1, <2>2 DEF NoTwins, Live
  <2> QED
    BY <1>1, <2>2 DEF NoTwins
<1>9. NoLostWakeup'
  BY <1>1, <1>4 DEF PumpResult, NoLostWakeup
<1> QED
  BY <1>1, <1>4, <1>6, <1>7, <1>8, <1>9 DEF PumpResult, GoodStep, SlotStep

\* A scheduled pump, late or not, starts a job only if none is active.
LEMMA KickPump == ASSUME QueueInv, NEW a \in Apps, Kick(a) PROVE PumpResult(a, status, request)
<1>1. /\ pending[a] \in Seq(Jobs) /\ [pending EXCEPT ![a] = pending[a]] = pending
      /\ status \in [Jobs -> Status] /\ request \in [Jobs -> Requests \cup {NoRequest}]
      /\ Pump(a, pending[a], status, request)
  BY DEF Kick, QueueInv, QueueTypes, TableTypes
<1> QED
  BY <1>1, PumpEffect DEF QueueInv

LEMMA KickStep == ASSUME QueueInv, NEW a \in Apps, Kick(a) PROVE GoodStep
<1> USE DEF QueueInv
<1>1. kicks' = kicks \ {a} /\ UNCHANGED <<seq, request, cancelRequested, route>>
  BY DEF Kick
<1>2. PumpResult(a, status, request)
  BY KickPump
<1>3. /\ \A k \in Jobs : status'[k] = "unborn" <=> status[k] = "unborn"
      /\ \A k \in Jobs : status'[k] \in {"queued", "running"} <=> status[k] \in {"queued", "running"}
  BY <1>2 DEF PumpResult
<1>4. TableTypes' /\ QueueTypes' /\ Numbered' /\ NoTwins'
  BY <1>1, <1>2, <1>3 DEF PumpResult, TableTypes, Numbered, NoTwins, Live
<1>5. NoLostWakeup'
  BY <1>1, <1>2 DEF PumpResult, NoLostWakeup
<1> QED
  BY <1>1, <1>2, <1>4, <1>5 DEF PumpResult, GoodStep, SlotStep

\* A run that ends frees its app and leaves a pump scheduled for it.
LEMMA FinishStep ==
  ASSUME QueueInv, NEW j \in Jobs, NEW o \in Ended, Finish(j, o),
         status[j] = "running", phase[j] \notin {"waitSlot", "transfer"}
  PROVE  GoodStep
<1> USE DEF QueueInv, Finish, Ended
<1> DEFINE a == OwnerIn(request, j)
<1>1. /\ a \in Apps /\ active[a] = j
      /\ \A b \in Apps : active[b] = j => b = a
  BY DEF Serial, NoJob, Jobs
<1>2. /\ status' = [status EXCEPT ![j] = o] /\ active' = [active EXCEPT ![a] = NoJob]
      /\ kicks' = kicks \cup {a} /\ phase' = [phase EXCEPT ![j] = "idle"]
      /\ UNCHANGED <<seq, request, pending, slotVars>>
  BY OwnerIsOwnerIn
<1> HIDE DEF a
<1>3. TableTypes' /\ QueueTypes' /\ Numbered'
  BY <1>1, <1>2 DEF TableTypes, QueueTypes, Numbered, Status
<1>4. NoTwins' /\ NoLostWakeup'
  BY <1>1, <1>2 DEF NoTwins, NoLostWakeup, Live, TableTypes, QueueTypes
<1>5. SlotStep
  <2>1. j \in Users /\ "idle" \in Phase
    BY DEF Users, Phase
  <2> QED
    BY <1>2, <2>1, MoveSlots
<1>6. Serial(status', request', active', phase')
  <2>1. \A k \in Jobs \ {j} : status'[k] = status[k] /\ phase'[k] = phase[k]
    BY <1>2 DEF TableTypes, SlotInv, SlotTypes, Users
  <2>2. status'[j] = o /\ phase'[j] = "idle" /\ j # NoJob
    BY <1>2 DEF TableTypes, SlotInv, SlotTypes, Users, NoJob, Jobs
  <2>3. active'[a] = NoJob /\ \A b \in Apps \ {a} : active'[b] = active[b]
    BY <1>1, <1>2 DEF QueueTypes
  <2>4. \A k \in Jobs \ {j} : (\E b \in Apps : active'[b] = k) <=> (\E b \in Apps : active[b] = k)
    BY <1>1, <2>2, <2>3 DEF NoJob, Jobs
  <2>5. ~\E b \in Apps : active'[b] = j
    BY <1>1, <2>2, <2>3
  <2>6. ASSUME NEW k \in Jobs
        PROVE  /\ status'[k] = "running" <=> (\E b \in Apps : active'[b] = k)
               /\ status'[k] = "running" <=> phase'[k] # "idle"
    <3>1. CASE k = j
      BY <2>2, <2>5, <3>1
    <3>2. CASE k # j
      BY <2>1, <2>4, <3>2 DEF Serial
    <3> QED
      BY <3>1, <3>2
  <2>7. \A b \in Apps : active'[b] # NoJob => OwnerIn(request', active'[b]) = b
    BY <1>1, <1>2, <2>3 DEF Serial
  <2> QED
    BY <2>6, <2>7 DEF Serial
<1>7. Exact(status', request', pending')
  <2> SUFFICES ASSUME NEW b \in Apps PROVE ExactFor(b, pending[b], status', request)
    BY <1>2 DEF Exact
  <2>1. ExactFor(b, pending[b], status, request)
    BY DEF Exact
  <2>2. \A i \in DOMAIN pending[b] : pending[b][i] \in Jobs /\ pending[b][i] # j
    BY <2>1, LenProperties, ElementOfSeq DEF QueueTypes, ExactFor
  <2> QED
    BY <1>2, <2>1, <2>2 DEF ExactFor, TableTypes
<1> QED
  BY <1>3, <1>4, <1>5, <1>6, <1>7 DEF GoodStep, SlotStep

\* A run returns or throws; either way it ends as FinishStep says.
LEMMA RunEndsStep ==
  ASSUME QueueInv, NEW j \in Jobs, RunReturns(j) \/ RunThrows(j) PROVE GoodStep
<1>1. PICK o \in Ended : Finish(j, o) /\ status[j] = "running"
                         /\ phase[j] \notin {"waitSlot", "transfer"}
  BY DEF RunReturns, RunThrows, Ended
<1> QED
  BY <1>1, FinishStep

\* Every step of the queue is good.
LEMMA QueueStep == QueueInv /\ [Next]_vars => GoodStep
<1> SUFFICES ASSUME QueueInv, [Next]_vars PROVE GoodStep
  OBVIOUS
<1>1. ASSUME NEW u \in Users, Advance(u) PROVE GoodStep
  BY <1>1, AskSlotStep, ReuseDownloadStep, EndTransferStep, RunEndsStep DEF Advance
<1>2. CASE UNCHANGED vars
  BY <1>2 DEF vars, tableVars, queueVars, slotVars, runVars, GoodStep, QueueInv, TableTypes,
              QueueTypes, Numbered, NoLostWakeup, NoTwins, Live, SlotInv, SlotTypes
<1> QED
  BY <1>1, <1>2, EnqueueStep, CancelQueuedStep, CancelRunningStep, StartPrefetchStep, KickStep
     DEF Next

\* The strengthened invariant of the queue and its download slots.
THEOREM QueueInvariant == Spec => []QueueInv
<1>1. QueueInv /\ [Next]_vars => QueueInv'
  BY QueueStep DEF GoodStep
<1> QED
  BY <1>1, QueueInvInit, PTL DEF Spec

\* TypeOK for any number of apps, requests, jobs and slots.
THEOREM QueueTypeCorrect == Spec => []TypeOK
BY QueueInvariant, QueueInvImplies, PTL

\* Per-app serialisation: never two jobs of one app in a run, and the job table
\* always agrees with the queues about who is running.
THEOREM QueueIsSerial == Spec => []SerialPerApp
BY QueueInvariant, QueueInvImplies, PTL

\* No accepted job is lost from its queue and none stays in it after a cancel.
THEOREM QueueStaysExact == Spec => []QueueIsExact
BY QueueInvariant, QueueInvImplies, PTL

\* A waiting job of an idle app always has a pump on its way.
THEOREM WakeupsAreKept == Spec => []NoLostWakeup
BY QueueInvariant, QueueInvImplies, PTL

\* A repeated request never becomes a second live job.
THEOREM QueueHasNoTwins == Spec => []NoTwins
BY QueueInvariant, QueueInvImplies, PTL

\* The slot counter counts the transfers, the waiter list the blocked.
THEOREM SlotsAreAccounted == Spec => []SlotAccounting
BY QueueInvariant, QueueInvImplies, PTL

\* Nobody waits while there is a free slot.
THEOREM SlotsAreNotIdle == Spec => []NoIdleSlot
BY QueueInvariant, QueueInvImplies, PTL

\* Everything the queue promises at any moment.
THEOREM QueueIsAlwaysSound == Spec => []QueueIsSound
BY QueueTypeCorrect, QueueIsSerial, QueueStaysExact, WakeupsAreKept, QueueHasNoTwins, PTL
DEF QueueIsSound

\* Everything the slots promise at any moment.
THEOREM SlotsAreAlwaysSound == Spec => []SlotsAreSound
BY SlotsAreAccounted, SlotsAreNotIdle, PTL DEF SlotsAreSound

\* No transfer starts beyond the limit in force.
THEOREM SlotsAreNotOvergranted == Spec => NoOvergrant
<1>1. QueueInv /\ [Next]_vars => [~(Holders' \subseteq Holders) => used' <= limit']_vars
  BY QueueStep DEF GoodStep, Holders, InTransfer
<1> QED
  BY <1>1, QueueInvariant, PTL DEF Spec, NoOvergrant

-----------------------------------------------------------------------------
(* The queue implements JobLedger: each step is a step of the ledger, or   *)
(* changes nothing the ledger sees.                                        *)

AppOfJob == [j \in Jobs |-> Owner(j)]
Silent   == UNCHANGED <<AppOfJob, status>>

\* No job of an app runs while its queue has no active job.
LEMMA IdleInLedger ==
  ASSUME QueueInv, NEW a \in Apps, active[a] = NoJob
  PROVE  \A k \in Jobs : ~(Owner(k) = a /\ status[k] = "running")
<1> SUFFICES ASSUME NEW k \in Jobs, Owner(k) = a, status[k] = "running" PROVE FALSE
  OBVIOUS
<1>1. PICK b \in Apps : active[b] = k
  BY DEF QueueInv, Serial
<1>2. b = a
  BY <1>1, OwnerIsOwnerIn DEF QueueInv, Serial, NoJob, Jobs
<1> QED
  BY <1>1, <1>2 DEF NoJob, Jobs

LEMMA LedgerStarts == Init => Ledger!LedgerInit
<1> SUFFICES ASSUME Init PROVE Ledger!LedgerInit
  OBVIOUS
<1>1. \A j \in Jobs : Owner(j) = NoApp
  BY QueueAssumption DEF Init, Owner
<1> QED
  BY <1>1 DEF Init, Ledger!LedgerInit, Ledger!Jobs, Jobs

\* A request that becomes a job is an Accept, with the start its pump makes.
LEMMA EnqueueLedger ==
  ASSUME QueueInv, NEW r \in Requests, Enqueue(r)
  PROVE  Ledger!LedgerNext
<1> DEFINE a == AppOf[r]
           j == seq + 1
           st == [status EXCEPT ![j] = "queued"]
           req == [request EXCEPT ![j] = r]
<1>1. a \in Apps /\ j \in Jobs /\ request' = req /\ status[j] = "unborn"
  BY EnqueuePump
<1>2. /\ OwnerIn(req, j) = a
      /\ \A k \in Jobs \ {j} : OwnerIn(req, k) = OwnerIn(request, k)
  BY EnqueuePump
<1>3. ServesOldest(a, st, req)
  BY EnqueuePump DEF PumpResult
<1>4. \A k \in Jobs : k < j => status[k] # "unborn"
  BY QueueAssumption DEF QueueInv, Numbered, TableTypes, Jobs
<1> HIDE DEF a, j, req
<1>5. AppOfJob' = [AppOfJob EXCEPT ![j] = a]
  <2>1. \A k \in Jobs : Owner(k)' = OwnerIn(req, k) /\ Owner(k) = OwnerIn(request, k)
    BY <1>1 DEF Owner, OwnerIn
  <2> QED
    BY <1>1, <1>2, <2>1 DEF AppOfJob
<1>6. CASE status' = st
  <2>1. Ledger!Accept(j, a)
    BY <1>1, <1>4, <1>5, <1>6 DEF Ledger!Accept, Ledger!Jobs, Jobs, AppOfJob
  <2> QED
    BY <1>1, <2>1 DEF Ledger!LedgerNext, Ledger!Jobs, Jobs
<1>7. ASSUME active[a] = NoJob, NEW k \in Jobs,
             st[k] = "queued", OwnerIn(req, k) = a,
             \A l \in Jobs : l < k => ~(OwnerIn(req, l) = a /\ st[l] = "queued"),
             status' = [st EXCEPT ![k] = "running"]
      PROVE  Ledger!LedgerNext
  <2>1. Ledger!AppIdle(a)
    BY <1>1, <1>7, IdleInLedger DEF Ledger!AppIdle, Ledger!Jobs, Jobs, AppOfJob
  <2>2. \A l \in Jobs : AppOfJob'[l] = OwnerIn(req, l)
    BY <1>1 DEF AppOfJob, Owner, OwnerIn
  <2>3. Ledger!IsOldest(k, a, AppOfJob', st)
    BY <1>7, <2>2 DEF Ledger!IsOldest, Ledger!Jobs, Jobs
  <2>4. Ledger!Accept(j, a)
    BY <1>1, <1>4, <1>5, <1>7, <2>1, <2>3 DEF Ledger!Accept, Ledger!Jobs, Jobs, AppOfJob
  <2> QED
    BY <1>1, <2>4 DEF Ledger!LedgerNext, Ledger!Jobs, Jobs
<1> QED
  BY <1>3, <1>6, <1>7 DEF ServesOldest

\* A pump that comes late starts the oldest waiting job, or nothing.
LEMMA KickLedger ==
  ASSUME QueueInv, NEW a \in Apps, Kick(a)
  PROVE  Ledger!LedgerNext \/ Silent
<1>1. UNCHANGED request /\ AppOfJob' = AppOfJob
  BY DEF Kick, AppOfJob, Owner
<1>2. ServesOldest(a, status, request)
  BY KickPump DEF PumpResult
<1>3. CASE status' = status
  BY <1>1, <1>3 DEF Silent
<1>4. ASSUME active[a] = NoJob, NEW k \in Jobs,
             status[k] = "queued", OwnerIn(request, k) = a,
             \A l \in Jobs : l < k => ~(OwnerIn(request, l) = a /\ status[l] = "queued"),
             status' = [status EXCEPT ![k] = "running"]
      PROVE  Ledger!LedgerNext
  <2>1. \A l \in Jobs : AppOfJob[l] = OwnerIn(request, l)
    BY DEF AppOfJob, Owner, OwnerIn
  <2>2. Ledger!AppIdle(a)
    BY <1>4, IdleInLedger DEF Ledger!AppIdle, Ledger!Jobs, Jobs, AppOfJob
  <2>3. Ledger!IsOldest(k, a, AppOfJob, status)
    BY <1>4, <2>1 DEF Ledger!IsOldest, Ledger!Jobs, Jobs
  <2>4. Ledger!Start(k)
    BY <1>1, <1>4, <2>1, <2>2, <2>3 DEF Ledger!Start, AppOfJob
  <2> QED
    BY <2>4 DEF Ledger!LedgerNext, Ledger!Jobs, Jobs
<1> QED
  BY <1>2, <1>3, <1>4 DEF ServesOldest

LEMMA CancelQueuedLedger ==
  ASSUME NEW j \in Jobs, CancelQueued(j)
  PROVE  Ledger!LedgerNext
<1>1. Ledger!Withdraw(j)
  BY DEF CancelQueued, Ledger!Withdraw, Owner
<1> QED
  BY <1>1 DEF Ledger!LedgerNext, Ledger!Jobs, Jobs

LEMMA RunEndsLedger ==
  ASSUME NEW j \in Jobs, RunReturns(j) \/ RunThrows(j)
  PROVE  Ledger!LedgerNext
<1>1. PICK o \in Ended : Finish(j, o) /\ status[j] = "running"
  BY DEF RunReturns, RunThrows, Ended
<1>2. Ledger!Conclude(j)
  BY <1>1 DEF Finish, Ended, Ledger!Conclude, Ledger!Outcome, Owner
<1> QED
  BY <1>2 DEF Ledger!LedgerNext, Ledger!Jobs, Jobs

LEMMA LedgerStep == QueueInv /\ [Next]_vars => Ledger!LedgerNext \/ Silent
<1> SUFFICES ASSUME QueueInv, [Next]_vars PROVE Ledger!LedgerNext \/ Silent
  OBVIOUS
<1>1. ASSUME NEW u \in Users, Advance(u) PROVE Ledger!LedgerNext \/ Silent
  <2>1. CASE AskSlot(u) \/ ReuseDownload(u) \/ EndTransfer(u)
    BY <2>1 DEF AskSlot, ReuseDownload, EndTransfer, tableVars, Silent, AppOfJob, Owner
  <2> QED
    BY <1>1, <2>1, RunEndsLedger DEF Advance
<1>2. ASSUME NEW j \in Jobs, CancelRunning(j) PROVE Silent
  BY <1>2 DEF CancelRunning, Silent, AppOfJob, Owner
<1>3. ASSUME NEW p \in Prefetchers, StartPrefetch(p) PROVE Silent
  BY <1>3 DEF StartPrefetch, tableVars, Silent, AppOfJob, Owner
<1>4. CASE UNCHANGED vars
  BY <1>4 DEF vars, tableVars, Silent, AppOfJob, Owner
<1> QED
  BY <1>1, <1>2, <1>3, <1>4, EnqueueLedger, KickLedger, CancelQueuedLedger DEF Next

\* Per app one job at a time and in the order accepted, ended jobs stay ended and
\* withdrawn jobs never run: enqueue, pump, finish and cancelJob of jobs.js keep
\* the promise of JobLedger.
THEOREM QueueKeepsLedger == Spec => ImplementsLedger
<1>1. QueueInv /\ [Next]_vars => [Ledger!LedgerNext]_Ledger!ledger
  BY LedgerStep DEF Silent, AppOfJob, Ledger!ledger
<1> QED
  BY <1>1, LedgerStarts, QueueInvariant, PTL DEF Spec, ImplementsLedger, Ledger!LedgerSpec

=============================================================================
