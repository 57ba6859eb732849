----------------------------- MODULE RequestProofs -----------------------------
(*****************************************************************************)
(* What holds of the requests between hubs (FleetRequest) for any finite     *)
(* network of links, any apps and calls, and any number of requests,         *)
(* sessions and jobs.                                                        *)
(*                                                                           *)
(* The invariant.  A message, or a thing that runs, belongs to a request     *)
(* asked over its link; a search lacks one answer for each hub that is not   *)
(* yet heard; a job belongs to the last request that was given it; and the   *)
(* end of a job that an asker waits for is still to come, or excused.        *)
(*****************************************************************************)
EXTENDS MCCommands, SequenceTheorems, FiniteSetTheorems, TLAPS

Later == {"launch", "stop", "probe"}
Acks  == {"ok", "refused", "gone", "shut"}
Found == {"have", "lacks"}
Asks  == RemoteInstalls \union Later \union {"update-all", "search"}
Query == [kind: Asks, rid: Nat]
Reply == [what: Acks \union Found \union {"event"}, rid: Nat, jobs: SUBSET Request!Jobs]
Task  == [link: Links, session: 1..MaxSession, rid: Request!Rids, kind: Later]

\* Request r is what link l carries, alone or as one of a search.
OfLink(r, l) == inflight[r].by = l[1] /\ inflight[r].of = {l[2]}
AsOne(r, l)  == inflight[r].by = l[1] /\ l[2] \in inflight[r].of

JobTypes ==
  /\ job \in [Request!Servers -> [RemoteInstalls -> 0..MaxJobs]]
  /\ jobs \in [Request!Servers -> [RemoteInstalls -> 0..MaxJobs]]
  /\ owner \in [Request!Servers -> [RemoteInstalls -> 0..MaxRids]]
  /\ last \in [Request!Servers -> [Request!Jobs -> 0..MaxRids]]

RequestTypes ==
  /\ Request!TypeOK /\ inflight \in Seq(Request!Request) /\ JobTypes
  /\ query \in [Links -> Seq(Query)] /\ reply \in [Links -> Seq(Reply)]
  /\ doing \in [Request!Servers -> SUBSET Task]
  /\ \A l \in Links : live[l] = 0 => query[l] = <<>>

In(m, s) == \E i \in DOMAIN s : s[i] = m

\* A message to the server is a request to it.
Queried(l, q) ==
  /\ q.rid \in DOMAIN inflight /\ inflight[q.rid].kind = q.kind
  /\ IF q.kind = "search" THEN AsOne(q.rid, l) ELSE OfLink(q.rid, l)

Queries == \A l \in Links, q \in Query : In(q, query[l]) => Queried(l, q)

\* A message to the asker is true.
Answered(l, m) ==
  /\ m.what \in Acks =>
       m.rid \in DOMAIN inflight /\ inflight[m.rid].kind # "search" /\ OfLink(m.rid, l)
  /\ m.what = "ok" => m.rid \in done
  /\ m.what # "ok" /\ m.what # "event" => m.jobs = {}
  /\ m.what \in Found =>
       m.rid \in DOMAIN inflight /\ inflight[m.rid].kind = "search" /\ AsOne(m.rid, l)
  /\ m.what = "lacks" => l[2] \notin holds

Replies == \A l \in Links, m \in Reply : In(m, reply[l]) => Answered(l, m)

\* What runs at a server was asked for.
Doings ==
  \A s \in Request!Servers : \A d \in doing[s] :
    /\ d.link[2] = s /\ d.rid \in DOMAIN inflight /\ inflight[d.rid].kind = d.kind
    /\ OfLink(d.rid, d.link)

\* A search goes over a link in one message at a time.
OneMessage(l) ==
  /\ \A i, j \in DOMAIN query[l] : query[l][i].rid = query[l][j].rid => i = j
  /\ \A i, j \in DOMAIN reply[l] :
       reply[l][i].what \in Found /\ reply[l][j].what \in Found /\ reply[l][i].rid = reply[l][j].rid
         => i = j
  /\ \A i \in DOMAIN query[l], j \in DOMAIN reply[l] :
       reply[l][j].what \in Found => query[l][i].rid # reply[l][j].rid

Mute(r, l) ==
  /\ \A i \in DOMAIN query[l] : query[l][i].rid # r
  /\ \A i \in DOMAIN reply[l] : reply[l][i].what \in Found => reply[l][i].rid # r

\* A search lacks an answer of each hub it asked, but for some that do not have the
\* asset and will say nothing more.
Heard(r, A) ==
  /\ A \intersect holds = {}
  /\ Cardinality(inflight[r].of \ A) <= inflight[r].lacks
  /\ \A l \in Links : l[1] = inflight[r].by /\ l[2] \in A => Mute(r, l)

Lacking ==
  /\ \A l \in Links : OneMessage(l)
  /\ \A r \in DOMAIN inflight :
       inflight[r].kind = "search" /\ inflight[r].state = "waiting" =>
          \E A \in SUBSET inflight[r].of : Heard(r, A)

\* A job belongs to the last request that was given it, and numbers rise.
JobsFit ==
  \A s \in Request!Servers :
    /\ \A prog \in RemoteInstalls :
         /\ job[s][prog] <= jobs[s][prog]
         /\ owner[s][prog] = IF job[s][prog] = 0 THEN 0 ELSE last[s][<<prog, job[s][prog]>>]
    /\ \A j \in Request!Jobs :
         /\ j[2] > jobs[s][j[1]] => last[s][j] = 0
         /\ last[s][j] # 0 => /\ last[s][j] \in DOMAIN inflight
                              /\ <<inflight[last[s][j]].by, s>> \in Links

\* Job j was given for a request over a link to this server.
Given(l, j) == last[l[2]][j] \in DOMAIN inflight

\* Its end is still to come, or excused.
Covered(l, j) ==
  \/ job[l[2]][j[1]] = j[2]
  \/ <<l, j>> \in gap
  \/ inflight[last[l[2]][j]].by # l[1]

EventAfter(l, i, j) ==
  \E k \in DOMAIN reply[l] : k > i /\ reply[l][k].what = "event" /\ j \in reply[l][k].jobs

\* The jobs whose end a request still awaits.
Awaited(r) == inflight[r].jobs \ inflight[r].told

EndsAreComing ==
  /\ \A r \in DOMAIN inflight, l \in Links : OfLink(r, l) =>
       \A j \in Awaited(r) : Given(l, j) /\ (Covered(l, j) \/ EventAfter(l, 0, j))
  /\ \A l \in Links : \A i \in DOMAIN reply[l] : reply[l][i].what = "ok" =>
       \A j \in reply[l][i].jobs : Given(l, j) /\ (Covered(l, j) \/ EventAfter(l, i, j))

RequestInv ==
  /\ RequestTypes /\ Queries /\ Replies /\ Doings /\ Lacking /\ JobsFit /\ EndsAreComing
  /\ Request!AnswersAreTrue

-----------------------------------------------------------------------------
(* Links and queues.                                                         *)

\* A link joins an asker and a server, and the two name it.
LEMMA LinkFacts ==
  /\ \A l \in Links : l[1] \in Request!Askers /\ l[2] \in Request!Servers
  /\ \A l, k \in Links : l[1] = k[1] /\ l[2] = k[2] => l = k
<1>1. \A l \in Links : l = <<l[1], l[2]>>
  BY CommandsAssumption DEF Request!FleetRequestAssumption
<1>2. \A l, k \in Links : l[1] = k[1] /\ l[2] = k[2] => l = k
  BY <1>1, Zenon
<1>3. \A l \in Links : l[1] \in Request!Askers /\ l[2] \in Request!Servers
  BY Zenon DEF Request!Askers, Request!Servers
<1> QED
  BY <1>2, <1>3


\* The assumptions on the constants, as the steps use them.
LEMMA Figures == /\ MaxRids \in Nat /\ MaxSession \in Nat \ {0} /\ MaxJobs \in Nat
                 /\ \A x \in RemoteInstalls : x \notin Later /\ x # "update-all" /\ x # "search"
                 /\ \A s \in Request!Servers : Knows[s] \subseteq RemoteInstalls
                 /\ \A l \in Links : Calls[l] \subseteq Later \union {"update-all"}
                 /\ DOMAIN Request!Says = Later /\ \A x \in Later : Request!Says[x] \subseteq Acks
<1>1. DOMAIN Request!Says = Later
  BY DEF Request!Says, Later
<1>2. \A x \in Later : Request!Says[x] \subseteq Acks
  BY DEF Request!Says, Later, Acks
<1> QED
  BY <1>1, <1>2, CommandsAssumption DEF Request!FleetRequestAssumption, Later

\* A search asks finitely many hubs: there are finitely many links.
LEMMA ServersAreFinite == IsFiniteSet(Request!Servers)
<1> DEFINE f == [l \in Links |-> l[2]]
<1>1. IsFiniteSet(Links)
  BY CommandsAssumption DEF Request!FleetRequestAssumption, Request!IsFiniteSet, IsFiniteSet
<1>2. f \in [Links -> Request!Servers] /\ \A s \in Request!Servers : \E l \in Links : f[l] = s
  BY DEF Request!Servers
<1>3. f \in Surjection(Links, Request!Servers)
  BY <1>2 DEF Surjection
<1> QED
  BY <1>1, <1>3, FS_Surjection

\* A message at the end.
LEMMA AppendedTo ==
  ASSUME NEW S, NEW s \in Seq(S), NEW e \in S
  PROVE  LET t == Append(s, e) IN
         /\ t \in Seq(S)
         /\ \A i \in DOMAIN s : i \in Nat /\ i \in DOMAIN t /\ t[i] = s[i] /\ i < Len(s) + 1
         /\ Len(s) + 1 \in DOMAIN t /\ t[Len(s) + 1] = e
         /\ \A i \in DOMAIN t : i \in DOMAIN s \/ i = Len(s) + 1
<1> DEFINE t == Append(s, e)
<1>1. t \in Seq(S) /\ Len(t) = Len(s) + 1 /\ t[Len(s) + 1] = e
      /\ \A i \in 1..Len(s) : t[i] = s[i]
  BY AppendProperties
<1>2. DOMAIN t = 1..Len(t) /\ DOMAIN s = 1..Len(s) /\ Len(s) \in Nat
  BY <1>1, LenProperties
<1> QED
  BY <1>1, <1>2

\* A message from the head.
LEMMA Rest ==
  ASSUME NEW S, NEW s \in Seq(S), s # <<>>
  PROVE  /\ Tail(s) \in Seq(S) /\ 1 \in DOMAIN s /\ Head(s) = s[1] /\ s[1] \in S
         /\ \A i \in DOMAIN Tail(s) :
              i \in Nat /\ i > 0 /\ i + 1 \in DOMAIN s /\ Tail(s)[i] = s[i + 1]
         /\ \A i \in DOMAIN s :
              i \in Nat /\ (i > 1 => i - 1 \in DOMAIN Tail(s) /\ Tail(s)[i - 1] = s[i])
<1>1. /\ Tail(s) \in Seq(S) /\ Len(Tail(s)) = Len(s) - 1
      /\ \A i \in 1..Len(Tail(s)) : Tail(s)[i] = s[i + 1]
  BY HeadTailProperties
<1>2. Len(s) \in Nat /\ Len(s) > 0 /\ DOMAIN s = 1..Len(s) /\ DOMAIN Tail(s) = 1..Len(Tail(s))
  BY <1>1, EmptySeq, LenProperties
<1>3. Head(s) = s[1] /\ s[1] \in S
  BY <1>2, HeadTailProperties, ElementOfSeq
<1> QED
  BY <1>1, <1>2, <1>3

\* The elements of a sequence, at its indices.
LEMMA Elements == \A S : \A s \in Seq(S) : /\ \A i \in DOMAIN s : i \in Nat /\ i > 0 /\ s[i] \in S
                                            /\ DOMAIN s = 1..Len(s) /\ Len(s) \in Nat
BY LenProperties, ElementOfSeq

\* The empty sequence has none.
LEMMA NoElements == \A S : <<>> \in Seq(S) /\ DOMAIN <<>> = {}
BY EmptySeq

-----------------------------------------------------------------------------
(* What goes on.                                                             *)

\* Requests stay what they were asked as.
Kept ==
  \A r \in DOMAIN inflight :
    /\ r \in DOMAIN inflight' /\ inflight'[r].kind = inflight[r].kind
    /\ inflight'[r].by = inflight[r].by /\ inflight'[r].of = inflight[r].of

\* A request that is kept is of the links it was of.
LEMMA LinksKept ==
  ASSUME Kept, NEW r \in DOMAIN inflight, NEW l
  PROVE  (OfLink(r, l)' <=> OfLink(r, l)) /\ (AsOne(r, l)' <=> AsOne(r, l))
BY DEF Kept, OfLink, AsOne

\* A message to the server stays the request it was.
LEMMA QueriedKept == ASSUME Kept, NEW l, NEW q, Queried(l, q) PROVE Queried(l, q)'
<1>1. q.rid \in DOMAIN inflight /\ inflight[q.rid].kind = q.kind
  BY DEF Queried
<1>2. q.rid \in DOMAIN inflight' /\ inflight'[q.rid].kind = q.kind
  BY <1>1 DEF Kept
<1> QED
  BY <1>1, <1>2, LinksKept DEF Queried

\* A true answer stays true while requests are kept, what is done stays done and a
\* hub without the asset stays without it.
LEMMA AnsweredKept ==
  ASSUME Kept, NEW l \in Links, NEW m \in Reply, Answered(l, m),
         done \subseteq done', holds' = holds
  PROVE  Answered(l, m)'
<1>1. m.rid \in DOMAIN inflight => /\ m.rid \in DOMAIN inflight'
                                  /\ inflight'[m.rid].kind = inflight[m.rid].kind
                                  /\ (OfLink(m.rid, l)' <=> OfLink(m.rid, l))
                                  /\ (AsOne(m.rid, l)' <=> AsOne(m.rid, l))
  BY LinksKept DEF Kept
<1> QED
  BY <1>1 DEF Answered

\* Messages taken from the links to the servers leave requests.
LEMMA QueriesKept ==
  ASSUME Kept, Queries,
         \A l \in Links, q \in Query : In(q, query'[l]) => In(q, query[l]) \/ Queried(l, q)'
  PROVE  Queries'
<1>1. \A l \in Links, q \in Query : In(q, query[l]) => Queried(l, q)'
  BY QueriedKept DEF Queries
<1>2. \A l \in Links, q \in Query : In(q, query'[l]) => Queried(l, q)'
  BY <1>1
<1> QED
  BY <1>2 DEF Queries, In

\* Messages taken from the links to the askers leave true answers.
LEMMA RepliesKept ==
  ASSUME Kept, Replies, done \subseteq done', holds' = holds,
         \A l \in Links, m \in Reply : In(m, reply'[l]) => In(m, reply[l]) \/ Answered(l, m)'
  PROVE  Replies'
<1>1. \A l \in Links, m \in Reply : In(m, reply[l]) => Answered(l, m)'
  BY AnsweredKept DEF Replies
<1>2. \A l \in Links, m \in Reply : In(m, reply'[l]) => Answered(l, m)'
  BY <1>1
<1> QED
  BY <1>2 DEF Replies, In

\* What no longer runs leaves what was asked for.
LEMMA DoingsKept ==
  ASSUME Kept, Doings, RequestTypes,
         \A s \in Request!Servers : \A d \in doing'[s] :
           d \in doing[s] \/ /\ d.link[2] = s /\ d.rid \in DOMAIN inflight
                             /\ inflight[d.rid].kind = d.kind
                             /\ OfLink(d.rid, d.link)
  PROVE  Doings'
<1> SUFFICES ASSUME NEW s \in Request!Servers, NEW d \in doing'[s]
             PROVE  /\ d.link[2] = s /\ d.rid \in DOMAIN inflight' /\ inflight'[d.rid].kind = d.kind
                    /\ OfLink(d.rid, d.link)'
  BY DEF Doings
<1>1. /\ d.link[2] = s /\ d.rid \in DOMAIN inflight /\ inflight[d.rid].kind = d.kind
      /\ OfLink(d.rid, d.link)
  BY DEF Doings
<1> QED
  BY <1>1, LinksKept DEF Kept

\* An end that is covered stays covered when jobs stay.
LEMMA CoveredKept ==
  ASSUME Kept, UNCHANGED <<job, last>>, gap \subseteq gap', NEW l, NEW j, Given(l, j)
  PROVE  Given(l, j)' /\ (Covered(l, j) => Covered(l, j)')
BY DEF Given, Covered, Kept

\* An answer a request was given stays true.
LEMMA AnswersKept ==
  ASSUME Request!AnswersAreTrue, Kept, done \subseteq done', holds' = holds,
         \A r \in DOMAIN inflight' : inflight'[r].state \in {"ok", "nobody"} =>
           r \in DOMAIN inflight /\ inflight[r].state = inflight'[r].state
  PROVE  Request!AnswersAreTrue'
<1> SUFFICES ASSUME NEW r \in DOMAIN inflight'
             PROVE  /\ inflight'[r].state = "ok" /\ inflight'[r].kind # "search" => r \in done'
                    /\ inflight'[r].state = "nobody" => inflight'[r].of \intersect holds' = {}
  BY DEF Request!AnswersAreTrue
<1> QED
  BY DEF Request!AnswersAreTrue, Kept

\* Requests that are only kept leave what is known of the jobs.
LEMMA JobsKept ==
  ASSUME JobsFit, Kept, UNCHANGED <<job, jobs, owner, last>>
  PROVE  JobsFit'
BY DEF JobsFit, Kept

-----------------------------------------------------------------------------
(* Searches.                                                                 *)

\* What is left of a queue, perhaps with messages that are nothing of a search.
Within(s, t) == \E k \in {0, 1} : \A i \in DOMAIN t : i + k \in DOMAIN s /\ t[i] = s[i + k]

WithinFound(s, t) ==
  \E k \in {0, 1} : \A i \in DOMAIN t : t[i].what \in Found => i + k \in DOMAIN s /\ t[i] = s[i + k]

\* A sequence has no message it does not have.
LEMMA WithinItself ==
  ASSUME NEW S, NEW s \in Seq(S) PROVE Within(s, s) /\ WithinFound(s, s)
<1>1. \A i \in DOMAIN s : i + 0 \in DOMAIN s /\ s[i] = s[i + 0]
  BY Elements
<1> QED
  BY <1>1 DEF Within, WithinFound

\* Nor has the empty one.
LEMMA WithinNothing ==
  ASSUME NEW S, NEW s \in Seq(S) PROVE Within(s, <<>>) /\ WithinFound(s, <<>>)
BY NoElements DEF Within, WithinFound

\* Nor has what is left when the head is taken.
LEMMA WithinRest ==
  ASSUME NEW S, NEW s \in Seq(S), s # <<>> PROVE Within(s, Tail(s)) /\ WithinFound(s, Tail(s))
BY Rest DEF Within, WithinFound

\* Nor has one with a message more, if it is not an answer to a search.
LEMMA WithinAppended ==
  ASSUME NEW S, NEW s \in Seq(S), NEW m \in S, m.what \notin Found
  PROVE  WithinFound(s, Append(s, m))
<1>1. \A i \in DOMAIN Append(s, m) : Append(s, m)[i].what \in Found => i \in DOMAIN s
  BY AppendedTo
<1>2. \A i \in DOMAIN Append(s, m) : Append(s, m)[i].what \in Found =>
        i + 0 \in DOMAIN s /\ Append(s, m)[i] = s[i + 0]
  BY <1>1, AppendedTo
<1> QED
  BY <1>2 DEF WithinFound

\* A link that loses messages keeps at most one of a search.
LEMMA QuietLink ==
  ASSUME RequestTypes, RequestTypes', NEW l \in Links, OneMessage(l),
         Within(query[l], query'[l]), WithinFound(reply[l], reply'[l])
  PROVE  OneMessage(l)' /\ \A r : Mute(r, l) => Mute(r, l)'
<1>1. PICK k \in {0, 1} : \A i \in DOMAIN query'[l] :
             i + k \in DOMAIN query[l] /\ query'[l][i] = query[l][i + k]
  BY DEF Within
<1>2. PICK n \in {0, 1} : \A i \in DOMAIN reply'[l] : reply'[l][i].what \in Found =>
             i + n \in DOMAIN reply[l] /\ reply'[l][i] = reply[l][i + n]
  BY DEF WithinFound
<1>3. query'[l] \in Seq(Query) /\ reply'[l] \in Seq(Reply)
  BY DEF RequestTypes
<1>4. (\A i \in DOMAIN query'[l] : i \in Nat) /\ (\A i \in DOMAIN reply'[l] : i \in Nat)
  BY <1>3, Elements
<1>5. \A r : Mute(r, l) => Mute(r, l)'
  BY <1>1, <1>2 DEF Mute
<1>6. \A i, j \in DOMAIN query'[l] : query'[l][i].rid = query'[l][j].rid => i = j
  <2> SUFFICES ASSUME NEW i \in DOMAIN query'[l], NEW j \in DOMAIN query'[l],
                      query'[l][i].rid = query'[l][j].rid
               PROVE  i = j
    OBVIOUS
  <2>1. i + k = j + k
    BY <1>1 DEF OneMessage
  <2> QED
    BY <2>1, <1>4
<1>7. \A i, j \in DOMAIN reply'[l] :
        reply'[l][i].what \in Found /\ reply'[l][j].what \in Found
          /\ reply'[l][i].rid = reply'[l][j].rid => i = j
  <2> SUFFICES ASSUME NEW i \in DOMAIN reply'[l], NEW j \in DOMAIN reply'[l],
                      reply'[l][i].what \in Found, reply'[l][j].what \in Found,
                      reply'[l][i].rid = reply'[l][j].rid
               PROVE  i = j
    OBVIOUS
  <2>1. i + n = j + n
    BY <1>2 DEF OneMessage
  <2> QED
    BY <2>1, <1>4
<1>8. \A i \in DOMAIN query'[l], j \in DOMAIN reply'[l] :
        reply'[l][j].what \in Found => query'[l][i].rid # reply'[l][j].rid
  BY <1>1, <1>2 DEF OneMessage
<1> QED
  BY <1>5, <1>6, <1>7, <1>8 DEF OneMessage

\* So does a link nothing is sent over.
LEMMA SameLink ==
  ASSUME NEW l, query'[l] = query[l], reply'[l] = reply[l]
  PROVE  (OneMessage(l) => OneMessage(l)') /\ \A r : Mute(r, l) => Mute(r, l)'
BY DEF OneMessage, Mute

\* Messages that go and searches that end leave the searches counted.
LEMMA SearchesKept ==
  ASSUME RequestTypes, RequestTypes', Kept, Lacking, holds' = holds,
         \A l \in Links : Within(query[l], query'[l]) /\ WithinFound(reply[l], reply'[l]),
         \A r \in DOMAIN inflight' :
            inflight'[r].kind = "search" /\ inflight'[r].state = "waiting" =>
           /\ r \in DOMAIN inflight /\ inflight[r].state = "waiting"
           /\ inflight'[r].lacks = inflight[r].lacks
  PROVE  Lacking'
<1>1. \A l \in Links : OneMessage(l)' /\ \A r : Mute(r, l) => Mute(r, l)'
  BY QuietLink DEF Lacking
<1>2. ASSUME NEW r \in DOMAIN inflight', inflight'[r].kind = "search",
             inflight'[r].state = "waiting"
      PROVE  \E A \in SUBSET inflight'[r].of : Heard(r, A)'
  <2>1. /\ r \in DOMAIN inflight /\ inflight[r].kind = "search" /\ inflight[r].state = "waiting"
        /\ inflight'[r].lacks = inflight[r].lacks /\ inflight'[r].of = inflight[r].of
        /\ inflight'[r].by = inflight[r].by
    BY <1>2 DEF Kept
  <2>2. PICK A \in SUBSET inflight[r].of : Heard(r, A)
    BY <2>1 DEF Lacking
  <2>3. Heard(r, A)'
    BY <1>1, <2>1, <2>2 DEF Heard
  <2> QED
    BY <2>1, <2>3
<1> QED
  BY <1>1, <1>2 DEF Lacking

\* The next request is none of those there are.
LEMMA NextIsNew ==
  ASSUME RequestTypes PROVE Request!NextRid \in Nat /\ Request!NextRid \notin DOMAIN inflight
<1>1. DOMAIN inflight = 1..Len(inflight) /\ Len(inflight) \in Nat
  BY Elements DEF RequestTypes
<1> QED
  BY <1>1 DEF Request!NextRid

\* No message is about a request that is none yet.
LEMMA NextIsMute ==
  ASSUME RequestTypes, Queries, Replies, NEW l \in Links PROVE Mute(Request!NextRid, l)
<1>1. query[l] \in Seq(Query) /\ reply[l] \in Seq(Reply)
  BY DEF RequestTypes
<1>2. \A i \in DOMAIN query[l] : query[l][i] \in Query /\ In(query[l][i], query[l])
  BY <1>1, Elements DEF In
<1>3. \A i \in DOMAIN reply[l] : reply[l][i] \in Reply /\ In(reply[l][i], reply[l])
  BY <1>1, Elements DEF In
<1>4. \A i \in DOMAIN query[l] : query[l][i].rid \in DOMAIN inflight
  BY <1>2 DEF Queries, Queried
<1>5. \A i \in DOMAIN reply[l] : reply[l][i].what \in Found => reply[l][i].rid \in DOMAIN inflight
  BY <1>3 DEF Replies, Answered
<1> QED
  BY <1>4, <1>5, NextIsNew DEF Mute

\* A link over which the new request is sent carries one message of it.
LEMMA AskedLink ==
  ASSUME RequestTypes, RequestTypes', Queries, Replies, NEW l \in Links, OneMessage(l),
         reply' = reply,
         NEW q \in Query, q.rid = Request!NextRid, query'[l] = Append(query[l], q)
  PROVE  OneMessage(l)' /\ \A r : r # Request!NextRid /\ Mute(r, l) => Mute(r, l)'
<1> DEFINE n == Len(query[l]) + 1
<1>1. query[l] \in Seq(Query)
  BY DEF RequestTypes
<1>2. /\ \A i \in DOMAIN query'[l] : i \in DOMAIN query[l] \/ i = n
      /\ \A i \in DOMAIN query[l] : query'[l][i] = query[l][i]
      /\ query'[l][n] = q
  BY <1>1, AppendedTo
<1>3. Mute(Request!NextRid, l)
  BY NextIsMute
<1> HIDE DEF n
<1>4. \A i \in DOMAIN query[l] : query[l][i].rid # Request!NextRid
  BY <1>3 DEF Mute
<1>5. \A i, j \in DOMAIN query'[l] : query'[l][i].rid = query'[l][j].rid => i = j
  BY <1>2, <1>4 DEF OneMessage
<1>6. \A i \in DOMAIN query'[l], j \in DOMAIN reply[l] :
        reply[l][j].what \in Found => query'[l][i].rid # reply[l][j].rid
  BY <1>2, <1>3 DEF OneMessage, Mute
<1>7. \A r : r # Request!NextRid /\ Mute(r, l) => Mute(r, l)'
  BY <1>2 DEF Mute
<1> QED
  BY <1>5, <1>6, <1>7 DEF OneMessage

\* A search begins by lacking an answer of each hub it asked.
LEMMA SearchesAsked ==
  ASSUME RequestTypes, RequestTypes', Queries, Replies, Lacking, holds' = holds, reply' = reply,
         \A l \in Links : \/ query'[l] = query[l]
                        \/ \E q \in Query :
                             q.rid = Request!NextRid /\ query'[l] = Append(query[l], q),
         \A r \in DOMAIN inflight : inflight'[r] = inflight[r],
         \A r \in DOMAIN inflight' : r \in DOMAIN inflight \/ r = Request!NextRid,
         inflight'[Request!NextRid].kind = "search" =>
           inflight'[Request!NextRid].lacks = Cardinality(inflight'[Request!NextRid].of)
  PROVE  Lacking'
<1>1. \A l \in Links : OneMessage(l)' /\ \A r : r # Request!NextRid /\ Mute(r, l) => Mute(r, l)'
  <2> TAKE l \in Links
  <2>1. CASE query'[l] = query[l]
    BY <2>1 DEF Lacking, OneMessage, Mute
  <2>2. CASE \E q \in Query : q.rid = Request!NextRid /\ query'[l] = Append(query[l], q)
    BY <2>2, AskedLink DEF Lacking
  <2> QED
    BY <2>1, <2>2
<1>2. ASSUME NEW r \in DOMAIN inflight', inflight'[r].kind = "search",
             inflight'[r].state = "waiting"
      PROVE  \E A \in SUBSET inflight'[r].of : Heard(r, A)'
  <2>1. CASE r \in DOMAIN inflight
    <3>1. PICK A \in SUBSET inflight[r].of : Heard(r, A)
      BY <1>2, <2>1 DEF Lacking
    <3>2. r # Request!NextRid
      BY <2>1, NextIsNew
    <3>3. Heard(r, A)'
      BY <1>1, <2>1, <3>1, <3>2 DEF Heard
    <3> QED
      BY <2>1, <3>1, <3>3
  <2>2. CASE r = Request!NextRid
    <3>1. inflight'[r] \in Request!Request
      BY <1>2, Elements DEF RequestTypes
    <3>2. inflight'[r].of \subseteq Request!Servers
      BY <3>1 DEF Request!Request
    <3>3. Cardinality(inflight'[r].of) \in Nat
      BY <3>2, ServersAreFinite, FS_Subset, FS_CardinalityType
    <3>4. inflight'[r].of \ {} = inflight'[r].of
      OBVIOUS
    <3>5. Cardinality(inflight'[r].of \ {}) <= inflight'[r].lacks
      BY <1>2, <2>2, <3>3, <3>4
    <3>6. Heard(r, {})'
      BY <3>5 DEF Heard
    <3> QED
      BY <3>6
  <2> QED
    BY <1>2, <2>1, <2>2
<1> QED
  BY <1>1, <1>2 DEF Lacking

\* A query at the head that is answered at once.
LEMMA SearchesServed ==
  ASSUME RequestTypes, RequestTypes', Lacking, UNCHANGED <<inflight, holds>>, NEW l \in Links,
         query[l] # <<>>, NEW m \in Reply, m.rid = Head(query[l]).rid, m.what \in Found,
         query' = [query EXCEPT ![l] = Tail(@)], reply' = [reply EXCEPT ![l] = Append(@, m)]
  PROVE  Lacking'
<1> DEFINE n == Len(reply[l]) + 1
<1>1. query[l] \in Seq(Query) /\ reply[l] \in Seq(Reply)
  BY DEF RequestTypes
<1>2. query'[l] = Tail(query[l]) /\ reply'[l] = Append(reply[l], m)
      /\ \A k \in Links : k # l => query'[k] = query[k] /\ reply'[k] = reply[k]
  BY DEF RequestTypes
<1>3. /\ 1 \in DOMAIN query[l] /\ query[l][1].rid = m.rid
      /\ \A i \in DOMAIN query'[l] :
           i \in Nat /\ i > 0 /\ i + 1 \in DOMAIN query[l] /\ query'[l][i] = query[l][i + 1]
  <2>1. /\ 1 \in DOMAIN query[l] /\ Head(query[l]) = query[l][1]
        /\ \A i \in DOMAIN Tail(query[l]) : i \in Nat /\ i > 0 /\ i + 1 \in DOMAIN query[l]
                                         /\ Tail(query[l])[i] = query[l][i + 1]
    BY <1>1, Rest
  <2> QED
    BY <1>2, <2>1, Zenon
<1>4. /\ \A i \in DOMAIN reply'[l] : i \in DOMAIN reply[l] \/ i = n
      /\ \A i \in DOMAIN reply[l] : reply'[l][i] = reply[l][i]
      /\ reply'[l][n] = m
  BY <1>1, <1>2, AppendedTo
<1> HIDE DEF n
<1>5. OneMessage(l)
  BY DEF Lacking
<1>6. \A i \in DOMAIN query'[l] : query'[l][i].rid # m.rid
  <2> TAKE i \in DOMAIN query'[l]
  <2>1. i + 1 # 1 /\ i + 1 \in DOMAIN query[l] /\ query'[l][i] = query[l][i + 1]
    BY <1>3
  <2> QED
    BY <1>3, <1>5, <2>1 DEF OneMessage
<1>7. \A j \in DOMAIN reply[l] : reply[l][j].what \in Found => reply[l][j].rid # m.rid
  BY <1>3, <1>5 DEF OneMessage
<1>8. \A i, j \in DOMAIN query'[l] : query'[l][i].rid = query'[l][j].rid => i = j
  <2> SUFFICES ASSUME NEW i \in DOMAIN query'[l], NEW j \in DOMAIN query'[l],
                      query'[l][i].rid = query'[l][j].rid
               PROVE  i = j
    OBVIOUS
  <2>1. i + 1 = j + 1
    BY <1>3, <1>5 DEF OneMessage
  <2> QED
    BY <1>3, <2>1
<1>9. \A i, j \in DOMAIN reply'[l] :
        reply'[l][i].what \in Found /\ reply'[l][j].what \in Found
          /\ reply'[l][i].rid = reply'[l][j].rid => i = j
  BY <1>4, <1>5, <1>7 DEF OneMessage
<1>10. \A i \in DOMAIN query'[l], j \in DOMAIN reply'[l] :
        reply'[l][j].what \in Found => query'[l][i].rid # reply'[l][j].rid
  BY <1>3, <1>4, <1>5, <1>6 DEF OneMessage
<1>11. OneMessage(l)' /\ \A r : Mute(r, l) => Mute(r, l)'
  <2>1. \A r : Mute(r, l) => r # m.rid
    BY <1>3 DEF Mute
  <2>2. \A r : Mute(r, l) => Mute(r, l)'
    BY <1>3, <1>4, <2>1 DEF Mute
  <2> QED
    BY <1>8, <1>9, <1>10, <2>2 DEF OneMessage
<1>12. \A k \in Links : OneMessage(k)' /\ \A r : Mute(r, k) => Mute(r, k)'
  BY <1>2, <1>11, SameLink DEF Lacking
<1> QED
  BY <1>12 DEF Lacking, Heard

\* An answer to a search at the head.
LEMMA SearchesHeard ==
  ASSUME RequestTypes, RequestTypes', Replies, Lacking, UNCHANGED <<query, holds>>, NEW l \in Links,
         reply[l] # <<>>, NEW m \in Reply, m = Head(reply[l]), m.what \in Found,
         reply' = [reply EXCEPT ![l] = Tail(@)], Request!OnAssetHave(l, m)
  PROVE  Lacking'
<1>1. reply[l] \in Seq(Reply) /\ query[l] \in Seq(Query)
  BY DEF RequestTypes
<1>2. m = reply[l][1] /\ 1 \in DOMAIN reply[l] /\ m \in Reply /\ In(m, reply[l])
  BY <1>1, Rest DEF In
<1>3. reply'[l] = Tail(reply[l]) /\ \A k \in Links : k # l => reply'[k] = reply[k]
  BY DEF RequestTypes
<1>4. \A k \in Links : Within(query[k], query'[k]) /\ WithinFound(reply[k], reply'[k])
  <2>1. \A k \in Links : Within(query[k], query[k]) /\ WithinFound(reply[k], reply[k])
    BY WithinItself DEF RequestTypes
  <2>2. WithinFound(reply[l], reply'[l])
    BY <1>1, <1>3, WithinRest
  <2> QED
    BY <1>3, <2>1, <2>2
<1>5. \A k \in Links : OneMessage(k)' /\ \A r : Mute(r, k) => Mute(r, k)'
  BY <1>4, QuietLink DEF Lacking
<1>6. /\ m.rid \in DOMAIN inflight /\ inflight[m.rid].by = l[1] /\ l[2] \in inflight[m.rid].of
      /\ m.what = "lacks" => l[2] \notin holds
  BY <1>2 DEF Replies, Answered, AsOne
<1>7. \A r : Mute(r, l) => r # m.rid
  BY <1>2 DEF Mute
<1>8. Mute(m.rid, l)'
  <2>1. \A i \in DOMAIN reply'[l] : /\ i \in Nat /\ i > 0
                                   /\ i + 1 \in DOMAIN reply[l] /\ reply'[l][i] = reply[l][i + 1]
    <3>1. \A i \in DOMAIN Tail(reply[l]) : i \in Nat /\ i > 0 /\ i + 1 \in DOMAIN reply[l]
                                            /\ Tail(reply[l])[i] = reply[l][i + 1]
      BY <1>1, Rest
    <3> QED
      BY <1>3, <3>1, Zenon
  <2>2. OneMessage(l)
    BY DEF Lacking
  <2>3. \A i \in DOMAIN reply'[l] : reply'[l][i].what \in Found => reply'[l][i].rid # m.rid
    <3> SUFFICES ASSUME NEW i \in DOMAIN reply'[l], reply'[l][i].what \in Found,
                        reply'[l][i].rid = m.rid
                 PROVE  FALSE
      OBVIOUS
    <3>1. i + 1 = 1
      BY <1>2, <2>1, <2>2 DEF OneMessage
    <3> QED
      BY <2>1, <3>1
  <2>4. \A i \in DOMAIN query[l] : query[l][i].rid # m.rid
    BY Zenon, <1>2, <2>2 DEF OneMessage
  <2> QED
    BY <2>3, <2>4 DEF Mute
<1>9. /\ DOMAIN inflight' = DOMAIN inflight
      /\ \A r \in DOMAIN inflight : /\ inflight'[r].kind = inflight[r].kind
                                    /\ inflight'[r].by = inflight[r].by
                                    /\ inflight'[r].of = inflight[r].of
                                    /\ r # m.rid => inflight'[r] = inflight[r]
      /\ inflight'[m.rid].state = "waiting" =>
           /\ inflight[m.rid].state = "waiting"
           /\ m.what = "lacks" /\ inflight'[m.rid].lacks = inflight[m.rid].lacks - 1
  <2>0. inflight[m.rid] \in Request!Request
    BY <1>6, Elements DEF RequestTypes
  <2>1. CASE ~Request!Waiting(m.rid) /\ UNCHANGED inflight
    BY <2>1 DEF Request!Waiting
  <2>2. CASE inflight' = [inflight EXCEPT ![m.rid].state = "ok"]
    BY <1>6, <2>0, <2>2 DEF Request!Request
  <2>3. CASE /\ Request!Waiting(m.rid) /\ m.what = "lacks"
             /\ inflight' = [inflight EXCEPT ![m.rid].lacks = @ - 1]
    BY <1>6, <2>0, <2>3 DEF Request!Request, Request!Waiting
  <2>4. CASE inflight' = [inflight EXCEPT ![m.rid].state = "nobody", ![m.rid].lacks = 0]
    <3>1. inflight' = 
           [inflight EXCEPT ![m.rid] = [inflight[m.rid] EXCEPT !.state = "nobody", !.lacks = 0]]
      BY <1>6, <2>4
    <3> QED
      BY <1>6, <2>0, <3>1 DEF Request!Request
  <2> QED
    BY Zenon, <2>1, <2>2, <2>3, <2>4 DEF Request!OnAssetHave
<1>10. ASSUME NEW r \in DOMAIN inflight', inflight'[r].kind = "search",
              inflight'[r].state = "waiting"
       PROVE  \E A \in SUBSET inflight'[r].of : Heard(r, A)'
  <2>1. CASE r # m.rid
    <3>1. inflight'[r] = inflight[r] /\ r \in DOMAIN inflight
      BY <1>9, <2>1
    <3>2. PICK A \in SUBSET inflight[r].of : Heard(r, A)
      BY <1>10, <3>1 DEF Lacking
    <3>3. Heard(r, A)'
      BY <1>5, <3>1, <3>2 DEF Heard
    <3> QED
      BY <3>1, <3>2, <3>3
  <2>2. CASE r = m.rid
    <3>1. /\ r \in DOMAIN inflight /\ inflight[r].kind = "search" /\ inflight[r].state = "waiting"
          /\ m.what = "lacks" /\ inflight'[r].lacks = inflight[r].lacks - 1
          /\ inflight'[r].of = inflight[r].of /\ inflight'[r].by = inflight[r].by
      BY <1>9, <1>10, <2>2
    <3>2. PICK A \in SUBSET inflight[r].of : Heard(r, A)
      BY <3>1 DEF Lacking
    <3> DEFINE B == A \union {l[2]}
    <3>3. l[2] \notin A
      BY <1>6, <1>7, <2>2, <3>2 DEF Heard
    <3>4. inflight[r] \in Request!Request
      BY <3>1, Elements DEF RequestTypes
    <3>5. IsFiniteSet(inflight[r].of \ A) /\ inflight[r].lacks \in Int
      <4>1. inflight[r].of \subseteq Request!Servers /\ inflight[r].lacks \in Int
        BY <3>4 DEF Request!Request
      <4> QED
        BY <4>1, ServersAreFinite, FS_Subset
    <3>6. inflight[r].of \ B = (inflight[r].of \ A) \ {l[2]} /\ l[2] \in inflight[r].of \ A
      BY <1>6, <2>2, <3>3
    <3>7. Cardinality(inflight[r].of \ B) = Cardinality(inflight[r].of \ A) - 1
          /\ Cardinality(inflight[r].of \ A) \in Nat
      <4>1. \A X : IsFiniteSet(X) => Cardinality(X) \in Nat
        BY FS_CardinalityType
      <4>2. \A X : \A x \in X : IsFiniteSet(X) => Cardinality(X \ {x}) = Cardinality(X) - 1
        BY FS_RemoveElement
      <4> QED
        BY <3>5, <3>6, <4>1, <4>2
    <3>8. Cardinality(inflight'[r].of \ B) <= inflight'[r].lacks
      BY <3>1, <3>2, <3>5, <3>7 DEF Heard
    <3>9. B \in SUBSET inflight'[r].of /\ B \intersect holds' = {}
      BY <1>6, <2>2, <3>1, <3>2 DEF Heard
    <3>10. \A k \in Links : k[1] = inflight'[r].by /\ k[2] \in B => Mute(r, k)'
      <4> SUFFICES ASSUME NEW k \in Links, k[1] = inflight'[r].by, k[2] \in B PROVE Mute(r, k)'
        OBVIOUS
      <4>1. CASE k[2] \in A
        BY <1>5, <3>1, <3>2, <4>1 DEF Heard
      <4>2. CASE k[2] = l[2]
        <5>1. k = l
          BY <1>6, <2>2, <3>1, <4>2, LinkFacts
        <5> QED
          BY <1>8, <2>2, <5>1
      <4> QED
        BY <4>1, <4>2
    <3>11. Heard(r, B)'
      BY <3>8, <3>9, <3>10 DEF Heard
    <3> QED
      BY <3>9, <3>11
  <2> QED
    BY <2>1, <2>2
<1> QED
  BY <1>5, <1>10 DEF Lacking

-----------------------------------------------------------------------------
(* Messages and requests.                                                    *)

\* What is in a sequence with one message more.
LEMMA InAppended ==
  ASSUME NEW S, NEW s \in Seq(S), NEW e \in S, NEW x, In(x, Append(s, e))
  PROVE  In(x, s) \/ x = e
<1>1. PICK i \in DOMAIN Append(s, e) : Append(s, e)[i] = x
  BY DEF In
<1>2. /\ \A j \in DOMAIN s : Append(s, e)[j] = s[j]
      /\ Append(s, e)[Len(s) + 1] = e
      /\ \A j \in DOMAIN Append(s, e) : j \in DOMAIN s \/ j = Len(s) + 1
  BY AppendedTo
<1> QED
  BY <1>1, <1>2 DEF In

\* What is left is in the sequence it was taken from.
LEMMA InRest ==
  ASSUME NEW S, NEW s \in Seq(S), s # <<>>, NEW x, In(x, Tail(s)) PROVE In(x, s)
<1>1. PICK i \in DOMAIN Tail(s) : Tail(s)[i] = x
  BY DEF In
<1>2. i + 1 \in DOMAIN s /\ s[i + 1] = x
  BY <1>1, Rest
<1> QED
  BY <1>2 DEF In

\* The head is in the sequence.
LEMMA InHead ==
  ASSUME NEW S, NEW s \in Seq(S), s # <<>> PROVE In(Head(s), s) /\ Head(s) \in S
BY Rest DEF In

\* Nothing is in the empty sequence.
LEMMA InNothing == \A x : ~In(x, <<>>)
BY NoElements DEF In

\* A sequence of requests changed in its elements.
LEMMA Changed ==
  ASSUME NEW S, NEW s \in Seq(S), NEW t, DOMAIN t = DOMAIN s, t = [i \in DOMAIN t |-> t[i]],
         \A i \in DOMAIN s : t[i] \in S
  PROVE  t \in Seq(S) /\ Len(t) = Len(s)
<1>1. DOMAIN s = 1..Len(s) /\ Len(s) \in Nat
  BY Elements
<1>2. t \in [1..Len(s) -> S]
  BY <1>1
<1>3. t \in Seq(S)
  BY <1>1, <1>2, SeqDef
<1> QED
  BY <1>1, <1>3, LenProperties

\* The requests have their type.
LEMMA Requests ==
  ASSUME RequestTypes
  PROVE  /\ DOMAIN inflight = 1..Len(inflight) /\ Len(inflight) \in Nat
         /\ DOMAIN inflight \subseteq Request!Rids /\ Len(inflight) <= MaxRids
         /\ \A r \in DOMAIN inflight : inflight[r] \in Request!Request
<1>1. inflight \in Seq(Request!Request) /\ Len(inflight) <= MaxRids
  BY DEF RequestTypes, Request!TypeOK
<1> QED
  BY <1>1, Elements, Figures DEF Request!Rids

\* Types, when the asking side moves.
LEMMA AskerTypes ==
  ASSUME RequestTypes, UNCHANGED <<live, opened, doing, job, jobs, owner, holds, done, gap, last>>,
         inflight' \in Seq(Request!Request), Len(inflight') <= MaxRids,
         query' \in [Links -> Seq(Query)], reply' \in [Links -> Seq(Reply)],
         \A l \in Links : live[l] = 0 => query'[l] = <<>>
  PROVE  RequestTypes'
<1>1. \A r \in DOMAIN inflight' : inflight'[r] \in Request!Request
  BY Elements
<1> QED
  BY <1>1 DEF RequestTypes, Request!TypeOK, JobTypes

\* A request whose state, and what it knows, change only.
LEMMA RequestsChanged ==
  ASSUME RequestTypes, DOMAIN inflight' = DOMAIN inflight,
         inflight' = [r \in DOMAIN inflight' |-> inflight'[r]],
         \A r \in DOMAIN inflight : /\ inflight'[r] \in Request!Request
                                    /\ inflight'[r].kind = inflight[r].kind
                                    /\ inflight'[r].by = inflight[r].by
                                    /\ inflight'[r].of = inflight[r].of
  PROVE  Kept /\ inflight' \in Seq(Request!Request) /\ Len(inflight') <= MaxRids
<1>1. inflight \in Seq(Request!Request) /\ Len(inflight) <= MaxRids
  BY DEF RequestTypes, Request!TypeOK
<1>2. inflight' \in Seq(Request!Request) /\ Len(inflight') = Len(inflight)
  BY <1>1, Changed
<1> QED
  BY <1>1, <1>2 DEF Kept

\* A request more.
LEMMA RequestsAsked ==
  ASSUME RequestTypes, NEW r \in Request!Request, Request!NextRid \in Request!Rids,
         inflight' = Append(inflight, r)
  PROVE  /\ Kept /\ inflight' \in Seq(Request!Request) /\ Len(inflight') <= MaxRids
         /\ \A i \in DOMAIN inflight : inflight'[i] = inflight[i]
         /\ \A i \in DOMAIN inflight' : i \in DOMAIN inflight \/ i = Request!NextRid
         /\ Request!NextRid \in DOMAIN inflight' /\ inflight'[Request!NextRid] = r
         /\ Request!NextRid \in Nat
<1>1. inflight \in Seq(Request!Request)
  BY DEF RequestTypes
<1>2. inflight' \in Seq(Request!Request) /\ Len(inflight') = Len(inflight) + 1
  BY <1>1, AppendProperties
<1>3. Len(inflight') <= MaxRids /\ Request!NextRid \in Nat
  BY <1>2, Requests, Figures DEF Request!NextRid, Request!Rids
<1>4. /\ \A i \in DOMAIN inflight : i \in DOMAIN inflight' /\ inflight'[i] = inflight[i]
      /\ Request!NextRid \in DOMAIN inflight' /\ inflight'[Request!NextRid] = r
      /\ \A i \in DOMAIN inflight' : i \in DOMAIN inflight \/ i = Request!NextRid
  BY <1>1, AppendedTo DEF Request!NextRid
<1> QED
  BY <1>2, <1>3, <1>4 DEF Kept

-----------------------------------------------------------------------------
(* Ends.                                                                     *)

\* A word of jobs that are not over.
Current(m, l) == m.what = "ok" => \A j \in m.jobs : Given(l, j) /\ Covered(l, j)

\* What a request awaits, and what a message names, are jobs.
LEMMA NamedJobs ==
  ASSUME RequestTypes
  PROVE  /\ \A r \in DOMAIN inflight : Awaited(r) \subseteq Request!Jobs
         /\ \A l \in Links : \A i \in DOMAIN reply[l] :
              i \in Nat /\ reply[l][i] \in Reply /\ reply[l][i].jobs \subseteq Request!Jobs
<1>1. \A r \in DOMAIN inflight : inflight[r] \in Request!Request
  BY Requests
<1>2. \A l \in Links : \A i \in DOMAIN reply[l] : i \in Nat /\ reply[l][i] \in Reply
  BY Elements DEF RequestTypes
<1> QED
  BY <1>1, <1>2 DEF Awaited, Request!Request, Reply

\* What is told of the end of a job is told still, when a link says something more:
\* the end itself, or at least no word of a job that is over already.
LEMMA EndsSaid ==
  ASSUME RequestTypes, RequestTypes', Kept, EndsAreComing,
         \A l \in Links, j \in Request!Jobs : Given(l, j) =>
           /\ Given(l, j)'
           /\ Covered(l, j) =>
                \/ Covered(l, j)'
                \/ \E m \in Reply : /\ m.what = "event" /\ j \in m.jobs
                                   /\ reply'[l] = Append(reply[l], m),
         \A l \in Links :
           \/ reply'[l] = reply[l]
           \/ \E m \in Reply : reply'[l] = Append(reply[l], m) /\ Current(m, l)',
         \A r \in DOMAIN inflight' : \A j \in Awaited(r)' :
           r \in DOMAIN inflight /\ j \in Awaited(r)
  PROVE  EndsAreComing'
<1>1. \A l \in Links :
         reply[l] \in Seq(Reply) /\ \A i \in DOMAIN reply[l] : i \in Nat /\ reply[l][i] \in Reply
  BY Elements DEF RequestTypes
<1>2. ASSUME NEW l \in Links
      PROVE  \A i \in DOMAIN reply[l] : i \in DOMAIN reply'[l] /\ reply'[l][i] = reply[l][i]
  <2>1. CASE reply'[l] = reply[l]
    BY <2>1
  <2>2. ASSUME NEW m \in Reply, reply'[l] = Append(reply[l], m)
        PROVE  \A i \in DOMAIN reply[l] : i \in DOMAIN reply'[l] /\ reply'[l][i] = reply[l][i]
    BY <1>1, <2>2, AppendedTo
  <2> QED
    BY <2>1, <2>2
<1>3. ASSUME NEW l \in Links, NEW i, NEW j, EventAfter(l, i, j) PROVE EventAfter(l, i, j)'
  BY <1>2, <1>3 DEF EventAfter
<1>4. ASSUME NEW l \in Links, NEW m \in Reply, m.what = "event", reply'[l] = Append(reply[l], m),
             NEW i \in DOMAIN reply[l] \union {0}, NEW j \in m.jobs
      PROVE  EventAfter(l, i, j)'
  <2>1. Len(reply[l]) + 1 \in DOMAIN reply'[l] /\ reply'[l][Len(reply[l]) + 1] = m
    BY <1>1, <1>4, AppendedTo
  <2>2. Len(reply[l]) + 1 > i
    BY <1>1, Elements
  <2> QED
    BY <1>4, <2>1, <2>2 DEF EventAfter
<1>5. ASSUME NEW l \in Links, NEW j \in Request!Jobs, Given(l, j), Covered(l, j),
             NEW i \in DOMAIN reply[l] \union {0}
      PROVE  Covered(l, j)' \/ EventAfter(l, i, j)'
  BY <1>4, <1>5
<1>6. ASSUME NEW r \in DOMAIN inflight', NEW l \in Links, OfLink(r, l)', NEW j \in Awaited(r)'
      PROVE  Given(l, j)' /\ (Covered(l, j)' \/ EventAfter(l, 0, j)')
  <2>1. r \in DOMAIN inflight /\ j \in Awaited(r)
    OBVIOUS
  <2>2. OfLink(r, l) /\ j \in Request!Jobs
    BY <1>6, <2>1, LinksKept, NamedJobs
  <2>3. Given(l, j) /\ (Covered(l, j) \/ EventAfter(l, 0, j))
    BY <2>1, <2>2 DEF EndsAreComing
  <2> QED
    BY <1>3, <1>5, <2>2, <2>3
<1>7. ASSUME NEW l \in Links, NEW i \in DOMAIN reply'[l], reply'[l][i].what = "ok",
             NEW j \in reply'[l][i].jobs
      PROVE  Given(l, j)' /\ (Covered(l, j)' \/ EventAfter(l, i, j)')
  <2>1. CASE i \in DOMAIN reply[l]
    <3>1. reply[l][i] = reply'[l][i] /\ j \in Request!Jobs
      BY <1>2, <2>1, NamedJobs
    <3>2. Given(l, j) /\ (Covered(l, j) \/ EventAfter(l, i, j))
      BY <1>7, <2>1, <3>1 DEF EndsAreComing
    <3> QED
      BY <1>3, <1>5, <2>1, <3>1, <3>2
  <2>2. CASE i \notin DOMAIN reply[l]
    <3>1. reply'[l] # reply[l]
      BY <2>2
    <3>2. PICK e \in Reply : reply'[l] = Append(reply[l], e) /\ Current(e, l)'
      BY <3>1
    <3>3. i = Len(reply[l]) + 1
      BY <1>1, <2>2, <3>2, AppendedTo
    <3>4. reply'[l][i] = e
      BY <1>1, <3>2, <3>3, AppendedTo
    <3> QED
      BY <1>7, <3>2, <3>4 DEF Current
  <2> QED
    BY <2>1, <2>2
<1> QED
  BY <1>6, <1>7 DEF EndsAreComing

\* What was on its way over a session that ended leaves a gap.
LEMMA EndsCut ==
  ASSUME RequestTypes, RequestTypes', Kept, EndsAreComing, UNCHANGED <<job, last>>,
         NEW l \in Links, Request!Cut(l),
         \A r \in DOMAIN inflight' : r \in DOMAIN inflight /\ Awaited(r)' = Awaited(r)
  PROVE  EndsAreComing'
<1>1. /\ reply'[l] = <<>> /\ \A k \in Links : k # l => reply'[k] = reply[k]
      /\ gap' = gap \union Request!Lost(l)
  BY DEF Request!Cut, RequestTypes
<1>2. ASSUME NEW i, NEW j, EventAfter(l, i, j) PROVE <<l, j>> \in gap'
  BY <1>1, <1>2 DEF EventAfter, Request!Lost
<1>3. ASSUME NEW k \in Links, NEW i, NEW j, EventAfter(k, i, j)
      PROVE  EventAfter(k, i, j)' \/ <<k, j>> \in gap'
  <2>1. CASE k = l
    BY <1>2, <1>3, <2>1
  <2>2. CASE k # l
    BY <1>1, <1>3, <2>2 DEF EventAfter
  <2> QED
    BY <2>1, <2>2
<1>4. ASSUME NEW k \in Links, NEW i, NEW j, Given(k, j), Covered(k, j) \/ EventAfter(k, i, j)
      PROVE  Given(k, j)' /\ (Covered(k, j)' \/ EventAfter(k, i, j)')
  <2>1. Given(k, j)' /\ (Covered(k, j) => Covered(k, j)')
    BY <1>1, <1>4, CoveredKept
  <2>2. <<k, j>> \in gap' => Covered(k, j)'
    BY DEF Covered
  <2> QED
    BY <1>3, <1>4, <2>1, <2>2
<1>5. ASSUME NEW r \in DOMAIN inflight', NEW k \in Links, OfLink(r, k)', NEW j \in Awaited(r)'
      PROVE  Given(k, j)' /\ (Covered(k, j)' \/ EventAfter(k, 0, j)')
  <2>1. r \in DOMAIN inflight /\ j \in Awaited(r)
    OBVIOUS
  <2>2. OfLink(r, k)
    BY <1>5, <2>1, LinksKept
  <2> QED
    BY <1>4, <2>1, <2>2 DEF EndsAreComing
<1>6. ASSUME NEW k \in Links, NEW i \in DOMAIN reply'[k], reply'[k][i].what = "ok",
             NEW j \in reply'[k][i].jobs
      PROVE  Given(k, j)' /\ (Covered(k, j)' \/ EventAfter(k, i, j)')
  <2>1. k # l /\ reply[k] = reply'[k]
    BY <1>1, <1>6, NoElements
  <2> QED
    BY <1>4, <1>6, <2>1 DEF EndsAreComing
<1> QED
  BY <1>5, <1>6 DEF EndsAreComing

\* A request that is told of a job is told of a job whose end comes behind.
LEMMA EndsTaken ==
  ASSUME RequestTypes, RequestTypes', Kept, Replies, EndsAreComing, UNCHANGED <<job, last, gap>>,
         NEW l \in Links, NEW m \in Reply, reply[l] # <<>>, m = Head(reply[l]), Request!Took(l),
         \A r \in DOMAIN inflight' : \A j \in Awaited(r)' :
           /\ r \in DOMAIN inflight
           /\ j \in Awaited(r) \/ (m.what = "ok" /\ r = m.rid /\ j \in m.jobs)
           /\ ~(m.what = "event" /\ OfLink(r, l) /\ j \in m.jobs)
  PROVE  EndsAreComing'
<1>1. reply'[l] = Tail(reply[l]) /\ \A k \in Links : k # l => reply'[k] = reply[k]
  BY DEF Request!Took, RequestTypes
<1>2. reply[l] \in Seq(Reply)
  BY DEF RequestTypes
<1>3. /\ 1 \in DOMAIN reply[l] /\ m = reply[l][1]
      /\ \A i \in DOMAIN reply'[l] : i \in Nat /\ i > 0 /\ i + 1 \in DOMAIN reply[l]
                                     /\ reply'[l][i] = reply[l][i + 1]
      /\ \A i \in DOMAIN reply[l] : i \in Nat /\ (i > 1 => i - 1 \in DOMAIN reply'[l]
                                                          /\ reply'[l][i - 1] = reply[l][i])
  <2>1. /\ 1 \in DOMAIN reply[l] /\ Head(reply[l]) = reply[l][1]
        /\ \A i \in DOMAIN Tail(reply[l]) : i \in Nat /\ i > 0 /\ i + 1 \in DOMAIN reply[l]
                                            /\ Tail(reply[l])[i] = reply[l][i + 1]
        /\ \A i \in DOMAIN reply[l] : i \in Nat /\ (i > 1 => i - 1 \in DOMAIN Tail(reply[l])
                                                            /\ Tail(reply[l])[i - 1] = reply[l][i])
    BY <1>2, Rest
  <2>2. reply'[l] = Tail(reply[l])
    BY <1>1
  <2>3. \A i \in DOMAIN reply'[l] : i \in Nat /\ i > 0 /\ i + 1 \in DOMAIN reply[l]
                                    /\ reply'[l][i] = reply[l][i + 1]
    BY <2>1, <2>2, Zenon
  <2>4. \A i \in DOMAIN reply[l] : i \in Nat /\ (i > 1 => i - 1 \in DOMAIN reply'[l]
                                                         /\ reply'[l][i - 1] = reply[l][i])
    BY <2>1, <2>2
  <2> QED
    BY <2>1, <2>3, <2>4
<1>4. ASSUME NEW k, NEW j, Given(k, j) PROVE Given(k, j)' /\ (Covered(k, j) => Covered(k, j)')
  BY <1>4, CoveredKept
<1>5. ASSUME NEW k \in Links, k # l, NEW i, NEW j, EventAfter(k, i, j) PROVE EventAfter(k, i, j)'
  BY <1>1, <1>5 DEF EventAfter
<1>6. ASSUME NEW i \in Nat, NEW j, EventAfter(l, i + 1, j) PROVE EventAfter(l, i, j)'
  <2>1. PICK k \in DOMAIN reply[l] :
               k > i + 1 /\ reply[l][k].what = "event" /\ j \in reply[l][k].jobs
    BY <1>6 DEF EventAfter
  <2>2. k \in Nat /\ k - 1 > i /\ k - 1 \in DOMAIN reply'[l] /\ reply'[l][k - 1] = reply[l][k]
    BY <1>3, <2>1
  <2> QED
    BY <2>1, <2>2 DEF EventAfter
<1>7. ASSUME NEW j, EventAfter(l, 0, j), ~(m.what = "event" /\ j \in m.jobs)
      PROVE  EventAfter(l, 1, j)
  <2>1. PICK k \in DOMAIN reply[l] : k > 0 /\ reply[l][k].what = "event" /\ j \in reply[l][k].jobs
    BY <1>7 DEF EventAfter
  <2>2. k # 1
    BY <1>3, <1>7, <2>1
  <2>3. k > 1
    BY <1>3, <2>1, <2>2
  <2> QED
    BY <2>1, <2>3 DEF EventAfter
<1>8. m.what = "ok" => OfLink(m.rid, l)
  BY <1>3 DEF Replies, In, Answered, Acks
<1>9. ASSUME NEW r \in DOMAIN inflight', NEW k \in Links, OfLink(r, k)', NEW j \in Awaited(r)'
      PROVE  Given(k, j)' /\ (Covered(k, j)' \/ EventAfter(k, 0, j)')
  <2>1. /\ r \in DOMAIN inflight
        /\ j \in Awaited(r) \/ (m.what = "ok" /\ r = m.rid /\ j \in m.jobs)
        /\ ~(m.what = "event" /\ OfLink(r, l) /\ j \in m.jobs)
    OBVIOUS
  <2>2. OfLink(r, k)
    BY <1>9, <2>1, LinksKept
  <2>3. CASE j \in Awaited(r)
    <3>1. Given(k, j) /\ (Covered(k, j) \/ EventAfter(k, 0, j))
      BY <2>1, <2>2, <2>3 DEF EndsAreComing
    <3>2. ASSUME k = l, EventAfter(k, 0, j) PROVE EventAfter(k, 0, j)'
      <4>1. EventAfter(l, 0 + 1, j)
        BY <1>7, <2>1, <2>2, <3>2
      <4> QED
        BY <1>6, <3>2, <4>1
    <3> QED
      BY <1>4, <1>5, <3>1, <3>2
  <2>4. CASE m.what = "ok" /\ r = m.rid /\ j \in m.jobs
    <3>1. k = l
      BY <1>8, <2>2, <2>4, LinkFacts DEF OfLink
    <3>2. Given(l, j) /\ (Covered(l, j) \/ EventAfter(l, 1, j))
      BY <1>3, <2>4 DEF EndsAreComing
    <3>3. EventAfter(l, 0 + 1, j) => EventAfter(l, 0, j)'
      BY <1>6
    <3> QED
      BY <1>4, <3>1, <3>2, <3>3
  <2> QED
    BY <2>1, <2>3, <2>4
<1>10. ASSUME NEW k \in Links, NEW i \in DOMAIN reply'[k], reply'[k][i].what = "ok",
              NEW j \in reply'[k][i].jobs
       PROVE  Given(k, j)' /\ (Covered(k, j)' \/ EventAfter(k, i, j)')
  <2>1. CASE k # l
    <3>1. Given(k, j) /\ (Covered(k, j) \/ EventAfter(k, i, j))
      BY <1>1, <1>10, <2>1 DEF EndsAreComing
    <3> QED
      BY <1>4, <1>5, <2>1, <3>1
  <2>2. CASE k = l
    <3>1. i \in Nat /\ i + 1 \in DOMAIN reply[l] /\ reply[l][i + 1] = reply'[l][i]
      BY <1>3, <1>10, <2>2
    <3>2. Given(l, j) /\ (Covered(l, j) \/ EventAfter(l, i + 1, j))
      BY <1>10, <2>2, <3>1 DEF EndsAreComing
    <3> QED
      BY <1>4, <1>6, <2>2, <3>1, <3>2
  <2> QED
    BY <2>1, <2>2
<1> QED
  BY <1>9, <1>10 DEF EndsAreComing

-----------------------------------------------------------------------------
(* The steps.                                                                *)

\* A session that ends, or that another replaces.
LEMMA CutStep ==
  ASSUME RequestInv, NEW l \in Links, Request!Cut(l),
         UNCHANGED <<doing, job, jobs, owner, holds, done, last>>,
         live' \in [Links -> 0..MaxSession], opened' \in 0..MaxSession,
         \A k \in Links : k # l => live'[k] = live[k],
         DOMAIN inflight' = DOMAIN inflight, inflight' = [r \in DOMAIN inflight' |-> inflight'[r]],
         \A r \in DOMAIN inflight :
           inflight'[r] \in {inflight[r], [inflight[r] EXCEPT !.state = "ended"]}
  PROVE  RequestInv'
<1> USE DEF RequestInv
<1>1. \A r \in DOMAIN inflight :
        /\ inflight'[r] \in Request!Request /\ inflight'[r].kind = inflight[r].kind
        /\ inflight'[r].by = inflight[r].by /\ inflight'[r].of = inflight[r].of
        /\ inflight'[r].lacks = inflight[r].lacks /\ inflight'[r].jobs = inflight[r].jobs
        /\ inflight'[r].told = inflight[r].told
        /\ inflight'[r].state \in {inflight[r].state, "ended"}
  <2> TAKE r \in DOMAIN inflight
  <2>1. inflight[r] \in Request!Request
    BY Requests
  <2> QED
    BY <2>1 DEF Request!Request
<1>2. Kept /\ inflight' \in Seq(Request!Request) /\ Len(inflight') <= MaxRids
  BY <1>1, RequestsChanged
<1>3. /\ query' = [query EXCEPT ![l] = <<>>] /\ reply' = [reply EXCEPT ![l] = <<>>]
      /\ gap' = gap \union Request!Lost(l)
  BY DEF Request!Cut
<1>4. /\ query'[l] = <<>> /\ reply'[l] = <<>>
      /\ \A k \in Links : k # l => query'[k] = query[k] /\ reply'[k] = reply[k]
      /\ query' \in [Links -> Seq(Query)] /\ reply' \in [Links -> Seq(Reply)]
  BY <1>3, EmptySeq DEF RequestTypes
<1>5. gap' \subseteq Links \X Request!Jobs
  <2>1. \A i \in DOMAIN reply[l] : reply[l][i] \in Reply
    BY Elements DEF RequestTypes
  <2>2. Request!Lost(l) \subseteq Links \X Request!Jobs
    BY <2>1, Figures DEF Request!Lost, Reply
  <2> QED
    BY <1>3, <2>2 DEF RequestTypes, Request!TypeOK
<1>6. RequestTypes'
  <2>1. \A r \in DOMAIN inflight' : inflight'[r] \in Request!Request
    BY <1>1
  <2>2. \A k \in Links : live'[k] = 0 => query'[k] = <<>>
    BY <1>4 DEF RequestTypes
  <2> QED
    BY <1>2, <1>4, <1>5, <2>1, <2>2 DEF RequestTypes, Request!TypeOK, JobTypes
<1>7. Queries'
  <2>1. \A k \in Links, q \in Query : In(q, query'[k]) => In(q, query[k])
    BY <1>4, InNothing
  <2> QED
    BY <1>2, <2>1, QueriesKept
<1>8. Replies'
  <2>1. \A k \in Links, m \in Reply : In(m, reply'[k]) => In(m, reply[k])
    BY <1>4, InNothing
  <2> QED
    BY <1>2, <2>1, RepliesKept
<1>9. Doings'
  BY <1>2, DoingsKept DEF Doings
<1>10. Lacking'
  <2>1. \A k \in Links : Within(query[k], query'[k]) /\ WithinFound(reply[k], reply'[k])
    <3> TAKE k \in Links
    <3>1. query[k] \in Seq(Query) /\ reply[k] \in Seq(Reply)
      BY DEF RequestTypes
    <3>2. Within(query[k], query[k]) /\ WithinFound(reply[k], reply[k])
      BY <3>1, WithinItself
    <3>3. Within(query[k], <<>>) /\ WithinFound(reply[k], <<>>)
      BY <3>1, WithinNothing
    <3> QED
      BY <1>4, <3>2, <3>3
  <2> QED
    BY <1>1, <1>2, <1>6, <2>1, SearchesKept
<1>11. JobsFit'
  BY <1>2, JobsKept
<1>12. EndsAreComing'
  BY <1>1, <1>2, <1>6, EndsCut DEF Awaited
<1>13. Request!AnswersAreTrue'
  BY <1>1, <1>2, AnswersKept
<1> QED
  BY <1>6, <1>7, <1>8, <1>9, <1>10, <1>11, <1>12, <1>13

\* Open and Drop.
LEMMA SessionSteps ==
  ASSUME RequestInv, NEW l \in Links, Request!Open(l) \/ Request!Drop(l) PROVE RequestInv'
<1> USE DEF RequestInv
<1>1. live \in [Links -> 0..MaxSession] /\ opened \in 0..MaxSession
  BY DEF RequestTypes, Request!TypeOK
<1>2. inflight \in Seq(Request!Request)
  BY DEF RequestTypes
<1>3. CASE Request!Open(l)
  <2>1. /\ opened' \in 0..MaxSession /\ live' \in [Links -> 0..MaxSession]
        /\ \A k \in Links : k # l => live'[k] = live[k]
    BY <1>1, <1>3, Figures DEF Request!Open
  <2>2. inflight' = inflight /\ inflight = [r \in DOMAIN inflight |-> inflight[r]]
    BY <1>2, <1>3 DEF Request!Open
  <2> QED
    BY <1>3, <2>1, <2>2, CutStep DEF Request!Open
<1>4. CASE Request!Drop(l)
  <2>1. /\ opened' \in 0..MaxSession /\ live' \in [Links -> 0..MaxSession]
        /\ \A k \in Links : k # l => live'[k] = live[k]
    BY <1>1, <1>4, Figures DEF Request!Drop
  <2>2. inflight' = Request!FailInflightFor(l)
    BY <1>4 DEF Request!Drop
  <2>3. DOMAIN inflight' = DOMAIN inflight /\ inflight' = [r \in DOMAIN inflight' |-> inflight'[r]]
    BY <2>2 DEF Request!FailInflightFor
  <2>4. \A r \in DOMAIN inflight :
          inflight'[r] \in {inflight[r], [inflight[r] EXCEPT !.state = "ended"]}
    BY <2>2 DEF Request!FailInflightFor
  <2> QED
    BY <1>4, <2>1, <2>3, <2>4, CutStep DEF Request!Drop
<1> QED
  BY <1>3, <1>4

\* One request more, sent over some links.
LEMMA AskedStep ==
  ASSUME RequestInv,
         UNCHANGED <<live, opened, reply, doing, job, jobs, owner, holds, done, gap, last>>,
         Request!NextRid \in Request!Rids, NEW kind \in Asks, NEW h \in Request!Askers,
         NEW whom \in SUBSET Request!Servers,
         inflight' = Request!Asked(kind, h, whom), query' = [l \in Links |-> query'[l]],
         \A l \in Links :
           \/ query'[l] = query[l]
           \/ /\ live[l] # 0 /\ l[1] = h
              /\ IF kind = "search" THEN l[2] \in whom ELSE whom = {l[2]}
              /\ query'[l] = Append(query[l], [kind |-> kind, rid |-> Request!NextRid])
  PROVE  RequestInv'
<1> USE DEF RequestInv
<1> DEFINE r == [kind |-> kind, by |-> h, of |-> whom, state |-> "waiting",
                 lacks |-> Cardinality(whom), jobs |-> {}, told |-> {}]
           q == [kind |-> kind, rid |-> Request!NextRid]
<1>1. Cardinality(whom) \in Nat
  BY ServersAreFinite, FS_Subset, FS_CardinalityType
<1>2. r \in Request!Request
  BY <1>1, Figures DEF Request!Request, Asks
<1>3. inflight' = Append(inflight, r)
  BY Zenon DEF Request!Asked, Request!Cardinality, Cardinality
<1>4. /\ Kept /\ inflight' \in Seq(Request!Request) /\ Len(inflight') <= MaxRids
      /\ \A i \in DOMAIN inflight : inflight'[i] = inflight[i]
      /\ \A i \in DOMAIN inflight' : i \in DOMAIN inflight \/ i = Request!NextRid
      /\ Request!NextRid \in DOMAIN inflight' /\ inflight'[Request!NextRid] = r
      /\ Request!NextRid \in Nat
  BY <1>2, <1>3, RequestsAsked
<1>5. q \in Query
  BY <1>4 DEF Query
<1>6. query' \in [Links -> Seq(Query)] /\ \A l \in Links : live[l] = 0 => query'[l] = <<>>
  <2>1. \A l \in Links : query[l] \in Seq(Query) /\ (live[l] = 0 => query[l] = <<>>)
    BY DEF RequestTypes
  <2>2. \A l \in Links : Append(query[l], q) \in Seq(Query)
    BY <1>5, <2>1, AppendProperties
  <2>3. \A l \in Links : query'[l] \in Seq(Query) /\ (live[l] = 0 => query'[l] = <<>>)
    BY <2>1, <2>2
  <2> QED
    BY <2>3
<1>7. RequestTypes'
  BY <1>4, <1>6, AskerTypes DEF RequestTypes
<1>8. Queries'
  <2>1. ASSUME NEW l \in Links, NEW x \in Query, In(x, query'[l]), ~In(x, query[l])
        PROVE  Queried(l, x)'
    <3>1. query[l] \in Seq(Query)
      BY DEF RequestTypes
    <3>2. /\ l[1] = h /\ IF kind = "search" THEN l[2] \in whom ELSE whom = {l[2]}
          /\ query'[l] = Append(query[l], q)
      BY <2>1
    <3>3. x = q
      BY <1>5, <2>1, <3>1, <3>2, InAppended
    <3> QED
      BY <1>4, <3>2, <3>3 DEF Queried, AsOne, OfLink
  <2> QED
    BY <1>4, <2>1, QueriesKept
<1>9. Replies'
  BY <1>4, <1>7, RepliesKept
<1>10. Doings'
  BY <1>4, DoingsKept DEF Doings
<1>11. Lacking'
  BY <1>4, <1>5, <1>7, SearchesAsked
<1>12. JobsFit'
  BY <1>4, JobsKept
<1>13. EndsAreComing'
  BY <1>4, <1>7, EndsSaid, CoveredKept DEF Awaited
<1>14. Request!AnswersAreTrue'
  BY <1>4, AnswersKept
<1> QED
  BY <1>7, <1>8, <1>9, <1>10, <1>11, <1>12, <1>13, <1>14

\* Ask and Search.
LEMMA AskSteps ==
  ASSUME RequestInv,
         \/ \E l \in Links : \E kind \in RemoteInstalls \union Calls[l] : Request!Ask(l, kind)
         \/ \E h \in Request!Askers : Request!Search(h)
  PROVE  RequestInv'
<1>1. query \in [Links -> Seq(Query)]
  BY DEF RequestInv, RequestTypes
<1>2. ASSUME NEW l \in Links, NEW kind \in RemoteInstalls \union Calls[l], Request!Ask(l, kind)
      PROVE RequestInv'
  <2>1. /\ kind \in Asks /\ kind # "search" /\ l[1] \in Request!Askers
        /\ {l[2]} \in SUBSET Request!Servers
    BY LinkFacts, Figures DEF Asks, Later
  <2>2. /\ query' = [k \in Links |-> query'[k]]
        /\ query'[l] = Append(query[l], [kind |-> kind, rid |-> Request!NextRid])
        /\ \A k \in Links : k # l => query'[k] = query[k]
    BY <1>1, <1>2 DEF Request!Ask
  <2>3. \A k \in Links : \/ query'[k] = query[k]
                       \/ /\ live[k] # 0 /\ k[1] = l[1]
                          /\ IF kind = "search" THEN k[2] \in {l[2]} ELSE {l[2]} = {k[2]}
                          /\ query'[k] = Append(query[k], [kind |-> kind, rid |-> Request!NextRid])
    BY <1>2, <2>2 DEF Request!Ask
  <2>4. inflight' = Request!Asked(kind, l[1], {l[2]})
    BY <1>2 DEF Request!Ask, Request!Server
  <2>5. /\ UNCHANGED <<live, opened, reply, doing, job, jobs, owner, holds, done, gap, last>>
        /\ Request!NextRid \in Request!Rids
    BY <1>2 DEF Request!Ask
  <2>6. PICK h \in Request!Askers, whom \in SUBSET Request!Servers : h = l[1] /\ whom = {l[2]}
    BY <2>1
  <2>7. \A k \in Links : \/ query'[k] = query[k]
                       \/ /\ live[k] # 0 /\ k[1] = h
                          /\ IF kind = "search" THEN k[2] \in whom ELSE whom = {k[2]}
                          /\ query'[k] = Append(query[k], [kind |-> kind, rid |-> Request!NextRid])
    BY <2>3, <2>6
  <2> QED
    BY <2>1, <2>2, <2>4, <2>5, <2>6, <2>7, AskedStep
<1>3. ASSUME NEW h \in Request!Askers, Request!Search(h) PROVE RequestInv'
  <2> DEFINE there == {l \in Links : l[1] = h /\ live[l] # 0}
             whom == {l[2] : l \in there}
  <2>1. whom \in SUBSET Request!Servers /\ "search" \in Asks
    BY LinkFacts DEF Asks
  <2>2. /\ query' = [k \in Links |-> query'[k]]
        /\ \A k \in Links : query'[k] = IF k \in there
                                       THEN Append(query[k],
                                                   [kind |-> "search", rid |-> Request!NextRid])
                                       ELSE query[k]
    BY <1>3 DEF Request!Search
  <2>3. \A l \in Links : \/ query'[l] = query[l]
                       \/ /\ live[l] # 0 /\ l[1] = h /\ l[2] \in whom
                          /\ query'[l] =
                               Append(query[l], [kind |-> "search", rid |-> Request!NextRid])
    BY <2>2
  <2>4. inflight' = Request!Asked("search", h, whom)
    BY <1>3 DEF Request!Search, Request!Server
  <2> QED
    BY <1>3, <2>1, <2>2, <2>3, <2>4, AskedStep DEF Request!Search
<1> QED
  BY <1>2, <1>3

\* Timeout.
LEMMA TimeoutStep ==
  ASSUME RequestInv, NEW r \in Request!Rids, Request!Timeout(r) PROVE RequestInv'
<1> USE DEF RequestInv
<1>1. r \in DOMAIN inflight /\ inflight' = [inflight EXCEPT ![r].state = "timeout"]
      /\ UNCHANGED <<live, opened, query, reply, doing, job, jobs, owner, holds, done, gap, last>>
  BY DEF Request!Timeout
<1>2. /\ DOMAIN inflight' = DOMAIN inflight
      /\ inflight' = [i \in DOMAIN inflight' |-> inflight'[i]]
      /\ \A i \in DOMAIN inflight :
           inflight'[i] \in {inflight[i], [inflight[i] EXCEPT !.state = "timeout"]}
  <2>1. inflight \in Seq(Request!Request)
    BY DEF RequestTypes
  <2> QED
    BY <1>1, <2>1
<1>3. \A i \in DOMAIN inflight :
        /\ inflight'[i] \in Request!Request /\ inflight'[i].kind = inflight[i].kind
        /\ inflight'[i].by = inflight[i].by /\ inflight'[i].of = inflight[i].of
        /\ inflight'[i].lacks = inflight[i].lacks /\ inflight'[i].jobs = inflight[i].jobs
        /\ inflight'[i].told = inflight[i].told
        /\ inflight'[i].state \in {inflight[i].state, "timeout"}
  <2> TAKE i \in DOMAIN inflight
  <2>1. inflight[i] \in Request!Request
    BY Requests
  <2> QED
    BY <1>2, <2>1 DEF Request!Request
<1>4. Kept /\ inflight' \in Seq(Request!Request) /\ Len(inflight') <= MaxRids
  BY <1>2, <1>3, RequestsChanged
<1>5. RequestTypes'
  BY <1>1, <1>4, AskerTypes DEF RequestTypes
<1>6. Queries'
  BY <1>1, <1>4, QueriesKept
<1>7. Replies'
  BY <1>1, <1>4, <1>5, RepliesKept
<1>8. Doings'
  BY <1>1, <1>4, DoingsKept DEF Doings
<1>9. Lacking'
  <2>1. \A k \in Links : Within(query[k], query'[k]) /\ WithinFound(reply[k], reply'[k])
    BY <1>1, WithinItself DEF RequestTypes
  <2> QED
    BY <1>1, <1>2, <1>3, <1>4, <1>5, <2>1, SearchesKept
<1>10. JobsFit'
  BY <1>1, <1>4, JobsKept
<1>11. EndsAreComing'
  BY <1>1, <1>2, <1>3, <1>4, <1>5, EndsSaid, CoveredKept DEF Awaited
<1>12. Request!AnswersAreTrue'
  BY <1>1, <1>2, <1>3, <1>4, AnswersKept
<1> QED
  BY <1>5, <1>6, <1>7, <1>8, <1>9, <1>10, <1>11, <1>12

\* A message that is taken changes what its request knows.
LEMMA TakenStep ==
  ASSUME RequestInv, NEW l \in Links, NEW m \in Reply, reply[l] # <<>>, m = Head(reply[l]),
         Request!Took(l),
         UNCHANGED <<live, opened, query, doing, job, jobs, owner, holds, done, gap, last>>,
         DOMAIN inflight' = DOMAIN inflight, inflight' = [r \in DOMAIN inflight' |-> inflight'[r]],
         \A r \in DOMAIN inflight : /\ inflight'[r] \in Request!Request
                                    /\ inflight'[r].kind = inflight[r].kind
                                    /\ inflight'[r].by = inflight[r].by
                                    /\ inflight'[r].of = inflight[r].of
  PROVE  /\ Kept /\ RequestTypes' /\ Queries' /\ Replies' /\ Doings'
         /\ \A k \in Links : Within(query[k], query'[k]) /\ WithinFound(reply[k], reply'[k])
         /\ In(m, reply[l]) /\ Answered(l, m)
<1> USE DEF RequestInv
<1>1. Kept /\ inflight' \in Seq(Request!Request) /\ Len(inflight') <= MaxRids
  BY RequestsChanged
<1>2. /\ reply'[l] = Tail(reply[l]) /\ \A k \in Links : k # l => reply'[k] = reply[k]
      /\ reply[l] \in Seq(Reply)
  BY DEF Request!Took, RequestTypes
<1>3. reply' \in [Links -> Seq(Reply)]
  <2>1. Tail(reply[l]) \in Seq(Reply)
    BY <1>2, Rest
  <2> QED
    BY <2>1 DEF Request!Took, RequestTypes
<1>4. RequestTypes'
  BY <1>1, <1>3, AskerTypes DEF RequestTypes
<1>5. Queries'
  BY <1>1, QueriesKept
<1>6. Replies'
  <2>1. \A k \in Links, x \in Reply : In(x, reply'[k]) => In(x, reply[k])
    BY <1>2, InRest
  <2> QED
    BY <1>1, <2>1, RepliesKept
<1>7. Doings'
  BY <1>1, DoingsKept DEF Doings
<1>8. \A k \in Links : Within(query[k], query'[k]) /\ WithinFound(reply[k], reply'[k])
  <2>1. \A k \in Links : Within(query[k], query[k]) /\ WithinFound(reply[k], reply[k])
    BY WithinItself DEF RequestTypes
  <2>2. WithinFound(reply[l], Tail(reply[l]))
    BY <1>2, WithinRest
  <2> QED
    BY <1>2, <2>1, <2>2
<1>9. In(m, reply[l]) /\ Answered(l, m)
  BY <1>2, InHead DEF Replies
<1> QED
  BY <1>1, <1>4, <1>5, <1>6, <1>7, <1>8, <1>9

\* An answer that is not one of a search.
LEMMA AckStep ==
  ASSUME RequestInv, NEW l \in Links, NEW m \in Reply, reply[l] # <<>>, m = Head(reply[l]),
         Request!Took(l),
         UNCHANGED <<live, opened, query, doing, job, jobs, owner, holds, done, last>>,
         Request!OnAck(l, m)
  PROVE  RequestInv'
<1> USE DEF RequestInv
<1>1. m.what \in Acks /\ m.what \notin Found /\ m.what # "event" /\ UNCHANGED gap
  BY DEF Request!OnAck, Acks, Found
<1>2. m.rid \in DOMAIN inflight
  <2>1. In(m, reply[l])
    BY InHead DEF RequestTypes
  <2> QED
    BY <1>1, <2>1 DEF Replies, Answered
<1>3. /\ DOMAIN inflight' = DOMAIN inflight
      /\ inflight' = [r \in DOMAIN inflight' |-> inflight'[r]]
      /\ \A r \in DOMAIN inflight :
           \/ inflight'[r] = inflight[r]
           \/ r = m.rid /\ inflight'[r] = [inflight[r] EXCEPT !.state = m.what, !.jobs = m.jobs]
  <2>1. inflight \in Seq(Request!Request) /\ inflight = [r \in DOMAIN inflight |-> inflight[r]]
    BY DEF RequestTypes
  <2>2. CASE Request!Waiting(m.rid)
    <3>1. inflight' = 
           [inflight EXCEPT ![m.rid] = [inflight[m.rid] EXCEPT !.state = m.what, !.jobs = m.jobs]]
      BY <1>2, <2>2 DEF Request!OnAck
    <3> QED
      BY <1>2, <2>1, <3>1
  <2>3. CASE ~Request!Waiting(m.rid)
    BY <2>1, <2>3 DEF Request!OnAck
  <2> QED
    BY <2>2, <2>3
<1>4. \A r \in DOMAIN inflight :
        /\ inflight'[r] \in Request!Request /\ inflight'[r].kind = inflight[r].kind
        /\ inflight'[r].by = inflight[r].by /\ inflight'[r].of = inflight[r].of
        /\ inflight'[r].lacks = inflight[r].lacks /\ inflight'[r].told = inflight[r].told
        /\ \/ inflight'[r].state = inflight[r].state /\ inflight'[r].jobs = inflight[r].jobs
           \/ r = m.rid /\ inflight'[r].state = m.what /\ inflight'[r].jobs = m.jobs
  <2> TAKE r \in DOMAIN inflight
  <2>1. inflight[r] \in Request!Request
    BY Requests
  <2>2. m.jobs \in SUBSET Request!Jobs
    BY DEF Reply
  <2>3. CASE inflight'[r] = inflight[r]
    BY <2>1, <2>3
  <2>4. CASE r = m.rid /\ inflight'[r] = [inflight[r] EXCEPT !.state = m.what, !.jobs = m.jobs]
    BY <1>1, <2>1, <2>2, <2>4 DEF Request!Request, Acks
  <2> QED
    BY <1>3, <2>3, <2>4
<1>5. /\ Kept /\ RequestTypes' /\ Queries' /\ Replies' /\ Doings'
      /\ \A k \in Links : Within(query[k], query'[k]) /\ WithinFound(reply[k], reply'[k])
      /\ In(m, reply[l]) /\ Answered(l, m)
  BY <1>1, <1>3, <1>4, TakenStep
<1>6. /\ inflight[m.rid].kind # "search" /\ OfLink(m.rid, l)
      /\ m.what = "ok" => m.rid \in done
      /\ m.what # "ok" => m.jobs = {}
  BY <1>1, <1>5 DEF Answered
<1>7. Lacking'
  <2>1. \A r \in DOMAIN inflight' :
          inflight'[r].kind = "search" /\ inflight'[r].state = "waiting" =>
            /\ r \in DOMAIN inflight /\ inflight[r].state = "waiting"
            /\ inflight'[r].lacks = inflight[r].lacks
    <3> SUFFICES ASSUME NEW r \in DOMAIN inflight', inflight'[r].kind = "search",
                        inflight'[r].state = "waiting"
                 PROVE  /\ r \in DOMAIN inflight /\ inflight[r].state = "waiting"
                        /\ inflight'[r].lacks = inflight[r].lacks
      OBVIOUS
    <3>1. r \in DOMAIN inflight /\ r # m.rid
      <4>1. DOMAIN inflight' = DOMAIN inflight
        BY <1>3, Zenon
      <4> QED
        BY <1>4, <1>6, <4>1
    <3> QED
      BY <1>4, <3>1
  <2> QED
    BY <1>5, <2>1, SearchesKept
<1>8. JobsFit'
  BY <1>5, JobsKept
<1>9. EndsAreComing'
  <2>1. \A r \in DOMAIN inflight' : \A j \in Awaited(r)' :
           /\ r \in DOMAIN inflight
           /\ j \in Awaited(r) \/ (m.what = "ok" /\ r = m.rid /\ j \in m.jobs)
           /\ ~(m.what = "event" /\ OfLink(r, l) /\ j \in m.jobs)
    BY <1>1, <1>3, <1>4, <1>6 DEF Awaited
  <2> QED
    BY <1>1, <1>5, <2>1, EndsTaken
<1>10. Request!AnswersAreTrue'
  <2> SUFFICES ASSUME NEW r \in DOMAIN inflight'
               PROVE  /\ inflight'[r].state = "ok" /\ inflight'[r].kind # "search" => r \in done'
                      /\ inflight'[r].state = "nobody" => inflight'[r].of \intersect holds' = {}
    BY DEF Request!AnswersAreTrue
  <2> QED
    BY <1>1, <1>3, <1>4, <1>6 DEF Request!AnswersAreTrue, Acks
<1> QED
  BY <1>5, <1>7, <1>8, <1>9, <1>10

\* The answer of one hub to a search.
LEMMA HaveStep ==
  ASSUME RequestInv, NEW l \in Links, NEW m \in Reply, reply[l] # <<>>, m = Head(reply[l]),
         Request!Took(l),
         UNCHANGED <<live, opened, query, doing, job, jobs, owner, holds, done, last>>,
         Request!OnAssetHave(l, m)
  PROVE  RequestInv'
<1> USE DEF RequestInv
<1>1. m.what \in Found /\ UNCHANGED gap
  BY DEF Request!OnAssetHave, Found
<1>2. In(m, reply[l]) /\ m.rid \in DOMAIN inflight
  <2>1. In(m, reply[l])
    BY InHead DEF RequestTypes
  <2> QED
    BY Zenon, <1>1, <2>1 DEF Replies, Answered
<1>3. /\ DOMAIN inflight' = DOMAIN inflight
      /\ inflight' = [r \in DOMAIN inflight' |-> inflight'[r]]
      /\ \A r \in DOMAIN inflight :
           \/ inflight'[r] = inflight[r]
           \/ r = m.rid /\ inflight'[r] = [inflight[r] EXCEPT !.state = "ok"]
           \/ r = m.rid /\ inflight'[r] = [inflight[r] EXCEPT !.lacks = inflight[r].lacks - 1]
           \/ /\ r = m.rid /\ inflight'[r] = [inflight[r] EXCEPT !.state = "nobody", !.lacks = 0]
              /\ inflight[r].state = "waiting" /\ m.what = "lacks" /\ inflight[r].lacks <= 1
  <2>1. inflight \in Seq(Request!Request) /\ inflight = [r \in DOMAIN inflight |-> inflight[r]]
    BY DEF RequestTypes
  <2>2. CASE UNCHANGED inflight
    BY <2>1, <2>2
  <2>3. CASE inflight' = [inflight EXCEPT ![m.rid].state = "ok"]
    BY <1>2, <2>1, <2>3
  <2>4. CASE inflight' = [inflight EXCEPT ![m.rid].lacks = @ - 1]
    BY <1>2, <2>1, <2>4
  <2>5. CASE /\ inflight' = [inflight EXCEPT ![m.rid].state = "nobody", ![m.rid].lacks = 0]
             /\ Request!Waiting(m.rid) /\ m.what = "lacks" /\ inflight[m.rid].lacks <= 1
    <3>1. inflight' = 
           [inflight EXCEPT ![m.rid] = [inflight[m.rid] EXCEPT !.state = "nobody", !.lacks = 0]]
      BY <1>2, <2>5
    <3>2. inflight'[m.rid] = [inflight[m.rid] EXCEPT !.state = "nobody", !.lacks = 0]
          /\ \A r \in DOMAIN inflight : r # m.rid => inflight'[r] = inflight[r]
      BY <1>2, <3>1
    <3>3. /\ DOMAIN inflight' = DOMAIN inflight
          /\ inflight' = [r \in DOMAIN inflight' |-> inflight'[r]]
      BY <2>1, <3>1
    <3> QED
      BY Zenon, <2>5, <3>2, <3>3 DEF Request!Waiting
  <2> QED
    BY Zenon, <2>2, <2>3, <2>4, <2>5 DEF Request!OnAssetHave
<1>4. \A r \in DOMAIN inflight :
        /\ inflight'[r] \in Request!Request /\ inflight'[r].kind = inflight[r].kind
        /\ inflight'[r].by = inflight[r].by /\ inflight'[r].of = inflight[r].of
        /\ inflight'[r].told = inflight[r].told /\ inflight'[r].jobs = inflight[r].jobs
        /\ \/ inflight'[r].state = inflight[r].state
           \/ inflight'[r].state = "ok" /\ r = m.rid
           \/ /\ inflight'[r].state = "nobody" /\ r = m.rid
              /\ inflight[r].state = "waiting" /\ m.what = "lacks" /\ inflight[r].lacks <= 1
  <2> TAKE r \in DOMAIN inflight
  <2>1. inflight[r] \in Request!Request
    BY Requests
  <2>2. CASE inflight'[r] = inflight[r]
    BY <2>1, <2>2
  <2>3. CASE r = m.rid /\ inflight'[r] = [inflight[r] EXCEPT !.state = "ok"]
    BY <2>1, <2>3 DEF Request!Request
  <2>4. CASE r = m.rid /\ inflight'[r] = [inflight[r] EXCEPT !.lacks = inflight[r].lacks - 1]
    BY <2>1, <2>4 DEF Request!Request
  <2>5. CASE /\ r = m.rid /\ inflight'[r] = [inflight[r] EXCEPT !.state = "nobody", !.lacks = 0]
             /\ inflight[r].state = "waiting" /\ m.what = "lacks" /\ inflight[r].lacks <= 1
    <3> PICK x \in Request!Request : x = inflight[r]
      BY <2>1
    <3> PICK y : y = inflight'[r]
      OBVIOUS
    <3>1. y = [x EXCEPT !.state = "nobody", !.lacks = 0]
      BY <2>5
    <3>2. /\ y \in Request!Request /\ y.kind = x.kind /\ y.by = x.by /\ y.of = x.of
          /\ y.told = x.told /\ y.jobs = x.jobs /\ y.state = "nobody"
      <4> PICK z : z = [x EXCEPT !.state = "nobody"]
        OBVIOUS
      <4>1. /\ z \in Request!Request /\ z.kind = x.kind /\ z.by = x.by /\ z.of = x.of
            /\ z.told = x.told /\ z.jobs = x.jobs /\ z.state = "nobody"
        BY DEF Request!Request
      <4> PICK none \in Int : none = 0
        OBVIOUS
      <4>2. y = [z EXCEPT !.lacks = none]
        BY <3>1
      <4> QED
        BY <4>1, <4>2 DEF Request!Request
    <3> QED
      BY <2>5, <3>2
  <2> QED
    BY <1>3, <2>2, <2>3, <2>4, <2>5
<1>5. /\ Kept /\ RequestTypes' /\ Queries' /\ Replies' /\ Doings'
      /\ \A k \in Links : Within(query[k], query'[k]) /\ WithinFound(reply[k], reply'[k])
      /\ Answered(l, m)
  BY <1>1, <1>3, <1>4, TakenStep
<1>6. /\ inflight[m.rid].kind = "search" /\ AsOne(m.rid, l)
      /\ m.what = "lacks" => l[2] \notin holds
  BY <1>1, <1>5 DEF Answered
<1>7. Lacking'
  BY <1>1, <1>5, SearchesHeard DEF Request!Took
<1>8. JobsFit'
  BY <1>5, JobsKept
<1>9. EndsAreComing'
  <2>1. \A r \in DOMAIN inflight' : \A j \in Awaited(r)' :
           /\ r \in DOMAIN inflight
           /\ j \in Awaited(r) \/ (m.what = "ok" /\ r = m.rid /\ j \in m.jobs)
           /\ ~(m.what = "event" /\ OfLink(r, l) /\ j \in m.jobs)
    BY <1>1, <1>3, <1>4 DEF Found, Awaited
  <2> QED
    BY <1>1, <1>5, <2>1, EndsTaken
<1>10. ASSUME inflight[m.rid].state = "waiting", m.what = "lacks", inflight[m.rid].lacks <= 1
       PROVE  inflight[m.rid].of \intersect holds = {}
  <2> PICK r \in DOMAIN inflight : r = m.rid
    BY <1>2
  <2>1. PICK A \in SUBSET inflight[r].of : Heard(r, A)
    BY <1>6, <1>10 DEF Lacking
  <2>2. ~Mute(r, l)
    BY <1>1, <1>2 DEF Mute, In
  <2>3. l[2] \in inflight[r].of \ A
    BY <1>6, <2>1, <2>2 DEF Heard, AsOne
  <2>4. inflight[r] \in Request!Request
    BY Requests
  <2>5. IsFiniteSet(inflight[r].of \ A) /\ inflight[r].lacks \in Int
    <3>1. inflight[r].of \subseteq Request!Servers /\ inflight[r].lacks \in Int
      BY <2>4 DEF Request!Request
    <3> QED
      BY <3>1, ServersAreFinite, FS_Subset
  <2>6. inflight[r].of \ A \subseteq {l[2]}
    <3> DEFINE X == inflight[r].of \ A
    <3>1. Cardinality(X) \in Nat /\ Cardinality(X) <= 1
      BY <1>10, <2>1, <2>5, FS_CardinalityType DEF Heard
    <3>2. IsFiniteSet(X \ {l[2]}) /\ Cardinality(X \ {l[2]}) = Cardinality(X) - 1
      <4>1. \A Y : \A y \in Y : IsFiniteSet(Y) => /\ IsFiniteSet(Y \ {y})
                                                /\ Cardinality(Y \ {y}) = Cardinality(Y) - 1
        BY FS_RemoveElement
      <4> QED
        BY <2>3, <2>5, <4>1
    <3> HIDE DEF X
    <3>3. Cardinality(X \ {l[2]}) \in Nat
      BY <3>2, FS_CardinalityType
    <3>4. Cardinality(X \ {l[2]}) = 0
      BY <3>1, <3>2, <3>3
    <3>5. X \ {l[2]} = {}
      BY <3>2, <3>4, FS_EmptySet
    <3> QED
      BY <3>5 DEF X
  <2> QED
    BY <1>6, <1>10, <2>1, <2>6 DEF Heard
<1>11. Request!AnswersAreTrue'
  <2> SUFFICES ASSUME NEW r \in DOMAIN inflight'
               PROVE  /\ inflight'[r].state = "ok" /\ inflight'[r].kind # "search" => r \in done'
                      /\ inflight'[r].state = "nobody" => inflight'[r].of \intersect holds' = {}
    BY DEF Request!AnswersAreTrue
  <2>1. /\ inflight[r].state = "ok" /\ inflight[r].kind # "search" => r \in done
        /\ inflight[r].state = "nobody" => inflight[r].of \intersect holds = {}
    BY <1>3 DEF Request!AnswersAreTrue
  <2>2. /\ inflight'[r].kind = inflight[r].kind /\ inflight'[r].of = inflight[r].of
        /\ \/ inflight'[r].state = inflight[r].state
           \/ inflight'[r].state = "ok" /\ r = m.rid
           \/ /\ inflight'[r].state = "nobody" /\ r = m.rid
              /\ inflight[r].state = "waiting" /\ m.what = "lacks" /\ inflight[r].lacks <= 1
    BY <1>3, <1>4
  <2> QED
    BY <1>6, <1>10, <2>1, <2>2
<1> QED
  BY <1>5, <1>7, <1>8, <1>9, <1>11

\* The end of a job.
LEMMA EventStep ==
  ASSUME RequestInv, NEW l \in Links, NEW m \in Reply, reply[l] # <<>>, m = Head(reply[l]),
         Request!Took(l),
         UNCHANGED <<live, opened, query, doing, job, jobs, owner, holds, done, last>>,
         Request!OnJobEvent(l, m)
  PROVE  RequestInv'
<1> USE DEF RequestInv
<1>1. m.what = "event" /\ UNCHANGED gap
  BY DEF Request!OnJobEvent
<1>2. /\ DOMAIN inflight' = DOMAIN inflight
      /\ inflight' = [r \in DOMAIN inflight' |-> inflight'[r]]
      /\ \A r \in DOMAIN inflight :
           inflight'[r] = IF OfLink(r, l)
                          THEN [inflight[r] EXCEPT
                                  !.told = @ \union (m.jobs \intersect inflight[r].jobs)]
                          ELSE inflight[r]
  BY DEF Request!OnJobEvent, OfLink, Request!Server
<1>3. \A r \in DOMAIN inflight :
        /\ inflight'[r] \in Request!Request /\ inflight'[r].kind = inflight[r].kind
        /\ inflight'[r].by = inflight[r].by /\ inflight'[r].of = inflight[r].of
        /\ inflight'[r].lacks = inflight[r].lacks /\ inflight'[r].state = inflight[r].state
        /\ inflight'[r].jobs = inflight[r].jobs
        /\ Awaited(r)' = IF OfLink(r, l) THEN Awaited(r) \ m.jobs ELSE Awaited(r)
  <2> TAKE r \in DOMAIN inflight
  <2>1. inflight[r] \in Request!Request
    BY Requests
  <2>2. CASE OfLink(r, l)
    <3>1. inflight[r].told \union (m.jobs \intersect inflight[r].jobs) \in SUBSET Request!Jobs
      BY <2>1 DEF Request!Request
    <3> QED
      BY <1>2, <2>1, <2>2, <3>1 DEF Request!Request, Awaited
  <2>3. CASE ~OfLink(r, l)
    BY <1>2, <2>1, <2>3 DEF Awaited
  <2> QED
    BY <2>2, <2>3
<1>4. /\ Kept /\ RequestTypes' /\ Queries' /\ Replies' /\ Doings'
      /\ \A k \in Links : Within(query[k], query'[k]) /\ WithinFound(reply[k], reply'[k])
  BY <1>1, <1>2, <1>3, TakenStep
<1>5. Lacking'
  BY <1>2, <1>3, <1>4, SearchesKept
<1>6. JobsFit'
  BY <1>4, JobsKept
<1>7. EndsAreComing'
  <2>1. \A r \in DOMAIN inflight' : \A j \in Awaited(r)' :
           /\ r \in DOMAIN inflight
           /\ j \in Awaited(r) \/ (m.what = "ok" /\ r = m.rid /\ j \in m.jobs)
           /\ ~(m.what = "event" /\ OfLink(r, l) /\ j \in m.jobs)
    BY <1>1, <1>2, <1>3
  <2> QED
    BY <1>1, <1>4, <2>1, EndsTaken
<1>8. Request!AnswersAreTrue'
  BY <1>2, <1>3, <1>4, AnswersKept
<1> QED
  BY <1>4, <1>5, <1>6, <1>7, <1>8

\* Receive: an answer, one of a search, or an event.
LEMMA ReceiveStep ==
  ASSUME RequestInv, NEW l \in Links, Request!Receive(l) PROVE RequestInv'
<1>1. reply[l] # <<>> /\ Request!Took(l)
      /\ UNCHANGED <<live, opened, query, doing, job, jobs, owner, holds, done, last>>
  BY DEF Request!Receive
<1>2. PICK m \in Reply : m = Head(reply[l])
  BY <1>1, InHead DEF RequestInv, RequestTypes
<1>3. Request!OnAck(l, m) \/ Request!OnAssetHave(l, m) \/ Request!OnJobEvent(l, m)
  BY <1>2 DEF Request!Receive
<1> QED
  BY <1>1, <1>2, <1>3, AckStep, HaveStep, EventStep

-----------------------------------------------------------------------------
(* The hub that is asked.                                                    *)

\* Types, when the side that is asked moves.
LEMMA ServerTypes ==
  ASSUME RequestTypes, UNCHANGED <<live, opened, inflight, holds>>,
         query' \in [Links -> Seq(Query)], reply' \in [Links -> Seq(Reply)],
         \A l \in Links : live[l] = 0 => query'[l] = <<>>,
         doing' \in [Request!Servers -> SUBSET Task], JobTypes',
         done' \subseteq Request!Rids, gap' \subseteq Links \X Request!Jobs
  PROVE  RequestTypes'
<1>1. /\ live' \in [Links -> 0..MaxSession] /\ opened' \in 0..MaxSession
      /\ Len(inflight') <= MaxRids /\ \A r \in DOMAIN inflight' : inflight'[r] \in Request!Request
      /\ inflight' \in Seq(Request!Request) /\ holds' \subseteq Request!Servers
  BY DEF RequestTypes, Request!TypeOK
<1>2. \A s \in Request!Servers : doing'[s] \subseteq Task
  OBVIOUS
<1>3. Request!TypeOK'
  BY <1>1, <1>2, Figures DEF Request!TypeOK, JobTypes, Task
<1> QED
  BY <1>1, <1>3 DEF RequestTypes

\* What a server does that answers truly keeps what was asked and answered.
LEMMA ServerStep ==
  ASSUME RequestInv, RequestTypes', UNCHANGED <<inflight, holds>>, done \subseteq done',
         \A l \in Links, q \in Query : In(q, query'[l]) => In(q, query[l]),
         \A l \in Links, m \in Reply : In(m, reply'[l]) => In(m, reply[l]) \/ Answered(l, m)',
         \A s \in Request!Servers : \A d \in doing'[s] :
           d \in doing[s] \/ /\ d.link[2] = s /\ d.rid \in DOMAIN inflight
                             /\ inflight[d.rid].kind = d.kind /\ OfLink(d.rid, d.link)
  PROVE  Kept /\ Queries' /\ Replies' /\ Doings' /\ Request!AnswersAreTrue'
<1> USE DEF RequestInv
<1>1. Kept
  BY DEF Kept
<1>2. Queries'
  BY <1>1, QueriesKept
<1>3. Replies'
  BY <1>1, RepliesKept
<1>4. Doings'
  BY <1>1, DoingsKept
<1>5. Request!AnswersAreTrue'
  BY <1>1, AnswersKept
<1> QED
  BY <1>1, <1>2, <1>3, <1>4, <1>5

\* A message sent: appended to the link's queue, or dropped.
LEMMA SentFacts ==
  ASSUME RequestTypes, NEW l \in Links, NEW session, NEW m \in Reply,
         reply' = Request!Sent(l, session, m)
  PROVE  /\ reply' \in [Links -> Seq(Reply)]
         /\ \A k \in Links : reply'[k] = reply[k] \/ (k = l /\ reply'[k] = Append(reply[k], m))
         /\ \A k \in Links, x \in Reply : In(x, reply'[k]) => In(x, reply[k]) \/ (k = l /\ x = m)
         /\ m.what \notin Found => \A k \in Links : WithinFound(reply[k], reply'[k])
<1>1. reply \in [Links -> Seq(Reply)]
  BY DEF RequestTypes
<1>2. \A k \in Links : Append(reply[k], m) \in Seq(Reply)
  BY <1>1, AppendProperties
<1>3. reply' \in [Links -> Seq(Reply)]
  BY <1>1, <1>2 DEF Request!Sent
<1>4. \A k \in Links : reply'[k] = reply[k] \/ (k = l /\ reply'[k] = Append(reply[k], m))
  BY <1>1 DEF Request!Sent
<1>5. \A k \in Links, x \in Reply : In(x, reply'[k]) => In(x, reply[k]) \/ (k = l /\ x = m)
  <2> TAKE k \in Links, x \in Reply
  <2>1. CASE reply'[k] = reply[k]
    BY <2>1
  <2>2. CASE k = l /\ reply'[k] = Append(reply[k], m)
    BY <1>1, <2>2, InAppended
  <2> QED
    BY <1>4, <2>1, <2>2
<1>6. ASSUME m.what \notin Found, NEW k \in Links PROVE WithinFound(reply[k], reply'[k])
  <2>1. CASE reply'[k] = reply[k]
    BY <1>1, <2>1, WithinItself
  <2>2. CASE reply'[k] = Append(reply[k], m)
    BY <1>1, <1>6, <2>2, WithinAppended
  <2> QED
    BY <1>4, <2>1, <2>2
<1> QED
  BY <1>3, <1>4, <1>5, <1>6

\* A request taken from its link.
LEMMA ServedFacts ==
  ASSUME RequestTypes, Queries, NEW l \in Links, query[l] # <<>>, Request!ServedQuery(l)
  PROVE  /\ query' \in [Links -> Seq(Query)] /\ live[l] # 0
         /\ \A k \in Links : live[k] = 0 => query'[k] = <<>>
         /\ \A k \in Links, q \in Query : In(q, query'[k]) => In(q, query[k])
         /\ \A k \in Links : Within(query[k], query'[k])
         /\ Head(query[l]) \in Query /\ Queried(l, Head(query[l]))
<1>1. query \in [Links -> Seq(Query)] /\ \A k \in Links : live[k] = 0 => query[k] = <<>>
  BY DEF RequestTypes
<1>2. Tail(query[l]) \in Seq(Query) /\ Head(query[l]) \in Query /\ In(Head(query[l]), query[l])
  BY <1>1, Rest, InHead
<1>3. /\ query' \in [Links -> Seq(Query)] /\ query'[l] = Tail(query[l])
      /\ \A k \in Links : k # l => query'[k] = query[k]
  BY <1>1, <1>2 DEF Request!ServedQuery
<1>4. \A q : In(q, Tail(query[l])) => In(q, query[l])
  BY <1>1, InRest
<1>5. \A k \in Links : Within(query[k], query[k])
  BY <1>1, WithinItself
<1>6. Within(query[l], Tail(query[l]))
  BY <1>1, WithinRest
<1> QED
  BY <1>1, <1>2, <1>3, <1>4, <1>5, <1>6 DEF Queries

\* What is sent is one of the messages of the code.
LEMMA Messages ==
  ASSUME NEW what \in Acks \union Found \union {"event"}, NEW rid \in Nat,
         NEW js \in SUBSET Request!Jobs
  PROVE  /\ Request!Message(what, rid, js) \in Reply /\ Request!Message(what, rid, js).what = what
         /\ Request!Message(what, rid, js).rid = rid /\ Request!Message(what, rid, js).jobs = js
BY DEF Request!Message, Reply

\* An answer that names no job, to anything but a search.
LEMMA SaidStep ==
  ASSUME RequestInv, UNCHANGED <<live, opened, inflight, job, jobs, owner, holds, gap, last>>,
         query' \in [Links -> Seq(Query)], \A k \in Links : live[k] = 0 => query'[k] = <<>>,
         \A k \in Links : Within(query[k], query'[k]),
         \A k \in Links, x \in Query : In(x, query'[k]) => In(x, query[k]),
         doing' \in [Request!Servers -> SUBSET Task],
         \A s \in Request!Servers : doing'[s] \subseteq doing[s],
         done \subseteq done', done' \subseteq Request!Rids,
         NEW l \in Links, NEW session, NEW m \in Reply, m.what \in Acks, m.jobs = {},
         Answered(l, m)', reply' = Request!Sent(l, session, m)
  PROVE  RequestInv'
<1> USE DEF RequestInv
<1>1. m.what \notin Found
  BY DEF Acks, Found
<1>2. /\ reply' \in [Links -> Seq(Reply)]
      /\ \A k \in Links : reply'[k] = reply[k] \/ (k = l /\ reply'[k] = Append(reply[k], m))
      /\ \A k \in Links, x \in Reply : In(x, reply'[k]) => In(x, reply[k]) \/ (k = l /\ x = m)
      /\ \A k \in Links : WithinFound(reply[k], reply'[k])
  BY <1>1, SentFacts
<1>3. RequestTypes'
  <2>1. JobTypes' /\ gap' \subseteq Links \X Request!Jobs
    BY DEF RequestTypes, JobTypes, Request!TypeOK
  <2> QED
    BY <1>2, <2>1, ServerTypes
<1>4. Kept /\ Queries' /\ Replies' /\ Doings' /\ Request!AnswersAreTrue'
  <2>1. \A s \in Request!Servers : \A d \in doing'[s] : d \in doing[s]
    OBVIOUS
  <2>2. \A k \in Links, x \in Reply : In(x, reply'[k]) => In(x, reply[k]) \/ Answered(k, x)'
    BY <1>2
  <2> QED
    BY <1>3, <2>1, <2>2, ServerStep
<1>5. Lacking'
  BY <1>2, <1>3, <1>4, SearchesKept
<1>6. JobsFit'
  BY <1>4, JobsKept
<1>7. EndsAreComing'
  <2>1. Current(m, l)'
    BY DEF Current
  <2> QED
    BY <1>2, <1>3, <1>4, <2>1, EndsSaid, CoveredKept DEF Awaited
<1> QED
  BY <1>3, <1>4, <1>5, <1>6, <1>7

\* An answer at once, without a job.
LEMMA AnsweredStep ==
  ASSUME RequestInv, NEW l \in Links, query[l] # <<>>, Request!ServedQuery(l), NEW q \in Query,
         q = Head(query[l]), UNCHANGED <<live, opened, inflight, holds, gap>>,
         q.kind # "search", NEW what \in {"refused", "shut"}, Request!Answer(l, q, what)
  PROVE  RequestInv'
<1> USE DEF RequestInv
<1>1. /\ query' \in [Links -> Seq(Query)] /\ live[l] # 0
      /\ \A k \in Links : live[k] = 0 => query'[k] = <<>>
      /\ \A k \in Links, x \in Query : In(x, query'[k]) => In(x, query[k])
      /\ \A k \in Links : Within(query[k], query'[k])
      /\ Queried(l, q)
  BY ServedFacts
<1>2. q.rid \in DOMAIN inflight /\ inflight[q.rid].kind # "search" /\ OfLink(q.rid, l)
  BY <1>1 DEF Queried
<1>3. PICK m \in Reply : /\ m.what = what /\ m.rid = q.rid /\ m.jobs = {}
                         /\ m = Request!Message(what, q.rid, {})
  <2>1. q.rid \in Nat /\ {} \in SUBSET Request!Jobs /\ what \in Acks \union Found \union {"event"}
    BY DEF Query, Acks
  <2> QED
    BY <2>1, Messages
<1>4. /\ reply' = Request!Sent(l, live[l], m) /\ UNCHANGED <<doing, job, jobs, owner, done, last>>
  BY <1>3 DEF Request!Answer
<1>5. m.what \in Acks /\ Answered(l, m)'
  BY <1>2, <1>3 DEF Answered, OfLink, Acks, Found
<1>6. doing' \in [Request!Servers -> SUBSET Task] /\ done' \subseteq Request!Rids
  BY <1>4 DEF RequestTypes, Request!TypeOK
<1>7. (\A s \in Request!Servers : doing'[s] \subseteq doing[s]) /\ done \subseteq done'
  BY <1>4
<1> QED
  BY <1>1, <1>3, <1>4, <1>5, <1>6, <1>7, SaidStep

\* A launch, a stop or a probe begins.
LEMMA BegunStep ==
  ASSUME RequestInv, NEW l \in Links, query[l] # <<>>, Request!ServedQuery(l), NEW q \in Query,
         q = Head(query[l]), UNCHANGED <<live, opened, inflight, holds, gap>>, q.kind \in Later,
         doing' = [doing EXCEPT ![l[2]] =
            @ \union {[link |-> l, session |-> live[l], rid |-> q.rid, kind |-> q.kind]}],
         UNCHANGED <<reply, job, jobs, owner, done, last>>
  PROVE  RequestInv'
<1> USE DEF RequestInv
<1>1. /\ query' \in [Links -> Seq(Query)] /\ live[l] # 0
      /\ \A k \in Links : live[k] = 0 => query'[k] = <<>>
      /\ \A k \in Links, x \in Query : In(x, query'[k]) => In(x, query[k])
      /\ \A k \in Links : Within(query[k], query'[k])
      /\ Queried(l, q)
  BY ServedFacts
<1>2. q.rid \in DOMAIN inflight /\ inflight[q.rid].kind = q.kind /\ OfLink(q.rid, l)
  BY <1>1 DEF Queried, Later
<1> DEFINE d == [link |-> l, session |-> live[l], rid |-> q.rid, kind |-> q.kind]
<1>3. d \in Task
  <2>1. live[l] \in 1..MaxSession
    BY <1>1, Figures DEF RequestTypes, Request!TypeOK
  <2> QED
    BY <1>2, <2>1, Requests DEF Task
<1>4. /\ doing' \in [Request!Servers -> SUBSET Task]
      /\ \A s \in Request!Servers :
           doing'[s] = doing[s] \/ (s = l[2] /\ doing'[s] = doing[s] \union {d})
  <2>1. doing \in [Request!Servers -> SUBSET Task]
    BY DEF RequestTypes
  <2> HIDE DEF d
  <2> QED
    BY <1>3, <2>1, LinkFacts DEF d
<1>5. RequestTypes'
  <2>1. /\ JobTypes' /\ gap' \subseteq Links \X Request!Jobs /\ done' \subseteq Request!Rids
        /\ reply' \in [Links -> Seq(Reply)]
    BY DEF RequestTypes, JobTypes, Request!TypeOK
  <2> QED
    BY <1>1, <1>4, <2>1, ServerTypes
<1>6. \A s \in Request!Servers : \A x \in doing'[s] :
        x \in doing[s] \/ /\ x.link[2] = s /\ x.rid \in DOMAIN inflight
                          /\ inflight[x.rid].kind = x.kind /\ OfLink(x.rid, x.link)
  <2> TAKE s \in Request!Servers
  <2> TAKE x \in doing'[s]
  <2>1. x \in doing[s] \/ (s = l[2] /\ x = d)
    BY <1>4
  <2>2. d.link = l /\ d.rid = q.rid /\ d.kind = q.kind
    OBVIOUS
  <2> HIDE DEF d
  <2> QED
    BY <1>2, <2>1, <2>2
<1>7. Kept /\ Queries' /\ Replies' /\ Doings' /\ Request!AnswersAreTrue'
  BY <1>1, <1>5, <1>6, ServerStep
<1>8. Lacking'
  <2>1. \A k \in Links : WithinFound(reply[k], reply'[k])
    BY WithinItself DEF RequestTypes
  <2> QED
    BY <1>1, <1>5, <1>7, <2>1, SearchesKept
<1>9. JobsFit'
  BY <1>7, JobsKept
<1>10. EndsAreComing'
  BY <1>5, <1>7, EndsSaid, CoveredKept DEF Awaited
<1> QED
  BY <1>5, <1>7, <1>8, <1>9, <1>10

\* OnLater.
LEMMA LaterStep ==
  ASSUME RequestInv, NEW l \in Links, query[l] # <<>>, Request!ServedQuery(l), NEW q \in Query,
         q = Head(query[l]), UNCHANGED <<live, opened, inflight, holds, gap>>, Request!OnLater(l, q)
  PROVE  RequestInv'
<1>1. q.kind \in Later /\ q.kind # "search"
  BY Figures DEF Request!OnLater, Later
<1>2. CASE /\ doing' = [doing EXCEPT ![Request!Server(l)] =
                @ \union {[link |-> l, session |-> live[l], rid |-> q.rid, kind |-> q.kind]}]
           /\ UNCHANGED <<reply, job, jobs, owner, done, last>>
  BY <1>1, <1>2, BegunStep DEF Request!Server
<1>3. CASE Request!Answer(l, q, IF q.kind = "probe" THEN "shut" ELSE "refused")
  <2>1. PICK what \in {"refused", "shut"} : what = IF q.kind = "probe" THEN "shut" ELSE "refused"
    OBVIOUS
  <2>2. Request!Answer(l, q, what)
    BY <1>3, <2>1
  <2> QED
    BY <1>1, <2>2, AnsweredStep
<1> QED
  BY <1>2, <1>3 DEF Request!OnLater

\* OnAssetQuery.
LEMMA AssetQueryStep ==
  ASSUME RequestInv, NEW l \in Links, query[l] # <<>>, Request!ServedQuery(l), NEW q \in Query,
         q = Head(query[l]), UNCHANGED <<live, opened, inflight, holds, gap>>,
         Request!OnAssetQuery(l, q)
  PROVE  RequestInv'
<1> USE DEF RequestInv
<1>1. /\ query' \in [Links -> Seq(Query)] /\ live[l] # 0
      /\ \A k \in Links : live[k] = 0 => query'[k] = <<>>
      /\ \A k \in Links, x \in Query : In(x, query'[k]) => In(x, query[k])
      /\ Queried(l, q)
  BY ServedFacts
<1> DEFINE what == IF l[2] \in holds THEN "have" ELSE "lacks"
<1>2. PICK m \in Reply : /\ m.what = what /\ m.rid = q.rid /\ m.jobs = {}
                         /\ m = Request!Message(what, q.rid, {})
  <2>1. q.rid \in Nat /\ {} \in SUBSET Request!Jobs /\ what \in Acks \union Found \union {"event"}
    BY DEF Query, Found
  <2> HIDE DEF what
  <2> QED
    BY <2>1, Messages
<1>3. /\ q.kind = "search" /\ UNCHANGED <<doing, job, jobs, owner, done, last>>
      /\ reply' = Request!Sent(l, live[l], m)
  BY <1>2 DEF Request!OnAssetQuery, Request!Answer, Request!Server
<1>4. q.rid \in DOMAIN inflight /\ inflight[q.rid].kind = "search" /\ AsOne(q.rid, l)
  BY <1>1, <1>3 DEF Queried
<1>5. /\ reply' \in [Links -> Seq(Reply)]
      /\ \A k \in Links : reply'[k] = reply[k] \/ (k = l /\ reply'[k] = Append(reply[k], m))
      /\ \A k \in Links, x \in Reply : In(x, reply'[k]) => In(x, reply[k]) \/ (k = l /\ x = m)
  BY <1>3, SentFacts
<1>6. RequestTypes'
  <2>1. /\ JobTypes' /\ gap' \subseteq Links \X Request!Jobs /\ done' \subseteq Request!Rids
        /\ doing' \in [Request!Servers -> SUBSET Task]
    BY <1>3 DEF RequestTypes, JobTypes, Request!TypeOK
  <2> QED
    BY <1>1, <1>5, <2>1, ServerTypes
<1>7. Answered(l, m)'
  BY <1>2, <1>4 DEF Answered, AsOne, Acks, Found
<1>8. Kept /\ Queries' /\ Replies' /\ Doings' /\ Request!AnswersAreTrue'
  BY <1>1, <1>3, <1>5, <1>6, <1>7, ServerStep DEF Doings
<1>9. Lacking'
  <2>1. reply' = [reply EXCEPT ![l] = Append(@, m)] /\ m.what \in Found
    BY <1>1, <1>2, <1>3 DEF Request!Sent, Found
  <2> QED
    BY <1>2, <1>6, <2>1, SearchesServed DEF Request!ServedQuery
<1>10. JobsFit'
  BY <1>3, <1>8, JobsKept
<1>11. EndsAreComing'
  <2>1. Current(m, l)'
    BY <1>2 DEF Current
  <2> QED
    BY <1>3, <1>5, <1>6, <1>8, <2>1, EndsSaid, CoveredKept DEF Awaited
<1> QED
  BY <1>6, <1>8, <1>9, <1>10, <1>11

\* A launch, a stop or a probe is through.
LEMMA ThroughStep ==
  ASSUME RequestInv, NEW s \in Request!Servers, NEW d \in doing[s],
         NEW what \in Request!Says[d.kind], Request!Through(s, d, what)
  PROVE  RequestInv'
<1> USE DEF RequestInv
<1>1. /\ doing' = [doing EXCEPT ![s] = @ \ {d}]
      /\ done' = IF what = "ok" THEN done \union {d.rid} ELSE done
      /\ UNCHANGED <<live, opened, query, inflight, job, jobs, owner, holds, gap, last>>
  BY DEF Request!Through
<1>2. d \in Task
  BY DEF RequestTypes
<1>3. d.link \in Links /\ d.rid \in Request!Rids /\ d.rid \in Nat /\ d.kind \in Later
  BY <1>2, Figures DEF Task, Request!Rids
<1>4. d.rid \in DOMAIN inflight /\ inflight[d.rid].kind = d.kind /\ OfLink(d.rid, d.link)
  BY DEF Doings
<1>5. what \in Acks /\ d.kind # "search"
  BY <1>3, Figures DEF Later
<1>6. PICK m \in Reply : /\ m.what = what /\ m.rid = d.rid /\ m.jobs = {}
                         /\ m = Request!Message(what, d.rid, {})
  <2>1. {} \in SUBSET Request!Jobs /\ what \in Acks \union Found \union {"event"}
    BY <1>5
  <2> QED
    BY <1>3, <2>1, Messages
<1>7. PICK l \in Links : l = d.link
  BY <1>3
<1>8. reply' = Request!Sent(l, d.session, m)
  BY <1>6, <1>7 DEF Request!Through
<1>9. done' \subseteq Request!Rids /\ done \subseteq done' /\ (what = "ok" => d.rid \in done')
  BY <1>1, <1>3 DEF RequestTypes, Request!TypeOK
<1>10. /\ doing' \in [Request!Servers -> SUBSET Task]
       /\ \A x \in Request!Servers : doing'[x] \subseteq doing[x]
  <2>1. doing \in [Request!Servers -> SUBSET Task]
    BY DEF RequestTypes
  <2> QED
    BY <1>1, <2>1
<1>11. Answered(l, m)'
  BY <1>1, <1>4, <1>5, <1>6, <1>7, <1>9 DEF Answered, OfLink, Acks, Found
<1>12. /\ query' \in [Links -> Seq(Query)] /\ \A k \in Links : live[k] = 0 => query'[k] = <<>>
       /\ \A k \in Links : Within(query[k], query'[k])
       /\ \A k \in Links, x \in Query : In(x, query'[k]) => In(x, query[k])
  BY <1>1, WithinItself DEF RequestTypes
<1> QED
  BY <1>1, <1>5, <1>6, <1>8, <1>9, <1>10, <1>11, <1>12, SaidStep

-----------------------------------------------------------------------------
(* Jobs.                                                                     *)

\* The jobs have their types.
LEMMA JobFacts ==
  ASSUME RequestTypes, JobsFit, NEW s \in Request!Servers
  PROVE  /\ \A prog \in RemoteInstalls :
              /\ job[s][prog] \in Nat /\ jobs[s][prog] \in Nat /\ job[s][prog] <= jobs[s][prog]
              /\ jobs[s][prog] <= MaxJobs /\ job[s][prog] <= MaxJobs
         /\ \A prog \in RemoteInstalls, n \in 1..MaxJobs : <<prog, n>> \in Request!Jobs
         /\ \A j \in Request!Jobs : /\ j = <<j[1], j[2]>> /\ j[1] \in RemoteInstalls
                                    /\ j[2] \in Nat /\ j[2] > 0 /\ j[2] <= MaxJobs
<1>1. \A j \in RemoteInstalls \X (1..MaxJobs) : /\ j = <<j[1], j[2]>> /\ j[1] \in RemoteInstalls
                                                /\ j[2] \in 1..MaxJobs
  OBVIOUS
<1>2. \A prog \in RemoteInstalls, n \in 1..MaxJobs : <<prog, n>> \in Request!Jobs
  BY DEF Request!Jobs
<1>3. \A j \in Request!Jobs : /\ j = <<j[1], j[2]>> /\ j[1] \in RemoteInstalls
                              /\ j[2] \in Nat /\ j[2] > 0 /\ j[2] <= MaxJobs
  BY <1>1, Figures DEF Request!Jobs
<1>4. \A prog \in RemoteInstalls :
        /\ job[s][prog] \in Nat /\ jobs[s][prog] \in Nat /\ job[s][prog] <= jobs[s][prog]
        /\ jobs[s][prog] <= MaxJobs /\ job[s][prog] <= MaxJobs
  <2>1. /\ job \in [Request!Servers -> [RemoteInstalls -> 0..MaxJobs]] /\ MaxJobs \in Nat
        /\ jobs \in [Request!Servers -> [RemoteInstalls -> 0..MaxJobs]]
    BY Figures DEF RequestTypes, JobTypes
  <2>2. \A prog \in RemoteInstalls : job[s][prog] <= jobs[s][prog]
    BY DEF JobsFit
  <2> QED
    BY <2>1, <2>2
<1> QED
  BY <1>2, <1>3, <1>4

\* A request that a job was given is one.
LEMMA LastFacts ==
  ASSUME RequestTypes
  PROVE  /\ \A r \in DOMAIN inflight : r \in Nat /\ r > 0
         /\ \A s \in Request!Servers, j \in Request!Jobs : last[s][j] \in Nat
<1>1. \A r \in DOMAIN inflight : r \in Nat /\ r > 0
  BY Requests
<1> QED
  BY <1>1, Figures DEF RequestTypes, JobTypes

\* LocalInstall.
LEMMA LocalInstallStep ==
  ASSUME RequestInv, NEW s \in Request!Servers, NEW prog \in RemoteInstalls,
         Request!LocalInstall(s, prog)
  PROVE  RequestInv'
<1> USE DEF RequestInv
<1>1. /\ job[s][prog] = 0 /\ jobs[s][prog] < MaxJobs
      /\ jobs' = [jobs EXCEPT ![s][prog] = @ + 1] /\ job' = [job EXCEPT ![s][prog] = jobs'[s][prog]]
      /\ UNCHANGED <<live, opened, query, reply, inflight, doing, owner, holds, done, gap, last>>
  BY DEF Request!LocalInstall
<1>2. /\ job \in [Request!Servers -> [RemoteInstalls -> 0..MaxJobs]]
      /\ jobs \in [Request!Servers -> [RemoteInstalls -> 0..MaxJobs]]
      /\ MaxJobs \in Nat
  BY Figures DEF RequestTypes, JobTypes
<1>3. jobs[s][prog] + 1 \in 0..MaxJobs
  BY <1>1, <1>2
<1>4. jobs' \in [Request!Servers -> [RemoteInstalls -> 0..MaxJobs]]
      /\ jobs'[s][prog] = jobs[s][prog] + 1
  BY <1>1, <1>2, <1>3
<1>5. /\ job' \in [Request!Servers -> [RemoteInstalls -> 0..MaxJobs]]
      /\ \A x \in Request!Servers, other \in RemoteInstalls :
           IF x = s /\ other = prog
           THEN jobs'[x][other] = jobs[x][other] + 1 /\ job'[x][other] = jobs'[x][other]
           ELSE jobs'[x][other] = jobs[x][other] /\ job'[x][other] = job[x][other]
  BY <1>1, <1>2, <1>4
<1>6. RequestTypes'
  <2>1. JobTypes'
    BY <1>1, <1>4, <1>5 DEF RequestTypes, JobTypes
  <2>2. /\ query' \in [Links -> Seq(Query)] /\ reply' \in [Links -> Seq(Reply)]
        /\ \A l \in Links : live[l] = 0 => query'[l] = <<>>
        /\ doing' \in [Request!Servers -> SUBSET Task] /\ done' \subseteq Request!Rids
        /\ gap' \subseteq Links \X Request!Jobs
    BY <1>1 DEF RequestTypes, Request!TypeOK
  <2> QED
    BY <1>1, <2>1, <2>2, ServerTypes
<1>7. Kept /\ Queries' /\ Replies' /\ Doings' /\ Request!AnswersAreTrue'
  BY <1>1, <1>6, ServerStep DEF Doings
<1>8. Lacking'
  <2>1. \A k \in Links : Within(query[k], query'[k]) /\ WithinFound(reply[k], reply'[k])
    BY <1>1, WithinItself DEF RequestTypes
  <2> QED
    BY <1>1, <1>6, <1>7, <2>1, SearchesKept
<1>9. JobsFit'
  <2> SUFFICES ASSUME NEW x \in Request!Servers
               PROVE  /\ \A other \in RemoteInstalls :
                           /\ job'[x][other] <= jobs'[x][other]
                           /\ owner'[x][other] = IF job'[x][other] = 0 THEN 0
                                                 ELSE last'[x][<<other, job'[x][other]>>]
                      /\ \A j \in Request!Jobs :
                           /\ j[2] > jobs'[x][j[1]] => last'[x][j] = 0
                           /\ last'[x][j] # 0 => /\ last'[x][j] \in DOMAIN inflight'
                                                 /\ <<inflight'[last'[x][j]].by, x>> \in Links
    BY DEF JobsFit
  <2>1. ASSUME NEW other \in RemoteInstalls
        PROVE  /\ job'[x][other] <= jobs'[x][other]
               /\ owner'[x][other] = IF job'[x][other] = 0 THEN 0
                                     ELSE last'[x][<<other, job'[x][other]>>]
    <3>1. CASE x = s /\ other = prog
      <4>1. last[s][<<prog, jobs[s][prog] + 1>>] = 0
        <5>1. <<prog, jobs[s][prog] + 1>> \in Request!Jobs
          <6>1. jobs[s][prog] + 1 \in 1..MaxJobs
            BY <1>1, <1>2
          <6> QED
            BY <6>1, JobFacts
        <5>2. jobs[s][prog] + 1 > jobs[s][prog]
          BY JobFacts
        <5> QED
          BY <5>1, <5>2 DEF JobsFit
      <4>2. owner[s][prog] = 0
        BY <1>1 DEF JobsFit
      <4>3. job'[x][other] = jobs'[x][other] /\ job'[x][other] = jobs[s][prog] + 1
        BY <1>5, <3>1
      <4>4. jobs[s][prog] + 1 <= jobs[s][prog] + 1
        BY JobFacts
      <4> QED
        BY <1>1, <3>1, <4>1, <4>2, <4>3, <4>4
    <3>2. CASE ~(x = s /\ other = prog)
      BY <1>1, <1>5, <3>2 DEF JobsFit
    <3> QED
      BY <3>1, <3>2
  <2>2. ASSUME NEW j \in Request!Jobs
        PROVE  /\ j[2] > jobs'[x][j[1]] => last'[x][j] = 0
               /\ last'[x][j] # 0 => /\ last'[x][j] \in DOMAIN inflight'
                                     /\ <<inflight'[last'[x][j]].by, x>> \in Links
    <3>1. j[2] > jobs'[x][j[1]] => j[2] > jobs[x][j[1]]
      BY <1>5, JobFacts
    <3> QED
      BY <1>1, <3>1 DEF JobsFit
  <2> QED
    BY <2>1, <2>2
<1>10. EndsAreComing'
  <2>1. ASSUME NEW k \in Links, NEW j \in Request!Jobs, Given(k, j)
        PROVE  Given(k, j)' /\ (Covered(k, j) => Covered(k, j)')
    <3>1. job[k[2]][j[1]] = j[2] => job'[k[2]][j[1]] = j[2]
      BY <1>1, <1>5, LinkFacts, JobFacts
    <3> QED
      BY <1>1, <2>1, <3>1 DEF Given, Covered
  <2> QED
    BY <1>1, <1>6, <1>7, <2>1, EndsSaid DEF Awaited
<1> QED
  BY <1>6, <1>7, <1>8, <1>9, <1>10

\* What the jobs are after the apps are queued for request rid.
Queued(s, apps, rid) ==
  /\ \A x \in Request!Servers, prog \in RemoteInstalls :
       IF x = s /\ prog \in apps
       THEN /\ job'[x][prog] = Request!JobOf(x, prog) /\ owner'[x][prog] = rid
            /\ jobs'[x][prog] = IF job[x][prog] = 0 THEN jobs[x][prog] + 1 ELSE jobs[x][prog]
       ELSE /\ job'[x][prog] = job[x][prog] /\ owner'[x][prog] = owner[x][prog]
            /\ jobs'[x][prog] = jobs[x][prog]
  /\ \A x \in Request!Servers, j \in Request!Jobs :
       last'[x][j] = IF x = s /\ j[1] \in apps /\ j[2] = Request!JobOf(s, j[1])
                     THEN rid ELSE last[x][j]

\* Queueing keeps the types, and says so of every app and every job.
LEMMA QueuedFacts ==
  ASSUME RequestInv, NEW l \in Links, NEW q, q.rid \in Request!Rids,
         NEW apps \in SUBSET RemoteInstalls, Request!Queue(l, q, apps)
  PROVE  /\ JobTypes' /\ Queued(l[2], apps, q.rid)
         /\ \A prog \in apps : Request!JobOf(l[2], prog) \in 1..MaxJobs
<1> USE DEF RequestInv
<1>1. PICK s \in Request!Servers : s = l[2]
  BY LinkFacts
<1> DEFINE given == {<<t, Request!JobOf(s, t)>> : t \in apps}
<1>2. /\ given \subseteq Request!Jobs
      /\ job' = [job EXCEPT ![s] =
           [t \in RemoteInstalls |-> IF t \in apps THEN Request!JobOf(s, t) ELSE @[t]]]
      /\ jobs' = [jobs EXCEPT ![s] = [t \in RemoteInstalls |->
                                        IF t \in apps /\ job[s][t] = 0 THEN @[t] + 1 ELSE @[t]]]
      /\ owner' = [owner EXCEPT ![s] =
           [t \in RemoteInstalls |-> IF t \in apps THEN q.rid ELSE @[t]]]
      /\ last' = [last EXCEPT ![s] =
           [j \in Request!Jobs |-> IF j \in given THEN q.rid ELSE @[j]]]
  BY <1>1 DEF Request!Queue, Request!Server
<1>3. \A t \in apps : Request!JobOf(s, t) \in 1..MaxJobs
  <2> TAKE t \in apps
  <2>1. <<t, Request!JobOf(s, t)>> \in Request!Jobs
    BY <1>2
  <2> QED
    BY <2>1 DEF Request!Jobs
<1>4. \A j \in Request!Jobs : j \in given <=> j[1] \in apps /\ j[2] = Request!JobOf(s, j[1])
  <2> TAKE j \in Request!Jobs
  <2>1. j = <<j[1], j[2]>>
    BY JobFacts
  <2> QED
    BY <2>1
<1> HIDE DEF given
<1>5. \A t \in apps : job[s][t] = 0 => jobs[s][t] + 1 \in 0..MaxJobs
  BY <1>3 DEF Request!JobOf
<1>6. q.rid \in 0..MaxRids
  BY Figures DEF Request!Rids
<1>7. JobTypes
  BY DEF RequestTypes
<1>8. /\ job' \in [Request!Servers -> [RemoteInstalls -> 0..MaxJobs]]
      /\ \A x \in Request!Servers, prog \in RemoteInstalls :
           job'[x][prog] = IF x = s /\ prog \in apps THEN Request!JobOf(s, prog) ELSE job[x][prog]
  <2>1. \A t \in apps : Request!JobOf(s, t) \in 0..MaxJobs
    BY <1>3, Figures
  <2> QED
    BY <1>2, <1>7, <2>1 DEF JobTypes
<1>9. /\ jobs' \in [Request!Servers -> [RemoteInstalls -> 0..MaxJobs]]
      /\ \A x \in Request!Servers, prog \in RemoteInstalls :
           jobs'[x][prog] = IF x = s /\ prog \in apps /\ job[s][prog] = 0
                            THEN jobs[s][prog] + 1 ELSE jobs[x][prog]
  BY <1>2, <1>5, <1>7 DEF JobTypes
<1>10. /\ owner' \in [Request!Servers -> [RemoteInstalls -> 0..MaxRids]]
       /\ \A x \in Request!Servers, prog \in RemoteInstalls :
            owner'[x][prog] = IF x = s /\ prog \in apps THEN q.rid ELSE owner[x][prog]
  BY <1>2, <1>6, <1>7 DEF JobTypes
<1>11. /\ last' \in [Request!Servers -> [Request!Jobs -> 0..MaxRids]]
       /\ \A x \in Request!Servers, j \in Request!Jobs :
            last'[x][j] = IF x = s /\ j \in given THEN q.rid ELSE last[x][j]
  BY <1>2, <1>6, <1>7 DEF JobTypes
<1>12. JobTypes'
  BY <1>8, <1>9, <1>10, <1>11 DEF JobTypes
<1>13. Queued(s, apps, q.rid)
  BY <1>4, <1>8, <1>9, <1>10, <1>11 DEF Queued
<1> QED
  BY <1>1, <1>3, <1>12, <1>13

\* The apps that were queued have the jobs the request was given.
LEMMA QueuedFit ==
  ASSUME RequestInv, UNCHANGED inflight, NEW l \in Links, NEW rid \in DOMAIN inflight,
         inflight[rid].by = l[1], NEW apps \in SUBSET RemoteInstalls, Queued(l[2], apps, rid),
         \A prog \in apps : Request!JobOf(l[2], prog) \in 1..MaxJobs
  PROVE  JobsFit'
<1> USE DEF RequestInv
<1>1. PICK s \in Request!Servers : s = l[2]
  BY LinkFacts
<1> SUFFICES ASSUME NEW x \in Request!Servers
             PROVE  /\ \A prog \in RemoteInstalls :
                         /\ job'[x][prog] <= jobs'[x][prog]
                         /\ owner'[x][prog] = IF job'[x][prog] = 0 THEN 0
                                               ELSE last'[x][<<prog, job'[x][prog]>>]
                    /\ \A j \in Request!Jobs :
                         /\ j[2] > jobs'[x][j[1]] => last'[x][j] = 0
                         /\ last'[x][j] # 0 => /\ last'[x][j] \in DOMAIN inflight'
                                               /\ <<inflight'[last'[x][j]].by, x>> \in Links
  BY DEF JobsFit
<1>2. ASSUME NEW prog \in RemoteInstalls
      PROVE  /\ job'[x][prog] <= jobs'[x][prog]
             /\ owner'[x][prog] = IF job'[x][prog] = 0 THEN 0
                                   ELSE last'[x][<<prog, job'[x][prog]>>]
  <2>1. CASE x = s /\ prog \in apps
    <3>1. /\ job'[x][prog] = Request!JobOf(s, prog) /\ owner'[x][prog] = rid
          /\ jobs'[x][prog] = IF job[s][prog] = 0 THEN jobs[s][prog] + 1 ELSE jobs[s][prog]
      BY <1>1, <2>1 DEF Queued
    <3>2. job'[x][prog] \in 1..MaxJobs
      BY <1>1, <2>1, <3>1
    <3>3. job'[x][prog] <= jobs'[x][prog]
      BY <3>1, JobFacts DEF Request!JobOf
    <3>4. last'[x][<<prog, job'[x][prog]>>] = rid
      <4>1. <<prog, job'[x][prog]>> \in Request!Jobs
        BY <3>2, JobFacts
      <4> QED
        BY <1>1, <2>1, <3>1, <4>1 DEF Queued
    <3> QED
      BY <3>1, <3>2, <3>3, <3>4
  <2>2. CASE ~(x = s /\ prog \in apps)
    <3>1. /\ job'[x][prog] = job[x][prog] /\ owner'[x][prog] = owner[x][prog]
          /\ jobs'[x][prog] = jobs[x][prog]
      BY <1>1, <2>2 DEF Queued
    <3>2. job[x][prog] # 0 =>
            last'[x][<<prog, job[x][prog]>>] = last[x][<<prog, job[x][prog]>>]
      <4>1. job[x][prog] # 0 => <<prog, job[x][prog]>> \in Request!Jobs
        BY JobFacts
      <4> QED
        BY <1>1, <2>2, <4>1 DEF Queued
    <3> QED
      BY <3>1, <3>2 DEF JobsFit
  <2> QED
    BY <2>1, <2>2
<1>3. ASSUME NEW j \in Request!Jobs
      PROVE  /\ j[2] > jobs'[x][j[1]] => last'[x][j] = 0
             /\ last'[x][j] # 0 => /\ last'[x][j] \in DOMAIN inflight'
                                   /\ <<inflight'[last'[x][j]].by, x>> \in Links
  <2>1. j[1] \in RemoteInstalls /\ j[2] \in Nat
    BY JobFacts
  <2>2. CASE x = s /\ j[1] \in apps /\ j[2] = Request!JobOf(s, j[1])
    <3>1. last'[x][j] = rid
      BY <1>1, <2>2 DEF Queued
    <3>2. job'[x][j[1]] = j[2]
      BY <1>1, <2>1, <2>2 DEF Queued
    <3>3. ~(j[2] > jobs'[x][j[1]])
      <4>1. jobs'[x][j[1]] = IF job[s][j[1]] = 0 THEN jobs[s][j[1]] + 1 ELSE jobs[s][j[1]]
        BY <1>1, <2>1, <2>2 DEF Queued
      <4> QED
        BY <2>1, <2>2, <4>1, JobFacts DEF Request!JobOf
    <3>4. <<inflight[rid].by, x>> \in Links
      <4>1. l = <<l[1], l[2]>>
        BY CommandsAssumption DEF Request!FleetRequestAssumption
      <4> QED
        BY <1>1, <2>2, <4>1
    <3> QED
      BY <3>1, <3>3, <3>4
  <2>3. CASE ~(x = s /\ j[1] \in apps /\ j[2] = Request!JobOf(s, j[1]))
    <3>1. last'[x][j] = last[x][j]
      BY <1>1, <2>3 DEF Queued
    <3>2. jobs[x][j[1]] <= jobs'[x][j[1]] /\ jobs[x][j[1]] \in Nat /\ jobs'[x][j[1]] \in Nat
      <4>1. jobs'[x][j[1]] = jobs[x][j[1]] \/ jobs'[x][j[1]] = jobs[x][j[1]] + 1
        BY <1>1, <2>1 DEF Queued
      <4> QED
        BY <2>1, <4>1, JobFacts
    <3>3. j[2] > jobs'[x][j[1]] => j[2] > jobs[x][j[1]]
      BY <2>1, <3>2
    <3> QED
      BY <3>1, <3>3 DEF JobsFit
  <2> QED
    BY <2>2, <2>3
<1> QED
  BY <1>2, <1>3

\* OnRemoteInstall of an app the server knows, and OnRemoteUpdateAll.
LEMMA QueuedStep ==
  ASSUME RequestInv, NEW l \in Links, query[l] # <<>>, Request!ServedQuery(l), NEW q \in Query,
         q = Head(query[l]), UNCHANGED <<live, opened, inflight, holds, gap>>, q.kind # "search",
         NEW apps \in SUBSET RemoteInstalls, Request!Queue(l, q, apps)
  PROVE  RequestInv'
<1> USE DEF RequestInv
<1>1. /\ query' \in [Links -> Seq(Query)] /\ live[l] # 0
      /\ \A k \in Links : live[k] = 0 => query'[k] = <<>>
      /\ \A k \in Links, x \in Query : In(x, query'[k]) => In(x, query[k])
      /\ \A k \in Links : Within(query[k], query'[k])
      /\ Queried(l, q)
  BY ServedFacts
<1>2. /\ q.rid \in DOMAIN inflight /\ inflight[q.rid].kind # "search" /\ OfLink(q.rid, l)
      /\ q.rid \in Request!Rids /\ q.rid \in Nat /\ q.rid # 0
  <2>1. q.rid \in DOMAIN inflight /\ inflight[q.rid].kind # "search" /\ OfLink(q.rid, l)
    BY <1>1 DEF Queried
  <2> QED
    BY <2>1, Requests, LastFacts
<1>3. PICK s \in Request!Servers : s = l[2]
  BY LinkFacts
<1>4. /\ JobTypes' /\ Queued(s, apps, q.rid)
      /\ \A prog \in apps : Request!JobOf(s, prog) \in 1..MaxJobs
  BY <1>2, <1>3, QueuedFacts
<1> DEFINE given == {<<t, Request!JobOf(s, t)>> : t \in apps}
<1>5. /\ given \subseteq Request!Jobs /\ done' = done \union {q.rid} /\ UNCHANGED doing
      /\ reply' = Request!Sent(l, live[l], Request!Message("ok", q.rid, given))
  BY <1>3 DEF Request!Queue, Request!Server
<1>6. \A j \in given : /\ j \in Request!Jobs /\ j[1] \in apps /\ j[2] = Request!JobOf(s, j[1])
  BY <1>5
<1> HIDE DEF given
<1>7. PICK m \in Reply : /\ m.what = "ok" /\ m.rid = q.rid /\ m.jobs = given
                         /\ m = Request!Message("ok", q.rid, given)
  <2>1. "ok" \in Acks \union Found \union {"event"}
    BY DEF Acks
  <2> QED
    BY <1>2, <1>5, <2>1, Messages
<1>8. /\ reply' \in [Links -> Seq(Reply)]
      /\ \A k \in Links : reply'[k] = reply[k] \/ (k = l /\ reply'[k] = Append(reply[k], m))
      /\ \A k \in Links, x \in Reply : In(x, reply'[k]) => In(x, reply[k]) \/ (k = l /\ x = m)
      /\ \A k \in Links : WithinFound(reply[k], reply'[k])
  BY <1>5, <1>7, SentFacts DEF Found
<1>9. RequestTypes'
  <2>1. /\ done' \subseteq Request!Rids /\ gap' \subseteq Links \X Request!Jobs
        /\ doing' \in [Request!Servers -> SUBSET Task]
    BY <1>2, <1>5 DEF RequestTypes, Request!TypeOK
  <2> QED
    BY <1>1, <1>4, <1>8, <2>1, ServerTypes
<1>10. Answered(l, m)'
  BY <1>2, <1>5, <1>7 DEF Answered, OfLink, Acks, Found
<1>11. Kept /\ Queries' /\ Replies' /\ Doings' /\ Request!AnswersAreTrue'
  <2>1. done \subseteq done'
    BY <1>5
  <2> QED
    BY <1>1, <1>5, <1>8, <1>9, <1>10, <2>1, ServerStep DEF Doings
<1>12. Lacking'
  BY <1>1, <1>8, <1>9, <1>11, SearchesKept
<1>13. JobsFit'
  BY <1>2, <1>3, <1>4, QueuedFit DEF OfLink
<1>14. EndsAreComing'
  <2>1. ASSUME NEW k \in Links, NEW j \in Request!Jobs, Given(k, j)
        PROVE  Given(k, j)' /\ (Covered(k, j) => Covered(k, j)')
    <3>1. k[2] \in Request!Servers /\ j[1] \in RemoteInstalls /\ j[2] > 0 /\ j[2] \in Nat
      BY LinkFacts, JobFacts
    <3>2. job[k[2]][j[1]] = j[2] => job'[k[2]][j[1]] = j[2]
      BY <1>4, <3>1 DEF Queued, Request!JobOf
    <3>3. CASE k[2] = s /\ j[1] \in apps /\ j[2] = Request!JobOf(s, j[1])
      <4>1. last'[k[2]][j] = q.rid /\ job'[k[2]][j[1]] = j[2]
        BY <1>4, <3>1, <3>3 DEF Queued
      <4> QED
        BY <1>2, <4>1 DEF Given, Covered
    <3>4. CASE ~(k[2] = s /\ j[1] \in apps /\ j[2] = Request!JobOf(s, j[1]))
      <4>1. last'[k[2]][j] = last[k[2]][j]
        BY <1>4, <3>1, <3>4 DEF Queued
      <4> QED
        BY <2>1, <3>2, <4>1 DEF Given, Covered
    <3> QED
      BY <3>3, <3>4
  <2>2. Current(m, l)'
    <3> SUFFICES ASSUME NEW j \in given PROVE Given(l, j)' /\ Covered(l, j)'
      BY <1>7 DEF Current
    <3>1. /\ j \in Request!Jobs /\ j[1] \in apps /\ j[2] = Request!JobOf(s, j[1])
          /\ j[1] \in RemoteInstalls
      BY <1>6
    <3>2. last'[s][j] = q.rid /\ job'[s][j[1]] = j[2]
      BY <1>4, <3>1 DEF Queued
    <3> QED
      BY <1>2, <1>3, <3>2 DEF Given, Covered
  <2> QED
    BY <1>8, <1>9, <1>11, <2>1, <2>2, EndsSaid DEF Awaited
<1> QED
  BY <1>9, <1>11, <1>12, <1>13, <1>14

\* Serve.
LEMMA ServeStep ==
  ASSUME RequestInv, NEW l \in Links, Request!Serve(l) PROVE RequestInv'
<1>1. query[l] # <<>> /\ Request!ServedQuery(l) /\ UNCHANGED <<live, opened, inflight, holds, gap>>
  BY DEF Request!Serve
<1>2. PICK q \in Query : q = Head(query[l])
  BY <1>1, InHead DEF RequestInv, RequestTypes
<1>3. \/ Request!OnRemoteInstall(l, q) \/ Request!OnRemoteUpdateAll(l, q)
      \/ Request!OnLater(l, q) \/ Request!OnAssetQuery(l, q)
  BY <1>2 DEF Request!Serve
<1>4. CASE Request!OnRemoteInstall(l, q)
  <2>1. q.kind \in RemoteInstalls /\ q.kind # "search"
    BY <1>4, Figures DEF Request!OnRemoteInstall
  <2>2. CASE Request!Queue(l, q, {q.kind})
    BY <1>1, <1>2, <2>1, <2>2, QueuedStep
  <2>3. CASE Request!Answer(l, q, "refused")
    BY <1>1, <1>2, <2>1, <2>3, AnsweredStep
  <2> QED
    BY <1>4, <2>2, <2>3 DEF Request!OnRemoteInstall
<1>5. CASE Request!OnRemoteUpdateAll(l, q)
  <2>1. PICK apps \in SUBSET Knows[Request!Server(l)] : Request!Queue(l, q, apps)
    BY <1>5 DEF Request!OnRemoteUpdateAll
  <2>2. apps \in SUBSET RemoteInstalls
    BY LinkFacts, Figures DEF Request!Server
  <2>3. q.kind # "search"
    BY <1>5 DEF Request!OnRemoteUpdateAll
  <2> QED
    BY <1>1, <1>2, <2>1, <2>2, <2>3, QueuedStep
<1>6. CASE Request!OnLater(l, q)
  BY <1>1, <1>2, <1>6, LaterStep
<1>7. CASE Request!OnAssetQuery(l, q)
  BY <1>1, <1>2, <1>7, AssetQueryStep
<1> QED
  BY <1>3, <1>4, <1>5, <1>6, <1>7

\* A job that ends.
Ends(s, prog, n) ==
  /\ n = job[s][prog] /\ n # 0
  /\ job' = [job EXCEPT ![s][prog] = 0] /\ owner' = [owner EXCEPT ![s][prog] = 0]

\* What is said then, and that the hub it belongs to is told, or it is excused.
Tells(s, prog, n) ==
  /\ reply' \in [Links -> Seq(Reply)] /\ gap \subseteq gap' /\ gap' \subseteq Links \X Request!Jobs
  /\ \A k \in Links : \/ reply'[k] = reply[k]
                     \/ \E m \in Reply : m.what = "event" /\ reply'[k] = Append(reply[k], m)
  /\ \A k \in Links :
       k[2] = s /\ owner[s][prog] # 0 /\ inflight[owner[s][prog]].by = k[1] =>
         \/ <<k, <<prog, n>>>> \in gap'
         \/ \E m \in Reply : /\ m.what = "event" /\ <<prog, n>> \in m.jobs
                            /\ reply'[k] = Append(reply[k], m)

\* The end of a job is told to the hub it belongs to, or to nobody.
LEMMA EndedStep ==
  ASSUME RequestInv, UNCHANGED <<live, opened, query, inflight, doing, jobs, holds, done, last>>,
         NEW s \in Request!Servers, NEW prog \in RemoteInstalls, NEW n, Ends(s, prog, n),
         Tells(s, prog, n)
  PROVE  RequestInv'
<1> USE DEF RequestInv, Ends, Tells
<1>1. /\ job \in [Request!Servers -> [RemoteInstalls -> 0..MaxJobs]] /\ MaxJobs \in Nat
      /\ owner \in [Request!Servers -> [RemoteInstalls -> 0..MaxRids]] /\ MaxRids \in Nat
  BY Figures DEF RequestTypes, JobTypes
<1>2. /\ job' \in [Request!Servers -> [RemoteInstalls -> 0..MaxJobs]]
      /\ owner' \in [Request!Servers -> [RemoteInstalls -> 0..MaxRids]]
      /\ \A x \in Request!Servers, other \in RemoteInstalls :
           IF x = s /\ other = prog
           THEN job'[x][other] = 0 /\ owner'[x][other] = 0
           ELSE job'[x][other] = job[x][other] /\ owner'[x][other] = owner[x][other]
  BY <1>1
<1>3. RequestTypes'
  <2>1. JobTypes'
    BY <1>2 DEF RequestTypes, JobTypes
  <2>2. /\ query' \in [Links -> Seq(Query)] /\ \A l \in Links : live[l] = 0 => query'[l] = <<>>
        /\ doing' \in [Request!Servers -> SUBSET Task] /\ done' \subseteq Request!Rids
    BY DEF RequestTypes, Request!TypeOK
  <2> QED
    BY <2>1, <2>2, ServerTypes
<1>4. \A k \in Links : reply[k] \in Seq(Reply)
  BY DEF RequestTypes
<1>5. \A k \in Links, x \in Reply : In(x, reply'[k]) => In(x, reply[k]) \/ Answered(k, x)'
  <2> SUFFICES ASSUME NEW k \in Links, NEW x \in Reply, In(x, reply'[k])
               PROVE  In(x, reply[k]) \/ Answered(k, x)'
    OBVIOUS
  <2>1. CASE reply'[k] = reply[k]
    BY <2>1
  <2>2. ASSUME NEW m \in Reply, m.what = "event", reply'[k] = Append(reply[k], m)
        PROVE  In(x, reply[k]) \/ Answered(k, x)'
    <3>1. In(x, reply[k]) \/ x = m
      BY <1>4, <2>2, InAppended
    <3> QED
      BY <2>2, <3>1 DEF Answered, Acks, Found
  <2> QED
    BY <2>1, <2>2
<1>6. Kept /\ Queries' /\ Replies' /\ Doings' /\ Request!AnswersAreTrue'
  BY <1>3, <1>5, ServerStep DEF Doings
<1>7. Lacking'
  <2>1. \A k \in Links : Within(query[k], query'[k])
    BY WithinItself DEF RequestTypes
  <2>2. ASSUME NEW k \in Links PROVE WithinFound(reply[k], reply'[k])
    <3>1. CASE reply'[k] = reply[k]
      BY <1>4, <3>1, WithinItself
    <3>2. ASSUME NEW m \in Reply, m.what = "event", reply'[k] = Append(reply[k], m)
          PROVE  WithinFound(reply[k], reply'[k])
      <4>1. m.what \notin Found
        BY <3>2 DEF Found
      <4>2. WithinFound(reply[k], Append(reply[k], m))
        BY <1>4, <4>1, WithinAppended
      <4> QED
        BY <3>2, <4>2
    <3> QED
      BY <3>1, <3>2
  <2> QED
    BY <1>3, <1>6, <2>1, <2>2, SearchesKept
<1>8. JobsFit'
  <2>1. \A x \in Request!Servers, other \in RemoteInstalls :
          /\ job'[x][other] <= jobs'[x][other]
          /\ owner'[x][other] = IF job'[x][other] = 0 THEN 0
                                ELSE last'[x][<<other, job'[x][other]>>]
    <3> TAKE x \in Request!Servers, other \in RemoteInstalls
    <3>1. CASE x = s /\ other = prog
      BY <1>2, <3>1, JobFacts
    <3>2. CASE ~(x = s /\ other = prog)
      BY <1>2, <3>2 DEF JobsFit
    <3> QED
      BY <3>1, <3>2
  <2> QED
    BY <2>1 DEF JobsFit
<1>9. EndsAreComing'
  <2>1. ASSUME NEW k \in Links, NEW j \in Request!Jobs, Given(k, j)
        PROVE  /\ Given(k, j)'
               /\ Covered(k, j) =>
                    \/ Covered(k, j)'
                    \/ \E m \in Reply : m.what = "event" /\ j \in m.jobs
                                       /\ reply'[k] = Append(reply[k], m)
    <3>1. k[2] \in Request!Servers /\ j[1] \in RemoteInstalls /\ j = <<j[1], j[2]>>
      BY LinkFacts, JobFacts
    <3>2. Given(k, j)'
      BY <2>1 DEF Given
    <3>3. ASSUME job[k[2]][j[1]] = j[2]
          PROVE  \/ Covered(k, j)'
                 \/ \E m \in Reply : m.what = "event" /\ j \in m.jobs
                                    /\ reply'[k] = Append(reply[k], m)
      <4>1. CASE ~(k[2] = s /\ j[1] = prog)
        BY <1>2, <3>1, <3>3, <4>1 DEF Covered
      <4>2. CASE k[2] = s /\ j[1] = prog
        <5>1. j = <<prog, n>>
          BY <3>1, <3>3, <4>2
        <5>2. owner[s][prog] = last[s][j] /\ last[s][j] # 0
          BY <2>1, <4>2, <5>1, LastFacts DEF JobsFit, Given
        <5>3. CASE inflight[last[s][j]].by # k[1]
          BY <4>2, <5>3 DEF Covered
        <5>4. CASE inflight[last[s][j]].by = k[1]
          BY <4>2, <5>1, <5>2, <5>4 DEF Covered
        <5> QED
          BY <5>3, <5>4
      <4> QED
        BY <4>1, <4>2
    <3>4. CASE <<k, j>> \in gap \/ inflight[last[k[2]][j]].by # k[1]
      BY <3>2, <3>4 DEF Covered
    <3> QED
      BY <3>2, <3>3, <3>4 DEF Covered
  <2>2. \A k \in Links : \/ reply'[k] = reply[k]
                        \/ \E m \in Reply : reply'[k] = Append(reply[k], m) /\ Current(m, k)'
    BY DEF Current
  <2> QED
    BY <1>3, <1>6, <2>1, <2>2, EndsSaid DEF Awaited
<1> QED
  BY <1>3, <1>6, <1>7, <1>8, <1>9

\* JobEnds.
LEMMA JobEndsStep ==
  ASSUME RequestInv, NEW s \in Request!Servers, NEW prog \in RemoteInstalls,
         Request!JobEnds(s, prog)
  PROVE  RequestInv'
<1>1. PICK n : n = job[s][prog]
  OBVIOUS
<1>2. PICK rid : rid = owner[s][prog]
  OBVIOUS
<1>3. /\ n # 0 /\ job' = [job EXCEPT ![s][prog] = 0] /\ owner' = [owner EXCEPT ![s][prog] = 0]
      /\ UNCHANGED <<live, opened, query, inflight, doing, jobs, holds, done, last>>
  BY <1>1 DEF Request!JobEnds
<1>4. <<prog, n>> \in Request!Jobs
  <2>1. n \in 1..MaxJobs
    BY <1>1, <1>3, JobFacts, Figures DEF RequestInv
  <2> QED
    BY <2>1, JobFacts DEF RequestInv
<1>5. gap \subseteq Links \X Request!Jobs /\ reply \in [Links -> Seq(Reply)]
  BY DEF RequestInv, RequestTypes, Request!TypeOK
<1>6. Ends(s, prog, n)
  BY <1>1, <1>3 DEF Ends
<1>7. CASE rid # 0
  <2>1. rid \in DOMAIN inflight /\ rid \in Nat /\ <<inflight[rid].by, s>> \in Links
    <3>1. rid = last[s][<<prog, n>>]
      BY <1>1, <1>2, <1>3 DEF RequestInv, JobsFit
    <3> QED
      BY <1>4, <1>7, <3>1, LastFacts DEF RequestInv, JobsFit
  <2>2. PICK l \in Links : l = <<inflight[rid].by, s>>
    BY <2>1
  <2>3. l[1] = inflight[rid].by /\ l[2] = s
    BY <2>2
  <2>4. PICK m \in Reply : /\ m = Request!Message("event", rid, {<<prog, n>>})
                           /\ m.what = "event" /\ m.jobs = {<<prog, n>>}
    <3>1. {<<prog, n>>} \in SUBSET Request!Jobs /\ "event" \in Acks \union Found \union {"event"}
      BY <1>4
    <3> QED
      BY <2>1, <3>1, Messages
  <2>5. /\ reply' = Request!Sent(l, live[l], m)
        /\ gap' = IF live[l] = 0 THEN gap \union {<<l, <<prog, n>>>>} ELSE gap
    BY Zenon, <1>1, <1>2, <1>7, <2>2, <2>4 DEF Request!JobEnds, Request!OwnerSession
  <2>6. /\ reply' \in [Links -> Seq(Reply)]
        /\ \A k \in Links : reply'[k] = reply[k] \/ (k = l /\ reply'[k] = Append(reply[k], m))
    BY <2>5, SentFacts DEF RequestInv
  <2>7. gap \subseteq gap' /\ gap' \subseteq Links \X Request!Jobs
    BY <1>4, <1>5, <2>5
  <2>8. ASSUME NEW k \in Links, k[2] = s, inflight[rid].by = k[1]
        PROVE  \/ <<k, <<prog, n>>>> \in gap'
               \/ \E e \in Reply : /\ e.what = "event" /\ <<prog, n>> \in e.jobs
                                  /\ reply'[k] = Append(reply[k], e)
    <3>1. k = l
      BY <2>3, <2>8, LinkFacts
    <3>2. live[l] # 0 => reply'[l] = Append(reply[l], m)
      BY <1>5, <2>5 DEF Request!Sent
    <3> QED
      BY <2>4, <2>5, <3>1, <3>2
  <2>9. \A k \in Links : \/ reply'[k] = reply[k]
                        \/ \E e \in Reply : e.what = "event" /\ reply'[k] = Append(reply[k], e)
    BY <2>4, <2>6
  <2>10. Tells(s, prog, n)
    BY <1>2, <2>6, <2>7, <2>8, <2>9 DEF Tells
  <2> QED
    BY <1>3, <1>6, <2>10, EndedStep
<1>8. CASE rid = 0
  <2>1. UNCHANGED <<reply, gap>>
    BY <1>2, <1>8 DEF Request!JobEnds
  <2>2. Tells(s, prog, n)
    BY <1>2, <1>5, <1>8, <2>1 DEF Tells
  <2> QED
    BY <1>3, <1>6, <2>2, EndedStep
<1> QED
  BY <1>7, <1>8

-----------------------------------------------------------------------------
\* It holds at the start.
LEMMA RequestInvInit ==
  ASSUME Request!Init PROVE RequestInv
<1>1. \A S : <<>> \in Seq(S) /\ DOMAIN <<>> = {}
  BY NoElements
<1>2. RequestTypes
  <2>1. /\ live \in [Links -> 0..MaxSession] /\ opened \in 0..MaxSession
        /\ query \in [Links -> Seq(Query)] /\ reply \in [Links -> Seq(Reply)]
        /\ \A l \in Links : query[l] = <<>>
    BY <1>1, Figures DEF Request!Init
  <2>2. inflight \in Seq(Request!Request) /\ Len(inflight) <= MaxRids /\ DOMAIN inflight = {}
    <3>1. Len(<<>>) = 0
      BY EmptySeq
    <3> QED
      BY <1>1, <3>1, Figures DEF Request!Init
  <2>3. /\ doing \in [Request!Servers -> SUBSET Task]
        /\ \A s \in Request!Servers : doing[s] = {}
    BY DEF Request!Init
  <2>4. JobTypes
    BY Figures DEF Request!Init, JobTypes
  <2>5. /\ holds \subseteq Request!Servers /\ done \subseteq Request!Rids
        /\ gap \subseteq Links \X Request!Jobs
    BY DEF Request!Init
  <2>6. Request!TypeOK
    BY <2>1, <2>2, <2>3, <2>4, <2>5 DEF Request!TypeOK, JobTypes
  <2> QED
    BY <2>1, <2>2, <2>3, <2>4, <2>6 DEF RequestTypes
<1>3. DOMAIN inflight = {} /\ \A l \in Links : DOMAIN query[l] = {} /\ DOMAIN reply[l] = {}
  BY <1>1 DEF Request!Init
<1>4. Queries /\ Replies /\ Lacking /\ Request!AnswersAreTrue /\ EndsAreComing
  BY <1>3 DEF Queries, Replies, In, Lacking, OneMessage, Request!AnswersAreTrue, EndsAreComing
<1>5. Doings
  BY DEF Request!Init, Doings
<1>6. JobsFit
  <2>1. \A s \in Request!Servers :
          /\ \A prog \in RemoteInstalls :
               job[s][prog] = 0 /\ jobs[s][prog] = 0 /\ owner[s][prog] = 0
          /\ \A j \in Request!Jobs : last[s][j] = 0
    BY DEF Request!Init
  <2> QED
    BY <2>1 DEF JobsFit
<1> QED
  BY <1>2, <1>4, <1>5, <1>6 DEF RequestInv

\* Every step keeps it.
LEMMA RequestStep ==
  ASSUME RequestInv, [Request!Next]_Request!vars PROVE RequestInv'
<1>1. CASE Request!Next
  BY <1>1, SessionSteps, ServeStep, ReceiveStep, AskSteps, TimeoutStep, ThroughStep,
     LocalInstallStep, JobEndsStep DEF Request!Next
<1>2. CASE UNCHANGED Request!vars
  <2>1. UNCHANGED <<live, opened, query, reply, inflight, doing, job, jobs, owner,
                    holds, done, gap, last>>
    BY <1>2 DEF Request!vars
  <2>2. RequestTypes' /\ Queries' /\ Replies'
    <3>1. RequestTypes'
      BY <2>1 DEF RequestInv, RequestTypes, JobTypes, Request!TypeOK
    <3>2. Queries'
      BY <2>1 DEF RequestInv, Queries, Queried, In, AsOne, OfLink
    <3>3. Replies'
      BY <2>1 DEF RequestInv, Replies, Answered, In, AsOne, OfLink
    <3> QED
      BY <3>1, <3>2, <3>3
  <2>3. Doings' /\ JobsFit' /\ Request!AnswersAreTrue'
    BY <2>1 DEF RequestInv, Doings, JobsFit, Request!AnswersAreTrue, OfLink
  <2>4. Kept
    BY <2>1 DEF Kept
  <2>5. Lacking'
    <3>1. \A k \in Links : Within(query[k], query'[k]) /\ WithinFound(reply[k], reply'[k])
      BY <2>1, WithinItself DEF RequestInv, RequestTypes
    <3> QED
      BY <2>1, <2>2, <2>4, <3>1, SearchesKept DEF RequestInv
  <2>6. EndsAreComing'
    BY <2>1, <2>2, <2>4, EndsSaid, CoveredKept DEF RequestInv, Awaited
  <2> QED
    BY <2>2, <2>3, <2>5, <2>6 DEF RequestInv
<1> QED
  BY <1>1, <1>2

\* It gives what the run checks.
LEMMA RequestInvImplies ==
  ASSUME RequestInv PROVE Request!AskersAreTold
<1>1. Request!TypeOK /\ Request!AnswersAreTrue
  BY DEF RequestInv, RequestTypes
<1>2. Request!EndReachesAsker
  <2> SUFFICES ASSUME NEW r \in DOMAIN inflight, NEW l \in Links, NEW j \in inflight[r].jobs,
                      inflight[r].by = l[1], inflight[r].of = {l[2]}, job[l[2]][j[1]] # j[2],
                      Request!Quiet(l), <<l, j>> \notin gap, inflight[last[l[2]][j]].by = l[1],
                      j \notin inflight[r].told
               PROVE  FALSE
    BY DEF Request!EndReachesAsker, Request!Server
  <2>1. Covered(l, j) \/ EventAfter(l, 0, j)
    BY DEF RequestInv, EndsAreComing, OfLink, Awaited
  <2>2. ~EventAfter(l, 0, j)
    BY NoElements DEF EventAfter, Request!Quiet
  <2> QED
    BY <2>1, <2>2 DEF Covered
<1> QED
  BY <1>1, <1>2 DEF Request!AskersAreTold

\* A hub is told the truth of what it asked of another: a request that shows as done was
\* done (a stop that found nothing to end shows as gone), a search that shows "nobody has
\* it" asked only hubs that do not have the asset, and the end of a job it was given
\* reaches it, unless there is no session, or the message is lost with one, or the last
\* hub that was given the same job is another one (onAck, the "asset-have" case,
\* failInflightFor, jobOwners and onHubEvent of fleet/index.js).  For any finite
\* network of links, any apps and calls, any number of requests, sessions and jobs.
THEOREM AskersAlwaysTold == Request!Spec => []AskersAreTold
<1>1. Request!Init => RequestInv
  BY RequestInvInit
<1>2. RequestInv /\ [Request!Next]_Request!vars => RequestInv'
  BY RequestStep
<1>3. RequestInv => AskersAreTold
  BY RequestInvImplies DEF AskersAreTold
<1> QED
  BY <1>1, <1>2, <1>3, PTL DEF Request!Spec
=============================================================================
