----------------------------- MODULE MessagesProofs -----------------------------
(***************************************************************************)
(* What holds of two paired hubs, whatever the sets MCMessages checks them *)
(* with: of their sessions, for any number of connections, pairing codes   *)
(* and troubles, and of what they agree on, for any settings, stacks,      *)
(* edits and sessions.                                                     *)
(*                                                                         *)
(* And of one hub: of what its window shows, for any fields, jobs and      *)
(* clicks (Window), and of the processes it runs as, for any number of     *)
(* crashes (HubProcesses).                                                 *)
(***************************************************************************)
EXTENDS MCMessages, SequenceTheorems, TLAPS

-----------------------------------------------------------------------------
(* The sessions (FleetLink).                                                 *)

Ends == {"closed", "challenge", "ready", "answer", "waiting", "paired", "open", "dead"}
Connection == [from : Hubs, key : Secrets, stray : BOOLEAN,
               end : [Hubs -> Ends], in : [Hubs -> Seq(Frames)]]

LinkTypes ==
  /\ peer \in [Hubs -> Secrets \cup {None}]
  /\ conn \in [Conns -> Connection]
  /\ entry \in [Hubs -> Conns \cup {None}]
  /\ roster \subseteq Hubs
  /\ window \in [Hubs -> 1..MaxCode \cup {None}]
  /\ codes \in 0..MaxCode
  /\ troubles \in 0..MaxTrouble

\* The phases of the two halves: of the hub that dialled, of the one that was dialled.
HalfOf(c, h) ==
  /\ c.end[h] \in {"challenge", "ready", "answer"} => c.from = h
  /\ c.end[h] \in {"waiting", "paired"} => c.from # h

\* Only the hub that dialled is ever in a phase of the client half: whoever gets to
\* be open in the other half has been accepted.
ClientDialled == \A h \in Hubs, k \in Conns : HalfOf(conn[k], h)

LinkInv == LinkTypes /\ TableIsExact /\ AcceptedArePaired /\ RosterIsLive /\ ClientDialled

\* The connection d is c with the end of h in another phase, whatever frames are
\* under way.  An end that is closed is astray no more.
SameBut(c, d, h, stage) ==
  /\ d \in Connection /\ d.from = c.from /\ d.key = c.key
  /\ d.end = [c.end EXCEPT ![h] = stage]
  /\ d.stray => c.stray
  /\ c.from # h \/ stage # "closed" => d.stray = c.stray

-----------------------------------------------------------------------------
(* The operations on a connection.                                           *)

\* The other hub of two is a hub.
LEMMA ThemIsHub == \A h \in Hubs : Them(h) \in Hubs
BY LinkAssumption DEF Them, Hubs

\* The end of one hub goes into another phase.
LEMMA Turned ==
  ASSUME NEW c \in Connection, NEW h \in Hubs, NEW stage \in Ends
  PROVE  SameBut(c, Turn(c, h, stage), h, stage)
<1>1. [c.end EXCEPT ![h] = stage] \in [Hubs -> Ends]
  BY DEF Connection
<1>2. Turn(c, h, stage) = [c EXCEPT !.end = [c.end EXCEPT ![h] = stage]]
  BY DEF Turn, Connection
<1> QED
  BY <1>1, <1>2 DEF SameBut, Connection

\* A frame that is taken changes nothing but its stream.
LEMMA Taken ==
  ASSUME NEW c \in Connection, NEW h \in Hubs, c.in[h] # <<>>
  PROVE  /\ Take(c, h) \in Connection
         /\ Take(c, h).from = c.from /\ Take(c, h).key = c.key /\ Take(c, h).end = c.end
         /\ Take(c, h).stray = c.stray
<1>1. Tail(c.in[h]) \in Seq(Frames)
  BY HeadTailProperties DEF Connection
<1>2. [c.in EXCEPT ![h] = Tail(c.in[h])] \in [Hubs -> Seq(Frames)]
  BY <1>1 DEF Connection
<1>3. Take(c, h) = [c EXCEPT !.in = [c.in EXCEPT ![h] = Tail(c.in[h])]]
  BY DEF Take, Connection
<1> QED
  BY <1>2, <1>3 DEF Connection

\* A frame that is posted changes nothing but a stream.
LEMMA Posted ==
  ASSUME NEW c \in Connection, NEW h \in Hubs, NEW frame \in Frames
  PROVE  /\ Post(c, h, frame) \in Connection
         /\ Post(c, h, frame).from = c.from /\ Post(c, h, frame).key = c.key
         /\ Post(c, h, frame).end = c.end /\ Post(c, h, frame).stray = c.stray
<1> DEFINE t == Them(h)
<1>1. t \in Hubs
  BY ThemIsHub
<1>2. Append(c.in[t], frame) \in Seq(Frames)
  BY <1>1 DEF Connection
<1>3. [c.in EXCEPT ![t] = Append(c.in[t], frame)] \in [Hubs -> Seq(Frames)]
  BY <1>1, <1>2 DEF Connection
<1>4. \/ Post(c, h, frame) = c
      \/ Post(c, h, frame) = [c EXCEPT !.in = [c.in EXCEPT ![t] = Append(c.in[t], frame)]]
  BY <1>1 DEF Post, Connection
<1> QED
  BY <1>3, <1>4 DEF Connection

\* To hang up closes the end of one hub.
LEMMA Hung ==
  ASSUME NEW c \in Connection, NEW h \in Hubs
  PROVE  SameBut(c, Hang(c, h), h, "closed")
<1>1. [c.end EXCEPT ![h] = "closed"] \in [Hubs -> Ends]
  BY DEF Connection, Ends
<1>2. [c.in EXCEPT ![h] = <<>>] \in [Hubs -> Seq(Frames)]
  BY EmptySeq DEF Connection
<1>3. Hang(c, h) = [[[c EXCEPT !.end = [c.end EXCEPT ![h] = "closed"]]
                      EXCEPT !.in = [c.in EXCEPT ![h] = <<>>]]
                      EXCEPT !.stray = (c.stray /\ c.from # h)]
  BY DEF Hang, Connection
<1> QED
  BY <1>1, <1>2, <1>3 DEF SameBut, Connection

\* So does to close, which tells the other hub.
LEMMA ClosedDown ==
  ASSUME NEW c \in Connection, NEW h \in Hubs
  PROVE  SameBut(c, Close(c, h), h, "closed")
<1>1. "close" \in Frames
  BY DEF Frames
<1> QED
  BY <1>1, Posted, Hung DEF Close, SameBut

\* A new connection is of the hub that dialled.
LEMMA FreshConnection ==
  ASSUME NEW h \in Hubs, NEW key \in Secrets, NEW stage \in {"challenge", "answer"}
  PROVE  /\ Dialled(h, key, stage) \in Connection
         /\ Dialled(h, key, stage).from = h
         /\ \A g \in Hubs : Dialled(h, key, stage).end[g] = IF g = h THEN stage ELSE "waiting"
<1>1. <<"challenge">> \in Seq(Frames) /\ <<>> \in Seq(Frames)
  BY DEF Frames
<1> QED
  BY <1>1 DEF Dialled, Connection, Ends

\* A frame at the head of a stream is there to be taken, and an end in one phase is
\* turned into another.
LEMMA TakenAndTurned ==
  ASSUME NEW c \in Connection, NEW h \in Hubs, c.in[h] # <<>>, NEW stage \in Ends
  PROVE  SameBut(c, Turn(Take(c, h), h, stage), h, stage)
BY Taken, Turned DEF SameBut

\* The same, with an answer to the other hub.
LEMMA TurnedAndPosted ==
  ASSUME NEW c \in Connection, NEW h \in Hubs, c.in[h] # <<>>, NEW stage \in Ends,
         NEW frame \in Frames
  PROVE  SameBut(c, Post(Turn(Take(c, h), h, stage), h, frame), h, stage)
BY TakenAndTurned, Posted DEF SameBut
-----------------------------------------------------------------------------
(* What a step may do to the sessions of a table: nothing, end those of some *)
(* slots, or put one in.                                                     *)

OtherTypes ==
  /\ peer' \in [Hubs -> Secrets \cup {None}]
  /\ window' \in [Hubs -> 1..MaxCode \cup {None}]
  /\ codes' \in 0..MaxCode /\ troubles' \in 0..MaxTrouble

\* No session that the table of g should have: it is none, or it is astray.
Outside(k, g) == conn[k].end[g] \notin {"open", "dead"} \/ Astray(g, k)

\* The end of g on slot k is as it was.
Same(k, g) == /\ conn'[k].end[g] = conn[k].end[g] /\ conn'[k].from = conn[k].from
              /\ Astray(g, k)' <=> Astray(g, k)

\* It is as it was, or outside the table before and after the step.
NoSession(k, g) ==
  \/ Same(k, g)
  \/ Outside(k, g) /\ Outside(k, g)' /\ HalfOf(conn'[k], g)

\* A step that neither makes nor ends a session, nor forgets a secret.
LEMMA NoSessionKeeps ==
  ASSUME LinkInv, OtherTypes, entry' = entry, DOMAIN conn' = Conns,
         conn' = [k \in Conns |-> conn'[k]],
         \A k \in Conns : conn'[k] \in Connection /\ \A g \in Hubs : NoSession(k, g),
         roster' \subseteq Hubs, \A h \in roster' : entry[h] # None,
         \A h \in Hubs : peer[h] # None => peer'[h] # None
  PROVE  LinkInv'
<1> USE DEF LinkInv
<1>1. LinkTypes'
  BY DEF LinkTypes, OtherTypes
<1>2. TableIsExact'
  BY DEF TableIsExact, Open, Dead, NoSession, Same, Outside
<1>3. AcceptedArePaired'
  BY DEF AcceptedArePaired, Open, NoSession, Same, Outside, Astray
<1>4. RosterIsLive'
  BY DEF RosterIsLive
<1>5. ClientDialled'
  BY DEF ClientDialled, HalfOf, NoSession, Same
<1> QED
  BY <1>1, <1>2, <1>3, <1>4, <1>5

\* The hub h closes its ends of the slots K.
LEMMA ClosingKeeps ==
  ASSUME LinkInv, OtherTypes, NEW h \in Hubs, NEW K \in SUBSET Conns,
         conn' = [k \in Conns |-> conn'[k]],
         \A k \in K : SameBut(conn[k], conn'[k], h, "closed"),
         \A k \in Conns \ K : conn'[k] \in Connection /\ \A g \in Hubs : NoSession(k, g),
         entry' = [entry EXCEPT ![h] = IF entry[h] \in K THEN None ELSE entry[h]],
         roster' \subseteq roster, entry[h] \in K => h \notin roster',
         \A g \in Hubs \ {h} : peer'[g] = peer[g],
         peer'[h] = peer[h] \/ entry'[h] = None
  PROVE  LinkInv'
<1> USE DEF LinkInv
<1>0. ASSUME NEW k \in Conns, NEW g \in Hubs
      PROVE  \/ NoSession(k, g)
             \/ k \in K /\ g = h /\ conn'[k].from = conn[k].from /\ conn'[k].end[g] = "closed"
  <2>1. CASE k \in K
    <3>1. conn[k].end \in [Hubs -> Ends]
      BY DEF LinkTypes, Connection
    <3>2. /\ conn'[k].from = conn[k].from /\ conn'[k].end = [conn[k].end EXCEPT ![h] = "closed"]
          /\ conn[k].from # h => conn'[k].stray = conn[k].stray
      BY <2>1 DEF SameBut
    <3> QED
      BY <2>1, <3>1, <3>2 DEF NoSession, Same, Astray
  <2>2. CASE k \notin K
    BY <2>2
  <2> QED
    BY <2>1, <2>2
<1>1. LinkTypes'
  BY DEF LinkTypes, OtherTypes, SameBut
<1>2. TableIsExact'
  <2> SUFFICES ASSUME NEW g \in Hubs, NEW k \in Conns
               PROVE  entry'[g] = k <=> /\ conn'[k].end[g] = "open" \/ conn'[k].end[g] = "dead"
                                        /\ ~Astray(g, k)'
    BY DEF TableIsExact, Open, Dead
  <2>1. entry[g] = k <=> (conn[k].end[g] = "open" \/ conn[k].end[g] = "dead") /\ ~Astray(g, k)
    BY DEF TableIsExact, Open, Dead
  <2>2. CASE k \in K /\ g = h /\ conn'[k].end[g] = "closed"
    BY <2>2, LinkAssumption DEF LinkTypes
  <2>3. CASE NoSession(k, g)
    <3>1. entry'[g] = k <=> entry[g] = k
      <4>1. CASE g # h
        BY <4>1 DEF LinkTypes
      <4>2. CASE g = h /\ k \notin K
        BY <4>2, LinkAssumption DEF LinkTypes
      <4>3. CASE g = h /\ k \in K /\ entry[g] # k
        BY <4>3, LinkAssumption DEF LinkTypes
      <4>4. CASE g = h /\ k \in K /\ entry[g] = k
        <5>1. conn[k].end[h] \in {"open", "dead"} /\ ~Astray(h, k)
          BY <2>1, <4>4
        <5>2. conn[k].end \in [Hubs -> Ends] /\ conn'[k].end = [conn[k].end EXCEPT ![h] = "closed"]
          BY <4>4 DEF LinkTypes, Connection, SameBut
        <5> QED
          BY <2>3, <4>4, <5>1, <5>2 DEF NoSession, Same, Outside
      <4> QED
        BY <4>1, <4>2, <4>3, <4>4
    <3> QED
      BY <2>1, <2>3, <3>1 DEF NoSession, Same, Outside
  <2> QED
    BY <1>0, <2>2, <2>3
<1>3. AcceptedArePaired'
  <2> SUFFICES ASSUME NEW g \in Hubs, NEW k \in Conns,
                      conn'[k].end[g] = "open", conn'[k].from # g
               PROVE  peer'[g] # None
    BY DEF AcceptedArePaired, Open
  <2>1. conn[k].end[g] = "open" /\ conn[k].from # g
    BY <1>0 DEF NoSession, Same, Outside, Astray
  <2>2. peer[g] # None /\ entry'[g] = k
    BY <1>2, <2>1 DEF AcceptedArePaired, TableIsExact, Open, Astray
  <2> QED
    BY <2>2, LinkAssumption
<1>4. RosterIsLive'
  BY DEF RosterIsLive, LinkTypes
<1>5. ClientDialled'
  BY <1>0 DEF ClientDialled, HalfOf, NoSession, Same
<1> QED
  BY <1>1, <1>2, <1>3, <1>4, <1>5

\* A session takes the place of the one in the table, and closes that.
LEMMA AdoptKeeps ==
  ASSUME LinkInv, NEW h \in Hubs, NEW k \in Conns, NEW c, NEW stage \in {"open", "dead"},
         Adopt(h, k, c), SameBut(conn[k], c, h, stage),
         conn[k].end[h] \notin {"open", "dead"}, ~Astray(h, k),
         conn[k].from # h => peer[h] # None,
         UNCHANGED <<peer, roster, window, codes, troubles>>
  PROVE  LinkInv'
<1> USE DEF LinkInv
<1>0. entry[h] # k
  BY DEF TableIsExact, Open, Dead
<1>1. SameBut(conn[k], conn'[k], h, stage)
  <2>1. "hello" \in Frames
    BY DEF Frames
  <2>2. c \in Connection
    BY DEF SameBut
  <2>3. conn'[k] = Post(c, h, "hello")
    BY <1>0 DEF Adopt
  <2> QED
    BY <2>1, <2>2, <2>3, Posted DEF SameBut
<1>2. ASSUME NEW j \in Conns, j = entry[h] PROVE SameBut(conn[j], conn'[j], h, "closed")
  <2>1. conn'[j] = Close(conn[j], h)
    BY <1>0, <1>2 DEF Adopt
  <2> QED
    BY <2>1, ClosedDown DEF LinkTypes
<1>3. \A j \in Conns : j # k /\ j # entry[h] => conn'[j] = conn[j]
  BY DEF Adopt
<1>4. entry' = [entry EXCEPT ![h] = k]
  BY DEF Adopt
<1>5. \A j \in Conns, g \in Hubs :
        /\ conn'[j].from = conn[j].from
        /\ conn'[j].end[g] = IF g # h THEN conn[j].end[g]
                             ELSE IF j = k THEN stage
                             ELSE IF j = entry[h] THEN "closed" ELSE conn[j].end[g]
        /\ (j = entry[h] /\ g = h) \/ (Astray(g, j)' <=> Astray(g, j))
  <2> SUFFICES ASSUME NEW j \in Conns, NEW g \in Hubs
               PROVE  /\ conn'[j].from = conn[j].from
                      /\ conn'[j].end[g] = IF g # h THEN conn[j].end[g]
                                           ELSE IF j = k THEN stage
                                           ELSE IF j = entry[h] THEN "closed" ELSE conn[j].end[g]
                      /\ (j = entry[h] /\ g = h) \/ (Astray(g, j)' <=> Astray(g, j))
    OBVIOUS
  <2>1. conn[j].end \in [Hubs -> Ends]
    BY DEF LinkTypes, Connection
  <2>2. CASE j = k
    BY <1>1, <2>1, <2>2 DEF SameBut, Astray
  <2>3. CASE j = entry[h]
    BY <1>0, <1>2, <2>1, <2>3 DEF SameBut, Astray
  <2>4. CASE j # k /\ j # entry[h]
    BY <1>3, <2>4 DEF Astray
  <2> QED
    BY <2>2, <2>3, <2>4
<1>6. LinkTypes'
  <2>1. \A j \in Conns : conn'[j] \in Connection
    BY <1>1, <1>2, <1>3 DEF LinkTypes, SameBut
  <2>2. conn' = [j \in Conns |-> conn'[j]]
    BY DEF Adopt
  <2>3. conn' \in [Conns -> Connection]
    BY <2>1, <2>2
  <2> QED
    BY <1>4, <2>3 DEF LinkTypes
<1>7. TableIsExact'
  <2> SUFFICES ASSUME NEW g \in Hubs, NEW j \in Conns
               PROVE  entry'[g] = j <=> /\ conn'[j].end[g] = "open" \/ conn'[j].end[g] = "dead"
                                        /\ ~Astray(g, j)'
    BY DEF TableIsExact, Open, Dead
  <2>1. entry[g] = j <=> (conn[j].end[g] = "open" \/ conn[j].end[g] = "dead") /\ ~Astray(g, j)
    BY DEF TableIsExact, Open, Dead
  <2> QED
    BY <1>4, <1>5, <2>1 DEF LinkTypes
<1>8. AcceptedArePaired'
  BY <1>5 DEF AcceptedArePaired, TableIsExact, Open
<1>9. RosterIsLive'
  BY <1>4, LinkAssumption DEF RosterIsLive, LinkTypes
<1>10. ClientDialled'
  BY <1>5 DEF ClientDialled, HalfOf
<1> QED
  BY <1>6, <1>7, <1>8, <1>9, <1>10
-----------------------------------------------------------------------------
(* The steps.                                                                *)

\* A connection of one slot turns, and the others stay.
LEMMA OneTurns ==
  ASSUME LinkInv, OtherTypes, NEW h \in Hubs, NEW k \in Conns, NEW c, NEW stage \in Ends,
         SameBut(conn[k], c, h, stage), conn' = [conn EXCEPT ![k] = c],
         Outside(k, h), stage \in {"open", "dead"} => Astray(h, k),
         stage \in {"challenge", "ready", "answer"} => conn[k].from = h,
         stage \in {"waiting", "paired"} => conn[k].from # h,
         UNCHANGED <<entry, roster>>, \A g \in Hubs : peer[g] # None => peer'[g] # None
  PROVE  LinkInv'
<1>1. conn' = [j \in Conns |-> conn'[j]] /\ conn'[k] = c
      /\ \A j \in Conns \ {k} : conn'[j] = conn[j]
  BY DEF LinkInv, LinkTypes
<1>2. ASSUME NEW j \in Conns, NEW g \in Hubs PROVE conn'[j] \in Connection /\ NoSession(j, g)
  <2>1. CASE j = k
    <3>1. conn[k].end \in [Hubs -> Ends]
      BY DEF LinkInv, LinkTypes, Connection
    <3> QED
      BY <1>1, <2>1, <3>1 DEF SameBut, NoSession, Same, Outside, Astray, HalfOf
  <2>2. CASE j # k
    BY <1>1, <2>2 DEF LinkInv, LinkTypes, NoSession, Same, Astray
  <2> QED
    BY <2>1, <2>2
<1>3. roster \subseteq Hubs /\ \A g \in roster : entry[g] # None
  BY DEF LinkInv, LinkTypes, RosterIsLive
<1> QED
  BY <1>1, <1>2, <1>3, NoSessionKeeps

\* The slot of a new connection is nobody's.
LEMMA SlotIsFree ==
  ASSUME Free # {}
  PROVE  /\ Slot \in Conns
         /\ \A g \in Hubs : conn[Slot].end[g] = "closed" /\ entry[g] # Slot
<1>1. Slot \in Free
  BY DEF Slot
<1> QED
  BY <1>1 DEF Free

\* A dial makes no session.
LEMMA DialKeeps ==
  ASSUME LinkInv, OtherTypes, Free # {}, NEW h \in Hubs, NEW key \in Secrets,
         NEW stage \in {"challenge", "answer"},
         conn' = [conn EXCEPT ![Slot] = Dialled(h, key, stage)],
         UNCHANGED <<peer, entry, roster>>
  PROVE  LinkInv'
<1>1. /\ conn' = [j \in Conns |-> conn'[j]]
      /\ conn'[Slot] = Dialled(h, key, stage)
      /\ \A j \in Conns \ {Slot} : conn'[j] = conn[j]
  BY SlotIsFree DEF LinkInv, LinkTypes
<1>2. ASSUME NEW j \in Conns, NEW g \in Hubs PROVE conn'[j] \in Connection /\ NoSession(j, g)
  <2>1. CASE j = Slot
    <3>1. /\ conn'[j] \in Connection /\ conn'[j].from = h
          /\ conn'[j].end[g] = IF g = h THEN stage ELSE "waiting"
      BY <1>1, <2>1, FreshConnection
    <3> QED
      BY <2>1, <3>1, SlotIsFree DEF NoSession, Outside, HalfOf
  <2>2. CASE j # Slot
    BY <1>1, <2>2 DEF LinkInv, LinkTypes, NoSession, Same, Astray
  <2> QED
    BY <2>1, <2>2
<1>3. roster \subseteq Hubs /\ \A g \in roster : entry[g] # None
  BY DEF LinkInv, LinkTypes, RosterIsLive
<1> QED
  BY <1>1, <1>2, <1>3, NoSessionKeeps

\* A hub that starts again closes all but ends outside its table.
LEMMA StartingKeeps ==
  ASSUME LinkInv, NEW h \in Hubs, NEW kept \in SUBSET LeftAlone(h), StartsAgain(h, kept)
  PROVE  LinkInv'
<1> USE LinkAssumption
<1> DEFINE K == Conns \ kept
<1>0. LinkTypes /\ kept \subseteq Conns
  BY DEF LinkInv, LeftAlone
<1>1. OtherTypes
  BY <1>0 DEF StartsAgain, Trouble, LinkTypes, OtherTypes
<1>2. /\ conn' = [k \in Conns |-> conn'[k]]
      /\ \A k \in K : conn'[k] = Close(conn[k], h)
      /\ \A k \in kept : conn'[k] = [conn[k] EXCEPT !.stray = @ \/ conn[k].from = h]
      /\ entry' = [entry EXCEPT ![h] = None] /\ roster' = roster \ {h} /\ peer' = peer
  BY <1>0 DEF StartsAgain
<1>3. \A k \in K : SameBut(conn[k], conn'[k], h, "closed")
  BY <1>0, <1>2, ClosedDown DEF LinkTypes
<1>4. ASSUME NEW k \in kept, NEW g \in Hubs
      PROVE  conn'[k] \in Connection /\ NoSession(k, g) /\ Outside(k, h)
  <2>1. conn[k] \in Connection
    BY <1>0 DEF LinkTypes
  <2>2. /\ conn'[k] \in Connection /\ conn'[k].from = conn[k].from /\ conn'[k].end = conn[k].end
        /\ conn[k].from = h => conn'[k].stray
        /\ conn[k].from # h => (conn'[k].stray <=> conn[k].stray)
    BY <1>2, <2>1 DEF Connection
  <2>3. Outside(k, h)
    BY DEF LeftAlone, Outside
  <2>4. CASE g = h
    <3>1. Outside(k, h)'
      BY <2>2, <2>3 DEF Outside, Astray, LeftAlone
    <3> QED
      BY <1>0, <2>2, <2>3, <2>4, <3>1 DEF NoSession, HalfOf, LinkInv, ClientDialled
  <2>5. CASE g # h
    BY <2>2, <2>3, <2>5 DEF NoSession, Same, Astray
  <2> QED
    BY <2>2, <2>3, <2>4, <2>5
<1>5. entry' = [entry EXCEPT ![h] = IF entry[h] \in K THEN None ELSE entry[h]]
  <2>1. \A k \in kept : k \in Conns /\ Outside(k, h)
    BY <1>0, <1>4
  <2>2. entry[h] \notin kept
    BY <2>1 DEF LinkInv, TableIsExact, Open, Dead, Outside
  <2> QED
    BY <1>0, <1>2, <2>2 DEF LinkTypes
<1>6. K \in SUBSET Conns /\ \A k \in Conns \ K : k \in kept
  OBVIOUS
<1> HIDE DEF K
<1> QED
  BY <1>1, <1>2, <1>3, <1>4, <1>5, <1>6, ClosingKeeps

\* What users and the sweep do.
LEMMA UserSteps ==
  ASSUME LinkInv, NEW h \in Hubs,
         \/ Sweep \/ EnsureSession(h) \/ Restart(h) \/ Switch(h) \/ ShowCode(h) \/ WindowEnds(h)
         \/ Pair(h) \/ Unpair(h)
  PROVE  LinkInv'
<1> USE LinkAssumption
<1>0. LinkTypes
  BY DEF LinkInv
<1>1. CASE Sweep
  BY <1>0, <1>1, DialKeeps DEF Sweep, Dial, LinkTypes, OtherTypes, Hubs
<1>2. CASE EnsureSession(h)
  <2>1. OtherTypes
    BY <1>0, <1>2 DEF EnsureSession, Dial, Trouble, LinkTypes, OtherTypes
  <2>2. /\ Free # {} /\ peer[h] \in Secrets
        /\ conn' = [conn EXCEPT ![Slot] = Dialled(h, peer[h], "challenge")]
        /\ UNCHANGED <<peer, entry, roster>>
    BY <1>0, <1>2 DEF EnsureSession, Dial, LinkTypes
  <2> QED
    BY <2>1, <2>2, DialKeeps
<1>3. CASE Restart(h) \/ Switch(h)
  <2>1. \/ StartsAgain(h, {})
        \/ StartsAgain(h, LeftAlone(h))
    BY <1>3 DEF Restart, Switch
  <2>2. {} \subseteq LeftAlone(h)
    OBVIOUS
  <2> QED
    BY <2>1, <2>2, StartingKeeps
<1>4. CASE ShowCode(h) \/ WindowEnds(h)
  BY <1>0, <1>4 DEF ShowCode, WindowEnds, Trouble, LinkInv, LinkTypes, TableIsExact, Open, Dead,
                    AcceptedArePaired, RosterIsLive, ClientDialled, Astray
<1>5. CASE Pair(h)
  <2>1. window[Them(h)] \in 1..MaxCode
    BY <1>0, <1>5, ThemIsHub DEF Pair, LinkTypes
  <2>2. Paired(window[Them(h)], h) \in Secrets
    BY <2>1 DEF Paired, Secrets
  <2>3. OtherTypes
    BY <1>0, <1>5 DEF Pair, Trouble, LinkTypes, OtherTypes
  <2>4. /\ Free # {}
        /\ conn' = [conn EXCEPT ![Slot] = Dialled(h, Paired(window[Them(h)], h), "answer")]
        /\ UNCHANGED <<peer, entry, roster>>
    BY <1>5 DEF Pair
  <2> QED
    BY <2>2, <2>3, <2>4, DialKeeps
<1>6. CASE Unpair(h)
  <2> DEFINE K == {k \in Conns : k = entry[h]}
  <2>1. OtherTypes
    BY <1>0, <1>6 DEF Unpair, Trouble, LinkTypes, OtherTypes
  <2>2. /\ conn' = [k \in Conns |-> IF k = entry[h] THEN Close(conn[k], h) ELSE conn[k]]
        /\ entry' = [entry EXCEPT ![h] = None] /\ roster' = roster \ {h}
        /\ peer' = [peer EXCEPT ![h] = None]
    BY <1>6 DEF Unpair
  <2>3. /\ \A k \in K : SameBut(conn[k], conn'[k], h, "closed")
        /\ \A k \in Conns \ K : conn'[k] \in Connection /\ \A g \in Hubs : NoSession(k, g)
    BY <1>0, <2>2, ClosedDown DEF LinkTypes, NoSession, Same, Astray
  <2>4. /\ entry' = [entry EXCEPT ![h] = IF entry[h] \in K THEN None ELSE entry[h]]
        /\ entry'[h] = None
    BY <1>0, <2>2 DEF LinkTypes
  <2>5. \A g \in Hubs \ {h} : peer'[g] = peer[g]
    BY <1>0, <2>2 DEF LinkTypes
  <2>6. K \in SUBSET Conns /\ conn' = [k \in Conns |-> conn'[k]]
    BY <2>2
  <2> HIDE DEF K
  <2> QED
    BY <2>1, <2>2, <2>3, <2>4, <2>5, <2>6, ClosingKeeps
<1> QED
  BY <1>1, <1>2, <1>3, <1>4, <1>5, <1>6

\* What the half that was dialled does.
LEMMA ServerSteps ==
  ASSUME LinkInv, NEW h \in Hubs, NEW k \in Conns,
         Accept(h, k) \/ Grant(h, k) \/ Refuse(h, k) \/ HangUp(h, k)
  PROVE  LinkInv'
<1> USE LinkAssumption
<1>0. LinkTypes /\ conn[k] \in Connection /\ conn[k].key \in Secrets
  BY DEF LinkInv, LinkTypes, Connection
<1>1. CASE Accept(h, k)
  <2>1. conn[k].in[h] # <<>> /\ conn[k].end[h] = "waiting" /\ peer[h] # None
    BY <1>0, <1>1 DEF Accept, Serves
  <2>2. SameBut(conn[k], Post(Turn(Take(conn[k], h), h, "open"), h, "ready"), h, "open")
    BY <1>0, <2>1, TurnedAndPosted DEF Ends, Frames
  <2>3. /\ Adopt(h, k, Post(Turn(Take(conn[k], h), h, "open"), h, "ready"))
        /\ UNCHANGED <<peer, roster, window, codes, troubles>>
    <3>1. Take(conn[k], h).in \in [Hubs -> Seq(Frames)]
      BY <1>0, <2>1, Taken DEF Connection
    <3> QED
      BY <1>1 DEF Accept
  <2>4. conn[k].from # h /\ ~Astray(h, k)
    BY <2>1 DEF LinkInv, ClientDialled, HalfOf, Astray
  <2> QED
    BY <2>1, <2>2, <2>3, <2>4, AdoptKeeps
<1>2. CASE Grant(h, k)
  <2>1. conn[k].in[h] # <<>> /\ conn[k].end[h] = "waiting" /\ conn[k].from # h /\ Outside(k, h)
    BY <1>2 DEF Grant, Serves, LinkInv, ClientDialled, HalfOf, Outside
  <2>2. SameBut(conn[k], Post(Turn(Take(conn[k], h), h, "paired"), h, "paired"), h, "paired")
    BY <1>0, <2>1, TurnedAndPosted DEF Ends, Frames
  <2>3. conn' = [conn EXCEPT ![k] = Post(Turn(Take(conn[k], h), h, "paired"), h, "paired")]
    BY <1>0, <1>2 DEF Grant, LinkTypes
  <2>4. /\ peer' = [peer EXCEPT ![h] = conn[k].key]
        /\ UNCHANGED <<entry, roster, window, codes, troubles>>
    BY <1>2 DEF Grant
  <2>5. OtherTypes /\ \A g \in Hubs : peer[g] # None => peer'[g] # None
    BY <1>0, <2>4 DEF LinkTypes, OtherTypes
  <2> QED
    BY <2>1, <2>2, <2>3, <2>4, <2>5, OneTurns DEF Ends
<1>3. CASE Refuse(h, k) \/ HangUp(h, k)
  <2>1. conn[k].end[h] \in {"waiting", "paired"} /\ Outside(k, h)
    BY <1>3 DEF Refuse, HangUp, Serves, Outside
  <2>2. /\ conn' = [conn EXCEPT ![k] = Close(conn[k], h)]
        /\ UNCHANGED <<peer, entry, roster, window, codes, troubles>>
    BY <1>0, <1>3 DEF Refuse, HangUp, LinkTypes
  <2>3. OtherTypes
    BY <1>0, <2>2 DEF LinkTypes, OtherTypes
  <2> QED
    BY <1>0, <2>1, <2>2, <2>3, ClosedDown, OneTurns DEF Ends
<1> QED
  BY <1>1, <1>2, <1>3
\* What the half that dialled does.
LEMMA ClientSteps ==
  ASSUME LinkInv, NEW h \in Hubs, NEW k \in Conns,
         \/ Answer(h, k) \/ OfferCode(h, k) \/ Ready(h, k) \/ ReadyAstray(h, k)
         \/ ReadyAndClosed(h, k) \/ PairingDone(h, k)
  PROVE  LinkInv'
<1> USE LinkAssumption
<1>0. LinkTypes /\ conn[k] \in Connection /\ conn[k].key \in Secrets
  BY DEF LinkInv, LinkTypes, Connection
<1>1. CASE Answer(h, k)
  <2>1. /\ conn[k].in[h] # <<>> /\ conn[k].end[h] = "challenge" /\ conn[k].from = h
        /\ Outside(k, h)
    BY <1>1 DEF Answer, Gets, LinkInv, ClientDialled, HalfOf, Outside
  <2>2. SameBut(conn[k], Post(Turn(Take(conn[k], h), h, "ready"), h, "auth"), h, "ready")
    BY <1>0, <2>1, TurnedAndPosted DEF Ends, Frames
  <2>3. /\ conn' = [conn EXCEPT ![k] = Post(Turn(Take(conn[k], h), h, "ready"), h, "auth")]
        /\ UNCHANGED <<peer, entry, roster, window, codes, troubles>>
    BY <1>0, <1>1 DEF Answer, LinkTypes
  <2>4. OtherTypes
    BY <1>0, <2>3 DEF LinkTypes, OtherTypes
  <2> QED
    BY <2>1, <2>2, <2>3, <2>4, OneTurns DEF Ends
<1>2. CASE OfferCode(h, k)
  <2>1. /\ conn[k].in[h] # <<>> /\ conn[k].end[h] = "answer" /\ conn[k].from = h
        /\ Outside(k, h)
    BY <1>2 DEF OfferCode, Gets, LinkInv, ClientDialled, HalfOf, Outside
  <2>2. SameBut(conn[k], Post(Take(conn[k], h), h, "pair"), h, "answer")
    <3>1. "pair" \in Frames
      BY DEF Frames
    <3>2. conn[k].end = [conn[k].end EXCEPT ![h] = "answer"]
      BY <1>0, <2>1 DEF Connection
    <3> QED
      BY <1>0, <2>1, <3>1, <3>2, Taken, Posted DEF SameBut
  <2>3. /\ conn' = [conn EXCEPT ![k] = Post(Take(conn[k], h), h, "pair")]
        /\ UNCHANGED <<peer, entry, roster, window, codes, troubles>>
    BY <1>0, <1>2 DEF OfferCode, LinkTypes
  <2>4. OtherTypes
    BY <1>0, <2>3 DEF LinkTypes, OtherTypes
  <2> QED
    BY <2>1, <2>2, <2>3, <2>4, OneTurns DEF Ends
<1>3. CASE Ready(h, k)
  <2>1. conn[k].in[h] # <<>> /\ conn[k].end[h] = "ready" /\ conn[k].from = h /\ ~Astray(h, k)
    BY <1>3 DEF Ready, Gets, LinkInv, ClientDialled, HalfOf
  <2>2. SameBut(conn[k], Turn(Take(conn[k], h), h, "open"), h, "open")
    BY <1>0, <2>1, TakenAndTurned DEF Ends
  <2>3. /\ Adopt(h, k, Turn(Take(conn[k], h), h, "open"))
        /\ UNCHANGED <<peer, roster, window, codes, troubles>>
    BY <1>3 DEF Ready
  <2> QED
    BY <2>1, <2>2, <2>3, AdoptKeeps
<1>4. CASE ReadyAndClosed(h, k) /\ ~Astray(h, k)
  <2>1. conn[k].end[h] = "ready" /\ conn[k].from = h /\ ~Astray(h, k)
    BY <1>4 DEF ReadyAndClosed, Gets, LinkInv, ClientDialled, HalfOf
  <2>2. SameBut(conn[k], Turn(Hang(conn[k], h), h, "dead"), h, "dead")
    <3>1. "dead" \in Ends /\ SameBut(conn[k], Hang(conn[k], h), h, "closed")
      BY <1>0, Hung DEF Ends
    <3>2. SameBut(Hang(conn[k], h), Turn(Hang(conn[k], h), h, "dead"), h, "dead")
      BY <3>1, Turned DEF SameBut
    <3>3. conn[k].stray = FALSE
      BY <1>0, <2>1 DEF Connection, Astray
    <3>4. [[conn[k].end EXCEPT ![h] = "closed"] EXCEPT ![h] = "dead"]
            = [conn[k].end EXCEPT ![h] = "dead"]
      BY <1>0 DEF Connection
    <3> QED
      BY <3>1, <3>2, <3>3, <3>4 DEF SameBut, Connection
  <2>3. /\ Adopt(h, k, Turn(Hang(conn[k], h), h, "dead"))
        /\ UNCHANGED <<peer, roster, window, codes, troubles>>
    BY <1>4 DEF ReadyAndClosed
  <2> QED
    BY <2>1, <2>2, <2>3, AdoptKeeps
<1>6. CASE ReadyAstray(h, k)
  <2>1. conn[k].in[h] # <<>> /\ conn[k].end[h] = "ready" /\ Astray(h, k)
    BY <1>6 DEF ReadyAstray, Gets
  <2>2. SameBut(conn[k], Turn(Take(conn[k], h), h, "open"), h, "open")
    BY <1>0, <2>1, TakenAndTurned DEF Ends
  <2>3. /\ conn' = [conn EXCEPT ![k] = Turn(Take(conn[k], h), h, "open")]
        /\ UNCHANGED <<peer, entry, roster, window, codes, troubles>>
    BY <1>0, <1>6 DEF ReadyAstray, LinkTypes
  <2>4. OtherTypes /\ Outside(k, h)
    BY <1>0, <2>1, <2>3 DEF LinkTypes, OtherTypes, Outside
  <2> QED
    BY <2>1, <2>2, <2>3, <2>4, OneTurns DEF Ends
<1>7. CASE ReadyAndClosed(h, k) /\ Astray(h, k)
  <2>1. conn[k].end[h] = "ready" /\ Outside(k, h)
    BY <1>7 DEF ReadyAndClosed, Gets, Outside
  <2>2. /\ conn' = [conn EXCEPT ![k] = Hang(conn[k], h)]
        /\ UNCHANGED <<peer, entry, roster, window, codes, troubles>>
    BY <1>0, <1>7 DEF ReadyAndClosed, LinkTypes
  <2>3. OtherTypes
    BY <1>0, <2>2 DEF LinkTypes, OtherTypes
  <2> QED
    BY <1>0, <2>1, <2>2, <2>3, Hung, OneTurns DEF Ends
<1>5. CASE PairingDone(h, k)
  <2>1. /\ conn[k].end[h] = "answer" /\ peer' = [peer EXCEPT ![h] = conn[k].key]
        /\ Outside(k, h)
        /\ UNCHANGED <<entry, roster, window, codes, troubles>>
    BY <1>5 DEF PairingDone, Gets, Outside
  <2>2. OtherTypes /\ \A g \in Hubs : peer[g] # None => peer'[g] # None
    BY <1>0, <2>1 DEF LinkTypes, OtherTypes
  <2>3. SameBut(conn[k], Close(conn[k], h), h, "closed")
    BY <1>0, ClosedDown
  <2>4. CASE conn' = [conn EXCEPT ![k] = Close(conn[k], h)]
    BY <2>1, <2>2, <2>3, <2>4, OneTurns DEF Ends
  <2>5. CASE /\ Free # {}
             /\ conn' = [conn EXCEPT ![k] = Close(conn[k], h),
                                     ![Slot] = Dialled(h, conn[k].key, "challenge")]
    <3>1. Slot # k
      BY <2>1, <2>5, SlotIsFree
    <3>2. /\ conn' = [j \in Conns |-> conn'[j]]
          /\ conn'[k] = Close(conn[k], h)
          /\ conn'[Slot] = Dialled(h, conn[k].key, "challenge")
          /\ \A j \in Conns \ {k, Slot} : conn'[j] = conn[j]
      BY <1>0, <2>5, <3>1, SlotIsFree DEF LinkTypes
    <3>3. ASSUME NEW j \in Conns, NEW g \in Hubs PROVE conn'[j] \in Connection /\ NoSession(j, g)
      <4>1. CASE j = k
        <5>1. conn[k].end \in [Hubs -> Ends]
          BY <1>0 DEF Connection
        <5> QED
          BY <2>1, <2>3, <3>2, <4>1, <5>1 DEF SameBut, NoSession, Same, Outside, Astray, HalfOf
      <4>2. CASE j = Slot
        <5>1. /\ conn'[j] \in Connection /\ conn'[j].from = h
              /\ conn'[j].end[g] = IF g = h THEN "challenge" ELSE "waiting"
          BY <1>0, <3>2, <4>2, FreshConnection
        <5> QED
          BY <2>5, <4>2, <5>1, SlotIsFree DEF NoSession, Outside, HalfOf
      <4>3. CASE j # k /\ j # Slot
        BY <1>0, <3>2, <4>3 DEF LinkTypes, NoSession, Same, Astray
      <4> QED
        BY <4>1, <4>2, <4>3
    <3>4. roster \subseteq Hubs /\ \A g \in roster : entry[g] # None
      BY DEF LinkInv, LinkTypes, RosterIsLive
    <3> QED
      BY <2>1, <2>2, <3>2, <3>3, <3>4, NoSessionKeeps
  <2> QED
    BY <1>0, <1>5, <2>4, <2>5 DEF PairingDone, LinkTypes
<1> QED
  BY <1>1, <1>2, <1>3, <1>4, <1>5, <1>6, <1>7

\* What both halves do, and the network.
LEMMA SessionSteps ==
  ASSUME LinkInv, NEW h \in Hubs, NEW k \in Conns,
         Hear(h, k) \/ Closed(h, k) \/ Timeout(h, k) \/ Drop(k)
  PROVE  LinkInv'
<1> USE LinkAssumption
<1>0. LinkTypes /\ conn[k] \in Connection
  BY DEF LinkInv, LinkTypes
<1>1. CASE Hear(h, k)
  <2>1. conn[k].in[h] # <<>> /\ conn[k].end[h] = "open"
    BY <1>1 DEF Hear, Gets
  <2>2. /\ conn' = [conn EXCEPT ![k] = Take(conn[k], h)]
        /\ roster' = IF Astray(h, k) THEN roster ELSE roster \cup {h}
        /\ UNCHANGED <<peer, entry, window, codes, troubles>>
    BY <1>0, <1>1 DEF Hear, LinkTypes
  <2>3. Astray(h, k) \/ entry[h] = k
    BY <2>1 DEF LinkInv, TableIsExact, Open
  <2>4. /\ conn' = [j \in Conns |-> conn'[j]] /\ conn'[k] = Take(conn[k], h)
        /\ \A j \in Conns \ {k} : conn'[j] = conn[j]
    BY <1>0, <2>2 DEF LinkTypes
  <2>5. ASSUME NEW j \in Conns, NEW g \in Hubs PROVE conn'[j] \in Connection /\ NoSession(j, g)
    BY <1>0, <2>1, <2>4, Taken DEF LinkTypes, NoSession, Same, Astray
  <2>6. OtherTypes /\ roster' \subseteq Hubs /\ \A g \in roster' : entry[g] # None
    BY <1>0, <2>2, <2>3, LinkAssumption DEF LinkInv, LinkTypes, OtherTypes, RosterIsLive
  <2> QED
    BY <2>2, <2>4, <2>5, <2>6, NoSessionKeeps
<1>2. CASE Closed(h, k)
  <2>1. /\ conn' = [conn EXCEPT ![k] = Hang(conn[k], h)] /\ Forget(h, k)
        /\ UNCHANGED <<peer, window, codes, troubles>>
    BY <1>0, <1>2 DEF Closed, LinkTypes
  <2>2. /\ conn' = [j \in Conns |-> conn'[j]]
        /\ \A j \in {k} : SameBut(conn[j], conn'[j], h, "closed")
        /\ \A j \in Conns \ {k} : conn'[j] \in Connection /\ \A g \in Hubs : NoSession(j, g)
    BY <1>0, <2>1, Hung DEF LinkTypes, NoSession, Same, Astray
  <2>3. /\ entry' = [entry EXCEPT ![h] = IF entry[h] \in {k} THEN None ELSE entry[h]]
        /\ roster' \subseteq roster /\ (entry[h] \in {k} => h \notin roster')
    BY <1>0, <2>1 DEF Forget, LinkTypes
  <2>4. OtherTypes /\ {k} \in SUBSET Conns
    BY <1>0, <2>1 DEF LinkTypes, OtherTypes
  <2> QED
    BY <2>1, <2>2, <2>3, <2>4, ClosingKeeps
<1>3. CASE Timeout(h, k)
  <2>1. /\ conn[k].end[h] \in {"challenge", "ready", "answer", "waiting"}
        /\ conn' = [conn EXCEPT ![k] = Close(conn[k], h)]
        /\ UNCHANGED <<peer, entry, roster, window, codes>> /\ troubles' \in 0..MaxTrouble
    BY <1>0, <1>3 DEF Timeout, Trouble, LinkTypes
  <2>2. OtherTypes /\ Outside(k, h)
    BY <1>0, <2>1 DEF LinkTypes, OtherTypes, Outside
  <2> QED
    BY <1>0, <2>1, <2>2, ClosedDown, OneTurns DEF Ends
<1>4. CASE Drop(k)
  <2> DEFINE in == [g \in Hubs |->
                      IF conn[k].end[g] \in {"closed", "dead"} THEN <<>> ELSE <<"close">>]
  <2>1. /\ conn' = [conn EXCEPT ![k] = [conn[k] EXCEPT !.in = in]]
        /\ UNCHANGED <<peer, entry, roster, window, codes>> /\ troubles' \in 0..MaxTrouble
    BY <1>0, <1>4 DEF Drop, Trouble, LinkTypes
  <2>2. in \in [Hubs -> Seq(Frames)]
    <3>1. <<>> \in Seq(Frames) /\ <<"close">> \in Seq(Frames)
      BY DEF Frames
    <3> QED
      BY <3>1
  <2> HIDE DEF in
  <2>3. /\ [conn[k] EXCEPT !.in = in] \in Connection
        /\ [conn[k] EXCEPT !.in = in].end = conn[k].end
        /\ [conn[k] EXCEPT !.in = in].from = conn[k].from
        /\ [conn[k] EXCEPT !.in = in].stray = conn[k].stray
    BY <1>0, <2>2 DEF Connection
  <2>4. /\ conn' = [j \in Conns |-> conn'[j]] /\ conn'[k] = [conn[k] EXCEPT !.in = in]
        /\ \A j \in Conns \ {k} : conn'[j] = conn[j]
    BY <1>0, <2>1 DEF LinkTypes
  <2>5. ASSUME NEW j \in Conns, NEW g \in Hubs PROVE conn'[j] \in Connection /\ NoSession(j, g)
    BY <1>0, <2>3, <2>4 DEF LinkTypes, NoSession, Same, Astray
  <2>6. OtherTypes /\ roster' \subseteq Hubs /\ \A g \in roster' : entry[g] # None
    BY <1>0, <2>1 DEF LinkInv, LinkTypes, OtherTypes, RosterIsLive
  <2> QED
    BY <2>1, <2>4, <2>5, <2>6, NoSessionKeeps
<1> QED
  BY <1>1, <1>2, <1>3, <1>4

-----------------------------------------------------------------------------
\* The strengthened invariant of the sessions holds in every reachable state.
THEOREM LinkInvariant == Spec => []LinkInv
<1>1. Init => LinkInv
  <2> SUFFICES ASSUME Init PROVE LinkInv
    OBVIOUS
  <2> USE LinkAssumption DEF Init
  <2>1. Paired(0, Dialer) \in Secrets
    BY DEF Paired, Secrets, Hubs
  <2>2. Unused \in Connection /\ \A h \in Hubs : Unused.end[h] = "closed"
    <3>1. <<>> \in Seq(Frames) /\ Dialer \in Hubs
      BY DEF Hubs
    <3> QED
      BY <2>1, <3>1 DEF Unused, Connection, Ends
  <2>3. LinkTypes
    BY <2>1, <2>2 DEF LinkTypes
  <2>4. TableIsExact /\ AcceptedArePaired /\ RosterIsLive /\ ClientDialled
    BY <2>2 DEF TableIsExact, AcceptedArePaired, RosterIsLive, ClientDialled, HalfOf, Open, Dead
  <2> QED
    BY <2>3, <2>4 DEF LinkInv
<1>2. LinkInv /\ [Next]_vars => LinkInv'
  <2> SUFFICES ASSUME LinkInv, [Next]_vars PROVE LinkInv'
    OBVIOUS
  <2>1. CASE UNCHANGED vars
    BY <2>1 DEF vars, LinkInv, LinkTypes, TableIsExact, AcceptedArePaired, RosterIsLive,
                ClientDialled, Open, Dead, Astray
  <2>2. Dialer \in Hubs
    BY DEF Hubs
  <2> QED
    BY <2>1, <2>2, UserSteps, ServerSteps, ClientSteps, SessionSteps DEF Next, Deliver
<1> QED
  BY <1>1, <1>2, PTL DEF Spec

\* The table of sessions names exactly the sessions there are, nobody is served whom
\* the hub is not paired with, and a roster is shown only beside a session: for any
\* number of dials, pairings, unpairings, restarts and losses, in any order.
THEOREM SessionsAreAlwaysSound == Spec => []SessionsAreSound
<1>1. LinkInv => SessionsAreSound
  BY DEF LinkInv, LinkTypes, Connection, Ends, TypeOK, SessionsAreSound
<1> QED
  BY <1>1, LinkInvariant, PTL

-----------------------------------------------------------------------------
(* What two hubs agree on (FleetSync).                                     *)

\* What g has sent last is on its way to h as the last, or h has it, or better.
Reaches(g, h) ==
  IF wire[g][h] = <<>> THEN \A e \in Sync!Entries \ removed[h] : entries[h][e] >= lastHash[g][e]
  ELSE wire[g][h][Len(wire[g][h])] = lastHash[g]

SyncTypes ==
  /\ entries \in [Hubs -> Sync!Payload]
  /\ lastHash \in [Hubs -> Sync!Payload \cup {Sync!Never}]
  /\ timer \subseteq Hubs /\ session \subseteq {Hubs}
  /\ wire \in [Hubs -> [Hubs -> Seq(Sync!Payload)]]
  /\ stamps \subseteq Sync!Stamps
  /\ removed \in [Hubs -> SUBSET StackIds]

\* Without a session nothing is under way; with one, what a hub has is what it has
\* sent, or a push is pending.
Pushed ==
  /\ \A g, h \in Hubs : (g = h \/ session = {}) => wire[g][h] = <<>>
  /\ session # {} => \A g \in Hubs : /\ lastHash[g] \in Sync!Payload
                                     /\ g \in timer \/ lastHash[g] = entries[g]
                                     /\ \A h \in Hubs : g # h => Reaches(g, h)

SyncInv == SyncTypes /\ Pushed

LEMMA Two == Hubs = {Dialer, Other} /\ Dialer # Other
BY LinkAssumption DEF Hubs

LEMMA TwoHubs ==
  /\ \A g, h \in Hubs : {g, h} \in {Hubs} <=> g # h
  /\ \A l \in {Hubs} : l = Hubs
  /\ \A g, h, k \in Hubs : g # h => k = g \/ k = h
  /\ \A g \in Hubs : \E h \in Hubs : g # h
BY Two

LEMMA PeersOf ==
  ASSUME session \subseteq {Hubs}, NEW h \in Hubs
  PROVE  /\ session = {} => Sync!Peers(h) = {}
         /\ session # {} => session = {Hubs} /\ \A g \in Hubs : g \in Sync!Peers(h) <=> g # h
BY Two DEF Sync!Peers

LEMMA SyncNumbers ==
  /\ MaxStamp \in Nat /\ 0 \in 0..MaxStamp
  /\ Sync!Stamps = 1..MaxStamp /\ Sync!Stamps \subseteq 0..MaxStamp
BY SyncAssumed DEF Sync!SyncAssumption, Sync!Stamps

\* A payload added to what is under way.
LEMMA OneOnTheWire ==
  ASSUME NEW q \in Seq(Sync!Payload), NEW p \in Sync!Payload
  PROVE  /\ Append(q, p) \in Seq(Sync!Payload) /\ Append(q, p) # <<>>
         /\ Append(q, p)[Len(Append(q, p))] = p
BY AppendProperties

\* The first one is taken off.
LEMMA OneOffTheWire ==
  ASSUME NEW q \in Seq(Sync!Payload), q # <<>>
  PROVE  /\ Head(q) \in Sync!Payload /\ Tail(q) \in Seq(Sync!Payload)
         /\ Tail(q) = <<>> => Head(q) = q[Len(q)]
         /\ Tail(q) # <<>> => Tail(q)[Len(Tail(q))] = q[Len(q)]
<1>1. Len(q) \in Nat /\ Len(q) > 0 /\ Head(q) = q[1] /\ q[1] \in Sync!Payload
  BY EmptySeq, ElementOfSeq
<1>2. /\ Tail(q) \in Seq(Sync!Payload) /\ Len(Tail(q)) = Len(q) - 1
      /\ \A i \in 1..Len(Tail(q)) : Tail(q)[i] = q[i + 1]
  BY <1>1
<1>3. Tail(q) = <<>> => Len(q) = 1
  <2>1. Tail(q) = <<>> => Len(Tail(q)) = 0
    BY <1>2, EmptySeq
  <2> QED
    BY <1>1, <1>2, <2>1
<1>4. Tail(q) # <<>> => Len(Tail(q)) \in 1..Len(Tail(q))
  BY <1>1, <1>2, EmptySeq
<1> QED
  BY <1>1, <1>2, <1>3, <1>4

\* pushPrefs: what has moved since it was sent last goes to every peer.
LEMMA PushAllEffect ==
  ASSUME NEW h \in Hubs, NEW p \in Sync!Payload, NEW w \in [Hubs -> [Hubs -> Seq(Sync!Payload)]],
         session \subseteq {Hubs}
  PROVE  /\ Sync!PushAll(h, p, w) \in [Hubs -> [Hubs -> Seq(Sync!Payload)]]
         /\ (session = {} \/ p = lastHash[h]) => Sync!PushAll(h, p, w) = w
         /\ Sync!PushAll(h, p, w)[h][h] = w[h][h]
<1>1. CASE p = lastHash[h]
  BY <1>1 DEF Sync!PushAll
<1>2. CASE p # lastHash[h]
  <2> DEFINE row == [g \in Hubs |-> IF g \in Sync!Peers(h) THEN Append(w[h][g], p) ELSE w[h][g]]
  <2>1. Sync!PushAll(h, p, w) = [w EXCEPT ![h] = row]
    BY <1>2 DEF Sync!PushAll
  <2>2. row \in [Hubs -> Seq(Sync!Payload)]
    BY OneOnTheWire
  <2>3. session = {} => row = w[h]
    BY PeersOf
  <2>4. row[h] = w[h][h]
    BY PeersOf
  <2> HIDE DEF row
  <2> QED
    BY <1>2, <2>1, <2>2, <2>3, <2>4
<1> QED
  BY <1>1, <1>2

LEMMA PushAllReaches ==
  ASSUME NEW h \in Hubs, NEW p \in Sync!Payload, NEW w \in [Hubs -> [Hubs -> Seq(Sync!Payload)]],
         session \subseteq {Hubs}, session # {}, p # lastHash[h], NEW g \in Hubs, g # h
  PROVE  Sync!PushAll(h, p, w)[h][g] = Append(w[h][g], p)
<1> DEFINE row == [k \in Hubs |-> IF k \in Sync!Peers(h) THEN Append(w[h][k], p) ELSE w[h][k]]
<1>1. Sync!PushAll(h, p, w) = [w EXCEPT ![h] = row]
  BY DEF Sync!PushAll
<1>2. g \in Sync!Peers(h)
  BY PeersOf
<1>3. row[g] = Append(w[h][g], p)
  BY <1>2
<1> HIDE DEF row
<1> QED
  BY <1>1, <1>3

LEMMA PushAllElsewhere ==
  ASSUME NEW h \in Hubs, NEW p \in Sync!Payload, NEW w \in [Hubs -> [Hubs -> Seq(Sync!Payload)]],
         NEW g \in Hubs, g # h
  PROVE  Sync!PushAll(h, p, w)[g] = w[g]
BY DEF Sync!PushAll

LEMMA SyncStart == ASSUME Sync!Init PROVE SyncInv
<1>1. Sync!Nothing \in Sync!Payload /\ <<>> \in Seq(Sync!Payload)
  BY SyncNumbers DEF Sync!Nothing, Sync!Payload
<1> QED
  BY <1>1 DEF Sync!Init, SyncInv, SyncTypes, Pushed

\* A change of the user's: it is pending, and it takes nothing back but what the
\* user has removed.
LEMMA SyncChangeKeeps ==
  ASSUME SyncInv, NEW h \in Hubs, NEW e \in Sync!Entries, NEW s \in 0..MaxStamp,
         entries' = [entries EXCEPT ![h][e] = s], timer' = timer \cup {h},
         removed' \in [Hubs -> SUBSET StackIds], \A g \in Hubs : removed[g] \subseteq removed'[g],
         s >= entries[h][e] \/ e \in removed'[h],
         stamps' \subseteq Sync!Stamps, UNCHANGED <<lastHash, session, wire>>
  PROVE  SyncInv'
<1>1. /\ entries \in [Hubs -> Sync!Payload] /\ entries[h] \in Sync!Payload
      /\ lastHash \in [Hubs -> Sync!Payload \cup {Sync!Never}]
  BY DEF SyncInv, SyncTypes
<1>2. PICK new : new = [entries[h] EXCEPT ![e] = s]
  OBVIOUS
<1>3. new \in Sync!Payload /\ new[e] = s /\ \A d \in Sync!Entries \ {e} : new[d] = entries[h][d]
  BY <1>1, <1>2 DEF Sync!Payload
<1>4. entries' = [entries EXCEPT ![h] = new]
  BY <1>1, <1>2
<1>5. /\ entries' \in [Hubs -> Sync!Payload] /\ entries'[h] = new
      /\ \A g \in Hubs \ {h} : entries'[g] = entries[g]
  BY <1>1, <1>3, <1>4
<1>6. SyncTypes'
  BY <1>5 DEF SyncInv, SyncTypes
<1>7. ASSUME session # {}, NEW g \in Hubs, NEW k \in Hubs, g # k PROVE Reaches(g, k)'
  <2>1. Reaches(g, k) /\ lastHash[g] \in Sync!Payload
    BY <1>7 DEF SyncInv, Pushed
  <2>2. CASE k # h \/ wire[g][k] # <<>>
    BY <1>5, <2>1, <2>2 DEF Reaches
  <2>3. CASE k = h /\ wire[g][k] = <<>>
    <3>1. ASSUME NEW d \in Sync!Entries, d \notin removed'[h] PROVE new[d] >= lastHash[g][d]
      <4>0. d \notin removed[h] /\ entries[h][d] \in Int
        BY <1>1, <3>1, SyncNumbers DEF Sync!Payload
      <4>1. entries[h][d] >= lastHash[g][d] /\ new[d] >= entries[h][d]
        BY <1>3, <2>1, <2>3, <3>1, <4>0 DEF Reaches
      <4>2. new[d] \in Int /\ entries[h][d] \in Int /\ lastHash[g][d] \in Int
        BY <1>1, <1>3, <2>1, SyncNumbers DEF Sync!Payload
      <4> QED
        BY <4>1, <4>2
    <3> QED
      BY <1>5, <2>3, <3>1 DEF Reaches
  <2> QED
    BY <2>2, <2>3
<1>8. Pushed'
  BY <1>5, <1>7 DEF SyncInv, Pushed
<1> QED
  BY <1>6, <1>8 DEF SyncInv

LEMMA SyncEditKeeps ==
  ASSUME ~Skewed, SyncInv, NEW h \in Hubs, NEW e \in Sync!Entries, Sync!Edit(h, e)
  PROVE  SyncInv'
<1>1. PICK s \in Sync!Stamps \ stamps : /\ s > entries[h][e]
                                   /\ entries' = [entries EXCEPT ![h][e] = s]
                                   /\ stamps' = stamps \cup {s}
  BY DEF Sync!Edit
<1>2. entries[h][e] \in Int /\ s \in 0..MaxStamp /\ s >= entries[h][e]
  BY <1>1, SyncNumbers DEF SyncInv, SyncTypes, Sync!Payload
<1>3. timer' = timer \cup {h} /\ UNCHANGED <<lastHash, session, wire, removed>>
  BY DEF Sync!Edit, Sync!NoteChange
<1>4. stamps' \subseteq Sync!Stamps /\ removed \in [Hubs -> SUBSET StackIds]
  BY <1>1 DEF SyncInv, SyncTypes
<1> QED
  BY <1>1, <1>2, <1>3, <1>4, SyncChangeKeeps

LEMMA SyncRemoveStackKeeps ==
  ASSUME SyncInv, NEW h \in Hubs, NEW e \in StackIds, Sync!RemoveStack(h, e)
  PROVE  SyncInv'
<1>1. /\ entries' = [entries EXCEPT ![h][e] = 0]
      /\ removed' = [removed EXCEPT ![h] = removed[h] \cup {e}]
      /\ timer' = timer \cup {h} /\ UNCHANGED <<lastHash, session, wire, stamps>>
  BY DEF Sync!RemoveStack, Sync!NoteChange
<1>2. removed \in [Hubs -> SUBSET StackIds] /\ stamps \subseteq Sync!Stamps /\ e \in Sync!Entries
  BY DEF SyncInv, SyncTypes, Sync!Entries
<1>3. /\ removed' \in [Hubs -> SUBSET StackIds] /\ e \in removed'[h]
      /\ \A g \in Hubs : removed[g] \subseteq removed'[g]
  BY <1>1, <1>2
<1> QED
  BY <1>1, <1>2, <1>3, SyncNumbers, SyncChangeKeeps

LEMMA SyncTimerKeeps == ASSUME SyncInv, NEW h \in Hubs, Sync!TimerFires(h) PROVE SyncInv'
<1>1. PICK p : p = entries[h]
  OBVIOUS
<1>2. /\ timer' = timer \ {h} /\ wire' = Sync!PushAll(h, p, wire)
      /\ lastHash' = [lastHash EXCEPT ![h] = p]
      /\ UNCHANGED <<entries, session, stamps, removed>>
  BY <1>1 DEF Sync!TimerFires
<1>3. /\ p \in Sync!Payload /\ session \subseteq {Hubs}
      /\ wire \in [Hubs -> [Hubs -> Seq(Sync!Payload)]]
      /\ lastHash \in [Hubs -> Sync!Payload \cup {Sync!Never}]
  BY <1>1 DEF SyncInv, SyncTypes
<1>4. /\ wire' \in [Hubs -> [Hubs -> Seq(Sync!Payload)]]
      /\ (session = {} \/ p = lastHash[h]) => wire' = wire
      /\ wire'[h][h] = wire[h][h]
      /\ (session # {} /\ p # lastHash[h]) =>
           /\ \A g \in Hubs : g # h => wire'[h][g] = Append(wire[h][g], p)
           /\ \A g \in Hubs \ {h} : wire'[g] = wire[g]
  <2>1. PICK w \in [Hubs -> [Hubs -> Seq(Sync!Payload)]] : w = wire
    BY <1>3
  <2>2. wire' = Sync!PushAll(h, p, w)
    BY <1>2, <2>1
  <2>3. Sync!PushAll(h, p, w) \in [Hubs -> [Hubs -> Seq(Sync!Payload)]]
    BY <1>3, PushAllEffect
  <2>4. (session = {} \/ p = lastHash[h]) => Sync!PushAll(h, p, w) = w
    BY <1>3, PushAllEffect
  <2>5. Sync!PushAll(h, p, w)[h][h] = w[h][h]
    BY <1>3, PushAllEffect
  <2>6. (session # {} /\ p # lastHash[h]) =>
              /\ \A g \in Hubs : g # h => Sync!PushAll(h, p, w)[h][g] = Append(w[h][g], p)
              /\ \A g \in Hubs \ {h} : Sync!PushAll(h, p, w)[g] = w[g]
    <3>1. ASSUME session # {}, p # lastHash[h], NEW g \in Hubs, g # h
          PROVE  Sync!PushAll(h, p, w)[h][g] = Append(w[h][g], p)
      BY <1>3, <3>1, PushAllReaches
    <3>2. ASSUME NEW g \in Hubs, g # h PROVE Sync!PushAll(h, p, w)[g] = w[g]
      BY <1>3, <3>2, PushAllElsewhere
    <3> QED
      BY <3>1, <3>2
  <2> QED
    BY <1>3, <2>1, <2>2, <2>3, <2>4, <2>5, <2>6
<1>5. lastHash' \in [Hubs -> Sync!Payload \cup {Sync!Never}] /\ lastHash'[h] = p
      /\ \A g \in Hubs \ {h} : lastHash'[g] = lastHash[g]
  BY <1>2, <1>3
<1>6. SyncTypes'
  BY <1>2, <1>4, <1>5 DEF SyncInv, SyncTypes
<1>7. ASSUME session # {}, NEW g \in Hubs, NEW k \in Hubs, g # k PROVE Reaches(g, k)'
  <2>1. Reaches(g, k)
    BY <1>7 DEF SyncInv, Pushed
  <2>2. CASE g # h \/ p = lastHash[h]
    BY <1>2, <1>4, <1>5, <1>7, <2>1, <2>2 DEF Reaches
  <2>3. CASE g = h /\ p # lastHash[h]
    <3>1. wire'[g][k] = Append(wire[g][k], p) /\ wire[g][k] \in Seq(Sync!Payload)
      BY <1>3, <1>4, <1>7, <2>3
    <3> QED
      <4>1. PICK q : q = wire'[g][k]
        OBVIOUS
      <4>2. q # <<>> /\ q[Len(q)] = p
        BY <1>3, <3>1, <4>1, OneOnTheWire
      <4> QED
        BY <1>5, <2>3, <4>1, <4>2 DEF Reaches
  <2> QED
    BY <2>2, <2>3
<1>8. Pushed'
  <2>1. \A g, k \in Hubs : (g = k \/ session' = {}) => wire'[g][k] = <<>>
    <3>1. \A g, k \in Hubs : (g = k \/ session = {}) => wire[g][k] = <<>>
      BY DEF SyncInv, Pushed
    <3>2. session' = session
      BY <1>2
    <3>3. \A g \in Hubs : wire'[g][g] = wire[g][g]
      BY <1>4
    <3> QED
      BY <1>4, <3>1, <3>2, <3>3
  <2>2. session # {} => \A g \in Hubs : /\ lastHash'[g] \in Sync!Payload
                                        /\ g \in timer' \/ lastHash'[g] = entries'[g]
    BY <1>1, <1>2, <1>3, <1>5 DEF SyncInv, Pushed
  <2> QED
    BY <1>2, <1>7, <2>1, <2>2 DEF Pushed
<1> QED
  BY <1>6, <1>8 DEF SyncInv

LEMMA SyncOpenKeeps ==
  ASSUME SyncInv, NEW g \in Hubs, NEW h \in Hubs, Sync!Open(g, h)
  PROVE  SyncInv'
<1>1. PICK p, r : p = entries[g] /\ r = entries[h]
  OBVIOUS
<1>2. /\ g # h /\ session = {} /\ session' = {Hubs}
  <2>1. {g, h} \in {Hubs} \ session /\ session' = session \cup {{g, h}} /\ session \subseteq {Hubs}
    BY DEF Sync!Open, SyncInv, SyncTypes
  <2>2. {g, h} = Hubs /\ g # h
    BY <2>1, TwoHubs
  <2> QED
    BY <2>1, <2>2, Two
<1>3. /\ wire' = [[wire EXCEPT ![h][g] = Append(@, r)] EXCEPT ![g][h] = Append(@, p)]
      /\ lastHash' = [lastHash EXCEPT ![g] = p, ![h] = r]
      /\ UNCHANGED <<entries, timer, stamps, removed>>
  BY <1>1 DEF Sync!Open, Sync!PushTo
<1>4. /\ p \in Sync!Payload /\ r \in Sync!Payload /\ wire \in [Hubs -> [Hubs -> Seq(Sync!Payload)]]
      /\ lastHash \in [Hubs -> Sync!Payload \cup {Sync!Never}]
      /\ wire[g][h] \in Seq(Sync!Payload) /\ wire[h][g] \in Seq(Sync!Payload)
  BY <1>1 DEF SyncInv, SyncTypes
<1>5. PICK there, back : there = Append(wire[g][h], p) /\ back = Append(wire[h][g], r)
  OBVIOUS
<1>6. /\ there \in Seq(Sync!Payload) /\ there # <<>> /\ there[Len(there)] = p
      /\ back \in Seq(Sync!Payload) /\ back # <<>> /\ back[Len(back)] = r
  BY <1>4, <1>5, OneOnTheWire
<1>7. /\ wire' \in [Hubs -> [Hubs -> Seq(Sync!Payload)]]
      /\ wire'[g][h] = there /\ wire'[h][g] = back
      /\ wire'[g][g] = wire[g][g] /\ wire'[h][h] = wire[h][h]
  <2>1. wire' = [wire EXCEPT ![h] = [wire[h] EXCEPT ![g] = back],
                             ![g] = [wire[g] EXCEPT ![h] = there]]
    BY <1>2, <1>3, <1>4, <1>5
  <2>2. PICK a, b : a = [wire[h] EXCEPT ![g] = back] /\ b = [wire[g] EXCEPT ![h] = there]
    OBVIOUS
  <2>3. /\ a \in [Hubs -> Seq(Sync!Payload)] /\ a[g] = back /\ a[h] = wire[h][h]
        /\ b \in [Hubs -> Seq(Sync!Payload)] /\ b[h] = there /\ b[g] = wire[g][g]
    BY <1>2, <1>4, <1>6, <2>2
  <2>4. wire' = [wire EXCEPT ![h] = a, ![g] = b]
    BY <2>1, <2>2
  <2> QED
    BY <1>2, <1>4, <2>3, <2>4
<1>8. /\ lastHash' \in [Hubs -> Sync!Payload \cup {Sync!Never}]
      /\ lastHash'[g] = p /\ lastHash'[h] = r
  BY <1>2, <1>3, <1>4
<1>9. SyncTypes'
  BY <1>2, <1>3, <1>7, <1>8 DEF SyncInv, SyncTypes
<1>10. Reaches(g, h)' /\ Reaches(h, g)'
  BY <1>6, <1>7, <1>8 DEF Reaches
<1>11. \A k \in Hubs : k = g \/ k = h
  BY <1>2, TwoHubs
<1>12. Pushed'
  <2>1. session' # {}
    BY <1>2, Two
  <2>2. \A k \in Hubs : lastHash'[k] \in Sync!Payload /\ lastHash'[k] = entries'[k]
    BY <1>1, <1>3, <1>4, <1>8, <1>11
  <2>3. \A k, l \in Hubs : k # l => Reaches(k, l)'
    BY <1>10, <1>11
  <2>4. \A k \in Hubs : wire'[k][k] = <<>>
    BY <1>7, <1>11 DEF SyncInv, Pushed
  <2> QED
    BY <2>1, <2>2, <2>3, <2>4 DEF Pushed
<1> QED
  BY <1>9, <1>12 DEF SyncInv

\* A session ends, with what is under way.
LEMMA SyncEndKeeps ==
  ASSUME SyncInv, session' = {}, \A g, h \in Hubs : wire'[g][h] = <<>>,
         wire' \in [Hubs -> [Hubs -> Seq(Sync!Payload)]], timer' \subseteq timer,
         lastHash' \in [Hubs -> Sync!Payload \cup {Sync!Never}],
         UNCHANGED <<entries, stamps, removed>>
  PROVE  SyncInv'
BY DEF SyncInv, SyncTypes, Pushed

LEMMA SyncDropKeeps ==
  ASSUME SyncInv, NEW g \in Hubs, NEW h \in Hubs, Sync!Drop(g, h)
  PROVE  SyncInv'
<1>1. /\ {g, h} \in session /\ session' = session \ {{g, h}}
      /\ wire' = [wire EXCEPT ![g][h] = <<>>, ![h][g] = <<>>]
      /\ UNCHANGED <<entries, lastHash, timer, stamps, removed>>
  BY DEF Sync!Drop
<1>2. g # h /\ session' = {} /\ wire \in [Hubs -> [Hubs -> Seq(Sync!Payload)]]
  <2>1. session \subseteq {Hubs} /\ wire \in [Hubs -> [Hubs -> Seq(Sync!Payload)]]
    BY DEF SyncInv, SyncTypes
  <2>2. {g, h} \in {Hubs} /\ g # h /\ {g, h} = Hubs
    BY <1>1, <2>1, TwoHubs
  <2> QED
    BY <1>1, <2>1, <2>2, Two
<1>3. PICK a, b : a = [wire[g] EXCEPT ![h] = <<>>] /\ b = [wire[h] EXCEPT ![g] = <<>>]
  OBVIOUS
<1>4. /\ a \in [Hubs -> Seq(Sync!Payload)] /\ a[h] = <<>> /\ a[g] = wire[g][g]
      /\ b \in [Hubs -> Seq(Sync!Payload)] /\ b[g] = <<>> /\ b[h] = wire[h][h]
  <2>1. <<>> \in Seq(Sync!Payload)
    OBVIOUS
  <2> QED
    BY <1>2, <1>3, <2>1
<1>5. wire' = [wire EXCEPT ![g] = a, ![h] = b]
  BY <1>1, <1>2, <1>3
<1>6. wire' \in [Hubs -> [Hubs -> Seq(Sync!Payload)]] /\ wire'[g] = a /\ wire'[h] = b
  BY <1>2, <1>4, <1>5
<1>7. \A k, l \in Hubs : wire'[k][l] = <<>>
  <2>1. \A k \in Hubs : k = g \/ k = h
    BY <1>2, TwoHubs
  <2>2. wire[g][g] = <<>> /\ wire[h][h] = <<>>
    BY DEF SyncInv, Pushed
  <2> QED
    BY <1>4, <1>6, <2>1, <2>2
<1>8. lastHash' \in [Hubs -> Sync!Payload \cup {Sync!Never}]
  BY <1>1 DEF SyncInv, SyncTypes
<1> QED
  BY <1>1, <1>2, <1>6, <1>7, <1>8, SyncEndKeeps

LEMMA SyncRestartKeeps == ASSUME SyncInv, NEW h \in Hubs, Sync!Restart(h) PROVE SyncInv'
<1>1. /\ session' = {l \in session : h \notin l}
      /\ wire' = [a \in Hubs |-> [b \in Hubs |-> IF h \in {a, b} THEN <<>> ELSE wire[a][b]]]
      /\ timer' = timer \ {h}
      /\ lastHash' = [lastHash EXCEPT ![h] = Sync!Never]
      /\ UNCHANGED <<entries, stamps, removed>>
  BY DEF Sync!Restart
<1>2. /\ session \subseteq {Hubs} /\ wire \in [Hubs -> [Hubs -> Seq(Sync!Payload)]]
      /\ lastHash \in [Hubs -> Sync!Payload \cup {Sync!Never}]
  BY DEF SyncInv, SyncTypes
<1>3. session' = {}
  BY <1>1, <1>2, TwoHubs
<1>4. \A g, k \in Hubs : wire'[g][k] = <<>>
  <2>1. ASSUME NEW g \in Hubs, NEW k \in Hubs PROVE wire'[g][k] = <<>>
    <3>1. CASE h \in {g, k}
      BY <1>1, <3>1
    <3>2. CASE h \notin {g, k}
      <4>1. g = k
        BY <3>2, Two
      <4>2. wire[g][k] = <<>>
        BY <4>1 DEF SyncInv, Pushed
      <4> QED
        BY <1>1, <4>2
    <3> QED
      BY <3>1, <3>2
  <2> QED
    BY <2>1
<1>5. wire' \in [Hubs -> [Hubs -> Seq(Sync!Payload)]]
  <2>1. <<>> \in Seq(Sync!Payload)
    OBVIOUS
  <2> QED
    BY <1>1, <1>2, <2>1
<1>6. lastHash' \in [Hubs -> Sync!Payload \cup {Sync!Never}]
  BY <1>1, <1>2
<1> QED
  BY <1>1, <1>3, <1>4, <1>5, <1>6, SyncEndKeeps

\* What a merge leaves is later than both.
LEMMA MergeIsLater ==
  ASSUME NEW p \in Sync!Payload, NEW r \in Sync!Payload
  PROVE  /\ Sync!Merge(p, r) \in Sync!Payload
         /\ \A e \in Sync!Entries : Sync!Merge(p, r)[e] >= p[e] /\ Sync!Merge(p, r)[e] >= r[e]
BY SyncNumbers DEF Sync!Merge, Sync!Payload

LEMMA SyncReceiveKeeps ==
  ASSUME SyncInv, NEW g \in Hubs, NEW h \in Hubs, Sync!Receive(g, h)
  PROVE  SyncInv'
<1>1. PICK q : q = wire[g][h]
  OBVIOUS
<1>2. /\ entries \in [Hubs -> Sync!Payload] /\ lastHash \in [Hubs -> Sync!Payload \cup {Sync!Never}]
      /\ wire \in [Hubs -> [Hubs -> Seq(Sync!Payload)]] /\ session \subseteq {Hubs}
  BY DEF SyncInv, SyncTypes
<1>3. /\ q \in Seq(Sync!Payload) /\ q # <<>> /\ g # h /\ session # {}
  BY <1>1, <1>2 DEF Sync!Receive, SyncInv, Pushed
<1>4. /\ Head(q) \in Sync!Payload /\ Tail(q) \in Seq(Sync!Payload)
      /\ Tail(q) = <<>> => Head(q) = q[Len(q)]
      /\ Tail(q) # <<>> => Tail(q)[Len(Tail(q))] = q[Len(q)]
  BY <1>3, OneOffTheWire
<1>5. PICK merged : merged = Sync!Merge(entries[h], Head(q))
  OBVIOUS
<1>6. /\ merged \in Sync!Payload
      /\ \A e \in Sync!Entries : merged[e] >= entries[h][e] /\ merged[e] >= Head(q)[e]
  BY <1>2, <1>4, <1>5, MergeIsLater
<1>7. PICK row : row = [wire[g] EXCEPT ![h] = Tail(q)]
  OBVIOUS
<1>8. row \in [Hubs -> Seq(Sync!Payload)] /\ row[h] = Tail(q) /\ row[g] = wire[g][g]
  BY <1>2, <1>3, <1>4, <1>7
<1>9. PICK rest : rest = [wire EXCEPT ![g] = row]
  OBVIOUS
<1>10. /\ rest \in [Hubs -> [Hubs -> Seq(Sync!Payload)]] /\ rest[g] = row /\ rest[h] = wire[h]
  BY <1>2, <1>3, <1>8, <1>9
<1>11. /\ entries' = [entries EXCEPT ![h] = merged]
       /\ \/ merged = entries[h] /\ wire' = rest /\ lastHash' = lastHash
          \/ wire' = Sync!PushAll(h, merged, rest) /\ lastHash' = [lastHash EXCEPT ![h] = merged]
       /\ UNCHANGED <<timer, session, stamps, removed>>
  <2>1. rest = [wire EXCEPT ![g][h] = Tail(@)]
    BY <1>1, <1>2, <1>7, <1>9
  <2> QED
    BY <1>1, <1>5, <2>1 DEF Sync!Receive
<1>12. /\ entries' \in [Hubs -> Sync!Payload] /\ entries'[h] = merged /\ entries'[g] = entries[g]
  BY <1>2, <1>3, <1>6, <1>11
<1>13. \A k \in Hubs : k = g \/ k = h
  BY <1>3, TwoHubs
<1>14. /\ wire' \in [Hubs -> [Hubs -> Seq(Sync!Payload)]]
       /\ wire'[g] = row /\ wire'[h][h] = wire[h][h]
       /\ \/ /\ wire'[h][g] = wire[h][g] /\ lastHash' = lastHash
             /\ merged = entries[h] \/ merged = lastHash[h]
          \/ /\ wire'[h][g] = Append(wire[h][g], merged)
             /\ lastHash' = [lastHash EXCEPT ![h] = merged]
  <2>1. CASE merged = entries[h] /\ wire' = rest /\ lastHash' = lastHash
    BY <1>10, <2>1
  <2>2. CASE wire' = Sync!PushAll(h, merged, rest) /\ lastHash' = [lastHash EXCEPT ![h] = merged]
    <3>1. /\ Sync!PushAll(h, merged, rest) \in [Hubs -> [Hubs -> Seq(Sync!Payload)]]
          /\ (session = {} \/ merged = lastHash[h]) => Sync!PushAll(h, merged, rest) = rest
          /\ Sync!PushAll(h, merged, rest)[h][h] = rest[h][h]
          /\ (session # {} /\ merged # lastHash[h]) =>
               /\ \A k \in Hubs :
                     k # h => Sync!PushAll(h, merged, rest)[h][k] = Append(rest[h][k], merged)
               /\ \A k \in Hubs \ {h} : Sync!PushAll(h, merged, rest)[k] = rest[k]
      <4>1. Sync!PushAll(h, merged, rest) \in [Hubs -> [Hubs -> Seq(Sync!Payload)]]
        BY <1>2, <1>6, <1>10, PushAllEffect
      <4>2. (session = {} \/ merged = lastHash[h]) => Sync!PushAll(h, merged, rest) = rest
        BY <1>2, <1>6, <1>10, PushAllEffect
      <4>3. Sync!PushAll(h, merged, rest)[h][h] = rest[h][h]
        BY <1>2, <1>6, <1>10, PushAllEffect
      <4>4. ASSUME session # {}, merged # lastHash[h], NEW k \in Hubs, k # h
            PROVE  Sync!PushAll(h, merged, rest)[h][k] = Append(rest[h][k], merged)
        BY <1>2, <1>6, <1>10, <4>4, PushAllReaches
      <4>5. ASSUME NEW k \in Hubs, k # h PROVE Sync!PushAll(h, merged, rest)[k] = rest[k]
        BY <1>2, <1>6, <1>10, <4>5, PushAllElsewhere
      <4> QED
        BY <4>1, <4>2, <4>3, <4>4, <4>5
    <3>2. CASE merged = lastHash[h]
      BY <1>2, <1>10, <2>2, <3>1, <3>2
    <3>3. CASE merged # lastHash[h]
      BY <1>3, <1>10, <2>2, <3>1, <3>3
    <3> QED
      BY <3>2, <3>3
  <2> QED
    BY <1>11, <2>1, <2>2
<1>15. /\ lastHash' \in [Hubs -> Sync!Payload \cup {Sync!Never}] /\ lastHash'[g] = lastHash[g]
       /\ lastHash'[h] = lastHash[h] \/ lastHash'[h] = merged
  BY <1>2, <1>3, <1>6, <1>14
<1>16. SyncTypes'
  BY <1>11, <1>12, <1>14, <1>15 DEF SyncInv, SyncTypes
<1>17. /\ lastHash[g] \in Sync!Payload /\ lastHash[h] \in Sync!Payload
       /\ h \in timer \/ lastHash[h] = entries[h]
       /\ g \in timer \/ lastHash[g] = entries[g]
       /\ Reaches(g, h) /\ Reaches(h, g)
  BY <1>3 DEF SyncInv, Pushed
<1>18. Reaches(g, h)'
  <2>1. q[Len(q)] = lastHash[g]
    BY <1>1, <1>3, <1>17 DEF Reaches
  <2>2. wire'[g][h] = Tail(q)
    BY <1>8, <1>14
  <2> QED
    BY <1>4, <1>6, <1>12, <1>15, <2>1, <2>2 DEF Reaches
<1>19. Reaches(h, g)'
  <2>1. CASE wire'[h][g] = wire[h][g] /\ lastHash' = lastHash
    BY <1>11, <1>12, <1>17, <2>1 DEF Reaches
  <2>2. CASE wire'[h][g] = Append(wire[h][g], merged) /\ lastHash' = [lastHash EXCEPT ![h] = merged]
    <3>1. PICK r : r = wire'[h][g]
      OBVIOUS
    <3>2. r # <<>> /\ r[Len(r)] = merged
      BY <1>2, <1>6, <2>2, <3>1, OneOnTheWire
    <3>3. lastHash'[h] = merged
      BY <1>2, <2>2
    <3> QED
      BY <3>1, <3>2, <3>3 DEF Reaches
  <2> QED
    BY <1>14, <2>1, <2>2
<1>20. /\ h \in timer' \/ lastHash'[h] = entries'[h]
       /\ g \in timer' \/ lastHash'[g] = entries'[g]
  BY <1>2, <1>11, <1>12, <1>14, <1>15, <1>17
<1>21. Pushed'
  <2>1. session' # {}
    BY <1>3, <1>11
  <2>2. \A k \in Hubs : /\ lastHash'[k] \in Sync!Payload
                        /\ (k \in timer' \/ lastHash'[k] = entries'[k])
    BY <1>6, <1>13, <1>15, <1>17, <1>20
  <2>3. \A k, l \in Hubs : k # l => Reaches(k, l)'
    BY <1>13, <1>18, <1>19
  <2>4. \A k \in Hubs : wire'[k][k] = <<>>
    BY <1>8, <1>13, <1>14 DEF SyncInv, Pushed
  <2> QED
    BY <2>1, <2>2, <2>3, <2>4 DEF Pushed
<1> QED
  BY <1>16, <1>21 DEF SyncInv

LEMMA SyncStep == ASSUME ~Skewed, SyncInv, [Sync!Next]_Sync!vars PROVE SyncInv'
<1>1. CASE UNCHANGED Sync!vars
  BY <1>1 DEF SyncInv, SyncTypes, Pushed, Reaches, Sync!vars
<1>2. ASSUME NEW h \in Hubs,
             \/ \E e \in Sync!Entries : Sync!Edit(h, e)
             \/ \E e \in StackIds : Sync!RemoveStack(h, e)
             \/ Sync!TimerFires(h) \/ Sync!Restart(h)
      PROVE  SyncInv'
  BY <1>2, SyncEditKeeps, SyncRemoveStackKeeps, SyncTimerKeeps, SyncRestartKeeps
<1>3. ASSUME NEW g \in Hubs, NEW h \in Hubs,
             Sync!Open(g, h) \/ Sync!Drop(g, h) \/ Sync!Receive(g, h)
      PROVE  SyncInv'
  BY <1>3, SyncOpenKeeps, SyncDropKeeps, SyncReceiveKeeps
<1> QED
  BY <1>1, <1>2, <1>3 DEF Sync!Next

\* The strengthened invariant of the sync holds in every reachable state, when no
\* hub's clock is behind a stamp it has received.
THEOREM SyncInvariant == ASSUME ~Skewed PROVE Sync!Spec => []SyncInv
<1>1. Sync!Init => SyncInv
  BY SyncStart
<1>2. SyncInv /\ [Sync!Next]_Sync!vars => SyncInv'
  BY SyncStep
<1> QED
  BY <1>1, <1>2, PTL DEF Sync!Spec

\* A hub that has nothing to push and nothing under way is no newer than the other in
\* any entry, but for stacks the other has removed: no change is ever held back,
\* lost at a new session or taken for sent.  With clocks that are not behind.
THEOREM QuietLinksAgree == ASSUME ~Skewed PROVE Sync!Spec => []QuietLinkAgrees
<1>1. ASSUME SyncInv PROVE QuietLinkAgrees
  <2>1. SUFFICES ASSUME NEW g \in Hubs, NEW h \in Hubs,
                        {g, h} \in session, wire[g][h] = <<>>, g \notin timer
                 PROVE  \A e \in Sync!Entries \ removed[h] : entries[h][e] >= entries[g][e]
    BY DEF QuietLinkAgrees, Sync!QuietLinkAgrees
  <2>2. g # h /\ session # {}
    BY <1>1, <2>1, TwoHubs DEF SyncInv, SyncTypes
  <2>3. lastHash[g] = entries[g] /\ Reaches(g, h)
    BY <1>1, <2>1, <2>2 DEF SyncInv, Pushed
  <2> QED
    BY <2>1, <2>3 DEF Reaches
<1> QED
  BY <1>1, SyncInvariant, PTL
-----------------------------------------------------------------------------
(* What the window shows (Window).                                           *)

\* The message says that job j is over.
EndsJob(m, j) == m.is = "job-end" /\ m.job = j

\* The progress of a job that is no more is followed by its end.
ProgressEnds ==
  \A i \in DOMAIN toWindow : toWindow[i].is = "job-progress" =>
    \/ toWindow[i].job = job
    \/ \E k \in DOMAIN toWindow : k > i /\ EndsJob(toWindow[k], toWindow[i].job)

\* The types, a queue being a sequence of what it may hold.
WindowTypes ==
  /\ building \in Seq(View!AppPref) /\ calls \in Seq(View!Calls) /\ toWindow \in Seq(View!Messages)
  /\ prefs \in View!AppPref /\ changes \in 0..MaxChanges
  /\ jobs \in 0..MaxJobs /\ job \in {0, jobs}
  /\ win \in View!View /\ live \in 0..View!Pending /\ armed \in BOOLEAN /\ clicks \in 0..MaxClicks
  /\ shown \in BOOLEAN

\* The inductive invariant.
WindowInv == WindowTypes /\ View!BarsAreJobs /\ ProgressEnds

\* The bounds are naturals.
LEMMA WindowBounds ==
  MaxPulls \in Nat /\ MaxChanges \in Nat /\ MaxJobs \in Nat /\ MaxClicks \in Nat
BY WindowAssumed DEF View!WindowAssumption

\* A queue with some messages more.
LEMMA Joined ==
  ASSUME NEW S, NEW s \in Seq(S), NEW t \in Seq(S)
  PROVE  /\ s \o t \in Seq(S)
         /\ \A i \in DOMAIN s : i \in DOMAIN (s \o t) /\ (s \o t)[i] = s[i]
         /\ \A k \in DOMAIN t : /\ Len(s) + k \in DOMAIN (s \o t)
                                /\ (s \o t)[Len(s) + k] = t[k]
         /\ \A i \in DOMAIN (s \o t) :
              i \in DOMAIN s \/ \E k \in DOMAIN t : i = Len(s) + k /\ (s \o t)[i] = t[k]
         /\ \A i \in DOMAIN s, k \in DOMAIN t : Len(s) + k > i
<1>1. /\ s \o t \in Seq(S) /\ Len(s \o t) = Len(s) + Len(t)
      /\ \A i \in 1..(Len(s) + Len(t)) :
           (s \o t)[i] = IF i <= Len(s) THEN s[i] ELSE t[i - Len(s)]
  BY ConcatProperties
<1>2. /\ DOMAIN s = 1..Len(s) /\ DOMAIN t = 1..Len(t) /\ DOMAIN (s \o t) = 1..Len(s \o t)
      /\ Len(s) \in Nat /\ Len(t) \in Nat
  BY <1>1, LenProperties
<1>3. ASSUME NEW i \in DOMAIN (s \o t), i \notin DOMAIN s
      PROVE  \E k \in DOMAIN t : i = Len(s) + k /\ (s \o t)[i] = t[k]
  <2>1. i - Len(s) \in DOMAIN t /\ i = Len(s) + (i - Len(s)) /\ (s \o t)[i] = t[i - Len(s)]
    BY <1>1, <1>2, <1>3
  <2> QED
    BY <2>1
<1> QED
  BY <1>1, <1>2, <1>3

\* A queue with one message less in front.
LEMMA RestOf ==
  ASSUME NEW S, NEW s \in Seq(S), s # <<>>
  PROVE  /\ Tail(s) \in Seq(S) /\ Head(s) \in S /\ Head(s) = s[1] /\ 1 \in DOMAIN s
         /\ \A i \in DOMAIN Tail(s) : i \in Nat /\ i + 1 \in DOMAIN s /\ Tail(s)[i] = s[i + 1]
         /\ \A i \in DOMAIN s : i \in Nat /\ i >= 1
         /\ \A i \in DOMAIN s : i # 1 => i - 1 \in DOMAIN Tail(s) /\ Tail(s)[i - 1] = s[i]
<1>1. /\ Tail(s) \in Seq(S) /\ Len(Tail(s)) = Len(s) - 1
      /\ \A i \in 1..Len(Tail(s)) : Tail(s)[i] = s[i + 1]
      /\ Head(s) \in S /\ Head(s) = s[1] /\ Len(s) # 0
  BY HeadTailProperties, EmptySeq
<1>2. /\ DOMAIN s = 1..Len(s) /\ DOMAIN Tail(s) = 1..Len(Tail(s)) /\ Len(s) \in Nat
  BY <1>1, LenProperties
<1> QED
  BY <1>1, <1>2

\* And with one less somewhere.
LEMMA RemovedAt ==
  ASSUME NEW S, NEW s \in Seq(S), NEW i \in DOMAIN s PROVE View!RemoveAt(s, i) \in Seq(S)
<1>1. DOMAIN s = 1..Len(s) /\ Len(s) \in Nat
  BY LenProperties
<1>2. SubSeq(s, 1, i - 1) \in Seq(S) /\ SubSeq(s, i + 1, Len(s)) \in Seq(S)
  BY <1>1, SubSeqProperties
<1> QED
  BY <1>2, ConcatProperties DEF View!RemoveAt

\* Queues of one, two and three messages.
LEMMA Tuples ==
  ASSUME NEW S, NEW x \in S, NEW y \in S, NEW z \in S
  PROVE  /\ <<x>> \in Seq(S) /\ <<x, y>> \in Seq(S) /\ <<x, y, z>> \in Seq(S)
         /\ DOMAIN <<x>> = {1} /\ DOMAIN <<x, y>> = {1, 2} /\ DOMAIN <<x, y, z>> = {1, 2, 3}
         /\ <<x>>[1] = x /\ <<x, y>>[1] = x /\ <<x, y>>[2] = y
         /\ <<x, y, z>>[1] = x /\ <<x, y, z>>[2] = y /\ <<x, y, z>>[3] = z
OBVIOUS

\* What messages and calls carry.
LEMMA Carried ==
  /\ \A m \in View!Messages :
       /\ m.is \in {"job-progress", "job-end", "cancelled"} => m.job \in 1..MaxJobs
       /\ m.is = "state" => m.view \in View!View
  /\ \A c \in View!Calls : /\ c.is = "cancelJob" => c.job \in 1..MaxJobs
                           /\ c.is = "setAppPref" => c.patch \in View!AppPref
BY DEF View!Messages, View!Calls

\* What is sent is a message or a call.
LEMMA Made ==
  /\ View!Changed \in View!Messages /\ View!Changed.is = "state-changed"
  /\ \A j \in 1..MaxJobs :
       /\ View!Progress(j) \in View!Messages /\ View!Progress(j).is = "job-progress"
       /\ View!Progress(j).job = j
       /\ [is |-> "job-end", job |-> j] \in View!Messages
       /\ [is |-> "cancelled", job |-> j] \in View!Messages
  /\ \A v \in View!View : [is |-> "state", view |-> v] \in View!Messages
  /\ [is |-> "getState"] \in View!Calls /\ [is |-> "install"] \in View!Calls
  /\ \A j \in 1..MaxJobs : [is |-> "cancelJob", job |-> j] \in View!Calls
  /\ \A p \in View!AppPref : [is |-> "setAppPref", patch |-> p] \in View!Calls
BY DEF View!Changed, View!Progress, View!Messages, View!Calls

\* The hub says something: it is in order that a job that goes is followed by its end.
LEMMA TellStep ==
  ASSUME WindowTypes, View!BarsAreJobs, ProgressEnds,
         NEW t \in Seq(View!Messages), toWindow' = toWindow \o t,
         live' = live, armed' = armed \/ armed',
         \/ job' = job
         \/ job = 0
         \/ \E k \in DOMAIN t : EndsJob(t[k], job),
         \A k \in DOMAIN t : t[k].is = "job-progress" => t[k].job = job'
  PROVE  toWindow' \in Seq(View!Messages) /\ View!BarsAreJobs' /\ ProgressEnds'
<1>1. toWindow \in Seq(View!Messages)
  BY DEF WindowTypes
<1>2. /\ toWindow' \in Seq(View!Messages)
      /\ \A i \in DOMAIN toWindow : i \in DOMAIN toWindow' /\ toWindow'[i] = toWindow[i]
      /\ \A k \in DOMAIN t :
           Len(toWindow) + k \in DOMAIN toWindow' /\ toWindow'[Len(toWindow) + k] = t[k]
      /\ \A i \in DOMAIN toWindow' :
           i \in DOMAIN toWindow \/ \E k \in DOMAIN t : i = Len(toWindow) + k /\ toWindow'[i] = t[k]
      /\ \A i \in DOMAIN toWindow, k \in DOMAIN t : Len(toWindow) + k > i
  <2> DEFINE W == toWindow \o t
  <2>1. toWindow' = W
    OBVIOUS
  <2>2. /\ W \in Seq(View!Messages)
        /\ \A i \in DOMAIN toWindow : i \in DOMAIN W /\ W[i] = toWindow[i]
        /\ \A k \in DOMAIN t : Len(toWindow) + k \in DOMAIN W /\ W[Len(toWindow) + k] = t[k]
        /\ \A i \in DOMAIN W :
             i \in DOMAIN toWindow \/ \E k \in DOMAIN t : i = Len(toWindow) + k /\ W[i] = t[k]
        /\ \A i \in DOMAIN toWindow, k \in DOMAIN t : Len(toWindow) + k > i
    BY <1>1, Joined, Zenon
  <2> HIDE DEF W
  <2> QED
    BY <2>1, <2>2
<1>3. job' = job \/ job = 0 \/ \E k \in DOMAIN t : EndsJob(toWindow'[Len(toWindow) + k], job)
  BY <1>2
<1>4. View!BarsAreJobs'
  <2>1. job' = job \/ job = 0 \/ \E i \in DOMAIN toWindow' : EndsJob(toWindow'[i], job)
    BY <1>2, <1>3
  <2> QED
    BY <1>2, <2>1 DEF View!BarsAreJobs, EndsJob, View!Pending
<1>5. ProgressEnds'
  <2> SUFFICES ASSUME NEW i \in DOMAIN toWindow', toWindow'[i].is = "job-progress",
                      toWindow'[i].job # job'
               PROVE  \E k \in DOMAIN toWindow' : k > i /\ EndsJob(toWindow'[k], toWindow'[i].job)
    BY DEF ProgressEnds
  <2>1. i \in DOMAIN toWindow /\ toWindow'[i] = toWindow[i] /\ toWindow[i] \in View!Messages
    <3>1. i \in DOMAIN toWindow
      BY <1>2
    <3> QED
      BY <1>1, <1>2, <3>1
  <2>2. toWindow[i].job \in 1..MaxJobs
    BY <2>1, Carried
  <2>3. CASE toWindow[i].job = job
    BY <1>2, <1>3, <2>1, <2>2, <2>3
  <2>4. CASE toWindow[i].job # job
    BY <1>2, <2>1, <2>4 DEF ProgressEnds
  <2> QED
    BY <2>3, <2>4
<1> QED
  BY <1>2, <1>4, <1>5

\* The window hears something: a bar goes with the end of its job at the latest.
LEMMA HearStep ==
  ASSUME WindowTypes, View!BarsAreJobs, ProgressEnds, toWindow # <<>>, toWindow' = Tail(toWindow),
         UNCHANGED <<job, armed>>,
         \/ live' = live /\ Head(toWindow).is # "job-end"
         \/ live' = 0
         \/ live' = Head(toWindow).job /\ Head(toWindow).is = "job-progress"
  PROVE  toWindow' \in Seq(View!Messages) /\ View!BarsAreJobs' /\ ProgressEnds'
<1>1. toWindow \in Seq(View!Messages)
  BY DEF WindowTypes
<1>2. /\ toWindow' \in Seq(View!Messages) /\ Head(toWindow) = toWindow[1] /\ 1 \in DOMAIN toWindow
      /\ \A i \in DOMAIN toWindow' :
           i \in Nat /\ i + 1 \in DOMAIN toWindow /\ toWindow'[i] = toWindow[i + 1]
      /\ \A i \in DOMAIN toWindow : i \in Nat /\ i >= 1
      /\ \A i \in DOMAIN toWindow :
           i # 1 => i - 1 \in DOMAIN toWindow' /\ toWindow'[i - 1] = toWindow[i]
  BY <1>1, RestOf
<1>3. ProgressEnds'
  <2> SUFFICES ASSUME NEW i \in DOMAIN toWindow', toWindow'[i].is = "job-progress",
                      toWindow'[i].job # job'
               PROVE  \E k \in DOMAIN toWindow' : k > i /\ EndsJob(toWindow'[k], toWindow'[i].job)
    BY DEF ProgressEnds
  <2>1. i \in Nat /\ i + 1 \in DOMAIN toWindow /\ toWindow'[i] = toWindow[i + 1]
    BY <1>2
  <2>2. PICK k \in DOMAIN toWindow : k > i + 1 /\ EndsJob(toWindow[k], toWindow[i + 1].job)
    BY <2>1 DEF ProgressEnds
  <2>3. k - 1 \in DOMAIN toWindow' /\ toWindow'[k - 1] = toWindow[k] /\ k - 1 > i
    BY <1>2, <2>1, <2>2
  <2> QED
    BY <2>1, <2>2, <2>3
<1>4. \A i \in DOMAIN toWindow :
         \A j : i # 1 /\ EndsJob(toWindow[i], j) =>
                  \E k \in DOMAIN toWindow' : EndsJob(toWindow'[k], j)
  BY <1>2
<1>5. CASE live' = live /\ Head(toWindow).is # "job-end"
  <2>1. \A i \in DOMAIN toWindow : \A j : EndsJob(toWindow[i], j) => i # 1
    BY <1>2, <1>5 DEF EndsJob
  <2>2. \A i \in DOMAIN toWindow :
           \A j : EndsJob(toWindow[i], j) => \E k \in DOMAIN toWindow' : EndsJob(toWindow'[k], j)
    BY <1>4, <2>1
  <2> QED
    BY <1>2, <1>3, <1>5, <2>2 DEF View!BarsAreJobs, EndsJob, View!Pending
<1>6. CASE live' = 0
  BY <1>2, <1>3, <1>6 DEF View!BarsAreJobs
<1>7. CASE live' = Head(toWindow).job /\ Head(toWindow).is = "job-progress"
  <2>1. \/ toWindow[1].job = job
        \/ \E k \in DOMAIN toWindow : k > 1 /\ EndsJob(toWindow[k], toWindow[1].job)
    BY <1>2, <1>7 DEF ProgressEnds
  <2>2. \/ toWindow[1].job = job
        \/ \E k \in DOMAIN toWindow' : EndsJob(toWindow'[k], toWindow[1].job)
    BY <1>4, <2>1
  <2> QED
    BY <1>2, <1>3, <1>7, <2>2 DEF View!BarsAreJobs, EndsJob, View!Pending
<1> QED
  BY <1>5, <1>6, <1>7

\* The window opens with nothing on the wire.
LEMMA WindowInvInit == View!Init => WindowInv
<1> SUFFICES ASSUME View!Init PROVE WindowInv
  OBVIOUS
<1>1. prefs \in View!AppPref
  BY DEF View!Init, View!AppPref
<1>2. /\ building \in Seq(View!AppPref) /\ calls \in Seq(View!Calls)
      /\ toWindow \in Seq(View!Messages)
      /\ DOMAIN toWindow = {}
  BY DEF View!Init
<1>3. win \in View!View
  BY <1>1, WindowBounds DEF View!Init, View!View
<1>4. /\ changes \in 0..MaxChanges /\ jobs \in 0..MaxJobs /\ job \in {0, jobs}
      /\ live \in 0..View!Pending /\ clicks \in 0..MaxClicks
  BY WindowBounds DEF View!Init, View!Pending
<1>5. armed \in BOOLEAN /\ shown \in BOOLEAN
  BY Zenon DEF View!Init
<1>6. WindowTypes
  BY <1>1, <1>2, <1>3, <1>4, <1>5, Zenon DEF WindowTypes
<1>7. View!BarsAreJobs /\ ProgressEnds
  BY <1>2 DEF View!Init, View!BarsAreJobs, ProgressEnds
<1> QED
  BY <1>6, <1>7 DEF WindowInv

\* The hub's steps.
LEMMA HubStep ==
  ASSUME WindowInv,
         UNCHANGED View!uiVars, toWindow' \in Seq(View!Messages), calls' \in Seq(View!Calls),
         building' \in Seq(View!AppPref), prefs' \in View!AppPref, changes' \in 0..MaxChanges,
         jobs' \in 0..MaxJobs, job' \in {0, jobs'}, View!BarsAreJobs', ProgressEnds'
  PROVE  WindowInv'
BY DEF WindowInv, WindowTypes, View!uiVars

\* The wire and the job are as they were.
LEMMA QuietStep ==
  ASSUME WindowInv, UNCHANGED <<toWindow, job>>,
         \/ UNCHANGED <<live, armed>>
         \/ live' = 0
         \/ live' = View!Pending /\ armed'
         \/ live' = live /\ live # View!Pending
  PROVE  View!BarsAreJobs' /\ ProgressEnds'
BY DEF WindowInv, View!BarsAreJobs, ProgressEnds, EndsJob, View!Pending

\* Another process sets a preference.
LEMMA OthersSetStep == ASSUME WindowInv, NEW f \in Fields, View!OthersSet(f) PROVE WindowInv'
<1> USE DEF WindowInv
<1>1. /\ <<View!Changed>> \in Seq(View!Messages)
      /\ \A k \in DOMAIN <<View!Changed>> : <<View!Changed>>[k].is = "state-changed"
  BY Made, Tuples
<1>2. toWindow' = toWindow \o <<View!Changed>> /\ UNCHANGED <<job, live, armed>>
  BY DEF View!OthersSet, View!Tell, View!uiVars
<1>3. toWindow' \in Seq(View!Messages) /\ View!BarsAreJobs' /\ ProgressEnds'
  BY <1>1, <1>2, TellStep
<1>4. prefs' \in View!AppPref /\ changes' \in 0..MaxChanges
  BY WindowBounds DEF View!OthersSet, View!AppPref, WindowTypes
<1>5. UNCHANGED <<job, jobs, building, calls, View!uiVars>>
  BY DEF View!OthersSet
<1> QED
  BY <1>3, <1>4, <1>5, HubStep DEF WindowTypes

\* The hub reads the preferences and waits for the rest of its answer.
LEMMA TakesGetStateStep == ASSUME WindowInv, View!TakesGetState PROVE WindowInv'
<1>1. building' \in Seq(View!AppPref)
  BY AppendProperties DEF WindowInv, WindowTypes, View!TakesGetState
<1>2. calls' \in Seq(View!Calls)
  BY RestOf DEF WindowInv, WindowTypes, View!TakesGetState, View!Takes
<1>3. UNCHANGED <<View!hubVars, toWindow, View!uiVars>>
  BY DEF View!TakesGetState
<1>4. UNCHANGED <<prefs, changes, job, jobs, toWindow, live, armed>>
  BY <1>3 DEF View!hubVars, View!uiVars
<1>5. View!BarsAreJobs' /\ ProgressEnds'
  BY <1>4, QuietStep
<1> QED
  BY <1>1, <1>2, <1>3, <1>4, <1>5, HubStep DEF WindowInv, WindowTypes

\* It answers.
LEMMA AnswersStep == ASSUME WindowInv, NEW i \in DOMAIN building, View!Answers(i) PROVE WindowInv'
<1>1. building' \in Seq(View!AppPref) /\ building[i] \in View!AppPref
  BY RemovedAt DEF WindowInv, WindowTypes, View!Answers
<1>2. PICK m \in View!Messages : m.is = "state" /\ toWindow' = toWindow \o <<m>>
  <2>1. [prefs |-> building[i], job |-> job] \in View!View
    BY <1>1, WindowBounds DEF WindowInv, WindowTypes, View!View
  <2> QED
    BY <2>1, Made DEF View!Answers, View!Tell
<1>3. <<m>> \in Seq(View!Messages) /\ \A k \in DOMAIN <<m>> : <<m>>[k].is = "state"
  BY <1>2, Tuples
<1>4. UNCHANGED <<View!hubVars, calls, View!uiVars>>
  BY DEF View!Answers
<1>5. UNCHANGED <<prefs, changes, job, jobs, calls, live, armed>>
  BY <1>4 DEF View!hubVars, View!uiVars
<1>6. toWindow' \in Seq(View!Messages) /\ View!BarsAreJobs' /\ ProgressEnds'
  BY <1>2, <1>3, <1>5, TellStep DEF WindowInv
<1> QED
  BY <1>1, <1>4, <1>5, <1>6, HubStep DEF WindowInv, WindowTypes

\* It fails to.
LEMMA AnswerFailsStep ==
  ASSUME WindowInv, NEW i \in DOMAIN building, View!AnswerFails(i) PROVE WindowInv'
<1>1. building' \in Seq(View!AppPref)
  BY RemovedAt DEF WindowInv, WindowTypes, View!AnswerFails
<1>2. UNCHANGED <<View!hubVars, calls, toWindow, View!uiVars>>
  BY DEF View!AnswerFails
<1>3. UNCHANGED <<prefs, changes, job, jobs, calls, toWindow, live, armed>>
  BY <1>2 DEF View!hubVars, View!uiVars
<1>4. View!BarsAreJobs' /\ ProgressEnds'
  BY <1>3, QuietStep
<1> QED
  BY <1>1, <1>2, <1>3, <1>4, HubStep DEF WindowInv, WindowTypes

\* It sets a preference.
LEMMA TakesPrefStep == ASSUME WindowInv, View!TakesPref PROVE WindowInv'
<1>1. calls' \in Seq(View!Calls) /\ Head(calls) \in View!Calls /\ Head(calls).is = "setAppPref"
  BY RestOf DEF WindowInv, WindowTypes, View!TakesPref, View!Takes
<1>2. prefs' \in View!AppPref
  BY <1>1, Carried DEF View!TakesPref
<1>3. /\ <<View!Changed>> \in Seq(View!Messages)
      /\ \A k \in DOMAIN <<View!Changed>> : <<View!Changed>>[k].is = "state-changed"
  BY Made, Tuples
<1>4. /\ toWindow' = toWindow \o <<View!Changed>>
      /\ UNCHANGED <<changes, job, jobs, building, View!uiVars>>
  BY DEF View!TakesPref, View!Tell
<1>5. UNCHANGED <<live, armed>>
  BY <1>4 DEF View!uiVars
<1>6. toWindow' \in Seq(View!Messages) /\ View!BarsAreJobs' /\ ProgressEnds'
  BY <1>3, <1>4, <1>5, TellStep DEF WindowInv
<1> QED
  BY <1>1, <1>2, <1>4, <1>6, HubStep DEF WindowInv, WindowTypes

\* It queues a job, or refuses.
LEMMA TakesInstallStep == ASSUME WindowInv, View!TakesInstall PROVE WindowInv'
<1>1. calls' \in Seq(View!Calls)
  BY RestOf DEF WindowInv, WindowTypes, View!TakesInstall, View!Takes
<1>2. UNCHANGED <<prefs, changes, building, View!uiVars>> /\ UNCHANGED <<live, armed>>
  BY DEF View!TakesInstall, View!uiVars
<1>3. /\ <<View!Changed>> \in Seq(View!Messages)
      /\ \A k \in DOMAIN <<View!Changed>> : <<View!Changed>>[k].is = "state-changed"
  BY Made, Tuples
<1>4. CASE /\ job = 0 /\ jobs < MaxJobs /\ jobs' = jobs + 1 /\ job' = jobs'
           /\ View!Tell(<<View!Changed>>)
  <2>1. toWindow' \in Seq(View!Messages) /\ View!BarsAreJobs' /\ ProgressEnds'
    BY <1>2, <1>3, <1>4, TellStep DEF WindowInv, View!Tell
  <2>2. jobs' \in 0..MaxJobs /\ job' \in {0, jobs'}
    BY <1>4, WindowBounds DEF WindowInv, WindowTypes
  <2> QED
    BY <1>1, <1>2, <2>1, <2>2, HubStep DEF WindowInv, WindowTypes
<1>5. CASE UNCHANGED <<job, jobs, toWindow>>
  <2>1. View!BarsAreJobs' /\ ProgressEnds'
    BY <1>2, <1>5, QuietStep
  <2> QED
    BY <1>1, <1>2, <1>5, <2>1, HubStep DEF WindowInv, WindowTypes
<1> QED
  BY <1>4, <1>5 DEF View!TakesInstall

\* It cancels one: the end is on the wire before the answer.
LEMMA TakesCancelStep == ASSUME WindowInv, View!TakesCancel PROVE WindowInv'
<1> DEFINE j == Head(calls).job
<1>1. calls' \in Seq(View!Calls) /\ j \in 1..MaxJobs
  BY RestOf, Carried DEF WindowInv, WindowTypes, View!TakesCancel, View!Takes
<1>2. UNCHANGED <<prefs, changes, jobs, building, View!uiVars>> /\ UNCHANGED <<live, armed>>
  BY DEF View!TakesCancel, View!uiVars
<1>3. PICK e \in View!Messages, r \in View!Messages :
        /\ EndsJob(e, j) /\ r.is = "cancelled"
        /\ \/ job = j /\ job' = 0 /\ toWindow' = toWindow \o <<e, View!Changed, r>>
           \/ job' = job /\ toWindow' = toWindow \o <<r>>
  BY <1>1, Made DEF View!TakesCancel, View!Tell, EndsJob
<1> HIDE DEF j
<1>4. CASE job = j /\ job' = 0 /\ toWindow' = toWindow \o <<e, View!Changed, r>>
  <2> DEFINE t == <<e, View!Changed, r>>
  <2>1. /\ t \in Seq(View!Messages) /\ 1 \in DOMAIN t /\ t[1] = e
        /\ \A k \in DOMAIN t : t[k] \in {e, View!Changed, r}
    BY <1>3, Made, Tuples
  <2>2. /\ EndsJob(t[1], job) /\ \A k \in DOMAIN t : t[k].is # "job-progress"
    BY <1>3, <1>4, <2>1, Made DEF EndsJob
  <2> HIDE DEF t
  <2>3. toWindow' = toWindow \o t
    BY <1>4 DEF t
  <2>4. toWindow' \in Seq(View!Messages) /\ View!BarsAreJobs' /\ ProgressEnds'
    BY <1>2, <2>1, <2>2, <2>3, TellStep DEF WindowInv
  <2> QED
    BY <1>1, <1>2, <1>4, <2>4, HubStep DEF WindowInv, WindowTypes
<1>5. CASE job' = job /\ toWindow' = toWindow \o <<r>>
  <2>1. <<r>> \in Seq(View!Messages) /\ \A k \in DOMAIN <<r>> : <<r>>[k].is # "job-progress"
    BY <1>3, Tuples
  <2>2. toWindow' \in Seq(View!Messages) /\ View!BarsAreJobs' /\ ProgressEnds'
    BY <1>2, <1>5, <2>1, TellStep DEF WindowInv
  <2> QED
    BY <1>1, <1>2, <1>5, <2>2, HubStep DEF WindowInv, WindowTypes
<1> QED
  BY <1>3, <1>4, <1>5

\* A job says how far it is.
LEMMA JobGoesOnStep == ASSUME WindowInv, View!JobGoesOn PROVE WindowInv'
<1>1. job \in 1..MaxJobs
  BY WindowBounds DEF WindowInv, WindowTypes, View!JobGoesOn
<1>2. PICK m \in View!Messages :
        m.is = "job-progress" /\ m.job = job /\ toWindow' = toWindow \o <<m>>
  BY <1>1, Made DEF View!JobGoesOn, View!Tell
<1>3. <<m>> \in Seq(View!Messages) /\ \A k \in DOMAIN <<m>> : <<m>>[k].job = job
  BY <1>2, Tuples
<1>4. UNCHANGED <<View!hubVars, building, calls, View!uiVars>>
  BY DEF View!JobGoesOn
<1>5. UNCHANGED <<prefs, changes, job, jobs, live, armed>>
  BY <1>4 DEF View!hubVars, View!uiVars
<1>6. toWindow' \in Seq(View!Messages) /\ View!BarsAreJobs' /\ ProgressEnds'
  BY <1>2, <1>3, <1>5, TellStep DEF WindowInv
<1> QED
  BY <1>4, <1>5, <1>6, HubStep DEF WindowInv, WindowTypes

\* It ends.
LEMMA JobEndsStep == ASSUME WindowInv, View!JobEnds PROVE WindowInv'
<1>1. job \in 1..MaxJobs
  BY WindowBounds DEF WindowInv, WindowTypes, View!JobEnds
<1>2. PICK e \in View!Messages : EndsJob(e, job) /\ toWindow' = toWindow \o <<e, View!Changed>>
  BY <1>1, Made DEF View!JobEnds, View!Tell, EndsJob
<1> DEFINE t == <<e, View!Changed>>
<1>3. /\ t \in Seq(View!Messages) /\ 1 \in DOMAIN t /\ t[1] = e
      /\ \A k \in DOMAIN t : t[k] \in {e, View!Changed}
  BY <1>2, Made, Tuples
<1>4. EndsJob(t[1], job) /\ \A k \in DOMAIN t : t[k].is # "job-progress"
  BY <1>2, <1>3, Made DEF EndsJob
<1> HIDE DEF t
<1>5. /\ toWindow' = toWindow \o t /\ job' = 0
      /\ UNCHANGED <<prefs, changes, jobs, building, calls, View!uiVars>>
  BY <1>2 DEF t, View!JobEnds
<1>6. UNCHANGED <<live, armed>>
  BY <1>5 DEF View!uiVars
<1>7. toWindow' \in Seq(View!Messages) /\ View!BarsAreJobs' /\ ProgressEnds'
  BY <1>3, <1>4, <1>5, <1>6, TellStep DEF WindowInv
<1> QED
  BY <1>5, <1>7, HubStep DEF WindowInv, WindowTypes

\* The window's steps: it asks the hub for something, or not.
LEMMA WindowStep ==
  ASSUME WindowInv, UNCHANGED <<prefs, job, jobs, building>>,
         UNCHANGED calls \/ \E c \in View!Calls : calls' = calls \o <<c>>,
         toWindow' \in Seq(View!Messages), changes' \in 0..MaxChanges,
         win' \in View!View, live' \in 0..View!Pending, armed' \in BOOLEAN,
         clicks' \in 0..MaxClicks,
         UNCHANGED shown, View!BarsAreJobs', ProgressEnds'
  PROVE  WindowInv'
<1>1. calls' \in Seq(View!Calls)
  <2>1. CASE UNCHANGED calls
    BY <2>1 DEF WindowInv, WindowTypes
  <2>2. CASE \E c \in View!Calls : calls' = calls \o <<c>>
    <3>1. PICK c \in View!Calls : calls' = calls \o <<c>>
      BY <2>2
    <3>2. <<c>> \in Seq(View!Calls)
      BY Tuples
    <3> QED
      BY <3>1, <3>2, ConcatProperties DEF WindowInv, WindowTypes
  <2> QED
    BY <2>1, <2>2
<1> QED
  BY <1>1 DEF WindowInv, WindowTypes

\* The window asks for the state every so often.
LEMMA HeartbeatStep == ASSUME WindowInv, View!Heartbeat PROVE WindowInv'
<1>1. \E c \in View!Calls : calls' = calls \o <<c>>
  BY Made DEF View!Heartbeat, View!Ask, View!Pull
<1>2. UNCHANGED <<prefs, changes, job, jobs, building, toWindow, win, live, armed, clicks, shown>>
  BY DEF View!Heartbeat, View!hubVars, View!uiVars
<1>3. View!BarsAreJobs' /\ ProgressEnds'
  BY <1>2, QuietStep
<1> QED
  BY <1>1, <1>2, <1>3, WindowStep DEF WindowInv, WindowTypes

\* It hears the state.
LEMMA HearsStateStep == ASSUME WindowInv, View!HearsState PROVE WindowInv'
<1>1. toWindow # <<>> /\ toWindow' = Tail(toWindow) /\ Head(toWindow).is = "state"
  BY DEF View!HearsState, View!Hears
<1>2. UNCHANGED <<prefs, changes, job, jobs, building, calls, live, armed, clicks, shown>>
  BY DEF View!HearsState, View!hubVars
<1>3. toWindow' \in Seq(View!Messages) /\ View!BarsAreJobs' /\ ProgressEnds'
  BY <1>1, <1>2, HearStep DEF WindowInv
<1>4. Head(toWindow) \in View!Messages
  BY <1>1, RestOf DEF WindowInv, WindowTypes
<1>5. win' \in View!View
  BY <1>1, <1>4, Carried DEF View!HearsState
<1> QED
  BY <1>2, <1>3, <1>5, WindowStep DEF WindowInv, WindowTypes

\* It hears of a change and asks.
LEMMA HearsChangeStep == ASSUME WindowInv, View!HearsChange PROVE WindowInv'
<1>1. toWindow # <<>> /\ toWindow' = Tail(toWindow) /\ Head(toWindow).is = "state-changed"
  BY DEF View!HearsChange, View!Hears
<1>2. UNCHANGED <<prefs, changes, job, jobs, building, win, live, armed, clicks, shown>>
  BY DEF View!HearsChange, View!hubVars, View!uiVars
<1>3. toWindow' \in Seq(View!Messages) /\ View!BarsAreJobs' /\ ProgressEnds'
  BY <1>1, <1>2, HearStep DEF WindowInv
<1>4. \E c \in View!Calls : calls' = calls \o <<c>>
  BY Made DEF View!HearsChange, View!Ask, View!Pull
<1> QED
  BY <1>2, <1>3, <1>4, WindowStep DEF WindowInv, WindowTypes

\* It shows a bar.
LEMMA HearsProgressStep == ASSUME WindowInv, View!HearsProgress PROVE WindowInv'
<1>1. /\ toWindow # <<>> /\ toWindow' = Tail(toWindow) /\ Head(toWindow).is = "job-progress"
      /\ live' = Head(toWindow).job
  BY DEF View!HearsProgress, View!Hears
<1>2. UNCHANGED <<prefs, changes, job, jobs, building, calls, win, armed, clicks, shown>>
  BY DEF View!HearsProgress, View!hubVars
<1>3. toWindow' \in Seq(View!Messages) /\ View!BarsAreJobs' /\ ProgressEnds'
  BY <1>1, <1>2, HearStep DEF WindowInv
<1>4. Head(toWindow) \in View!Messages
  BY <1>1, RestOf DEF WindowInv, WindowTypes
<1>5. live' \in 0..View!Pending
  BY <1>1, <1>4, Carried, WindowBounds DEF View!Pending
<1> QED
  BY <1>2, <1>3, <1>5, WindowStep DEF WindowInv, WindowTypes

\* It takes the bar away.
LEMMA HearsEndStep == ASSUME WindowInv, View!HearsEnd PROVE WindowInv'
<1>1. toWindow # <<>> /\ toWindow' = Tail(toWindow) /\ live' = 0
  BY DEF View!HearsEnd, View!Hears
<1>2. UNCHANGED <<prefs, changes, job, jobs, building, win, armed, clicks, shown>>
  BY DEF View!HearsEnd, View!hubVars
<1>3. toWindow' \in Seq(View!Messages) /\ View!BarsAreJobs' /\ ProgressEnds'
  BY <1>1, <1>2, HearStep DEF WindowInv
<1>4. \E c \in View!Calls : calls' = calls \o <<c>>
  BY Made DEF View!HearsEnd, View!Ask, View!Pull
<1>5. live' \in 0..View!Pending
  BY <1>1, WindowBounds DEF View!Pending
<1> QED
  BY <1>2, <1>3, <1>4, <1>5, WindowStep DEF WindowInv, WindowTypes

\* It takes away the bar of the job it has cancelled.
LEMMA HearsCancelledStep == ASSUME WindowInv, View!HearsCancelled PROVE WindowInv'
<1>1. /\ toWindow # <<>> /\ toWindow' = Tail(toWindow) /\ Head(toWindow).is = "cancelled"
      /\ live' = live \/ live' = 0
  BY DEF View!HearsCancelled, View!Hears
<1>2. UNCHANGED <<prefs, changes, job, jobs, building, calls, win, armed, clicks, shown>>
  BY DEF View!HearsCancelled, View!hubVars
<1>3. toWindow' \in Seq(View!Messages) /\ View!BarsAreJobs' /\ ProgressEnds'
  BY <1>1, <1>2, HearStep DEF WindowInv
<1>4. live' \in 0..View!Pending
  BY <1>1, WindowBounds DEF View!Pending, WindowInv, WindowTypes
<1> QED
  BY <1>2, <1>3, <1>4, WindowStep DEF WindowInv, WindowTypes

\* A bar is shown before the hub has answered.
LEMMA ClickInstallStep == ASSUME WindowInv, View!ClickInstall PROVE WindowInv'
<1>1. /\ clicks < MaxClicks /\ clicks' = clicks + 1 /\ live' = View!Pending /\ armed' = TRUE
      /\ UNCHANGED <<prefs, changes, job, jobs, building, toWindow, win, shown>>
  BY DEF View!ClickInstall, View!hubVars
<1>2. \E c \in View!Calls : calls' = calls \o <<c>>
  BY Made DEF View!ClickInstall, View!Ask
<1>3. View!BarsAreJobs' /\ ProgressEnds'
  BY <1>1, QuietStep
<1>4. live' \in 0..View!Pending /\ clicks' \in 0..MaxClicks
  BY <1>1, WindowBounds DEF View!Pending, WindowInv, WindowTypes
<1> QED
  BY <1>1, <1>2, <1>3, <1>4, WindowStep DEF WindowInv, WindowTypes

\* It is withdrawn when nothing has come of it.
LEMMA TimerFiresStep == ASSUME WindowInv, View!TimerFires PROVE WindowInv'
<1>1. UNCHANGED <<prefs, changes, job, jobs, building, calls, toWindow, win, clicks, shown>>
  BY DEF View!TimerFires, View!hubVars
<1>2. /\ armed' = FALSE
      /\ live' = 0 \/ (live' = live /\ live # View!Pending)
  BY DEF View!TimerFires
<1>3. View!BarsAreJobs' /\ ProgressEnds'
  BY <1>1, <1>2, QuietStep
<1>4. live' \in 0..View!Pending
  BY <1>2, WindowBounds DEF View!Pending, WindowInv, WindowTypes
<1> QED
  BY <1>1, <1>2, <1>3, <1>4, WindowStep DEF WindowInv, WindowTypes

\* A click on the bar.
LEMMA ClickCancelStep == ASSUME WindowInv, View!ClickCancel PROVE WindowInv'
<1>1. \E c \in View!Calls : calls' = calls \o <<c>>
  BY Made DEF View!ClickCancel, View!Ask
<1>2. UNCHANGED <<prefs, changes, job, jobs, building, toWindow, win, live, armed, clicks, shown>>
  BY DEF View!ClickCancel, View!hubVars, View!uiVars
<1>3. View!BarsAreJobs' /\ ProgressEnds'
  BY <1>2, QuietStep
<1> QED
  BY <1>1, <1>2, <1>3, WindowStep DEF WindowInv, WindowTypes

\* A click on a preference.
LEMMA ClickPrefStep == ASSUME WindowInv, NEW f \in Fields, View!ClickPref(f) PROVE WindowInv'
<1>1. [win.prefs EXCEPT ![f] = ~@] \in View!AppPref
  BY DEF WindowInv, WindowTypes, View!View, View!AppPref
<1>2. \E c \in View!Calls : calls' = calls \o <<c>>
  BY <1>1, Made DEF View!ClickPref, View!Ask
<1>3. UNCHANGED <<prefs, job, jobs, building, toWindow, win, live, armed, clicks, shown>>
  BY DEF View!ClickPref, View!uiVars
<1>4. changes' \in 0..MaxChanges
  BY WindowBounds DEF View!ClickPref, WindowInv, WindowTypes
<1>5. View!BarsAreJobs' /\ ProgressEnds'
  BY <1>3, QuietStep
<1> QED
  BY <1>2, <1>3, <1>4, <1>5, WindowStep DEF WindowInv, WindowTypes

\* Every step keeps the invariant.
LEMMA WindowInvStep == ASSUME WindowInv, [View!Next]_View!vars PROVE WindowInv'
<1>1. CASE View!TakesGetState
  BY <1>1, TakesGetStateStep
<1>2. CASE View!TakesPref
  BY <1>2, TakesPrefStep
<1>3. CASE View!TakesInstall
  BY <1>3, TakesInstallStep
<1>4. CASE View!TakesCancel
  BY <1>4, TakesCancelStep
<1>5. CASE \E i \in DOMAIN building : View!Answers(i) \/ View!AnswerFails(i)
  BY <1>5, AnswersStep, AnswerFailsStep
<1>6. CASE View!Hearing
  BY <1>6, HearsStateStep, HearsChangeStep, HearsProgressStep, HearsEndStep,
     HearsCancelledStep DEF View!Hearing
<1>7. CASE \E f \in Fields : View!OthersSet(f) \/ View!ClickPref(f)
  BY <1>7, OthersSetStep, ClickPrefStep
<1>8. CASE View!JobGoesOn \/ View!JobEnds
  BY <1>8, JobGoesOnStep, JobEndsStep
<1>9. CASE View!Heartbeat \/ View!TimerFires \/ View!ClickInstall \/ View!ClickCancel
  BY <1>9, HeartbeatStep, TimerFiresStep, ClickInstallStep, ClickCancelStep
<1>10. CASE UNCHANGED View!vars
  BY <1>10 DEF View!vars, WindowInv, WindowTypes, View!BarsAreJobs, ProgressEnds, EndsJob,
     View!Pending
<1> QED
  BY <1>1, <1>2, <1>3, <1>4, <1>5, <1>6, <1>7, <1>8, <1>9, <1>10 DEF View!Next, View!Hub

\* The safety half of WindowKeepsUp.
CardIsHonest == View!TypeOK /\ View!BarsAreJobs

\* What is in a queue is what it may hold.
LEMMA RangeOf == ASSUME NEW S, NEW s \in Seq(S) PROVE View!Range(s) \subseteq S
BY ElementOfSeq, LenProperties DEF View!Range

\* Whatever is clicked, cancelled, answered late or set elsewhere, and however many jobs there
\* are: a bar on a card is that of the job that runs, or its end or its withdrawal is under way
\* (app.js: on job-progress, job-end; markPending).
THEOREM CardsAlwaysHonest == View!Spec => []CardIsHonest
<1>1. WindowInv => CardIsHonest
  BY RangeOf DEF WindowInv, WindowTypes, CardIsHonest, View!TypeOK
<1> QED
  BY <1>1, WindowInvInit, WindowInvStep, PTL DEF View!Spec

-----------------------------------------------------------------------------
(* The processes of a hub (HubProcesses).                                    *)

\* The safety half of HubsAreSound.
HubsAreSafe ==
  /\ Processes!TypeOK /\ Processes!ServedIsRunning /\ Processes!DaemonsStandAlone
  /\ Processes!StopIsStop

\* Who listens on the bus port stamps the snapshot, and a snapshot that is stamped is
\* fresh; unless a port was taken after a probe, the only daemon that stamps is the one
\* with the bus.
PortsInv ==
  /\ HubsAreSafe
  /\ bus # None => bus \in stampers
  /\ stampers # {} => fresh
  /\ ~raced => \A d \in Processes!Daemons : d \in stampers => bus = d

\* It holds at the start, where nothing runs.
LEMMA PortsInvInit == Processes!Init => PortsInv
<1> SUFFICES ASSUME Processes!Init PROVE PortsInv
  OBVIOUS
<1>1. /\ phase \in [Processes!Hubs -> Processes!Phases] /\ reads \in [Processes!Hubs -> BOOLEAN]
      /\ \A d \in Processes!Daemons : phase[d] # "up"
  BY DEF Processes!Init, Processes!Phases, Processes!Hubs
<1>2. {fleet, fresh, wanted, raced} \subseteq BOOLEAN
  BY Zenon DEF Processes!Init
<1>3. Processes!TypeOK
  BY <1>1, <1>2, HubsAssumed DEF Processes!HubProcessesAssumption, Processes!Init,
     Processes!TypeOK, Processes!Owners
<1>4. bus = None /\ stampers = {} /\ refresh = {}
  BY DEF Processes!Init
<1> QED
  BY <1>1, <1>3, <1>4
     DEF PortsInv, HubsAreSafe, Processes!ServedIsRunning, Processes!DaemonsStandAlone,
         Processes!StopIsStop

\* A process that ends lets go of all that is its own.
LEMMA ExitsStep ==
  ASSUME PortsInv, NEW h \in Processes!Hubs, NEW p \in {"off", "failed"},
         Processes!Exits(h, p), fresh' \in BOOLEAN,
         stampers' # {} => fresh', UNCHANGED <<fleet, unit, raced>>,
         wanted' \in BOOLEAN, crashes' \in 0..MaxCrashes
  PROVE  PortsInv'
<1> USE HubsAssumed DEF Processes!HubProcessesAssumption, PortsInv, HubsAreSafe
<1>1. Processes!TypeOK'
  BY DEF Processes!Exits, Processes!Goes, Processes!Without, Processes!TypeOK, Processes!Phases,
     Processes!Owners
<1>2. Processes!ServedIsRunning' /\ (bus' # None => bus' \in stampers')
  BY DEF Processes!Exits, Processes!Without, Processes!ServedIsRunning, Processes!Verdict
<1>3. Processes!StopIsStop'
  BY DEF Processes!Exits, Processes!Goes, Processes!StopIsStop, Processes!TypeOK,
     Processes!Daemons, Processes!Hubs
<1>4. ~raced' => \A d \in Processes!Daemons : d \in stampers' => bus' = d
  BY DEF Processes!Exits, Processes!Without
<1>5. Processes!DaemonsStandAlone'
  BY DEF Processes!Exits, Processes!Goes, Processes!Without, Processes!DaemonsStandAlone,
     Processes!TypeOK, Processes!Daemons, Processes!Hubs
<1> QED
  BY <1>1, <1>2, <1>3, <1>4, <1>5

\* So for a daemon that is refused.
LEMMA RefusesStep ==
  ASSUME PortsInv, NEW d \in Processes!Daemons, Processes!Refuses(d) PROVE PortsInv'
<1>1. PICK p \in {"off", "failed"} : Processes!Exits(d, p)
  BY DEF Processes!Refuses, Processes!Fails
<1>2. stampers' \subseteq stampers /\ d \in Processes!Hubs
  BY <1>1 DEF Processes!Exits, Processes!Hubs
<1>3. /\ fresh \in BOOLEAN /\ wanted \in BOOLEAN /\ crashes \in 0..MaxCrashes
      /\ stampers # {} => fresh
  BY DEF PortsInv, HubsAreSafe, Processes!TypeOK
<1>4. UNCHANGED <<fleet, fresh, unit, wanted, raced, crashes>>
  BY DEF Processes!Refuses
<1> QED
  BY <1>1, <1>2, <1>3, <1>4, ExitsStep

\* And for a crash.
LEMMA CrashesStep ==
  ASSUME PortsInv, NEW h \in Processes!Hubs, Processes!Crashes(h) PROVE PortsInv'
<1>1. PICK p \in {"off", "failed"} : Processes!Exits(h, p)
  BY DEF Processes!Crashes, Processes!Fails
<1>2. stampers' \subseteq stampers
  BY <1>1 DEF Processes!Exits
<1>3. /\ fresh \in BOOLEAN /\ wanted \in BOOLEAN /\ crashes \in 0..MaxCrashes
      /\ stampers # {} => fresh
  BY DEF PortsInv, HubsAreSafe, Processes!TypeOK
<1>4. crashes' \in 0..MaxCrashes /\ UNCHANGED <<fleet, fresh, unit, wanted, raced>>
  BY <1>3, HubsAssumed DEF Processes!Crashes, Processes!HubProcessesAssumption
<1> QED
  BY <1>1, <1>2, <1>3, <1>4, ExitsStep

\* Every step keeps it.
LEMMA PortsInvStep == PortsInv /\ [Processes!Next]_Processes!vars => PortsInv'
<1> SUFFICES ASSUME PortsInv, [Processes!Next]_Processes!vars PROVE PortsInv'
  OBVIOUS
<1> USE HubsAssumed
    DEF Processes!HubProcessesAssumption, PortsInv, HubsAreSafe, Processes!TypeOK,
        Processes!ServedIsRunning, Processes!Verdict, Processes!DaemonsStandAlone,
        Processes!StopIsStop, Processes!Phases, Processes!Owners, Processes!Hubs,
        Processes!Daemons, Processes!Goes, Processes!Taken, Processes!Without
<1>0. wanted \in BOOLEAN /\ fresh \in BOOLEAN /\ crashes \in 0..MaxCrashes
  OBVIOUS
<1>1. CASE Processes!GuiStarts
  BY <1>1 DEF Processes!GuiStarts
<1>2. CASE Processes!GuiSetsFleet
  BY <1>2 DEF Processes!GuiSetsFleet
<1>3. CASE Processes!OthersSetFleet
  BY <1>3 DEF Processes!OthersSetFleet
<1>4. CASE Processes!GuiQuits
  <2>1. stampers' \subseteq stampers
    BY <1>4 DEF Processes!GuiQuits, Processes!Exits
  <2> QED
    BY <1>4, <2>1, ExitsStep DEF Processes!GuiQuits
<1>5. CASE Processes!SystemdRestarts
  BY <1>5 DEF Processes!SystemdRestarts
<1>6. CASE Processes!SnapshotAges
  BY <1>6 DEF Processes!SnapshotAges
<1>7. CASE Processes!InstallsUnit \/ Processes!UninstallsUnit \/ Processes!UserWritesUnit
  BY <1>7 DEF Processes!InstallsUnit, Processes!UninstallsUnit, Processes!UserWritesUnit
<1>8. ASSUME NEW h \in Processes!Hubs, Processes!Crashes(h) PROVE PortsInv'
  BY <1>8, CrashesStep
<1>9. ASSUME NEW d \in Processes!Daemons, Processes!UserStarts(d) PROVE PortsInv'
  BY <1>9 DEF Processes!UserStarts
<1>10. ASSUME NEW d \in Processes!Daemons, Processes!ProbesBus(d) \/ Processes!ProbesFleet(d)
       PROVE PortsInv'
  <2>1. CASE Processes!Refuses(d)
    BY <2>1, RefusesStep
  <2>2. CASE ~Processes!Refuses(d)
    BY <1>10, <2>2 DEF Processes!ProbesBus, Processes!ProbesFleet
  <2> QED
    BY <2>1, <2>2
<1>11. ASSUME NEW d \in Processes!Daemons, Processes!ComesUp(d) PROVE PortsInv'
  BY <1>11 DEF Processes!ComesUp
<1>12. ASSUME NEW d \in Processes!Daemons, Processes!StopEnds(d) PROVE PortsInv'
  BY <1>12, ExitsStep DEF Processes!StopEnds
<1>13. ASSUME NEW d \in Processes!Daemons, Processes!Signal(d) PROVE PortsInv'
  <2>1. CASE Processes!Exits(d, "off")
    <3>1. stampers' \subseteq stampers
      BY <2>1 DEF Processes!Exits
    <3> QED
      BY <1>13, <2>1, <3>1, ExitsStep DEF Processes!Signal
  <2>2. CASE ~Processes!Exits(d, "off")
    BY <1>13, <2>2 DEF Processes!Signal
  <2> QED
    BY <2>1, <2>2
<1>14. ASSUME NEW d \in Processes!Daemons, Processes!PassBegins(d) \/ Processes!PassEnds(d)
       PROVE PortsInv'
  BY <1>14 DEF Processes!PassBegins, Processes!PassEnds
<1>15. CASE UNCHANGED Processes!vars
  BY <1>15 DEF Processes!vars
<1> QED
  BY <1>1, <1>2, <1>3, <1>4, <1>5, <1>6, <1>7, <1>8, <1>9, <1>10, <1>11, <1>12, <1>13, <1>14,
     <1>15 DEF Processes!Next, Processes!GoesOn

\* Whoever starts, quits, crashes or is refused: a bus that is served is reported as running,
\* daemons stand alone unless a port was taken after their probe, and one that is told to
\* stop begins no refresh (daemon.js, cli/daemon.js).
THEOREM HubsAlwaysSafe == Processes!Spec => []HubsAreSafe
<1>1. PortsInv => HubsAreSafe
  BY DEF PortsInv
<1> QED
  BY PortsInvInit, PortsInvStep, <1>1, PTL DEF Processes!Spec
=============================================================================
