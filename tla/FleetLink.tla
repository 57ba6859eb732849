------------------------------- MODULE FleetLink -------------------------------
(***************************************************************************)
(* The sessions of two hubs (dialPeer, dialSweep, ensureSession, adopt,    *)
(* pair, unpair and close of src/main/fleet/index.js, the handshakes of    *)
(* client.js and server.js, session.js, wire.js, fleet.json in store.js).  *)
(*                                                                         *)
(* A connection is a slot with an end in each hub and two streams of       *)
(* frames.  A session is an end that has passed the challenge; the table   *)
(* `sessions' of a hub names at most one.                                  *)
(*                                                                         *)
(* A hub that switches its fleet off and on goes on with a new instance    *)
(* and a new table.  What the old one was dialling is not called off: such *)
(* a connection is astray (`stray'), and becomes a session of no table.    *)
(*                                                                         *)
(* Beacons, the contents of requests, the sequence numbers and writes to   *)
(* fleet.json by `nx fleet' beside the hub are left out, as are refusals   *)
(* on ids, codes and frames that no hub would send.                        *)
(***************************************************************************)
EXTENDS Integers, FiniteSets, Sequences, SequencesExt

CONSTANTS
  Dialer, Other,  \* the hubs: Dialer has the greater id
  Conns,          \* connection slots
  None,
  MaxTrouble,     \* bound: what users and networks do to the sessions
  MaxCode         \* bound: pairing codes shown

Hubs  == {Dialer, Other}

\* deriveSecret(code, initiator, responder)
Secrets == [code : 0..MaxCode, by : Hubs]

ASSUME LinkAssumption ==
  /\ Dialer # Other /\ None \notin Conns \cup Secrets /\ IsFiniteSet(Conns)
  /\ MaxTrouble \in Nat /\ MaxCode \in Nat

VARIABLES
  peer,     \* hub -> the secret its fleet.json has for the other hub, or None
  conn,     \* slot -> the connection
  entry,    \* hub -> the slot in its table of sessions, or None
  roster,   \* the hubs that show a bus roster of the other
  window,   \* hub -> the pairing code it shows, or None
  codes,    \* codes shown so far
  troubles  \* those so far

vars == <<peer, conn, entry, roster, window, codes, troubles>>

Frames == {"challenge", "auth", "pair", "ready", "paired", "hello", "close"}

TypeOK ==
  /\ peer \in [Hubs -> Secrets \cup {None}]
  /\ DOMAIN conn = Conns
  /\ \A k \in Conns :
       /\ conn[k].from \in Hubs /\ conn[k].stray \in BOOLEAN
       /\ conn[k].key \in Secrets
       /\ conn[k].end \in [Hubs -> {"closed", "challenge", "ready", "answer", "waiting", "paired", "open", "dead"}]
       /\ conn[k].in \in [Hubs -> Seq(Frames)]
  /\ entry \in [Hubs -> Conns \cup {None}]
  /\ roster \subseteq Hubs
  /\ window \in [Hubs -> 1..MaxCode \cup {None}]
  /\ codes \in 0..MaxCode
  /\ troubles \in 0..MaxTrouble

Them(h) == CHOOSE g \in Hubs : g # h

Paired(code, h) == [code |-> code, by |-> h]

Unused == [from |-> Dialer, key |-> Paired(0, Dialer), stray |-> FALSE,
           end |-> [h \in Hubs |-> "closed"], in |-> [h \in Hubs |-> <<>>]]

Open(h, k) == conn[k].end[h] = "open"

\* Closed before the session took its onClose over: nobody will hear of it.
Dead(h, k) == conn[k].end[h] = "dead"

\* The end of h belongs to an instance of its fleet that has been closed.
Astray(h, k) == conn[k].stray /\ conn[k].from = h

\* A slot nobody has an end of.  A table may still name it.
Free == {k \in Conns : /\ \A h \in Hubs : conn[k].end[h] = "closed"
                       /\ \A h \in Hubs : entry[h] # k}

Live(h) == entry[h] # None /\ Open(h, entry[h])

(***************************************************************************)
(* Operations on a connection c by the hub h                               *)
(***************************************************************************)
Turn(c, h, phase) == [c EXCEPT !.end[h] = phase]
Take(c, h)        == [c EXCEPT !.in[h] = Tail(@)]
Post(c, h, frame) == IF \E g \in Hubs : c.end[g] \in {"closed", "dead"} THEN c
                     ELSE [c EXCEPT !.in[Them(h)] = Append(@, frame)]

\* Channel.destroy and .close: frames that come later fall on deaf ears.
Hang(c, h)  == [c EXCEPT !.end[h] = "closed", !.in[h] = <<>>, !.stray = @ /\ c.from # h]
Close(c, h) == Hang(Post(c, h, "close"), h)

Dialled(h, key, phase) ==
  [from |-> h, key |-> key, stray |-> FALSE,
   end |-> [g \in Hubs |-> IF g = h THEN phase ELSE "waiting"],
   in  |-> [g \in Hubs |-> IF g = h THEN <<"challenge">> ELSE <<>>]]

\* MUTANT: the session that was there goes on.
AdoptBeside(h, k, c) ==
  /\ conn' = [conn EXCEPT ![k] = Post(c, h, "hello")]
  /\ entry' = [entry EXCEPT ![h] = k]

\* adopt of the session on slot k, whose connection is now c.  The session that was
\* there is superseded: its onClose is detached and it is closed.  The summary, the
\* roster and the preferences go out on the new one.
Adopt(h, k, c) ==
  /\ conn' = [j \in Conns |-> CASE j = k        -> Post(c, h, "hello")
                                [] j = entry[h] -> Close(conn[j], h)
                                [] OTHER        -> conn[j]]
  /\ entry' = [entry EXCEPT ![h] = k]

\* MUTANT: the roster outlives the session.
ForgetSession(h, k) ==
  /\ entry' = IF entry[h] = k THEN [entry EXCEPT ![h] = None] ELSE entry
  /\ UNCHANGED roster

\* MUTANT: the session stays in the table.
ForgetRoster(h, k) ==
  /\ roster' = IF entry[h] = k THEN roster \ {h} ELSE roster
  /\ UNCHANGED entry

\* The onClose of a session that is in the table.
Forget(h, k) ==
  IF entry[h] = k
  THEN /\ entry' = [entry EXCEPT ![h] = None]
       /\ roster' = roster \ {h}
  ELSE UNCHANGED <<entry, roster>>

Trouble == troubles < MaxTrouble /\ troubles' = troubles + 1

Init ==
  /\ \/ peer = [h \in Hubs |-> None]
     \/ peer = [h \in Hubs |-> Paired(0, Dialer)]
  /\ conn = [k \in Conns |-> Unused]
  /\ entry = [h \in Hubs |-> None]
  /\ roster = {}
  /\ window = [h \in Hubs |-> None]
  /\ codes = 0
  /\ troubles = 0

\* The slot of the next connection, any free one.
Slot == CHOOSE k \in Free : TRUE

(***************************************************************************)
(* Dialling                                                                *)
(***************************************************************************)
Dialling(h) ==
  \E k \in Conns : /\ conn[k].from = h /\ ~conn[k].stray
                   /\ conn[k].end[h] \in {"challenge", "ready"}

Dial(h) ==
  /\ peer[h] # None /\ ~Dialling(h)
  /\ Free # {}
  /\ conn' = [conn EXCEPT ![Slot] = Dialled(h, peer[h], "challenge")]

\* dialSweep, and the beacon of a paired hub: only the greater id, only when the
\* table has no session.
Sweep ==
  /\ entry[Dialer] = None
  /\ Dial(Dialer)
  /\ UNCHANGED <<peer, entry, roster, window, codes, troubles>>

\* ensureSession, for a request of the user: whichever hub, when no session is alive.
EnsureSession(h) ==
  /\ ~Live(h)
  /\ Dial(h) /\ Trouble
  /\ UNCHANGED <<peer, entry, roster, window, codes>>

(***************************************************************************)
(* The server half                                                         *)
(***************************************************************************)
Serves(h, k, frame) == conn[k].end[h] = "waiting" /\ conn[k].in[h] # <<>> /\ Head(conn[k].in[h]) = frame

\* handleAuth: the caller is known by the secret that fleet.json has now.
Accept(h, k) ==
  /\ Serves(h, k, "auth")
  /\ peer[h] = conn[k].key
  /\ Adopt(h, k, Post(Turn(Take(conn[k], h), h, "open"), h, "ready"))
  /\ UNCHANGED <<peer, roster, window, codes, troubles>>

\* MUTANT: the code itself is stored, not the secret derived from it.
GrantCode(h, k) ==
  /\ Serves(h, k, "pair")
  /\ window[h] = conn[k].key.code
  /\ peer' = [peer EXCEPT ![h] = window[h]]
  /\ conn' = [conn EXCEPT ![k] = Post(Turn(Take(@, h), h, "paired"), h, "paired")]
  /\ UNCHANGED <<entry, roster, window, codes, troubles>>

\* handlePair in time, with the code on the screen.
Grant(h, k) ==
  /\ Serves(h, k, "pair")
  /\ window[h] = conn[k].key.code
  /\ peer' = [peer EXCEPT ![h] = conn[k].key]
  /\ conn' = [conn EXCEPT ![k] = Post(Turn(Take(@, h), h, "paired"), h, "paired")]
  /\ UNCHANGED <<entry, roster, window, codes, troubles>>

Refuse(h, k) ==
  /\ \/ Serves(h, k, "auth") /\ peer[h] # conn[k].key
     \/ Serves(h, k, "pair") /\ window[h] # conn[k].key.code
  /\ conn' = [conn EXCEPT ![k] = Close(@, h)]
  /\ UNCHANGED <<peer, entry, roster, window, codes, troubles>>

\* One-shot: the connection that paired is hung up after 50 ms.
HangUp(h, k) ==
  /\ conn[k].end[h] = "paired"
  /\ conn' = [conn EXCEPT ![k] = Close(@, h)]
  /\ UNCHANGED <<peer, entry, roster, window, codes, troubles>>

(***************************************************************************)
(* The client half                                                         *)
(***************************************************************************)
Gets(h, k, phase, frame) ==
  conn[k].end[h] = phase /\ conn[k].in[h] # <<>> /\ Head(conn[k].in[h]) = frame

\* connect and pairWith answer the challenge; a pairing's key is not in fleet.json.
Answer(h, k) ==
  /\ Gets(h, k, "challenge", "challenge")
  /\ conn' = [conn EXCEPT ![k] = Post(Turn(Take(@, h), h, "ready"), h, "auth")]
  /\ UNCHANGED <<peer, entry, roster, window, codes, troubles>>

OfferCode(h, k) ==
  /\ Gets(h, k, "answer", "challenge")
  /\ conn' = [conn EXCEPT ![k] = Post(Take(@, h), h, "pair")]
  /\ UNCHANGED <<peer, entry, roster, window, codes, troubles>>

\* connect returns a session, and dialPeer adopts it: fleet.json is not read again.
Ready(h, k) ==
  /\ Gets(h, k, "ready", "ready") /\ ~Astray(h, k)
  /\ Adopt(h, k, Turn(Take(conn[k], h), h, "open"))
  /\ UNCHANGED <<peer, roster, window, codes, troubles>>

\* The adopt of a closed instance: into its own table, which is empty, and with no
\* roster and no preferences.  Its requests are served.
ReadyAstray(h, k) ==
  /\ Gets(h, k, "ready", "ready") /\ Astray(h, k)
  /\ conn' = [conn EXCEPT ![k] = Turn(Take(@, h), h, "open")]
  /\ UNCHANGED <<peer, entry, roster, window, codes, troubles>>

\* The same when the read that brought `ready' brought the close frame too.  The
\* channel is closed before the session takes its onClose over, and what came
\* between is not replayed.
ReadyAndClosed(h, k) ==
  /\ Gets(h, k, "ready", "ready") /\ Contains(conn[k].in[h], "close")
  /\ IF Astray(h, k)
     THEN conn' = [conn EXCEPT ![k] = Hang(@, h)] /\ UNCHANGED entry
     ELSE Adopt(h, k, Turn(Hang(conn[k], h), h, "dead"))
  /\ UNCHANGED <<peer, roster, window, codes, troubles>>

\* pair stores the peer, and dials when this hub is to: also with a session open,
\* but not for a closed instance (dialPeer).
PairingDone(h, k) ==
  /\ Gets(h, k, "answer", "paired")
  /\ peer' = [peer EXCEPT ![h] = conn[k].key]
  /\ \/ /\ h = Dialer /\ ~Dialling(h) /\ ~Astray(h, k) /\ Free # {}
        /\ conn' = [conn EXCEPT ![k] = Close(@, h), ![Slot] = Dialled(h, conn[k].key, "challenge")]
     \/ /\ h # Dialer \/ Dialling(h) \/ Astray(h, k)
        /\ conn' = [conn EXCEPT ![k] = Close(@, h)]
  /\ UNCHANGED <<entry, roster, window, codes, troubles>>

(***************************************************************************)
(* Both halves                                                             *)
(***************************************************************************)
\* onPayload of a session: the roster of the other hub.  (What a closed instance
\* hears is in its own rosters, and not shown.)
Hear(h, k) ==
  /\ Gets(h, k, "open", "hello")
  /\ conn' = [conn EXCEPT ![k] = Take(@, h)]
  /\ roster' = IF Astray(h, k) THEN roster ELSE roster \cup {h}
  /\ UNCHANGED <<peer, entry, window, codes, troubles>>

\* The close frame, or the end of the socket.
Closed(h, k) ==
  /\ conn[k].in[h] # <<>> /\ Head(conn[k].in[h]) = "close"
  /\ conn' = [conn EXCEPT ![k] = Hang(@, h)]
  /\ Forget(h, k)
  /\ UNCHANGED <<peer, window, codes, troubles>>

\* dialTimeoutMs of the client, authGraceMs of the server.
Timeout(h, k) ==
  /\ conn[k].end[h] \in {"challenge", "ready", "answer", "waiting"}
  /\ Trouble
  /\ conn' = [conn EXCEPT ![k] = Close(@, h)]
  /\ UNCHANGED <<peer, entry, roster, window, codes>>

\* The network gives up: what is under way is lost.
Drop(k) ==
  /\ \E h \in Hubs : conn[k].end[h] \notin {"closed", "dead"}
  /\ Trouble
  /\ conn' = [conn EXCEPT ![k].in =
                [h \in Hubs |-> IF conn[k].end[h] \in {"closed", "dead"} THEN <<>> ELSE <<"close">>]]
  /\ UNCHANGED <<peer, entry, roster, window, codes>>

\* The hub starts again with fleet.json: of what it had nothing is left but the
\* connections `kept', of which it knows no more.
StartsAgain(h, kept) ==
  /\ Trouble
  /\ conn' = [k \in Conns |->
                IF k \in kept THEN [conn[k] EXCEPT !.stray = @ \/ conn[k].from = h]
                ELSE Close(conn[k], h)]
  /\ entry' = [entry EXCEPT ![h] = None]
  /\ roster' = roster \ {h}
  /\ window' = [window EXCEPT ![h] = None]
  /\ UNCHANGED <<peer, codes>>

\* Its process ends, and with it every connection.
Restart(h) == StartsAgain(h, {})

\* close closes the sessions of the table and, with the server, the callers that have
\* not passed the challenge.  A dial or a pairing under way, what went astray before,
\* and a caller that has just paired (hung up by its own timer) go on.
LeftAlone(h) ==
  {k \in Conns : \/ Astray(h, k)
                 \/ conn[k].from = h /\ conn[k].end[h] \in {"challenge", "ready", "answer"}
                 \/ conn[k].end[h] = "paired"}

\* syncFleet: the setting is switched off and on.  (In one step: while it is off the
\* hub dials nobody, and a dial to it is refused, as good as not made.)
Switch(h) == StartsAgain(h, LeftAlone(h))

(***************************************************************************)
(* The user                                                                *)
(***************************************************************************)
ShowCode(h) ==
  /\ codes < MaxCode
  /\ Trouble
  /\ codes' = codes + 1
  /\ window' = [window EXCEPT ![h] = codes + 1]
  /\ UNCHANGED <<peer, conn, entry, roster>>

WindowEnds(h) ==
  /\ window[h] # None
  /\ window' = [window EXCEPT ![h] = None]
  /\ UNCHANGED <<peer, conn, entry, roster, codes, troubles>>

\* The code that the other hub shows, typed at this one.
Pair(h) ==
  /\ window[Them(h)] # None
  /\ Trouble
  /\ Free # {}
  /\ conn' = [conn EXCEPT ![Slot] = Dialled(h, Paired(window[Them(h)], h), "answer")]
  /\ UNCHANGED <<peer, entry, roster, window, codes>>

\* MUTANT: the session is forgotten, and not closed.
UnpairQuietly(h) ==
  /\ peer[h] # None
  /\ Trouble
  /\ peer' = [peer EXCEPT ![h] = None]
  /\ entry' = [entry EXCEPT ![h] = None]
  /\ roster' = roster \ {h}
  /\ UNCHANGED <<conn, window, codes>>

\* unpair: out of fleet.json, and the session is closed.
Unpair(h) ==
  /\ peer[h] # None
  /\ Trouble
  /\ peer' = [peer EXCEPT ![h] = None]
  /\ conn' = [k \in Conns |-> IF k = entry[h] THEN Close(conn[k], h) ELSE conn[k]]
  /\ entry' = [entry EXCEPT ![h] = None]
  /\ roster' = roster \ {h}
  /\ UNCHANGED <<window, codes>>

Deliver(h, k) ==
  \/ Accept(h, k) \/ Grant(h, k) \/ Refuse(h, k) \/ HangUp(h, k)
  \/ Answer(h, k) \/ OfferCode(h, k)
  \/ Ready(h, k) \/ ReadyAstray(h, k) \/ ReadyAndClosed(h, k)
  \/ PairingDone(h, k) \/ Hear(h, k) \/ Closed(h, k)

Next ==
  \/ Sweep
  \/ \E h \in Hubs :
       \/ EnsureSession(h) \/ Restart(h) \/ Switch(h)
       \/ ShowCode(h) \/ WindowEnds(h) \/ Pair(h) \/ Unpair(h)
       \/ \E k \in Conns : Deliver(h, k) \/ Timeout(h, k)
  \/ \E k \in Conns : Drop(k)

\* What has been sent arrives, and the sweep goes round.
Fairness ==
  /\ WF_vars(Sweep)
  /\ \A h \in Hubs, k \in Conns : WF_vars(Deliver(h, k))

Spec == Init /\ [][Next]_vars /\ Fairness

(***************************************************************************)
(* Properties                                                              *)
(***************************************************************************)
\* The table knows every session: an end that has passed the challenge, whose
\* requests the hub would serve, is the one in the table, and there is no other,
\* but for those that a closed instance has dialled; the table names nothing else,
\* but for a session that was dead when it came.
TableIsExact ==
  \A h \in Hubs, k \in Conns :
    entry[h] = k <=> (Open(h, k) \/ Dead(h, k)) /\ ~Astray(h, k)

\* A hub serves nobody it is not paired with: while an end that it accepted is
\* open, fleet.json holds a secret.
AcceptedArePaired ==
  \A h \in Hubs, k \in Conns : Open(h, k) /\ conn[k].from # h => peer[h] # None

\* The roster of the other hub is shown only while the table has a session with it.
RosterIsLive ==
  \A h \in roster : entry[h] # None

\* All of this together, through crossing dials, superseded sessions, restarts,
\* pairings and unpairings.
SessionsAreSound == TypeOK /\ TableIsExact /\ AcceptedArePaired /\ RosterIsLive

Agree  == peer[Dialer] # None /\ peer[Dialer] = peer[Other]
Linked == entry[Dialer] = entry[Other] /\ \A h \in Hubs : Live(h)

\* Two hubs that hold the same secret get one session, known to both, whatever
\* was dialled, dropped, restarted or paired before.  A dead session in the table
\* keeps the sweep from dialling; only a request of the user replaces it.  So does
\* a session that the other hub has astray; the dialler's own is superseded.
Settles ==
  Agree /\ \A k \in Conns : /\ \A h \in Hubs : ~Dead(h, k)
                            /\ ~(Open(Other, k) /\ Astray(Other, k))

Relinked == <>[]Settles => <>[]Linked
=============================================================================
