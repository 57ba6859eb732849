-------------------------------- MODULE Bus --------------------------------
(***************************************************************************)
(* The connector bus (src/main/connector/server.js): apps open a loopback  *)
(* WebSocket, say hello, stream their status and are pinged; an app is     *)
(* present while the socket of its latest hello is open.  What the others  *)
(* of the hub know of it (stack triggers, supervisor, recorder, roster)    *)
(* is what they read when a debounced change is announced.                 *)
(*                                                                         *)
(* Each socket carries one status field here.  Frames and their limits are *)
(* left out: a message that breaks one hangs the socket up (HangsUp), one  *)
(* beyond the rate of four a second counts as heard (Heard) and no more.   *)
(*                                                                         *)
(* A chunk of bytes may hold several messages.  When one of them hangs the *)
(* socket up, those behind it in the same chunk are handled all the same.  *)
(***************************************************************************)
EXTENDS Integers, Sequences

CONSTANTS
    Conns,      \* sockets open at a time
    Apps,       \* ids of the apps
    None,       \* no app, no value
    Text,       \* a status value that is not a number
    Numbers,    \* the numbers an app reports
    ReapAfter,  \* sweeps a client may be silent for (90 s of pings each 30 s)
    RingSize,   \* samples kept of a field (server.js: 120)
    Points      \* samples handed out of a field (60)

BusAssumption ==
    /\ ReapAfter \in Nat /\ RingSize \in Nat \ {0} /\ Points \in Nat \ {0}
    /\ Text \notin Numbers /\ None \notin Numbers /\ None # Text /\ None \notin Apps \union Conns

VARIABLES
    conn,    \* the sockets
    rest,    \* the socket hung up by a message of a chunk that is not at its end
    byApp,   \* app -> the socket of its latest hello, None when absent
    timer,   \* a change waits for its announcement
    told,    \* the apps that were present at the last announcement
    closed   \* the bus has stopped

vars == <<conn, rest, byApp, timer, told, closed>>

(* A socket: `app` from its hello on; `quiet` sweeps since it was heard;   *)
(* `value` and `ring` of its field.  Of the client: it answers (`alive`),  *)
(* it owes an answer to a ping (`asked`).  A ghost: its hello came behind  *)
(* the message that hung it up (`late`).                                   *)
Fresh == [open |-> TRUE, app |-> None, quiet |-> 0, value |-> None, ring |-> <<>>,
          alive |-> TRUE, asked |-> FALSE, late |-> FALSE]
Gone  == [Fresh EXCEPT !.open = FALSE]

Present == {a \in Apps : byApp[a] # None}

TypeOK ==
    /\ conn \in [Conns -> [open: BOOLEAN, app: Apps \union {None}, quiet: 0..ReapAfter,
                           value: Numbers \union {None, Text}, ring: Seq(Numbers),
                           alive: BOOLEAN, asked: BOOLEAN, late: BOOLEAN]]
    /\ \A c \in Conns : Len(conn[c].ring) <= RingSize
    /\ byApp \in [Apps -> Conns \union {None}] /\ rest \in Conns \union {None}
    /\ timer \in BOOLEAN /\ told \subseteq Apps /\ closed \in BOOLEAN

Init ==
    /\ conn = [c \in Conns |-> Gone]
    /\ byApp = [a \in Apps |-> None] /\ rest = None
    /\ timer = FALSE /\ told = {} /\ closed = FALSE

-----------------------------------------------------------------------------
(* notifyChange: one timer at a time, four announcements a second.         *)
Notify(changed) == timer' = (timer \/ changed)

Fire ==
    /\ timer /\ ~closed /\ rest = None
    /\ timer' = FALSE
    /\ told' = Present
    /\ UNCHANGED <<conn, rest, byApp, closed>>

(* dropConn: the app is unregistered if its socket is the registered one.  *)
Registered(cs) == {a \in Apps : byApp[a] \in cs}

(* Mutant: an app that leaves is not announced.                            *)
DropQuietly(cs) ==
    /\ conn' = [c \in Conns |-> IF c \in cs THEN Gone ELSE conn[c]]
    /\ byApp' = [a \in Apps |-> IF a \in Registered(cs) THEN None ELSE byApp[a]]
    /\ Notify(FALSE)

Drop(cs) ==
    /\ conn' = [c \in Conns |-> IF c \in cs THEN Gone ELSE conn[c]]
    /\ byApp' = [a \in Apps |-> IF a \in Registered(cs) THEN None ELSE byApp[a]]
    /\ Notify(Registered(cs) # {})

-----------------------------------------------------------------------------
(* What the clients send.                                                  *)

Connect(c) ==
    /\ ~closed /\ rest = None /\ conn[c] = Gone
    /\ conn' = [conn EXCEPT ![c] = Fresh]
    /\ UNCHANGED <<rest, byApp, timer, told, closed>>

(* A socket whose next message is handled: any that is open, and in a      *)
(* chunk one of whose messages has hung it up only that one.               *)
Speaks(c) == IF rest = None THEN conn[c].open /\ conn[c].alive ELSE rest = c

(* A hello on c: the status starts again from nothing.                     *)
Greeted(c, a) == [Fresh EXCEPT !.app = a, !.asked = conn[c].asked,
                               !.open = conn[c].open, !.late = ~conn[c].open]

(* Mutant: a second hello keeps the first id registered too.               *)
HelloBeside(c, a) ==
    LET old == {d \in Conns \ {c} : byApp[a] = d}
    IN /\ Speaks(c)
       /\ conn' = [d \in Conns |-> IF d = c THEN Greeted(c, a)
                                   ELSE IF d \in old THEN Gone ELSE conn[d]]
       /\ byApp' = [byApp EXCEPT ![a] = c]
       /\ Notify(TRUE)
       /\ UNCHANGED <<rest, told, closed>>

(* onHello with the right token: the latest hello wins, an older socket of *)
(* the app is closed; a socket that says hello under another id releases   *)
(* the first one.  Nothing asks whether the socket has been hung up.       *)
Hello(c, a) ==
    LET old == {d \in Conns \ {c} : byApp[a] = d}
    IN /\ Speaks(c)
       /\ conn' = [d \in Conns |-> IF d = c THEN Greeted(c, a)
                                   ELSE IF d \in old THEN Gone ELSE conn[d]]
       /\ byApp' = [b \in Apps |-> IF b = a THEN c ELSE IF byApp[b] = c THEN None ELSE byApp[b]]
       /\ Notify(TRUE)
       /\ UNCHANGED <<rest, told, closed>>

(* pruneRing: the newest RingSize samples.                                 *)
Pruned(ring) ==
    LET over == IF Len(ring) > RingSize THEN Len(ring) - RingSize ELSE 0
    IN SubSeq(ring, over + 1, Len(ring))

(* Mutant: a value that is not a number leaves the line as it was.         *)
RecordedOn(ring, v) == IF v \in Numbers THEN Pruned(Append(ring, v)) ELSE ring

(* recordHistory: a value that is not a number ends the line.              *)
Recorded(ring, v) == IF v \in Numbers THEN Pruned(Append(ring, v)) ELSE <<>>

(* onStatus of a socket that has said hello.                               *)
Status(c, v) ==
    /\ Speaks(c) /\ conn[c].app # None
    /\ conn' = [conn EXCEPT ![c].value = v, ![c].ring = Recorded(@, v), ![c].quiet = 0]
    /\ Notify(TRUE)
    /\ UNCHANGED <<rest, byApp, told, closed>>

(* Mutant: a pong is no sign of life.                                      *)
HeardNot(c) ==
    /\ rest = None /\ conn[c].open /\ conn[c].alive
    /\ conn' = [conn EXCEPT ![c].asked = FALSE]
    /\ UNCHANGED <<rest, byApp, timer, told, closed>>

(* Any other message: a pong, a status beyond the rate.                    *)
Heard(c) ==
    /\ rest = None /\ conn[c].open /\ conn[c].alive
    /\ conn' = [conn EXCEPT ![c].quiet = 0, ![c].asked = FALSE]
    /\ UNCHANGED <<rest, byApp, timer, told, closed>>

(* The oldest sample is ten minutes old (HISTORY_WINDOW_MS): drawn no more. *)
Ages(c) ==
    /\ rest = None /\ conn[c].ring # <<>>
    /\ conn' = [conn EXCEPT ![c].ring = Tail(@)]
    /\ UNCHANGED <<rest, byApp, timer, told, closed>>

(* The end or an error of the socket; bytes that are no frame, which the   *)
(* parser does not go on from.                                             *)
Leaves(c) ==
    /\ rest = None /\ conn[c].open
    /\ Drop({c})
    /\ UNCHANGED <<rest, told, closed>>

(* bye, a close frame, a hello with a wrong token, a status before the     *)
(* hello, a message that makes no sense or breaks a limit: the socket is   *)
(* closed, and the parser drains the chunk.  (Of what the socket carried   *)
(* only the app matters from then on.)                                     *)
HangsUp(c) ==
    /\ rest = None /\ conn[c].open /\ conn[c].alive
    /\ conn' = [conn EXCEPT ![c] = [Gone EXCEPT !.app = conn[c].app]]
    /\ byApp' = [a \in Apps |-> IF byApp[a] = c THEN None ELSE byApp[a]]
    /\ Notify(Registered({c}) # {})
    /\ rest' = c
    /\ UNCHANGED <<told, closed>>

(* What it carried is forgotten, unless it has said hello again.           *)
ChunkEnds ==
    /\ rest # None /\ rest' = None
    /\ conn' = IF Registered({rest}) = {} THEN [conn EXCEPT ![rest] = Gone] ELSE conn
    /\ UNCHANGED <<byApp, timer, told, closed>>

(* The app hangs: its socket stays open and says nothing any more.         *)
Hangs(c) ==
    /\ rest = None /\ conn[c].open /\ conn[c].alive
    /\ conn' = [conn EXCEPT ![c].alive = FALSE]
    /\ UNCHANGED <<rest, byApp, timer, told, closed>>

-----------------------------------------------------------------------------
(* Mutant: only sockets without a hello are reaped.                        *)
ReapedStrangers(c) == conn[c].open /\ conn[c].quiet >= 1 /\ conn[c].app = None

(* sweep: every 30 seconds.  A socket without a hello is dropped once it   *)
(* is ten seconds old, a silent one after ReapAfter sweeps; the rest are   *)
(* pinged.  A client that is alive answers within the 30 seconds.          *)
Reaped(c) ==
    conn[c].open /\ conn[c].quiet >= (IF conn[c].app = None THEN 1 ELSE ReapAfter)

Young == {c \in Conns : conn[c].open /\ conn[c].app = None /\ conn[c].quiet = 0}

Sweep ==
    /\ ~closed /\ rest = None
    /\ \A c \in Conns : conn[c].open /\ conn[c].alive => ~conn[c].asked
    /\ \E late \in SUBSET Young :
          LET out == {c \in Conns : Reaped(c)} \union late
          IN /\ conn' = [c \in Conns |->
                           IF c \in out THEN Gone
                           ELSE IF ~conn[c].open THEN conn[c]
                           ELSE [conn[c] EXCEPT !.quiet = IF @ < ReapAfter THEN @ + 1 ELSE @,
                                                !.asked = conn[c].app # None]]
             /\ byApp' = [a \in Apps |-> IF a \in Registered(out) THEN None ELSE byApp[a]]
             /\ Notify(Registered(out) # {})
    /\ UNCHANGED <<rest, told, closed>>

(* close: no announcement of what it drops.                                *)
Close ==
    /\ ~closed /\ rest = None /\ closed' = TRUE
    /\ conn' = [c \in Conns |-> Gone]
    /\ byApp' = [a \in Apps |-> None]
    /\ timer' = FALSE
    /\ UNCHANGED <<rest, told>>

Next ==
    \/ Fire \/ Sweep \/ Close \/ ChunkEnds
    \/ \E c \in Conns :
          \/ Connect(c) \/ Heard(c) \/ Ages(c) \/ Leaves(c) \/ HangsUp(c) \/ Hangs(c)
          \/ \E a \in Apps : Hello(c, a)
          \/ \E v \in Numbers \union {Text} : Status(c, v)

(* Timers fire, a chunk has an end, and a client that is alive answers its *)
(* pings: the sweeps, and the answers each of them brings, go on.  (Strong *)
(* fairness, since the rest of a chunk goes before.)                       *)
Pinging == Sweep \/ \E c \in Conns : Heard(c) /\ conn[c].asked

Fairness == WF_vars(Fire) /\ WF_vars(ChunkEnds) /\ SF_vars(Pinging)

Spec == Init /\ [][Next]_vars /\ Fairness

-----------------------------------------------------------------------------
(* getClients: the ring thinned to Points samples, counting back from the  *)
(* newest (downsample).                                                    *)
Thinned(ring) ==
    LET stride == (Len(ring) + Points - 1) \div Points
        n      == (Len(ring) - 1) \div stride + 1
    IN IF Len(ring) <= Points THEN ring
       ELSE [i \in 1..n |-> ring[Len(ring) - (n - i) * stride]]

-----------------------------------------------------------------------------
(* Properties.                                                             *)

(* Presence is an open socket (server.js:756), but for one case: the table *)
(* holds exactly the sockets that have said hello, each under its one id,  *)
(* and are open, or have said it in the chunk that closed them.  It holds  *)
(* through evictions, second hellos and drops.                             *)
PresenceIsExact ==
    \A a \in Apps, c \in Conns :
        byApp[a] = c <=> conn[c].app = a /\ (conn[c].open \/ conn[c].late)

(* No change is missed: when the listeners' view is not the table's, an    *)
(* announcement is on its way.                                             *)
NoMissedChange == ~closed /\ told # Present => timer

(* A sparkline ends on the number printed beside it and holds no more than *)
(* its points: no sample survives the run, or the value, it came from.     *)
LineEndsOnValue ==
    \A c \in Conns :
        LET line == Thinned(conn[c].ring)
        IN /\ Len(line) <= Points
           /\ line # <<>> => line[Len(line)] = conn[c].value

(* All of it: whoever asks sees who is there and what it reports, and      *)
(* whoever listens is told of it.                                          *)
PresenceIsKnown == TypeOK /\ PresenceIsExact /\ NoMissedChange /\ LineEndsOnValue

(* A sweep drops no app that answers its pings, however little it says.    *)
AliveStays ==
    [][Sweep => \A c \in Conns : conn[c].open /\ conn[c].app # None /\ conn[c].alive
                                    => conn'[c].open]_vars

(* An app that hangs does not keep its presence: it is reaped, it goes or  *)
(* another instance takes its place.                                       *)
HungIsReleased ==
    \A c \in Conns : conn[c].open /\ ~conn[c].alive ~> ~conn[c].open

(* Both together: the pings tell an app that hangs from one that is quiet. *)
ReapsTheHung == AliveStays /\ HungIsReleased
=============================================================================
