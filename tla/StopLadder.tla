------------------------------ MODULE StopLadder ------------------------------
(***************************************************************************)
(* What runs of one app, and the ladder that ends it (src/main/running.js),*)
(* as the window climbs it for a click and as `nx stop` climbs it.         *)
(*                                                                         *)
(* Two truths are joined: the launches the window's hub watches, and the   *)
(* one program that has said hello on the bus for the app.  The window     *)
(* asks first, waits 2.5 s for the program to leave the bus, and then      *)
(* signals; `nx stop` is another process, sees the bus by the file the     *)
(* hub writes, watches nothing and cannot ask.                             *)
(*                                                                         *)
(* That a stop is written down as the reason of the exit that follows is   *)
(* StopApp of Watchdog; a stop on another machine is FleetRequest's.       *)
(***************************************************************************)
EXTENDS Naturals

CONSTANTS MaxProcs,  \* bound: launches of the app
          Arts,    \* its artifacts
          ArtOf,   \* process -> the artifact it was installed as
          Unnamed,     \* a stop that names no artifact, and a row that knows none
          Cli,     \* `nx stop`
          None,
          MaxHellos  \* bound: times a program says hello

LadderAssumption ==
  /\ MaxProcs \in Nat /\ MaxHellos \in Nat
  /\ ArtOf \in [1..MaxProcs -> Arts] /\ Unnamed \notin Arts /\ None \notin Nat
  /\ Cli \notin Arts \union {Unnamed}

Procs == 1..MaxProcs   \* numbered as they are launched

\* The window has one stop under way for each control, that is for each artifact.
Wanted  == Arts \union {Unnamed}
Callers == Wanted \union {Cli}

VARIABLES
    up,        \* the processes that run
    begun,     \* how many have been launched
    tracked,   \* the launches the hub watches: it may not have seen an exit yet
    client,    \* who is on the bus for the app: it may be dead already
    tells,     \* its hello had a pid
    since,     \* how many had been launched when it said hello
    hellos,
    file,      \* what connector-clients.json says: who, and whether with a pid
    signalled, \* processes that run and got SIGTERM
    call,      \* control -> the row its stop acts on while it waits, and whom it asked
    sole,      \* history: callers at whose call the hub knew of one copy only
    joined,    \* history: callers during whose wait a program has said hello
    shown,     \* the window has drawn the app as running
    pending    \* the controls that say "Stopping"

hubVars  == <<tracked, client, tells, since>>
procVars == <<up, begun, hellos, file>>
callVars == <<call, sole, joined, shown, pending>>
vars     == <<hubVars, procVars, signalled, callVars>>

NoRow   == [art |-> Unnamed, pid |-> None]
RowSet  == [art : Wanted, pid : Procs \union {None}]

TypeOK ==
    /\ up \subseteq Procs /\ begun \in 0..MaxProcs /\ tracked \subseteq Procs
    /\ client \in Procs \union {None} /\ tells \in BOOLEAN
    /\ since \in 0..MaxProcs /\ hellos \in 0..MaxHellos
    /\ file \in [who : Procs \union {None}, tells : BOOLEAN]
    /\ signalled \subseteq Procs
    /\ call \in [Wanted -> {None} \union [row : RowSet, asked : Procs]]
    /\ sole \subseteq Wanted /\ joined \subseteq Wanted
    /\ pending \subseteq Wanted /\ shown \in BOOLEAN

Init ==
    /\ up = {} /\ begun = 0 /\ tracked = {} /\ client = None /\ tells = FALSE
    /\ since = 0 /\ hellos = 0 /\ file = [who |-> None, tells |-> FALSE]
    /\ signalled = {} /\ call = [c \in Wanted |-> None]
    /\ sole = {} /\ joined = {} /\ shown = FALSE /\ pending = {}

-----------------------------------------------------------------------------
(* list                                                                    *)

Born(p) == 2 * p

\* One row for an artifact, of its newest launch.
HubRows(watched) ==
    {[art |-> ArtOf[p], pid |-> p, since |-> Born(p), source |-> "hub"] :
        p \in {p \in watched : \A q \in watched : ArtOf[q] = ArtOf[p] => Born(q) <= Born(p)}}

\* The program on the bus is taken for the newest launch, which keeps its pid
\* and gets the older of the two start times.
Fold(rows, who, pidToo, at) ==
    IF who = None THEN rows
    ELSE IF rows = {}
    THEN {[art |-> Unnamed, pid |-> IF pidToo THEN who ELSE None, since |-> at, source |-> "bus"]}
    ELSE LET host == CHOOSE r \in rows : \A q \in rows : q.since <= r.since
         IN  (rows \ {host}) \union
             {[host EXCEPT !.source = "both", !.since = IF at < host.since THEN at ELSE host.since]}

Rows(c) == IF c = Cli THEN Fold({}, file.who, file.tells, 0)
           ELSE Fold(HubRows(tracked), client, tells, 2 * since + 1)

Present(c) == (IF c = Cli THEN file.who ELSE client) # None
CanStop(r) == r.source # "hub" \/ r.pid \in up

\* targetFor: the row of the artifact, or the newest that can be stopped.
Target(c, want) ==
    LET rows == {r \in Rows(c) : want # Unnamed => r.art = want}
        able == {r \in rows : CanStop(r)}
        pool == IF able # {} /\ want = Unnamed THEN able ELSE rows
    IN  IF pool = {} THEN NoRow
        ELSE LET r == CHOOSE r \in pool : \A q \in pool : q.since <= r.since
             IN  [art |-> r.art, pid |-> r.pid]

-----------------------------------------------------------------------------
(* stop                                                                    *)

Says(ok, how) == [ok |-> ok, how |-> how]

\* Defect: a stop with nobody left to signal counts as done.
VerdictOfNobody(c, row, hasAsked) ==
    IF hasAsked /\ ~Present(c) THEN Says(TRUE, "shutdown-request")
    ELSE IF row.pid \in up THEN Says(TRUE, "sigterm")
    ELSE Says(hasAsked \/ Present(c), "gone")

\* The answer of a stop on a row, when it has nothing to wait for any more: at
\* once when it has asked nobody.
Verdict(c, row, hasAsked) ==
    IF hasAsked /\ ~Present(c) THEN Says(TRUE, "shutdown-request")
    ELSE IF row.pid = None
    THEN Says(FALSE, IF Present(c) THEN "shutdown-request" ELSE "not-running")
    ELSE Says(TRUE, IF row.pid \in up THEN "sigterm" ELSE "gone")

\* It is given, with the signal it speaks of; the window pulls the truth back
\* and frees the control.
Answers(c, row, hasAsked) ==
    /\ signalled' = IF Verdict(c, row, hasAsked).how = "sigterm"
                    THEN signalled \union {row.pid} ELSE signalled
    /\ call' = [k \in Wanted |-> IF k = c THEN None ELSE call[k]]
    /\ pending' = pending \ {c} /\ sole' = sole \ {c} /\ joined' = joined \ {c}
    /\ shown' = IF c = Cli THEN shown ELSE Rows(c) # {}
    /\ UNCHANGED <<hubVars, procVars>>

\* A click on the control of a row.  The row may have been drawn a while ago,
\* so that it may be of any artifact.
Click(want) ==
    /\ shown /\ want \notin pending
    /\ call[want] = None                      \* bound: one stop at a time from each
    /\ IF Present(want)
       THEN /\ call' = [call EXCEPT ![want] = [row |-> Target(want, want), asked |-> client]]
            /\ sole' = IF tracked \subseteq {client} THEN sole \union {want} ELSE sole \ {want}
            /\ pending' = pending \union {want}
            /\ UNCHANGED <<hubVars, procVars, signalled, joined, shown>>
       ELSE Answers(want, Target(want, want), FALSE)

NxStop(want) == Answers(Cli, Target(Cli, want), FALSE)

\* waitForDeparture: a look at the bus finds nobody.
Departed(c) ==
    /\ call[c] # None /\ ~Present(c)
    /\ Answers(c, call[c].row, TRUE)

WaitIsOver(c) ==
    /\ call[c] # None /\ Present(c)
    /\ Answers(c, call[c].row, TRUE)

\* A redraw of the window: a control whose app is nowhere any more is free.
Draws ==
    /\ shown' = (Rows(Unnamed) # {})
    /\ pending' = IF shown' THEN pending ELSE {}
    /\ UNCHANGED <<hubVars, procVars, signalled, call, sole, joined>>

-----------------------------------------------------------------------------
(* The programs, the bus, the hub.                                         *)

Launched(watched) ==
    /\ begun < MaxProcs
    /\ begun' = begun + 1 /\ up' = up \union {begun'}
    /\ tracked' = IF watched THEN tracked \union {begun'} ELSE tracked
    /\ UNCHANGED <<client, tells, since, hellos, file, signalled, callVars>>

Exits(p) ==
    /\ p \in up /\ up' = up \ {p} /\ signalled' = signalled \ {p}
    /\ UNCHANGED <<hubVars, begun, hellos, file, callVars>>

ExitSeen(p) ==
    /\ p \in tracked \ up /\ tracked' = tracked \ {p}
    /\ UNCHANGED <<client, tells, since, procVars, signalled, callVars>>

\* The second that says hello for an app takes the place of the first.
Hello(p, withPid) ==
    /\ p \in up /\ p # client /\ hellos < MaxHellos
    /\ client' = p /\ tells' = withPid /\ since' = begun /\ hellos' = hellos + 1
    /\ joined' = {c \in Wanted : call[c] # None}
    /\ UNCHANGED <<tracked, up, begun, file, signalled, call, sole, shown, pending>>

LeavesBus ==
    /\ client # None /\ client' = None /\ tells' = FALSE /\ since' = 0
    /\ UNCHANGED <<tracked, procVars, signalled, callVars>>

FileWritten ==
    /\ file' = [who |-> client, tells |-> tells]
    /\ UNCHANGED <<hubVars, up, begun, hellos, signalled, callVars>>

\* The hub is started anew: it watches nothing, and its window is a new one.
HubRestarts ==
    /\ tracked' = {} /\ client' = None /\ tells' = FALSE /\ since' = 0
    /\ call' = [c \in Wanted |-> None]
    /\ sole' = {} /\ joined' = {} /\ shown' = FALSE /\ pending' = {}
    /\ UNCHANGED <<procVars, signalled>>

Next ==
    \/ \E w \in Wanted : Click(w) \/ NxStop(w) \/ Departed(w) \/ WaitIsOver(w)
    \/ \E watched \in BOOLEAN : Launched(watched)
    \/ \E p \in Procs, withPid \in BOOLEAN : Hello(p, withPid)
    \/ \E p \in Procs : Exits(p) \/ ExitSeen(p)
    \/ Draws \/ LeavesBus \/ FileWritten \/ HubRestarts

Spec == Init /\ [][Next]_vars

-----------------------------------------------------------------------------
\* The verdict a stop would give now.
Due(c, ok) == call[c] # None /\ Verdict(c, call[c].row, TRUE).ok = ok

\* A stop that has waited says it worked only when the process of its row is
\* gone, or is signalled with that very answer, or nobody is on the bus any more
\* and the process of the row is the one that was asked to leave.  That last part
\* does not hold where the hub knew of two copies when the stop began: the bus
\* does not say which of them is on it, so that one may be asked and the other
\* reported.  It says that the app stayed only when it has.
SaysTheTruth ==
    \A c \in Wanted :
        /\ Due(c, TRUE) =>
              LET pid == call[c].row.pid
              IN  \/ pid \in Procs \ up
                  \/ client # None /\ pid \in up
                  \/ client = None /\ (c \in sole => pid \in {None, call[c].asked})
        /\ Due(c, FALSE) => client # None

\* What says that nothing runs is not beside a program it could have ended.
NothingRuns ==
    \A c \in Wanted :
        Verdict(c, Target(c, c), FALSE).how = "not-running" =>
            client = None /\ \A p \in tracked : c \notin {Unnamed, ArtOf[p]}

\* A stop that has waited signals the process it has asked, and one of its
\* artifact.  Only where the hub knew of two copies when it began may that be
\* another one; and if that one is on the bus by then, it has come there since.
AsksFirst ==
    [][\A p \in signalled' \ signalled, c \in Wanted :
            call[c] # None /\ call'[c] = None =>
                /\ c \in Arts => ArtOf[p] = c
                /\ \/ call[c].asked = p
                   \/ c \notin sole /\ (client = p => c \in joined)]_vars

\* A stop tells the user the truth and asks before it signals, as far as the hub
\* can tell the copies of the app apart (the ladder of stop, running.js).
LadderIsHonest == [](TypeOK /\ SaysTheTruth /\ NothingRuns) /\ AsksFirst
=============================================================================
