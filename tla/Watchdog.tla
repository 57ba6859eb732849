------------------------------- MODULE Watchdog -------------------------------
(***************************************************************************)
(* The programs a hub has launched and what it does when they exit: the    *)
(* launch watcher and the crash counter (launch, trackLaunch, noteHubStop, *)
(* onWatchedExit of src/main/jobs.js, the crash records of state.js), the  *)
(* supervisor that restarts programs of keepAlive apps (supervisor.js),    *)
(* and the stops that must not look like crashes to it (running.js).       *)
(*                                                                         *)
(* Time passes in ticks.  What the code dates with Date.now() is kept here *)
(* as an age, which stops counting where nobody tells older ones apart.    *)
(* Within a tick anything may happen in any order.  A process id is not    *)
(* used twice, and a process that has started does not report an error.    *)
(***************************************************************************)
EXTENDS Naturals, FiniteSets, Sequences

CONSTANTS
  Programs,      \* launchable artifacts
  Apps, AppOf,   \* and the app of each
  Versions,
  None,
  Copies,        \* bound: launches by the user, hence also copies at one time
  CrashMs,       \* a bad exit sooner than this is a crash
  HealthyMs,     \* a run this long is healthy (one figure in both files)
  StopMs,        \* HUB_STOP_MS
  ByeMs,         \* byeWindowMs
  WindowMs,      \* the window of the restart budget
  MaxRestarts,   \* the budget
  Backoff,       \* the ladder of delays
  CrashLimit,    \* crashes of one version that make a crash loop
  MaxTracked     \* launches watched at one time

VARIABLES
  copy,         \* the processes launched: program, version, by whom, whether it
                \* starts, is up or has exited (how), how it is watched, since when
  installed,    \* program -> version
  crashes,      \* program -> its crash record: a version and a count
  stopPid,      \* copy -> age of the hub stop that named its pid
  stopApp,      \* app -> age of the last hub stop that named the app
  keepAlive,    \* the apps with appPrefs.keepAlive
  onBus,        \* the apps on the connector bus
  left,         \* app -> age of its last departure from the bus
  attempt,      \* program -> how far up the ladder it is
  restarts,     \* program -> ages of its restarts, those in the window
  timer,        \* program -> its pending restart
  launches,     \* history: launches by the user
  recent,       \* history: program -> ages of the restarts there really were
  lastExit,     \* history: program -> what its last exit was, see Was
  owed          \* history: programs whose unexpected exit nobody has answered yet

watchVars   == <<copy, installed, crashes, stopPid, stopApp>>
worldVars   == <<keepAlive, onBus, left>>
ladderVars  == <<attempt, restarts, timer>>
historyVars == <<launches, recent, lastExit, owed>>
vars        == <<watchVars, worldVars, ladderVars, historyVars>>

\* How a process exited: "signal" is one of STOP_SIGNALS, "fail" an exit code other
\* than 0 or a fault, "unknown" an exit that was seen by polling.
Exits    == {"clean", "fail", "signal", "unknown"}
Starting == {"launching", "relaunching"}     \* by the user, by the supervisor
Copy  == [prog : Programs, ver : Versions \cup {None}, phase : Starting \cup {"up", "gone"},
          watched : BOOLEAN, up : 0..HealthyMs]
Crash == [ver : Versions, count : 1..CrashLimit]
\* "delay" and "shared" are history: the delay it was set to, and whether another
\* copy of the program was about while it was pending.
Timer == [left : Nat, clean : BOOLEAN, delay : Nat, shared : BOOLEAN]

ASSUME WatchdogAssumption ==
  /\ AppOf \in [Programs -> Apps]
  /\ IsFiniteSet(Copies)
  /\ {CrashMs, HealthyMs, StopMs, ByeMs, WindowMs, MaxRestarts} \subseteq Nat
  /\ CrashMs <= HealthyMs
  /\ Backoff \in Seq(Nat) /\ Backoff # <<>>
  /\ CrashLimit \in Nat \ {0} /\ MaxTracked \in Nat \ {0}
  /\ None \notin Versions \cup Copy \cup Crash \cup Timer

TypeOK ==
  /\ copy \in [Copies -> Copy \cup {None}]
  /\ installed \in [Programs -> Versions]
  /\ crashes \in [Programs -> Crash \cup {None}]
  /\ stopPid \in [Copies -> 0..(StopMs + 1)] /\ stopApp \in [Apps -> 0..(StopMs + 1)]
  /\ keepAlive \subseteq Apps /\ onBus \subseteq Apps
  /\ left \in [Apps -> 0..(ByeMs + 1)]
  /\ attempt \in [Programs -> 0..Len(Backoff)]
  /\ restarts \in [Programs -> Seq(0..WindowMs)]
  /\ timer \in [Programs -> Timer \cup {None}]
  /\ launches \in 0..Cardinality(Copies)
  /\ recent \in [Programs -> Seq(0..WindowMs)]
  /\ lastExit \in [Programs -> {"unexpected", "clean", "polite", "final"}]
  /\ owed \subseteq Programs

Init ==
  /\ copy = [c \in Copies |-> None]
  /\ installed \in [Programs -> Versions]
  /\ crashes = [p \in Programs |-> None]
  /\ stopPid = [c \in Copies |-> StopMs + 1] /\ stopApp = [a \in Apps |-> StopMs + 1]
  /\ keepAlive \in SUBSET Apps /\ onBus = {}
  /\ left = [a \in Apps |-> ByeMs + 1]
  /\ attempt = [p \in Programs |-> 0]
  /\ restarts = [p \in Programs |-> <<>>]
  /\ timer = [p \in Programs |-> None]
  /\ launches = 0
  /\ recent = [p \in Programs |-> <<>>]
  /\ lastExit = [p \in Programs |-> "unexpected"]
  /\ owed = {}

-----------------------------------------------------------------------------
CopiesOf(p) == {c \in Copies : copy[c] # None /\ copy[c].prog = p}
Up(c)       == copy[c] # None /\ copy[c].phase = "up"
Gone(c)     == copy[c] # None /\ copy[c].phase = "gone"
Tracked     == {c \in Copies : copy[c] # None /\ copy[c].watched}

\* A process nobody watches: of which version, since when, no longer matters.
Unwatched(k) == [k EXCEPT !.phase = "up", !.watched = FALSE, !.ver = None, !.up = 0]

IsTracked(p) == Tracked \cap CopiesOf(p) # {}

-----------------------------------------------------------------------------
(* Launching and stopping.                                                 *)

\* jobs.launch up to its await: the version that is installed now is the one
\* that will be watched.
Free == CHOOSE c \in Copies : copy[c] = None
BeginLaunch(p, how) ==
  copy' = [copy EXCEPT ![Free] = [prog |-> p, ver |-> installed[p], phase |-> how,
                                  watched |-> FALSE, up |-> 0]]

\* The user, a stack or a peer launches a program, also one that runs already.
UserLaunch(p) ==
  /\ launches < Cardinality(Copies) /\ launches' = launches + 1
  /\ BeginLaunch(p, "launching")
  /\ timer' = [timer EXCEPT ![p] = IF @ = None THEN None ELSE [@ EXCEPT !.shared = TRUE]]
  /\ UNCHANGED <<installed, crashes, stopPid, stopApp, worldVars, attempt, restarts,
                 recent, lastExit, owed>>

\* The oldest tracked launches, one of which is dropped to make room.
Oldest == {c \in Tracked : \A d \in Tracked : copy[d].up <= copy[c].up}

\* engine.launch has returned: its process is watched (as a child, or by polling
\* if the hub did not see it spawned), or not at all if no pid was reported.
Launched(c) ==
  LET started == [copy EXCEPT ![c].phase = "up", ![c].watched = TRUE] IN
  /\ copy[c] # None /\ copy[c].phase \in Starting
  /\ \/ copy' = [copy EXCEPT ![c] = Unwatched(@)]
     \/ /\ Cardinality(Tracked) < MaxTracked
        /\ copy' = started
     \/ /\ Cardinality(Tracked) >= MaxTracked
        /\ \E d \in Oldest : copy' = [started EXCEPT ![d] =
                               IF @.phase = "gone" THEN None ELSE Unwatched(@)]
  /\ stopPid' = [stopPid EXCEPT ![c] = StopMs + 1]
  /\ owed' = owed \ {copy[c].prog}
  /\ UNCHANGED <<installed, crashes, stopApp, worldVars, ladderVars, launches, recent, lastExit>>

\* Defect: a relaunch that fails has nobody to catch it.
LaunchFailsSilently(c) ==
  /\ copy[c] # None /\ copy[c].phase \in Starting
  /\ copy' = [copy EXCEPT ![c] = None]
  /\ UNCHANGED <<installed, crashes, stopPid, stopApp, worldVars, ladderVars, historyVars>>

\* Defect: a relaunch that fails is tried again, although the program may be up.
LaunchFailsRetries(c) ==
  /\ copy[c] # None /\ copy[c].phase = "relaunching"
  /\ copy' = [copy EXCEPT ![c] = Unwatched(@)]
  /\ timer' = [timer EXCEPT ![copy[c].prog] = [left |-> 1, clean |-> FALSE, delay |-> 1,
                                               shared |-> TRUE]]
  /\ UNCHANGED <<installed, crashes, stopPid, stopApp, worldVars, attempt, restarts, historyVars>>

\* It throws.  The supervisor gives up then, and drops what it had pending.
LaunchFails(c) ==
  /\ copy[c] # None /\ copy[c].phase \in Starting
  /\ copy' = [copy EXCEPT ![c] = None]
  /\ \/ /\ copy[c].phase = "relaunching"
        /\ timer' = [timer EXCEPT ![copy[c].prog] = None]
        /\ owed' = owed \ {copy[c].prog}
     \/ copy[c].phase = "launching" /\ UNCHANGED <<timer, owed>>
  /\ UNCHANGED <<installed, crashes, stopPid, stopApp, worldVars, attempt, restarts,
                 launches, recent, lastExit>>

\* running.stop on an app, by the pid of its newest launch: noteHubStop, then a
\* request over the bus or SIGTERM, on which the process exits or does not.
StopApp(c) ==
  /\ Up(c)
  /\ \A d \in CopiesOf(copy[c].prog) \cap Tracked : copy[d].up >= copy[c].up
  /\ stopPid' = [stopPid EXCEPT ![c] = 0]
  /\ stopApp' = [stopApp EXCEPT ![AppOf[copy[c].prog]] = 0]
  /\ UNCHANGED <<copy, installed, crashes, worldVars, ladderVars, historyVars>>

\* The SIGTERM of a stack or of a peer names only the pid.
StopPid(c) ==
  /\ Up(c) /\ c \in Tracked
  /\ stopPid' = [stopPid EXCEPT ![c] = 0]
  /\ UNCHANGED <<copy, installed, crashes, stopApp, worldVars, ladderVars, historyVars>>

\* A process exits; nobody learns of one that is not watched.
Exit(c) ==
  /\ Up(c)
  /\ copy' = [copy EXCEPT ![c] = IF @.watched THEN [@ EXCEPT !.phase = "gone"] ELSE None]
  /\ UNCHANGED <<installed, crashes, stopPid, stopApp, worldVars, ladderVars, historyVars>>

-----------------------------------------------------------------------------
(* What the hub makes of an exit.                                          *)

\* recordCrash: the crash record of program p after a crash of version v.
Counted(p, v) ==
  IF crashes[p] # None /\ crashes[p].ver = v
  THEN [ver |-> v, count |-> IF crashes[p].count < CrashLimit THEN crashes[p].count + 1
                             ELSE CrashLimit]
  ELSE [ver |-> v, count |-> 1]

Healthy(k) == k.up >= HealthyMs
Crashed(k, how) == how # "clean" /\ k.up < CrashMs

\* onWatchedExit: a healthy run clears the record, a bad exit soon after the
\* launch counts.
Tally(k, how) == IF Healthy(k) THEN None
                 ELSE IF Crashed(k, how) THEN Counted(k.prog, k.ver) ELSE crashes[k.prog]

Loop(k, tally) == tally # None /\ tally.ver = k.ver /\ tally.count >= CrashLimit

\* Defect: only a signal tells a stop, as before noteHubStop.
StoppedBySignal(c, how) == how = "signal"

\* wasStopped: by a signal that asks for it, or soon after a hub stop.
Stopped(c, how) == how = "signal" \/ stopPid[c] <= StopMs
                   \/ stopApp[AppOf[copy[c].prog]] <= StopMs

\* saidBye: a clean exit soon after a departure from the bus.
SaidBye(p, clean) == clean /\ left[AppOf[p]] <= ByeMs

Delay(try) == Backoff[IF try < Len(Backoff) THEN try + 1 ELSE Len(Backoff)]

\* The budget is used up: what is pending is dropped and the user told.
GiveUp(p) == /\ timer' = [timer EXCEPT ![p] = None]
             /\ owed' = owed \ {p}

\* Defect: a healthy run gives the budget back as well.
HealthyRunRefunds(k) ==
  IF Healthy(k) THEN /\ attempt' = [attempt EXCEPT ![k.prog] = 0]
                     /\ restarts' = [restarts EXCEPT ![k.prog] = <<>>]
  ELSE UNCHANGED <<attempt, restarts>>

\* A healthy run takes the program back to the foot of the ladder.
HealthyRun(k) ==
  /\ attempt' = [attempt EXCEPT ![k.prog] = IF Healthy(k) THEN 0 ELSE @]
  /\ UNCHANGED restarts

\* onLaunchExit of the supervisor, for an exit of a program of a keepAlive app
\* that asks for a restart, with the ladder as the exit leaves it.
Schedule(p, clean, others) ==
  LET delay == Delay(attempt'[p]) IN
  \/ /\ Len(restarts'[p]) >= MaxRestarts
     /\ GiveUp(p)
  \/ /\ Len(restarts'[p]) < MaxRestarts
     /\ timer' = [timer EXCEPT ![p] = [left |-> delay, clean |-> clean,
                                       delay |-> delay, shared |-> others]]
     /\ owed' = owed \cup {p}

\* What an exit was: brought about by the hub or the end of a crash loop, a
\* goodbye, clean before a departure that may follow, or none of these.
Was(c, how, tally) ==
  LET a == AppOf[copy[c].prog] IN
  IF stopPid[c] <= StopMs \/ stopApp[a] <= StopMs \/ Loop(copy[c], tally) THEN "final"
  ELSE IF how = "clean" /\ left[a] <= ByeMs THEN "polite"
  ELSE IF how = "clean" /\ a \in onBus THEN "clean"
  ELSE "unexpected"

\* The exit of a watched process is noticed: the crash record and then the
\* supervisor, in one go.  Polling does not learn how it exited.
Notice(c, how) ==
  LET k == copy[c]
      p == k.prog
      tally  == Tally(k, how)
      wanted == /\ AppOf[p] \in keepAlive
                /\ ~Stopped(c, how) /\ ~Loop(k, tally) /\ ~SaidBye(p, how = "clean")
  IN
  /\ Gone(c)
  /\ copy' = [copy EXCEPT ![c] = None]
  /\ stopPid' = [stopPid EXCEPT ![c] = StopMs + 1]
  /\ crashes' = [crashes EXCEPT ![p] = tally]
  /\ HealthyRun(k)
  /\ \/ wanted /\ Schedule(p, how = "clean", CopiesOf(p) # {c})
     \/ ~wanted /\ UNCHANGED <<timer, owed>>
  /\ lastExit' = [lastExit EXCEPT ![p] = Was(c, how, tally)]
  /\ UNCHANGED <<installed, stopApp, worldVars, launches, recent>>

\* relaunch: the pending restart is due.
Relaunch(p) ==
  /\ timer[p] # None /\ timer[p].left = 0
  /\ timer' = [timer EXCEPT ![p] = None]
  /\ \/ /\ \/ AppOf[p] \notin keepAlive
           \/ IsTracked(p)
           \/ SaidBye(p, timer[p].clean)
           \/ Len(restarts[p]) >= MaxRestarts
        /\ owed' = owed \ {p}
        /\ UNCHANGED <<copy, attempt, restarts, recent>>
     \/ /\ AppOf[p] \in keepAlive
        /\ ~IsTracked(p)
        /\ ~SaidBye(p, timer[p].clean)
        /\ Len(restarts[p]) < MaxRestarts
        /\ BeginLaunch(p, "relaunching")
        /\ restarts' = [restarts EXCEPT ![p] = Append(@, 0)]
        /\ recent' = [recent EXCEPT ![p] = Append(@, 0)]
        /\ attempt' = [attempt EXCEPT ![p] = IF @ < Len(Backoff) THEN @ + 1 ELSE @]
        /\ UNCHANGED owed
  /\ UNCHANGED <<installed, crashes, stopPid, stopApp, worldVars, launches, lastExit>>

-----------------------------------------------------------------------------
(* Around them.                                                            *)

Toggle(a) ==
  /\ keepAlive' = IF a \in keepAlive THEN keepAlive \ {a} ELSE keepAlive \cup {a}
  /\ UNCHANGED <<watchVars, onBus, left, ladderVars, historyVars>>

Join(a) ==
  /\ a \notin onBus /\ \E c \in Copies : Up(c) /\ AppOf[copy[c].prog] = a
  /\ onBus' = onBus \cup {a}
  /\ UNCHANGED <<watchVars, keepAlive, left, ladderVars, historyVars>>

\* An app leaves the bus, by a bye or because its socket closes.  sampleBus dates
\* it when it is told, within a tick.  A clean exit in the same tick was polite.
Leave(a) ==
  /\ a \in onBus
  /\ onBus' = onBus \ {a}
  /\ left' = [left EXCEPT ![a] = 0]
  /\ lastExit' = [p \in Programs |-> IF AppOf[p] = a /\ lastExit[p] = "clean"
                                     THEN "polite" ELSE lastExit[p]]
  /\ UNCHANGED <<watchVars, keepAlive, ladderVars, launches, recent, owed>>

\* An install or a rollback puts a version in place and clears the crash record.
Replace(p, v) ==
  /\ installed' = [installed EXCEPT ![p] = v]
  /\ crashes' = [crashes EXCEPT ![p] = None]
  /\ UNCHANGED <<copy, stopPid, stopApp, worldVars, ladderVars, historyVars>>

\* The hub exits and is started again: the programs go on, and nobody watches
\* them; of the rest only state.json and the settings remain.
HubRestarts ==
  /\ \E lost \in SUBSET {c \in Copies : ~Up(c)} :
       copy' = [c \in Copies |-> IF copy[c] = None \/ Gone(c) \/ c \in lost THEN None
                                 ELSE Unwatched(copy[c])]
  /\ stopPid' = [c \in Copies |-> StopMs + 1] /\ stopApp' = [a \in Apps |-> StopMs + 1]
  /\ left' = [a \in Apps |-> ByeMs + 1]
  /\ attempt' = [p \in Programs |-> 0]
  /\ restarts' = [p \in Programs |-> <<>>] /\ recent' = restarts'
  /\ timer' = [p \in Programs |-> None]
  /\ lastExit' = [p \in Programs |-> "unexpected"]
  /\ owed' = {}
  /\ UNCHANGED <<installed, crashes, keepAlive, onBus, launches>>

Older(age, most) == IF age <= most THEN age + 1 ELSE age

\* A tick later, what is still no older than most; the oldest restarts come first.
Recent(ages, most) ==
  LET out == Cardinality({i \in DOMAIN ages : ages[i] >= most}) IN
  [i \in 1..(Len(ages) - out) |-> ages[i + out] + 1]

\* Defect: a restart counts one tick longer than the window.
AgedLate(ages) == Recent(ages, WindowMs + 1)

Aged(ages) == Recent(ages, WindowMs)

\* Time passes, when every exit has been noticed and no restart is due.
Tick ==
  /\ \A c \in Copies : ~Gone(c)
  /\ \A p \in Programs : timer[p] # None => timer[p].left > 0
  /\ copy' = [c \in Copies |-> IF c \in Tracked /\ copy[c].up < HealthyMs
                               THEN [copy[c] EXCEPT !.up = @ + 1] ELSE copy[c]]
  /\ stopPid' = [c \in Copies |-> Older(stopPid[c], StopMs)]
  /\ stopApp' = [a \in Apps |-> Older(stopApp[a], StopMs)]
  /\ left' = [a \in Apps |-> Older(left[a], ByeMs)]
  /\ restarts' = [p \in Programs |-> Aged(restarts[p])]
  /\ recent' = [p \in Programs |-> Aged(recent[p])]
  /\ timer' = [p \in Programs |-> IF timer[p] = None THEN None
                                  ELSE [timer[p] EXCEPT !.left = @ - 1]]
  /\ lastExit' = [p \in Programs |-> IF lastExit[p] = "clean" THEN "unexpected"
                                     ELSE lastExit[p]]
  /\ UNCHANGED <<installed, crashes, keepAlive, onBus, attempt, launches, owed>>

Next ==
  \/ \E p \in Programs : UserLaunch(p) \/ Relaunch(p) \/ \E v \in Versions : Replace(p, v)
  \/ \E c \in Copies : \/ Launched(c) \/ LaunchFails(c) \/ Exit(c)
                       \/ \E how \in Exits : Notice(c, how)
                       \/ StopApp(c) \/ StopPid(c)
  \/ \E a \in Apps : Toggle(a) \/ Join(a) \/ Leave(a)
  \/ HubRestarts
  \/ Tick

\* Launches end, exits are noticed, timers fire and time passes.
Fairness ==
  /\ \A c \in Copies : /\ WF_vars(Launched(c) \/ LaunchFails(c))
                       /\ WF_vars(\E how \in Exits : Notice(c, how))
  /\ \A p \in Programs : WF_vars(Relaunch(p))
  /\ WF_vars(Tick)

Spec == Init /\ [][Next]_vars /\ Fairness

-----------------------------------------------------------------------------
\* Program p is launched by the supervisor in this step.
Restarted(p) == \E c \in Copies : /\ copy[c] = None /\ copy'[c] # None
                                  /\ copy'[c].prog = p /\ copy'[c].phase = "relaunching"

\* Restarting never multiplies: every copy that starts or runs, and every restart
\* that is pending, goes back to a launch of the user's of its own, whatever
\* exits, timers and launches overlap (onLaunchExit, relaunch).
NoMultiplying ==
  Cardinality({c \in Copies : copy[c] # None}) +
  Cardinality({p \in Programs : timer[p] # None}) <= launches

\* "At most 5 times per rolling 10 min": no window of that length holds more
\* restarts of a program, healthy runs in between notwithstanding.
BudgetKept == \A p \in Programs : Len(recent[p]) <= MaxRestarts

\* Both together: an app that cannot stay up is started neither twice at a time
\* nor for ever.
RestartsAreBounded == TypeOK /\ NoMultiplying /\ BudgetKept

\* After an exit that was a stop, a goodbye or the end of a crash loop the
\* supervisor restarts a program only because of an earlier exit whose restart was
\* pending while another copy of it was about, or because a goodbye came after
\* the exit and the delay was too long to notice.
StandsDown ==
  [][\A p \in Programs : Restarted(p) /\ lastExit[p] \in {"polite", "final"}
       => timer[p].shared \/ (lastExit[p] = "polite" /\ timer[p].delay > ByeMs)]_vars

\* An unexpected exit of a supervised program is answered: the program is up
\* again, or the user is told that the hub gave up, or it turns out that no restart
\* is wanted.
KeptAlive == \A p \in Programs : p \in owed ~> p \notin owed

\* "Attribution is not optional: without it, three Stops look like a crash loop"
\* (README): an exit the hub has brought about does not count as a crash.
StopIsNoCrash ==
  [][\A c \in Copies : /\ Gone(c) /\ copy'[c] = None /\ stopPid[c] <= StopMs
                       /\ crashes'[copy[c].prog] # None
       => crashes'[copy[c].prog] = crashes[copy[c].prog]]_vars
=============================================================================
