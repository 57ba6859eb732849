------------------------------- MODULE StackRun -------------------------------
(***************************************************************************)
(* Stacks (src/main/stacks.js): a list of steps that is launched one by    *)
(* one, each behind a health gate; the stop that walks the started steps   *)
(* in reverse; and the watcher that runs a stack when an app appears on    *)
(* the bus or a device is plugged in.                                      *)
(*                                                                         *)
(* The code is one JavaScript thread: an action is what happens between    *)
(* two awaits.  A step is launched, gated and stopped by something whose   *)
(* answer comes at any time; a gate and a stop give up by a deadline.      *)
(***************************************************************************)
EXTENDS Naturals, FiniteSets, Sequences

CONSTANTS
  Stacks,
  Steps,        \* stack -> its steps: kind "local", "peered" or "wake", optional or not
  AppStacks,    \* the stacks with a trigger of type connector-app
  AdbStacks,    \* those with a trigger of type adb-device
  About,        \* triggered stack -> the app or the device its trigger is about
  StopOnLeave,  \* those of them with stopOnLeave
  Runs,         \* bound: runs remembered at one time, numbers
  Stops,        \* bound: stops under way at one time
  WatchersOf,   \* bound: the stacks a behaviour is about -> the watchers that are armed
                \* or still wait for adb, numbers
  None

Triggered == AppStacks \cup AdbStacks
Catalogues == DOMAIN WatchersOf
Watchers   == UNION {WatchersOf[c] : c \in Catalogues}
AppsOrDevices == {About[s] : s \in Triggered}

ASSUME StackAssumption ==
  /\ Stacks # {}
  /\ Steps \in [Stacks -> Seq([kind : {"local", "peered", "wake"}, optional : BOOLEAN]) \ {<<>>}]
  /\ Triggered \subseteq Stacks /\ AppStacks \cap AdbStacks = {}
  /\ StopOnLeave \subseteq Triggered /\ Catalogues \subseteq SUBSET Stacks
  /\ DOMAIN About = Triggered
  /\ \A s \in AppStacks, t \in AdbStacks : About[s] # About[t]
  /\ Runs \subseteq Nat /\ Watchers \subseteq Nat /\ None \notin Runs \cup Watchers

VARIABLES
  run,       \* run -> its record: stack, step, where run() is, the abort signal,
             \* what became of each step, the steps a stop has marked
  current,   \* the run in flight
  last,      \* the run that ended last
  stop,      \* stop call -> the record it walks, what is left, what it waits for
  known,     \* the catalogue
  stored,    \* the stacks in stacks.json
  watcher,   \* the live watcher
  seen,      \* armed stack -> what the live watcher saw last; nobody reads what
             \* one that has been replaced has seen
  sweep,     \* watcher -> the answers adb may give to the sweep under way
  telling,   \* the rest of a loop over the armed stacks of one kind: those left,
             \* and what is there; nothing comes between its turns
  cooling,   \* the stacks in their cooldown
  there,     \* the apps and devices that are there
  wasAway    \* history: the stacks whose app or device has been away since the watcher
             \* was armed, or since it last noticed it arrive

runVars     == <<run, current, last, stop>>
triggerVars == <<known, stored, watcher, seen, sweep, telling, cooling, there, wasAway>>
vars        == <<runVars, triggerVars>>

Live     == {"launching", "gate"}
\* "late" is a gate that did not open, "stray" a launch that succeeded after the
\* run had been aborted.
Outcomes == {"todo", "failed", "started", "healthy", "late", "stray"}
Seen     == {"off", "unknown", "away", "there"}
LastStep(s) == Len(Steps[s])
StepOf(r, i) == Steps[run[r].stack][i]

TypeOK ==
  /\ run \in [Runs -> [stack : Stacks, at : Nat, pc : Live \cup {"free", "ended"},
                       aborted : BOOLEAN, step : Seq(Outcomes), asked : SUBSET Nat]]
  /\ {current, last} \subseteq Runs \cup {None}
  /\ stop \in [Stops -> [of : Runs \cup {None}, todo : SUBSET Nat, at : Nat]]
  /\ known \in Catalogues /\ stored \subseteq known
  /\ watcher \in Watchers \cup {None}
  /\ seen \in [Triggered -> Seen]
  /\ sweep \in [Watchers -> SUBSET SUBSET AppsOrDevices]
  /\ telling \in [left : SUBSET Triggered, present : SUBSET AppsOrDevices]
  /\ cooling \subseteq Triggered /\ there \subseteq AppsOrDevices /\ wasAway \subseteq Triggered
  /\ \A r \in Runs : run[r].pc # "free" => run[r].at \in 1..LastStep(run[r].stack)

Unused == CHOOSE s \in Stacks : TRUE
FreeRun == [stack |-> Unused, at |-> 0, pc |-> "free", aborted |-> FALSE,
            step |-> <<>>, asked |-> {}]
IdleStop == [of |-> None, todo |-> {}, at |-> 0]
Disarmed == [s \in Triggered |-> "off"]
Quiet    == [left |-> {}, present |-> {}]

(***************************************************************************)
(* A run                                                                   *)
(***************************************************************************)
\* A record that neither current, nor last, nor a stop refers to is garbage once
\* its run has ended.
Reusable(r) ==
  /\ run[r].pc \in {"free", "ended"}
  /\ r \notin {current, last} \cup {stop[k].of : k \in Stops}

\* run(): the record of a new run, up to the launch of its first step.
Begin(s, r) ==
  /\ Reusable(r) /\ \A q \in Runs : Reusable(q) => r <= q
  /\ run' = [run EXCEPT ![r] = [stack |-> s, at |-> 1, pc |-> "launching", aborted |-> FALSE,
                                step |-> [i \in 1..LastStep(s) |-> "todo"], asked |-> {}]]
  /\ current' = r
  /\ UNCHANGED <<last, stop>>

UserRuns(s, r) ==
  /\ current = None /\ s \in stored
  /\ Begin(s, r)
  /\ UNCHANGED triggerVars

\* The step run is at has come to something.
Became(r, outcome) == [run[r] EXCEPT !.step[run[r].at] = outcome]

\* The finally of run(): whatever current is by now.  The record that was last is
\* garbage from here on, unless a stop still walks it.
End(r, record) ==
  /\ run' = [q \in Runs |->
       IF q = r THEN [record EXCEPT !.pc = "ended"]
       ELSE IF q = last /\ run[q].pc = "ended" /\ \A k \in Stops : stop[k].of # q
            THEN FreeRun ELSE run[q]]
  /\ last' = r
  /\ current' = None
  /\ UNCHANGED <<stop, triggerVars>>

\* The top of the loop, with the next step.
Proceed(r, record) ==
  IF record.aborted \/ record.at = LastStep(record.stack)
  THEN End(r, record)
  ELSE /\ run' = [run EXCEPT ![r] = [record EXCEPT !.at = @ + 1, !.pc = "launching"]]
       /\ UNCHANGED <<current, last, stop, triggerVars>>

LaunchSucceeds(r) ==
  /\ run[r].pc = "launching"
  /\ IF run[r].aborted
     THEN End(r, Became(r, "stray"))
     ELSE /\ run' = [run EXCEPT ![r] = [Became(r, "started") EXCEPT !.pc = "gate"]]
          /\ UNCHANGED <<current, last, stop, triggerVars>>

Optional(r) == StepOf(r, run[r].at).optional

\* Mutant: a failed launch is optional whatever the step says.
LaunchFailsGoesOn(r) ==
  /\ run[r].pc = "launching"
  /\ Proceed(r, Became(r, "failed"))

LaunchFails(r) ==
  /\ run[r].pc = "launching"
  /\ IF Optional(r) THEN Proceed(r, Became(r, "failed")) ELSE End(r, Became(r, "failed"))

\* A probe that was under way when the run was aborted may still say yes.
GateOpens(r) ==
  /\ run[r].pc = "gate"
  /\ Proceed(r, Became(r, "healthy"))

\* Mutant: a gate without a deadline.
GateWaits(r) ==
  /\ run[r].pc = "gate" /\ run[r].aborted
  /\ End(r, run[r])

\* The deadline, nobody to answer, or the abort.
GateFails(r) ==
  /\ run[r].pc = "gate"
  /\ IF run[r].aborted THEN End(r, run[r])
     ELSE IF Optional(r) THEN Proceed(r, Became(r, "late")) ELSE End(r, Became(r, "late"))

(***************************************************************************)
(* A stop                                                                  *)
(***************************************************************************)
\* record.started without the entries that are marked or only woke a machine.
Started(r) == {i \in DOMAIN run[r].step : run[r].step[i] \notin {"todo", "failed"}}
\* Mutant: only steps that were healthy are stopped.
PendingHealthy(r) ==
  {i \in Started(r) \ run[r].asked : run[r].step[i] = "healthy" /\ StepOf(r, i).kind # "wake"}

Pending(r) == {i \in Started(r) \ run[r].asked : StepOf(r, i).kind # "wake"}

\* Mutant: the walk in the order of the launches.
WalkForward(k, r, todo) ==
  /\ IF todo = {}
     THEN /\ stop' = [stop EXCEPT ![k] = IdleStop]
          /\ run' = [run EXCEPT ![r].aborted = TRUE]
     ELSE LET m == CHOOSE i \in todo : \A j \in todo : i <= j IN
          /\ stop' = [stop EXCEPT ![k] = [of |-> r, todo |-> todo \ {m}, at |-> m]]
          /\ run' = [run EXCEPT ![r].asked = @ \cup {m}, ![r].aborted = TRUE]
  /\ UNCHANGED <<current, last>>

\* The walk down todo until it awaits something: the peer's answer, or the
\* departure of an app that is on the bus.  Other apps get SIGTERM on the way.
Walk(k, r, todo) ==
  /\ \/ \E m \in todo :
          /\ \A j \in todo : j > m => StepOf(r, j).kind = "local"
          /\ stop' = [stop EXCEPT ![k] = [of |-> r, todo |-> {j \in todo : j < m}, at |-> m]]
          /\ run' = [run EXCEPT ![r].asked = @ \cup {j \in todo : j >= m}, ![r].aborted = TRUE]
          /\ UNCHANGED <<current, last>>
     \/ /\ \A j \in todo : StepOf(r, j).kind = "local"
        /\ stop' = [stop EXCEPT ![k] = IdleStop]
        /\ run' = [run EXCEPT ![r].asked = @ \cup todo, ![r].aborted = TRUE]
        /\ IF current = r THEN current' = None /\ last' = r ELSE UNCHANGED <<current, last>>

\* The record a stop of s is about: the run in flight, else the last one.
RecordOf(s) ==
  IF current # None /\ run[current].stack = s THEN current
  ELSE IF last # None /\ run[last].stack = s THEN last ELSE None

StopCall(s, k) ==
  /\ stop[k] = IdleStop
  /\ RecordOf(s) # None
  /\ Walk(k, RecordOf(s), Pending(RecordOf(s)))

UserStops(s, k) == StopCall(s, k) /\ UNCHANGED triggerVars

\* The peer answered or failed to; the app left or the wait is over, and it gets
\* SIGTERM in that case.
StopGoesOn(k) ==
  /\ stop[k].of # None
  /\ Walk(k, stop[k].of, stop[k].todo)
  /\ UNCHANGED triggerVars

(***************************************************************************)
(* Triggers                                                                *)
(***************************************************************************)
Present(s) == About[s] \in there

Armed == {s \in Triggered : seen[s] # "off"}

\* startWatcher: app triggers take their baseline at once, device triggers ask
\* adb.  What the old watcher has asked adb stays under way; one that awaits
\* nothing is garbage.
Arm(stacks) ==
  LET armed == stacks \cap Triggered IN
  IF armed = {}
  THEN /\ watcher' = None /\ wasAway' = {}
       /\ seen' = Disarmed
       /\ UNCHANGED sweep
  ELSE \E w \in WatchersOf[known] :
         /\ sweep[w] = {} /\ \A v \in WatchersOf[known] : sweep[v] = {} => w <= v
         /\ watcher' = w
         /\ seen' = [s \in Triggered |-> IF s \notin armed THEN "off"
                                        ELSE IF s \in AdbStacks THEN "unknown"
                                        ELSE IF Present(s) THEN "there" ELSE "away"]
         /\ sweep' = [sweep EXCEPT ![w] = IF armed \cap AdbStacks = {} THEN {} ELSE {there}]
         /\ wasAway' = {s \in armed : ~Present(s)}

\* save(), of a new stack or of one that is there, and remove().
Save(s) ==
  /\ s \in known
  /\ stored' = stored \cup {s}
  /\ Arm(stored')
  /\ UNCHANGED <<runVars, known, telling, cooling, there>>

Remove(s) ==
  /\ s \in stored
  /\ stored' = stored \ {s}
  /\ cooling' = cooling \ {s}
  /\ Arm(stored')
  /\ UNCHANGED <<runVars, known, telling, there>>

\* fireArrival: a stack that a watcher has armed is stored.
FireArrival(s) ==
  IF current # None \/ s \in cooling
  THEN UNCHANGED <<runVars, cooling>>
  ELSE /\ cooling' = cooling \cup {s}
       /\ \E r \in Runs : Begin(s, r)

FireDeparture(s) ==
  /\ UNCHANGED cooling
  /\ IF RecordOf(s) = None
     THEN UNCHANGED runVars
     ELSE \E k \in Stops : StopCall(s, k)

\* edge(): what the live watcher learns of s.  The first look is the baseline.
Edge(s, present) ==
  LET was == seen[s]
      now == IF present THEN "there" ELSE "away"
  IN /\ seen' = [seen EXCEPT ![s] = now]
     /\ wasAway' = IF present /\ Present(s) THEN wasAway \ {s} ELSE wasAway
     /\ CASE was # "unknown" /\ was # now /\ present -> FireArrival(s)
          [] was # "unknown" /\ was # now /\ ~present /\ s \in StopOnLeave -> FireDeparture(s)
          [] OTHER -> UNCHANGED <<runVars, cooling>>

\* Bound: there is a stop, and a run, for what a loop will fire.
Room(stacks, present) ==
  LET leaving == {s \in stacks \cap StopOnLeave : seen[s] = "there" /\ About[s] \notin present}
      coming  == {s \in stacks : seen[s] = "away" /\ About[s] \in present}
  IN /\ Cardinality(leaving) <= Cardinality({k \in Stops : stop[k] = IdleStop})
     /\ coming # {} => \E r \in Runs : Reusable(r)

\* The loop over the armed stacks of one kind.
Tell(stacks, present) ==
  /\ Room(stacks, present)
  /\ telling' = IF stacks = {} THEN Quiet ELSE [left |-> stacks, present |-> present]

\* A turn of it; they come in the order of the store, which is any.
Tells(s) ==
  /\ s \in telling.left
  /\ Edge(s, About[s] \in telling.present)
  /\ telling' = IF telling.left = {s} THEN Quiet ELSE [telling EXCEPT !.left = @ \ {s}]
  /\ UNCHANGED <<known, stored, watcher, sweep, there>>

\* A device or an app comes or goes.  The devices of a stack that names no serial
\* number count as one more, which comes and goes after the one it is.
Toggle(x) ==
  /\ \E s \in known \cap Triggered : About[s] = x
  /\ there' = IF x \in there THEN there \ {x} ELSE there \cup {x}
  /\ wasAway' = wasAway \cup {s \in Armed : About[s] = x /\ x \in there}
  /\ UNCHANGED <<runVars, known, stored, watcher, seen, cooling>>

\* A sweep of adb under way may see it or not.
DeviceToggles(x) ==
  /\ \E s \in AdbStacks : About[s] = x
  /\ Toggle(x)
  /\ sweep' = [w \in Watchers |-> IF sweep[w] = {} THEN {} ELSE sweep[w] \cup {there'}]
  /\ UNCHANGED telling

\* The bus calls the live watcher back at once.
AppToggles(x) ==
  /\ \E s \in AppStacks : About[s] = x
  /\ Toggle(x)
  /\ Tell(Armed \cap AppStacks, there')
  /\ UNCHANGED sweep

\* The interval of the live watcher; never two sweeps of one watcher.
SweepStarts ==
  /\ watcher # None
  /\ Armed \cap AdbStacks # {} /\ sweep[watcher] = {}
  /\ sweep' = [sweep EXCEPT ![watcher] = {there}]
  /\ UNCHANGED <<runVars, known, stored, watcher, seen, telling, cooling, there, wasAway>>

\* Mutant: a late sweep of a watcher that has been replaced counts.
SweepAnswersAnyWatcher(w) ==
  /\ \E present \in sweep[w] : Tell(Armed \cap AdbStacks, present)
  /\ sweep' = [sweep EXCEPT ![w] = {}]
  /\ UNCHANGED <<runVars, known, stored, watcher, seen, cooling, there, wasAway>>

\* pollAdb: what it tells counts while its watcher is the live one.
SweepAnswers(w) ==
  /\ \E present \in sweep[w] :
       IF watcher = w THEN Tell(Armed \cap AdbStacks, present) ELSE UNCHANGED telling
  /\ sweep' = [sweep EXCEPT ![w] = {}]
  /\ UNCHANGED <<runVars, known, stored, watcher, seen, cooling, there, wasAway>>

\* adb failed: unknown, not "everything unplugged".
SweepFails(w) ==
  /\ sweep[w] # {}
  /\ sweep' = [sweep EXCEPT ![w] = {}]
  /\ UNCHANGED <<runVars, known, stored, watcher, seen, telling, cooling, there, wasAway>>

CooldownEnds(s) ==
  /\ s \in cooling
  /\ cooling' = cooling \ {s}
  /\ UNCHANGED <<runVars, known, stored, watcher, seen, sweep, telling, there, wasAway>>

(***************************************************************************)
(* The specification                                                       *)
(***************************************************************************)
Init ==
  /\ run = [r \in Runs |-> FreeRun]
  /\ current = None /\ last = None
  /\ stop = [k \in Stops |-> IdleStop]
  /\ known \in Catalogues
  /\ stored = {} /\ watcher = None
  /\ seen = Disarmed /\ sweep = [w \in Watchers |-> {}] /\ telling = Quiet
  /\ cooling = {} /\ there = {} /\ wasAway = {}

\* What an event, a timer, an answer or the user begins.
Turn ==
  \/ \E s \in Stacks : \/ Save(s) \/ Remove(s)
                        \/ \E r \in Runs : UserRuns(s, r)
                        \/ \E k \in Stops : UserStops(s, k)
  \/ \E r \in Runs : \/ LaunchSucceeds(r) \/ LaunchFails(r)
                      \/ GateOpens(r) \/ GateFails(r)
  \/ \E k \in Stops : StopGoesOn(k)
  \/ \E x \in AppsOrDevices : DeviceToggles(x) \/ AppToggles(x)
  \/ \E s \in Triggered : CooldownEnds(s)
  \/ SweepStarts
  \/ \E w \in Watchers : SweepAnswers(w) \/ SweepFails(w)

Next ==
  \/ telling = Quiet /\ Turn
  \/ \E s \in Triggered : Tells(s)

\* A launch and a peer answer or fail, a gate and a departure have a deadline, and
\* a loop is not left half way.
Fairness ==
  /\ \A r \in Runs : /\ WF_vars(LaunchSucceeds(r) \/ LaunchFails(r))
                     /\ WF_vars(GateFails(r))
  /\ \A k \in Stops : WF_vars(StopGoesOn(k))
  /\ WF_vars(\E s \in Triggered : Tells(s))

Spec == Init /\ [][Next]_vars /\ Fairness

(***************************************************************************)
(* Properties                                                              *)
(***************************************************************************)
\* A step is launched only when each step before it is healthy or was optional,
\* whatever stops and other runs do meanwhile (the loop of run()).
GatesHold ==
  \A r \in Runs : \A i \in DOMAIN run[r].step : run[r].step[i] # "todo" =>
    \A j \in 1..(i - 1) : \/ run[r].step[j] = "healthy"
                          \/ StepOf(r, j).optional /\ run[r].step[j] \in {"failed", "late"}

\* Once the stops of a run are over, every program it had started when it was
\* stopped has been asked to go: nothing but a stray launch is left, and the next
\* stop of that record finds it (stop(), which marks entries and does not drop them).
StopIsComplete ==
  \A r \in Runs :
    run[r].aborted /\ (\A k \in Stops : stop[k].of # r)
      => \A i \in Pending(r) : run[r].step[i] = "stray"

\* No step is stopped before a later one that was running when the stop came,
\* also when two stops walk one record at a time (the reverse order of stop()).
StopsInReverse ==
  [][\A r \in Runs :
       \A i \in run'[r].asked \ run[r].asked : \A j \in Pending(r) \ run'[r].asked :
         j < i \/ run[r].step[j] = "stray"]_vars

\* Both together: a stack is taken down as it was built up.
StopsAreExact == [](TypeOK /\ StopIsComplete) /\ StopsInReverse

\* A trigger runs a stack only when its app or device really came: it had been
\* away since the watcher was armed, and no other run was started for the same
\* arrival, although sweeps of replaced watchers are answered late (edge()).
OnlyArrivalsTrigger ==
  [][\A r \in Runs :
       current # r /\ current' = r /\ cooling' # cooling
         => run'[r].stack \in wasAway]_vars

\* A run ends, and so does a stop, whatever does not answer (the deadlines of
\* waitForHealth and waitForDeparture, and the abort of a gate).
RunsAndStopsEnd ==
  /\ \A r \in Runs : (run[r].pc \in Live) ~> (run[r].pc = "ended")
  /\ \A k \in Stops : (stop[k].of # None) ~> (stop[k] = IdleStop)

\* Violated: one stack runs at a time, those apart that have been stopped.  Stop
\* clears current while the run it stops still awaits a launch; when that run
\* ends it clears current again, which belongs to the next run by then.
OneRun ==
  \A r, q \in Runs :
    (run[r].pc \in Live /\ run[q].pc \in Live /\ ~run[r].aborted /\ ~run[q].aborted) => r = q
=============================================================================
