----------------------------- MODULE StackRunProofs -----------------------------
(***************************************************************************)
(* What holds of the stacks for any catalogue of stacks, any number of     *)
(* remembered runs, stops under way and watchers.                          *)
(***************************************************************************)
EXTENDS StackRun, SequenceTheorems, TLAPS

Record == [stack : Stacks, at : Nat, pc : Live \cup {"free", "ended"},
           aborted : BOOLEAN, step : Seq(Outcomes), asked : SUBSET Nat]

RunTypes ==
  /\ run \in [Runs -> Record]
  /\ current \in Runs \cup {None} /\ last \in Runs \cup {None}
  /\ stop \in [Stops -> [of : Runs \cup {None}, todo : SUBSET Nat, at : Nat]]

TriggerTypes ==
  /\ known \in Catalogues /\ stored \subseteq known
  /\ watcher \in Watchers \cup {None}
  /\ seen \in [Triggered -> Seen]
  /\ sweep \in [Watchers -> SUBSET SUBSET AppsOrDevices]
  /\ telling \in [left : SUBSET Triggered, present : SUBSET AppsOrDevices]
  /\ cooling \subseteq Triggered /\ there \subseteq AppsOrDevices /\ wasAway \subseteq Triggered

\* Step j of the record x has been passed: it is healthy, or it was optional.
Passed(x, j) ==
  \/ x.step[j] = "healthy"
  \/ Steps[x.stack][j].optional /\ x.step[j] \in {"failed", "late"}

\* The loop of run() and its record: the steps before the one it is at have been
\* passed, those after it have not been touched.
InLoop(x) ==
  /\ x.pc = "free" => x.step = <<>>
  /\ x.pc # "free" => x.at \in 1..LastStep(x.stack) /\ DOMAIN x.step = 1..LastStep(x.stack)
  /\ x.pc = "launching" => x.step[x.at] = "todo"
  /\ x.pc = "gate" => x.step[x.at] = "started"
  /\ \A j \in DOMAIN x.step : j < x.at => Passed(x, j)
  /\ \A j \in DOMAIN x.step : j > x.at => x.step[j] = "todo"

RunInv == RunTypes /\ \A r \in Runs : InLoop(run[r])

\* A stop under way still has before it whatever of its record has to go, but for
\* stray launches, also when another stop of that record is under way; it has
\* aborted the run.
StopsFollow ==
  \A k \in Stops : \A r \in Runs : stop[k].of = r =>
    /\ run[r].aborted
    /\ \A j \in Pending(r) : run[r].step[j] = "stray" \/ j \in stop[k].todo

StopInv == RunInv /\ StopsFollow /\ StopIsComplete

\* What the live watcher believes of a stack that it has armed is behind the truth
\* in one direction only: an absence that it has seen, or that the sweep under way
\* may report, or that the loop under way is about to tell, or that lasts, is on
\* record.
AbsenceIsKnown ==
  \A s \in Triggered :
    /\ seen[s] # "off" =>
         /\ ~Present(s) => s \in wasAway
         /\ seen[s] = "away" => s \in wasAway
         /\ s \in AdbStacks =>
              \A present \in sweep[watcher] : About[s] \notin present => s \in wasAway
    /\ s \in telling.left => /\ seen[s] # "off"
                             /\ About[s] \notin telling.present => s \in wasAway
                             /\ s \in AdbStacks => sweep[watcher] = {}

\* Only a live watcher has stacks armed.
LiveArms == watcher = None => \A s \in Triggered : seen[s] = "off"

StackInv == StopInv /\ TriggerTypes /\ LiveArms /\ AbsenceIsKnown

\* What a step of the system does to the runs and the stops.
Moves(r) == LaunchSucceeds(r) \/ LaunchFails(r) \/ GateOpens(r) \/ GateFails(r)

\* A stop walks what its record has pending, or what is left of that.
Walks(k, r) ==
  \/ stop[k] = IdleStop /\ Walk(k, r, Pending(r))
  \/ stop[k].of = r /\ Walk(k, r, stop[k].todo)

\* A live run that is at x goes on to y, its step having become o: the run ends, its
\* program is awaited, or the next step is launched, which takes a step that passed.
Goes(x, y, o) ==
  /\ y \in Record
  /\ y.stack = x.stack /\ y.aborted = x.aborted /\ y.asked = x.asked
  /\ DOMAIN y.step = DOMAIN x.step
  /\ \A j \in DOMAIN x.step : y.step[j] = IF j = x.at THEN o ELSE x.step[j]
  /\ \/ y.pc = "ended" /\ y.at = x.at
     \/ y.pc = "gate" /\ y.at = x.at /\ o = "started"
     \/ /\ y.pc = "launching" /\ y.at = x.at + 1
        /\ x.at # LastStep(x.stack) /\ ~x.aborted
        /\ \/ o = "healthy"
           \/ Steps[x.stack][x.at].optional /\ o \in {"failed", "late"}
  /\ x.pc = "launching" => (IF x.aborted THEN o \in {"stray", "failed"}
                                         ELSE o \in {"started", "failed"})

\* What a stop does on the way to its next wait, or to its end: it marks steps of
\* its record.
Marks(k, r, todo, asked) ==
  /\ run' = [run EXCEPT ![r].asked = @ \cup asked, ![r].aborted = TRUE]
  /\ current' \in Runs \cup {None} /\ last' \in Runs \cup {None}
  /\ \/ \E m \in todo :
          /\ asked = {j \in todo : j >= m}
          /\ stop' = [stop EXCEPT ![k] =
                        [of |-> r, todo |-> {j \in todo : j < m}, at |-> m]]
     \/ asked = todo /\ stop' = [stop EXCEPT ![k] = IdleStop]

RunStep ==
  \/ UNCHANGED runVars
  \/ \E s \in Stacks, r \in Runs : Begin(s, r)
  \/ \E r \in Runs : Moves(r)
  \/ \E k \in Stops, r \in Runs : Walks(k, r)

-----------------------------------------------------------------------------
\* StopCall is a walk of a remembered run.
LEMMA StopCallWalks ==
  ASSUME RunTypes, NEW s, NEW k \in Stops, StopCall(s, k)
  PROVE  \E r \in Runs : Walks(k, r)
<1>1. RecordOf(s) \in Runs
  BY StackAssumption DEF StopCall, RecordOf, RunTypes
<1> QED
  BY <1>1 DEF StopCall, Walks

\* Whatever triggers, users, launches and stops do, it is one of these to the runs.
LEMMA StepsOfRuns == RunTypes /\ [Next]_vars => RunStep
<1> SUFFICES ASSUME RunTypes, [Next]_vars PROVE RunStep
  OBVIOUS
<1> USE StackAssumption
<1>0. Triggered \subseteq Stacks
  OBVIOUS
<1>1. ASSUME NEW s \in Stacks, Save(s) \/ Remove(s) PROVE RunStep
  BY <1>1 DEF Save, Remove, RunStep
<1>2. ASSUME NEW s \in Stacks, NEW r \in Runs, UserRuns(s, r) PROVE RunStep
  BY <1>2 DEF UserRuns, RunStep
<1>3. ASSUME NEW s \in Stacks, NEW k \in Stops, UserStops(s, k) PROVE RunStep
  BY <1>3, StopCallWalks DEF UserStops, RunStep
<1>4. ASSUME NEW r \in Runs, Moves(r) PROVE RunStep
  BY <1>4 DEF RunStep
<1>5. ASSUME NEW k \in Stops, StopGoesOn(k) PROVE RunStep
  <2>1. stop[k].of \in Runs
    BY <1>5 DEF StopGoesOn, RunTypes
  <2> QED
    BY <1>5, <2>1 DEF StopGoesOn, Walks, RunStep
<1>6. ASSUME NEW s \in Triggered, FireArrival(s) PROVE RunStep
  BY <1>0, <1>6 DEF FireArrival, RunStep
<1>7. ASSUME NEW s \in Triggered, FireDeparture(s) PROVE RunStep
  BY <1>7, StopCallWalks DEF FireDeparture, RunStep
<1>8. ASSUME NEW x \in AppsOrDevices, DeviceToggles(x) \/ AppToggles(x) PROVE RunStep
  BY <1>8 DEF DeviceToggles, AppToggles, Toggle, RunStep
<1>9. (SweepStarts \/ \E s \in Triggered : CooldownEnds(s)) => RunStep
  BY DEF SweepStarts, CooldownEnds, RunStep
<1>10. ASSUME NEW s \in Triggered, Tells(s) PROVE RunStep
  <2>1. \/ UNCHANGED runVars
        \/ FireArrival(s) \/ FireDeparture(s)
    BY <1>10 DEF Tells, Edge
  <2> QED
    BY <1>6, <1>7, <2>1 DEF RunStep
<1>11. ASSUME NEW w \in Watchers, SweepFails(w) \/ SweepAnswers(w) PROVE RunStep
  BY <1>11 DEF SweepFails, SweepAnswers, RunStep
<1>12. CASE UNCHANGED vars
  BY <1>12 DEF vars, RunStep
<1> QED
  BY <1>1, <1>2, <1>3, <1>4, <1>5, <1>8, <1>9, <1>10, <1>11, <1>12 DEF Next, Turn, Moves
-----------------------------------------------------------------------------
(* The records of runs, and what the steps of the loop make of them.         *)

\* A new record is at its first step, and a garbage one has none.
LEMMA FreshRecord ==
  ASSUME NEW s \in Stacks
  PROVE  LET x == [stack |-> s, at |-> 1, pc |-> "launching", aborted |-> FALSE,
                   step |-> [i \in 1..LastStep(s) |-> "todo"], asked |-> {}]
         IN  x \in Record /\ InLoop(x)
<1>1. LastStep(s) \in Nat /\ LastStep(s) >= 1
  BY StackAssumption, EmptySeq DEF LastStep
<1>2. [i \in 1..LastStep(s) |-> "todo"] \in Seq(Outcomes)
  BY <1>1, SeqDef DEF Outcomes
<1> QED
  BY <1>1, <1>2 DEF Record, InLoop, Live

LEMMA GarbageRecord == FreeRun \in Record /\ InLoop(FreeRun)
<1>1. Unused \in Stacks
  BY StackAssumption DEF Unused
<1>2. <<>> \in Seq(Outcomes)
  BY EmptySeq
<1> QED
  BY <1>1, <1>2 DEF FreeRun, Record, InLoop, Live

\* The step that a live run is at becomes something; the others stay.
LEMMA StepBecomes ==
  ASSUME RunInv, NEW r \in Runs, run[r].pc \in Live, NEW o \in Outcomes
  PROVE  /\ Became(r, o) \in Record
         /\ Became(r, o).stack = run[r].stack
         /\ Became(r, o).at = run[r].at
         /\ Became(r, o).pc = run[r].pc
         /\ Became(r, o).aborted = run[r].aborted
         /\ Became(r, o).asked = run[r].asked
         /\ DOMAIN Became(r, o).step = DOMAIN run[r].step
         /\ run[r].at \in DOMAIN run[r].step
         /\ \A j \in DOMAIN run[r].step :
              Became(r, o).step[j] = IF j = run[r].at THEN o ELSE run[r].step[j]
<1> DEFINE x == run[r]
<1>1. x \in Record /\ InLoop(x)
  BY DEF RunInv, RunTypes
<1>2. x.at \in DOMAIN x.step /\ x.step \in Seq(Outcomes)
  BY <1>1 DEF InLoop, Live, Record
<1>3. DOMAIN x.step = 1..Len(x.step)
  BY <1>2, LenProperties
<1>4. /\ [x.step EXCEPT ![x.at] = o] \in Seq(Outcomes)
      /\ DOMAIN [x.step EXCEPT ![x.at] = o] = DOMAIN x.step
  BY <1>2, <1>3, ExceptSeq
<1>5. Became(r, o) = [x EXCEPT !.step = [x.step EXCEPT ![x.at] = o]]
  BY <1>1 DEF Became, Record
<1> QED
  BY <1>1, <1>2, <1>3, <1>4, <1>5 DEF Record
\* End closes the record of the run; what it forgets had ended.
LEMMA EndOfRun ==
  ASSUME RunInv, NEW r \in Runs, NEW x \in Record, End(r, x)
  PROVE  /\ run'[r] \in Record
         /\ run'[r].pc = "ended" /\ run'[r].at = x.at /\ run'[r].step = x.step
         /\ run'[r].stack = x.stack /\ run'[r].aborted = x.aborted /\ run'[r].asked = x.asked
BY DEF End, RunInv, RunTypes, Record

\* The next step of a record, and its gate.
LEMMA NextOfRecord ==
  ASSUME NEW b \in Record, NEW y, y = [b EXCEPT !.at = @ + 1, !.pc = "launching"]
  PROVE  /\ y \in Record /\ y.pc = "launching" /\ y.at = b.at + 1 /\ y.step = b.step
         /\ y.stack = b.stack /\ y.aborted = b.aborted /\ y.asked = b.asked
<1>1. b.at \in Nat /\ b.at + 1 \in Nat
  BY DEF Record
<1>2. y = [[b EXCEPT !.at = b.at + 1] EXCEPT !.pc = "launching"]
  BY DEF Record
<1>3. [b EXCEPT !.at = b.at + 1] \in Record
  BY <1>1 DEF Record
<1> QED
  BY <1>1, <1>2, <1>3 DEF Record, Live

LEMMA GateOfRecord ==
  ASSUME NEW b \in Record, NEW y, y = [b EXCEPT !.pc = "gate"]
  PROVE  /\ y \in Record /\ y.pc = "gate" /\ y.at = b.at /\ y.step = b.step
         /\ y.stack = b.stack /\ y.aborted = b.aborted /\ y.asked = b.asked
BY DEF Record, Live

\* What a launch or a gate that succeeds or fails makes of its run.
LEMMA MoveGoes ==
  ASSUME RunInv, NEW r \in Runs, Moves(r)
  PROVE  run[r].pc \in Live /\ \E o \in Outcomes : Goes(run[r], run'[r], o)
<1> DEFINE x == run[r]
<1>0. x \in Record /\ run \in [Runs -> Record]
  BY DEF RunInv, RunTypes
<1>1. x.pc \in Live
  BY DEF Moves, LaunchSucceeds, LaunchFails, GateOpens, GateFails, Live
<1>2. x.pc = "gate" => x.step[x.at] = "started"
  BY DEF RunInv, InLoop
<1>3. ASSUME NEW o \in Outcomes, End(r, Became(r, o)),
             x.pc = "launching" => (IF x.aborted THEN o \in {"stray", "failed"}
                                                 ELSE o \in {"started", "failed"})
      PROVE  Goes(x, run'[r], o)
  BY <1>1, <1>3, StepBecomes, EndOfRun DEF Goes
<1>4. ASSUME NEW o \in Outcomes, Proceed(r, Became(r, o)),
             o = "healthy" \/ (Optional(r) /\ o \in {"failed", "late"}),
             x.pc = "launching" => o = "failed"
      PROVE  Goes(x, run'[r], o)
  <2>1. CASE End(r, Became(r, o))
    BY <1>3, <1>4, <2>1
  <2>2. CASE /\ ~x.aborted /\ x.at # LastStep(x.stack)
             /\ run'[r] = [Became(r, o) EXCEPT !.at = @ + 1, !.pc = "launching"]
    <3>0. Became(r, o) \in Record
      BY <1>1, StepBecomes
    <3>1. /\ run'[r] \in Record
          /\ run'[r].pc = "launching" /\ run'[r].at = x.at + 1
          /\ run'[r].step = Became(r, o).step /\ run'[r].stack = x.stack
          /\ run'[r].aborted = x.aborted /\ run'[r].asked = x.asked
      <4> DEFINE b == Became(r, o)
      <4>1. b \in Record /\ run'[r] = [b EXCEPT !.at = @ + 1, !.pc = "launching"]
        BY <2>2, <3>0
      <4>2. b.at = x.at /\ b.stack = x.stack /\ b.aborted = x.aborted /\ b.asked = x.asked
        BY <1>1, StepBecomes
      <4> HIDE DEF b
      <4>3. /\ run'[r] \in Record /\ run'[r].pc = "launching"
            /\ run'[r].at = b.at + 1 /\ run'[r].step = b.step /\ run'[r].stack = b.stack
            /\ run'[r].aborted = b.aborted /\ run'[r].asked = b.asked
        BY <4>1, NextOfRecord
      <4> QED
        BY <4>2, <4>3 DEF b
    <3> QED
      BY <1>1, <1>4, <2>2, <3>1, StepBecomes DEF Goes, Optional, StepOf
  <2> QED
    BY <1>0, <1>1, <1>4, <2>1, <2>2, StepBecomes DEF Proceed
<1>5. CASE LaunchSucceeds(r)
  <2>1. CASE x.aborted
    <3>1. End(r, Became(r, "stray")) /\ "stray" \in Outcomes
      BY <1>5, <2>1 DEF LaunchSucceeds, Outcomes
    <3>2. Goes(x, run'[r], "stray")
      BY <1>3, <2>1, <3>1
    <3> QED
      BY <1>1, <3>1, <3>2
  <2>2. CASE ~x.aborted
    <3>1. run'[r] = [Became(r, "started") EXCEPT !.pc = "gate"] /\ x.pc = "launching"
      BY <1>0, <1>5, <2>2 DEF LaunchSucceeds
    <3>2. "started" \in Outcomes
      BY DEF Outcomes
    <3>3. /\ run'[r] \in Record
          /\ run'[r].pc = "gate" /\ run'[r].at = x.at
          /\ run'[r].step = Became(r, "started").step /\ run'[r].stack = x.stack
          /\ run'[r].aborted = x.aborted /\ run'[r].asked = x.asked
      BY <1>1, <3>1, <3>2, StepBecomes, GateOfRecord
    <3> QED
      BY <1>1, <2>2, <3>1, <3>2, <3>3, StepBecomes DEF Goes
  <2> QED
    BY <1>1, <2>1, <2>2
<1>6. CASE LaunchFails(r)
  BY <1>1, <1>3, <1>4, <1>6 DEF LaunchFails, Outcomes
<1>7. CASE GateOpens(r)
  <2>1. Proceed(r, Became(r, "healthy")) /\ x.pc # "launching" /\ "healthy" \in Outcomes
    BY <1>7 DEF GateOpens, Outcomes
  <2>2. Goes(x, run'[r], "healthy")
    BY <1>4, <2>1
  <2> QED
    BY <1>1, <2>1, <2>2
<1>8. CASE GateFails(r)
  <2>1. CASE x.aborted
    <3>1. End(r, x) /\ x.pc = "gate"
      BY <1>8, <2>1 DEF GateFails
    <3>2. "started" \in Outcomes
      BY DEF Outcomes
    <3> QED
      BY <1>0, <1>1, <1>2, <3>1, <3>2, EndOfRun DEF Goes
  <2>2. CASE ~x.aborted
    BY <1>1, <1>3, <1>4, <1>8, <2>2 DEF GateFails, Outcomes
  <2> QED
    BY <2>1, <2>2
<1> QED
  BY <1>1, <1>5, <1>6, <1>7, <1>8 DEF Moves
-----------------------------------------------------------------------------
\* A run that goes on is still in its loop: the next step is launched behind steps
\* that have all been passed.
LEMMA GoesInLoop ==
  ASSUME NEW x \in Record, NEW y, NEW o \in Outcomes, InLoop(x), x.pc \in Live, Goes(x, y, o)
  PROVE  InLoop(y)
<1>1. /\ x.at \in 1..LastStep(x.stack) /\ DOMAIN x.step = 1..LastStep(x.stack)
      /\ DOMAIN y.step = DOMAIN x.step /\ y.stack = x.stack /\ y.at \in Nat
  BY DEF InLoop, Goes, Live, Record
<1>2. LastStep(x.stack) \in Nat
  <2>1. x.step \in Seq(Outcomes)
    BY DEF Record
  <2>2. Len(x.step) = LastStep(x.stack) \/ LastStep(x.stack) < 1
    BY <1>1, <2>1, LenProperties DEF LastStep
  <2>3. x.stack \in Stacks
    BY DEF Record
  <2> QED
    BY <2>3, StackAssumption DEF LastStep
<1>3. y.pc # "free" => y.at \in 1..LastStep(y.stack)
  BY <1>1, <1>2 DEF Goes
<1>4. /\ y.pc = "launching" => y.step[y.at] = "todo"
      /\ y.pc = "gate" => y.step[y.at] = "started"
  BY <1>1, <1>2 DEF InLoop, Goes
<1>5. \A j \in DOMAIN y.step : j < y.at => Passed(y, j)
  BY <1>1, <1>2 DEF InLoop, Goes, Passed
<1>6. \A j \in DOMAIN y.step : j > y.at => y.step[j] = "todo"
  BY <1>1, <1>2 DEF InLoop, Goes
<1>7. y.pc # "free"
  BY DEF Goes
<1> QED
  BY <1>1, <1>3, <1>4, <1>5, <1>6, <1>7 DEF InLoop

\* A move of one run leaves the others alone, or forgets one that had ended and
\* that no stop walks.
LEMMA MoveElsewhere ==
  ASSUME RunInv, NEW r \in Runs, Moves(r)
  PROVE  /\ stop' = stop /\ run' \in [Runs -> Record]
         /\ current' \in Runs \cup {None} /\ last' \in Runs \cup {None}
         /\ \A q \in Runs \ {r} :
              \/ run'[q] = run[q]
              \/ run'[q] = FreeRun /\ \A k \in Stops : stop[k].of # q
<1>1. run'[r] \in Record
  BY MoveGoes DEF Goes
<1>2. ASSUME NEW x, End(r, x)
      PROVE  /\ stop' = stop /\ run' \in [Runs -> Record]
             /\ current' \in Runs \cup {None} /\ last' \in Runs \cup {None}
             /\ \A q \in Runs \ {r} :
                  \/ run'[q] = run[q]
                  \/ run'[q] = FreeRun /\ \A k \in Stops : stop[k].of # q
  BY <1>1, <1>2, GarbageRecord DEF End, RunInv, RunTypes
<1>3. ASSUME NEW y, run' = [run EXCEPT ![r] = y], UNCHANGED <<current, last, stop>>
      PROVE  /\ stop' = stop /\ run' \in [Runs -> Record]
             /\ current' \in Runs \cup {None} /\ last' \in Runs \cup {None}
             /\ \A q \in Runs \ {r} : run'[q] = run[q]
  BY <1>1, <1>3 DEF RunInv, RunTypes
<1>4. ASSUME NEW x, Proceed(r, x)
      PROVE  /\ stop' = stop /\ run' \in [Runs -> Record]
             /\ current' \in Runs \cup {None} /\ last' \in Runs \cup {None}
             /\ \A q \in Runs \ {r} :
                  \/ run'[q] = run[q]
                  \/ run'[q] = FreeRun /\ \A k \in Stops : stop[k].of # q
  BY <1>2, <1>3, <1>4 DEF Proceed
<1>5. CASE LaunchSucceeds(r)
  BY <1>2, <1>3, <1>5 DEF LaunchSucceeds
<1>6. CASE LaunchFails(r)
  BY <1>2, <1>4, <1>6 DEF LaunchFails
<1>7. CASE GateOpens(r)
  BY <1>4, <1>7 DEF GateOpens
<1>8. CASE GateFails(r)
  BY <1>2, <1>4, <1>8 DEF GateFails
<1> QED
  BY <1>5, <1>6, <1>7, <1>8 DEF Moves

\* A stop marks steps of its record and aborts its run, and nothing else of any
\* record changes.
LEMMA WalkMarks ==
  ASSUME RunInv, NEW k \in Stops, NEW r \in Runs, Walks(k, r)
  PROVE  \E todo \in SUBSET Nat, asked \in SUBSET Nat :
           /\ \/ stop[k] = IdleStop /\ todo = Pending(r)
              \/ stop[k].of = r /\ todo = stop[k].todo
           /\ Marks(k, r, todo, asked)
<1>1. Pending(r) \in SUBSET Nat
  <2>1. run[r].step \in Seq(Outcomes)
    BY DEF RunInv, RunTypes, Record
  <2>2. DOMAIN run[r].step \subseteq Nat
    BY <2>1, LenProperties
  <2> QED
    BY <2>2 DEF Pending, Started
<1>2. stop[k].todo \in SUBSET Nat
  BY DEF RunInv, RunTypes
<1>3. ASSUME NEW todo \in SUBSET Nat, Walk(k, r, todo)
      PROVE  \E asked \in SUBSET Nat : Marks(k, r, todo, asked)
  BY <1>3 DEF Walk, Marks, RunInv, RunTypes
<1>4. CASE stop[k] = IdleStop /\ Walk(k, r, Pending(r))
  BY <1>1, <1>3, <1>4
<1>5. CASE stop[k].of = r /\ Walk(k, r, stop[k].todo)
  BY <1>2, <1>3, <1>5
<1> QED
  BY <1>4, <1>5 DEF Walks
-----------------------------------------------------------------------------
\* The records keep their types and their order.
LEMMA RunInvStep == RunInv /\ RunStep => RunInv'
<1> SUFFICES ASSUME RunInv, RunStep PROVE RunInv'
  OBVIOUS
<1>1. CASE UNCHANGED runVars
  BY <1>1 DEF RunInv, RunTypes, runVars
<1>2. ASSUME NEW s \in Stacks, NEW r \in Runs, Begin(s, r) PROVE RunInv'
  <2>1. /\ run' = [run EXCEPT ![r] = run'[r]]
        /\ run'[r] \in Record /\ InLoop(run'[r])
    BY <1>2, FreshRecord DEF Begin, RunInv, RunTypes
  <2>2. current' = r /\ UNCHANGED <<last, stop>>
    BY <1>2 DEF Begin
  <2> QED
    BY <2>1, <2>2 DEF RunInv, RunTypes
<1>3. ASSUME NEW r \in Runs, Moves(r) PROVE RunInv'
  <2>1. InLoop(run'[r])
    BY <1>3, MoveGoes, GoesInLoop DEF RunInv, RunTypes
  <2>2. \A q \in Runs \ {r} : InLoop(run'[q])
    BY <1>3, MoveElsewhere, GarbageRecord DEF RunInv
  <2> QED
    BY <1>3, <2>1, <2>2, MoveElsewhere DEF RunInv, RunTypes
<1>4. ASSUME NEW k \in Stops, NEW r \in Runs, Walks(k, r) PROVE RunInv'
  <2>1. PICK todo \in SUBSET Nat, asked \in SUBSET Nat : Marks(k, r, todo, asked)
    BY <1>4, WalkMarks
  <2>2. run' \in [Runs -> Record]
    <3>1. run[r] \in Record
      BY DEF RunInv, RunTypes
    <3>2. run[r].asked \cup asked \in SUBSET Nat
      BY <3>1 DEF Record
    <3>3. [run[r] EXCEPT !.asked = run[r].asked \cup asked] \in Record
      BY <3>1, <3>2 DEF Record
    <3>4. [[run[r] EXCEPT !.asked = run[r].asked \cup asked] EXCEPT !.aborted = TRUE] \in Record
      BY <3>3 DEF Record
    <3>5. run' = [run EXCEPT ![r] =
            [[run[r] EXCEPT !.asked = run[r].asked \cup asked] EXCEPT !.aborted = TRUE]]
      BY <2>1 DEF Marks, RunInv, RunTypes
    <3> QED
      BY <3>4, <3>5 DEF RunInv, RunTypes
  <2>3. \A q \in Runs : /\ run'[q].pc = run[q].pc /\ run'[q].at = run[q].at
                        /\ run'[q].step = run[q].step /\ run'[q].stack = run[q].stack
    BY <2>1 DEF Marks, RunInv, RunTypes, Record
  <2>4. \A q \in Runs : InLoop(run'[q])
    BY <2>3 DEF RunInv, InLoop, Passed
  <2>5. stop' \in [Stops -> [of : Runs \cup {None}, todo : SUBSET Nat, at : Nat]]
    <3>1. CASE \E m \in todo : stop' = [stop EXCEPT ![k] =
                                  [of |-> r, todo |-> {j \in todo : j < m}, at |-> m]]
      <4>1. PICK m \in todo : stop' = [stop EXCEPT ![k] =
                                [of |-> r, todo |-> {j \in todo : j < m}, at |-> m]]
        BY <3>1
      <4>2. {j \in todo : j < m} \in SUBSET Nat /\ m \in Nat
        OBVIOUS
      <4>3. [of |-> r, todo |-> {j \in todo : j < m}, at |-> m]
              \in [of : Runs \cup {None}, todo : SUBSET Nat, at : Nat]
        BY <4>2
      <4> QED
        BY <4>1, <4>3 DEF RunInv, RunTypes
    <3>2. CASE stop' = [stop EXCEPT ![k] = IdleStop]
      BY <3>2 DEF RunInv, RunTypes, IdleStop
    <3> QED
      BY <2>1, <3>1, <3>2 DEF Marks
  <2> QED
    BY <2>1, <2>2, <2>4, <2>5 DEF Marks, RunInv, RunTypes
<1> QED
  BY <1>1, <1>2, <1>3, <1>4 DEF RunStep
\* A run that has been aborted starts nothing any more but a stray: what it has
\* pending afterwards was pending before.
LEMMA AbortedStartsNothing ==
  ASSUME RunInv, NEW r \in Runs, Moves(r), run[r].aborted
  PROVE  /\ run'[r].aborted
         /\ \A j \in Pending(r)' :
              run'[r].step[j] = "stray" \/ (j \in Pending(r) /\ run[r].step[j] # "stray")
<1>1. PICK o \in Outcomes : Goes(run[r], run'[r], o)
  BY MoveGoes
<1>2. run[r].pc \in Live /\ (run[r].pc = "gate" => run[r].step[run[r].at] = "started")
  BY MoveGoes DEF RunInv, InLoop
<1>3. ASSUME NEW j \in Pending(r)', run'[r].step[j] # "stray"
      PROVE  j \in Pending(r) /\ (j = run[r].at => run[r].step[j] = "started")
                              /\ (j # run[r].at => run[r].step[j] = run'[r].step[j])
  <2>1. /\ j \in DOMAIN run[r].step /\ j \notin run[r].asked
        /\ StepOf(r, j).kind # "wake"
        /\ run'[r].step[j] \notin {"todo", "failed"}
    BY <1>1, <1>3 DEF Pending, Started, Goes, StepOf
  <2>2. CASE j = run[r].at
    <3>1. run[r].pc = "gate"
      BY <1>1, <1>2, <1>3, <2>1, <2>2 DEF Goes, Live
    <3> QED
      BY <1>2, <2>1, <2>2, <3>1 DEF Pending, Started
  <2>3. CASE j # run[r].at
    BY <1>1, <2>1, <2>3 DEF Pending, Started, Goes
  <2> QED
    BY <2>2, <2>3
<1>4. run'[r].aborted
  BY <1>1 DEF Goes
<1> QED
  BY <1>3, <1>4

\* Stops stay complete: what they have to ask goes on being what they walk.
LEMMA StopInvStep == StopInv /\ RunStep => StopInv'
<1> SUFFICES ASSUME StopInv, RunStep PROVE (StopsFollow /\ StopIsComplete)'
  BY RunInvStep DEF StopInv
<1>0. RunInv /\ StopsFollow /\ StopIsComplete /\ None \notin Runs
  BY StackAssumption DEF StopInv
<1>1. CASE UNCHANGED runVars
  BY <1>0, <1>1 DEF StopsFollow, StopIsComplete, Pending, Started, StepOf, runVars
<1>2. ASSUME NEW s \in Stacks, NEW r \in Runs, Begin(s, r) PROVE (StopsFollow /\ StopIsComplete)'
  <2>1. /\ stop' = stop /\ \A k \in Stops : stop[k].of # r
        /\ ~run'[r].aborted /\ \A q \in Runs \ {r} : run'[q] = run[q]
    BY <1>0, <1>2 DEF Begin, Reusable, RunInv, RunTypes
  <2> QED
    BY <1>0, <2>1 DEF StopsFollow, StopIsComplete, Pending, Started, StepOf
<1>3. ASSUME NEW r \in Runs, Moves(r) PROVE (StopsFollow /\ StopIsComplete)'
  <2>1. stop' = stop
    BY <1>0, <1>3, MoveElsewhere
  <2>2. ASSUME NEW q \in Runs \ {r}
        PROVE  \/ run'[q] = run[q]
               \/ ~run'[q].aborted /\ \A k \in Stops : stop[k].of # q
    BY <1>0, <1>3, MoveElsewhere DEF FreeRun
  <2>3. run'[r].aborted = run[r].aborted
    BY <1>0, <1>3, MoveGoes DEF Goes
  <2>4. StopsFollow'
    <3> SUFFICES ASSUME NEW k \in Stops, NEW q \in Runs, stop[k].of = q
                 PROVE  /\ run'[q].aborted
                        /\ \A j \in Pending(q)' :
                             run'[q].step[j] = "stray" \/ j \in stop[k].todo
      BY <2>1 DEF StopsFollow
    <3>1. CASE q = r
      BY <1>0, <1>3, <3>1, AbortedStartsNothing DEF StopsFollow
    <3>2. CASE q # r
      <4>1. run'[q] = run[q]
        BY <2>2, <3>2
      <4> QED
        BY <1>0, <4>1 DEF StopsFollow, Pending, Started, StepOf
    <3> QED
      BY <3>1, <3>2
  <2>5. StopIsComplete'
    <3> SUFFICES ASSUME NEW q \in Runs, run'[q].aborted, \A k \in Stops : stop[k].of # q
                 PROVE  \A j \in Pending(q)' : run'[q].step[j] = "stray"
      BY <2>1 DEF StopIsComplete
    <3>1. CASE q = r
      BY <1>0, <1>3, <2>3, <3>1, AbortedStartsNothing DEF StopIsComplete
    <3>2. CASE q # r
      <4>1. run'[q] = run[q]
        BY <2>2, <3>2
      <4> QED
        BY <1>0, <4>1 DEF StopIsComplete, Pending, Started, StepOf
    <3> QED
      BY <3>1, <3>2
  <2> QED
    BY <2>4, <2>5
<1>4. ASSUME NEW k \in Stops, NEW r \in Runs, Walks(k, r) PROVE (StopsFollow /\ StopIsComplete)'
  <2>1. PICK todo \in SUBSET Nat, asked \in SUBSET Nat :
          /\ \/ stop[k] = IdleStop /\ todo = Pending(r)
             \/ stop[k].of = r /\ todo = stop[k].todo
          /\ Marks(k, r, todo, asked)
    BY <1>0, <1>4, WalkMarks
  <2>2. /\ \A q \in Runs \ {r} : run'[q] = run[q]
        /\ run'[r].aborted /\ run'[r].step = run[r].step /\ run'[r].stack = run[r].stack
        /\ run'[r].asked = run[r].asked \cup asked
    BY <1>0, <2>1 DEF Marks, RunInv, RunTypes, Record
  <2>3. Pending(r)' = Pending(r) \ asked
    BY <2>2 DEF Pending, Started, StepOf
  <2>4. \A q \in Runs \ {r} : Pending(q)' = Pending(q)
    BY <2>2 DEF Pending, Started, StepOf
  <2>5. \A j \in Pending(r) : run[r].step[j] = "stray" \/ j \in todo
    BY <1>0, <2>1 DEF StopsFollow
  <2>6. /\ \A i \in Stops \ {k} : stop'[i] = stop[i]
        /\ stop'[k].of = r \/ stop'[k].of = None
        /\ stop'[k].of = r => \A j \in todo : j \in asked \/ j \in stop'[k].todo
        /\ stop'[k].of = None => asked = todo
    <3>1. CASE asked = todo /\ stop' = [stop EXCEPT ![k] = IdleStop]
      BY <1>0, <3>1 DEF RunInv, RunTypes, IdleStop
    <3>2. ASSUME NEW m \in todo, asked = {j \in todo : j >= m},
                 stop' = [stop EXCEPT ![k] = [of |-> r, todo |-> {j \in todo : j < m}, at |-> m]]
          PROVE  /\ \A i \in Stops \ {k} : stop'[i] = stop[i]
                 /\ stop'[k].of = r
                 /\ \A j \in todo : j \in asked \/ j \in stop'[k].todo
      <4>1. stop'[k].of = r /\ stop'[k].todo = {j \in todo : j < m}
        BY <1>0, <3>2 DEF RunInv, RunTypes
      <4>2. \A j \in todo : j >= m \/ j < m
        OBVIOUS
      <4> QED
        BY <1>0, <3>2, <4>1, <4>2 DEF RunInv, RunTypes
    <3> QED
      BY <1>0, <2>1, <3>1, <3>2 DEF Marks
  <2>7. StopsFollow'
    <3> SUFFICES ASSUME NEW i \in Stops, NEW q \in Runs, stop'[i].of = q
                 PROVE  /\ run'[q].aborted
                        /\ \A j \in Pending(q)' :
                             run'[q].step[j] = "stray" \/ j \in stop'[i].todo
      BY DEF StopsFollow
    <3>1. CASE q = r /\ i = k
      BY <2>2, <2>3, <2>5, <2>6, <3>1
    <3>2. CASE q = r /\ i # k
      BY <1>0, <2>2, <2>3, <2>6, <3>2 DEF StopsFollow
    <3>3. CASE q # r
      BY <1>0, <2>2, <2>4, <2>6, <3>3 DEF StopsFollow
    <3> QED
      BY <3>1, <3>2, <3>3
  <2>8. StopIsComplete'
    <3> SUFFICES ASSUME NEW q \in Runs, run'[q].aborted, \A i \in Stops : stop'[i].of # q
                 PROVE  \A j \in Pending(q)' : run'[q].step[j] = "stray"
      BY DEF StopIsComplete
    <3>1. CASE q = r
      BY <2>2, <2>3, <2>5, <2>6, <3>1
    <3>2. CASE q # r
      <4>1. stop[k].of # q
        BY <1>0, <2>1, <3>2 DEF IdleStop
      <4> QED
        BY <1>0, <2>2, <2>4, <2>6, <3>2, <4>1 DEF StopIsComplete
    <3> QED
      BY <3>1, <3>2
  <2> QED
    BY <2>7, <2>8
<1> QED
  BY <1>1, <1>2, <1>3, <1>4 DEF RunStep

\* A stop asks what it walks from the last step to the first.
LEMMA StopOrder ==
  ASSUME StopInv, RunStep, NEW r \in Runs, NEW i \in run'[r].asked \ run[r].asked,
         NEW j \in Pending(r) \ run'[r].asked
  PROVE  j < i \/ run[r].step[j] = "stray"
<1>0. RunInv /\ StopsFollow
  BY DEF StopInv
<1>1. CASE UNCHANGED runVars
  BY <1>1 DEF runVars
<1>2. ASSUME NEW s \in Stacks, NEW q \in Runs, Begin(s, q) PROVE FALSE
  BY <1>0, <1>2 DEF Begin, RunInv, RunTypes
<1>3. ASSUME NEW q \in Runs, Moves(q) PROVE FALSE
  BY <1>0, <1>3, MoveGoes, MoveElsewhere DEF Goes, FreeRun
<1>4. ASSUME NEW k \in Stops, NEW q \in Runs, Walks(k, q)
      PROVE  j < i \/ run[r].step[j] = "stray"
  <2>1. PICK todo \in SUBSET Nat, asked \in SUBSET Nat :
          /\ \/ stop[k] = IdleStop /\ todo = Pending(q)
             \/ stop[k].of = q /\ todo = stop[k].todo
          /\ Marks(k, q, todo, asked)
    BY <1>0, <1>4, WalkMarks
  <2>2. q = r /\ run'[r].asked = run[r].asked \cup asked
    BY <1>0, <2>1 DEF Marks, RunInv, RunTypes, Record
  <2>3. i \in asked /\ j \notin asked
    BY <2>2
  <2>4. run[r].step[j] = "stray" \/ j \in todo
    BY <1>0, <2>1, <2>2 DEF StopsFollow
  <2>5. CASE asked = todo
    BY <2>3, <2>4, <2>5
  <2>6. ASSUME NEW m \in todo, asked = {n \in todo : n >= m}
        PROVE  j < i \/ run[r].step[j] = "stray"
    <3>1. m \in Nat /\ i \in Nat /\ i >= m
      BY <2>3, <2>6
    <3>2. CASE j \in todo
      <4>1. j \in Nat /\ ~(j >= m)
        BY <2>3, <2>6, <3>2
      <4> QED
        BY <3>1, <4>1
    <3> QED
      BY <2>4, <3>2
  <2> QED
    BY <2>1, <2>5, <2>6 DEF Marks
<1> QED
  BY <1>1, <1>2, <1>3, <1>4 DEF RunStep
-----------------------------------------------------------------------------
(* The watcher.                                                              *)

\* Firing a trigger touches the runs and the cooldowns.
LEMMA FiringCools ==
  ASSUME TriggerTypes, NEW s \in Triggered, FireArrival(s) \/ FireDeparture(s)
  PROVE  cooling' \subseteq Triggered
BY DEF FireArrival, FireDeparture, TriggerTypes

\* The watcher that is armed: it has seen the apps, and has asked adb.
LEMMA ArmArms ==
  ASSUME TriggerTypes, NEW stacks, Arm(stacks)
  PROVE  /\ watcher' \in Watchers \cup {None} /\ wasAway' \subseteq Triggered
         /\ seen' \in [Triggered -> Seen]
         /\ sweep' \in [Watchers -> SUBSET SUBSET AppsOrDevices]
         /\ watcher' = None => \A s \in Triggered : seen'[s] = "off"
         /\ \A s \in Triggered : seen'[s] # "off" =>
               /\ watcher' \in Watchers
               /\ ~Present(s) => s \in wasAway'
               /\ seen'[s] = "away" => ~Present(s)
               /\ s \in AdbStacks => sweep'[watcher'] = {there}
<1> USE StackAssumption
<1> DEFINE armed == stacks \cap Triggered
<1>1. CASE armed = {}
  BY <1>1 DEF Arm, TriggerTypes, Disarmed, Seen
<1>2. CASE armed # {}
  <2>1. PICK w \in WatchersOf[known] :
          /\ watcher' = w
          /\ seen' = [s \in Triggered |-> IF s \notin armed THEN "off"
                                         ELSE IF s \in AdbStacks THEN "unknown"
                                         ELSE IF Present(s) THEN "there" ELSE "away"]
          /\ sweep' = [sweep EXCEPT ![w] = IF armed \cap AdbStacks = {} THEN {} ELSE {there}]
          /\ wasAway' = {s \in armed : ~Present(s)}
    BY <1>2 DEF Arm
  <2>2. w \in Watchers /\ w # None
    BY <2>1 DEF TriggerTypes, Watchers, Catalogues
  <2>3. seen' \in [Triggered -> Seen]
    BY <2>1 DEF Seen
  <2>4. sweep' \in [Watchers -> SUBSET SUBSET AppsOrDevices]
    BY <2>1, <2>2 DEF TriggerTypes
  <2>5. ASSUME NEW s \in Triggered, seen'[s] # "off"
        PROVE  /\ ~Present(s) => s \in wasAway'
               /\ seen'[s] = "away" => ~Present(s)
               /\ s \in AdbStacks => sweep'[w] = {there}
    <3>1. s \in armed
      BY <2>1, <2>5
    <3> QED
      BY <2>1, <2>2, <3>1 DEF TriggerTypes
  <2> QED
    BY <2>1, <2>2, <2>3, <2>4, <2>5
<1> QED
  BY <1>1, <1>2

\* An app or a device that toggles.
LEMMA ToggleTypes ==
  ASSUME TriggerTypes, NEW x \in AppsOrDevices, Toggle(x)
  PROVE  there' \subseteq AppsOrDevices /\ wasAway' \subseteq Triggered
BY DEF Toggle, TriggerTypes, Armed

\* The loop that begins is about armed stacks of one kind.
LEMMA TellTypes ==
  ASSUME NEW stacks \in SUBSET Triggered, NEW present \in SUBSET AppsOrDevices,
         Tell(stacks, present)
  PROVE  /\ telling' \in [left : SUBSET Triggered, present : SUBSET AppsOrDevices]
         /\ telling'.left = stacks
         /\ stacks # {} => telling'.present = present
BY DEF Tell, Quiet

LEMMA TriggerTyping == RunInv /\ TriggerTypes /\ [Next]_vars => TriggerTypes'
<1> SUFFICES ASSUME RunInv, TriggerTypes, [Next]_vars PROVE TriggerTypes'
  OBVIOUS
<1>1. ASSUME NEW s \in Stacks, Save(s) PROVE TriggerTypes'
  BY <1>1, ArmArms DEF Save, TriggerTypes
<1>2. ASSUME NEW s \in Stacks, Remove(s) PROVE TriggerTypes'
  BY <1>2, ArmArms DEF Remove, TriggerTypes
<1>3. CASE UNCHANGED triggerVars
  BY <1>3 DEF triggerVars, TriggerTypes
<1>4. ASSUME NEW x \in AppsOrDevices, DeviceToggles(x) PROVE TriggerTypes'
  <2>1. Toggle(x) /\ UNCHANGED telling
    BY <1>4 DEF DeviceToggles
  <2>2. sweep' \in [Watchers -> SUBSET SUBSET AppsOrDevices]
    BY <1>4, <2>1, ToggleTypes DEF DeviceToggles, TriggerTypes
  <2> QED
    BY <2>1, <2>2, ToggleTypes DEF Toggle, TriggerTypes
<1>5. ASSUME NEW x \in AppsOrDevices, AppToggles(x) PROVE TriggerTypes'
  <2>1. Toggle(x) /\ UNCHANGED sweep /\ Tell(Armed \cap AppStacks, there')
    BY <1>5 DEF AppToggles
  <2>2. telling' \in [left : SUBSET Triggered, present : SUBSET AppsOrDevices]
    BY <2>1, ToggleTypes, TellTypes DEF Armed
  <2> QED
    BY <2>1, <2>2, ToggleTypes DEF Toggle, TriggerTypes
<1>6. CASE SweepStarts
  BY <1>6 DEF SweepStarts, TriggerTypes
<1>7. ASSUME NEW s \in Triggered, CooldownEnds(s) PROVE TriggerTypes'
  BY <1>7 DEF CooldownEnds, TriggerTypes
<1>8. ASSUME NEW w \in Watchers, SweepAnswers(w) PROVE TriggerTypes'
  <2>1. PICK present \in sweep[w] :
          IF watcher = w THEN Tell(Armed \cap AdbStacks, present) ELSE UNCHANGED telling
    BY <1>8 DEF SweepAnswers
  <2>2. telling' \in [left : SUBSET Triggered, present : SUBSET AppsOrDevices]
    <3>1. present \in SUBSET AppsOrDevices
      BY DEF TriggerTypes
    <3> QED
      BY <2>1, <3>1, TellTypes DEF Armed, TriggerTypes
  <2>3. sweep' \in [Watchers -> SUBSET SUBSET AppsOrDevices]
    BY <1>8 DEF SweepAnswers, TriggerTypes
  <2> QED
    BY <1>8, <2>2, <2>3 DEF SweepAnswers, TriggerTypes
<1>9. ASSUME NEW w \in Watchers, SweepFails(w) PROVE TriggerTypes'
  BY <1>9 DEF SweepFails, TriggerTypes
<1>10. ASSUME NEW s \in Triggered, Tells(s) PROVE TriggerTypes'
  <2>1. Edge(s, About[s] \in telling.present) /\ UNCHANGED <<known, stored, watcher, sweep, there>>
    BY <1>10 DEF Tells
  <2>2. seen' \in [Triggered -> Seen] /\ wasAway' \subseteq Triggered
    BY <2>1 DEF Edge, TriggerTypes, Seen
  <2>3. cooling' \subseteq Triggered
    BY <2>1, FiringCools DEF Edge, TriggerTypes
  <2>4. telling' \in [left : SUBSET Triggered, present : SUBSET AppsOrDevices]
    BY <1>10 DEF Tells, Quiet, TriggerTypes
  <2> QED
    BY <2>1, <2>2, <2>3, <2>4 DEF TriggerTypes
<1>11. ASSUME NEW r \in Runs, Moves(r) PROVE UNCHANGED triggerVars
  BY <1>11 DEF Moves, LaunchSucceeds, LaunchFails, GateOpens, GateFails, Proceed, End
<1>12. ASSUME NEW s \in Stacks, NEW r \in Runs, UserRuns(s, r) PROVE UNCHANGED triggerVars
  BY <1>12 DEF UserRuns
<1>13. ASSUME NEW s \in Stacks, NEW k \in Stops, UserStops(s, k) PROVE UNCHANGED triggerVars
  BY <1>13 DEF UserStops
<1>14. ASSUME NEW k \in Stops, StopGoesOn(k) PROVE UNCHANGED triggerVars
  BY <1>14 DEF StopGoesOn
<1>15. CASE UNCHANGED vars
  BY <1>3, <1>15 DEF vars
<1> QED
  BY <1>1, <1>2, <1>3, <1>4, <1>5, <1>6, <1>7, <1>8, <1>9, <1>10, <1>11, <1>12, <1>13, <1>14, <1>15
     DEF Next, Turn, Moves

LEMMA AbsenceStep ==
  ASSUME StopInv, TriggerTypes, LiveArms, AbsenceIsKnown, [Next]_vars
  PROVE  LiveArms' /\ AbsenceIsKnown'
<1> USE StackAssumption
<1>1. ASSUME NEW s \in Stacks, Save(s) \/ Remove(s), telling = Quiet
      PROVE  LiveArms' /\ AbsenceIsKnown'
  <2>1. PICK stacks : Arm(stacks)
    BY <1>1 DEF Save, Remove
  <2>2. UNCHANGED <<there, telling>> /\ telling.left = {}
    BY <1>1 DEF Save, Remove, Quiet
  <2>3. ASSUME NEW t \in Triggered, seen'[t] # "off"
        PROVE  /\ ~Present(t) => t \in wasAway'
               /\ seen'[t] = "away" => t \in wasAway'
               /\ t \in AdbStacks =>
                    \A present \in sweep'[watcher'] : About[t] \notin present => t \in wasAway'
    BY <2>1, <2>3, ArmArms DEF Present
  <2> QED
    BY <2>1, <2>2, <2>3, ArmArms DEF LiveArms, AbsenceIsKnown, Present
<1>2. CASE UNCHANGED <<watcher, seen, sweep, telling, there, wasAway>>
  BY <1>2 DEF AbsenceIsKnown, LiveArms, Present
<1>3. ASSUME NEW x \in AppsOrDevices, Toggle(x)
      PROVE  /\ UNCHANGED <<watcher, seen>> /\ LiveArms'
             /\ \A s \in Triggered :
                  /\ s \in wasAway => s \in wasAway'
                  /\ seen[s] # "off" /\ ~Present(s)' => s \in wasAway'
  BY <1>3 DEF Toggle, LiveArms, AbsenceIsKnown, Present, Armed
<1>4. ASSUME NEW x \in AppsOrDevices, DeviceToggles(x), telling = Quiet
      PROVE  LiveArms' /\ AbsenceIsKnown'
  <2>1. Toggle(x) /\ UNCHANGED telling /\ telling.left = {}
    BY <1>4 DEF DeviceToggles, Quiet
  <2>2. ASSUME NEW s \in AdbStacks, seen[s] # "off", NEW present \in sweep'[watcher],
               About[s] \notin present
        PROVE  s \in wasAway'
    <3>1. s \in Triggered /\ watcher \in Watchers
      BY <2>2 DEF Triggered, LiveArms, TriggerTypes
    <3>2. present \in sweep[watcher] \/ present = there'
      BY <1>4, <2>2, <3>1 DEF DeviceToggles
    <3> QED
      BY <1>3, <2>1, <2>2, <3>1, <3>2 DEF AbsenceIsKnown, Present
  <2> QED
    BY <1>3, <2>1, <2>2 DEF AbsenceIsKnown
<1>5. ASSUME NEW x \in AppsOrDevices, AppToggles(x)
      PROVE  LiveArms' /\ AbsenceIsKnown'
  <2>1. Toggle(x) /\ UNCHANGED sweep /\ Tell(Armed \cap AppStacks, there')
    BY <1>5 DEF AppToggles
  <2>2. /\ telling'.left = Armed \cap AppStacks
        /\ telling'.left # {} => telling'.present = there'
    BY <2>1, ToggleTypes, TellTypes DEF Armed
  <2>3. ASSUME NEW s \in telling'.left
        PROVE  /\ s \in Triggered /\ seen[s] # "off" /\ s \notin AdbStacks
               /\ About[s] \notin telling'.present => s \in wasAway'
    <3>1. s \in Triggered /\ seen[s] # "off" /\ s \notin AdbStacks
      BY <2>2, <2>3 DEF Armed
    <3> QED
      BY <1>3, <2>1, <2>2, <2>3, <3>1 DEF Present
  <2> QED
    BY <1>3, <2>1, <2>3 DEF AbsenceIsKnown
<1>6. CASE SweepStarts /\ telling = Quiet
  <2>1. /\ UNCHANGED <<watcher, seen, telling, there, wasAway>> /\ watcher \in Watchers
        /\ sweep'[watcher] = {there} /\ telling.left = {}
    BY <1>6 DEF SweepStarts, TriggerTypes, Quiet
  <2> QED
    BY <2>1 DEF AbsenceIsKnown, LiveArms, Present
<1>7. ASSUME NEW w \in Watchers, SweepAnswers(w), telling = Quiet
      PROVE  LiveArms' /\ AbsenceIsKnown'
  <2>1. /\ UNCHANGED <<watcher, seen, there, wasAway>> /\ sweep' = [sweep EXCEPT ![w] = {}]
        /\ telling.left = {}
    BY <1>7 DEF SweepAnswers, Quiet
  <2>2. PICK present \in sweep[w] :
          IF watcher = w THEN Tell(Armed \cap AdbStacks, present) ELSE UNCHANGED telling
    BY <1>7 DEF SweepAnswers
  <2>3. \A answer : answer \in sweep'[watcher] => answer \in sweep[watcher]
    BY <2>1 DEF TriggerTypes
  <2>4. ASSUME NEW s \in telling'.left
        PROVE  /\ seen[s] # "off" /\ sweep'[watcher] = {}
               /\ s \in Triggered /\ About[s] \notin telling'.present => s \in wasAway
    <3>1. watcher = w /\ Tell(Armed \cap AdbStacks, present)
      BY <2>1, <2>2, <2>4
    <3>2. present \in SUBSET AppsOrDevices
      BY DEF TriggerTypes
    <3>3. telling'.left = Armed \cap AdbStacks /\ telling'.present = present
      <4>1. /\ telling'.left = Armed \cap AdbStacks
            /\ Armed \cap AdbStacks # {} => telling'.present = present
        BY <3>1, <3>2, TellTypes DEF Armed
      <4> QED
        BY <2>4, <4>1
    <3>4. sweep'[watcher] = {}
      BY <2>1, <3>1 DEF TriggerTypes
    <3> QED
      BY <2>4, <3>1, <3>3, <3>4 DEF AbsenceIsKnown, Armed
  <2>5. LiveArms'
    BY <2>1 DEF LiveArms
  <2>6. ASSUME NEW s \in Triggered
        PROVE  /\ seen'[s] # "off" =>
                    /\ ~Present(s)' => s \in wasAway'
                    /\ seen'[s] = "away" => s \in wasAway'
                    /\ s \in AdbStacks =>
                         \A answer \in sweep'[watcher'] :
                            About[s] \notin answer => s \in wasAway'
               /\ s \in telling'.left => /\ seen'[s] # "off"
                                         /\ About[s] \notin telling'.present => s \in wasAway'
                                         /\ s \in AdbStacks => sweep'[watcher'] = {}
    BY <2>1, <2>3, <2>4 DEF AbsenceIsKnown, Present
  <2> QED
    BY <2>5, <2>6 DEF AbsenceIsKnown
<1>8. ASSUME NEW w \in Watchers, SweepFails(w) PROVE LiveArms' /\ AbsenceIsKnown'
  <2>1. /\ UNCHANGED <<watcher, seen, telling, there, wasAway>>
        /\ \A answer : answer \in sweep'[watcher] => answer \in sweep[watcher]
    BY <1>8 DEF SweepFails, TriggerTypes
  <2>2. sweep[watcher] = {} => sweep'[watcher] = {}
    BY <2>1
  <2> QED
    BY <2>1, <2>2 DEF AbsenceIsKnown, LiveArms, Present
<1>9. ASSUME NEW s \in Triggered, CooldownEnds(s) PROVE LiveArms' /\ AbsenceIsKnown'
  BY <1>2, <1>9 DEF CooldownEnds
<1>10. ASSUME NEW s \in Triggered, Tells(s) PROVE LiveArms' /\ AbsenceIsKnown'
  <2>1. /\ s \in telling.left /\ UNCHANGED <<watcher, sweep, there>>
        /\ Edge(s, About[s] \in telling.present)
    BY <1>10 DEF Tells
  <2>2. /\ telling'.left = telling.left \ {s}
        /\ telling'.left # {} => telling'.present = telling.present
    BY <1>10 DEF Tells, Quiet, TriggerTypes
  <2>3. /\ seen' = [seen EXCEPT ![s] = IF About[s] \in telling.present THEN "there" ELSE "away"]
        /\ wasAway' = IF About[s] \in telling.present /\ Present(s) THEN wasAway \ {s}
                                                                  ELSE wasAway
    BY <2>1 DEF Edge
  <2>4. \A t \in Triggered \ {s} : /\ seen'[t] = seen[t]
                                   /\ t \in wasAway => t \in wasAway'
    BY <2>3 DEF TriggerTypes
  <2>5. /\ seen'[s] = IF About[s] \in telling.present THEN "there" ELSE "away"
        /\ seen[s] # "off" /\ (s \in AdbStacks => sweep[watcher] = {})
        /\ About[s] \notin telling.present => s \in wasAway
    BY <2>1, <2>3 DEF TriggerTypes, AbsenceIsKnown
  <2>6. /\ seen'[s] = "away" => s \in wasAway'
        /\ ~Present(s) => s \in wasAway'
    BY <2>3, <2>5 DEF AbsenceIsKnown
  <2>7. LiveArms'
    BY <2>1, <2>4, <2>5 DEF LiveArms
  <2>8. ASSUME NEW t \in Triggered
        PROVE  /\ seen'[t] # "off" =>
                    /\ ~Present(t)' => t \in wasAway'
                    /\ seen'[t] = "away" => t \in wasAway'
                    /\ t \in AdbStacks =>
                         \A answer \in sweep'[watcher'] :
                            About[t] \notin answer => t \in wasAway'
               /\ t \in telling'.left => /\ seen'[t] # "off"
                                         /\ About[t] \notin telling'.present => t \in wasAway'
                                         /\ t \in AdbStacks => sweep'[watcher'] = {}
    <3>1. CASE t = s
      BY <2>1, <2>2, <2>5, <2>6, <3>1 DEF Present
    <3>2. CASE t # s
      <4>1. t \in telling'.left => t \in telling.left /\ telling'.present = telling.present
        BY <2>2
      <4>2. seen'[t] = seen[t] /\ (t \in wasAway => t \in wasAway')
            /\ Present(t)' = Present(t) /\ sweep'[watcher'] = sweep[watcher]
        BY <2>1, <2>4, <3>2 DEF Present
      <4>3. /\ seen[t] # "off" =>
                 /\ ~Present(t) => t \in wasAway
                 /\ seen[t] = "away" => t \in wasAway
                 /\ t \in AdbStacks =>
                      \A answer \in sweep[watcher] : About[t] \notin answer => t \in wasAway
            /\ t \in telling.left => /\ seen[t] # "off"
                                     /\ About[t] \notin telling.present => t \in wasAway
                                     /\ t \in AdbStacks => sweep[watcher] = {}
        BY DEF AbsenceIsKnown
      <4> QED
        BY <4>1, <4>2, <4>3
    <3> QED
      BY <3>1, <3>2
  <2> QED
    BY <2>7, <2>8 DEF AbsenceIsKnown
<1>11. ASSUME NEW r \in Runs, Moves(r) PROVE UNCHANGED triggerVars
  BY <1>11 DEF Moves, LaunchSucceeds, LaunchFails, GateOpens, GateFails, Proceed, End
<1>12. ASSUME NEW s \in Stacks, NEW r \in Runs, UserRuns(s, r) PROVE UNCHANGED triggerVars
  BY <1>12 DEF UserRuns
<1>13. ASSUME NEW s \in Stacks, NEW k \in Stops, UserStops(s, k) PROVE UNCHANGED triggerVars
  BY <1>13 DEF UserStops
<1>14. ASSUME NEW k \in Stops, StopGoesOn(k) PROVE UNCHANGED triggerVars
  BY <1>14 DEF StopGoesOn
<1>15. CASE UNCHANGED triggerVars
  BY <1>2, <1>15 DEF triggerVars
<1>16. CASE UNCHANGED vars
  BY <1>15, <1>16 DEF vars
<1> QED
  BY <1>1, <1>4, <1>5, <1>6, <1>7, <1>8, <1>9, <1>10, <1>11, <1>12, <1>13, <1>14, <1>15, <1>16
     DEF Next, Turn, Moves

\* A trigger that is fired has an absence on record.
LEMMA ArrivalIsReal ==
  ASSUME StackInv, [Next]_vars, NEW r \in Runs,
         current # r, current' = r, cooling' # cooling
  PROVE  run'[r].stack \in wasAway
<1> USE StackAssumption
<1>0. RunTypes /\ TriggerTypes /\ AbsenceIsKnown
  BY DEF StackInv, StopInv, RunInv
<1>1. ASSUME NEW s \in Triggered, FireArrival(s) PROVE run'[r].stack = s
  BY <1>0, <1>1 DEF FireArrival, Begin, RunTypes
<1>2. ASSUME NEW s \in Triggered, FireDeparture(s) PROVE FALSE
  BY <1>2 DEF FireDeparture
<1>3. ASSUME NEW s \in Triggered, Tells(s) PROVE run'[r].stack \in wasAway
  <2>1. s \in telling.left /\ Edge(s, About[s] \in telling.present)
    BY <1>3 DEF Tells
  <2>2. seen[s] \notin {"unknown", "there"} /\ FireArrival(s)
    BY <1>2, <2>1 DEF Edge, runVars
  <2>3. seen[s] = "away"
    BY <1>0, <2>1, <2>2 DEF TriggerTypes, Seen, AbsenceIsKnown
  <2>4. s \in wasAway
    BY <1>0, <2>3 DEF AbsenceIsKnown
  <2> QED
    BY <1>1, <2>2, <2>4
<1>4. ASSUME NEW s \in Stacks, Save(s) \/ Remove(s) PROVE FALSE
  BY <1>4 DEF Save, Remove, runVars
<1>5. ASSUME NEW x \in AppsOrDevices, DeviceToggles(x) \/ AppToggles(x) PROVE FALSE
  BY <1>5 DEF DeviceToggles, AppToggles, Toggle, runVars
<1>6. ASSUME NEW s \in Triggered, CooldownEnds(s) PROVE FALSE
  BY <1>6 DEF CooldownEnds, runVars
<1>7. ASSUME NEW w \in Watchers, SweepFails(w) \/ SweepAnswers(w) PROVE FALSE
  BY <1>7 DEF SweepFails, SweepAnswers, runVars
<1>8. ASSUME NEW q \in Runs, Moves(q) PROVE FALSE
  BY <1>8 DEF Moves, LaunchSucceeds, LaunchFails, GateOpens, GateFails, Proceed, End, triggerVars
<1>9. ASSUME NEW s \in Stacks, NEW q \in Runs, UserRuns(s, q) PROVE FALSE
  BY <1>9 DEF UserRuns, triggerVars
<1>10. ASSUME NEW s \in Stacks, NEW k \in Stops, UserStops(s, k) PROVE FALSE
  BY <1>10 DEF UserStops, triggerVars
<1>11. ASSUME NEW k \in Stops, StopGoesOn(k) PROVE FALSE
  BY <1>11 DEF StopGoesOn, triggerVars
<1>12. ~UNCHANGED vars /\ ~SweepStarts
  BY DEF vars, runVars, SweepStarts
<1> QED
  BY <1>3, <1>4, <1>5, <1>6, <1>7, <1>8, <1>9, <1>10, <1>11, <1>12 DEF Next, Turn, Moves
-----------------------------------------------------------------------------
\* The strengthened invariant of the stacks holds in every reachable state.
THEOREM StackInvariant == Spec => []StackInv
<1>1. Init => StackInv
  <2> SUFFICES ASSUME Init PROVE StackInv
    OBVIOUS
  <2> USE StackAssumption DEF Init
  <2>1. RunTypes
    BY GarbageRecord DEF RunTypes, IdleStop
  <2>2. \A r \in Runs : InLoop(run[r])
    BY GarbageRecord
  <2>3. StopsFollow
    BY DEF StopsFollow, IdleStop
  <2>4. StopIsComplete
    BY DEF StopIsComplete, FreeRun
  <2>5. TriggerTypes
    BY DEF TriggerTypes, Disarmed, Quiet, Seen
  <2>6. LiveArms /\ AbsenceIsKnown
    BY DEF AbsenceIsKnown, LiveArms, Disarmed, Quiet
  <2> QED
    BY <2>1, <2>2, <2>3, <2>4, <2>5, <2>6 DEF StackInv, StopInv, RunInv
<1>2. StackInv /\ [Next]_vars => StackInv'
  BY StepsOfRuns, StopInvStep, TriggerTyping, AbsenceStep DEF StackInv, StopInv, RunInv
<1> QED
  BY <1>1, <1>2, PTL DEF Spec

\* In the loop means behind steps that have passed.
LEMMA InvTypes == StackInv => TypeOK
BY DEF StackInv, StopInv, RunInv, RunTypes, Record, TriggerTypes, InLoop, TypeOK

\* TypeOK for any catalogue of stacks.
THEOREM StackTypeCorrect == Spec => []TypeOK
BY StackInvariant, InvTypes, PTL

\* No step of a stack is launched before each step ahead of it is healthy or was
\* optional, whatever stops, triggers and other runs do meanwhile.
THEOREM GatesAlwaysHold == Spec => []GatesHold
<1>1. StackInv => GatesHold
  <2> SUFFICES ASSUME StackInv, NEW r \in Runs, NEW i \in DOMAIN run[r].step,
                      run[r].step[i] # "todo", NEW j \in 1..(i - 1)
               PROVE  \/ run[r].step[j] = "healthy"
                      \/ StepOf(r, j).optional /\ run[r].step[j] \in {"failed", "late"}
    BY DEF GatesHold
  <2>1. run[r] \in Record /\ InLoop(run[r])
    BY DEF StackInv, StopInv, RunInv, RunTypes
  <2>2. run[r].pc # "free"
    BY <2>1 DEF InLoop
  <2>3. /\ DOMAIN run[r].step = 1..LastStep(run[r].stack)
        /\ run[r].at \in 1..LastStep(run[r].stack)
    BY <2>1, <2>2 DEF InLoop
  <2>4. run[r].step \in Seq(Outcomes) /\ DOMAIN run[r].step = 1..Len(run[r].step)
        /\ Len(run[r].step) \in Nat
    BY <2>1, LenProperties DEF Record
  <2>5. i \in Nat /\ run[r].at \in Nat /\ i <= run[r].at
    BY <2>1, <2>4, <2>3 DEF InLoop, Record
  <2>6. j \in DOMAIN run[r].step /\ j < run[r].at
    BY <2>4, <2>5
  <2> QED
    BY <2>1, <2>6 DEF InLoop, Passed, StepOf
<1> QED
  BY <1>1, StackInvariant, PTL

\* A stack is taken down as it was built up: once the stops of a run are over,
\* nothing it had started is left but a stray launch, and no stop asks a step
\* before a later one that was running.
THEOREM StopsAreAlwaysExact == Spec => StopsAreExact
<1> DEFINE Reverse ==
      \A r \in Runs :
        \A i \in run'[r].asked \ run[r].asked : \A j \in Pending(r) \ run'[r].asked :
          j < i \/ run[r].step[j] = "stray"
<1>1. StackInv => TypeOK /\ StopIsComplete
  BY InvTypes DEF StackInv, StopInv
<1>2. StackInv /\ [Next]_vars => Reverse
  BY StepsOfRuns, StopOrder DEF StackInv, StopInv, RunInv
<1> QED
  BY <1>1, <1>2, StackInvariant, PTL DEF Spec, StopsAreExact, StopsInReverse

\* A trigger runs a stack only for an arrival: its app or device had been away
\* since the watcher was armed and since it last ran it, although sweeps of adb are
\* answered late, and also by watchers that have been replaced.
THEOREM ArrivalsAlwaysTrigger == Spec => OnlyArrivalsTrigger
<1> DEFINE Real == \A r \in Runs :
                     current # r /\ current' = r /\ cooling' # cooling
                       => run'[r].stack \in wasAway
<1>1. StackInv /\ [Next]_vars => Real
  BY ArrivalIsReal
<1> QED
  BY <1>1, StackInvariant, PTL DEF Spec, OnlyArrivalsTrigger
=============================================================================
