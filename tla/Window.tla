-------------------------------- MODULE Window --------------------------------
(***************************************************************************)
(* The window (src/renderer/app.js) and the hub process it is a view of    *)
(* (src/main/ipc.js): what the window shows of the settings and of one     *)
(* artifact's jobs, and what it writes back.                               *)
(*                                                                         *)
(* The window asks for the whole state again whenever an event tells it to *)
(* and every ten seconds; several of these pulls may be open.  The hub     *)
(* reads the settings, waits for the token of the GitHub client and then   *)
(* reads the jobs, so that answers may overtake each other.  On top of the *)
(* answer the window lays what it knows of running jobs from events and    *)
(* from its own clicks.  Both directions deliver in order.  A window that  *)
(* is hidden skips the regular pull.                                       *)
(***************************************************************************)
EXTENDS Naturals, Sequences, FiniteSets, SequencesExt

CONSTANTS
    Fields,      \* switches among the preferences of the app
    MaxPulls,    \* bound: pulls open when the regular one begins
    MaxChanges,  \* bound: preferences set by others, and writes of the window
    MaxJobs,     \* bound: jobs of the artifact
    MaxClicks    \* bound: installs clicked

WindowAssumption == {MaxPulls, MaxChanges, MaxJobs, MaxClicks} \subseteq Nat

VARIABLES
    prefs,     \* settings.json: the preferences of the app
    changes,   \* how often they have been set
    job,       \* the number of the job that is queued or runs, 0 for none
    jobs,      \* the number of the last job
    building,  \* answers under way: the preferences read before the wait
    calls,     \* window -> hub, oldest first
    wire,      \* hub -> window: events and answers, oldest first
    win,       \* state of the window: [prefs, job]
    live,      \* ui.liveJobs: a job's number, Pending or 0
    armed,     \* the timer that withdraws a pending bar
    clicks,    \* installs clicked
    shown      \* the window is in view, or it is hidden all the time

vars == <<prefs, changes, job, jobs, building, calls, wire, win, live, armed, clicks, shown>>

hubVars == <<prefs, changes, job, jobs>>
uiVars  == <<win, live, armed, clicks, shown>>

AppPref == [Fields -> BOOLEAN]
Pending == MaxJobs + 1      \* the bar shown before the hub has answered a click
View    == [prefs : AppPref, job : 0..MaxJobs]

Calls == [is : {"getState", "install"}] \union [is : {"cancelJob"}, job : 1..MaxJobs]
           \union [is : {"setAppPref"}, patch : AppPref]
Messages == [is : {"state-changed"}] \union [is : {"state"}, view : View]
              \union [is : {"job-progress", "job-end", "cancelled"}, job : 1..MaxJobs]

TypeOK ==
    /\ prefs \in AppPref /\ changes \in 0..MaxChanges
    /\ jobs \in 0..MaxJobs /\ job \in {0, jobs}
    /\ Range(building) \subseteq AppPref
    /\ Range(calls) \subseteq Calls /\ Range(wire) \subseteq Messages
    /\ win \in View /\ live \in 0..Pending /\ armed \in BOOLEAN /\ clicks \in 0..MaxClicks
    /\ shown \in BOOLEAN

Init ==
    /\ prefs = [f \in Fields |-> FALSE] /\ changes = 0
    /\ job = 0 /\ jobs = 0 /\ building = <<>>
    /\ calls = <<>> /\ wire = <<>>
    /\ win = [prefs |-> prefs, job |-> 0] /\ live = 0 /\ armed = FALSE /\ clicks = 0
    /\ shown \in BOOLEAN

-----------------------------------------------------------------------------
(* The hub process.                                                        *)

Count(seq, kind) == Len(SelectSeq(seq, LAMBDA m : m.is = kind))
Pulls == Count(calls, "getState") + Len(building) + Count(wire, "state")

Tell(messages) == wire' = wire \o messages
Changed == [is |-> "state-changed"]
Progress(j) == [is |-> "job-progress", job |-> j]

(* Somebody else sets a preference: nx, a paired hub.                      *)
OthersSet(f) ==
    /\ changes < MaxChanges /\ changes' = changes + 1
    /\ prefs' = [prefs EXCEPT ![f] = ~@]
    /\ Tell(<<Changed>>)
    /\ UNCHANGED <<job, jobs, building, calls, uiVars>>

(* The hub takes the next call of the window.                              *)
Takes(kind) == calls # <<>> /\ Head(calls).is = kind /\ calls' = Tail(calls)

(* buildState up to its wait ...                                           *)
TakesGetState ==
    /\ Takes("getState")
    /\ building' = Append(building, prefs)
    /\ UNCHANGED <<hubVars, wire, uiVars>>

(* ... and after it.  The first wait may be the longest.                   *)
Answers(i) ==
    /\ building' = RemoveAt(building, i)
    /\ Tell(<<[is |-> "state", view |-> [prefs |-> building[i], job |-> job]]>>)
    /\ UNCHANGED <<hubVars, calls, uiVars>>

(* It throws: the window keeps what it has.                                *)
AnswerFails(i) ==
    /\ building' = RemoveAt(building, i)
    /\ UNCHANGED <<hubVars, calls, wire, uiVars>>

(* The keys the patch has replace those of the file.                       *)
TakesPref ==
    /\ Takes("setAppPref")
    /\ prefs' = Head(calls).patch
    /\ Tell(<<Changed>>)
    /\ UNCHANGED <<changes, job, jobs, building, uiVars>>

(* jobs.install: a new job, the twin that is there, or a refusal.          *)
TakesInstall ==
    /\ Takes("install")
    /\ \/ /\ job = 0 /\ jobs < MaxJobs
          /\ jobs' = jobs + 1 /\ job' = jobs'
          /\ Tell(<<Changed>>)
       \/ UNCHANGED <<job, jobs, wire>>
    /\ UNCHANGED <<prefs, changes, building, uiVars>>

(* cancelJob: a queued job ends at once, a running one when it gets there. *)
TakesCancel ==
    LET j == Head(calls).job
        reply == [is |-> "cancelled", job |-> j]
    IN /\ Takes("cancelJob")
       /\ \/ job = j /\ job' = 0 /\ Tell(<<[is |-> "job-end", job |-> j], Changed, reply>>)
          \/ UNCHANGED job /\ Tell(<<reply>>)
       /\ UNCHANGED <<prefs, changes, jobs, building, uiVars>>

(* progress: a running job says how far it is.                             *)
JobGoesOn ==
    /\ job # 0 /\ Count(wire, "job-progress") = 0
    /\ Tell(<<Progress(job)>>)
    /\ UNCHANGED <<hubVars, building, calls, uiVars>>

(* finish: job-done or job-error.                                          *)
JobEnds ==
    /\ job # 0 /\ job' = 0
    /\ Tell(<<[is |-> "job-end", job |-> job], Changed>>)
    /\ UNCHANGED <<prefs, changes, jobs, building, calls, uiVars>>

-----------------------------------------------------------------------------
(* The window.                                                             *)

Ask(requests) == calls' = calls \o requests
Pull == <<[is |-> "getState"]>>

(* The regular pull.                                                       *)
Heartbeat ==
    /\ shown /\ Pulls < MaxPulls
    /\ Ask(Pull)
    /\ UNCHANGED <<hubVars, building, wire, uiVars>>

(* The window takes the next message.                                      *)
Hears(kind) == wire # <<>> /\ Head(wire).is = kind /\ wire' = Tail(wire)

(* pullState: the answer that comes last is the state.                     *)
HearsState ==
    /\ Hears("state")
    /\ win' = Head(wire).view
    /\ UNCHANGED <<hubVars, building, calls, live, armed, clicks, shown>>

HearsChange ==
    /\ Hears("state-changed")
    /\ Ask(Pull)
    /\ UNCHANGED <<hubVars, building, uiVars>>

HearsProgress ==
    /\ Hears("job-progress")
    /\ live' = Head(wire).job
    /\ UNCHANGED <<hubVars, building, calls, win, armed, clicks, shown>>

(* Defect: the end of a job leaves the bar of a click that came meanwhile. *)
HearsEndOfBar ==
    /\ Hears("job-end")
    /\ Ask(Pull)
    /\ live' = IF live = Pending THEN live ELSE 0
    /\ armed' = FALSE
    /\ UNCHANGED <<hubVars, building, win, clicks, shown>>

HearsEnd ==
    /\ Hears("job-end")
    /\ live' = 0
    /\ Ask(Pull)
    /\ UNCHANGED <<hubVars, building, win, armed, clicks, shown>>

(* The rest of a cancel, once the hub has answered it.                     *)
HearsCancelled ==
    /\ Hears("cancelled")
    /\ live' = IF live = Head(wire).job THEN 0 ELSE live
    /\ UNCHANGED <<hubVars, building, calls, win, armed, clicks, shown>>

(* The user works on what the window shows: one click at a time.           *)
Idle == calls = <<>>

(* Shown on the card: the overlay, else the job of the last answer.        *)
Shown == IF live # 0 THEN live ELSE win.job

ClickInstall ==
    /\ Idle /\ Shown = 0 /\ clicks < MaxClicks
    /\ clicks' = clicks + 1
    /\ live' = Pending /\ armed' = TRUE
    /\ Ask(<<[is |-> "install"]>>)
    /\ UNCHANGED <<hubVars, building, wire, win, shown>>

(* Eight seconds later.                                                    *)
TimerFires ==
    /\ armed /\ armed' = FALSE
    /\ live' = IF live = Pending THEN 0 ELSE live
    /\ UNCHANGED <<hubVars, building, calls, wire, win, clicks, shown>>

ClickCancel ==
    /\ Idle /\ Shown \in 1..MaxJobs /\ Count(wire, "cancelled") = 0
    /\ Ask(<<[is |-> "cancelJob", job |-> Shown]>>)
    /\ UNCHANGED <<hubVars, building, wire, uiVars>>

(* patchPref: the preferences the window knows of, with one changed.       *)
ClickPref(f) ==
    /\ Idle /\ changes < MaxChanges /\ changes' = changes + 1
    /\ Ask(<<[is |-> "setAppPref", patch |-> [win.prefs EXCEPT ![f] = ~@]]>>)
    /\ UNCHANGED <<prefs, job, jobs, building, wire, uiVars>>

Hub == \/ TakesGetState \/ TakesPref \/ TakesInstall \/ TakesCancel
       \/ \E i \in DOMAIN building : Answers(i) \/ AnswerFails(i)

Hearing == \/ HearsState \/ HearsChange \/ HearsProgress \/ HearsEnd
           \/ HearsCancelled

Next == \/ Hub \/ Hearing
        \/ \E f \in Fields : OthersSet(f) \/ ClickPref(f)
        \/ JobGoesOn \/ JobEnds \/ Heartbeat \/ TimerFires
        \/ ClickInstall \/ ClickCancel

(* Calls are taken, messages delivered, jobs end, timers fire, the regular *)
(* pull comes round, and not every answer fails.                           *)
Fairness ==
    /\ WF_vars(Hub) /\ SF_vars(\E i \in DOMAIN building : Answers(i))
    /\ WF_vars(Hearing) /\ WF_vars(Heartbeat)
    /\ WF_vars(JobEnds) /\ WF_vars(TimerFires)

Spec == Init /\ [][Next]_vars /\ Fairness

-----------------------------------------------------------------------------
(* Properties.                                                             *)

(* "A slow poll heals every missed-event class" (boot): whatever answers   *)
(* overtake each other or fail, a window that stays in view ends up showing *)
(* what its hub has when that has come to rest, for good.                  *)
CatchesUp == shown => <>[](win.prefs = prefs)

(* No card is left with a progress bar that nothing moves: a bar is a job  *)
(* of the hub, or its end is on the wire, or a timer is to take it away.   *)
BarsAreJobs ==
    live # 0 => \/ live = Pending /\ armed
                \/ live = job
                \/ \E i \in DOMAIN wire : wire[i].is = "job-end" /\ wire[i].job = live

(* Both: what the card says of its job and of its settings is not left     *)
(* behind by the hub.                                                      *)
WindowKeepsUp == [](TypeOK /\ BarsAreJobs) /\ CatchesUp

(* "One-field pref writes (favorite star, hide, skip)" (patchPref).  Known *)
(* not to hold: the whole preference of an older state is written.         *)
OneFieldWritten ==
    [][TakesPref => Cardinality({f \in Fields : prefs'[f] # prefs[f]}) <= 1]_vars
=============================================================================
