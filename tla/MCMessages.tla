------------------------------ MODULE MCMessages ------------------------------
(* What goes by messages that may be late, lost or out of order: one of four  *)
(* parts in each behaviour (`part`); the others stay as they began, where     *)
(* nothing is due.                                                            *)
(*                                                                            *)
(* "link": how two hubs pair, dial each other and keep one session            *)
(* (FleetLink), with a few troubles between them.                             *)
(* "sync": how their settings and stacks agree over it (FleetSync).           *)
(* "window": what the window shows of its hub (Window).                       *)
(* "hubs": the processes a hub runs as and the ports they compete for         *)
(* (HubProcesses).                                                            *)
EXTENDS FleetLink, TLC

CONSTANTS Prefs, StackIds, Skewed, MaxStamp, MaxOpens,
          Fields, MaxPulls, MaxChanges, MaxJobs, MaxClicks,
          Gui, Unit, Hand, MaxCrashes

VARIABLES part,
          entries, lastHash, timer, session, wire, stamps, opens, removed,
          prefs, changes, job, jobs, building, calls, toWindow, win, live, armed, clicks, shown,
          phase, reads, bus, lan, fleet, stampers, fresh, refresh, pass, unit, wanted, raced, crashes

syncVars == <<entries, lastHash, timer, session, wire, stamps, opens, removed>>
viewVars == <<prefs, changes, job, jobs, building, calls, toWindow, win, live, armed, clicks, shown>>
hubVars == <<phase, reads, bus, lan, fleet, stampers, fresh, refresh, pass, unit, wanted, raced, crashes>>

Sync == INSTANCE FleetSync WITH Links <- {Hubs}

View == INSTANCE Window WITH wire <- toWindow

Processes == INSTANCE HubProcesses WITH stamps <- stampers, timer <- refresh

ASSUME SyncAssumed == Sync!SyncAssumption

ASSUME WindowAssumed == View!WindowAssumption

ASSUME HubsAssumed == Processes!HubProcessesAssumption

MCInit ==
  /\ part \in {"link", "sync", "window", "hubs"}
  /\ Init /\ Sync!Init /\ View!Init /\ Processes!Init
  /\ part # "link" => \A h \in Hubs : peer[h] = None
  /\ shown = (part = "window")
  /\ part # "hubs" => ~fleet

MCNext ==
  /\ UNCHANGED part
  /\ \/ part = "link"   /\ Next           /\ UNCHANGED <<syncVars, viewVars, hubVars>>
     \/ part = "sync"   /\ Sync!Next      /\ UNCHANGED <<vars, viewVars, hubVars>>
     \/ part = "window" /\ View!Next      /\ UNCHANGED <<vars, syncVars, hubVars>>
     \/ part = "hubs"   /\ Processes!Next /\ UNCHANGED <<vars, syncVars, viewVars>>

(* The fairness of the parts, as they state it, each where it applies.        *)
MCFairness ==
  /\ WF_vars(part = "link" /\ Sweep)
  /\ \A h \in Hubs, k \in Conns : WF_vars(part = "link" /\ Deliver(h, k))
  /\ \A h \in Hubs : WF_syncVars(part = "sync" /\ Sync!TimerFires(h))
  /\ \A g, h \in Hubs : WF_syncVars(part = "sync" /\ Sync!Receive(g, h))
  /\ WF_viewVars(part = "window" /\ View!Hub)
  /\ SF_viewVars(part = "window" /\ \E i \in DOMAIN building : View!Answers(i))
  /\ WF_viewVars(part = "window" /\ View!Hearing)
  /\ WF_viewVars(part = "window" /\ View!Heartbeat)
  /\ WF_viewVars(part = "window" /\ View!JobEnds)
  /\ WF_viewVars(part = "window" /\ View!TimerFires)
  /\ WF_hubVars(part = "hubs" /\ Processes!SystemdRestarts)
  /\ \A d \in {Unit, Hand} : WF_hubVars(part = "hubs" /\ Processes!GoesOn(d))

MCSpec == MCInit /\ [][MCNext]_<<part, vars, syncVars, viewVars, hubVars>> /\ MCFairness

(* The properties of the other parts, as they state them.                     *)
QuietLinkAgrees == Sync!QuietLinkAgrees
ExchangeEnds    == Sync!ExchangeEnds
WindowKeepsUp   == View!WindowKeepsUp
HubsAreSound    == Processes!HubsAreSound
=============================================================================
