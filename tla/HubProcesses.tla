----------------------------- MODULE HubProcesses -----------------------------
(***************************************************************************)
(* The processes a hub runs as: the window's process (src/main/index.js)   *)
(* and headless daemons (src/main/daemon.js, src/cli/daemon.js), one of    *)
(* them a service of systemd, on one machine and one data directory.       *)
(*                                                                         *)
(* They compete for the port of the connector bus and the port of the      *)
(* fleet.  The window's process takes what is free and lives with the      *)
(* rest; a daemon probes both ports first and gives up when one is taken.  *)
(* A snapshot file on disk, stamped by whoever has adopted a bus, and the  *)
(* port are what `nx daemon status` judges by.                             *)
(***************************************************************************)
EXTENDS Naturals

CONSTANTS Gui,    \* the process with the window
          Unit,   \* the daemon systemd runs
          Hand,   \* a daemon started by hand
          None,
          MaxCrashes  \* bound: crashes of the service

Daemons == {Unit, Hand}
Hubs    == {Gui} \union Daemons

HubProcessesAssumption ==
    /\ MaxCrashes \in Nat
    /\ Unit # Hand /\ Gui \notin Daemons /\ None \notin Hubs

VARIABLES
    phase,     \* where each process is
    reads,     \* settings.fleet as each process that runs has read it
    bus, lan,  \* who listens on the bus port and on the fleet port
    fleet,     \* settings.fleet
    stamps,    \* who keeps stamping the snapshot
    fresh,     \* the snapshot is younger than two minutes
    timer,     \* daemons whose next refresh is armed
    pass,      \* daemons with a refresh under way
    unit,      \* the file of the service: "missing", "ours" or "foreign"
    wanted,    \* the user wants the service to run
    raced,     \* a port was taken between a probe and the bind it was for
    crashes    \* crashes of the service

vars == <<phase, reads, bus, lan, fleet, stamps, fresh, timer, pass, unit, wanted, raced, crashes>>

Phases == {"off", "failed", "starting", "bus is free", "ports are free", "up", "closing"}
Owners == Hubs \union {None}

TypeOK ==
    /\ phase \in [Hubs -> Phases] /\ reads \in [Hubs -> BOOLEAN]
    /\ bus \in Owners /\ lan \in Owners /\ stamps \subseteq Hubs
    /\ timer \subseteq Daemons /\ pass \subseteq Daemons
    /\ unit \in {"missing", "ours", "foreign"}
    /\ {fleet, fresh, wanted, raced} \subseteq BOOLEAN /\ crashes \in 0..MaxCrashes

Init ==
    /\ phase = [h \in Hubs |-> "off"] /\ reads = [h \in Hubs |-> FALSE]
    /\ bus = None /\ lan = None /\ fleet \in BOOLEAN
    /\ stamps = {} /\ fresh = FALSE /\ timer = {} /\ pass = {}
    /\ unit = "missing" /\ wanted = FALSE /\ raced = FALSE /\ crashes = 0

-----------------------------------------------------------------------------
Goes(h, p)      == phase' = [phase EXCEPT ![h] = p]
Taken(port, h)  == IF port = None THEN h ELSE port
Without(port, h) == IF port = h THEN None ELSE port

(* A process that is gone listens, stamps and refreshes no more.           *)
Exits(h, p) ==
    /\ Goes(h, p)
    /\ bus' = Without(bus, h) /\ lan' = Without(lan, h)
    /\ stamps' = stamps \ {h} /\ timer' = timer \ {h} /\ pass' = pass \ {h}
    /\ reads' = [reads EXCEPT ![h] = FALSE]

(* The window's process.                                                   *)
(* startConnector adopts the bus module whether or not it could listen.    *)
GuiStarts ==
    /\ phase[Gui] = "off" /\ Goes(Gui, "up")
    /\ reads' = [reads EXCEPT ![Gui] = fleet]
    /\ bus' = Taken(bus, Gui)
    /\ lan' = IF fleet THEN Taken(lan, Gui) ELSE lan
    /\ stamps' = stamps \union {Gui} /\ fresh' = TRUE
    /\ UNCHANGED <<fleet, timer, pass, unit, wanted, raced, crashes>>

(* setSettings in the window: syncFleet starts or closes the fleet.        *)
GuiSetsFleet ==
    /\ phase[Gui] = "up"
    /\ fleet' = ~fleet
    /\ reads' = [reads EXCEPT ![Gui] = fleet']
    /\ lan' = IF reads[Gui] = fleet' THEN lan
              ELSE IF fleet' THEN Taken(lan, Gui) ELSE Without(lan, Gui)
    /\ UNCHANGED <<phase, bus, stamps, fresh, timer, pass, unit, wanted, raced, crashes>>

(* Another process writes the setting: who runs has read it already.       *)
OthersSetFleet ==
    /\ fleet' = ~fleet
    /\ UNCHANGED <<phase, reads, bus, lan, stamps, fresh, timer, pass, unit, wanted, raced, crashes>>

GuiQuits ==
    /\ phase[Gui] = "up" /\ Exits(Gui, "off")
    /\ UNCHANGED <<fleet, fresh, unit, wanted, raced, crashes>>

-----------------------------------------------------------------------------
(* The daemons.                                                            *)

(* systemctl enable --now, or `nx daemon run`.                             *)
UserStarts(d) ==
    /\ phase[d] = "off" /\ Goes(d, "starting")
    /\ d = Unit => unit = "ours" /\ wanted' = TRUE
    /\ d = Hand => UNCHANGED wanted
    /\ reads' = [reads EXCEPT ![d] = fleet]
    /\ UNCHANGED <<bus, lan, fleet, stamps, fresh, timer, pass, unit, raced, crashes>>

(* Restart=on-failure, ten seconds later, without a limit.                 *)
SystemdRestarts ==
    /\ phase[Unit] = "failed" /\ Goes(Unit, "starting")
    /\ reads' = [reads EXCEPT ![Unit] = fleet]
    /\ UNCHANGED <<bus, lan, fleet, stamps, fresh, timer, pass, unit, wanted, raced, crashes>>

(* A failure of the service is systemd's to answer.                        *)
Fails(d) == Exits(d, IF d = Unit THEN "failed" ELSE "off")

(* A port is busy: exit 2.                                                 *)
Refuses(d) ==
    /\ Fails(d)
    /\ UNCHANGED <<fleet, fresh, unit, wanted, raced, crashes>>

(* start, up to the first wait: the probe of the bus port ...              *)
ProbesBus(d) ==
    /\ phase[d] = "starting"
    /\ \/ bus # None /\ Refuses(d)
       \/ /\ bus = None /\ Goes(d, "bus is free")
          /\ UNCHANGED <<reads, bus, lan, fleet, stamps, fresh, timer, pass, unit, wanted, raced, crashes>>

(* ... the probe of the fleet port, if the fleet is wanted ...             *)
ProbesFleet(d) ==
    /\ phase[d] = "bus is free"
    /\ \/ reads[d] /\ lan # None /\ Refuses(d)
       \/ /\ reads[d] => lan = None
          /\ Goes(d, "ports are free")
          /\ UNCHANGED <<reads, bus, lan, fleet, stamps, fresh, timer, pass, unit, wanted, raced, crashes>>

(* ... and everything after it.  A bus that does not listen is not        *)
(* adopted.  (Between the bind and the stamp the code awaits the bus once.)*)
ComesUp(d) ==
    /\ phase[d] = "ports are free" /\ Goes(d, "up")
    /\ bus' = Taken(bus, d)
    /\ lan' = IF reads[d] THEN Taken(lan, d) ELSE lan
    /\ stamps' = IF bus' = d THEN stamps \union {d} ELSE stamps
    /\ fresh' = (fresh \/ bus' = d)
    /\ raced' = (raced \/ bus # None \/ (reads[d] /\ lan # None))
    /\ timer' = timer \union {d}
    /\ UNCHANGED <<reads, fleet, pass, unit, wanted, crashes>>

(* arm: the next refresh begins when its timer fires ...                   *)
PassBegins(d) ==
    /\ d \in timer /\ timer' = timer \ {d} /\ pass' = pass \union {d}
    /\ UNCHANGED <<phase, reads, bus, lan, fleet, stamps, fresh, unit, wanted, raced, crashes>>

(* Defect: the timer is armed whether or not the daemon stops.             *)
PassEndsArmed(d) ==
    /\ d \in pass /\ pass' = pass \ {d}
    /\ timer' = timer \union {d}
    /\ UNCHANGED <<phase, reads, bus, lan, fleet, stamps, fresh, unit, wanted, raced, crashes>>

(* ... and arms the timer again, unless the daemon stops.                  *)
PassEnds(d) ==
    /\ d \in pass /\ pass' = pass \ {d}
    /\ timer' = IF phase[d] = "up" THEN timer \union {d} ELSE timer
    /\ UNCHANGED <<phase, reads, bus, lan, fleet, stamps, fresh, unit, wanted, raced, crashes>>

(* SIGTERM or SIGINT.  stop takes the timer and the fleet first; before    *)
(* there is a handler, and when it comes again, the process just ends.     *)
Signal(d) ==
    /\ phase[d] # "off"
    /\ wanted' = (wanted /\ d # Unit)
    /\ \/ /\ phase[d] = "up" /\ Goes(d, "closing")
          /\ timer' = timer \ {d} /\ lan' = Without(lan, d)
          /\ UNCHANGED <<reads, bus, stamps, pass>>
       \/ phase[d] # "up" /\ Exits(d, "off")
    /\ UNCHANGED <<fleet, fresh, unit, raced, crashes>>

(* The snapshot is stamped once more, the bus closed, and the process ends.*)
StopEnds(d) ==
    /\ phase[d] = "closing" /\ Exits(d, "off")
    /\ fresh' = TRUE
    /\ UNCHANGED <<fleet, unit, wanted, raced, crashes>>

Crashes(h) ==
    /\ phase[h] \notin {"off", "failed"}
    /\ IF h = Gui THEN Exits(h, "off") ELSE Fails(h)
    /\ IF h = Unit THEN crashes < MaxCrashes /\ crashes' = crashes + 1 ELSE UNCHANGED crashes
    /\ UNCHANGED <<fleet, fresh, unit, wanted, raced>>

(* Two minutes without a stamp.                                            *)
SnapshotAges ==
    /\ fresh /\ stamps = {} /\ fresh' = FALSE
    /\ UNCHANGED <<phase, reads, bus, lan, fleet, stamps, timer, pass, unit, wanted, raced, crashes>>

-----------------------------------------------------------------------------
(* The file of the service: only one with the marker is written over or    *)
(* removed.                                                                *)
InstallsUnit ==
    /\ unit' = IF unit = "foreign" THEN unit ELSE "ours"
    /\ UNCHANGED <<phase, reads, bus, lan, fleet, stamps, fresh, timer, pass, wanted, raced, crashes>>

UninstallsUnit ==
    /\ unit' = IF unit = "ours" THEN "missing" ELSE unit
    /\ UNCHANGED <<phase, reads, bus, lan, fleet, stamps, fresh, timer, pass, wanted, raced, crashes>>

UserWritesUnit ==
    /\ unit' = "foreign"
    /\ UNCHANGED <<phase, reads, bus, lan, fleet, stamps, fresh, timer, pass, wanted, raced, crashes>>

(* A start or a stop goes on.                                              *)
GoesOn(d) == ProbesBus(d) \/ ProbesFleet(d) \/ ComesUp(d) \/ StopEnds(d)

Next == \/ GuiStarts \/ GuiSetsFleet \/ OthersSetFleet \/ GuiQuits
        \/ SystemdRestarts \/ SnapshotAges
        \/ InstallsUnit \/ UninstallsUnit \/ UserWritesUnit
        \/ \E h \in Hubs : Crashes(h)
        \/ \E d \in Daemons : \/ UserStarts(d) \/ GoesOn(d) \/ Signal(d)
                              \/ PassBegins(d) \/ PassEnds(d)

(* systemd restarts, processes go on.                                      *)
Fairness ==
    /\ WF_vars(SystemdRestarts)
    /\ \A d \in Daemons : WF_vars(GoesOn(d))

Spec == Init /\ [][Next]_vars /\ Fairness

-----------------------------------------------------------------------------
(* Properties.                                                             *)

(* verdict: the state `nx daemon status` reports.                          *)
Verdict == IF bus # None /\ fresh THEN "running"
           ELSE IF bus # None \/ fresh THEN "stale" ELSE "stopped"

(* A hub that serves the bus is never reported as anything but running:    *)
(* whoever listens stamps, from the first moment to the last.              *)
ServedIsRunning == bus # None => Verdict = "running"

(* A daemon that could not have the whole of what it probed for is there   *)
(* only because a port was taken after its probe; without that, whoever    *)
(* the daemons are, one of them at most runs.                              *)
DaemonsStandAlone ==
    ~raced => /\ \A d \in Daemons : phase[d] = "up" => bus = d
              /\ Unit \in stamps => Hand \notin stamps

(* A daemon told to stop begins no refresh.                                *)
StopIsStop == \A d \in timer : phase[d] = "up"

(* "A GUI hub taking the connector port back is not a crash loop" (the     *)
(* service has no start limit): a service the user wants, once the window  *)
(* is gone, has the bus served again, however it was refused or has        *)
(* crashed before, and whatever daemon is started by hand beside it.       *)
ServedAgain == []<>(wanted /\ phase[Gui] = "off" /\ ~raced => bus # None)

(* All of it.                                                              *)
HubsAreSound ==
    [](TypeOK /\ ServedIsRunning /\ DaemonsStandAlone /\ StopIsStop) /\ ServedAgain
=============================================================================
