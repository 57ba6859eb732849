----------------------------- MODULE MCCommands -----------------------------
(* What a person or another hub tells this hub to do with its apps, and the   *)
(* files it writes that down in: one of five parts in each behaviour (`part`);*)
(* they share no state, and the others stay as they began.                    *)
(*                                                                            *)
(* "bisect": the search for the first broken release (Bisect), any of the N   *)
(* releases being that one.                                                   *)
(* "replay": the journal, checkpoints and restores (Replay): two artifacts    *)
(* and versions, one artifact at most installed before there was a journal,   *)
(* the first changes journalled by an old hub, one rotated file.              *)
(* "request": what two hubs ask of two others (FleetRequest), two requests in *)
(* all; one has the app they install, the other the asset they search for.    *)
(* "ladder": two launches of an app of one artifact and who stops them        *)
(* (StopLadder), with two hellos on the bus.                                  *)
(* "stores": one of the four files the hub keeps its facts in (Stores), two   *)
(* processes that make three changes, over two keys and two values.           *)
EXTENDS Bisect, TLC

CONSTANTS a, b, v1, v2, Apps, Versions, None, Unknown, Keep, OldUntil, MaxNow,
          asker1, asker2, owner1, owner2, app, Links, RemoteInstalls, Knows, Calls,
          MaxRids, MaxSession, MaxJobs,
          MaxProcs, MaxHellos, Arts, ArtOf, Unnamed, Cli, Writers, Keys, Vals, MaxOps

VARIABLES part, past, record, buffer, lost, journal, tags, restore,
          live, opened, query, reply, inflight, doing, job, jobs, owner, holds, done, gap, last,
          up, begun, tracked, client, tells, since, hellos, snapshot, signalled, call, sole,
          joined, shown, pending,
          store, file, held, memo, fresh, ops, due, risky

replayVars  == <<past, record, buffer, lost, journal, tags, restore>>
requestVars == <<live, opened, query, reply, inflight, doing, job, jobs, owner, holds, done, gap,
                 last>>
ladderVars  == <<up, begun, tracked, client, tells, since, hellos, snapshot, signalled, call, sole,
                 joined, shown, pending>>
storesVars  == <<store, file, held, memo, fresh, ops, due, risky>>

Replay == INSTANCE Replay
Request == INSTANCE FleetRequest WITH Installs <- RemoteInstalls
Ladder == INSTANCE StopLadder WITH file <- snapshot
Stores == INSTANCE Stores WITH Procs <- Writers

ASSUME CommandsAssumption == /\ Ladder!LadderAssumption /\ Stores!StoresAssumption
                             /\ Replay!ReplayAssumption /\ Request!FleetRequestAssumption

MCLinks == {<<asker1, owner1>>, <<asker1, owner2>>, <<asker2, owner1>>}
MCArtOf == [p \in 1..MaxProcs |-> app]
MCCalls == [l \in MCLinks |-> IF l[2] = owner2 THEN {"launch"}
                              ELSE IF l[1] = asker1 THEN {"stop", "update-all"} ELSE {"probe"}]
MCKnows == owner1 :> {app} @@ owner2 :> {}

Interchangeable == Permutations({a, b}) \cup Permutations({v1, v2})

NoInstallOf(x) == record[x].version = None

MCInit ==
  /\ part \in {"bisect", "replay", "request", "ladder", "stores"}
  /\ Init /\ Replay!Init /\ Request!Init /\ Ladder!Init /\ Stores!Init
  /\ part # "bisect" => installed = Nothing /\ break = 1
  /\ part # "stores" => store = "dev"
  /\ \A x, y \in Apps : part # "replay" \/ x # y => NoInstallOf(x) \/ NoInstallOf(y)
  /\ holds = {owner2}

MCNext ==
  /\ UNCHANGED part
  /\ \/ part = "bisect"  /\ Next         /\ UNCHANGED <<replayVars, requestVars, ladderVars, storesVars>>
     \/ part = "replay"  /\ Replay!Next  /\ UNCHANGED <<vars, requestVars, ladderVars, storesVars>>
     \/ part = "request" /\ Request!Next /\ UNCHANGED <<vars, replayVars, ladderVars, storesVars>>
     \/ part = "ladder"  /\ Ladder!Next  /\ UNCHANGED <<vars, replayVars, requestVars, storesVars>>
     \/ part = "stores"  /\ Stores!Next  /\ UNCHANGED <<vars, replayVars, requestVars, ladderVars>>

MCSpec == MCInit /\ [][MCNext]_<<part, vars, replayVars, requestVars, ladderVars, storesVars>>

(* The properties of the instances, as they state them.                       *)
HistoryIsHonest == Replay!HistoryIsHonest
NoGuess         == Replay!NoGuess
AskersAreTold   == Request!AskersAreTold
LadderIsHonest  == Ladder!LadderIsHonest
StoresAreSound  == Stores!StoresAreSound
=============================================================================
