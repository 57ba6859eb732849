----------------------------- MODULE MCPrograms -----------------------------
(* The programs the hub has launched, one of two parts in each behaviour      *)
(* (`part`); the other stays as it began, where nothing is due.               *)
(*                                                                            *)
(* "watch": launches, exits and restarts (Watchdog).  One program in one      *)
(* version, launched twice by the user, one launch watched at a time, so that *)
(* a launch drops the watch of another.  A tick stands for about ten seconds: *)
(* a hub stop and a goodbye are good for the tick they fall in, the second    *)
(* delay is longer than that, a crash is sooner than a healthy run, and the   *)
(* window of the budget is longer than the restarts it allows and a healthy   *)
(* run take together.                                                         *)
(* "bus": the apps that announce themselves (Bus).  Two sockets at a time of  *)
(* two apps, or of two instances of one.                                      *)
EXTENDS Watchdog, TLC

CONSTANTS game, gameApp, Conns, BusApps, Numbers, none, text, ReapAfter, RingSize, Points

VARIABLES part, conn, rest, byApp, due, told, closed

busVars == <<conn, rest, byApp, due, told, closed>>

Bus == INSTANCE Bus WITH
         Apps <- BusApps, None <- none, Text <- text, timer <- due

ASSUME BusAssumed == Bus!BusAssumption

MCAppOf   == game :> gameApp
MCBackoff == <<0, 1>>

MCInit == part \in {"watch", "bus"} /\ Init /\ Bus!Init

MCNext ==
  /\ UNCHANGED part
  /\ \/ part = "watch" /\ Next     /\ UNCHANGED busVars
     \/ part = "bus"   /\ Bus!Next /\ UNCHANGED vars

MCSpec == MCInit /\ [][MCNext]_<<part, vars, busVars>> /\ Fairness /\ Bus!Fairness

(* The properties of Bus, as it states them.                                  *)
PresenceIsKnown == Bus!PresenceIsKnown
ReapsTheHung    == Bus!ReapsTheHung
=============================================================================
