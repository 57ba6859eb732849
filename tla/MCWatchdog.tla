----------------------------- MODULE MCWatchdog -----------------------------
(* One program in one version, launched twice by the user, one launch         *)
(* watched at a time, so that a launch drops the watch of another.  A tick    *)
(* stands for about ten seconds: a hub stop and a goodbye are good for the    *)
(* tick they fall in, the second delay is longer than that, a crash is        *)
(* sooner than a healthy run, and the window of the budget is longer than     *)
(* the restarts it allows and a healthy run take together.                    *)
EXTENDS Watchdog, TLC

CONSTANTS game, gameApp, v1, c1, c2

MCAppOf   == game :> gameApp
MCBackoff == <<0, 1>>
=============================================================================
