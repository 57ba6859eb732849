----------------------------- MODULE MCAssetLock -----------------------------
(* A window with two acquisitions going (an install and a pre-download), so   *)
(* that clients of one process interleave as well, and a terminal; for the    *)
(* stale-lock run a third process takes the place of the pre-download.        *)
EXTENDS AssetLock, TLC

CONSTANTS gui, cli, third, guiJob, guiFetch, cliJob, thirdJob

TwoHubs   == (guiJob :> gui) @@ (guiFetch :> gui) @@ (cliJob :> cli)
ThreeHubs == (guiJob :> gui) @@ (cliJob :> cli) @@ (thirdJob :> third)
=============================================================================
