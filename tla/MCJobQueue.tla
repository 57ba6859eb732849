----------------------------- MODULE MCJobQueue -----------------------------
(* Two apps that compete for the download slots; app a1 can be installed and *)
(* uninstalled, so that its jobs queue behind each other; one background     *)
(* pre-download competes for the slots too.                                  *)
EXTENDS JobQueue, TLC

CONSTANTS a1, a2, install1, remove1, install2, bg

MCAppOf == (install1 :> a1) @@ (remove1 :> a1) @@ (install2 :> a2)
=============================================================================
