----------------------------- MODULE MCStackRun -----------------------------
(* Either a stack of two steps and one of a single step, run and stopped by  *)
(* the user; or a stack that an app on the bus starts and stops; or one that a *)
(* headset starts after it has woken a machine, whose watcher is replaced while *)
(* adb is asked; or that one and a second one about the same headset.          *)
EXTENDS StackRun, TLC

CONSTANTS long, solo, desk, rig, den, player, headset

Local == [kind |-> "local", optional |-> FALSE]
MCSteps == long :> <<Local, [kind |-> "peered", optional |-> TRUE]>>
        @@ solo :> <<Local>>
        @@ desk :> <<Local>>
        @@ rig  :> <<[kind |-> "wake", optional |-> TRUE]>>
        @@ den  :> <<[kind |-> "wake", optional |-> FALSE]>>

MCAbout == desk :> player @@ rig :> headset @@ den :> headset

MCWatchersOf == {long, solo} :> {1} @@ {desk} :> {1} @@ {rig} :> {1, 2} @@ {rig, den} :> {1}
UserOnly     == {long, solo} :> {1}
=============================================================================
