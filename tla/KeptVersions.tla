---------------------------- MODULE KeptVersions ----------------------------
(***************************************************************************)
(* What the install directory of an app promises: what a launch starts     *)
(* (current) and what a rollback would bring back (kept) change in single  *)
(* steps, from one complete version to another.  Keeping the replaced      *)
(* version is best effort, and a crash may leave no current version at     *)
(* all; but a mixture of two versions is never current, and an incomplete  *)
(* one only if its removal had begun.                                      *)
(***************************************************************************)
CONSTANTS Versions,
          Damaged,    \* a directory whose removal was cut short
          None

VARIABLES current,    \* what a launch starts
          kept,       \* what a rollback restores
          leaving     \* the version just replaced, not yet kept or dropped

kvars == <<current, kept, leaving>>

KInit == current = None /\ kept = None /\ leaving = None

\* An install replaces the current version by v.
Replace(v) == /\ leaving = None
              /\ current' = v
              /\ leaving' = current
              /\ UNCHANGED kept

\* A rollback replaces the current version by the kept one.
Restore == /\ leaving = None /\ kept # None
           /\ current' = kept
           /\ leaving' = current
           /\ kept' = None

\* The replaced version takes the place of the kept one, or is given up.
Keep == /\ leaving # None /\ kept = None
        /\ kept' = leaving
        /\ leaving' = None
        /\ UNCHANGED current
Drop == leaving' = None /\ UNCHANGED <<current, kept>>

\* A removal of the kept version; of the current one, by an uninstall.
Forget == kept' \in {None, Damaged} /\ UNCHANGED <<current, leaving>>
Remove == /\ leaving = None /\ current # None
          /\ current' \in {None, Damaged}
          /\ UNCHANGED <<kept, leaving>>

\* A crash, or one failure on top of another, in the middle of a swap or of the
\* removal of the kept version.
Strand == /\ current' \in {current, None}
          /\ kept' \in {kept, None, Damaged}
          /\ leaving' = None

KNext == \/ \E v \in Versions : Replace(v)
         \/ Restore \/ Keep \/ Drop \/ Forget \/ Remove \/ Strand

KSpec == KInit /\ [][KNext]_kvars
=============================================================================
