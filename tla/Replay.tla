------------------------------- MODULE Replay -------------------------------
(***************************************************************************)
(* The flight recorder (src/main/recorder.js), the reconstruction of what  *)
(* was installed at a point of the past, and the restore that walks it     *)
(* back (src/main/checkpoints.js).                                         *)
(*                                                                         *)
(* state.json knows what is installed now.  The hub buffers one journal    *)
(* line per finished job and appends its buffer within a second; the       *)
(* journal is a live file and Keep rotated ones, and rotation drops the    *)
(* oldest.  From these two a checkpoint says what was installed at `when`, *)
(* or that it does not know; a restore acts on what it says.  One process  *)
(* writes: the lines `nx` appends beside the hub may be out of order.      *)
(*                                                                         *)
(* Time is the number of changes made so far: change i holds from time i   *)
(* on.  `past`, the true history, is seen by the properties only.          *)
(***************************************************************************)
EXTENDS Integers, FiniteSets, SequencesExt

CONSTANTS
    Apps,      \* artifacts: one per app here
    Versions,  \* published versions, the same names for every app
    None,      \* no version: not installed
    Unknown,   \* an entry that does not say
    Keep,      \* rotated journal files kept (recorder.js: 2)
    OldUntil,  \* entries up to this time were written by a hub before v0.10
    MaxNow     \* bound: changes in a behaviour

ReplayAssumption ==
    /\ IsFiniteSet(Apps) /\ Keep \in Nat \ {0} /\ OldUntil \in Nat /\ MaxNow \in Nat
    /\ None \notin Versions /\ Unknown \notin Versions /\ None # Unknown

VARIABLES
    past,     \* the changes made: [app, version, from], in their order
    record,   \* state.json: app -> [version, at]
    buffer,   \* journal lines not written yet
    lost,     \* the time of the last line that was lost (a ghost)
    journal,  \* <<live file, rotated files, newest first>>, oldest line first
    tags,     \* versions whose release still exists
    restore   \* the restore that runs, if any

vars == <<past, record, buffer, lost, journal, tags, restore>>

now == Len(past)

NoInstall == [version |-> None, at |-> 0]

Idle == [busy |-> FALSE, when |-> 0, horizon |-> 0, todo |-> <<>>]

Line == [ts: 1..MaxNow, app: Apps, version: Versions \union {None, Unknown},
         replaced: Versions \union {None, Unknown}]

TypeOK ==
    /\ past \in Seq([app: Apps, version: Versions \union {None}, from: Versions \union {None}])
    /\ now <= MaxNow
    /\ record \in [Apps -> [version: Versions \union {None}, at: 0..MaxNow]]
    /\ buffer \in Seq(Line) /\ lost \in 0..MaxNow
    /\ journal \in Seq(Seq(Line)) /\ Len(journal) \in 1..(Keep + 1)
    /\ tags \subseteq Versions
    /\ restore \in [busy: BOOLEAN, when: 0..MaxNow, horizon: 0..(MaxNow + 1),
                    todo: Seq([app: Apps, version: Versions \union {None}])]

(* Installs made before there was a journal are in state.json only.        *)
Init ==
    /\ past = <<>>
    /\ record \in [Apps -> {[version |-> v, at |-> 0] : v \in Versions \union {None}}]
    /\ buffer = <<>> /\ lost = 0
    /\ journal = <<<<>>>>
    /\ tags = Versions
    /\ restore = Idle

-----------------------------------------------------------------------------
(* The truth, for the properties.                                          *)

(* What was installed at time t.                                           *)
Truth(a, t) ==
    LET changes == {i \in 1..now : past[i].app = a}
        before  == {i \in changes : i <= t}
    IN IF before # {} THEN past[Max(before)].version
       ELSE IF changes # {} THEN past[Min(changes)].from
       ELSE record[a].version

-----------------------------------------------------------------------------
(* The recorder.                                                           *)

(* The journal line of a job: what it left and, from v0.10 on, what it     *)
(* found.  An older line may lack the version: a note stood in its place.  *)
Lines(ts, a, v, replaced) ==
    IF ts > OldUntil THEN {[ts |-> ts, app |-> a, version |-> v, replaced |-> replaced]}
    ELSE {[ts |-> ts, app |-> a, version |-> w, replaced |-> Unknown] :
             w \in {v} \union (IF v = None THEN {} ELSE {Unknown})}

(* A job moves a to version v (None: an uninstall) and is recorded.        *)
(* Installing the version that is there is a reinstall, with its line.     *)
Change(a, v) ==
    /\ now < MaxNow
    /\ v # None \/ record[a].version # None
    /\ past' = Append(past, [app |-> a, version |-> v, from |-> record[a].version])
    /\ record' = [record EXCEPT ![a] = IF v = None THEN NoInstall
                                       ELSE [version |-> v, at |-> now + 1]]
    /\ \E line \in Lines(now + 1, a, v, record[a].version) :
          buffer' = Append(buffer, line)
    /\ UNCHANGED lost

(* Mutant: the live file is dropped and the oldest one kept.               *)
RotatedWrongEnd(files) ==
    <<<<>>>> \o IF Len(files) <= Keep THEN files ELSE Tail(files)

(* Rotation comes before the append that would cross the size; the bytes   *)
(* other events take are left out, so any append may be that one.          *)
Rotated(files) == <<<<>>>> \o IF Len(files) <= Keep THEN files ELSE Front(files)

Appended(files, lines) == [files EXCEPT ![1] = @ \o lines]

(* The journal once the buffer is flushed.                                 *)
Flushed ==
    IF buffer = <<>> THEN {journal}
    ELSE {Appended(files, buffer) : files \in {journal, Rotated(journal)}}

Flush ==
    /\ buffer # <<>> /\ buffer' = <<>>
    /\ journal' \in Flushed
    /\ UNCHANGED <<past, record, lost, tags, restore>>

(* kill -9, perhaps in the middle of the append: the lines that are whole  *)
(* stay, a torn one is skipped by every reader.  Only of a hub that is not *)
(* an old one.                                                             *)
Kill ==
    /\ buffer # <<>> /\ Last(buffer).ts > OldUntil
    /\ \E whole \in 0..(Len(buffer) - 1) :
          journal' = Appended(journal, SubSeq(buffer, 1, whole))
    /\ buffer' = <<>> /\ lost' = Last(buffer).ts
    /\ restore' = Idle
    /\ UNCHANGED <<past, record, tags>>

(* The disk refuses the append: flush has emptied the buffer by then.      *)
WriteFails ==
    /\ buffer # <<>> /\ Last(buffer).ts > OldUntil
    /\ journal' \in {journal, Rotated(journal)}
    /\ buffer' = <<>> /\ lost' = Last(buffer).ts
    /\ UNCHANGED <<past, record, tags, restore>>

(* query: every line of every file.                                        *)
Query(files) == UNION {ToSet(files[i]) : i \in DOMAIN files}

(* readJournal: the oldest moment the change entries speak for, that of    *)
(* the first line of the oldest file; past all time when there is none.    *)
Horizon(files) ==
    LET written == {i \in DOMAIN files : files[i] # <<>>}
    IN IF written = {} THEN now + 1 ELSE Head(files[Max(written)]).ts

-----------------------------------------------------------------------------
(* The reconstruction.                                                     *)

Known(v) == [version |-> v, uncertain |-> FALSE]
Doubt    == [version |-> None, uncertain |-> TRUE]

(* resolveRow, nothing journalled after `when`: the record itself, or the  *)
(* journal's silence over the whole stretch.                               *)
FromSilence(a, when, covered) ==
    IF record[a].version # None /\ record[a].at <= when THEN Known(record[a].version)
    ELSE IF ~covered \/ record[a].version # None THEN Doubt
    ELSE Known(None)

(* Mutant: with no line before it, a change is taken for a first install.  *)
FromChangesAsFirst(first, before) ==
    IF first.replaced # Unknown THEN Known(first.replaced)
    ELSE IF before = {} THEN Known(None)
    ELSE Known((CHOOSE e \in before : \A f \in before : f.ts <= e.ts).version)

(* resolveRow: the first change after `when` says what it replaced; else   *)
(* the last one before it says what it left.                               *)
FromChanges(first, before) ==
    IF first.replaced # Unknown THEN Known(first.replaced)
    ELSE IF before = {} THEN Doubt
    ELSE LET left == (CHOOSE e \in before : \A f \in before : f.ts <= e.ts).version
         IN IF left = Unknown THEN Doubt ELSE Known(left)

Resolve(a, when, files) ==
    LET mine   == {e \in Query(files) : e.app = a}
        after  == {e \in mine : e.ts > when}
    IN IF after = {} THEN FromSilence(a, when, when >= Horizon(files))
       ELSE FromChanges(CHOOSE e \in after : \A f \in after : e.ts <= f.ts, mine \ after)

(* reconstruct: the artifacts the journal or state.json name.              *)
Rows(files) == {a \in Apps : record[a].version # None \/ \E e \in Query(files) : e.app = a}

(* Mutant: a row in doubt is acted on.                                     *)
ActionOnDoubt(a, row) ==
    IF row.version = record[a].version THEN "none"
    ELSE IF row.version = None THEN "remove"
    ELSE IF row.version \in tags THEN "install" ELSE "skip"

(* actionFor and the skip of a version whose release is gone.              *)
Action(a, row) ==
    IF row.uncertain \/ row.version = record[a].version THEN "none"
    ELSE IF row.version = None THEN "remove"
    ELSE IF row.version \in tags THEN "install" ELSE "skip"

(* checkpointAt, then orderPlan: removals first.                           *)
Plan(when, files) ==
    LET row(a)     == Resolve(a, when, files)
        doing(act) == {a \in Rows(files) : Action(a, row(a)) = act}
        steps(as)  == SetToSeq({[app |-> a, version |-> row(a).version] : a \in as})
    IN steps(doing("remove")) \o steps(doing("install"))

-----------------------------------------------------------------------------
(* The jobs of the user, and the restore.                                  *)

UserChanges(a, v) ==
    /\ v \in tags \union {None}
    /\ Change(a, v)
    /\ UNCHANGED <<journal, tags, restore>>

Withdraw(v) ==
    /\ v \in tags
    /\ tags' = tags \ {v}
    /\ UNCHANGED <<past, record, buffer, lost, journal, restore>>

(* One restore at a time.  The plan is read once, before the first step;   *)
(* a query flushes first what its own process has buffered.                *)
Restore(when) ==
    /\ ~restore.busy
    /\ when \in 0..now
    /\ buffer' = <<>>
    /\ \E files \in Flushed :
          /\ journal' = files
          /\ restore' = [busy |-> TRUE, when |-> when, horizon |-> Horizon(files),
                         todo |-> Plan(when, files)]
    /\ UNCHANGED <<past, record, lost, tags>>

(* A step runs the ordinary job of its kind.                               *)
StepDone ==
    /\ restore.busy /\ restore.todo # <<>>
    /\ LET step == Head(restore.todo)
       IN /\ step.version \in tags \union {None}
          /\ Change(step.app, step.version)
    /\ restore' = [restore EXCEPT !.todo = Tail(@)]
    /\ UNCHANGED <<journal, tags>>

(* The job fails; a failing step does not stop the rest.                   *)
StepFails ==
    /\ restore.busy /\ restore.todo # <<>>
    /\ restore' = [restore EXCEPT !.todo = Tail(@)]
    /\ UNCHANGED <<past, record, buffer, lost, journal, tags>>

Verdict ==
    /\ restore.busy /\ restore.todo = <<>>
    /\ restore' = Idle
    /\ UNCHANGED <<past, record, buffer, lost, journal, tags>>

Next ==
    \/ Flush \/ WriteFails \/ Kill
    \/ \E a \in Apps, v \in Versions \union {None} : UserChanges(a, v)
    \/ \E v \in Versions : Withdraw(v)
    \/ \E when \in 0..now : Restore(when)
    \/ StepDone \/ StepFails \/ Verdict

Spec == Init /\ [][Next]_vars

-----------------------------------------------------------------------------
(* Properties.                                                             *)

(* A checkpoint would read one of Flushed now.                             *)
IsTrue(a, when, files) ==
    LET row == Resolve(a, when, files)
    IN ~row.uncertain => row.version = Truth(a, when)

(* The moments a journal speaks for: inside its horizon, and since the     *)
(* last line that was lost.                                                *)
InReach(files) == {when \in Horizon(files)..now : when >= lost}

(* A row that is not marked uncertain is true: however old the lines are,  *)
(* whatever was rotated away and killed, a checkpoint in the journal's     *)
(* reach names the version that was installed at `when`.                   *)
RowsInReachAreTrue ==
    \A files \in Flushed : \A when \in InReach(files), a \in Rows(files) :
        IsTrue(a, when, files)

(* The same of any `when`: out of reach the answer is "uncertain", never a *)
(* guess (checkpoints.js:29).  It fails: the first change that survives in *)
(* the journal is taken for the first change since `when`.                 *)
NoGuess ==
    lost = 0 => \A files \in Flushed, when \in 0..now :
        \A a \in Rows(files) : IsTrue(a, when, files)

(* Inside the journal's horizon nothing is left out without a word: an     *)
(* artifact whose version differs now from the one at `when` has a row.    *)
CoveredIsComplete ==
    \A files \in Flushed : \A when \in InReach(files), a \in Apps :
        Truth(a, when) # record[a].version => a \in Rows(files)

(* A step of a restore to a moment the journal covers moves an artifact to *)
(* the version that was installed then, or not at all.                     *)
MovesToTruth ==
    \A a \in Apps :
        /\ StepDone /\ record'[a] # record[a]
        /\ restore.when >= restore.horizon /\ restore.when >= lost
        => record'[a].version = Truth(a, restore.when)

(* That is so of every step, whatever users, rotation and failing steps do *)
(* between the plan and the step.                                          *)
RestoreNeverGuesses == [][MovesToTruth]_vars

(* All of it: a checkpoint in reach is the whole truth but for the rows it *)
(* marks uncertain, and what is done on its word is done on the truth.     *)
HistoryIsHonest == [](RowsInReachAreTrue /\ CoveredIsComplete) /\ RestoreNeverGuesses
=============================================================================
