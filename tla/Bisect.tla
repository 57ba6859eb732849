------------------------------- MODULE Bisect -------------------------------
(***************************************************************************)
(* `nx bisect` (src/main/bisect.js, src/cli/bisect.js): a binary search    *)
(* over the releases of one artifact, oldest first, for the first one that *)
(* is broken.  Each command is a process: it reads the search from disk,   *)
(* writes it moved on, and then installs the next candidate through the    *)
(* ordinary pipeline, which may fail, be killed, or be overtaken by other  *)
(* installs of the app (an update policy, the window).  Nothing compares   *)
(* what is installed with the candidate when a verdict is given, and       *)
(* nothing asks whether a search is under way when one is started.         *)
(***************************************************************************)
EXTENDS Integers, FiniteSets, Sequences

CONSTANTS
    N,          \* releases that can be bisected (cli/bisect.js: at least two)
    MaxStarts   \* bound on the searches started one over the other

ASSUME BisectAssumption == N \in Nat /\ N >= 2 /\ MaxStarts \in Nat

VARIABLES
    break,      \* the first broken release; the newest is broken, or nobody bisects
    search,     \* bisect.json
    installed,  \* the release that is installed, 0 for none
    command,    \* what the running command still has to do
    misjudged,  \* history: the candidates of this search that were called good or
                \* bad while another release was installed
    starts      \* history: what was installed at each start since the last reset

vars == <<break, search, installed, command, misjudged, starts>>

Releases == 1..N
Nothing  == 0

NoSearch == [lo |-> 0, hi |-> 0, current |-> 0, skipped |-> {}, outcome |-> "none", restore |-> 0]

Outcomes == {"none", "open", "first-bad", "all-good", "exhausted"}

TypeOK ==
    /\ break \in Releases
    /\ search \in [lo: 0..(N + 1), hi: 0..N, current: 0..N, skipped: SUBSET Releases,
                   outcome: Outcomes, restore: 0..N]
    /\ installed \in 0..N
    /\ command \in {"none", "install", "reset"}
    /\ misjudged \subseteq Releases
    /\ starts \in Seq(0..N)

Init ==
    /\ break \in Releases
    /\ search = NoSearch
    /\ installed \in 0..N
    /\ command = "none"
    /\ misjudged = {} /\ starts = <<>>

InSearch == search.outcome # "none"
Done(s)  == s.outcome \in {"first-bad", "all-good", "exhausted"}

-----------------------------------------------------------------------------
(* The search.                                                             *)

(* Worth installing: the window without its believed-bad end and the skips. *)
Testable(s) == (s.lo..(s.hi - 1)) \ s.skipped

(* Mutant of Midpoint: the search goes from the oldest on.                  *)
MidpointLow(s) == s.lo

Midpoint(s) == (s.lo + s.hi) \div 2

(* c comes before d, looking from the middle outwards, the older one first. *)
Nearer(c, d, mid) ==
    LET away(i) == IF i <= mid THEN mid - i ELSE i - mid
    IN away(c) < away(d) \/ (away(c) = away(d) /\ c <= d)

NextCandidate(s) == CHOOSE c \in Testable(s) : \A d \in Testable(s) : Nearer(c, d, Midpoint(s))

(* settle: what a narrowed window means.                                   *)
Settle(s) ==
    IF s.lo > s.hi THEN [s EXCEPT !.outcome = "all-good"]
    ELSE IF s.lo = s.hi THEN [s EXCEPT !.outcome = "first-bad"]
    ELSE IF Testable(s) = {} THEN [s EXCEPT !.outcome = "exhausted"]
    ELSE [s EXCEPT !.outcome = "open", !.current = NextCandidate(s)]

Verdicts == {"good", "bad", "skip"}

(* Mutants of Applied: the bad release itself is ruled out; what to put    *)
(* back is lost.                                                           *)
AppliedPast(s, verdict) ==
    Settle(CASE verdict = "good" -> [s EXCEPT !.lo = s.current + 1]
             [] verdict = "bad"  -> [s EXCEPT !.hi = s.current - 1]
             [] verdict = "skip" -> [s EXCEPT !.skipped = @ \union {s.current}])

AppliedAfresh(s, verdict) ==
    Settle([NoSearch EXCEPT !.current = s.current, !.skipped = s.skipped \union
                                (IF verdict = "skip" THEN {s.current} ELSE {}),
                            !.lo = IF verdict = "good" THEN s.current + 1 ELSE s.lo,
                            !.hi = IF verdict = "bad" THEN s.current ELSE s.hi])

(* applyVerdict: the verdict goes to the candidate.                        *)
Applied(s, verdict) ==
    Settle(CASE verdict = "good" -> [s EXCEPT !.lo = s.current + 1]
             [] verdict = "bad"  -> [s EXCEPT !.hi = s.current]
             [] verdict = "skip" -> [s EXCEPT !.skipped = @ \union {s.current}])

(* stepsLeft: the least k with 2^k suspects or more.                       *)
StepsLeft(s) ==
    LET suspects == s.hi - s.lo + 1
    IN CHOOSE k \in 0..N : 2 ^ k >= suspects /\ \A j \in 0..(k - 1) : 2 ^ j < suspects

(* startState: the whole list is suspect, what is installed is to be restored. *)
StartState ==
    Settle([lo |-> 1, hi |-> N, current |-> 0, skipped |-> {}, outcome |-> "none",
            restore |-> installed])

-----------------------------------------------------------------------------
(* The commands.                                                           *)

(* After a move the next candidate is installed, unless the search is done. *)
MovedTo(s) ==
    /\ search' = s
    /\ command' = IF s.outcome = "open" THEN "install" ELSE "none"

(* A search that is under way, or not reset, is simply written over.       *)
Start ==
    /\ command = "none"
    /\ Len(starts) < MaxStarts
    /\ MovedTo(StartState)
    /\ misjudged' = {} /\ starts' = Append(starts, installed)
    /\ UNCHANGED <<break, installed>>

(* What a user finds out about the release that is installed.              *)
Truth == IF installed >= break THEN "bad" ELSE "good"

(* The verdict is about what is installed and is booked on the candidate.  *)
Judge(verdict) ==
    /\ command = "none"
    /\ search.outcome = "open"
    /\ verdict # "skip" => verdict = Truth /\ installed # Nothing
    /\ MovedTo(Applied(search, verdict))
    /\ misjudged' = misjudged \union {c \in {search.current} : verdict # "skip" /\ installed # c}
    /\ UNCHANGED <<break, installed, starts>>

Installs ==
    /\ command = "install" /\ command' = "none"
    /\ installed' = search.current
    /\ UNCHANGED <<break, search, misjudged, starts>>

(* A search that ended, or one given up, is reset: the release recorded at *)
(* its start is installed again, or the app removed; then the file goes.   *)
Reset ==
    /\ command = "none" /\ command' = "reset"
    /\ InSearch
    /\ UNCHANGED <<break, search, installed, misjudged, starts>>

Restored ==
    /\ command = "reset" /\ command' = "none"
    /\ installed' = search.restore
    /\ search' = NoSearch
    /\ misjudged' = {} /\ starts' = <<>>
    /\ UNCHANGED break

(* The job fails or its process is killed, a reset also between its        *)
(* install and the end of the file: the search stays as written.           *)
Fails ==
    /\ command # "none" /\ command' = "none"
    /\ installed' \in {installed} \union {r \in {search.restore} : command = "reset"}
    /\ UNCHANGED <<break, search, misjudged, starts>>

(* Another job of the app, from the window or an update policy: a release  *)
(* is installed, or the app removed.                                       *)
Elsewhere(r) ==
    /\ InSearch
    /\ installed' = r
    /\ UNCHANGED <<break, search, command, misjudged, starts>>

Next ==
    \/ Start \/ Installs \/ Reset \/ Restored \/ Fails
    \/ \E v \in Verdicts : Judge(v)
    \/ \E r \in 0..N : Elsewhere(r)

Spec == Init /\ [][Next]_vars

-----------------------------------------------------------------------------
(* Properties.                                                             *)

(* The break leaves the window through one verdict only, the one at the    *)
(* edge it left by, and only when that verdict was about another release   *)
(* than it was booked on: failed installs, installs beside the search,     *)
(* skips, kills and every other verdict, wrong ones too, do no harm        *)
(* (bisect.js:17: the window holds every release that could still be the   *)
(* first bad one).  And no verdict empties it.                             *)
WindowHoldsBreak ==
    InSearch => /\ search.lo <= search.hi
                /\ break < search.lo => search.lo - 1 \in misjudged
                /\ break > search.hi => search.hi \in misjudged

(* A search that names a release names the broken one, unless the verdict  *)
(* that ruled out all below it, or the one that called it bad, was about   *)
(* another release; and none ends with "every release tested good".        *)
AnswerIsRight ==
    /\ search.outcome # "all-good"
    /\ search.outcome = "first-bad" =>
          search.lo = break \/ {search.lo - 1, search.lo} \cap misjudged # {}

(* A command left to be given a verdict asks for a release that can still  *)
(* narrow the search and was not skipped, whatever verdicts came before.   *)
CandidateIsUseful ==
    search.outcome = "open" => search.current \in Testable(search)

(* The count of steps left that `status` prints is no guess: without skips *)
(* each verdict takes at least one off it.                                 *)
StepsLeftIsBound ==
    [][search.outcome = "open" /\ search'.skipped = {} /\ (search'.lo # search.lo \/ search'.hi # search.hi)
          /\ ~Start /\ ~Restored
          => StepsLeft(search') < StepsLeft(search)]_vars

(* A reset leaves what was installed when the search it ends was started,  *)
(* through every verdict, kill, failed reset and install since: what was   *)
(* there before the first start, when none was started over another, and   *)
(* else what the app had come to by the last one.                          *)
ResetPutsBack == [][Restored => installed' = starts[Len(starts)]]_vars
=============================================================================
