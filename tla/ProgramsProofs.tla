----------------------------- MODULE ProgramsProofs -----------------------------
(***************************************************************************)
(* What holds of the programs a hub has launched and of the apps on its    *)
(* bus, for any number of them.                                            *)
(***************************************************************************)
EXTENDS MCPrograms, FiniteSetTheorems, SequenceTheorems, WellFoundedInduction, TLAPS

-----------------------------------------------------------------------------
(* Launches, exits and restarts (Watchdog).                                *)

Alive   == {c \in Copies : copy[c] # None}
Pending == {p \in Programs : timer[p] # None}

\* A process that is watched, or that has not started yet, is known by its version.
Known(k) == /\ (k.phase # "up" \/ k.watched) => k.ver \in Versions
            /\ k.phase \in Starting => ~k.watched

\* The restarts of a program, the oldest first, all of them in the budget.
InOrder(ages) == \A i, j \in DOMAIN ages : i <= j => ages[j] <= ages[i]
Budgeted(ages) == ages \in Seq(0..WindowMs) /\ InOrder(ages) /\ Len(ages) <= MaxRestarts

\* A pending restart nothing else bears upon: no copy is about, and a goodbye came
\* in the tick of the exit or since.
Undisturbed(p) ==
  timer[p] # None /\ ~timer[p].shared =>
    /\ CopiesOf(p) = {} /\ lastExit[p] # "final"
    /\ timer[p].left <= timer[p].delay
    /\ lastExit[p] \in {"clean", "polite"} => timer[p].clean
    /\ lastExit[p] = "polite" => left[AppOf[p]] <= timer[p].delay - timer[p].left

WatchInv ==
  /\ TypeOK
  /\ \A c \in Copies : copy[c] # None => Known(copy[c])
  /\ recent = restarts /\ \A p \in Programs : Budgeted(restarts[p])
  /\ IsFiniteSet(Pending) /\ NoMultiplying
  /\ \A p \in Programs : Undisturbed(p)

-----------------------------------------------------------------------------
(* Counting.                                                               *)

LEMMA AliveIsFinite == IsFiniteSet(Alive) /\ Cardinality(Alive) \in Nat
BY WatchdogAssumption, FS_Subset, FS_CardinalityType DEF Alive

\* With nothing launched, counts go down.
LEMMA NoMore ==
  ASSUME WatchInv, Alive' \subseteq Alive, Pending' \subseteq Pending, launches' = launches
  PROVE  IsFiniteSet(Pending)' /\ NoMultiplying'
<1>1. /\ IsFiniteSet(Alive') /\ Cardinality(Alive') <= Cardinality(Alive)
      /\ IsFiniteSet(Pending') /\ Cardinality(Pending') <= Cardinality(Pending)
  BY AliveIsFinite, FS_Subset DEF WatchInv
<1>2. /\ Cardinality(Alive) \in Nat /\ Cardinality(Alive') \in Nat
      /\ Cardinality(Pending) \in Nat /\ Cardinality(Pending') \in Nat
  BY <1>1, AliveIsFinite, FS_CardinalityType DEF WatchInv
<1>3. launches \in Nat
  BY WatchdogAssumption, FS_CardinalityType DEF WatchInv, TypeOK
<1>4. Cardinality(Alive) + Cardinality(Pending) <= launches
  BY DEF WatchInv, NoMultiplying, Alive, Pending
<1>5. Cardinality(Alive') + Cardinality(Pending') <= launches'
  BY <1>1, <1>2, <1>3, <1>4
<1> QED
  BY <1>1, <1>5 DEF NoMultiplying, Alive, Pending

\* A copy stands for something that stood for it: a launch or a pending restart.
LEMMA OneMore ==
  ASSUME WatchInv, NEW c \in Copies, copy[c] = None, Alive' = Alive \cup {c},
         \/ Pending' = Pending /\ launches' = launches + 1
         \/ \E p \in Pending : Pending' = Pending \ {p} /\ launches' = launches
  PROVE  IsFiniteSet(Pending)' /\ NoMultiplying'
<1>1. IsFiniteSet(Alive') /\ Cardinality(Alive') = Cardinality(Alive) + 1
  BY AliveIsFinite, FS_AddElement DEF Alive
<1>2. launches \in Nat /\ Cardinality(Alive) \in Nat /\ Cardinality(Pending) \in Nat
  BY WatchdogAssumption, AliveIsFinite, FS_CardinalityType DEF WatchInv, TypeOK
<1>3. Cardinality(Alive) + Cardinality(Pending) <= launches
  BY DEF WatchInv, NoMultiplying, Alive, Pending
<1>4. /\ IsFiniteSet(Pending')
      /\ \/ Cardinality(Pending') = Cardinality(Pending) /\ launches' = launches + 1
         \/ Cardinality(Pending') = Cardinality(Pending) - 1 /\ launches' = launches
  BY FS_RemoveElement DEF WatchInv
<1>5. Cardinality(Alive') + Cardinality(Pending') <= launches'
  BY <1>1, <1>2, <1>3, <1>4
<1> QED
  BY <1>4, <1>5 DEF NoMultiplying, Alive, Pending

\* A copy that is gone makes room for a pending restart.
LEMMA InItsPlace ==
  ASSUME WatchInv, NEW c \in Alive, Alive' = Alive \ {c}, NEW p \in Programs,
         Pending' \subseteq Pending \cup {p}, launches' = launches
  PROVE  IsFiniteSet(Pending)' /\ NoMultiplying'
<1>1. IsFiniteSet(Alive') /\ Cardinality(Alive') = Cardinality(Alive) - 1
  BY AliveIsFinite, FS_RemoveElement
<1>2. launches \in Nat /\ Cardinality(Alive) \in Nat /\ Cardinality(Pending) \in Nat
  BY WatchdogAssumption, AliveIsFinite, FS_CardinalityType DEF WatchInv, TypeOK
<1>3. Cardinality(Alive) + Cardinality(Pending) <= launches
  BY DEF WatchInv, NoMultiplying, Alive, Pending
<1>4. /\ IsFiniteSet(Pending \cup {p})
      /\ Cardinality(Pending \cup {p}) \in {Cardinality(Pending), Cardinality(Pending) + 1}
  BY FS_AddElement DEF WatchInv
<1>5. IsFiniteSet(Pending') /\ Cardinality(Pending') <= Cardinality(Pending \cup {p})
  BY <1>4, FS_Subset
<1>6. Cardinality(Pending') \in Nat
  BY <1>5, FS_CardinalityType
<1>7. Cardinality(Alive') + Cardinality(Pending') <= launches'
  BY <1>1, <1>2, <1>3, <1>4, <1>5, <1>6
<1> QED
  BY <1>5, <1>7 DEF NoMultiplying, Alive, Pending

\* While a launch or a restart is to come there is a copy that is free.
LEMMA FreeIsFree ==
  ASSUME WatchInv, launches < Cardinality(Copies) \/ Pending # {}
  PROVE  Free \in Copies /\ copy[Free] = None
<1>1. /\ launches \in Nat /\ launches <= Cardinality(Copies) /\ Cardinality(Copies) \in Nat
      /\ Cardinality(Alive) \in Nat /\ Cardinality(Pending) \in Nat
  BY WatchdogAssumption, AliveIsFinite, FS_CardinalityType DEF WatchInv, TypeOK
<1>2. Cardinality(Alive) + Cardinality(Pending) <= launches
  BY DEF WatchInv, NoMultiplying, Alive, Pending
<1>3. Pending # {} => Cardinality(Pending) # 0
  BY FS_EmptySet DEF WatchInv
<1>4. Cardinality(Alive) # Cardinality(Copies)
  BY <1>1, <1>2, <1>3
<1>5. \E c \in Copies : copy[c] = None
  BY <1>4 DEF Alive
<1> QED
  BY <1>5 DEF Free

-----------------------------------------------------------------------------
(* The ages of restarts.                                                   *)

\* A nonempty set of naturals has a least element.
LEMMA LeastNatural ==
  ASSUME NEW T, T \subseteq Nat, T # {}
  PROVE  \E x \in T : \A y \in T : x <= y
<1>1. PICK x \in T : \A y \in T : ~(<<y, x>> \in OpToRel(<, Nat))
  BY NatLessThanWellFounded, WFMin
<1>2. \A y \in T : ~(y < x)
  BY <1>1 DEF OpToRel
<1> QED
  BY <1>2

LEMMA Figures == /\ WindowMs \in Nat /\ MaxRestarts \in Nat /\ HealthyMs \in Nat
                 /\ StopMs \in Nat /\ ByeMs \in Nat /\ CrashLimit \in Nat \ {0}
BY WatchdogAssumption

LEMMA BudgetedMeans ==
  ASSUME NEW ages, Budgeted(ages)
  PROVE  /\ Len(ages) \in Nat /\ Len(ages) <= MaxRestarts /\ DOMAIN ages = 1..Len(ages)
         /\ \A i \in 1..Len(ages) : ages[i] \in 0..WindowMs
         /\ \A i, j \in 1..Len(ages) : i <= j => ages[j] <= ages[i]
<1>1. ages \in Seq(0..WindowMs)
  BY DEF Budgeted
<1>2. Len(ages) \in Nat /\ DOMAIN ages = 1..Len(ages)
  BY <1>1
<1>3. \A i \in 1..Len(ages) : ages[i] \in 0..WindowMs
  BY <1>1, ElementOfSeq
<1> QED
  BY <1>2, <1>3 DEF Budgeted, InOrder

\* Restarts that are out of the window are the first ones.
LEMMA OldOnesFirst ==
  ASSUME NEW ages, Budgeted(ages)
  PROVE  \E m \in 0..Len(ages) : {i \in DOMAIN ages : ages[i] >= WindowMs} = 1..m
<1> DEFINE out == {i \in DOMAIN ages : ages[i] >= WindowMs}
           N   == Len(ages)
           T   == {i \in 1..(N + 1) : i \notin out}
<1>1. /\ WindowMs \in Nat /\ N \in Nat /\ DOMAIN ages = 1..N
      /\ \A i \in 1..N : ages[i] \in 0..WindowMs
      /\ \A i, j \in 1..N : i <= j => ages[j] <= ages[i]
  BY Figures, BudgetedMeans
<1>2. N + 1 \in T /\ T \subseteq Nat
  BY <1>1
<1>3. PICK x \in T : \A y \in T : x <= y
  <2> HIDE DEF T
  <2> QED
    BY <1>2, LeastNatural
<1>4. x \in 1..(N + 1) /\ x \notin out /\ \A y \in 1..(N + 1) : y < x => y \in out
  BY <1>1, <1>3
<1>5. \A y \in 1..N : y >= x => y \notin out
  BY <1>1, <1>4
<1>6. out = 1..(x - 1) /\ x - 1 \in 0..N
  BY <1>1, <1>4, <1>5
<1> QED
  BY <1>6

LEMMA RecentStays ==
  ASSUME NEW ages, Budgeted(ages)
  PROVE  Budgeted(Aged(ages))
<1> DEFINE N == Len(ages)
<1>1. /\ WindowMs \in Nat /\ MaxRestarts \in Nat /\ N \in Nat /\ N <= MaxRestarts
      /\ DOMAIN ages = 1..N
      /\ \A i \in 1..N : ages[i] \in 0..WindowMs
      /\ \A i, j \in 1..N : i <= j => ages[j] <= ages[i]
  BY Figures, BudgetedMeans
<1>2. PICK m \in 0..N : {i \in DOMAIN ages : ages[i] >= WindowMs} = 1..m
  BY OldOnesFirst
<1>3. Cardinality(1..m) = m
  <2>1. 1 \in Int /\ m \in Int
    OBVIOUS
  <2>2. Cardinality(1..m) = IF 1 > m THEN 0 ELSE m - 1 + 1
    BY <2>1, FS_Interval, Zenon
  <2> QED
    BY <2>2
<1>4. Aged(ages) = [i \in 1..(N - m) |-> ages[i + m] + 1]
  BY <1>2, <1>3 DEF Aged, Recent
<1>5. \A i \in 1..(N - m) : i + m \in 1..N /\ ages[i + m] + 1 \in 0..WindowMs
  <2>1. ASSUME NEW i \in 1..(N - m) PROVE i + m \in 1..N /\ ages[i + m] + 1 \in 0..WindowMs
    <3>1. i + m \in 1..N /\ i + m \notin 1..m
      BY <1>1
    <3>2. ~(ages[i + m] >= WindowMs)
      BY <1>1, <1>2, <3>1
    <3> QED
      BY <1>1, <3>1, <3>2
  <2> QED
    BY <2>1
<1>6. N - m \in Nat /\ N - m <= N
  BY <1>1
<1> DEFINE new == [i \in 1..(N - m) |-> ages[i + m] + 1]
<1>7. new \in Seq(0..WindowMs) /\ Len(new) = N - m
  <2>1. PICK n \in Nat : n = N - m
    BY <1>6
  <2>2. new \in [1..n -> 0..WindowMs]
    BY <1>5, <2>1
  <2> HIDE DEF new
  <2>3. new \in Seq(0..WindowMs)
    BY <2>2, SeqDef
  <2>4. DOMAIN new = 1..n
    BY <2>2
  <2> QED
    BY <2>1, <2>3, <2>4
<1>8. InOrder(new)
  BY <1>1, <1>5 DEF InOrder
<1> HIDE DEF new
<1> QED
  BY <1>1, <1>4, <1>6, <1>7, <1>8 DEF Budgeted, new

\* A restart while the budget is not used up.
LEMMA OneRestartMore ==
  ASSUME NEW ages, Budgeted(ages), Len(ages) < MaxRestarts
  PROVE  Budgeted(Append(ages, 0))
<1> DEFINE new == Append(ages, 0)
<1>1. /\ MaxRestarts \in Nat /\ Len(ages) \in Nat /\ DOMAIN ages = 1..Len(ages) /\ 0 \in 0..WindowMs
      /\ \A i \in 1..Len(ages) : ages[i] \in 0..WindowMs
      /\ \A i, j \in 1..Len(ages) : i <= j => ages[j] <= ages[i]
  BY Figures, BudgetedMeans
<1>2. ages \in Seq(0..WindowMs)
  BY DEF Budgeted
<1>3. /\ new \in Seq(0..WindowMs) /\ Len(new) = Len(ages) + 1 /\ DOMAIN new = 1..Len(new)
      /\ \A i \in 1..Len(ages) : new[i] = ages[i]
      /\ new[Len(ages) + 1] = 0
  BY <1>1, <1>2
<1>4. InOrder(new)
  BY <1>1, <1>3 DEF InOrder
<1> QED
  BY <1>1, <1>3, <1>4 DEF Budgeted

-----------------------------------------------------------------------------
(* The steps.                                                              *)

CopiesKnown == \A c \in Copies : copy[c] # None => Known(copy[c])
Budget      == recent = restarts /\ \A p \in Programs : Budgeted(restarts[p])
Counts      == IsFiniteSet(Pending) /\ NoMultiplying

LEMMA Parts ==
  WatchInv <=> TypeOK /\ CopiesKnown /\ Budget /\ Counts /\ \A p \in Programs : Undisturbed(p)
BY DEF WatchInv, CopiesKnown, Budget, Counts

LEMMA WatchInit == ASSUME Init PROVE WatchInv
<1>1. TypeOK
  <2>1. \A p \in Programs : restarts[p] = <<>> /\ recent[p] = <<>>
    BY DEF Init
  <2>2. Cardinality(Copies) \in Nat /\ Len(Backoff) \in Nat
    BY WatchdogAssumption, FS_CardinalityType
  <2> QED
    BY <2>1, <2>2, Figures DEF Init, TypeOK
<1>2. CopiesKnown /\ \A p \in Programs : Undisturbed(p)
  BY DEF Init, CopiesKnown, Undisturbed
<1>3. Budget
  BY Figures DEF Init, Budget, Budgeted, InOrder
<1>4. Counts
  <2>1. Alive = {} /\ Pending = {} /\ launches = 0
    BY DEF Init, Alive, Pending
  <2> QED
    BY <2>1, FS_EmptySet DEF Counts, NoMultiplying, Alive, Pending
<1> QED
  BY <1>1, <1>2, <1>3, <1>4, Parts

\* What a launch does to the table of copies.
LEMMA BeginLaunchEffect ==
  ASSUME WatchInv, NEW p \in Programs, NEW how \in Starting, Free \in Copies, copy[Free] = None,
         BeginLaunch(p, how)
  PROVE  /\ copy' \in [Copies -> Copy \cup {None}] /\ CopiesKnown'
         /\ Alive' = Alive \cup {Free}
         /\ \A q \in Programs : q # p => CopiesOf(q)' = CopiesOf(q)
<1> DEFINE new == [prog |-> p, ver |-> installed[p], phase |-> how, watched |-> FALSE, up |-> 0]
<1>1. new \in Copy /\ Known(new) /\ new.prog = p
  BY Figures DEF WatchInv, TypeOK, Copy, Known, Starting
<1>2. copy' = [copy EXCEPT ![Free] = new]
  BY DEF BeginLaunch
<1>3. new # None
  BY <1>1, WatchdogAssumption
<1> HIDE DEF new
<1>4. copy' \in [Copies -> Copy \cup {None}]
  BY <1>1, <1>2 DEF WatchInv, TypeOK
<1>5. copy'[Free] = new /\ \A c \in Copies \ {Free} : copy'[c] = copy[c]
  BY <1>2 DEF WatchInv, TypeOK
<1> QED
  BY <1>1, <1>3, <1>4, <1>5 DEF WatchInv, CopiesKnown, Alive, CopiesOf

LEMMA UserLaunchKeeps == ASSUME WatchInv, NEW p \in Programs, UserLaunch(p) PROVE WatchInv'
<1>1. Free \in Copies /\ copy[Free] = None
  BY FreeIsFree DEF UserLaunch
<1>2. BeginLaunch(p, "launching")
  BY DEF UserLaunch
<1>3. /\ copy' \in [Copies -> Copy \cup {None}] /\ CopiesKnown'
      /\ Alive' = Alive \cup {Free}
      /\ \A q \in Programs : q # p => CopiesOf(q)' = CopiesOf(q)
  BY <1>1, <1>2, BeginLaunchEffect DEF Starting
<1>4. /\ timer' \in [Programs -> Timer \cup {None}]
      /\ timer[p] = None => timer'[p] = None
      /\ timer[p] # None => timer'[p] # None /\ timer'[p].shared
      /\ \A q \in Programs : q # p => timer'[q] = timer[q]
  <2>1. timer[p] # None => [timer[p] EXCEPT !.shared = TRUE] \in Timer
    BY DEF WatchInv, TypeOK, Timer
  <2>2. timer[p] # None => [timer[p] EXCEPT !.shared = TRUE] # None
    BY <2>1, WatchdogAssumption
  <2>3. timer' = [timer EXCEPT ![p] = IF timer[p] = None THEN None
                                      ELSE [timer[p] EXCEPT !.shared = TRUE]]
    BY DEF UserLaunch
  <2>4. timer[p] # None => [timer[p] EXCEPT !.shared = TRUE].shared
    BY DEF WatchInv, TypeOK, Timer
  <2> QED
    BY <2>1, <2>2, <2>3, <2>4 DEF WatchInv, TypeOK
<1>5. /\ launches < Cardinality(Copies) /\ launches' = launches + 1
      /\ UNCHANGED <<installed, crashes, stopPid, stopApp, worldVars, attempt, restarts,
                     recent, lastExit, owed>>
  BY DEF UserLaunch
<1>6. launches' \in 0..Cardinality(Copies)
  BY <1>5, WatchdogAssumption, FS_CardinalityType DEF WatchInv, TypeOK
<1>7. TypeOK'
  BY <1>3, <1>4, <1>5, <1>6 DEF WatchInv, TypeOK, worldVars
<1>8. Budget'
  BY <1>5 DEF WatchInv, Budget
<1>9. Counts'
  <2>1. Pending' = Pending
    BY <1>4 DEF Pending
  <2> QED
    BY <1>1, <1>3, <1>5, <2>1, OneMore DEF Counts
<1>10. ASSUME NEW q \in Programs PROVE Undisturbed(q)'
  <2>1. CASE q = p
    BY <1>4, <2>1 DEF Undisturbed
  <2>2. CASE q # p
    <3>1. /\ Undisturbed(q) /\ CopiesOf(q)' = CopiesOf(q) /\ timer'[q] = timer[q]
          /\ lastExit' = lastExit /\ left' = left
      BY <1>3, <1>4, <1>5, <2>2 DEF WatchInv, worldVars
    <3> QED
      BY <3>1 DEF Undisturbed
  <2> QED
    BY <2>1, <2>2
<1> QED
  BY <1>3, <1>7, <1>8, <1>9, <1>10 DEF WatchInv, CopiesKnown, Budget, Counts

\* What a process that is replaced or forgotten in the table changes.
LEMMA CopyEffect ==
  ASSUME WatchInv, NEW c \in Copies, copy[c] # None, NEW k \in Copy \cup {None},
         copy' = [copy EXCEPT ![c] = k], k # None => Known(k) /\ k.prog = copy[c].prog
  PROVE  /\ copy' \in [Copies -> Copy \cup {None}] /\ CopiesKnown'
         /\ Alive' \subseteq Alive
         /\ \A q \in Programs : CopiesOf(q)' \subseteq CopiesOf(q)
         /\ copy'[c] = k /\ \A d \in Copies \ {c} : copy'[d] = copy[d]
<1>1. copy \in [Copies -> Copy \cup {None}]
  BY DEF WatchInv, TypeOK
<1>2. copy' \in [Copies -> Copy \cup {None}]
  BY <1>1
<1>3. copy'[c] = k /\ \A d \in Copies \ {c} : copy'[d] = copy[d]
  BY <1>1
<1> QED
  BY <1>2, <1>3 DEF WatchInv, CopiesKnown, Alive, CopiesOf

LEMMA UnwatchedIsKnown ==
  ASSUME NEW k \in Copy
  PROVE  Unwatched(k) \in Copy /\ Known(Unwatched(k)) /\ Unwatched(k).prog = k.prog
<1>1. 0 \in 0..HealthyMs
  BY Figures
<1>2. Unwatched(k) \in Copy
  BY <1>1 DEF Unwatched, Copy
<1>3. Unwatched(k).phase = "up" /\ ~Unwatched(k).watched /\ Unwatched(k).prog = k.prog
  BY DEF Unwatched, Copy
<1> QED
  BY <1>2, <1>3 DEF Known, Starting

\* With no copy more, no exit noticed and no time passed, restarts stay undisturbed.
LEMMA StayUndisturbed ==
  ASSUME WatchInv, \A p \in Programs : CopiesOf(p)' \subseteq CopiesOf(p),
         \A p \in Programs : timer'[p] \in {timer[p], None}, lastExit' = lastExit, left' = left
  PROVE  \A p \in Programs : Undisturbed(p)'
<1>1. ASSUME NEW p \in Programs PROVE Undisturbed(p)'
  <2>1. Undisturbed(p) /\ CopiesOf(p)' \subseteq CopiesOf(p)
    BY DEF WatchInv
  <2>2. CASE timer'[p] = None
    BY <2>2 DEF Undisturbed
  <2>3. CASE timer'[p] = timer[p]
    BY <2>1, <2>3 DEF Undisturbed
  <2> QED
    BY <2>2, <2>3
<1> QED
  BY <1>1

LEMMA LaunchedKeeps == ASSUME WatchInv, NEW c \in Copies, Launched(c) PROVE WatchInv'
<1> DEFINE k == [copy[c] EXCEPT !.phase = "up", !.watched = TRUE]
<1>1. /\ copy[c] # None /\ copy[c] \in Copy /\ copy[c].phase \in Starting /\ ~copy[c].watched
      /\ copy[c].ver \in Versions
      /\ UNCHANGED <<installed, crashes, stopApp, worldVars, ladderVars, launches, recent,
                     lastExit>>
      /\ owed' \subseteq Programs
      /\ stopPid' \in [Copies -> 0..(StopMs + 1)]
  BY Figures DEF Launched, WatchInv, TypeOK, Known, Starting
<1>2. k \in Copy /\ k # None /\ Known(k) /\ k.prog = copy[c].prog
  BY <1>1, WatchdogAssumption DEF Copy, Known, Starting
<1>3. /\ copy' \in [Copies -> Copy \cup {None}] /\ CopiesKnown'
      /\ Alive' \subseteq Alive
      /\ \A q \in Programs : CopiesOf(q)' \subseteq CopiesOf(q)
  <2>1. CASE copy' = [copy EXCEPT ![c] = Unwatched(copy[c])]
    BY <1>1, <2>1, UnwatchedIsKnown, CopyEffect
  <2>2. CASE copy' = [copy EXCEPT ![c] = k]
    <3> HIDE DEF k
    <3> QED
      BY <1>1, <1>2, <2>2, CopyEffect
  <2>3. CASE \E d \in Oldest : copy' = [[copy EXCEPT ![c] = k] EXCEPT ![d] =
                                 IF @.phase = "gone" THEN None ELSE Unwatched(@)]
    <3>1. PICK d \in Oldest : copy' = [[copy EXCEPT ![c] = k] EXCEPT ![d] =
                                 IF @.phase = "gone" THEN None ELSE Unwatched(@)]
      BY <2>3
    <3>2. d \in Copies /\ copy[d] # None /\ copy[d].watched /\ d # c /\ copy[d] \in Copy
      BY <1>1 DEF Oldest, Tracked, WatchInv, TypeOK
    <3> DEFINE l == IF copy[d].phase = "gone" THEN None ELSE Unwatched(copy[d])
    <3>3. l = None \/ (l \in Copy /\ Known(l) /\ l.prog = copy[d].prog)
      BY <3>2, UnwatchedIsKnown
    <3> HIDE DEF k
    <3>4. copy' = [[copy EXCEPT ![c] = k] EXCEPT ![d] = l]
      BY <3>1, <3>2 DEF WatchInv, TypeOK
    <3> HIDE DEF l
    <3>5. copy \in [Copies -> Copy \cup {None}]
      BY DEF WatchInv, TypeOK
    <3>6. /\ copy' \in [Copies -> Copy \cup {None}] /\ copy'[c] = k /\ copy'[d] = l
          /\ \A e \in Copies \ {c, d} : copy'[e] = copy[e]
      BY <1>2, <3>2, <3>3, <3>4, <3>5
    <3> QED
      BY <1>1, <1>2, <3>2, <3>3, <3>6 DEF WatchInv, CopiesKnown, Alive, CopiesOf
  <2>4. [copy EXCEPT ![c].phase = "up", ![c].watched = TRUE] = [copy EXCEPT ![c] = k]
    BY <1>1 DEF WatchInv, TypeOK
  <2>5. \/ copy' = [copy EXCEPT ![c] = Unwatched(copy[c])]
        \/ copy' = [copy EXCEPT ![c].phase = "up", ![c].watched = TRUE]
        \/ \E d \in Oldest :
             copy' = [[copy EXCEPT ![c].phase = "up", ![c].watched = TRUE] EXCEPT ![d] =
                       IF @.phase = "gone" THEN None ELSE Unwatched(@)]
    BY <1>1 DEF Launched, WatchInv, TypeOK
  <2> HIDE DEF k
  <2> QED
    BY <2>1, <2>2, <2>3, <2>4, <2>5
<1>4. TypeOK'
  BY <1>1, <1>3 DEF WatchInv, TypeOK, worldVars, ladderVars
<1>5. Budget'
  BY <1>1 DEF WatchInv, Budget, ladderVars
<1>6. Counts'
  <2>1. Pending' = Pending /\ launches' = launches
    BY <1>1 DEF Pending, ladderVars
  <2> QED
    BY <1>3, <2>1, NoMore DEF Counts
<1>7. \A p \in Programs : Undisturbed(p)'
  BY <1>1, <1>3, StayUndisturbed DEF worldVars, ladderVars
<1> QED
  BY <1>3, <1>4, <1>5, <1>6, <1>7 DEF WatchInv, CopiesKnown, Budget, Counts

LEMMA LaunchFailsKeeps == ASSUME WatchInv, NEW c \in Copies, LaunchFails(c) PROVE WatchInv'
<1>1. /\ copy[c] # None /\ copy' = [copy EXCEPT ![c] = None] /\ copy[c].prog \in Programs
      /\ timer' = timer \/ timer' = [timer EXCEPT ![copy[c].prog] = None]
      /\ UNCHANGED <<installed, crashes, stopPid, stopApp, worldVars, attempt, restarts,
                     launches, recent, lastExit>>
      /\ owed' \subseteq owed
  BY DEF LaunchFails, WatchInv, TypeOK, Copy
<1>2. /\ copy' \in [Copies -> Copy \cup {None}] /\ CopiesKnown'
      /\ Alive' \subseteq Alive
      /\ \A q \in Programs : CopiesOf(q)' \subseteq CopiesOf(q)
  BY <1>1, CopyEffect
<1>3. /\ timer' \in [Programs -> Timer \cup {None}]
      /\ \A p \in Programs : timer'[p] \in {timer[p], None}
  BY <1>1 DEF WatchInv, TypeOK
<1>4. TypeOK'
  BY <1>1, <1>2, <1>3 DEF WatchInv, TypeOK, worldVars
<1>5. Budget'
  BY <1>1 DEF WatchInv, Budget
<1>6. Counts'
  <2>1. Pending' \subseteq Pending /\ launches' = launches
    BY <1>1, <1>3 DEF Pending
  <2> QED
    BY <1>2, <2>1, NoMore DEF Counts
<1>7. \A p \in Programs : Undisturbed(p)'
  BY <1>1, <1>2, <1>3, StayUndisturbed DEF worldVars
<1> QED
  BY <1>2, <1>4, <1>5, <1>6, <1>7 DEF WatchInv, CopiesKnown, Budget, Counts

LEMMA StopsKeep == ASSUME WatchInv, NEW c \in Copies, StopApp(c) \/ StopPid(c) PROVE WatchInv'
<1>1. UNCHANGED <<copy, installed, crashes, worldVars, ladderVars, historyVars>>
  BY DEF StopApp, StopPid
<1>2. stopPid' \in [Copies -> 0..(StopMs + 1)] /\ stopApp' \in [Apps -> 0..(StopMs + 1)]
  <2>1. 0 \in 0..(StopMs + 1)
    BY Figures
  <2>2. stopPid \in [Copies -> 0..(StopMs + 1)] /\ stopApp \in [Apps -> 0..(StopMs + 1)]
    BY DEF WatchInv, TypeOK
  <2>3. /\ stopPid' = [stopPid EXCEPT ![c] = 0]
        /\ \/ stopApp' = stopApp
           \/ stopApp' = [stopApp EXCEPT ![AppOf[copy[c].prog]] = 0]
    BY DEF StopApp, StopPid
  <2> QED
    BY <2>1, <2>2, <2>3
<1>3. TypeOK' /\ CopiesKnown' /\ Budget'
  BY <1>1, <1>2 DEF WatchInv, TypeOK, CopiesKnown, Budget, worldVars, ladderVars, historyVars
<1>4. Counts'
  <2>1. Alive' = Alive /\ Pending' = Pending /\ launches' = launches
    BY <1>1 DEF Alive, Pending, ladderVars, historyVars
  <2> QED
    BY <2>1, NoMore DEF Counts
<1>5. \A p \in Programs : Undisturbed(p)'
  <2>1. \A p \in Programs : CopiesOf(p)' = CopiesOf(p)
    BY <1>1 DEF CopiesOf
  <2> QED
    BY <1>1, <2>1, StayUndisturbed DEF worldVars, ladderVars, historyVars
<1> QED
  BY <1>3, <1>4, <1>5 DEF WatchInv, CopiesKnown, Budget, Counts

LEMMA ExitKeeps == ASSUME WatchInv, NEW c \in Copies, Exit(c) PROVE WatchInv'
<1> DEFINE k == IF copy[c].watched THEN [copy[c] EXCEPT !.phase = "gone"] ELSE None
<1>1. /\ copy[c] # None /\ copy[c] \in Copy /\ Known(copy[c]) /\ copy' = [copy EXCEPT ![c] = k]
      /\ UNCHANGED <<installed, crashes, stopPid, stopApp, worldVars, ladderVars, historyVars>>
  BY DEF Exit, Up, WatchInv, TypeOK
<1>2. k \in Copy \cup {None} /\ (k # None => Known(k) /\ k.prog = copy[c].prog)
  BY <1>1 DEF Copy, Known, Starting
<1> HIDE DEF k
<1>3. /\ copy' \in [Copies -> Copy \cup {None}] /\ CopiesKnown'
      /\ Alive' \subseteq Alive
      /\ \A q \in Programs : CopiesOf(q)' \subseteq CopiesOf(q)
  BY <1>1, <1>2, CopyEffect
<1>4. TypeOK' /\ Budget'
  BY <1>1, <1>3 DEF WatchInv, TypeOK, Budget, worldVars, ladderVars, historyVars
<1>5. Counts'
  <2>1. Pending' = Pending /\ launches' = launches
    BY <1>1 DEF Pending, ladderVars, historyVars
  <2> QED
    BY <1>3, <2>1, NoMore DEF Counts
<1>6. \A p \in Programs : Undisturbed(p)'
  BY <1>1, <1>3, StayUndisturbed DEF worldVars, ladderVars, historyVars
<1> QED
  BY <1>3, <1>4, <1>5, <1>6 DEF WatchInv, CopiesKnown, Budget, Counts

\* An exit is noticed: the supervisor may set a restart in the place of the process.
LEMMA NoticeKeeps ==
  ASSUME WatchInv, NEW c \in Copies, NEW how \in Exits, Notice(c, how)
  PROVE  WatchInv'
<1>0. PICK p : p = copy[c].prog
  OBVIOUS
<1>1. /\ copy[c] # None /\ copy[c] \in Copy /\ p \in Programs /\ copy[c].ver \in Versions
      /\ c \in CopiesOf(p)
  BY <1>0 DEF Notice, Gone, WatchInv, TypeOK, Copy, Known, CopiesOf
<1>2. PICK tally : tally = Tally(copy[c], how)
  OBVIOUS
<1>3. tally \in Crash \cup {None}
  <2>1. crashes[p] \in Crash \cup {None}
    BY <1>1 DEF WatchInv, TypeOK
  <2>2. 1 \in 1..CrashLimit /\ CrashLimit \in 1..CrashLimit
    BY Figures
  <2>3. crashes[p] # None => crashes[p].count \in 1..CrashLimit
    BY <2>1 DEF Crash
  <2>4. crashes[p] # None /\ crashes[p].count < CrashLimit
          => crashes[p].count + 1 \in 1..CrashLimit
    BY <2>3, Figures
  <2>5. Counted(p, copy[c].ver) \in Crash
    BY <1>1, <2>2, <2>4 DEF Counted, Crash
  <2> QED
    BY <1>0, <1>2, <2>1, <2>5 DEF Tally
<1>4. /\ copy' = [copy EXCEPT ![c] = None]
      /\ stopPid' = [stopPid EXCEPT ![c] = StopMs + 1]
      /\ crashes' = [crashes EXCEPT ![p] = tally]
      /\ attempt' = [attempt EXCEPT ![p] = IF Healthy(copy[c]) THEN 0 ELSE attempt[p]]
      /\ restarts' = restarts
      /\ lastExit' = [lastExit EXCEPT ![p] = Was(c, how, tally)]
      /\ UNCHANGED <<installed, stopApp, worldVars, launches, recent>>
  BY <1>0, <1>1, <1>2 DEF Notice, HealthyRun, WatchInv, TypeOK
<1>5. \/ timer' = timer /\ owed' = owed
      \/ timer' = [timer EXCEPT ![p] = None] /\ owed' = owed \ {p}
      \/ /\ ~Stopped(c, how) /\ ~Loop(copy[c], tally) /\ ~SaidBye(p, how = "clean")
         /\ timer' = [timer EXCEPT ![p] = [left |-> Delay(attempt'[p]), clean |-> how = "clean",
                        delay |-> Delay(attempt'[p]), shared |-> CopiesOf(p) # {c}]]
         /\ owed' = owed \cup {p}
  BY <1>0, <1>2 DEF Notice, Schedule, GiveUp
<1>6. /\ copy' \in [Copies -> Copy \cup {None}] /\ CopiesKnown'
      /\ Alive' \subseteq Alive
      /\ \A q \in Programs : CopiesOf(q)' \subseteq CopiesOf(q)
      /\ copy'[c] = None /\ \A d \in Copies \ {c} : copy'[d] = copy[d]
  BY <1>0, <1>1, <1>4, CopyEffect
<1>7. attempt' \in [Programs -> 0..Len(Backoff)]
  <2>1. Len(Backoff) \in Nat
    BY WatchdogAssumption
  <2>2. attempt \in [Programs -> 0..Len(Backoff)] /\ 0 \in 0..Len(Backoff)
    BY <2>1 DEF WatchInv, TypeOK
  <2>3. attempt' = [attempt EXCEPT ![p] = 0] \/ attempt' = attempt
    BY <1>1, <1>4, <2>2
  <2> QED
    BY <2>2, <2>3
<1>8. Delay(attempt'[p]) \in Nat
  <2>1. Len(Backoff) \in Nat \ {0} /\ \A i \in 1..Len(Backoff) : Backoff[i] \in Nat
    BY WatchdogAssumption, ElementOfSeq, EmptySeq
  <2>2. attempt'[p] \in 0..Len(Backoff)
    BY <1>1, <1>7
  <2> QED
    BY <2>1, <2>2 DEF Delay
<1>9. PICK delay \in Nat : delay = Delay(attempt'[p])
  BY <1>8
<1>10. PICK clean \in BOOLEAN : clean = (how = "clean")
  OBVIOUS
<1>11. PICK others \in BOOLEAN : others = (CopiesOf(p) # {c})
  OBVIOUS
<1> DEFINE new == [left |-> delay, clean |-> clean, delay |-> delay, shared |-> others]
<1>12. new \in Timer /\ new # None
  BY WatchdogAssumption DEF Timer
<1>13. \/ timer' = timer
       \/ timer' = [timer EXCEPT ![p] = None]
       \/ /\ ~Stopped(c, how) /\ ~Loop(copy[c], tally) /\ ~SaidBye(p, how = "clean")
          /\ timer' = [timer EXCEPT ![p] = new]
  BY <1>5, <1>9, <1>10, <1>11
<1>14. /\ timer' \in [Programs -> Timer \cup {None}] /\ owed' \subseteq Programs
       /\ \A q \in Programs \ {p} : timer'[q] = timer[q]
       /\ \/ timer'[p] = timer[p] \/ timer'[p] = None
          \/ /\ ~Stopped(c, how) /\ ~Loop(copy[c], tally) /\ ~SaidBye(p, how = "clean")
             /\ timer'[p] = new
  <2> HIDE DEF new
  <2>1. timer' \in [Programs -> Timer \cup {None}]
    BY <1>12, <1>13 DEF WatchInv, TypeOK
  <2>2. owed' \subseteq Programs
    BY <1>1, <1>5 DEF WatchInv, TypeOK
  <2> QED
    BY <1>1, <1>12, <1>13, <2>1, <2>2 DEF WatchInv, TypeOK
<1>15. Was(c, how, tally) \in {"unexpected", "clean", "polite", "final"}
  BY DEF Was
<1>16. TypeOK'
  <2>1. stopPid' \in [Copies -> 0..(StopMs + 1)] /\ crashes' \in [Programs -> Crash \cup {None}]
    <3>1. StopMs + 1 \in 0..(StopMs + 1)
      BY Figures
    <3>2. stopPid \in [Copies -> 0..(StopMs + 1)] /\ crashes \in [Programs -> Crash \cup {None}]
      BY DEF WatchInv, TypeOK
    <3> QED
      BY <1>3, <1>4, <3>1, <3>2
  <2>2. lastExit' \in [Programs -> {"unexpected", "clean", "polite", "final"}]
    BY <1>4, <1>15 DEF WatchInv, TypeOK
  <2> QED
    BY <1>4, <1>6, <1>7, <1>14, <2>1, <2>2 DEF WatchInv, TypeOK, worldVars
<1>17. Budget'
  BY <1>4 DEF WatchInv, Budget
<1>18. Counts'
  <2>1. c \in Alive /\ Alive' = Alive \ {c}
    BY <1>1, <1>6, WatchdogAssumption DEF Alive
  <2>2. Pending' \subseteq Pending \cup {p}
    BY <1>14 DEF Pending
  <2> QED
    BY <1>1, <1>4, <2>1, <2>2, InItsPlace DEF Counts
<1>19. ASSUME NEW q \in Programs PROVE Undisturbed(q)'
  <2>1. CASE q # p
    <3>1. /\ Undisturbed(q) /\ timer'[q] = timer[q] /\ CopiesOf(q)' \subseteq CopiesOf(q)
          /\ lastExit'[q] = lastExit[q] /\ left' = left
      BY <1>4, <1>6, <1>14, <2>1 DEF WatchInv, TypeOK, worldVars
    <3> QED
      BY <3>1 DEF Undisturbed
  <2>2. CASE q = p /\ timer'[p] # new
    <3>1. timer'[p] # None /\ ~timer'[p].shared => Undisturbed(p) /\ timer[p] = timer'[p]
      BY <1>1, <1>14, <2>2 DEF WatchInv
    <3> QED
      BY <1>1, <2>2, <3>1 DEF Undisturbed
  <2>3. CASE q = p /\ timer'[p] = new /\ timer'[p] # timer[p]
    <3>1. ~Stopped(c, how) /\ ~Loop(copy[c], tally) /\ ~SaidBye(p, how = "clean")
      BY <1>12, <1>14, <2>3
    <3>2. /\ Was(c, how, tally) # "final" /\ Was(c, how, tally) # "polite"
          /\ Was(c, how, tally) = "clean" => clean
      BY <1>0, <1>10, <3>1 DEF Was, Stopped, SaidBye
    <3>3. lastExit'[p] = Was(c, how, tally)
      BY <1>1, <1>4 DEF WatchInv, TypeOK
    <3>4. ~others => CopiesOf(p)' = {}
      <4>1. ~others => CopiesOf(p) = {c}
        BY <1>11
      <4>2. c \notin CopiesOf(p)' /\ CopiesOf(p)' \subseteq CopiesOf(p)
        BY <1>1, <1>6 DEF CopiesOf
      <4> QED
        BY <4>1, <4>2
    <3>5. new.left = delay /\ new.delay = delay /\ new.clean = clean /\ new.shared = others
      OBVIOUS
    <3>6. delay <= delay
      BY <1>9
    <3> HIDE DEF new
    <3>7. /\ timer'[q].left = delay /\ timer'[q].delay = delay
          /\ timer'[q].clean = clean /\ timer'[q].shared = others
      BY <2>3, <3>5
    <3> QED
      BY <2>3, <3>2, <3>3, <3>4, <3>6, <3>7 DEF Undisturbed
  <2>4. CASE q = p /\ timer'[p] = new /\ timer'[p] = timer[p]
    <3>1. ~(timer[p] # None /\ ~timer[p].shared)
      BY <1>1 DEF WatchInv, Undisturbed
    <3> QED
      BY <2>4, <3>1 DEF Undisturbed
  <2> QED
    BY <2>1, <2>2, <2>3, <2>4
<1> QED
  BY <1>6, <1>16, <1>17, <1>18, <1>19 DEF WatchInv, CopiesKnown, Budget, Counts

LEMMA RelaunchKeeps == ASSUME WatchInv, NEW p \in Programs, Relaunch(p) PROVE WatchInv'
<1>1. /\ timer[p] # None /\ timer' = [timer EXCEPT ![p] = None]
      /\ UNCHANGED <<installed, crashes, stopPid, stopApp, worldVars, launches, lastExit>>
  BY DEF Relaunch
<1>2. /\ timer' \in [Programs -> Timer \cup {None}] /\ timer'[p] = None
      /\ \A q \in Programs \ {p} : timer'[q] = timer[q]
      /\ p \in Pending /\ Pending' = Pending \ {p}
  BY <1>1 DEF WatchInv, TypeOK, Pending
<1>3. CASE UNCHANGED <<copy, attempt, restarts, recent>> /\ owed' = owed \ {p}
  <2>1. TypeOK' /\ CopiesKnown' /\ Budget'
    BY <1>1, <1>2, <1>3 DEF WatchInv, TypeOK, CopiesKnown, Budget, worldVars
  <2>2. Counts'
    <3>1. Alive' \subseteq Alive /\ Pending' \subseteq Pending /\ launches' = launches
      BY <1>1, <1>2, <1>3 DEF Alive
    <3> QED
      BY <3>1, NoMore DEF Counts
  <2>3. \A q \in Programs : Undisturbed(q)'
    <3>1. \A q \in Programs : CopiesOf(q)' \subseteq CopiesOf(q)
      BY <1>3 DEF CopiesOf
    <3>2. lastExit' = lastExit /\ left' = left /\ \A q \in Programs : timer'[q] \in {timer[q], None}
      BY <1>1, <1>2 DEF worldVars
    <3> QED
      BY <3>1, <3>2, StayUndisturbed
  <2> QED
    BY <2>1, <2>2, <2>3 DEF WatchInv, CopiesKnown, Budget, Counts
<1>4. CASE /\ Len(restarts[p]) < MaxRestarts /\ BeginLaunch(p, "relaunching")
           /\ restarts' = [restarts EXCEPT ![p] = Append(@, 0)]
           /\ recent' = [recent EXCEPT ![p] = Append(@, 0)]
           /\ attempt' = [attempt EXCEPT ![p] = IF @ < Len(Backoff) THEN @ + 1 ELSE @]
           /\ UNCHANGED owed
  <2>1. Free \in Copies /\ copy[Free] = None
    BY <1>2, FreeIsFree
  <2>2. /\ copy' \in [Copies -> Copy \cup {None}] /\ CopiesKnown'
        /\ Alive' = Alive \cup {Free}
        /\ \A q \in Programs : q # p => CopiesOf(q)' = CopiesOf(q)
    BY <1>4, <2>1, BeginLaunchEffect DEF Starting
  <2>3. Budget'
    <3>1. Budgeted(Append(restarts[p], 0))
      BY <1>4, OneRestartMore DEF WatchInv
    <3>2. restarts \in [Programs -> Seq(0..WindowMs)] /\ recent = restarts
          /\ \A q \in Programs : Budgeted(restarts[q])
      BY DEF WatchInv, TypeOK
    <3>3. recent' = restarts' /\ \A q \in Programs : Budgeted(restarts'[q])
      BY <1>4, <3>1, <3>2
    <3> QED
      BY <3>3 DEF Budget, Budgeted, InOrder
  <2>4. attempt' \in [Programs -> 0..Len(Backoff)]
    <3>1. Len(Backoff) \in Nat /\ attempt \in [Programs -> 0..Len(Backoff)]
      BY WatchdogAssumption DEF WatchInv, TypeOK
    <3>2. attempt[p] < Len(Backoff) => attempt[p] + 1 \in 0..Len(Backoff)
      BY <3>1
    <3>3. \/ attempt' = attempt
          \/ /\ attempt[p] < Len(Backoff)
             /\ attempt' = [attempt EXCEPT ![p] = attempt[p] + 1]
      BY <1>4, <3>1
    <3> QED
      BY <3>1, <3>2, <3>3
  <2>5. restarts' \in [Programs -> Seq(0..WindowMs)] /\ recent' \in [Programs -> Seq(0..WindowMs)]
    <3>1. restarts \in [Programs -> Seq(0..WindowMs)] /\ recent = restarts /\ 0 \in 0..WindowMs
      BY Figures DEF WatchInv, TypeOK
    <3>2. Append(restarts[p], 0) \in Seq(0..WindowMs)
      BY <3>1
    <3> QED
      BY <1>4, <3>1, <3>2
  <2>6. TypeOK'
    BY <1>1, <1>2, <1>4, <2>2, <2>4, <2>5 DEF WatchInv, TypeOK, worldVars
  <2>7. Counts'
    BY <1>1, <1>2, <2>1, <2>2, OneMore DEF Counts
  <2>8. ASSUME NEW q \in Programs PROVE Undisturbed(q)'
    <3>1. CASE q = p
      BY <1>2, <3>1 DEF Undisturbed
    <3>2. CASE q # p
      <4>1. /\ Undisturbed(q) /\ CopiesOf(q)' = CopiesOf(q) /\ timer'[q] = timer[q]
            /\ lastExit' = lastExit /\ left' = left
        BY <1>1, <1>2, <2>2, <3>2 DEF WatchInv, worldVars
      <4> QED
        BY <4>1 DEF Undisturbed
    <3> QED
      BY <3>1, <3>2
  <2> QED
    BY <2>2, <2>3, <2>6, <2>7, <2>8 DEF WatchInv, CopiesKnown, Budget, Counts
<1> QED
  BY <1>3, <1>4 DEF Relaunch

LEMMA AroundKeeps ==
  ASSUME WatchInv, NEW a \in Apps, Toggle(a) \/ Join(a) \/ Leave(a)
  PROVE  WatchInv'
<1>1. UNCHANGED <<watchVars, ladderVars, launches, recent, owed>>
  BY DEF Toggle, Join, Leave, historyVars
<1>2. /\ keepAlive' \subseteq Apps /\ onBus' \subseteq Apps
      /\ \/ left' = left /\ lastExit' = lastExit
         \/ /\ left' = [left EXCEPT ![a] = 0]
            /\ lastExit' = [p \in Programs |-> IF AppOf[p] = a /\ lastExit[p] = "clean"
                                               THEN "polite" ELSE lastExit[p]]
  BY DEF Toggle, Join, Leave, historyVars, WatchInv, TypeOK
<1>3. /\ left' \in [Apps -> 0..(ByeMs + 1)]
      /\ lastExit' \in [Programs -> {"unexpected", "clean", "polite", "final"}]
  <2>1. left \in [Apps -> 0..(ByeMs + 1)] /\ 0 \in 0..(ByeMs + 1)
    BY Figures DEF WatchInv, TypeOK
  <2>2. lastExit \in [Programs -> {"unexpected", "clean", "polite", "final"}]
    BY DEF WatchInv, TypeOK
  <2>3. left' \in [Apps -> 0..(ByeMs + 1)]
    BY <1>2, <2>1
  <2>4. lastExit' \in [Programs -> {"unexpected", "clean", "polite", "final"}]
    BY <1>2, <2>2
  <2> QED
    BY <2>3, <2>4
<1>4. TypeOK' /\ CopiesKnown' /\ Budget'
  BY <1>1, <1>2, <1>3 DEF WatchInv, TypeOK, CopiesKnown, Budget, watchVars, ladderVars
<1>5. Counts'
  <2>1. Alive' \subseteq Alive /\ Pending' \subseteq Pending /\ launches' = launches
    BY <1>1 DEF Alive, Pending, watchVars, ladderVars
  <2> QED
    BY <2>1, NoMore DEF Counts
<1>6. ASSUME NEW q \in Programs PROVE Undisturbed(q)'
  <2>1. Undisturbed(q) /\ CopiesOf(q)' = CopiesOf(q) /\ timer' = timer
    BY <1>1 DEF WatchInv, CopiesOf, watchVars, ladderVars
  <2>2. AppOf[q] \in Apps /\ left \in [Apps -> 0..(ByeMs + 1)]
    BY WatchdogAssumption DEF WatchInv, TypeOK
  <2>3. \/ left'[AppOf[q]] = left[AppOf[q]] /\ lastExit'[q] = lastExit[q]
        \/ /\ left'[AppOf[q]] = 0
           /\ \/ lastExit'[q] = lastExit[q]
              \/ lastExit[q] = "clean" /\ lastExit'[q] = "polite"
    BY <1>2, <2>2
  <2>4. timer[q] # None /\ timer[q].left <= timer[q].delay => 0 <= timer[q].delay - timer[q].left
    BY DEF WatchInv, TypeOK, Timer
  <2> QED
    BY <2>1, <2>3, <2>4 DEF Undisturbed
<1> QED
  BY <1>4, <1>5, <1>6 DEF WatchInv, CopiesKnown, Budget, Counts

LEMMA ReplaceKeeps ==
  ASSUME WatchInv, NEW p \in Programs, NEW v \in Versions, Replace(p, v)
  PROVE  WatchInv'
<1>1. /\ UNCHANGED <<copy, stopPid, stopApp, worldVars, ladderVars, historyVars>>
      /\ installed' \in [Programs -> Versions] /\ crashes' \in [Programs -> Crash \cup {None}]
  BY DEF Replace, WatchInv, TypeOK
<1>2. TypeOK' /\ CopiesKnown' /\ Budget'
  BY <1>1 DEF WatchInv, TypeOK, CopiesKnown, Budget, worldVars, ladderVars, historyVars
<1>3. Counts'
  <2>1. Alive' \subseteq Alive /\ Pending' \subseteq Pending /\ launches' = launches
    BY <1>1 DEF Alive, Pending, ladderVars, historyVars
  <2> QED
    BY <2>1, NoMore DEF Counts
<1>4. \A q \in Programs : Undisturbed(q)'
  <2>1. \A q \in Programs : CopiesOf(q)' \subseteq CopiesOf(q)
    BY <1>1 DEF CopiesOf
  <2>2. lastExit' = lastExit /\ left' = left /\ \A q \in Programs : timer'[q] \in {timer[q], None}
    BY <1>1 DEF worldVars, ladderVars, historyVars
  <2> QED
    BY <2>1, <2>2, StayUndisturbed
<1> QED
  BY <1>2, <1>3, <1>4 DEF WatchInv, CopiesKnown, Budget, Counts

\* After a restart of the hub nothing is pending and what runs is unwatched.
LEMMA HubRestartsKeeps == ASSUME WatchInv, HubRestarts PROVE WatchInv'
<1>1. /\ \A p \in Programs : /\ restarts'[p] = <<>> /\ timer'[p] = None
                             /\ lastExit'[p] = "unexpected" /\ attempt'[p] = 0
      /\ restarts' = [p \in Programs |-> <<>>] /\ recent' = restarts'
      /\ timer' = [p \in Programs |-> None]
      /\ UNCHANGED <<installed, crashes, keepAlive, onBus, launches>>
  BY DEF HubRestarts
<1>2. PICK lost \in SUBSET {c \in Copies : ~Up(c)} :
        copy' = [c \in Copies |-> IF copy[c] = None \/ Gone(c) \/ c \in lost THEN None
                                  ELSE Unwatched(copy[c])]
  BY DEF HubRestarts
<1>3. /\ copy' \in [Copies -> Copy \cup {None}] /\ CopiesKnown'
      /\ Alive' \subseteq Alive
  <2>1. \A c \in Copies : copy[c] # None => /\ Unwatched(copy[c]) \in Copy
                                            /\ Known(Unwatched(copy[c]))
    BY UnwatchedIsKnown DEF WatchInv, TypeOK
  <2> QED
    BY <1>2, <2>1 DEF CopiesKnown, Alive
<1>4. TypeOK'
  <2>1. /\ stopPid' \in [Copies -> 0..(StopMs + 1)] /\ stopApp' \in [Apps -> 0..(StopMs + 1)]
        /\ left' \in [Apps -> 0..(ByeMs + 1)]
    BY Figures DEF HubRestarts
  <2>2. attempt' \in [Programs -> 0..Len(Backoff)]
    <3>1. Len(Backoff) \in Nat
      BY WatchdogAssumption
    <3> QED
      BY <3>1 DEF HubRestarts
  <2>3. /\ lastExit' \in [Programs -> {"unexpected", "clean", "polite", "final"}]
        /\ owed' \subseteq Programs
    BY DEF HubRestarts
  <2>4. restarts' \in [Programs -> Seq(0..WindowMs)] /\ recent' \in [Programs -> Seq(0..WindowMs)]
    BY <1>1
  <2> QED
    BY <1>1, <1>3, <2>1, <2>2, <2>3, <2>4 DEF WatchInv, TypeOK
<1>5. Budget'
  <2>1. Budgeted(<<>>)
    BY Figures DEF Budgeted, InOrder
  <2> QED
    BY <1>1, <2>1 DEF Budget, Budgeted, InOrder
<1>6. Counts'
  <2>1. Pending' \subseteq Pending /\ launches' = launches
    BY <1>1 DEF Pending
  <2> QED
    BY <1>3, <2>1, NoMore DEF Counts
<1>7. \A p \in Programs : Undisturbed(p)'
  BY <1>1 DEF Undisturbed
<1> QED
  BY <1>3, <1>4, <1>5, <1>6, <1>7 DEF WatchInv, CopiesKnown, Budget, Counts

\* A tick makes what is dated older and brings what is pending nearer.
LEMMA TickKeeps == ASSUME WatchInv, Tick PROVE WatchInv'
<1>1. /\ \A p \in Programs : timer[p] # None => timer[p].left > 0
      /\ copy' = [c \in Copies |-> IF c \in Tracked /\ copy[c].up < HealthyMs
                                   THEN [copy[c] EXCEPT !.up = @ + 1] ELSE copy[c]]
      /\ restarts' = [p \in Programs |-> Aged(restarts[p])]
      /\ recent' = [p \in Programs |-> Aged(recent[p])]
      /\ timer' = [p \in Programs |-> IF timer[p] = None THEN None
                                      ELSE [timer[p] EXCEPT !.left = @ - 1]]
      /\ UNCHANGED <<installed, crashes, keepAlive, onBus, attempt, launches, owed>>
  BY DEF Tick
<1>2. /\ copy' \in [Copies -> Copy \cup {None}] /\ CopiesKnown'
      /\ Alive' \subseteq Alive
      /\ \A q \in Programs : CopiesOf(q)' \subseteq CopiesOf(q)
  <2>1. ASSUME NEW c \in Copies, copy[c] # None
        PROVE  /\ copy'[c] \in Copy /\ copy'[c].prog = copy[c].prog /\ Known(copy'[c])
    <3>1. copy[c] \in Copy /\ Known(copy[c])
      BY <2>1 DEF WatchInv, TypeOK
    <3>2. CASE copy'[c] = copy[c]
      BY <3>1, <3>2
    <3>3. CASE copy[c].up < HealthyMs /\ copy'[c] = [copy[c] EXCEPT !.up = copy[c].up + 1]
      <4>1. copy[c].up + 1 \in 0..HealthyMs
        BY <3>1, <3>3, Figures DEF Copy
      <4> QED
        BY <3>1, <3>3, <4>1 DEF Copy, Known
    <3> QED
      BY <1>1, <3>1, <3>2, <3>3
  <2>2. \A c \in Copies : copy[c] = None => copy'[c] = None
    BY <1>1 DEF Tracked
  <2>3. copy' \in [Copies -> Copy \cup {None}]
    BY <1>1, <2>1, <2>2
  <2> QED
    BY <2>1, <2>2, <2>3 DEF CopiesKnown, Alive, CopiesOf
<1>3. ASSUME NEW p \in Programs, timer[p] # None
      PROVE  /\ timer'[p] \in Timer /\ timer'[p].left = timer[p].left - 1
             /\ timer'[p].clean = timer[p].clean /\ timer'[p].shared = timer[p].shared
             /\ timer'[p].delay = timer[p].delay
             /\ timer[p].left \in Nat \ {0} /\ timer[p].delay \in Nat
  <2>1. timer[p] \in Timer /\ timer[p].left > 0
    BY <1>1, <1>3 DEF WatchInv, TypeOK
  <2>2. timer[p].left \in Nat /\ timer[p].delay \in Nat
    BY <2>1 DEF Timer
  <2>3. timer'[p] = [timer[p] EXCEPT !.left = timer[p].left - 1]
    BY <1>1, <1>3
  <2>4. timer[p].left - 1 \in Nat
    BY <2>1, <2>2
  <2> QED
    BY <2>1, <2>2, <2>3, <2>4 DEF Timer
<1>4. ASSUME NEW p \in Programs, timer[p] = None PROVE timer'[p] = None
  BY <1>1, <1>4
<1>5. timer' \in [Programs -> Timer \cup {None}]
  BY <1>1, <1>3, <1>4
<1>6. /\ stopPid' \in [Copies -> 0..(StopMs + 1)] /\ stopApp' \in [Apps -> 0..(StopMs + 1)]
      /\ left' \in [Apps -> 0..(ByeMs + 1)]
  <2>1. ASSUME NEW most \in Nat, NEW age \in 0..(most + 1) PROVE Older(age, most) \in 0..(most + 1)
    BY DEF Older
  <2>2. /\ \A c \in Copies : stopPid[c] \in 0..(StopMs + 1)
        /\ \A a \in Apps : stopApp[a] \in 0..(StopMs + 1) /\ left[a] \in 0..(ByeMs + 1)
    BY DEF WatchInv, TypeOK
  <2>3. \A c \in Copies : Older(stopPid[c], StopMs) \in 0..(StopMs + 1)
    BY <2>1, <2>2, Figures
  <2>4. \A a \in Apps : /\ Older(stopApp[a], StopMs) \in 0..(StopMs + 1)
                        /\ Older(left[a], ByeMs) \in 0..(ByeMs + 1)
    BY <2>1, <2>2, Figures
  <2> QED
    BY <2>3, <2>4 DEF Tick
<1>7. Budget'
  <2>1. \A p \in Programs : Budgeted(Aged(restarts[p]))
    BY RecentStays DEF WatchInv
  <2>2. recent' = restarts' /\ \A p \in Programs : Budgeted(restarts'[p])
    BY <1>1, <2>1 DEF WatchInv
  <2> QED
    BY <2>2 DEF Budget, Budgeted, InOrder
<1>8. restarts' \in [Programs -> Seq(0..WindowMs)] /\ recent' \in [Programs -> Seq(0..WindowMs)]
  <2>1. recent' = restarts' /\ \A p \in Programs : restarts'[p] \in Seq(0..WindowMs)
    BY <1>7 DEF Budget, Budgeted
  <2> QED
    BY <1>1, <2>1
<1>9. /\ lastExit' \in [Programs -> {"unexpected", "clean", "polite", "final"}]
      /\ \A p \in Programs : lastExit'[p] \in {lastExit[p], "unexpected"}
  <2>1. lastExit' = [p \in Programs |-> IF lastExit[p] = "clean" THEN "unexpected"
                                        ELSE lastExit[p]]
    BY DEF Tick
  <2>2. lastExit \in [Programs -> {"unexpected", "clean", "polite", "final"}]
    BY DEF WatchInv, TypeOK
  <2> QED
    BY <2>1, <2>2
<1>10. TypeOK'
  BY <1>1, <1>2, <1>5, <1>6, <1>8, <1>9 DEF WatchInv, TypeOK
<1>11. Counts'
  <2>1. Pending' \subseteq Pending /\ launches' = launches
    BY <1>1, <1>4 DEF Pending
  <2> QED
    BY <1>2, <2>1, NoMore DEF Counts
<1>12. ASSUME NEW p \in Programs PROVE Undisturbed(p)'
  <2>1. CASE timer[p] = None
    BY <1>4, <2>1 DEF Undisturbed
  <2>2. CASE timer[p] # None /\ timer[p].shared
    BY <1>3, <2>2 DEF Undisturbed
  <2>3. CASE timer[p] # None /\ ~timer[p].shared
    <3>1. /\ CopiesOf(p) = {} /\ lastExit[p] # "final" /\ timer[p].left <= timer[p].delay
          /\ lastExit[p] \in {"clean", "polite"} => timer[p].clean
          /\ lastExit[p] = "polite" => left[AppOf[p]] <= timer[p].delay - timer[p].left
      BY <2>3 DEF WatchInv, Undisturbed
    <3>2. CopiesOf(p)' = {} /\ lastExit'[p] # "final"
      BY <1>2, <1>9, <3>1
    <3>3. timer'[p].left <= timer'[p].delay
      BY <1>3, <2>3, <3>1
    <3>4. lastExit'[p] \in {"clean", "polite"} => timer'[p].clean
      BY <1>3, <1>9, <2>3, <3>1
    <3>5. lastExit'[p] = "polite" => left'[AppOf[p]] <= timer'[p].delay - timer'[p].left
      <4>1. AppOf[p] \in Apps /\ left[AppOf[p]] \in 0..(ByeMs + 1)
        BY WatchdogAssumption DEF WatchInv, TypeOK
      <4>2. left'[AppOf[p]] = Older(left[AppOf[p]], ByeMs)
        BY <4>1 DEF Tick
      <4>3. left'[AppOf[p]] <= left[AppOf[p]] + 1 /\ left'[AppOf[p]] \in Nat
        BY <4>1, <4>2, Figures DEF Older
      <4>4. lastExit'[p] = "polite" => lastExit[p] = "polite"
        BY <1>9
      <4> QED
        BY <1>3, <2>3, <3>1, <4>1, <4>3, <4>4, Figures
    <3> QED
      BY <3>2, <3>3, <3>4, <3>5 DEF Undisturbed
  <2> QED
    BY <2>1, <2>2, <2>3
<1> QED
  BY <1>2, <1>7, <1>10, <1>11, <1>12 DEF WatchInv, CopiesKnown, Budget, Counts

LEMMA WatchStep == ASSUME WatchInv, [Next]_vars PROVE WatchInv'
<1>1. CASE UNCHANGED vars
  BY <1>1 DEF WatchInv, TypeOK, NoMultiplying, Pending, Undisturbed, CopiesOf, vars, watchVars,
              worldVars, ladderVars, historyVars
<1>2. ASSUME NEW p \in Programs, UserLaunch(p) \/ Relaunch(p) \/ \E v \in Versions : Replace(p, v)
      PROVE  WatchInv'
  BY <1>2, UserLaunchKeeps, RelaunchKeeps, ReplaceKeeps
<1>3. ASSUME NEW c \in Copies,
             \/ Launched(c) \/ LaunchFails(c) \/ Exit(c)
             \/ \E how \in Exits : Notice(c, how)
             \/ StopApp(c) \/ StopPid(c)
      PROVE  WatchInv'
  BY <1>3, LaunchedKeeps, LaunchFailsKeeps, ExitKeeps, NoticeKeeps, StopsKeep
<1>4. ASSUME NEW a \in Apps, Toggle(a) \/ Join(a) \/ Leave(a) PROVE WatchInv'
  BY <1>4, AroundKeeps
<1>5. CASE HubRestarts
  BY <1>5, HubRestartsKeeps
<1>6. CASE Tick
  BY <1>6, TickKeeps
<1> QED
  BY <1>1, <1>2, <1>3, <1>4, <1>5, <1>6 DEF Next

\* What every step of launches, exits, stops, restarts and time knows of copies,
\* restarts and what is pending.
THEOREM WatchInvariant == Spec => []WatchInv
<1>1. Init => WatchInv
  BY WatchInit
<1>2. WatchInv /\ [Next]_vars => WatchInv'
  BY WatchStep
<1> QED
  BY <1>1, <1>2, PTL DEF Spec

\* Any number of programs, launches and restarts: no copy and no restart that does
\* not go back to a launch of its own, and no window with more restarts than the
\* budget (onLaunchExit, relaunch, pruneRestarts).
THEOREM RestartsBounded == Spec => []RestartsAreBounded
<1>1. WatchInv => RestartsAreBounded
  BY DEF WatchInv, RestartsAreBounded, BudgetKept, Budgeted
<1> QED
  BY <1>1, WatchInvariant, PTL

\* Only launches put a copy where there was none.
LEMMA OnlyLaunchesAdd ==
  ASSUME WatchInv, [Next]_vars, NEW c \in Copies, copy[c] = None, copy'[c] # None
  PROVE  \E p \in Programs : \/ BeginLaunch(p, "launching")
                             \/ Relaunch(p) /\ BeginLaunch(p, "relaunching")
<1>1. copy \in [Copies -> Copy \cup {None}]
  BY DEF WatchInv, TypeOK
<1>2. CASE UNCHANGED vars
  BY <1>2 DEF vars, watchVars
<1>3. ASSUME NEW p \in Programs, UserLaunch(p) \/ Relaunch(p) \/ \E v \in Versions : Replace(p, v)
      PROVE  \/ BeginLaunch(p, "launching")
             \/ Relaunch(p) /\ BeginLaunch(p, "relaunching")
  BY <1>3 DEF UserLaunch, Relaunch, Replace
<1>4. ASSUME NEW d \in Copies,
             \/ Launched(d) \/ LaunchFails(d) \/ Exit(d)
             \/ \E how \in Exits : Notice(d, how)
             \/ StopApp(d) \/ StopPid(d)
      PROVE  FALSE
  <2>1. CASE LaunchFails(d) \/ Exit(d) \/ StopApp(d) \/ StopPid(d)
    BY <1>1, <2>1 DEF LaunchFails, Exit, Up, StopApp, StopPid
  <2>2. CASE \E how \in Exits : Notice(d, how)
    BY <1>1, <2>2 DEF Notice, Gone
  <2>3. CASE Launched(d)
    <3>1. copy[d] # None /\ d # c /\ c \notin Oldest
      BY <2>3 DEF Launched, Oldest, Tracked
    <3> QED
      BY <1>1, <2>3, <3>1 DEF Launched, Oldest, Tracked
  <2> QED
    BY <1>4, <2>1, <2>2, <2>3
<1>5. ASSUME NEW a \in Apps, Toggle(a) \/ Join(a) \/ Leave(a) PROVE FALSE
  BY <1>5 DEF Toggle, Join, Leave, watchVars
<1>6. CASE HubRestarts
  BY <1>6 DEF HubRestarts
<1>7. CASE Tick
  BY <1>7 DEF Tick, Tracked
<1> QED
  BY <1>2, <1>3, <1>4, <1>5, <1>6, <1>7 DEF Next

LEMMA StandsDownStep ==
  ASSUME WatchInv, [Next]_vars, NEW p \in Programs, Restarted(p),
         lastExit[p] \in {"polite", "final"}
  PROVE  timer[p].shared \/ (lastExit[p] = "polite" /\ timer[p].delay > ByeMs)
<1>1. PICK c \in Copies : /\ copy[c] = None /\ copy'[c] # None
                          /\ copy'[c].prog = p /\ copy'[c].phase = "relaunching"
  BY DEF Restarted
<1>2. PICK q \in Programs : \/ BeginLaunch(q, "launching")
                            \/ Relaunch(q) /\ BeginLaunch(q, "relaunching")
  BY <1>1, OnlyLaunchesAdd
<1>3. ASSUME NEW how, BeginLaunch(q, how) PROVE q = p /\ how = "relaunching"
  <2> DEFINE new == [prog |-> q, ver |-> installed[q], phase |-> how, watched |-> FALSE, up |-> 0]
  <2>1. copy' = [copy EXCEPT ![Free] = new] /\ copy \in [Copies -> Copy \cup {None}]
    BY <1>3 DEF BeginLaunch, WatchInv, TypeOK
  <2>2. new.prog = q /\ new.phase = how
    OBVIOUS
  <2> HIDE DEF new
  <2>3. copy'[c] = new
    BY <1>1, <2>1
  <2> QED
    BY <1>1, <2>2, <2>3
<1>4. Relaunch(p) /\ BeginLaunch(p, "relaunching")
  BY <1>2, <1>3
<1>5. timer[p] # None /\ timer[p].left = 0 /\ timer[p] \in Timer
  BY <1>4 DEF Relaunch, WatchInv, TypeOK
<1>6. ~SaidBye(p, timer[p].clean)
  BY <1>1, <1>4 DEF Relaunch
<1>7. CASE ~timer[p].shared
  <2>1. /\ lastExit[p] = "polite" /\ timer[p].clean
        /\ left[AppOf[p]] <= timer[p].delay - timer[p].left
    BY <1>5, <1>7 DEF WatchInv, Undisturbed
  <2>2. left[AppOf[p]] > ByeMs /\ left[AppOf[p]] \in Nat /\ timer[p].delay \in Nat
    <3>1. left[AppOf[p]] \in Nat
      BY WatchdogAssumption, Figures DEF WatchInv, TypeOK
    <3> QED
      BY <1>5, <1>6, <2>1, <3>1, Figures DEF SaidBye, Timer
  <2> QED
    BY <1>5, <2>1, <2>2, Figures
<1> QED
  BY <1>7

\* What the user has stopped, what said goodbye and what crashes in a loop is not
\* restarted for that exit (onWatchedExit, onLaunchExit, relaunch).
THEOREM StandsDownHolds == Spec => StandsDown
<1>1. WatchInv /\ [Next]_vars
        => [\A p \in Programs : Restarted(p) /\ lastExit[p] \in {"polite", "final"}
              => timer[p].shared \/ (lastExit[p] = "polite" /\ timer[p].delay > ByeMs)]_vars
  BY StandsDownStep
<1> QED
  BY <1>1, WatchInvariant, PTL DEF Spec, StandsDown

-----------------------------------------------------------------------------
(* The apps on the bus (Bus).                                              *)

Socket == [open: BOOLEAN, app: BusApps \union {none}, quiet: 0..ReapAfter,
           value: Numbers \union {none, text}, ring: Seq(Numbers), alive: BOOLEAN, asked: BOOLEAN,
           late: BOOLEAN]

\* A line is as long as it may be at most, and ends on the value.
Ends(k) == Len(k.ring) <= RingSize /\ (k.ring # <<>> => k.ring[Len(k.ring)] = k.value)

\* A socket that may be registered: open, or closed with a hello since.
Holds(k) == k.open \/ k.late

BusInv ==
  /\ conn \in [Conns -> Socket]
  /\ byApp \in [BusApps -> Conns \union {none}] /\ rest \in Conns \union {none}
  /\ due \in BOOLEAN /\ told \subseteq BusApps /\ closed \in BOOLEAN
  /\ \A c \in Conns : Ends(conn[c])
  /\ Bus!PresenceIsExact /\ Bus!NoMissedChange

LEMMA BusFigures ==
  /\ ReapAfter \in Nat /\ RingSize \in Nat \ {0} /\ Points \in Nat \ {0}
  /\ text \notin Numbers /\ none \notin Numbers /\ none # text
  /\ none \notin BusApps /\ none \notin Conns
  /\ 0 \in 0..ReapAfter
BY BusAssumed DEF Bus!BusAssumption

-----------------------------------------------------------------------------
(* Lines.                                                                  *)

LEMMA PrunedEnds ==
  ASSUME NEW ring \in Seq(Numbers), NEW v \in Numbers, Len(ring) <= RingSize
  PROVE  LET new == Bus!Pruned(Append(ring, v))
         IN new \in Seq(Numbers) /\ Len(new) <= RingSize /\ new[Len(new)] = v
<1>1. PICK long : long = Append(ring, v)
  OBVIOUS
<1>2. /\ long \in Seq(Numbers) /\ Len(long) = Len(ring) + 1 /\ long[Len(long)] = v
      /\ Len(ring) \in Nat
  BY <1>1, AppendProperties
<1>3. RingSize \in Nat /\ RingSize > 0
  BY BusFigures
<1>4. PICK over \in Nat : over = IF Len(long) > RingSize THEN Len(long) - RingSize ELSE 0
  BY <1>2, <1>3
<1>5. over + 1 \in 1..Len(long) /\ Len(long) - over <= RingSize
  BY <1>2, <1>3, <1>4
<1>6. PICK new : new = SubSeq(long, over + 1, Len(long))
  OBVIOUS
<1>7. new \in Seq(Numbers) /\ Len(new) = Len(long) - over
  BY <1>2, <1>5, <1>6, SubSeqProperties
<1>8. new[Len(new)] = long[Len(long)]
  BY <1>2, <1>5, <1>6, <1>7, SubSeqProperties
<1>9. new = Bus!Pruned(Append(ring, v))
  BY <1>1, <1>4, <1>6 DEF Bus!Pruned
<1> QED
  BY <1>2, <1>5, <1>7, <1>8, <1>9

LEMMA RecordedEnds ==
  ASSUME NEW k \in Socket, Ends(k), NEW v \in Numbers \union {text}
  PROVE  LET new == Bus!Recorded(k.ring, v)
         IN /\ new \in Seq(Numbers) /\ Len(new) <= RingSize
            /\ new # <<>> => new[Len(new)] = v
<1>1. k.ring \in Seq(Numbers) /\ Len(k.ring) <= RingSize
  BY DEF Socket, Ends
<1>2. RingSize \in Nat
  BY BusFigures
<1> QED
  BY <1>1, <1>2, PrunedEnds DEF Bus!Recorded

\* What is drawn of a line is no more than its points, and ends on its end.
LEMMA ThinnedEnds ==
  ASSUME NEW ring \in Seq(Numbers)
  PROVE  /\ Len(Bus!Thinned(ring)) <= Points
         /\ Bus!Thinned(ring) # <<>>
              => /\ ring # <<>>
                 /\ Bus!Thinned(ring)[Len(Bus!Thinned(ring))] = ring[Len(ring)]
<1>1. PICK long \in Nat : long = Len(ring)
  OBVIOUS
<1>2. Points \in Nat /\ Points > 0
  BY BusFigures
<1>3. CASE long <= Points
  BY <1>1, <1>3 DEF Bus!Thinned
<1>4. CASE long > Points
  <2>1. PICK stride \in Int : stride = (long + Points - 1) \div Points
    BY <1>2
  <2>2. stride * Points >= long
    BY <1>2, <2>1
  <2>3. stride > 0
    BY <1>2, <1>4, <2>2
  <2>4. PICK m \in Int : m = (long - 1) \div stride
    BY <2>3
  <2>5. m >= 0 /\ m * stride <= long - 1
    BY <1>2, <1>4, <2>3, <2>4
  <2>6. m < Points
    <3>1. SUFFICES ASSUME m >= Points PROVE FALSE
      BY <1>2
    <3>2. PICK d \in Nat : m = Points + d
      BY <1>2, <3>1
    <3>3. PICK a \in Int, b \in Int : a = stride * Points /\ b = stride * d
      BY <1>2
    <3>4. m * stride = a + b
      BY <1>2, <3>2, <3>3
    <3>5. b >= 0
      BY <2>3, <3>2, <3>3
    <3> QED
      BY <2>2, <2>5, <3>3, <3>4, <3>5
  <2>7. PICK n \in Nat : n = m + 1 /\ n > 0 /\ n <= Points
    BY <1>2, <2>5, <2>6
  <2>8. Bus!Thinned(ring) = [i \in 1..n |-> ring[long - (n - i) * stride]]
    <3> DEFINE st == (Len(ring) + Points - 1) \div Points
               k  == (Len(ring) - 1) \div st + 1
    <3>1. Bus!Thinned(ring) = IF Len(ring) <= Points THEN ring
                          ELSE [i \in 1..k |-> ring[Len(ring) - (k - i) * st]]
      BY DEF Bus!Thinned
    <3>2. st = stride
      BY <1>1, <2>1
    <3>3. k = n
      BY <1>1, <2>4, <2>7, <3>2
    <3> HIDE DEF st, k
    <3>4. ~(Len(ring) <= Points)
      BY <1>1, <1>2, <1>4
    <3> QED
      BY <1>1, <3>1, <3>2, <3>3, <3>4, Zenon
  <2>9. PICK line : line = [i \in 1..n |-> ring[long - (n - i) * stride]]
    OBVIOUS
  <2>10. Len(line) = n
    BY <2>9
  <2>11. line[n] = ring[long]
    <3>1. n \in 1..n /\ long - (n - n) * stride = long
      BY <2>7
    <3> QED
      BY <2>9, <3>1
  <2> QED
    BY <1>1, <1>2, <1>4, <2>7, <2>8, <2>9, <2>10, <2>11
<1> QED
  BY <1>1, <1>2, <1>3, <1>4

-----------------------------------------------------------------------------
(* The steps.                                                              *)

\* A socket that is hung up, and one that has just been opened.
LEMMA GoneEnds == /\ Bus!Gone \in Socket /\ Ends(Bus!Gone) /\ ~Holds(Bus!Gone) /\ ~Bus!Gone.open
                  /\ Bus!Fresh \in Socket /\ Ends(Bus!Fresh)
<1>1. <<>> \in Seq(Numbers) /\ Len(<<>>) = 0 /\ Len(<<>>) <= RingSize
  BY BusFigures
<1>2. PICK ring : ring = <<>>
  OBVIOUS
<1>3. Bus!Fresh = [open |-> TRUE, app |-> none, quiet |-> 0, value |-> none, ring |-> ring,
               alive |-> TRUE, asked |-> FALSE, late |-> FALSE]
  BY <1>2 DEF Bus!Fresh
<1>4. Bus!Fresh \in Socket
  BY <1>1, <1>2, <1>3, BusFigures DEF Socket
<1>5. Ends(Bus!Fresh)
  BY <1>1, <1>2, <1>3 DEF Ends
<1>6. Bus!Gone = [Bus!Fresh EXCEPT !.open = FALSE]
  BY DEF Bus!Gone
<1>7. /\ Bus!Gone \in Socket /\ ~Bus!Gone.open /\ ~Bus!Gone.late
      /\ Bus!Gone.ring = Bus!Fresh.ring
  BY <1>3, <1>4, <1>6 DEF Socket
<1> QED
  BY <1>1, <1>2, <1>3, <1>4, <1>5, <1>7 DEF Ends, Holds

LEMMA BusStart == ASSUME Bus!Init PROVE BusInv
<1>1. \A c \in Conns : conn[c] = Bus!Gone
  BY DEF Bus!Init
<1>2. conn \in [Conns -> Socket] /\ \A c \in Conns : Ends(conn[c]) /\ ~Holds(conn[c])
  BY <1>1, GoneEnds DEF Bus!Init
<1>3. Bus!PresenceIsExact
  BY <1>2, BusFigures DEF Bus!Init, Bus!PresenceIsExact, Holds
<1>4. Bus!NoMissedChange
  BY DEF Bus!Init, Bus!NoMissedChange, Bus!Present
<1> QED
  BY <1>2, <1>3, <1>4 DEF Bus!Init, BusInv

\* Whoever hangs up is unregistered, and it is announced.
LEMMA DropKeeps ==
  ASSUME BusInv, NEW cs, cs \subseteq Conns, Bus!Drop(cs), UNCHANGED <<rest, told, closed>>
  PROVE  BusInv'
<1>1. /\ conn' = [c \in Conns |-> IF c \in cs THEN Bus!Gone ELSE conn[c]]
      /\ byApp' = [a \in BusApps |-> IF byApp[a] \in cs THEN none ELSE byApp[a]]
      /\ due' = (due \/ Bus!Registered(cs) # {})
  BY DEF Bus!Drop, Bus!Notify, Bus!Registered
<1>2. conn' \in [Conns -> Socket] /\ \A c \in Conns : Ends(conn'[c])
  BY <1>1, GoneEnds DEF BusInv
<1>3. byApp' \in [BusApps -> Conns \union {none}] /\ due' \in BOOLEAN
  BY <1>1 DEF BusInv
<1>4. Bus!PresenceIsExact'
  <2>1. ASSUME NEW a \in BusApps, NEW c \in Conns
        PROVE  byApp'[a] = c <=> (Holds(conn'[c]) /\ conn'[c].app = a)
    <3>1. byApp[a] = c <=> (Holds(conn[c]) /\ conn[c].app = a)
      BY DEF BusInv, Bus!PresenceIsExact, Holds
    <3>2. CASE c \in cs
      BY <1>1, <3>1, <3>2, GoneEnds, BusFigures
    <3>3. CASE c \notin cs
      BY <1>1, <3>1, <3>3, BusFigures
    <3> QED
      BY <3>2, <3>3
  <2> QED
    BY <2>1 DEF Bus!PresenceIsExact, Holds
<1>5. Bus!NoMissedChange'
  <2>1. Bus!Registered(cs) = {} => Bus!Present' = Bus!Present
    BY <1>1 DEF Bus!Registered, Bus!Present
  <2> QED
    BY <1>1, <2>1 DEF BusInv, Bus!NoMissedChange
<1> QED
  BY <1>2, <1>3, <1>4, <1>5 DEF BusInv

\* A socket that stays where it is.
LEMMA StaysKeeps ==
  ASSUME BusInv, NEW c \in Conns, NEW k \in Socket, Ends(k),
         k.open = conn[c].open, k.late = conn[c].late, k.app = conn[c].app,
         conn' = [conn EXCEPT ![c] = k],
         UNCHANGED <<rest, byApp, told, closed>>, due' \in BOOLEAN, due => due'
  PROVE  BusInv'
<1>1. conn \in [Conns -> Socket]
  BY DEF BusInv
<1>2. conn' \in [Conns -> Socket] /\ conn'[c] = k /\ \A d \in Conns \ {c} : conn'[d] = conn[d]
  BY <1>1
<1>3. \A d \in Conns : /\ Ends(conn'[d]) /\ conn'[d].open = conn[d].open
                       /\ conn'[d].late = conn[d].late /\ conn'[d].app = conn[d].app
  BY <1>2 DEF BusInv
<1>4. Bus!PresenceIsExact'
  BY <1>3 DEF BusInv, Bus!PresenceIsExact
<1>5. Bus!NoMissedChange'
  BY DEF BusInv, Bus!NoMissedChange, Bus!Present
<1> QED
  BY <1>2, <1>3, <1>4, <1>5 DEF BusInv

LEMMA ConnectKeeps == ASSUME BusInv, NEW c \in Conns, Bus!Connect(c) PROVE BusInv'
<1>1. /\ conn[c] = Bus!Gone /\ conn' = [conn EXCEPT ![c] = Bus!Fresh]
      /\ UNCHANGED <<rest, byApp, due, told, closed>>
  BY DEF Bus!Connect
<1>2. conn \in [Conns -> Socket]
  BY DEF BusInv
<1>3. /\ conn' \in [Conns -> Socket] /\ conn'[c] = Bus!Fresh
      /\ \A d \in Conns \ {c} : conn'[d] = conn[d]
  BY <1>1, <1>2, GoneEnds
<1>4. \A d \in Conns : Ends(conn'[d])
  BY <1>3, GoneEnds DEF BusInv
<1>5. Bus!PresenceIsExact'
  <2>1. Bus!Fresh.app = none
    BY DEF Bus!Fresh
  <2> QED
    BY <1>1, <1>3, <2>1, GoneEnds, BusFigures DEF BusInv, Bus!PresenceIsExact, Holds
<1>6. Bus!NoMissedChange'
  BY <1>1 DEF BusInv, Bus!NoMissedChange, Bus!Present
<1> QED
  BY <1>1, <1>3, <1>4, <1>5, <1>6 DEF BusInv

LEMMA HelloKeeps ==
  ASSUME BusInv, NEW c \in Conns, NEW a \in BusApps, Bus!Hello(c, a)
  PROVE  BusInv'
<1>1. PICK new : new = Bus!Greeted(c, a)
  OBVIOUS
<1>2. new \in Socket /\ Ends(new) /\ Holds(new) /\ new.app = a
  <2>1. Bus!Fresh \in Socket /\ Ends(Bus!Fresh) /\ conn[c].asked \in BOOLEAN
        /\ conn[c].open \in BOOLEAN
    BY GoneEnds DEF BusInv, Socket
  <2>3. PICK shut \in BOOLEAN : shut = ~conn[c].open
    OBVIOUS
  <2>2. /\ new \in Socket /\ new.open = conn[c].open /\ new.late = shut /\ new.app = a
        /\ new.ring = Bus!Fresh.ring /\ new.value = Bus!Fresh.value
    <3>1. new = [Bus!Fresh EXCEPT !.app = a, !.asked = conn[c].asked,
                                  !.open = conn[c].open, !.late = shut]
      BY <1>1, <2>3, Zenon DEF Bus!Greeted
    <3> QED
      BY <2>1, <3>1 DEF Socket
  <2> QED
    BY <2>1, <2>2, <2>3 DEF Ends, Holds
<1>3. /\ conn' = [d \in Conns |-> IF d = c THEN new ELSE IF byApp[a] = d THEN Bus!Gone ELSE conn[d]]
      /\ byApp' = [b \in BusApps |-> IF b = a THEN c ELSE IF byApp[b] = c THEN none ELSE byApp[b]]
      /\ due' = TRUE /\ UNCHANGED <<rest, told, closed>>
  BY <1>1 DEF Bus!Hello, Bus!Notify
<1>4. conn' \in [Conns -> Socket] /\ \A d \in Conns : Ends(conn'[d])
  BY <1>2, <1>3, GoneEnds DEF BusInv
<1>5. byApp' \in [BusApps -> Conns \union {none}]
  BY <1>3 DEF BusInv
<1>6. Bus!PresenceIsExact'
  <2>1. ASSUME NEW b \in BusApps, NEW d \in Conns
        PROVE  byApp'[b] = d <=> (Holds(conn'[d]) /\ conn'[d].app = b)
    <3>1. /\ byApp[b] = d <=> (Holds(conn[d]) /\ conn[d].app = b)
          /\ byApp[a] = d <=> (Holds(conn[d]) /\ conn[d].app = a)
          /\ byApp[b] = c <=> (Holds(conn[c]) /\ conn[c].app = b)
      BY DEF BusInv, Bus!PresenceIsExact, Holds
    <3>2. d # c => conn'[d] = IF byApp[a] = d THEN Bus!Gone ELSE conn[d]
      BY <1>3
    <3>3. conn'[c] = new
      BY <1>3
    <3>4. byApp'[b] = IF b = a THEN c ELSE IF byApp[b] = c THEN none ELSE byApp[b]
      BY <1>3
    <3>5. CASE d = c
      BY <1>2, <3>1, <3>3, <3>4, <3>5, BusFigures
    <3>6. CASE d # c /\ b = a
      BY <3>1, <3>2, <3>4, <3>6, GoneEnds
    <3>7. CASE d # c /\ b # a
      BY <3>1, <3>2, <3>4, <3>7, GoneEnds, BusFigures
    <3> QED
      BY <3>5, <3>6, <3>7
  <2> QED
    BY <2>1 DEF Bus!PresenceIsExact, Holds
<1>7. Bus!NoMissedChange'
  BY <1>3 DEF Bus!NoMissedChange
<1> QED
  BY <1>3, <1>4, <1>5, <1>6, <1>7 DEF BusInv

LEMMA StatusKeeps ==
  ASSUME BusInv, NEW c \in Conns, NEW v \in Numbers \union {text}, Bus!Status(c, v)
  PROVE  BusInv'
<1>1. conn[c] \in Socket /\ Ends(conn[c])
  BY DEF BusInv
<1>2. PICK ring : ring = Bus!Recorded(conn[c].ring, v)
  OBVIOUS
<1>3. ring \in Seq(Numbers) /\ Len(ring) <= RingSize /\ (ring # <<>> => ring[Len(ring)] = v)
  BY <1>1, <1>2, RecordedEnds
<1>4. PICK k : k = [conn[c] EXCEPT !.value = v, !.ring = ring, !.quiet = 0]
  OBVIOUS
<1>5. /\ k \in Socket /\ k.open = conn[c].open /\ k.late = conn[c].late /\ k.app = conn[c].app
      /\ k.ring = ring /\ k.value = v
  BY <1>1, <1>3, <1>4, BusFigures DEF Socket
<1>6. Ends(k)
  BY <1>3, <1>5 DEF Ends
<1>7. conn' = [conn EXCEPT ![c] = k] /\ due' = TRUE /\ UNCHANGED <<rest, byApp, told, closed>>
  BY <1>2, <1>4 DEF Bus!Status, Bus!Notify, BusInv
<1> QED
  BY <1>5, <1>6, <1>7, StaysKeeps

\* A socket that a message hangs up is registered no more, and it is announced.
LEMMA HangsUpKeeps == ASSUME BusInv, NEW c \in Conns, Bus!HangsUp(c) PROVE BusInv'
<1>1. PICK k : k = [Bus!Gone EXCEPT !.app = conn[c].app]
  OBVIOUS
<1>2. k \in Socket /\ Ends(k) /\ ~Holds(k)
  <2>1. conn[c].app \in BusApps \union {none}
    BY DEF BusInv, Socket
  <2>2. /\ k \in Socket /\ k.open = Bus!Gone.open /\ k.late = Bus!Gone.late
        /\ k.ring = Bus!Gone.ring /\ k.value = Bus!Gone.value
    BY <1>1, <2>1, GoneEnds DEF Socket
  <2> QED
    BY <2>2, GoneEnds DEF Ends, Holds
<1>3. /\ conn' = [conn EXCEPT ![c] = k]
      /\ byApp' = [a \in BusApps |-> IF byApp[a] = c THEN none ELSE byApp[a]]
      /\ due' = (due \/ Bus!Registered({c}) # {})
      /\ rest' = c /\ UNCHANGED <<told, closed>>
  BY <1>1 DEF Bus!HangsUp, Bus!Notify
<1>4. /\ conn' \in [Conns -> Socket] /\ conn'[c] = k
      /\ \A d \in Conns : Ends(conn'[d]) /\ (d # c => conn'[d] = conn[d])
  BY <1>2, <1>3 DEF BusInv
<1>5. byApp' \in [BusApps -> Conns \union {none}] /\ due' \in BOOLEAN
  BY <1>3 DEF BusInv
<1>6. Bus!PresenceIsExact'
  <2>1. ASSUME NEW a \in BusApps, NEW d \in Conns
        PROVE  byApp'[a] = d <=> (Holds(conn'[d]) /\ conn'[d].app = a)
    <3>1. byApp[a] = d <=> (Holds(conn[d]) /\ conn[d].app = a)
      BY DEF BusInv, Bus!PresenceIsExact, Holds
    <3>2. byApp'[a] = IF byApp[a] = c THEN none ELSE byApp[a]
      BY <1>3
    <3> QED
      BY <1>2, <1>4, <3>1, <3>2, BusFigures
  <2> QED
    BY <2>1 DEF Bus!PresenceIsExact, Holds
<1>7. Bus!NoMissedChange'
  <2>1. Bus!Registered({c}) = {} => Bus!Present' = Bus!Present
    BY <1>3 DEF Bus!Registered, Bus!Present
  <2> QED
    BY <1>3, <2>1 DEF BusInv, Bus!NoMissedChange
<1> QED
  BY <1>3, <1>4, <1>5, <1>6, <1>7 DEF BusInv

\* At the end of the chunk its slot is free, unless it has said hello again.
LEMMA ChunkEndsKeeps == ASSUME BusInv, Bus!ChunkEnds PROVE BusInv'
<1>1. PICK c \in Conns : c = rest
  BY DEF Bus!ChunkEnds, BusInv
<1>2. rest' = none /\ UNCHANGED <<byApp, due, told, closed>>
  BY DEF Bus!ChunkEnds
<1>3. \A d \in Conns : \/ conn'[d] = conn[d]
                       \/ conn'[d] = Bus!Gone /\ \A a \in BusApps : byApp[a] # d
  BY <1>1 DEF Bus!ChunkEnds, Bus!Registered, BusInv
<1>4. conn' \in [Conns -> Socket] /\ \A d \in Conns : Ends(conn'[d])
  BY <1>1, GoneEnds DEF Bus!ChunkEnds, BusInv
<1>5. Bus!PresenceIsExact'
  <2>1. ASSUME NEW a \in BusApps, NEW d \in Conns
        PROVE  byApp'[a] = d <=> (Holds(conn'[d]) /\ conn'[d].app = a)
    <3>1. byApp[a] = d <=> (Holds(conn[d]) /\ conn[d].app = a)
      BY DEF BusInv, Bus!PresenceIsExact, Holds
    <3> QED
      BY <1>2, <1>3, <3>1, GoneEnds
  <2> QED
    BY <2>1 DEF Bus!PresenceIsExact, Holds
<1>6. Bus!NoMissedChange'
  BY <1>2 DEF BusInv, Bus!NoMissedChange, Bus!Present
<1> QED
  BY <1>2, <1>4, <1>5, <1>6 DEF BusInv

LEMMA QuietStepsKeep ==
  ASSUME BusInv, NEW c \in Conns, Bus!Heard(c) \/ Bus!Ages(c) \/ Bus!Hangs(c)
  PROVE  BusInv'
<1>1. conn[c] \in Socket /\ Ends(conn[c]) /\ due \in BOOLEAN /\ conn \in [Conns -> Socket]
  BY DEF BusInv
<1>2. CASE Bus!Heard(c)
  <2>1. PICK k : k = [conn[c] EXCEPT !.quiet = 0, !.asked = FALSE]
    OBVIOUS
  <2>2. k \in Socket /\ Ends(k) /\ k.open = conn[c].open /\ k.late = conn[c].late
        /\ k.app = conn[c].app
    BY <1>1, <2>1, BusFigures DEF Socket, Ends
  <2>3. conn' = [conn EXCEPT ![c] = k] /\ UNCHANGED <<rest, byApp, due, told, closed>>
    BY <1>1, <1>2, <2>1 DEF Bus!Heard
  <2> QED
    BY <1>1, <2>2, <2>3, StaysKeeps
<1>3. CASE Bus!Hangs(c)
  <2>1. PICK k : k = [conn[c] EXCEPT !.alive = FALSE]
    OBVIOUS
  <2>2. k \in Socket /\ Ends(k) /\ k.open = conn[c].open /\ k.late = conn[c].late
        /\ k.app = conn[c].app
    BY <1>1, <2>1 DEF Socket, Ends
  <2>3. conn' = [conn EXCEPT ![c] = k] /\ UNCHANGED <<rest, byApp, due, told, closed>>
    BY <1>1, <1>3, <2>1 DEF Bus!Hangs
  <2> QED
    BY <1>1, <2>2, <2>3, StaysKeeps
<1>4. CASE Bus!Ages(c)
  <2>1. PICK ring \in Seq(Numbers) : ring = conn[c].ring /\ ring # <<>>
    BY <1>1, <1>4 DEF Bus!Ages, Socket
  <2>2. PICK kept : kept = Tail(ring)
    OBVIOUS
  <2>3. /\ kept \in Seq(Numbers) /\ Len(kept) = Len(ring) - 1
        /\ kept # <<>> => kept[Len(kept)] = ring[Len(ring)]
    <3>1. Len(ring) \in Nat /\ Len(ring) > 0
      BY <2>1, EmptySeq
    <3>2. kept \in Seq(Numbers) /\ Len(kept) = Len(ring) - 1
      BY <2>1, <2>2
    <3>3. \A i \in 1..Len(kept) : kept[i] = ring[i + 1]
      BY <2>1, <2>2, <3>1, <3>2
    <3>4. kept # <<>> => Len(kept) \in 1..Len(kept)
      BY <3>1, <3>2, EmptySeq
    <3> QED
      BY <3>1, <3>2, <3>3, <3>4
  <2>4. PICK k : k = [conn[c] EXCEPT !.ring = kept]
    OBVIOUS
  <2>5. /\ k \in Socket /\ k.open = conn[c].open /\ k.late = conn[c].late
        /\ k.app = conn[c].app /\ k.ring = kept /\ k.value = conn[c].value
    BY <1>1, <2>3, <2>4 DEF Socket
  <2>6. Ends(k)
    <3>1. Len(ring) <= RingSize /\ ring[Len(ring)] = conn[c].value /\ Len(ring) \in Nat
      BY <1>1, <2>1 DEF Ends
    <3> QED
      BY <2>3, <2>5, <3>1, BusFigures DEF Ends
  <2>7. conn' = [conn EXCEPT ![c] = k] /\ UNCHANGED <<rest, byApp, due, told, closed>>
    BY <1>1, <1>4, <2>1, <2>2, <2>4 DEF Bus!Ages
  <2> QED
    BY <1>1, <2>5, <2>6, <2>7, StaysKeeps
<1> QED
  BY <1>2, <1>3, <1>4

LEMMA SweepKeeps == ASSUME BusInv, Bus!Sweep PROVE BusInv'
<1>1. PICK late \in SUBSET Bus!Young :
        LET out == {c \in Conns : Bus!Reaped(c)} \union late
        IN /\ conn' = [c \in Conns |->
                         IF c \in out THEN Bus!Gone
                         ELSE IF ~conn[c].open THEN conn[c]
                         ELSE [conn[c] EXCEPT !.quiet = IF @ < ReapAfter THEN @ + 1 ELSE @,
                                              !.asked = conn[c].app # none]]
           /\ byApp' = [a \in BusApps |-> IF a \in Bus!Registered(out) THEN none ELSE byApp[a]]
           /\ Bus!Notify(Bus!Registered(out) # {})
  BY DEF Bus!Sweep
<1>2. PICK out \in SUBSET Conns : out = {c \in Conns : Bus!Reaped(c)} \union late
  BY DEF Bus!Young
<1>3. UNCHANGED <<rest, told, closed>>
  BY DEF Bus!Sweep
<1>4. /\ byApp' = [a \in BusApps |-> IF byApp[a] \in out THEN none ELSE byApp[a]]
      /\ due' = (due \/ Bus!Registered(out) # {})
  BY <1>1, <1>2 DEF Bus!Notify, Bus!Registered
<1>5. /\ conn' \in [Conns -> Socket]
      /\ \A c \in Conns :
           /\ Ends(conn'[c])
           /\ c \in out => ~Holds(conn'[c])
           /\ c \notin out => (Holds(conn'[c]) <=> Holds(conn[c])) /\ conn'[c].app = conn[c].app
  <2>1. conn' = [c \in Conns |->
                   IF c \in out THEN Bus!Gone
                   ELSE IF ~conn[c].open THEN conn[c]
                   ELSE [conn[c] EXCEPT !.quiet = IF @ < ReapAfter THEN @ + 1 ELSE @,
                                        !.asked = conn[c].app # none]]
    BY <1>1, <1>2
  <2>2. ASSUME NEW c \in Conns
        PROVE  /\ conn'[c] \in Socket /\ Ends(conn'[c])
               /\ c \in out => ~Holds(conn'[c])
               /\ c \notin out => (Holds(conn'[c]) <=> Holds(conn[c])) /\ conn'[c].app = conn[c].app
    <3>1. conn[c] \in Socket /\ Ends(conn[c])
      BY DEF BusInv
    <3>2. PICK asked \in BOOLEAN : asked = (conn[c].app # none)
      OBVIOUS
    <3>3. PICK quiet \in 0..ReapAfter : quiet = IF conn[c].quiet < ReapAfter THEN conn[c].quiet + 1
                                                ELSE conn[c].quiet
      BY <3>1, BusFigures DEF Socket
    <3>4. PICK k : k = [conn[c] EXCEPT !.quiet = quiet, !.asked = asked]
      OBVIOUS
    <3>5. k \in Socket /\ Ends(k) /\ (Holds(k) <=> Holds(conn[c])) /\ k.app = conn[c].app
      BY <3>1, <3>4 DEF Socket, Ends, Holds
    <3>6. conn'[c] = IF c \in out THEN Bus!Gone ELSE IF ~conn[c].open THEN conn[c] ELSE k
      BY <2>1, <3>2, <3>3, <3>4
    <3> QED
      BY <3>1, <3>5, <3>6, GoneEnds
  <2> QED
    BY <2>1, <2>2
<1>6. byApp' \in [BusApps -> Conns \union {none}] /\ due' \in BOOLEAN
  BY <1>4 DEF BusInv
<1>7. Bus!PresenceIsExact'
  <2>1. ASSUME NEW a \in BusApps, NEW c \in Conns
        PROVE  byApp'[a] = c <=> (Holds(conn'[c]) /\ conn'[c].app = a)
    <3>1. byApp[a] = c <=> (Holds(conn[c]) /\ conn[c].app = a)
      BY DEF BusInv, Bus!PresenceIsExact, Holds
    <3> QED
      BY <1>4, <1>5, <3>1, BusFigures
  <2> QED
    BY <2>1 DEF Bus!PresenceIsExact, Holds
<1>8. Bus!NoMissedChange'
  <2>1. Bus!Registered(out) = {} => Bus!Present' = Bus!Present
    BY <1>4 DEF Bus!Registered, Bus!Present
  <2> QED
    BY <1>3, <1>4, <2>1 DEF BusInv, Bus!NoMissedChange
<1> QED
  BY <1>3, <1>5, <1>6, <1>7, <1>8 DEF BusInv

LEMMA BusStep == ASSUME BusInv, [Bus!Next]_Bus!vars PROVE BusInv'
<1>1. CASE UNCHANGED Bus!vars
  BY <1>1 DEF BusInv, Bus!PresenceIsExact, Bus!NoMissedChange, Bus!Present, Bus!vars
<1>2. CASE Bus!Fire
  <2>1. UNCHANGED <<conn, rest, byApp, closed>> /\ due' = FALSE /\ told' = Bus!Present
    BY <1>2 DEF Bus!Fire
  <2>2. Bus!PresenceIsExact' /\ Bus!NoMissedChange' /\ Bus!Present \subseteq BusApps
    BY <2>1 DEF BusInv, Bus!PresenceIsExact, Bus!NoMissedChange, Bus!Present
  <2> QED
    BY <2>1, <2>2 DEF BusInv
<1>3. CASE Bus!Close
  <2>1. /\ closed' = TRUE /\ conn' = [c \in Conns |-> Bus!Gone]
        /\ byApp' = [a \in BusApps |-> none] /\ due' = FALSE /\ told' = told /\ rest' = rest
    BY <1>3 DEF Bus!Close
  <2>2. conn' \in [Conns -> Socket] /\ \A c \in Conns : Ends(conn'[c]) /\ ~Holds(conn'[c])
    BY <2>1, GoneEnds
  <2>3. Bus!PresenceIsExact' /\ Bus!NoMissedChange'
    BY <2>1, <2>2, BusFigures DEF Bus!PresenceIsExact, Bus!NoMissedChange, Holds
  <2> QED
    BY <2>1, <2>2, <2>3 DEF BusInv
<1>4. ASSUME NEW c \in Conns,
             \/ Bus!Connect(c) \/ Bus!Heard(c) \/ Bus!Ages(c) \/ Bus!Leaves(c) \/ Bus!Hangs(c)
             \/ Bus!HangsUp(c)
             \/ \E a \in BusApps : Bus!Hello(c, a)
             \/ \E v \in Numbers \union {text} : Bus!Status(c, v)
      PROVE  BusInv'
  <2>1. CASE Bus!Leaves(c)
    BY <2>1, DropKeeps DEF Bus!Leaves
  <2> QED
    BY <1>4, <2>1, HangsUpKeeps, ConnectKeeps, QuietStepsKeep, HelloKeeps, StatusKeeps
<1> QED
  BY <1>1, <1>2, <1>3, <1>4, SweepKeeps, ChunkEndsKeeps DEF Bus!Next

\* What every message, sweep and hang-up of the bus keeps of its tables and lines.
THEOREM BusInvariant == Bus!Spec => []BusInv
<1>1. Bus!Init => BusInv
  BY BusStart
<1>2. BusInv /\ [Bus!Next]_Bus!vars => BusInv'
  BY BusStep
<1> QED
  BY <1>1, <1>2, PTL DEF Bus!Spec

\* Any number of sockets, apps and samples: the table of the present is exactly the open
\* sockets, but for hellos in the chunk that closed theirs; what changes in it is announced,
\* and a line ends on the number beside it.
THEOREM PresenceAlwaysKnown == Bus!Spec => []PresenceIsKnown
<1>1. ASSUME BusInv PROVE PresenceIsKnown
  <2>1. Bus!TypeOK
    BY <1>1 DEF BusInv, Bus!TypeOK, Socket, Ends
  <2>2. Bus!LineEndsOnValue
    <3>1. ASSUME NEW c \in Conns
          PROVE  /\ Len(Bus!Thinned(conn[c].ring)) <= Points
                 /\ Bus!Thinned(conn[c].ring) # <<>>
                      => Bus!Thinned(conn[c].ring)[Len(Bus!Thinned(conn[c].ring))] = conn[c].value
      <4>1. conn[c] \in Socket /\ Ends(conn[c])
        BY <1>1 DEF BusInv
      <4>2. PICK ring \in Seq(Numbers) : ring = conn[c].ring
        BY <4>1 DEF Socket
      <4> QED
        BY <4>1, <4>2, ThinnedEnds DEF Ends
    <3> QED
      BY <3>1 DEF Bus!LineEndsOnValue
  <2> QED
    BY <1>1, <2>1, <2>2 DEF BusInv, PresenceIsKnown, Bus!PresenceIsKnown
<1> QED
  BY <1>1, BusInvariant, PTL
=============================================================================
