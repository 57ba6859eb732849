------------------------------- MODULE CommandsProofs -------------------------------
(***************************************************************************)
(* What holds of the commands for every value of the constants.            *)
(*                                                                         *)
(* `nx bisect` (Bisect), for any number of releases, whichever is the      *)
(* first broken one, and however many commands fail or are killed.         *)
(*                                                                         *)
(* The files a hub keeps its facts in (Stores), for any number of          *)
(* processes that change them beside each other, any keys and any values.  *)
(*                                                                         *)
(* The ladder that stops an app (StopLadder), for any number of launches,  *)
(* any artifacts and any order of what the programs and the hub do.        *)
(*                                                                         *)
(* The flight recorder and what is rebuilt from it (Replay), for any apps, *)
(* releases, number of journal files and changes, whatever rotation, a     *)
(* full disk or a kill takes away.                                         *)
(***************************************************************************)
EXTENDS MCCommands, SequenceTheorems, FiniteSetTheorems, WellFoundedInduction, TLAPS

-----------------------------------------------------------------------------
(* The choice of the next candidate.                                       *)

\* A nonempty set of naturals has a least element.
LEMMA LeastNatural ==
  ASSUME NEW T, T \subseteq Nat, T # {}
  PROVE  \E x \in T : \A y \in T : x <= y
<1>1. PICK x \in T : \A y \in T : ~(<<y, x>> \in OpToRel(<, Nat))
  BY NatLessThanWellFounded, WFMin
<1>2. \A y \in T : ~(y < x)
  BY <1>1 DEF OpToRel
<1> QED
  BY <1>2

\* While something is left to test, nextCandidate returns a release worth
\* testing: the walk outwards from the middle of the window finds one.
LEMMA CandidateExists ==
  ASSUME NEW s, s.lo \in Int, s.hi \in Int, Testable(s) # {}
  PROVE  NextCandidate(s) \in Testable(s)
<1> DEFINE mid == Midpoint(s)
           Rank(c) == IF c <= mid THEN 2 * (mid - c) ELSE 2 * (c - mid) + 1
           Ranks == {Rank(c) : c \in Testable(s)}
<1>1. mid \in Int /\ Testable(s) \subseteq Int
  BY DEF Midpoint, Testable
<1>2. Ranks \subseteq Nat /\ Ranks # {}
  BY <1>1
<1>3. PICK r \in Ranks : \A q \in Ranks : r <= q
  BY <1>2, LeastNatural
<1>4. PICK c \in Testable(s) : r = Rank(c)
  BY <1>3
<1>5. ASSUME NEW d \in Testable(s) PROVE Nearer(c, d, mid)
  <2>1. Rank(c) <= Rank(d)
    BY <1>3, <1>4
  <2>2. c \in Int /\ d \in Int
    BY <1>1
  <2> HIDE DEF mid
  <2> QED
    BY <2>1, <2>2, <1>1 DEF Nearer
<1>6. \E x \in Testable(s) : \A d \in Testable(s) : Nearer(x, d, Midpoint(s))
  BY <1>5
<1> QED
  BY <1>6 DEF NextCandidate

-----------------------------------------------------------------------------
(* The invariant.                                                          *)

\* A break that left the window left it through a misjudged verdict, and the file
\* remembers what was installed when its search was started.
SearchInv ==
  /\ TypeOK
  /\ WindowHoldsBreak
  /\ AnswerIsRight
  /\ CandidateIsUseful
  /\ InSearch => starts # <<>> /\ search.restore = starts[Len(starts)]
  /\ command = "reset" => InSearch
  /\ InSearch => search.lo >= 1

\* The record a search is.
Searches ==
  [lo: 0..(N + 1), hi: 0..N, current: 0..N, skipped: SUBSET Releases,
   outcome: Outcomes, restore: 0..N]

\* settle keeps everything but the outcome and the candidate; a window with the
\* break in it never reads "every release tested good".
LEMMA SettleEffect ==
  ASSUME NEW s \in Searches
  PROVE  /\ Settle(s) \in Searches
         /\ Settle(s).lo = s.lo /\ Settle(s).hi = s.hi /\ Settle(s).restore = s.restore
         /\ Settle(s).outcome # "none"
         /\ s.lo <= s.hi => Settle(s).outcome # "all-good"
         /\ Settle(s).outcome = "first-bad" => s.lo = s.hi
         /\ Settle(s).outcome = "open" => Settle(s).current \in Testable(Settle(s))
<1>0. N \in Nat
  BY BisectAssumption
<1>1. CASE s.lo > s.hi
  BY <1>0, <1>1 DEF Settle, Searches, Outcomes
<1>2. CASE s.lo = s.hi
  BY <1>0, <1>2 DEF Settle, Searches, Outcomes
<1>3. CASE s.lo < s.hi /\ Testable(s) = {}
  BY <1>0, <1>3 DEF Settle, Searches, Outcomes
<1>4. CASE s.lo < s.hi /\ Testable(s) # {}
  <2>1. NextCandidate(s) \in Testable(s)
    BY <1>0, <1>4, CandidateExists DEF Searches
  <2>2. NextCandidate(s) \in 0..N
    BY <1>0, <2>1 DEF Testable, Searches
  <2>3. Settle(s) = [s EXCEPT !.outcome = "open", !.current = NextCandidate(s)]
    BY <1>0, <1>4 DEF Settle, Searches
  <2>4. Testable(Settle(s)) = Testable(s)
    BY <2>3 DEF Testable, Searches
  <2> QED
    BY <1>4, <2>1, <2>2, <2>3, <2>4 DEF Searches, Outcomes
<1> QED
  BY <1>0, <1>1, <1>2, <1>3, <1>4 DEF Searches

\* It holds at the start.
LEMMA SearchInvInit == Init => SearchInv
  BY BisectAssumption DEF Init, SearchInv, TypeOK, WindowHoldsBreak, AnswerIsRight,
     CandidateIsUseful, InSearch, NoSearch, Outcomes, Releases, Nothing

\* A verdict about the candidate rules out no release that could be the break; one
\* about another release is remembered at the edge it moves.
LEMMA VerdictStep ==
  ASSUME SearchInv, NEW v \in Verdicts, Judge(v)
  PROVE  SearchInv'
<1> DEFINE s == CASE v = "good" -> [search EXCEPT !.lo = search.current + 1]
                  [] v = "bad"  -> [search EXCEPT !.hi = search.current]
                  [] v = "skip" -> [search EXCEPT !.skipped = @ \union {search.current}]
           wrong == {c \in {search.current} : v # "skip" /\ installed # c}
<1>0. N \in Nat /\ N >= 2 /\ search \in Searches /\ break \in 1..N /\ search.current \in 1..N
      /\ search.lo >= 1 /\ search.lo <= search.current /\ search.current < search.hi
  BY BisectAssumption DEF SearchInv, TypeOK, Searches, Releases, Judge, InSearch,
     CandidateIsUseful, Testable
<1>1. /\ search' = Settle(s) /\ UNCHANGED <<break, installed, starts>>
      /\ command' \in {"none", "install"} /\ misjudged' = misjudged \union wrong
  BY DEF Judge, MovedTo, Applied
<1>2. /\ InSearch /\ search.lo <= search.hi
      /\ break < search.lo => search.lo - 1 \in misjudged
      /\ break > search.hi => search.hi \in misjudged
  BY DEF Judge, SearchInv, WindowHoldsBreak, InSearch
<1>3. /\ s \in Searches /\ s.lo >= 1 /\ s.restore = search.restore /\ s.lo <= s.hi
      /\ break < s.lo => s.lo - 1 \in misjudged \union wrong
      /\ break > s.hi => s.hi \in misjudged \union wrong
  <2>1. CASE v = "good"
    <3>1. search.current \notin wrong => search.current < break
      BY <1>0, <2>1 DEF Judge, Truth, SearchInv, TypeOK
    <3>2. /\ s.lo = search.current + 1 /\ s.hi = search.hi /\ s.restore = search.restore
          /\ s \in Searches
      BY <1>0, <2>1 DEF Searches
    <3> HIDE DEF s, wrong
    <3> QED
      BY <1>0, <1>2, <3>1, <3>2 DEF Searches
  <2>2. CASE v = "bad"
    <3>1. search.current \notin wrong => search.current >= break
      BY <1>0, <2>2 DEF Judge, Truth, SearchInv, TypeOK
    <3>2. /\ s.lo = search.lo /\ s.hi = search.current /\ s.restore = search.restore
          /\ s \in Searches
      BY <1>0, <2>2 DEF Searches
    <3> HIDE DEF s, wrong
    <3> QED
      BY <1>0, <1>2, <3>1, <3>2 DEF Searches
  <2>3. CASE v = "skip"
    BY <1>0, <1>2, <2>3 DEF Searches, Releases
  <2> QED
    BY <2>1, <2>2, <2>3 DEF Verdicts
<1>4. wrong \subseteq Releases
  BY <1>0 DEF Releases
<1> HIDE DEF s, wrong
<1>5. /\ Settle(s) \in Searches /\ Settle(s).lo = s.lo /\ Settle(s).hi = s.hi
      /\ Settle(s).restore = s.restore
  BY <1>3, SettleEffect
<1>6. TypeOK'
  BY <1>1, <1>4, <1>5 DEF SearchInv, TypeOK, Searches, Releases
<1>7. WindowHoldsBreak'
  BY <1>1, <1>3, <1>5 DEF WindowHoldsBreak
<1>8. AnswerIsRight'
  <2>1. search'.outcome # "all-good" /\ (search'.outcome = "first-bad" => s.lo = s.hi)
    BY <1>1, <1>3, SettleEffect
  <2>2. s.lo \in Int /\ s.hi \in Int
    BY <1>3 DEF Searches
  <2>3. search'.outcome = "first-bad" => s.lo = break \/ {s.lo - 1, s.lo} \cap misjudged' # {}
    BY <1>0, <1>1, <1>3, <2>1, <2>2
  <2> QED
    BY <1>1, <1>5, <2>1, <2>3 DEF AnswerIsRight
<1>9. CandidateIsUseful'
  BY <1>1, <1>3, SettleEffect DEF CandidateIsUseful
<1>10. /\ (InSearch => starts # <<>> /\ search.restore = starts[Len(starts)])'
       /\ (command = "reset" => InSearch)' /\ (InSearch => search.lo >= 1)'
  BY <1>1, <1>2, <1>3, <1>5 DEF SearchInv
<1> QED
  BY <1>6, <1>7, <1>8, <1>9, <1>10 DEF SearchInv

\* A search that begins has every release in its window.
LEMMA StartStep ==
  ASSUME SearchInv, Start
  PROVE  SearchInv'
<1> DEFINE s == [lo |-> 1, hi |-> N, current |-> 0, skipped |-> {}, outcome |-> "none",
                 restore |-> installed]
<1>0. N \in Nat /\ N >= 2 /\ break \in 1..N /\ installed \in 0..N /\ starts \in Seq(0..N)
  BY BisectAssumption DEF SearchInv, TypeOK, Releases
<1>1. /\ search' = Settle(s) /\ UNCHANGED <<break, installed>>
      /\ command' \in {"none", "install"} /\ misjudged' = {} /\ starts' = Append(starts, installed)
  BY DEF Start, MovedTo, StartState
<1>2. s \in Searches /\ s.lo = 1 /\ s.hi = N /\ s.restore = installed
  BY <1>0 DEF Searches, Outcomes
<1> HIDE DEF s
<1>3. starts' \in Seq(0..N) /\ starts' # <<>> /\ starts'[Len(starts')] = installed
  BY <1>0, <1>1
<1>4. TypeOK'
  BY <1>0, <1>1, <1>2, <1>3, SettleEffect DEF SearchInv, TypeOK, Searches, Releases
<1>5. WindowHoldsBreak'
  BY <1>0, <1>1, <1>2, SettleEffect DEF WindowHoldsBreak
<1>6. AnswerIsRight'
  BY <1>0, <1>1, <1>2, SettleEffect DEF AnswerIsRight
<1>7. CandidateIsUseful'
  BY <1>1, <1>2, SettleEffect DEF CandidateIsUseful
<1>8. /\ (InSearch => starts # <<>> /\ search.restore = starts[Len(starts)])'
      /\ (command = "reset" => InSearch)' /\ (InSearch => search.lo >= 1)'
  BY <1>1, <1>2, <1>3, SettleEffect
<1> QED
  BY <1>4, <1>5, <1>6, <1>7, <1>8 DEF SearchInv

\* Steps that leave the search as it is.
LEMMA QuietStep ==
  ASSUME SearchInv, UNCHANGED <<break, search, misjudged, starts>>,
         installed' \in 0..N, command' \in {"none", "install", "reset"},
         command' = "reset" => InSearch
  PROVE  SearchInv'
BY DEF SearchInv, TypeOK, WindowHoldsBreak, AnswerIsRight, CandidateIsUseful, InSearch,
   Testable, Releases

\* Every step keeps it.
LEMMA SearchInvStep ==
  ASSUME SearchInv, [Next]_vars
  PROVE  SearchInv'
<1>0. N \in Nat /\ search.current \in 0..N /\ search.restore \in 0..N /\ Releases = 1..N
      /\ installed \in 0..N /\ command \in {"none", "install", "reset"}
  BY BisectAssumption DEF SearchInv, TypeOK, Releases
<1>1. CASE Start
  BY <1>1, StartStep
<1>2. CASE Installs
  BY <1>0, <1>2, QuietStep DEF Installs
<1>3. CASE Reset
  BY <1>0, <1>3, QuietStep DEF Reset
<1>4. CASE Restored
  BY <1>0, <1>4 DEF Restored, SearchInv, TypeOK, WindowHoldsBreak, AnswerIsRight,
     CandidateIsUseful, InSearch, NoSearch, Outcomes
<1>5. CASE Fails
  BY <1>0, <1>5, QuietStep DEF Fails
<1>6. CASE \E v \in Verdicts : Judge(v)
  BY <1>6, VerdictStep
<1>7. CASE \E r \in 0..N : Elsewhere(r)
  BY <1>0, <1>7, QuietStep DEF Elsewhere
<1>8. CASE UNCHANGED vars
  BY <1>0, <1>8, QuietStep DEF vars, SearchInv
<1> QED
  BY <1>1, <1>2, <1>3, <1>4, <1>5, <1>6, <1>7, <1>8 DEF Next

-----------------------------------------------------------------------------
(* The results, whatever the user judges and starts.                       *)

\* The strengthening the others follow from.
THEOREM SearchInvariant == Spec => []SearchInv
<1>1. SearchInv /\ [Next]_vars => SearchInv'
  BY SearchInvStep
<1> QED
  BY <1>1, SearchInvInit, PTL DEF Spec

\* The first broken release leaves the window only through a verdict about another
\* release than it was booked on, at the edge it left by; for any number of
\* releases, any break, and through skips, failed and killed commands, installs
\* made beside the search and searches started over one another.
THEOREM BreakStaysInWindow == Spec => []WindowHoldsBreak
<1>1. SearchInv => WindowHoldsBreak
  BY DEF SearchInv
<1> QED
  BY <1>1, SearchInvariant, PTL

\* The release a search names is the first broken one, unless one of the two
\* verdicts that single it out was about another release; and no search ends with
\* "every release tested good", whatever it was told.
THEOREM AnswersAreRight == Spec => []AnswerIsRight
<1>1. SearchInv => AnswerIsRight
  BY DEF SearchInv
<1> QED
  BY <1>1, SearchInvariant, PTL

\* The release put up for a verdict is always inside the window, below its
\* believed-bad end, and was never skipped, whatever the search was told.
THEOREM CandidatesAreUseful == Spec => []CandidateIsUseful
<1>1. SearchInv => CandidateIsUseful
  BY DEF SearchInv
<1> QED
  BY <1>1, SearchInvariant, PTL

\* A reset that succeeds leaves what was installed when the search it ends was
\* started.
THEOREM ResetsPutBack == Spec => ResetPutsBack
<1>1. SearchInv /\ [Next]_vars => [Restored => installed' = starts[Len(starts)]]_vars
  <2> SUFFICES ASSUME SearchInv, Restored PROVE installed' = starts[Len(starts)]
    OBVIOUS
  <2> QED
    BY DEF Restored, SearchInv
<1> QED
  BY <1>1, SearchInvariant, PTL DEF Spec, ResetPutsBack

-----------------------------------------------------------------------------
(* The files (Stores): the inductive invariant.                            *)

Content == [Stores!Cells[store] -> Stores!Values]
Held    == [kind : Stores!Kinds[store], k : Keys, v : Vals, seen : Content]

Types ==
  /\ store \in DOMAIN Stores!Cells
  /\ file \in Content /\ due \in Content /\ risky \subseteq Stores!Cells[store]
  /\ held \in [Writers -> Held \cup {None}]
  /\ memo \in [Writers -> Content \cup {None}]
  /\ fresh \subseteq Writers /\ ops \in 0..MaxOps

\* Off the risky cells the file says what the last change made it, and whoever
\* is in the middle of a change has read that.
NothingMissed ==
  \A c \in Stores!Cells[store] \ risky :
    /\ file[c] = due[c]
    /\ \A p \in Writers : held[p] # None => held[p].seen[c] = file[c]

\* Peers are whole in content s of fleet.json.
PeersAreWhole(s) == \A k \in Keys : (s[<<"secret", k>>] = None) <=> (s[<<"address", k>>] = None)

WholePeers ==
  store = "fleet" => /\ PeersAreWhole(file)
                     /\ \A p \in Writers : held[p] # None => PeersAreWhole(held[p].seen)

StoresInv == Types /\ NothingMissed /\ WholePeers

\* The invariant is stronger than what the runs check.
LEMMA StoresInvImplies == StoresInv => Stores!StoresAreSound
<1> SUFFICES ASSUME StoresInv PROVE Stores!StoresAreSound
  OBVIOUS
<1>1. Stores!TypeOK
  BY DEF StoresInv, Types, Stores!TypeOK, Held, Content
<1>2. Stores!ChangeStays /\ Stores!SecretGoesWithPeer
  BY DEF StoresInv, NothingMissed, WholePeers, PeersAreWhole, Stores!ChangeStays,
     Stores!SecretGoesWithPeer
<1> QED
  BY <1>1, <1>2 DEF Stores!StoresAreSound

\* The files a hub starts with, sound or absent.
LEMMA StoresInvInit == ASSUME Stores!StoresAssumption, Stores!Init PROVE StoresInv
<1>1. Stores!Blank \in Content
  BY DEF Stores!Blank, Content, Stores!Values
<1>2. Types
  BY <1>1 DEF Stores!Init, Types, Stores!StoresAssumption
<1>3. NothingMissed /\ WholePeers
  <2>1. store = "fleet" =>
          \A k \in Keys : /\ <<"secret", k>> \in Stores!Cells[store]
                          /\ <<"address", k>> \in Stores!Cells[store]
    BY DEF Stores!Cells
  <2> QED
  BY <2>1 DEF Stores!Init, NothingMissed, WholePeers, PeersAreWhole, Stores!Blank
<1> QED
  BY <1>2, <1>3 DEF StoresInv

\* What a change sets are cells of the file, to values of theirs.
LEMMA ChangeIsTyped ==
  ASSUME store \in DOMAIN Stores!Cells, NEW s \in Content,
         NEW kind \in Stores!Kinds[store], NEW k \in Keys, NEW v \in Vals
  PROVE  LET new == Stores!Change(kind, s, k, v)
         IN  /\ DOMAIN new \subseteq Stores!Cells[store]
             /\ \A c \in DOMAIN new : new[c] \in Stores!Values
<1>1. CASE store = "state"
  <2>1. Stores!Cells[store] = {"installed", "notified", "downloads", "crashes"} \X Keys
    BY <1>1 DEF Stores!Cells
  <2>2. CASE kind = "install"
    BY <2>1, <2>2 DEF Stores!Change, Stores!RecordInstall, Stores!Sets, Stores!Values
  <2>3. CASE kind = "uninstall"
    BY <2>1, <2>3 DEF Stores!Change, Stores!RemoveInstall, Stores!Sets, Stores!Values
  <2>4. CASE kind = "notify"
    BY <2>1, <2>4 DEF Stores!Change, Stores!MarkNotified, Stores!Sets, Stores!Values
  <2>5. CASE kind = "unnotify"
    BY <2>1, <2>5 DEF Stores!Change, Stores!ClearNotified, Stores!Sets, Stores!Values
  <2>6. CASE kind = "download"
    BY <2>1, <2>6 DEF Stores!Change, Stores!RecordDownload, Stores!Sets, Stores!Values
  <2>7. CASE kind = "undownload"
    BY <2>1, <2>7 DEF Stores!Change, Stores!RemoveDownload, Stores!Sets, Stores!Values
  <2>8. CASE kind = "clear downloads"
    BY <2>1, <2>8 DEF Stores!Change, Stores!ClearDownloads, Stores!Sets, Stores!Values
  <2>9. CASE kind = "crash"
    BY <2>1, <2>9 DEF Stores!Change, Stores!RecordCrash, Stores!Sets, Stores!Values,
       Stores!Counts
  <2>10. CASE kind = "no crash"
    BY <2>1, <2>10 DEF Stores!Change, Stores!ResetCrashes, Stores!Sets, Stores!Values
  <2> QED
    BY <1>1, <2>2, <2>3, <2>4, <2>5, <2>6, <2>7, <2>8, <2>9, <2>10 DEF Stores!Kinds
<1>2. CASE store = "settings"
  <2>1. Stores!Cells[store] = {"global"} \X Keys \union {"pref", "stamp"} \X Keys
    BY <1>2 DEF Stores!Cells
  <2>2. CASE kind = "save"
    BY <2>1, <2>2 DEF Stores!Change, Stores!SaveSettings, Stores!Sets, Stores!Values
  <2>3. CASE kind = "prefer"
    BY <2>1, <2>3 DEF Stores!Change, Stores!SetAppPref, Stores!Sets, Stores!Values
  <2>4. CASE kind = "import"
    BY <2>1, <2>4 DEF Stores!Change, Stores!ImportSettings, Stores!Sets, Stores!Values
  <2> QED
    BY <1>2, <2>2, <2>3, <2>4 DEF Stores!Kinds
<1>3. CASE store = "fleet"
  <2>1. Stores!Cells[store] = {Stores!IdCell} \union {"secret", "address"} \X Keys
    BY <1>3 DEF Stores!Cells
  <2>2. CASE kind = "pair"
    BY <2>1, <2>2 DEF Stores!Change, Stores!UpsertPeer, Stores!Sets, Stores!Values
  <2>3. CASE kind = "touch"
    BY <2>1, <2>3 DEF Stores!Change, Stores!TouchPeer, Stores!Sets, Stores!Values
  <2>4. CASE kind = "unpair"
    BY <2>1, <2>4 DEF Stores!Change, Stores!RemovePeer, Stores!Sets, Stores!Values
  <2> QED
    BY <1>3, <2>2, <2>3, <2>4 DEF Stores!Kinds
<1>4. CASE store = "dev"
  <2>1. Stores!Cells[store] = {"link"} \X Keys
    BY <1>4 DEF Stores!Cells
  <2>2. CASE kind = "link"
    BY <2>1, <2>2 DEF Stores!Change, Stores!Link, Stores!Sets, Stores!Values
  <2>3. CASE kind = "unlink"
    BY <2>1, <2>3 DEF Stores!Change, Stores!Unlink, Stores!Sets, Stores!Values
  <2> QED
    BY <1>4, <2>2, <2>3 DEF Stores!Kinds
<1> QED
  BY <1>1, <1>2, <1>3, <1>4 DEF Stores!Cells

\* A change of fleet.json leaves every peer whole.
LEMMA ChangeKeepsPeersWhole ==
  ASSUME Stores!StoresAssumption, store = "fleet", NEW s \in Content, PeersAreWhole(s),
         NEW kind \in Stores!Kinds[store], NEW k \in Keys, NEW v \in Vals
  PROVE  PeersAreWhole(Stores!With(s, Stores!Change(kind, s, k, v)))
<1>1. \A l \in Keys : /\ <<"secret", l>> \in Stores!Cells[store]
                      /\ <<"address", l>> \in Stores!Cells[store]
  BY DEF Stores!Cells
<1>2. v # None
  BY DEF Stores!StoresAssumption
<1>3. CASE kind = "pair"
  BY <1>1, <1>2, <1>3
     DEF PeersAreWhole, Stores!With, Stores!Change, Stores!UpsertPeer, Stores!Sets
<1>4. CASE kind = "touch"
  BY <1>1, <1>2, <1>4
     DEF PeersAreWhole, Stores!With, Stores!Change, Stores!TouchPeer, Stores!Sets
<1>5. CASE kind = "unpair"
  BY <1>1, <1>2, <1>5
     DEF PeersAreWhole, Stores!With, Stores!Change, Stores!RemovePeer, Stores!Sets
<1> QED
  BY <1>3, <1>4, <1>5 DEF Stores!Kinds

\* What a content and a change of it make is a content.
LEMMA WithIsContent ==
  ASSUME NEW s \in Content, NEW new, \A c \in DOMAIN new : new[c] \in Stores!Values
  PROVE  Stores!With(s, new) \in Content
  BY DEF Stores!With, Content

\* A process writes back what it has read with the cells it sets: what it writes
\* is what is due wherever nothing is at risk.
LEMMA RenamedStep ==
  ASSUME StoresInv, NEW p \in Writers, held[p] # None, NEW new,
         DOMAIN new \subseteq Stores!Cells[store], \A c \in DOMAIN new : new[c] \in Stores!Values,
         store = "fleet" => PeersAreWhole(Stores!With(held[p].seen, new)),
         Stores!Renamed(p, Stores!With(held[p].seen, new), new), UNCHANGED <<store, memo, ops>>,
         held' \in [Writers -> Held \cup {None}],
         \A q \in Writers \ {p} : held'[q] = held[q],
         held'[p] # None => held'[p].seen = file'
  PROVE  StoresInv'
<1> USE DEF StoresInv
<1> DEFINE s == held[p].seen
<1>1. s \in Content /\ held \in [Writers -> Held \cup {None}]
  BY DEF Types, Held
<1>2. /\ file' = Stores!With(s, new) /\ due' = Stores!With(due, new)
      /\ risky' = IF Stores!Others(p) THEN risky \union DOMAIN new ELSE risky \ DOMAIN new
      /\ fresh' \subseteq fresh
  BY DEF Stores!Renamed
<1>3. file' \in Content /\ due' \in Content
  BY <1>1, <1>2, WithIsContent DEF Types
<1>4. Types'
  BY <1>2, <1>3 DEF Types, Held, Content
<1>5. \A c \in Stores!Cells[store] : /\ file'[c] = IF c \in DOMAIN new THEN new[c] ELSE s[c]
                              /\ due'[c] = IF c \in DOMAIN new THEN new[c] ELSE due[c]
  BY <1>2 DEF Stores!With
<1>6. NothingMissed'
  <2> SUFFICES ASSUME NEW c \in Stores!Cells[store], c \notin risky'
               PROVE  /\ file'[c] = due'[c]
                      /\ \A q \in Writers : held'[q] # None => held'[q].seen[c] = file'[c]
    BY DEF NothingMissed
  <2>1. c \notin DOMAIN new => c \notin risky /\ s[c] = file[c] /\ file[c] = due[c]
    BY <1>2 DEF NothingMissed
  <2>2. ASSUME NEW q \in Writers \ {p}, held'[q] # None PROVE held'[q].seen[c] = file'[c]
    <3>1. Stores!Others(p) /\ c \notin DOMAIN new
      BY <1>2, <2>2 DEF Stores!Others
    <3> QED
      BY <1>5, <2>1, <2>2, <3>1 DEF NothingMissed
  <2> QED
    BY <1>5, <2>1, <2>2
<1>7. WholePeers'
  BY <1>2 DEF WholePeers, PeersAreWhole
<1> QED
  BY <1>4, <1>6, <1>7

\* A change begins with what its process reads, or remembers, of the file.
LEMMA ReadsStep ==
  ASSUME Stores!StoresAssumption, StoresInv, NEW p \in Writers,
         NEW kind \in Stores!Kinds[store], NEW k \in Keys, NEW v \in Vals,
         Stores!Reads(p, kind, k, v)
  PROVE  StoresInv'
<1> USE DEF StoresInv, Stores!Reads, Stores!ReadStore
<1>1. Types'
  BY DEF Types, Held, Content, Stores!StoresAssumption
<1>2. NothingMissed' /\ WholePeers'
  BY DEF Types, NothingMissed, WholePeers, PeersAreWhole
<1> QED
  BY <1>1, <1>2

\* The id of the hub, which the first read of fleet.json mints.
LEMMA MintsStep == ASSUME StoresInv, NEW p \in Writers, Stores!Mints(p) PROVE StoresInv'
<1>1. PICK id \in Vals :
        /\ held' = [held EXCEPT ![p].seen = Stores!With(@, Stores!Sets({Stores!IdCell}, id))]
        /\ Stores!Renamed(p, Stores!With(held[p].seen, Stores!Sets({Stores!IdCell}, id)),
                          Stores!Sets({Stores!IdCell}, id))
  BY DEF Stores!Mints
<1> DEFINE new == Stores!Sets({Stores!IdCell}, id)
<1>2. /\ store = "fleet" /\ held[p] # None /\ held[p] \in Held /\ held[p].seen \in Content
      /\ UNCHANGED <<store, memo, ops>>
  BY DEF Stores!Mints, StoresInv, Types, Held
<1>3. /\ Stores!IdCell \in Stores!Cells[store]
      /\ \A k \in Keys : /\ <<"secret", k>> # Stores!IdCell /\ <<"address", k>> # Stores!IdCell
                         /\ <<"secret", k>> \in Stores!Cells[store]
                         /\ <<"address", k>> \in Stores!Cells[store]
  BY <1>2 DEF Stores!Cells, Stores!IdCell
<1>4. DOMAIN new \subseteq Stores!Cells[store] /\ \A c \in DOMAIN new : new[c] \in Stores!Values
  BY <1>3 DEF Stores!Sets, Stores!Values
<1>5. PeersAreWhole(Stores!With(held[p].seen, new))
  BY <1>2, <1>3 DEF StoresInv, WholePeers, PeersAreWhole, Stores!With, Stores!Sets
<1>6. file' = Stores!With(held[p].seen, new)
  BY <1>1 DEF Stores!Renamed
<1>7. Stores!With(held[p].seen, new) \in Content
  BY <1>2, <1>4, WithIsContent
<1>8. /\ held' \in [Writers -> Held \cup {None}]
      /\ \A q \in Writers \ {p} : held'[q] = held[q]
      /\ held'[p].seen = file'
  BY <1>1, <1>2, <1>6, <1>7 DEF StoresInv, Types, Held
<1> QED
  BY <1>1, <1>2, <1>4, <1>5, <1>8, RenamedStep

\* The second read that the save of an app's preferences makes.
LEMMA RereadsStep == ASSUME StoresInv, NEW p \in Writers, Stores!Rereads(p) PROVE StoresInv'
<1> USE DEF StoresInv
<1> DEFINE new == [c \in Stores!Cells[store] |->
                     IF c[1] = "global" THEN file[c] ELSE held[p].seen[c]]
<1>1. /\ held[p] \in Held /\ held[p] # None /\ held[p].kind = "prefer"
      /\ held' = [held EXCEPT ![p].seen = new]
      /\ UNCHANGED <<store, file, memo, fresh, ops, due, risky>>
  BY DEF Stores!Rereads, Types
<1>2. new \in Content
  BY <1>1 DEF Types, Held, Content
<1>3. Types'
  BY <1>1, <1>2 DEF Types, Held, Content
<1>4. NothingMissed'
  BY <1>1 DEF Types, Held, NothingMissed
<1>5. store # "fleet"
  <2>1. "prefer" \in Stores!Kinds[store]
    BY <1>1 DEF Held
  <2>2. Stores!Kinds["fleet"] = {"pair", "touch", "unpair"}
    BY DEF Stores!Kinds
  <2> QED
    BY <2>1, <2>2
<1> QED
  BY <1>1, <1>3, <1>4, <1>5 DEF WholePeers

\* The write that follows a read some time later.
LEMMA WritesStep ==
  ASSUME Stores!StoresAssumption, StoresInv, NEW p \in Writers, Stores!Writes(p)
  PROVE  StoresInv'
<1> USE DEF StoresInv
<1> DEFINE h == held[p]
           new == Stores!Change(h.kind, h.seen, h.k, h.v)
<1>1. /\ h # None /\ h \in Held /\ store \in DOMAIN Stores!Cells
      /\ h.kind \in Stores!Kinds[store] /\ h.k \in Keys /\ h.v \in Vals /\ h.seen \in Content
      /\ held' = [held EXCEPT ![p] = None]
      /\ UNCHANGED <<store, memo, ops>>
  BY DEF Stores!Writes, Types, Held
<1>2. /\ held' \in [Writers -> Held \cup {None}] /\ held'[p] = None
      /\ \A q \in Writers \ {p} : held'[q] = held[q]
  BY <1>1 DEF Types
<1>3. CASE UNCHANGED <<file, due, risky, fresh>>
  BY <1>1, <1>2, <1>3 DEF Types, Held, Content, NothingMissed, WholePeers, PeersAreWhole
<1>4. CASE Stores!Renamed(p, Stores!With(h.seen, new), new)
  <2>1. DOMAIN new \subseteq Stores!Cells[store] /\ \A c \in DOMAIN new : new[c] \in Stores!Values
    BY <1>1, ChangeIsTyped
  <2>2. store = "fleet" => PeersAreWhole(Stores!With(h.seen, new))
    BY <1>1, ChangeKeepsPeersWhole DEF WholePeers
  <2> QED
    BY <1>1, <1>2, <1>4, <2>1, <2>2, RenamedStep
<1> QED
  BY <1>3, <1>4 DEF Stores!Writes

\* What never reaches the file.
LEMMA OtherSteps ==
  ASSUME StoresInv,
         \/ \E p \in Writers : Stores!Killed(p) \/ Stores!LinkFor(p)
         \/ Stores!Damaged \/ UNCHANGED Stores!vars
  PROVE  StoresInv'
<1> USE DEF StoresInv
<1>1. ASSUME NEW p \in Writers, Stores!Killed(p) PROVE StoresInv'
  BY <1>1 DEF Stores!Killed, Types, Held, Content, NothingMissed, WholePeers, PeersAreWhole
<1>2. ASSUME NEW p \in Writers, Stores!LinkFor(p) PROVE StoresInv'
  BY <1>2 DEF Stores!LinkFor, Types, Held, Content, NothingMissed, WholePeers, PeersAreWhole
<1>3. CASE Stores!Damaged
  <2>1. Stores!Blank \in Content
    BY DEF Stores!Blank, Content, Stores!Values
  <2>2. Types'
    BY <1>3, <2>1 DEF Stores!Damaged, Types, Held, Content
  <2>3. NothingMissed'
    BY <1>3 DEF Stores!Damaged, NothingMissed
  <2>4. store = "fleet" => PeersAreWhole(Stores!Blank)
    BY DEF PeersAreWhole, Stores!Blank, Stores!Cells
  <2> QED
    BY <1>3, <2>2, <2>3, <2>4 DEF Stores!Damaged, WholePeers, PeersAreWhole
<1>4. CASE UNCHANGED Stores!vars
  BY <1>4 DEF Stores!vars, Types, Held, Content, NothingMissed, WholePeers, PeersAreWhole
<1> QED
  BY <1>1, <1>2, <1>3, <1>4

\* Every step of every process.
LEMMA StoresStep ==
  ASSUME Stores!StoresAssumption, StoresInv, [Stores!Next]_Stores!vars
  PROVE  StoresInv'
BY ReadsStep, MintsStep, RereadsStep, WritesStep, OtherSteps DEF Stores!Next

\* What one process has finished stays, whatever others change beside it, unless
\* they had read the file before; and a peer is known whole or not at all
\* (writeJsonAtomic and the load, change, save of state.js, settings.js,
\* fleet/store.js and dev-links.js).
THEOREM StoresAreAlwaysSound == Stores!Spec => []StoresAreSound
<1>1. Stores!Init => StoresInv
  BY CommandsAssumption, StoresInvInit
<1>2. StoresInv /\ [Stores!Next]_Stores!vars => StoresInv'
  BY CommandsAssumption, StoresStep
<1>3. StoresInv => StoresAreSound
  BY StoresInvImplies DEF StoresAreSound
<1> QED
  BY <1>1, <1>2, <1>3, PTL DEF Stores!Spec
-----------------------------------------------------------------------------
(* The ladder (StopLadder).                                                  *)

\* A stop that began when the hub knew of one copy acts on nobody but the one it has asked.
SoleOnes == \A c \in sole : call[c].row.pid \in {None, call[c].asked}

\* A stop is for a process of its artifact, and who is on the bus was asked or came since.
Waits ==
  \A c \in Ladder!Wanted : call[c] # None =>
    /\ c \in Arts /\ call[c].row.pid # None => ArtOf[call[c].row.pid] = c
    /\ c \notin joined => client \in {None, call[c].asked}

\* The inductive invariant.
LadderInv == Ladder!TypeOK /\ SoleOnes /\ Waits

\* The assumptions on the constants, as the steps use them.
LEMMA LadderConstants ==
  /\ MaxProcs \in Nat /\ MaxHellos \in Nat /\ None \notin Nat /\ Ladder!Procs = 1..MaxProcs
  /\ None \notin Ladder!Procs /\ Cli \notin Ladder!Wanted /\ Unnamed \in Ladder!Wanted
  /\ \A p \in Ladder!Procs :
       p \in Nat /\ ArtOf[p] \in Arts /\ ArtOf[p] \in Ladder!Wanted /\ ArtOf[p] # Unnamed
  /\ Unnamed \notin Arts
<1>1. /\ MaxProcs \in Nat /\ MaxHellos \in Nat /\ None \notin Nat /\ Ladder!Procs = 1..MaxProcs
      /\ Cli \notin Ladder!Wanted /\ Unnamed \in Ladder!Wanted
      /\ \A p \in Ladder!Procs :
           ArtOf[p] \in Arts /\ ArtOf[p] \in Ladder!Wanted /\ ArtOf[p] # Unnamed
      /\ Unnamed \notin Arts
  BY CommandsAssumption DEF Ladder!LadderAssumption, Ladder!Procs, Ladder!Wanted
<1>2. \A p \in Ladder!Procs : p \in Nat
  BY <1>1
<1> QED
  BY <1>1, <1>2

\* Of some numbers that are bounded one is the largest.
LEMMA LargestNatural ==
  ASSUME NEW K \in Nat, NEW T \in SUBSET (0..K), T # {}
  PROVE  \E n \in T : \A m \in T : m <= n
<1> DEFINE U == {K - n : n \in T}
<1>0. \A n \in T : n \in Nat /\ K - n \in Nat
  OBVIOUS
<1>1. U \subseteq Nat /\ U # {}
  BY <1>0, Zenon
<1>2. PICK x \in U : \A y \in U : x <= y
  <2> HIDE DEF U
  <2> QED
    BY <1>1, LeastNatural
<1>4. PICK n \in T : x = K - n
  OBVIOUS
<1>5. ASSUME NEW m \in T PROVE m <= n
  <2>1. x <= K - m
    BY <1>2
  <2> QED
    BY <1>0, <1>4, <2>1
<1> QED
  BY <1>5

\* What a row of `running` says; a row that names an artifact is of a process of it.
Row == {r \in [art : Ladder!Wanted, pid : Ladder!Procs \union {None},
                since : 0..(2 * MaxProcs + 1), source : {"hub", "bus", "both"}] :
          r.art # Unnamed => r.pid \in Ladder!Procs /\ ArtOf[r.pid] = r.art}

\* Of some rows one is the newest.
LEMMA NewestRow ==
  ASSUME NEW rows \in SUBSET Row, rows # {}
  PROVE  /\ (CHOOSE r \in rows : \A q \in rows : q.since <= r.since) \in rows
         /\ \A q \in rows :
              q.since <= (CHOOSE r \in rows : \A q2 \in rows : q2.since <= r.since).since
<1> DEFINE K == 2 * MaxProcs + 1
           T == {r.since : r \in rows}
<1>1. K \in Nat
  BY LadderConstants
<1>2. T \in SUBSET (0..K) /\ T # {}
  BY DEF Row
<1>3. \E n \in T : \A m \in T : m <= n
  BY <1>1, <1>2, LargestNatural
<1>4. \E r \in rows : \A q \in rows : q.since <= r.since
  BY <1>3
<1> QED
  BY <1>4

\* The rows of the launches the hub watches are rows.
LEMMA HubRowsAreRows ==
  ASSUME NEW watched \in SUBSET Ladder!Procs PROVE Ladder!HubRows(watched) \in SUBSET Row
<1> SUFFICES ASSUME NEW p \in watched
             PROVE [art |-> ArtOf[p], pid |-> p, since |-> Ladder!Born(p), source |-> "hub"] \in Row
  BY DEF Ladder!HubRows
<1>1. p \in Ladder!Procs /\ Ladder!Born(p) \in 0..(2 * MaxProcs + 1)
  BY LadderConstants DEF Ladder!Born
<1> QED
  BY <1>1, LadderConstants DEF Row

\* And are so with the program on the bus folded in.
LEMMA FoldsAreRows ==
  ASSUME NEW rows \in SUBSET Row, NEW who \in Ladder!Procs \union {None}, NEW pidToo,
         NEW at \in 0..(2 * MaxProcs + 1)
  PROVE  Ladder!Fold(rows, who, pidToo, at) \in SUBSET Row
<1>1. CASE who = None
  BY <1>1 DEF Ladder!Fold
<1>2. CASE who # None /\ rows = {}
  BY <1>2, LadderConstants DEF Ladder!Fold, Row
<1>3. CASE who # None /\ rows # {}
  <2> DEFINE host == CHOOSE r \in rows : \A q \in rows : q.since <= r.since
  <2>1. host \in Row
    BY <1>3, NewestRow
  <2>2. Ladder!Fold(rows, who, pidToo, at) = (rows \ {host}) \union
          {[host EXCEPT !.source = "both", !.since = IF at < host.since THEN at ELSE host.since]}
    BY <1>3 DEF Ladder!Fold
  <2> HIDE DEF host
  <2>3. [host EXCEPT !.source = "both",
                     !.since = IF at < host.since THEN at ELSE host.since] \in Row
    BY <2>1 DEF Row
  <2> QED
    BY <2>2, <2>3
<1> QED
  BY <1>1, <1>2, <1>3

\* The window's rows.
LEMMA RowsAreRows ==
  ASSUME Ladder!TypeOK, NEW c \in Ladder!Wanted PROVE Ladder!Rows(c) \in SUBSET Row
<1>1. 2 * since + 1 \in 0..(2 * MaxProcs + 1)
  BY LadderConstants DEF Ladder!TypeOK
<1>2. tracked \in SUBSET Ladder!Procs /\ client \in Ladder!Procs \union {None}
  BY DEF Ladder!TypeOK
<1>3. Ladder!Rows(c) = Ladder!Fold(Ladder!HubRows(tracked), client, tells, 2 * since + 1)
  BY LadderConstants DEF Ladder!Rows
<1> QED
  BY <1>1, <1>2, <1>3, HubRowsAreRows, FoldsAreRows

\* What a stop acts on is one of the rows, if there is one.
LEMMA TargetIsARow ==
  ASSUME Ladder!TypeOK, NEW c \in Ladder!Wanted
  PROVE  \/ /\ Ladder!Target(c, c) = Ladder!NoRow
            /\ \A r \in Ladder!Rows(c) : c # Unnamed /\ r.art # c
         \/ \E r \in Ladder!Rows(c) : /\ Ladder!Target(c, c) = [art |-> r.art, pid |-> r.pid]
                                      /\ c # Unnamed => r.art = c
<1> DEFINE rows == {r \in Ladder!Rows(c) : c # Unnamed => r.art = c}
           able == {r \in rows : Ladder!CanStop(r)}
           pool == IF able # {} /\ c = Unnamed THEN able ELSE rows
           r0   == CHOOSE r \in pool : \A q \in pool : q.since <= r.since
<1>1. /\ pool \in SUBSET Row /\ (pool = {} => rows = {}) /\ pool \subseteq Ladder!Rows(c)
      /\ \A r \in pool : c # Unnamed => r.art = c
  BY RowsAreRows
<1>2. Ladder!Target(c, c) = IF pool = {} THEN Ladder!NoRow ELSE [art |-> r0.art, pid |-> r0.pid]
  BY DEF Ladder!Target
<1>3. CASE pool = {}
  BY <1>1, <1>2, <1>3
<1>4. CASE pool # {}
  <2>1. r0 \in pool
    BY <1>1, <1>4, NewestRow
  <2> HIDE DEF r0
  <2> QED
    BY <1>1, <1>2, <1>4, <2>1
<1> QED
  BY <1>3, <1>4

\* What a stop acts on has the type of what it remembers, and is of its artifact.
LEMMA TargetIsTyped ==
  ASSUME Ladder!TypeOK, NEW c \in Ladder!Wanted
  PROVE  /\ Ladder!Target(c, c) \in Ladder!RowSet
         /\ c \in Arts /\ Ladder!Target(c, c).pid # None => ArtOf[Ladder!Target(c, c).pid] = c
<1>1. CASE Ladder!Target(c, c) = Ladder!NoRow
  BY <1>1, LadderConstants DEF Ladder!NoRow, Ladder!RowSet
<1>2. CASE \E r \in Ladder!Rows(c) : /\ Ladder!Target(c, c) = [art |-> r.art, pid |-> r.pid]
                                     /\ c # Unnamed => r.art = c
  <2>1. PICK r \in Row : /\ Ladder!Target(c, c) = [art |-> r.art, pid |-> r.pid]
                         /\ c # Unnamed => r.art = c
    BY <1>2, RowsAreRows
  <2> QED
    BY <2>1, LadderConstants DEF Row, Ladder!RowSet
<1> QED
  BY <1>1, <1>2, TargetIsARow

\* Where the hub watches nobody but the program on the bus, all rows are of that one.
LEMMA SoleRow ==
  ASSUME Ladder!TypeOK, NEW c \in Ladder!Wanted, tracked \subseteq {client}, client # None
  PROVE  Ladder!Target(c, c).pid \in {None, client}
<1>1. tracked \in SUBSET Ladder!Procs /\ client \in Ladder!Procs
  BY DEF Ladder!TypeOK
<1> DEFINE H == Ladder!HubRows(tracked)
<1>3. \A r \in H : r.pid = client
  BY DEF Ladder!HubRows
<1>4. H \in SUBSET Row
  BY <1>1, HubRowsAreRows
<1> DEFINE F == Ladder!Fold(H, client, tells, 2 * since + 1)
<1>5. Ladder!Rows(c) = F
  BY LadderConstants DEF Ladder!Rows
<1> HIDE DEF H
<1>6. \A r \in F : r.pid \in {None, client}
  <2>1. CASE H = {}
    BY <2>1, LadderConstants DEF Ladder!Fold
  <2>2. CASE H # {}
    <3> DEFINE host == CHOOSE r \in H : \A q \in H : q.since <= r.since
               at   == 2 * since + 1
               new  == [host EXCEPT !.source = "both",
                                    !.since = IF at < host.since THEN at ELSE host.since]
    <3>1. host \in H /\ host \in Row
      BY <1>4, <2>2, NewestRow
    <3>2. F = (H \ {host}) \union {new}
      BY <2>2 DEF Ladder!Fold
    <3>3. new.pid = host.pid
      <4> HIDE DEF host
      <4> QED
        BY <3>1 DEF Row
    <3> HIDE DEF host, new
    <3> QED
      BY <1>3, <3>1, <3>2, <3>3
  <2> QED
    BY <2>1, <2>2
<1> HIDE DEF F
<1>7. CASE Ladder!Target(c, c) = Ladder!NoRow
  BY <1>7 DEF Ladder!NoRow
<1>8. CASE \E r \in Ladder!Rows(c) : Ladder!Target(c, c) = [art |-> r.art, pid |-> r.pid]
  BY <1>5, <1>6, <1>8
<1> QED
  BY <1>7, <1>8, TargetIsARow

\* Before the first launch nothing runs and no stop waits.
LEMMA LadderInvInit == Ladder!Init => LadderInv
<1> SUFFICES ASSUME Ladder!Init PROVE LadderInv
  OBVIOUS
<1>1. /\ up \subseteq Ladder!Procs /\ begun \in 0..MaxProcs /\ tracked \subseteq Ladder!Procs
      /\ client \in Ladder!Procs \union {None} /\ since \in 0..MaxProcs
      /\ hellos \in 0..MaxHellos
      /\ signalled \subseteq Ladder!Procs /\ sole \subseteq Ladder!Wanted
      /\ joined \subseteq Ladder!Wanted
      /\ pending \subseteq Ladder!Wanted
  BY LadderConstants DEF Ladder!Init
<1>2. tells \in BOOLEAN /\ shown \in BOOLEAN
  BY Zenon DEF Ladder!Init
<1>3. snapshot \in [who : Ladder!Procs \union {None}, tells : BOOLEAN]
  BY DEF Ladder!Init
<1>4. call \in [Ladder!Wanted -> {None} \union [row : Ladder!RowSet, asked : Ladder!Procs]]
  BY DEF Ladder!Init
<1>5. SoleOnes /\ Waits
  BY DEF Ladder!Init, SoleOnes, Waits
<1> QED
  BY <1>1, <1>2, <1>3, <1>4, <1>5, Zenon DEF LadderInv, Ladder!TypeOK

\* A stop only ever signals what runs.
LEMMA SigtermIsForWhatRuns ==
  ASSUME NEW c, NEW row, NEW hasAsked, Ladder!Verdict(c, row, hasAsked).how = "sigterm"
  PROVE  row.pid \in up
BY DEF Ladder!Verdict, Ladder!Says

\* An answer changes nothing but what the stop itself has.
LEMMA AnswersStep ==
  ASSUME LadderInv, NEW c, NEW row, NEW hasAsked, Ladder!Answers(c, row, hasAsked)
  PROVE  LadderInv'
<1> USE DEF LadderInv
<1>1. UNCHANGED <<up, begun, tracked, client, tells, since, hellos, snapshot>>
  BY DEF Ladder!Answers, Ladder!hubVars, Ladder!procVars
<1>2. signalled' \subseteq Ladder!Procs
  BY SigtermIsForWhatRuns DEF Ladder!Answers, Ladder!TypeOK
<1>3. /\ call' = [k \in Ladder!Wanted |-> IF k = c THEN None ELSE call[k]]
      /\ pending' = pending \ {c} /\ sole' = sole \ {c} /\ joined' = joined \ {c}
  BY DEF Ladder!Answers
<1>4. call' \in [Ladder!Wanted -> {None} \union [row : Ladder!RowSet, asked : Ladder!Procs]]
  <2>1. \A k \in Ladder!Wanted :
           call[k] \in {None} \union [row : Ladder!RowSet, asked : Ladder!Procs]
    BY DEF Ladder!TypeOK
  <2> QED
    BY <1>3, <2>1
<1>5. shown' \in BOOLEAN
  <2>1. shown' = shown \/ shown' = (Ladder!Rows(c) # {})
    BY Zenon DEF Ladder!Answers
  <2>2. (Ladder!Rows(c) # {}) \in BOOLEAN /\ shown \in BOOLEAN
    BY Zenon DEF Ladder!TypeOK
  <2> QED
    BY <2>1, <2>2, Zenon
<1>6. SoleOnes' /\ Waits'
  <2>1. \A k \in Ladder!Wanted : call'[k] # None => k # c /\ call'[k] = call[k]
    BY <1>3
  <2>2. \A k \in sole' : call'[k] = call[k]
    BY <1>3 DEF Ladder!TypeOK
  <2> QED
    BY <1>1, <1>3, <2>1, <2>2 DEF SoleOnes, Waits
<1>7. sole' \subseteq Ladder!Wanted /\ joined' \subseteq Ladder!Wanted
      /\ pending' \subseteq Ladder!Wanted
  BY <1>3 DEF Ladder!TypeOK
<1> QED
  BY <1>1, <1>2, <1>4, <1>5, <1>6, <1>7, Zenon DEF Ladder!TypeOK

\* Nobody comes to the bus and the stops wait on.
LEMMA WaitsOn ==
  ASSUME LadderInv, up' \subseteq Ladder!Procs, begun' \in 0..MaxProcs,
         tracked' \subseteq Ladder!Procs, client' \in {client, None},
         tells' \in BOOLEAN, since' \in 0..MaxProcs, hellos' \in 0..MaxHellos,
         snapshot' \in [who : Ladder!Procs \union {None}, tells : BOOLEAN],
         signalled' \subseteq Ladder!Procs, UNCHANGED Ladder!callVars
  PROVE  LadderInv'
<1>1. client' \in Ladder!Procs \union {None}
  BY DEF LadderInv, Ladder!TypeOK
<1>2. Ladder!TypeOK'
  BY <1>1, Zenon DEF LadderInv, Ladder!TypeOK, Ladder!callVars
<1>3. UNCHANGED <<call, sole, joined>>
  BY DEF Ladder!callVars
<1> QED
  BY <1>2, <1>3 DEF LadderInv, SoleOnes, Waits

\* A click remembers the row it acts on and whom it asks.
LEMMA ClickStep == ASSUME LadderInv, NEW w \in Ladder!Wanted, Ladder!Click(w) PROVE LadderInv'
<1> USE DEF LadderInv
<1>1. CASE Ladder!Present(w)
  <2>1. /\ call' = [call EXCEPT ![w] = [row |-> Ladder!Target(w, w), asked |-> client]]
        /\ sole' = IF tracked \subseteq {client} THEN sole \union {w} ELSE sole \ {w}
        /\ pending' = pending \union {w}
        /\ UNCHANGED <<Ladder!hubVars, Ladder!procVars, signalled, joined, shown>>
    BY <1>1 DEF Ladder!Click
  <2>2. client \in Ladder!Procs /\ client # None
    BY <1>1, LadderConstants DEF Ladder!Present, Ladder!TypeOK
  <2>3. [row |-> Ladder!Target(w, w), asked |-> client]
          \in [row : Ladder!RowSet, asked : Ladder!Procs]
    BY <2>2, TargetIsTyped
  <2>4. call' \in [Ladder!Wanted -> {None} \union [row : Ladder!RowSet, asked : Ladder!Procs]]
    BY <2>1, <2>3 DEF Ladder!TypeOK
  <2>5. sole' \subseteq Ladder!Wanted /\ pending' \subseteq Ladder!Wanted
    BY <2>1 DEF Ladder!TypeOK
  <2>6. Ladder!TypeOK'
    BY <2>1, <2>4, <2>5, Zenon DEF Ladder!TypeOK, Ladder!hubVars, Ladder!procVars
  <2>7. /\ call'[w] = [row |-> Ladder!Target(w, w), asked |-> client]
        /\ \A k \in Ladder!Wanted \ {w} : call'[k] = call[k]
    BY <2>1 DEF Ladder!TypeOK
  <2>8. SoleOnes'
    <3> SUFFICES ASSUME NEW k \in sole' PROVE call'[k].row.pid \in {None, call'[k].asked}
      BY DEF SoleOnes
    <3>1. CASE k = w /\ tracked \subseteq {client}
      BY <2>2, <2>7, <3>1, SoleRow
    <3>2. CASE k \in sole /\ k # w
      BY <2>7, <3>2 DEF SoleOnes, Ladder!TypeOK
    <3> QED
      BY <2>1, <3>1, <3>2
  <2>9. Waits'
    <3> SUFFICES ASSUME NEW k \in Ladder!Wanted, call'[k] # None
                 PROVE  /\ k \in Arts /\ call'[k].row.pid # None => ArtOf[call'[k].row.pid] = k
                        /\ k \notin joined' => client' \in {None, call'[k].asked}
      BY DEF Waits
    <3>1. UNCHANGED <<client, joined>>
      BY <2>1 DEF Ladder!hubVars
    <3>2. CASE k = w
      BY <2>7, <3>1, <3>2, TargetIsTyped
    <3>3. CASE k # w
      BY <2>7, <3>1, <3>3 DEF Waits
    <3> QED
      BY <3>2, <3>3
  <2> QED
    BY <2>6, <2>8, <2>9
<1>2. CASE ~Ladder!Present(w)
  BY <1>2, AnswersStep DEF Ladder!Click
<1> QED
  BY <1>1, <1>2

\* A program is launched.
LEMMA LaunchedStep ==
  ASSUME LadderInv, NEW watched \in BOOLEAN, Ladder!Launched(watched) PROVE LadderInv'
<1>1. begun' \in 0..MaxProcs /\ begun' \in Ladder!Procs
  BY LadderConstants DEF Ladder!Launched, LadderInv, Ladder!TypeOK
<1>2. up' \subseteq Ladder!Procs /\ tracked' \subseteq Ladder!Procs
  BY <1>1 DEF Ladder!Launched, LadderInv, Ladder!TypeOK
<1>3. UNCHANGED <<client, tells, since, hellos, snapshot, signalled, Ladder!callVars>>
  BY DEF Ladder!Launched
<1>4. /\ tells' \in BOOLEAN /\ since' \in 0..MaxProcs /\ hellos' \in 0..MaxHellos
      /\ snapshot' \in [who : Ladder!Procs \union {None}, tells : BOOLEAN]
      /\ signalled' \subseteq Ladder!Procs
  BY <1>3, Zenon DEF LadderInv, Ladder!TypeOK
<1> QED
  BY <1>1, <1>2, <1>3, <1>4, WaitsOn

\* A process ends.
LEMMA ExitsStep == ASSUME LadderInv, NEW p \in Ladder!Procs, Ladder!Exits(p) PROVE LadderInv'
<1>1. /\ up' \subseteq up /\ signalled' \subseteq signalled
      /\ UNCHANGED <<tracked, client, tells, since, begun, hellos, snapshot, Ladder!callVars>>
  BY DEF Ladder!Exits, Ladder!hubVars
<1>2. /\ up' \subseteq Ladder!Procs /\ signalled' \subseteq Ladder!Procs
  BY <1>1 DEF LadderInv, Ladder!TypeOK
<1>3. /\ begun' \in 0..MaxProcs /\ tracked' \subseteq Ladder!Procs
      /\ client' \in {client, None} /\ tells' \in BOOLEAN
      /\ since' \in 0..MaxProcs
      /\ hellos' \in 0..MaxHellos
      /\ snapshot' \in [who : Ladder!Procs \union {None}, tells : BOOLEAN]
  BY <1>1, Zenon DEF LadderInv, Ladder!TypeOK
<1> QED
  BY <1>1, <1>2, <1>3, WaitsOn

\* The hub sees it.
LEMMA ExitSeenStep == ASSUME LadderInv, NEW p \in Ladder!Procs, Ladder!ExitSeen(p) PROVE LadderInv'
<1>1. /\ tracked' \subseteq tracked
      /\ UNCHANGED <<up, signalled, client, tells, since, begun, hellos, snapshot, Ladder!callVars>>
  BY DEF Ladder!ExitSeen, Ladder!procVars
<1>2. /\ tracked' \subseteq Ladder!Procs
  BY <1>1 DEF LadderInv, Ladder!TypeOK
<1>3. /\ up' \subseteq Ladder!Procs /\ begun' \in 0..MaxProcs /\ signalled' \subseteq Ladder!Procs
      /\ client' \in {client, None} /\ tells' \in BOOLEAN
      /\ since' \in 0..MaxProcs
      /\ hellos' \in 0..MaxHellos
      /\ snapshot' \in [who : Ladder!Procs \union {None}, tells : BOOLEAN]
  BY <1>1, Zenon DEF LadderInv, Ladder!TypeOK
<1> QED
  BY <1>1, <1>2, <1>3, WaitsOn

\* A program that runs says hello.
LEMMA HelloStep ==
  ASSUME LadderInv, NEW p \in Ladder!Procs, NEW withPid \in BOOLEAN, Ladder!Hello(p, withPid)
  PROVE LadderInv'
<1>1. /\ client' = p /\ tells' = withPid /\ since' = begun
      /\ hellos < MaxHellos /\ hellos' = hellos + 1
      /\ joined' = {c \in Ladder!Wanted : call[c] # None}
      /\ UNCHANGED <<tracked, up, begun, snapshot, signalled, call, sole, shown, pending>>
  BY DEF Ladder!Hello
<1>2. /\ since' \in 0..MaxProcs /\ hellos' \in 0..MaxHellos /\ joined' \subseteq Ladder!Wanted
      /\ client' \in Ladder!Procs \union {None} /\ tells' \in BOOLEAN
  BY <1>1, LadderConstants DEF LadderInv, Ladder!TypeOK
<1>3. Ladder!TypeOK'
  BY <1>1, <1>2, Zenon DEF LadderInv, Ladder!TypeOK
<1>4. SoleOnes' /\ Waits'
  BY <1>1 DEF LadderInv, SoleOnes, Waits
<1> QED
  BY <1>3, <1>4 DEF LadderInv

\* It leaves the bus.
LEMMA LeavesBusStep == ASSUME LadderInv, Ladder!LeavesBus PROVE LadderInv'
<1>1. /\ client' = None /\ tells' = FALSE /\ since' = 0
      /\ UNCHANGED <<tracked, up, begun, hellos, snapshot, signalled, Ladder!callVars>>
  BY DEF Ladder!LeavesBus, Ladder!procVars
<1>2. client' \in {client, None} /\ since' \in 0..MaxProcs
  BY <1>1, LadderConstants
<1>4. tells' \in BOOLEAN
  BY <1>1, Zenon
<1>3. /\ up' \subseteq Ladder!Procs /\ begun' \in 0..MaxProcs /\ tracked' \subseteq Ladder!Procs
      /\ hellos' \in 0..MaxHellos /\ signalled' \subseteq Ladder!Procs
      /\ snapshot' \in [who : Ladder!Procs \union {None}, tells : BOOLEAN]
  BY <1>1, Zenon DEF LadderInv, Ladder!TypeOK
<1> QED
  BY <1>1, <1>2, <1>3, <1>4, WaitsOn

\* The hub writes who is on the bus.
LEMMA FileWrittenStep == ASSUME LadderInv, Ladder!FileWritten PROVE LadderInv'
<1>1. /\ snapshot' = [who |-> client, tells |-> tells]
      /\ UNCHANGED <<tracked, client, tells, since, up, begun, hellos, signalled, Ladder!callVars>>
  BY DEF Ladder!FileWritten, Ladder!hubVars
<1>2. snapshot' \in [who : Ladder!Procs \union {None}, tells : BOOLEAN]
  BY <1>1 DEF LadderInv, Ladder!TypeOK
<1>3. /\ up' \subseteq Ladder!Procs /\ begun' \in 0..MaxProcs /\ tracked' \subseteq Ladder!Procs
      /\ client' \in {client, None} /\ tells' \in BOOLEAN /\ since' \in 0..MaxProcs
      /\ hellos' \in 0..MaxHellos /\ signalled' \subseteq Ladder!Procs
  BY <1>1, Zenon DEF LadderInv, Ladder!TypeOK
<1> QED
  BY <1>1, <1>2, <1>3, WaitsOn

\* The window is a new one.
LEMMA HubRestartsStep == ASSUME LadderInv, Ladder!HubRestarts PROVE LadderInv'
<1>1. /\ tracked' = {} /\ client' = None /\ tells' = FALSE /\ since' = 0
      /\ call' = [c \in Ladder!Wanted |-> None] /\ sole' = {} /\ joined' = {}
      /\ shown' = FALSE /\ pending' = {}
      /\ UNCHANGED <<up, begun, hellos, snapshot, signalled>>
  BY DEF Ladder!HubRestarts, Ladder!procVars
<1>2. /\ tracked' \subseteq Ladder!Procs /\ client' \in Ladder!Procs \union {None}
      /\ sole' \subseteq Ladder!Wanted /\ joined' \subseteq Ladder!Wanted
      /\ pending' \subseteq Ladder!Wanted
      /\ call' \in [Ladder!Wanted -> {None} \union [row : Ladder!RowSet, asked : Ladder!Procs]]
  BY <1>1
<1>5. since' \in 0..MaxProcs
  BY <1>1, LadderConstants
<1>3. tells' \in BOOLEAN /\ shown' \in BOOLEAN
  BY <1>1, Zenon
<1>4. SoleOnes' /\ Waits'
  BY <1>1 DEF SoleOnes, Waits
<1> QED
  BY <1>1, <1>2, <1>3, <1>4, <1>5, Zenon DEF LadderInv, Ladder!TypeOK

\* A redraw frees controls.
LEMMA DrawsStep == ASSUME LadderInv, Ladder!Draws PROVE LadderInv'
<1>1. UNCHANGED <<Ladder!hubVars, Ladder!procVars, signalled, call, sole, joined>>
  BY DEF Ladder!Draws
<1>2. pending' \subseteq Ladder!Wanted
  BY DEF Ladder!Draws, LadderInv, Ladder!TypeOK
<1>3. shown' \in BOOLEAN
  BY Zenon DEF Ladder!Draws
<1>4. SoleOnes' /\ Waits'
  BY <1>1 DEF SoleOnes, Waits, Ladder!hubVars, LadderInv
<1> QED
  BY <1>1, <1>2, <1>3, <1>4, Zenon DEF LadderInv, Ladder!TypeOK, Ladder!hubVars, Ladder!procVars

\* Every step keeps the invariant.
LEMMA LadderInvStep == ASSUME LadderInv, [Ladder!Next]_Ladder!vars PROVE LadderInv'
<1>1. ASSUME NEW w \in Ladder!Wanted,
             Ladder!Click(w) \/ Ladder!NxStop(w) \/ Ladder!Departed(w) \/ Ladder!WaitIsOver(w)
      PROVE  LadderInv'
  <2>1. CASE Ladder!Click(w)
    BY <2>1, ClickStep
  <2>2. CASE Ladder!NxStop(w)
    BY <2>2, AnswersStep DEF Ladder!NxStop
  <2>3. CASE Ladder!Departed(w)
    BY <2>3, AnswersStep DEF Ladder!Departed
  <2>4. CASE Ladder!WaitIsOver(w)
    BY <2>4, AnswersStep DEF Ladder!WaitIsOver
  <2> QED
    BY <1>1, <2>1, <2>2, <2>3, <2>4
<1>2. CASE \E watched \in BOOLEAN : Ladder!Launched(watched)
  BY <1>2, LaunchedStep
<1>3. CASE \E p \in Ladder!Procs, withPid \in BOOLEAN : Ladder!Hello(p, withPid)
  BY <1>3, HelloStep
<1>4. CASE \E p \in Ladder!Procs : Ladder!Exits(p) \/ Ladder!ExitSeen(p)
  BY <1>4, ExitsStep, ExitSeenStep
<1>5. CASE Ladder!Draws \/ Ladder!LeavesBus \/ Ladder!FileWritten \/ Ladder!HubRestarts
  BY <1>5, DrawsStep, LeavesBusStep, FileWrittenStep, HubRestartsStep
<1>6. CASE UNCHANGED Ladder!vars
  BY <1>6, Zenon
     DEF Ladder!vars, Ladder!hubVars, Ladder!procVars, Ladder!callVars,
         LadderInv, Ladder!TypeOK, SoleOnes, Waits
<1> QED
  BY <1>1, <1>2, <1>3, <1>4, <1>5, <1>6 DEF Ladder!Next

\* What a stop would say now is true.
LEMMA StopsSayTheTruth == LadderInv => Ladder!SaysTheTruth
<1> SUFFICES ASSUME LadderInv, NEW c \in Ladder!Wanted
             PROVE  /\ Ladder!Due(c, TRUE) =>
                          LET pid == call[c].row.pid
                          IN  \/ pid \in Ladder!Procs \ up
                              \/ client # None /\ pid \in up
                              \/ client = None /\ (c \in sole => pid \in {None, call[c].asked})
                    /\ Ladder!Due(c, FALSE) => client # None
  BY DEF Ladder!SaysTheTruth
<1> DEFINE pid == call[c].row.pid
<1>1. Ladder!Present(c) <=> client # None
  BY LadderConstants DEF Ladder!Present
<1>2. ASSUME Ladder!Due(c, FALSE) PROVE client # None
  BY <1>1, <1>2 DEF Ladder!Due, Ladder!Verdict, Ladder!Says
<1>3. ASSUME Ladder!Due(c, TRUE), client # None
      PROVE  pid \in Ladder!Procs \ up \/ pid \in up
  <2>1. pid # None
    BY <1>1, <1>3 DEF Ladder!Due, Ladder!Verdict, Ladder!Says
  <2>2. call[c] \in [row : Ladder!RowSet, asked : Ladder!Procs]
    BY <1>3 DEF Ladder!Due, LadderInv, Ladder!TypeOK
  <2> QED
    BY <2>1, <2>2 DEF Ladder!RowSet
<1>4. c \in sole => pid \in {None, call[c].asked}
  BY DEF LadderInv, SoleOnes
<1> QED
  BY <1>2, <1>3, <1>4

\* A launch the hub watches has a row, or a newer one of its artifact has.
LEMMA WatchedIsShown ==
  ASSUME NEW watched \in SUBSET Ladder!Procs, NEW p \in watched
  PROVE  \E r \in Ladder!HubRows(watched) : r.art = ArtOf[p]
<1> DEFINE T == {q \in watched : ArtOf[q] = ArtOf[p]}
<1>0. \A q \in Ladder!Procs : q \in 0..MaxProcs
  BY LadderConstants
<1>1. T \in SUBSET (0..MaxProcs) /\ T # {} /\ MaxProcs \in Nat
  BY <1>0, LadderConstants, Zenon
<1>2. PICK n \in T : \A m \in T : m <= n
  <2> HIDE DEF T
  <2> QED
    BY <1>1, LargestNatural
<1>3. n \in watched /\ ArtOf[n] = ArtOf[p]
  OBVIOUS
<1>4. \A q \in watched : ArtOf[q] = ArtOf[n] => Ladder!Born(q) <= Ladder!Born(n)
  BY <1>2, <1>3, LadderConstants DEF Ladder!Born
<1>5. [art |-> ArtOf[n], pid |-> n, since |-> Ladder!Born(n), source |-> "hub"]
        \in Ladder!HubRows(watched)
  BY <1>3, <1>4 DEF Ladder!HubRows
<1> QED
  BY <1>3, <1>5

\* "Not running" is said when nothing is there that could be ended.
LEMMA NotRunningIsTrue == LadderInv => Ladder!NothingRuns
<1> SUFFICES ASSUME LadderInv, NEW c \in Ladder!Wanted,
                    Ladder!Verdict(c, Ladder!Target(c, c), FALSE).how = "not-running"
             PROVE  client = None /\ \A p \in tracked : c \notin {Unnamed, ArtOf[p]}
  BY DEF Ladder!NothingRuns
<1>1. Ladder!Target(c, c).pid = None /\ ~Ladder!Present(c)
  BY DEF Ladder!Verdict, Ladder!Says
<1>2. client = None
  BY <1>1, LadderConstants DEF Ladder!Present
<1>3. Ladder!Rows(c) = Ladder!HubRows(tracked)
  BY <1>2, LadderConstants DEF Ladder!Rows, Ladder!Fold
<1>4. tracked \in SUBSET Ladder!Procs
  BY DEF LadderInv, Ladder!TypeOK
<1>5. \A r \in Ladder!HubRows(tracked) : r.pid \in Ladder!Procs
  BY <1>4 DEF Ladder!HubRows
<1>6. \A r \in Ladder!Rows(c) : c # Unnamed /\ r.art # c
  <2>1. CASE \E r \in Ladder!Rows(c) : Ladder!Target(c, c) = [art |-> r.art, pid |-> r.pid]
    BY <1>1, <1>3, <1>5, <2>1, LadderConstants
  <2> QED
    BY <2>1, TargetIsARow DEF LadderInv
<1>7. ASSUME NEW p \in tracked PROVE c \notin {Unnamed, ArtOf[p]}
  BY <1>3, <1>4, <1>6, <1>7, WatchedIsShown
<1> QED
  BY <1>2, <1>7

\* A stop signals the process it has asked, or with two copies one that was not there.
StopsTheAsked(p, c) ==
  /\ c \in Arts => ArtOf[p] = c
  /\ \/ call[c].asked = p
     \/ c \notin sole /\ (client = p => c \in joined)

LEMMA SignalsTheAsked ==
  ASSUME LadderInv, [Ladder!Next]_Ladder!vars
  PROVE  \A p \in signalled' \ signalled, c \in Ladder!Wanted :
            call[c] # None /\ call'[c] = None => StopsTheAsked(p, c)
<1> SUFFICES ASSUME NEW p \in signalled' \ signalled, NEW c \in Ladder!Wanted,
                    call[c] # None, call'[c] = None
             PROVE  StopsTheAsked(p, c)
  OBVIOUS
<1>1. ASSUME NEW k, NEW row, NEW hasAsked, Ladder!Answers(k, row, hasAsked)
      PROVE  p = row.pid /\ p \in up /\ c = k
  <2>1. signalled' = IF Ladder!Verdict(k, row, hasAsked).how = "sigterm"
                     THEN signalled \union {row.pid} ELSE signalled
    BY <1>1 DEF Ladder!Answers
  <2>2. call'[c] = IF c = k THEN None ELSE call[c]
    BY <1>1 DEF Ladder!Answers
  <2> QED
    BY <2>1, <2>2, SigtermIsForWhatRuns
<1>2. ASSUME Ladder!Answers(c, call[c].row, TRUE) PROVE StopsTheAsked(p, c)
  <2>1. p = call[c].row.pid /\ p \in up
    BY <1>1, <1>2
  <2>2. p # None
    BY <2>1, LadderConstants DEF LadderInv, Ladder!TypeOK
  <2> QED
    BY <2>1, <2>2 DEF LadderInv, SoleOnes, Waits, StopsTheAsked
<1>3. ASSUME NEW w \in Ladder!Wanted,
             Ladder!Click(w) \/ Ladder!NxStop(w) \/ Ladder!Departed(w) \/ Ladder!WaitIsOver(w)
      PROVE  StopsTheAsked(p, c)
  <2>1. CASE Ladder!Click(w)
    <3>1. CASE Ladder!Present(w)
      <4>1. UNCHANGED signalled
        BY <2>1, <3>1 DEF Ladder!Click
      <4> QED
        BY <4>1
    <3>2. CASE ~Ladder!Present(w)
      BY <1>1, <2>1, <3>2 DEF Ladder!Click
    <3> QED
      BY <3>1, <3>2
  <2>2. CASE Ladder!NxStop(w)
    <3>1. Ladder!Answers(Cli, Ladder!Target(Cli, w), FALSE)
      BY <2>2 DEF Ladder!NxStop
    <3>2. c = Cli
      BY <1>1, <3>1
    <3> QED
      BY <3>2, LadderConstants
  <2>3. CASE Ladder!Departed(w)
    BY <1>1, <1>2, <2>3 DEF Ladder!Departed
  <2>4. CASE Ladder!WaitIsOver(w)
    BY <1>1, <1>2, <2>4 DEF Ladder!WaitIsOver
  <2> QED
    BY <1>3, <2>1, <2>2, <2>3, <2>4
<1>4. ASSUME signalled' \subseteq signalled PROVE StopsTheAsked(p, c)
  BY <1>4
<1>5. CASE \E watched \in BOOLEAN : Ladder!Launched(watched)
  BY <1>4, <1>5 DEF Ladder!Launched
<1>6. CASE \E q \in Ladder!Procs, withPid \in BOOLEAN : Ladder!Hello(q, withPid)
  BY <1>4, <1>6 DEF Ladder!Hello
<1>7. CASE \E q \in Ladder!Procs : Ladder!Exits(q) \/ Ladder!ExitSeen(q)
  BY <1>4, <1>7 DEF Ladder!Exits, Ladder!ExitSeen
<1>8. CASE Ladder!Draws \/ Ladder!LeavesBus \/ Ladder!FileWritten \/ Ladder!HubRestarts
  BY <1>4, <1>8 DEF Ladder!Draws, Ladder!LeavesBus, Ladder!FileWritten, Ladder!HubRestarts
<1>9. CASE UNCHANGED Ladder!vars
  BY <1>4, <1>9 DEF Ladder!vars
<1> QED
  BY <1>3, <1>5, <1>6, <1>7, <1>8, <1>9 DEF Ladder!Next

\* Whatever runs, exits, says hello or leaves the bus while a stop waits, and however many
\* launches, copies and artifacts there are: "not running" is said of nothing that could be
\* ended; a stop that has waited signals only a process of its artifact, and the one it has
\* asked, and says that it worked only when that one is gone, signalled or off the bus. Only
\* where the hub knew of two copies when the stop began may it have asked one of them and
\* speak of the other, or signal it (list, stop, waitForDeparture).
THEOREM LadderAlwaysHonest == Ladder!Spec => LadderIsHonest
<1>1. LadderInv => Ladder!TypeOK /\ Ladder!SaysTheTruth /\ Ladder!NothingRuns
  BY StopsSayTheTruth, NotRunningIsTrue DEF LadderInv
<1>2. LadderInv /\ [Ladder!Next]_Ladder!vars =>
        [\A p \in signalled' \ signalled, c \in Ladder!Wanted :
            call[c] # None /\ call'[c] = None =>
                /\ c \in Arts => ArtOf[p] = c
                /\ \/ call[c].asked = p
                   \/ c \notin sole /\ (client = p => c \in joined)]_Ladder!vars
  BY SignalsTheAsked DEF StopsTheAsked
<1>3. Ladder!Spec => [](Ladder!TypeOK /\ Ladder!SaysTheTruth /\ Ladder!NothingRuns)
  BY <1>1, LadderInvInit, LadderInvStep, PTL DEF Ladder!Spec
<1>4. Ladder!Spec => Ladder!AsksFirst
  BY <1>2, LadderInvInit, LadderInvStep, PTL DEF Ladder!Spec, Ladder!AsksFirst
<1> QED
  BY <1>3, <1>4, PTL DEF LadderIsHonest, Ladder!LadderIsHonest

-----------------------------------------------------------------------------
(* The journal and what is read from it (Replay).                            *)

Installable == Versions \union {None}
Moved == [app: Apps, version: Installable, from: Installable]

\* What was installed at time t, by a history and the record it has led to.
ChangesOf(p, x) == {i \in 1..Len(p) : p[i].app = x}
Before(p, x, t) == {i \in ChangesOf(p, x) : i <= t}

TruthOf(p, r, x, t) ==
  IF Before(p, x, t) # {} THEN p[Replay!Max(Before(p, x, t))].version
  ELSE IF ChangesOf(p, x) # {} THEN p[Replay!Min(ChangesOf(p, x))].from
  ELSE r[x].version

\* Each change says what was there, and the record what is.
Chained(p, r) ==
  /\ \A i \in 1..Len(p) : p[i].from = TruthOf(p, r, p[i].app, i - 1)
  /\ \A x \in Apps : TruthOf(p, r, x, Len(p)) = r[x].version

\* A line says what its change did, as far as it says something.
LineIsTrue(p, e) ==
  /\ e.ts \in 1..Len(p) /\ p[e.ts].app = e.app
  /\ e.version \in {p[e.ts].version, Unknown} /\ e.replaced \in {p[e.ts].from, Unknown}
  /\ e.ts > OldUntil => e.replaced # Unknown

Has(s, t) == \E m \in DOMAIN s : s[m].ts = t

\* From the first line on that is left in a file, all later changes have a line, in that
\* file, a newer one or the buffer, but for those up to the last one that was lost.
Kept(files, buf, p, l) ==
  /\ files \in Seq(Seq(Replay!Line)) /\ files # <<>> /\ buf \in Seq(Replay!Line)
  /\ \A i \in DOMAIN files : \A k \in DOMAIN files[i] :
       /\ LineIsTrue(p, files[i][k])
       /\ \A t \in (l + 1)..Len(p) : t > files[i][k].ts =>
            Has(buf, t) \/ \E j \in DOMAIN files : j <= i /\ Has(files[j], t)
  /\ \A k \in DOMAIN buf :
       /\ LineIsTrue(p, buf[k])
       /\ \A t \in (l + 1)..Len(p) : t > buf[k].ts => Has(buf, t)

ReplayTypes ==
  /\ past \in Seq(Moved) /\ Len(past) <= MaxNow
  /\ record \in [Apps -> [version: Installable, at: 0..MaxNow]]
  /\ lost \in 0..Len(past) /\ (lost = 0 \/ lost > OldUntil)
  /\ tags \subseteq Versions
  /\ restore \in [busy: BOOLEAN, when: 0..MaxNow, horizon: 0..(MaxNow + 1),
                  todo: Seq([app: Apps, version: Installable])]

\* What is still to do on the word of a checkpoint in reach is the truth.
PlanIsTrue ==
  /\ restore.when <= Len(past)
  /\ restore.when >= restore.horizon /\ restore.when >= lost =>
       \A i \in DOMAIN restore.todo :
         restore.todo[i].version = TruthOf(past, record, restore.todo[i].app, restore.when)

ReplayInv ==
  /\ ReplayTypes /\ Chained(past, record) /\ Kept(journal, buffer, past, lost)
  /\ buffer # <<>> => buffer[Len(buffer)].ts = Len(past)
  /\ PlanIsTrue

-----------------------------------------------------------------------------
\* The assumptions on the constants, as the steps use them.
LEMMA ReplayConstants ==
  /\ IsFiniteSet(Apps) /\ Keep \in Nat \ {0} /\ OldUntil \in Nat /\ MaxNow \in Nat
  /\ None \in Installable /\ Unknown \notin Installable /\ Versions \subseteq Installable
<1>1. Replay!IsFiniteSet(Apps) <=> IsFiniteSet(Apps)
  BY DEF Replay!IsFiniteSet, IsFiniteSet
<1> QED
  BY <1>1, CommandsAssumption DEF Replay!ReplayAssumption, Installable

\* The largest and the least of some changes.
LEMMA LargestChange ==
  ASSUME NEW K \in Nat, NEW T \in SUBSET (1..K), T # {}
  PROVE  Replay!Max(T) \in T /\ \A n \in T : Replay!Max(T) >= n
<1>1. \E n \in T : \A m \in T : m <= n
  <2>1. T \in SUBSET (0..K)
    OBVIOUS
  <2> QED
    BY <2>1, LargestNatural
<1>2. \E n \in T : \A m \in T : n >= m
  BY <1>1
<1> QED
  BY <1>2 DEF Replay!Max

LEMMA LeastChange ==
  ASSUME NEW K \in Nat, NEW T \in SUBSET (1..K), T # {}
  PROVE  Replay!Min(T) \in T /\ \A n \in T : Replay!Min(T) <= n
<1>1. \E n \in T : \A m \in T : n <= m
  <2>1. T \subseteq Nat
    OBVIOUS
  <2> QED
    BY <2>1, LeastNatural
<1> QED
  BY <1>1 DEF Replay!Min

\* It is the truth of the model.
LEMMA TruthIsTruth == \A x, t : Replay!Truth(x, t) = TruthOf(past, record, x, t)
BY DEF Replay!Truth, Replay!now, TruthOf, Before, ChangesOf

\* Between two changes of an app what is installed stays.
LEMMA TruthSteady ==
  ASSUME NEW p, NEW r, NEW x, NEW t \in Nat, NEW u \in Nat, t <= u, Len(p) \in Nat,
         \A i \in 1..Len(p) : p[i].app = x => i <= t \/ i > u
  PROVE  TruthOf(p, r, x, t) = TruthOf(p, r, x, u)
<1>1. Before(p, x, t) = Before(p, x, u)
  BY DEF Before, ChangesOf
<1> QED
  BY <1>1 DEF TruthOf

\* At the time of a change what it has put there is installed.
LEMMA TruthAt ==
  ASSUME NEW p, NEW r, Len(p) \in Nat, NEW i \in 1..Len(p)
  PROVE  TruthOf(p, r, p[i].app, i) = p[i].version
<1> DEFINE before == Before(p, p[i].app, i)
<1>1. before \in SUBSET (1..Len(p)) /\ before # {} /\ i \in before /\ \A j \in before : j <= i
  BY DEF Before, ChangesOf
<1>2. Replay!Max(before) \in before /\ Replay!Max(before) >= i
  BY <1>1, LargestChange
<1>3. Replay!Max(before) = i
  BY <1>1, <1>2
<1>4. TruthOf(p, r, p[i].app, i) = p[Replay!Max(before)].version
  BY <1>1 DEF TruthOf
<1> QED
  BY <1>3, <1>4

\* Another change leaves the past as it was.
LEMMA TruthKept ==
  ASSUME NEW p \in Seq(Moved), NEW r, NEW c \in Moved, NEW s,
         c.from = r[c.app].version, \A x \in Apps \ {c.app} : s[x].version = r[x].version
  PROVE  \A x \in Apps, t \in 0..Len(p) : TruthOf(Append(p, c), s, x, t) = TruthOf(p, r, x, t)
<1> DEFINE q == Append(p, c)
<1> SUFFICES ASSUME NEW x \in Apps, NEW t \in 0..Len(p)
             PROVE  TruthOf(q, s, x, t) = TruthOf(p, r, x, t)
  OBVIOUS
<1> DEFINE changes == ChangesOf(p, x)
           before  == Before(p, x, t)
           later   == ChangesOf(q, x)
<1>1. /\ Len(p) \in Nat /\ Len(q) = Len(p) + 1 /\ \A i \in 1..Len(p) : q[i] = p[i]
      /\ q[Len(p) + 1] = c
  BY AppendProperties, LenProperties
<1>2. /\ Before(q, x, t) = before /\ before \in SUBSET (1..Len(p))
      /\ later = IF c.app = x THEN changes \union {Len(p) + 1} ELSE changes
      /\ changes \in SUBSET (1..Len(p)) /\ later \in SUBSET (1..Len(q))
  BY <1>1 DEF Before, ChangesOf
<1> HIDE DEF q, changes, before, later
<1>3. CASE before # {}
  <2>1. Replay!Max(before) \in 1..Len(p)
    BY <1>1, <1>2, <1>3, LargestChange
  <2>2. TruthOf(p, r, x, t) = p[Replay!Max(before)].version
    BY <1>3 DEF TruthOf, changes, before, later
  <2>3. TruthOf(q, s, x, t) = q[Replay!Max(before)].version
    BY <1>2, <1>3 DEF TruthOf, changes, before, later
  <2> QED
    BY <1>1, <2>1, <2>2, <2>3
<1>4. CASE before = {} /\ changes # {}
  <2>1. later # {}
    BY <1>2, <1>4
  <2>2. Replay!Min(changes) \in changes /\ \A n \in changes : Replay!Min(changes) <= n
    BY <1>1, <1>2, <1>4, LeastChange
  <2>3. Replay!Min(later) \in later /\ \A n \in later : Replay!Min(later) <= n
    <3>1. Len(q) \in Nat
      BY <1>1
    <3> QED
      BY <1>2, <2>1, <3>1, LeastChange
  <2>4. Replay!Min(later) = Replay!Min(changes)
    <3>1. Replay!Min(changes) \in later /\ Replay!Min(changes) \in 1..Len(p)
      BY <1>2, <2>2
    <3>2. Replay!Min(later) \in changes
      <4>1. Replay!Min(later) <= Replay!Min(changes)
        BY <2>3, <3>1
      <4>2. Replay!Min(later) # Len(p) + 1
        BY <1>1, <3>1, <4>1
      <4> QED
        BY <1>2, <2>3, <4>2
    <3>3. Replay!Min(later) <= Replay!Min(changes) /\ Replay!Min(changes) <= Replay!Min(later)
      BY <2>2, <2>3, <3>1, <3>2
    <3>4. Replay!Min(later) \in 1..Len(p)
      BY <1>2, <3>2
    <3> QED
      BY <1>1, <3>1, <3>3, <3>4
  <2>5. TruthOf(p, r, x, t) = p[Replay!Min(changes)].from
    BY <1>4 DEF TruthOf, changes, before, later
  <2>6. TruthOf(q, s, x, t) = q[Replay!Min(later)].from
    BY <1>2, <1>4, <2>1 DEF TruthOf, changes, before, later
  <2> QED
    BY <1>1, <1>2, <2>2, <2>4, <2>5, <2>6
<1>5. CASE before = {} /\ changes = {}
  <2>1. TruthOf(p, r, x, t) = r[x].version
    BY <1>5 DEF TruthOf, changes, before, later
  <2>2. CASE c.app = x
    <3>1. later = {Len(p) + 1}
      BY <1>2, <1>5, <2>2
    <3>2. Replay!Min(later) = Len(p) + 1
      <4>1. Len(q) \in Nat /\ later # {}
        BY <1>1, <3>1
      <4>2. Replay!Min(later) \in later
        BY <1>2, <4>1, LeastChange
      <4> QED
        BY <3>1, <4>2
    <3>3. TruthOf(q, s, x, t) = q[Replay!Min(later)].from
      BY <1>2, <1>5, <3>1 DEF TruthOf, changes, before, later
    <3> QED
      BY <1>1, <2>1, <2>2, <3>2, <3>3
  <2>3. CASE c.app # x
    <3>1. TruthOf(q, s, x, t) = s[x].version
      BY <1>2, <1>5, <2>3 DEF TruthOf, changes, before, later
    <3> QED
      BY <2>1, <2>3, <3>1
  <2> QED
    BY <2>2, <2>3
<1> QED
  BY <1>3, <1>4, <1>5

\* So the chain goes on.
LEMMA ChainGrows ==
  ASSUME NEW p \in Seq(Moved), NEW r, Chained(p, r), NEW c \in Moved, c.from = r[c.app].version,
         NEW s, s[c.app].version = c.version,
         \A x \in Apps \ {c.app} : s[x].version = r[x].version
  PROVE  Chained(Append(p, c), s)
<1> DEFINE q == Append(p, c)
           n == Len(p)
<1>1. /\ n \in Nat /\ Len(q) = n + 1 /\ \A i \in 1..n : q[i] = p[i] /\ p[i].app \in Apps
      /\ q[n + 1] = c /\ c.app \in Apps
  <2>1. \A i \in 1..n : p[i] \in Moved
    BY ElementOfSeq
  <2> QED
    BY <2>1, AppendProperties, LenProperties DEF Moved
<1> HIDE DEF q, n
<1>2. \A x \in Apps, t \in 0..n : TruthOf(q, s, x, t) = TruthOf(p, r, x, t)
  BY TruthKept DEF q, n
<1>3. ASSUME NEW i \in 1..(n + 1) PROVE q[i].from = TruthOf(q, s, q[i].app, i - 1)
  <2>1. CASE i <= n
    <3>1. p[i].from = TruthOf(p, r, p[i].app, i - 1)
      BY <1>1, <2>1 DEF Chained, n
    <3>2. i - 1 \in 0..n /\ q[i] = p[i] /\ p[i].app \in Apps
      BY <1>1, <2>1
    <3> QED
      BY <1>2, <3>1, <3>2
  <2>2. CASE i = n + 1
    <3>1. TruthOf(p, r, c.app, n) = r[c.app].version
      BY <1>1 DEF Chained, n
    <3>2. i - 1 = n /\ n \in 0..n
      BY <1>1, <2>2
    <3> QED
      BY <1>1, <1>2, <2>2, <3>1, <3>2
  <2> QED
    BY <1>1, <2>1, <2>2
<1>4. ASSUME NEW x \in Apps PROVE TruthOf(q, s, x, n + 1) = s[x].version
  <2>1. CASE x = c.app
    <3>1. TruthOf(q, s, q[n + 1].app, n + 1) = q[n + 1].version
      <4>1. n + 1 \in 1..Len(q) /\ Len(q) \in Nat
        BY <1>1
      <4> QED
        BY <4>1, TruthAt
    <3> QED
      BY <1>1, <2>1, <3>1
  <2>2. CASE x # c.app
    <3>1. TruthOf(q, s, x, n) = TruthOf(q, s, x, n + 1)
      BY <1>1, <2>2, TruthSteady
    <3>2. TruthOf(p, r, x, n) = r[x].version
      BY DEF Chained, n
    <3> QED
      BY <1>1, <1>2, <2>2, <3>1, <3>2
  <2> QED
    BY <2>1, <2>2
<1> QED
  BY <1>1, <1>3, <1>4 DEF Chained, q

-----------------------------------------------------------------------------
(* What keeps the journal.                                                   *)

\* The lines and files are counted with naturals.
LEMMA KeptFacts ==
  ASSUME NEW files, NEW buf, NEW p, NEW l, Kept(files, buf, p, l)
  PROVE  /\ Len(files) \in Nat \ {0} /\ DOMAIN files = 1..Len(files) /\ 1 \in DOMAIN files
         /\ \A i \in DOMAIN files : /\ files[i] \in Seq(Replay!Line)
                                    /\ DOMAIN files[i] = 1..Len(files[i]) /\ Len(files[i]) \in Nat
                                    /\ \A k \in DOMAIN files[i] : files[i][k] \in Replay!Line
         /\ DOMAIN buf = 1..Len(buf) /\ Len(buf) \in Nat
         /\ \A k \in DOMAIN buf : buf[k] \in Replay!Line
<1>1. files \in Seq(Seq(Replay!Line)) /\ files # <<>> /\ buf \in Seq(Replay!Line)
  BY DEF Kept
<1>2. Len(files) \in Nat \ {0} /\ DOMAIN files = 1..Len(files)
  BY <1>1, EmptySeq, LenProperties
<1>3. \A i \in DOMAIN files : files[i] \in Seq(Replay!Line)
  BY <1>1, <1>2, ElementOfSeq
<1>4. ASSUME NEW q \in Seq(Replay!Line)
      PROVE  DOMAIN q = 1..Len(q) /\ Len(q) \in Nat /\ \A k \in DOMAIN q : q[k] \in Replay!Line
  BY LenProperties, ElementOfSeq
<1> QED
  BY <1>1, <1>2, <1>3, <1>4

\* More may be lost.
LEMMA KeptLess ==
  ASSUME NEW files, NEW buf, NEW p, NEW l \in Nat, Kept(files, buf, p, l), NEW m \in Nat, l <= m,
         Len(p) \in Nat
  PROVE  Kept(files, buf, p, m)
<1>1. \A t \in (m + 1)..Len(p) : t \in (l + 1)..Len(p)
  OBVIOUS
<1> QED
  BY <1>1 DEF Kept

\* A change comes with a line of its own in the buffer.
LEMMA KeptGrows ==
  ASSUME NEW p \in Seq(Moved), NEW c \in Moved, NEW files, NEW buf, NEW l \in Nat,
         Kept(files, buf, p, l), NEW e \in Replay!Line, e.ts = Len(p) + 1,
         LineIsTrue(Append(p, c), e)
  PROVE  Kept(files, Append(buf, e), Append(p, c), l)
<1> DEFINE q == Append(p, c)
           new == Append(buf, e)
<1>1. /\ Len(p) \in Nat /\ Len(q) = Len(p) + 1 /\ \A i \in 1..Len(p) : q[i] = p[i]
  BY AppendProperties, LenProperties
<1>2. /\ buf \in Seq(Replay!Line) /\ new \in Seq(Replay!Line) /\ DOMAIN new = 1..(Len(buf) + 1)
      /\ \A k \in DOMAIN buf : k \in DOMAIN new /\ new[k] = buf[k]
      /\ Len(buf) + 1 \in DOMAIN new /\ new[Len(buf) + 1] = e
      /\ \A k \in DOMAIN new : k \in DOMAIN buf \/ new[k] = e
  <2>1. buf \in Seq(Replay!Line) /\ DOMAIN buf = 1..Len(buf) /\ Len(buf) \in Nat
    BY KeptFacts DEF Kept
  <2>2. /\ new \in Seq(Replay!Line) /\ Len(new) = Len(buf) + 1
        /\ \A k \in 1..Len(buf) : new[k] = buf[k]
        /\ new[Len(buf) + 1] = e
    BY <2>1, AppendProperties
  <2>3. DOMAIN new = 1..Len(new)
    BY <2>2, LenProperties
  <2> QED
    BY <2>1, <2>2, <2>3
<1> HIDE DEF q, new
<1>3. \A x : LineIsTrue(p, x) => LineIsTrue(q, x)
  BY <1>1 DEF LineIsTrue
<1>4. \A t : Has(buf, t) => Has(new, t)
  BY <1>2 DEF Has
<1>5. Has(new, Len(p) + 1)
  BY <1>2 DEF Has
<1>6. \A t \in (l + 1)..Len(q) : t \in (l + 1)..Len(p) \/ t = Len(p) + 1
  BY <1>1
<1>7. ASSUME NEW i \in DOMAIN files, NEW k \in DOMAIN files[i]
      PROVE  /\ LineIsTrue(q, files[i][k])
             /\ \A t \in (l + 1)..Len(q) : t > files[i][k].ts =>
                  Has(new, t) \/ \E j \in DOMAIN files : j <= i /\ Has(files[j], t)
  BY <1>3, <1>4, <1>5, <1>6, <1>7 DEF Kept
<1>8. ASSUME NEW k \in DOMAIN new
      PROVE  LineIsTrue(q, new[k]) /\ \A t \in (l + 1)..Len(q) : t > new[k].ts => Has(new, t)
  <2>1. CASE k \in DOMAIN buf
    BY <1>2, <1>3, <1>4, <1>5, <1>6, <2>1 DEF Kept
  <2>2. CASE new[k] = e
    BY <1>1, <2>2 DEF q
  <2> QED
    BY <1>2, <2>1, <2>2
<1> QED
  BY <1>2, <1>7, <1>8 DEF Kept, q, new

\* Rotation leaves in each file all that is newer.
LEMMA RotatedKeeps ==
  ASSUME NEW p, NEW files, NEW buf, NEW l, Kept(files, buf, p, l)
  PROVE  Kept(Replay!Rotated(files), buf, p, l)
<1> DEFINE old == IF Len(files) <= Keep THEN files ELSE Replay!Front(files)
           new == Replay!Rotated(files)
<1>1. files \in Seq(Seq(Replay!Line)) /\ Len(files) \in Nat \ {0} /\ DOMAIN files = 1..Len(files)
  BY KeptFacts DEF Kept
<1>2. /\ old \in Seq(Seq(Replay!Line)) /\ Len(old) <= Len(files) /\ Len(old) \in Nat
      /\ \A i \in 1..Len(old) : old[i] = files[i]
  <2>1. CASE Len(files) <= Keep
    BY <1>1, <2>1
  <2>2. CASE ~(Len(files) <= Keep)
    <3>1. Len(files) - 1 \in Int /\ \A i \in 1..(Len(files) - 1) : files[i] \in Seq(Replay!Line)
      BY <1>1, ElementOfSeq
    <3>2. /\ SubSeq(files, 1, Len(files) - 1) \in Seq(Seq(Replay!Line))
          /\ Len(SubSeq(files, 1, Len(files) - 1)) =
               IF 1 <= Len(files) - 1 THEN Len(files) - 1 ELSE 0
          /\ \A i \in 1..(Len(files) - 1) : SubSeq(files, 1, Len(files) - 1)[i] = files[i]
      BY <1>1, <3>1, SubSeqProperties
    <3> QED
      BY <1>1, <2>2, <3>2 DEF Replay!Front
  <2> QED
    BY <2>1, <2>2
<1> HIDE DEF old
<1>3. <<<<>>>> \in Seq(Seq(Replay!Line)) /\ Len(<<<<>>>>) = 1 /\ <<<<>>>>[1] = <<>>
  BY EmptySeq
<1>4. /\ new \in Seq(Seq(Replay!Line)) /\ Len(new) = Len(old) + 1 /\ new[1] = <<>>
      /\ \A i \in 1..Len(old) : new[i + 1] = files[i]
  <2>1. new = <<<<>>>> \o old
    BY DEF Replay!Rotated, old
  <2>2. /\ new \in Seq(Seq(Replay!Line)) /\ Len(new) = 1 + Len(old)
        /\ \A i \in 1..(1 + Len(old)) : new[i] = IF i <= 1 THEN <<<<>>>>[i] ELSE old[i - 1]
    <3> HIDE DEF new
    <3> QED
      BY <1>2, <1>3, <2>1, ConcatProperties
  <2>3. Len(new) = Len(old) + 1 /\ new[1] = <<>>
    BY <1>2, <1>3, <2>2
  <2>4. ASSUME NEW i \in 1..Len(old) PROVE new[i + 1] = files[i]
    <3>1. i + 1 \in 1..(1 + Len(old)) /\ ~(i + 1 <= 1) /\ (i + 1) - 1 = i
      BY <1>2
    <3>2. new[i + 1] = old[i]
      BY <2>2, <3>1
    <3> QED
      BY <1>2, <3>2
  <2> QED
    BY <2>2, <2>3, <2>4
<1> HIDE DEF new
<1>5. DOMAIN new = 1..(Len(old) + 1) /\ new # <<>>
  BY <1>2, <1>4, LenProperties
<1>6. ASSUME NEW i \in DOMAIN new, NEW k \in DOMAIN new[i]
      PROVE  /\ LineIsTrue(p, new[i][k])
             /\ \A t \in (l + 1)..Len(p) : t > new[i][k].ts =>
                  Has(buf, t) \/ \E j \in DOMAIN new : j <= i /\ Has(new[j], t)
  <2>1. i # 1
    BY <1>4
  <2>2. i - 1 \in 1..Len(old) /\ new[i] = files[i - 1] /\ i - 1 \in DOMAIN files
    <3>1. i - 1 \in 1..Len(old) /\ (i - 1) + 1 = i
      BY <1>2, <1>5, <2>1
    <3>2. new[(i - 1) + 1] = files[i - 1]
      BY <1>4, <3>1
    <3> QED
      BY <1>1, <1>2, <3>1, <3>2
  <2>3. ASSUME NEW j \in DOMAIN files, j <= i - 1
        PROVE  j + 1 \in DOMAIN new /\ j + 1 <= i /\ new[j + 1] = files[j]
    <3>1. j \in 1..Len(old) /\ j + 1 \in 1..(Len(old) + 1) /\ j + 1 <= i
      <4>1. i \in 1..(Len(old) + 1) /\ j \in Nat /\ 1 <= j
        BY <1>1, <1>5
      <4> QED
        BY <1>2, <2>3, <4>1
    <3> QED
      BY <1>4, <1>5, <3>1
  <2> QED
    BY <2>2, <2>3 DEF Kept
<1> QED
  BY <1>4, <1>5, <1>6 DEF Kept, new

\* So does an append of whole lines; if all of the buffer is there, nothing is lost.
LEMMA AppendedKeeps ==
  ASSUME NEW p, NEW files, NEW buf, NEW l, Kept(files, buf, p, l), NEW lines \in Seq(Replay!Line),
         \A k \in DOMAIN lines : LineIsTrue(p, lines[k]),
         lines = buf \/ \A t : t \notin (l + 1)..Len(p)
  PROVE  Kept(Replay!Appended(files, lines), <<>>, p, l)
<1> DEFINE new == Replay!Appended(files, lines)
<1>1. /\ files \in Seq(Seq(Replay!Line)) /\ DOMAIN files = 1..Len(files) /\ 1 \in DOMAIN files
      /\ Len(files) \in Nat \ {0} /\ files[1] \in Seq(Replay!Line)
      /\ \A i \in DOMAIN files : files[i] \in Seq(Replay!Line)
  BY KeptFacts DEF Kept
<1>2. /\ DOMAIN new = DOMAIN files /\ new[1] = files[1] \o lines
      /\ \A i \in DOMAIN files : i # 1 => new[i] = files[i]
  BY <1>1 DEF Replay!Appended
<1>3. /\ new[1] \in Seq(Replay!Line)
      /\ \A k \in DOMAIN files[1] : k \in DOMAIN new[1] /\ new[1][k] = files[1][k]
      /\ \A k \in DOMAIN lines : Len(files[1]) + k \in DOMAIN new[1]
                                 /\ new[1][Len(files[1]) + k] = lines[k]
      /\ \A k \in DOMAIN new[1] : \/ k \in DOMAIN files[1] /\ new[1][k] = files[1][k]
                                  \/ \E m \in DOMAIN lines : new[1][k] = lines[m]
  <2>1. /\ files[1] \o lines \in Seq(Replay!Line)
        /\ Len(files[1] \o lines) = Len(files[1]) + Len(lines)
        /\ \A k \in 1..(Len(files[1]) + Len(lines)) : (files[1] \o lines)[k] =
             IF k <= Len(files[1]) THEN files[1][k] ELSE lines[k - Len(files[1])]
    BY <1>1, ConcatProperties
  <2>2. /\ DOMAIN files[1] = 1..Len(files[1]) /\ Len(files[1]) \in Nat
        /\ DOMAIN lines = 1..Len(lines) /\ Len(lines) \in Nat
        /\ DOMAIN (files[1] \o lines) = 1..Len(files[1] \o lines)
    BY <1>1, <2>1, LenProperties
  <2>3. ASSUME NEW k \in DOMAIN new[1], k \notin DOMAIN files[1]
        PROVE  k - Len(files[1]) \in DOMAIN lines /\ new[1][k] = lines[k - Len(files[1])]
    BY <1>2, <2>1, <2>2, <2>3
  <2>4. ASSUME NEW k \in DOMAIN lines
        PROVE  Len(files[1]) + k \in DOMAIN new[1] /\ new[1][Len(files[1]) + k] = lines[k]
    BY <1>2, <2>1, <2>2
  <2>5. ASSUME NEW k \in DOMAIN files[1] PROVE k \in DOMAIN new[1] /\ new[1][k] = files[1][k]
    BY <1>2, <2>1, <2>2
  <2> QED
    BY <1>2, <2>1, <2>3, <2>4, <2>5
<1>4. new \in Seq(Seq(Replay!Line)) /\ new # <<>>
  <2>1. \A i \in 1..Len(files) : new[i] \in Seq(Replay!Line)
    BY <1>1, <1>2, <1>3
  <2>2. new = [i \in 1..Len(files) |-> new[i]]
    BY <1>1 DEF Replay!Appended
  <2> HIDE DEF new
  <2>3. new \in [1..Len(files) -> Seq(Replay!Line)]
    BY <2>1, <2>2
  <2>4. new \in Seq(Seq(Replay!Line))
    <3>1. ASSUME NEW S, NEW f \in [1..Len(files) -> S] PROVE f \in Seq(S)
      <4>1. Len(files) \in Nat
        BY <1>1
      <4> QED
        BY <4>1, SeqDef
    <3> QED
      BY <2>3, <3>1
  <2>5. new # <<>>
    BY <1>1, <1>2, <2>4, EmptySeq
  <2> QED
    BY <2>4, <2>5
<1> HIDE DEF new
<1>5. \A i \in DOMAIN files : \A t : Has(files[i], t) => Has(new[i], t)
  BY <1>2, <1>3 DEF Has
<1>6. \A t : Has(lines, t) => Has(new[1], t)
  BY <1>3 DEF Has
<1>7. ASSUME NEW i \in DOMAIN new, NEW k \in DOMAIN new[i]
      PROVE  /\ LineIsTrue(p, new[i][k])
             /\ \A t \in (l + 1)..Len(p) : t > new[i][k].ts =>
                  \E j \in DOMAIN new : j <= i /\ Has(new[j], t)
  <2>1. 1 \in DOMAIN new /\ 1 <= i
    BY <1>1, <1>2
  <2>2. ASSUME k \in DOMAIN files[i], new[i][k] = files[i][k]
        PROVE  /\ LineIsTrue(p, new[i][k])
               /\ \A t \in (l + 1)..Len(p) : t > new[i][k].ts =>
                    \E j \in DOMAIN new : j <= i /\ Has(new[j], t)
    <3>1. i \in DOMAIN files
      BY <1>2
    <3>2. /\ LineIsTrue(p, files[i][k])
          /\ \A t \in (l + 1)..Len(p) : t > files[i][k].ts =>
               Has(buf, t) \/ \E j \in DOMAIN files : j <= i /\ Has(files[j], t)
      BY <2>2, <3>1 DEF Kept
    <3>3. ASSUME NEW t \in (l + 1)..Len(p), Has(buf, t) PROVE Has(new[1], t)
      BY <1>6, <3>3
    <3>4. ASSUME NEW t, NEW j \in DOMAIN files, j <= i, Has(files[j], t)
          PROVE  j \in DOMAIN new /\ Has(new[j], t)
      BY <1>2, <1>5, <3>4
    <3> QED
      BY <2>1, <2>2, <3>2, <3>3, <3>4
  <2>3. ASSUME i = 1, NEW m \in DOMAIN lines, new[i][k] = lines[m]
        PROVE  /\ LineIsTrue(p, new[i][k])
               /\ \A t \in (l + 1)..Len(p) : t > new[i][k].ts =>
                    \E j \in DOMAIN new : j <= i /\ Has(new[j], t)
    BY <1>6, <2>1, <2>3 DEF Kept
  <2> QED
    BY <1>2, <1>3, <2>2, <2>3
<1>8. <<>> \in Seq(Replay!Line) /\ DOMAIN <<>> = {}
  BY EmptySeq
<1> QED
  BY <1>4, <1>7, <1>8 DEF Kept, new

\* What a checkpoint reads is such a journal with nothing in the buffer.
LEMMA FlushedKeeps ==
  ASSUME Kept(journal, buffer, past, lost), NEW files \in Replay!Flushed
  PROVE  Kept(files, <<>>, past, lost)
<1>1. CASE buffer = <<>>
  BY <1>1 DEF Replay!Flushed
<1>2. CASE buffer # <<>>
  <2>1. PICK old \in {journal, Replay!Rotated(journal)} : files = Replay!Appended(old, buffer)
    BY <1>2 DEF Replay!Flushed
  <2>2. Kept(old, buffer, past, lost)
    BY <2>1, RotatedKeeps
  <2>3. buffer \in Seq(Replay!Line) /\ \A k \in DOMAIN buffer : LineIsTrue(past, buffer[k])
    BY DEF Kept
  <2> QED
    BY <2>1, <2>2, <2>3, AppendedKeeps
<1> QED
  BY <1>1, <1>2

-----------------------------------------------------------------------------
(* What is read from it.                                                     *)

\* What keeps the lines read is a truth of each.
LEMMA QueryIsTrue ==
  ASSUME NEW files, NEW p, NEW l, Kept(files, <<>>, p, l), NEW e \in Replay!Query(files)
  PROVE  e \in Replay!Line /\ LineIsTrue(p, e)
<1>1. PICK i \in DOMAIN files : \E k \in DOMAIN files[i] : e = files[i][k]
  BY DEF Replay!Query, Replay!ToSet
<1> QED
  BY <1>1, KeptFacts DEF Kept

\* No change since a line that is read is missing, but for those up to the last one lost.
LEMMA SinceALine ==
  ASSUME NEW files, NEW p, NEW l, Kept(files, <<>>, p, l), NEW e \in Replay!Query(files),
         NEW t \in (l + 1)..Len(p), t > e.ts
  PROVE  \E f \in Replay!Query(files) : f.ts = t
<1>1. PICK i \in DOMAIN files : \E k \in DOMAIN files[i] : e = files[i][k]
  BY DEF Replay!Query, Replay!ToSet
<1>2. ~Has(<<>>, t)
  BY DEF Has
<1>3. \E j \in DOMAIN files : Has(files[j], t)
  BY <1>1, <1>2 DEF Kept
<1> QED
  BY <1>3 DEF Has, Replay!Query, Replay!ToSet

\* Nor is one since the horizon.
LEMMA SinceHorizon ==
  ASSUME NEW files, NEW l \in Nat, Kept(files, <<>>, past, l), Len(past) \in Nat,
         NEW when \in Nat, when >= Replay!Horizon(files), when >= l,
         NEW t \in (when + 1)..Len(past)
  PROVE  \E f \in Replay!Query(files) : f.ts = t
<1> DEFINE written == {i \in DOMAIN files : files[i] # <<>>}
           i == Replay!Max(written)
<1>1. CASE written = {}
  <2>1. Replay!Horizon(files) = Len(past) + 1
    BY <1>1 DEF Replay!Horizon, Replay!now
  <2> QED
    BY <2>1
<1>2. CASE written # {}
  <2>1. written \in SUBSET (1..Len(files)) /\ Len(files) \in Nat
    BY KeptFacts
  <2>2. i \in written
    <3> HIDE DEF written
    <3> QED
      BY <1>2, <2>1, LargestChange
  <2> HIDE DEF i
  <2>3. i \in DOMAIN files /\ files[i] # <<>>
    BY <2>2
  <2>4. /\ files[i] \in Seq(Replay!Line) /\ 1 \in DOMAIN files[i] /\ Head(files[i]) = files[i][1]
        /\ files[i][1] \in Replay!Line
    <3>1. files[i] \in Seq(Replay!Line) /\ DOMAIN files[i] = 1..Len(files[i])
      BY <2>3, KeptFacts
    <3>2. Len(files[i]) \in Nat \ {0}
      BY <2>3, <3>1, EmptySeq
    <3>3. 1 \in DOMAIN files[i]
      BY <3>1, <3>2
    <3> QED
      BY <2>3, <3>1, <3>2, <3>3, KeptFacts
  <2>5. Replay!Horizon(files) = files[i][1].ts
    BY <1>2, <2>4 DEF Replay!Horizon, i
  <2>6. files[i][1] \in Replay!Query(files)
    BY <2>3, <2>4 DEF Replay!Query, Replay!ToSet
  <2>7. files[i][1].ts \in Nat
    BY <2>4, ReplayConstants DEF Replay!Line
  <2>8. t > files[i][1].ts /\ t \in (l + 1)..Len(past)
    BY <2>5, <2>7
  <2> QED
    BY <2>6, <2>8, SinceALine
<1> QED
  BY <1>1, <1>2

\* Of some lines one is the first and one the last.
LEMMA FirstAndLast ==
  ASSUME NEW E \in SUBSET Replay!Line, E # {}
  PROVE  /\ (CHOOSE e \in E : \A f \in E : e.ts <= f.ts) \in E
         /\ \A f \in E : (CHOOSE e \in E : \A g \in E : e.ts <= g.ts).ts <= f.ts
         /\ (CHOOSE e \in E : \A f \in E : f.ts <= e.ts) \in E
         /\ \A f \in E : f.ts <= (CHOOSE e \in E : \A g \in E : g.ts <= e.ts).ts
<1> DEFINE T == {e.ts : e \in E}
<1>1. MaxNow \in Nat /\ T \in SUBSET (0..MaxNow) /\ T # {} /\ T \subseteq Nat
  BY ReplayConstants DEF Replay!Line
<1>2. \E n \in T : \A m \in T : n <= m
  <2> HIDE DEF T
  <2> QED
    BY <1>1, LeastNatural
<1>3. \E n \in T : \A m \in T : m <= n
  <2> HIDE DEF T
  <2> QED
    BY <1>1, LargestNatural
<1>4. \E e \in E : \A f \in E : e.ts <= f.ts
  BY <1>2
<1>5. \E e \in E : \A f \in E : f.ts <= e.ts
  BY <1>3
<1> QED
  BY <1>4, <1>5

\* A row in reach is true or in doubt.
LEMMA RowIsTrue ==
  ASSUME ReplayTypes, Chained(past, record), NEW files, Kept(files, <<>>, past, lost),
         NEW x \in Apps, NEW when \in 0..Len(past), when >= Replay!Horizon(files), when >= lost
  PROVE  Replay!IsTrue(x, when, files)
<1> DEFINE mine  == {e \in Replay!Query(files) : e.app = x}
           after == {e \in mine : e.ts > when}
           before == mine \ after
           first == CHOOSE e \in after : \A f \in after : e.ts <= f.ts
           newest == CHOOSE e \in before : \A f \in before : f.ts <= e.ts
<1>1. /\ Len(past) \in Nat /\ lost \in Nat /\ when \in Nat
      /\ \A i \in 1..Len(past) : past[i] \in Moved
  BY LenProperties, ElementOfSeq DEF ReplayTypes
<1>2. \A e \in mine : e \in Replay!Line /\ LineIsTrue(past, e)
  BY QueryIsTrue
<1>3. \A i \in (when + 1)..Len(past) : past[i].app = x => \E e \in after : e.ts = i
  <2> SUFFICES ASSUME NEW i \in (when + 1)..Len(past), past[i].app = x
               PROVE  \E e \in after : e.ts = i
    OBVIOUS
  <2>1. PICK e \in Replay!Query(files) : e.ts = i
    BY <1>1, SinceHorizon
  <2>2. e.app = x
    BY <2>1, QueryIsTrue DEF LineIsTrue
  <2> QED
    BY <1>1, <2>1, <2>2
<1>4. CASE after = {}
  <2>1. TruthOf(past, record, x, when) = TruthOf(past, record, x, Len(past))
    BY <1>1, <1>3, <1>4, TruthSteady
  <2>2. TruthOf(past, record, x, Len(past)) = record[x].version
    BY DEF Chained
  <2>3. Replay!Resolve(x, when, files) =
          Replay!FromSilence(x, when, when >= Replay!Horizon(files))
    BY <1>4 DEF Replay!Resolve
  <2> QED
    BY <2>1, <2>2, <2>3, TruthIsTruth
       DEF Replay!IsTrue, Replay!FromSilence, Replay!Known, Replay!Doubt
<1>5. CASE after # {}
  <2>1. first \in after /\ \A f \in after : first.ts <= f.ts
    <3>1. after \in SUBSET Replay!Line
      BY <1>2
    <3> HIDE DEF after
    <3> QED
      BY <1>5, <3>1, FirstAndLast
  <2> HIDE DEF first
  <2>2. /\ first.ts \in (when + 1)..Len(past) /\ past[first.ts].app = x
        /\ first.replaced \in {past[first.ts].from, Unknown}
        /\ first.ts > OldUntil => first.replaced # Unknown
    BY <1>1, <1>2, <2>1 DEF LineIsTrue
  <2>3. past[first.ts].from = TruthOf(past, record, x, when)
    <3>1. past[first.ts].from = TruthOf(past, record, x, first.ts - 1)
      BY <1>1, <2>2 DEF Chained
    <3>2. \A i \in 1..Len(past) : past[i].app = x => i <= when \/ i > first.ts - 1
      BY <1>1, <1>3, <2>1, <2>2
    <3>3. when <= first.ts - 1 /\ first.ts - 1 \in Nat
      BY <1>1, <2>2
    <3> QED
      BY <1>1, <3>1, <3>2, <3>3, TruthSteady
  <2>4. Replay!Resolve(x, when, files) = Replay!FromChanges(first, before)
    BY <1>5 DEF Replay!Resolve, first
  <2>5. CASE first.replaced # Unknown
    BY <2>2, <2>3, <2>4, <2>5, TruthIsTruth DEF Replay!IsTrue, Replay!FromChanges, Replay!Known
  <2>6. CASE first.replaced = Unknown /\ before = {}
    BY <2>4, <2>6 DEF Replay!IsTrue, Replay!FromChanges, Replay!Doubt
  <2>7. CASE first.replaced = Unknown /\ before # {}
    <3>1. lost = 0
      <4>1. lost = 0 \/ lost > OldUntil
        BY DEF ReplayTypes
      <4>2. first.ts > lost /\ ~(first.ts > OldUntil)
        BY <1>1, <2>2, <2>7
      <4> QED
        BY <1>1, <2>2, <4>1, <4>2, ReplayConstants
    <3>2. newest \in before /\ \A f \in before : f.ts <= newest.ts
      <4>1. before \in SUBSET Replay!Line
        BY <1>2
      <4> HIDE DEF before
      <4> QED
        BY <2>7, <4>1, FirstAndLast
    <3> HIDE DEF newest
    <3>3. newest.ts \in 1..Len(past) /\ newest.ts <= when /\ past[newest.ts].app = x
          /\ newest.version \in {past[newest.ts].version, Unknown}
      BY <1>1, <1>2, <3>2 DEF LineIsTrue
    <3>4. ASSUME NEW i \in 1..Len(past), past[i].app = x, i > newest.ts, i <= when PROVE FALSE
      <4>1. i \in (lost + 1)..Len(past)
        BY <3>1
      <4>2. PICK e \in Replay!Query(files) : e.ts = i
        BY <3>2, <3>4, <4>1, SinceALine
      <4>3. e \in before
        BY <1>1, <3>4, <4>2, QueryIsTrue DEF LineIsTrue
      <4> QED
        BY <3>2, <3>3, <3>4, <4>2, <4>3
    <3>5. TruthOf(past, record, x, newest.ts) = TruthOf(past, record, x, when)
      <4>1. \A i \in 1..Len(past) : past[i].app = x => i <= newest.ts \/ i > when
        BY <1>1, <3>3, <3>4
      <4> QED
        BY <1>1, <3>3, <4>1, TruthSteady
    <3>6. TruthOf(past, record, x, newest.ts) = past[newest.ts].version
      BY <1>1, <3>3, TruthAt
    <3>7. Replay!Resolve(x, when, files) =
            IF newest.version = Unknown THEN Replay!Doubt ELSE Replay!Known(newest.version)
      BY <2>4, <2>7 DEF Replay!FromChanges, newest
    <3>8. CASE newest.version = Unknown
      BY <3>7, <3>8 DEF Replay!IsTrue, Replay!Doubt
    <3>9. CASE newest.version # Unknown
      <4>1. newest.version = Replay!Truth(x, when)
        BY <3>3, <3>5, <3>6, <3>9, TruthIsTruth
      <4> QED
        BY <3>7, <3>9, <4>1 DEF Replay!IsTrue, Replay!Known
    <3> QED
      BY <3>8, <3>9
  <2> QED
    BY <2>5, <2>6, <2>7
<1> QED
  BY <1>4, <1>5

\* And nothing that has changed since is without a row.
LEMMA RowsAreAll ==
  ASSUME ReplayTypes, Chained(past, record), NEW files, Kept(files, <<>>, past, lost),
         NEW x \in Apps, NEW when \in 0..Len(past), when >= Replay!Horizon(files), when >= lost,
         Replay!Truth(x, when) # record[x].version
  PROVE  x \in Replay!Rows(files)
<1>1. Len(past) \in Nat /\ lost \in Nat /\ when \in Nat
  BY LenProperties DEF ReplayTypes
<1>2. TruthOf(past, record, x, when) # TruthOf(past, record, x, Len(past))
  BY TruthIsTruth DEF Chained
<1>3. PICK i \in (when + 1)..Len(past) : past[i].app = x
  <2>1. (\A i \in 1..Len(past) : past[i].app = x => i <= when \/ i > Len(past)) => FALSE
    BY <1>1, <1>2, TruthSteady
  <2> QED
    BY <1>1, <2>1
<1>4. PICK e \in Replay!Query(files) : e.ts = i
  BY <1>1, SinceHorizon
<1>5. e.app = x
  BY <1>3, <1>4, QueryIsTrue DEF LineIsTrue
<1> QED
  BY <1>4, <1>5 DEF Replay!Rows

\* The invariant gives what the run checks of states.
LEMMA ReplayInvImplies ==
  ASSUME ReplayInv PROVE Replay!RowsInReachAreTrue /\ Replay!CoveredIsComplete
<1> SUFFICES ASSUME NEW files \in Replay!Flushed, NEW when \in Replay!InReach(files), NEW x \in Apps
             PROVE  /\ Replay!IsTrue(x, when, files)
                    /\ Replay!Truth(x, when) # record[x].version => x \in Replay!Rows(files)
  BY DEF Replay!RowsInReachAreTrue, Replay!CoveredIsComplete, Replay!Rows
<1>1. Kept(files, <<>>, past, lost)
  BY FlushedKeeps DEF ReplayInv
<1>2. when \in 0..Len(past) /\ when >= Replay!Horizon(files) /\ when >= lost
  BY DEF Replay!InReach, Replay!now, ReplayInv, ReplayTypes
<1> QED
  BY <1>1, <1>2, RowIsTrue, RowsAreAll DEF ReplayInv

-----------------------------------------------------------------------------
(* The steps.                                                                *)

\* It holds before the first change.
LEMMA ReplayInvInit == Replay!Init => ReplayInv
<1> SUFFICES ASSUME Replay!Init PROVE ReplayInv
  OBVIOUS
<1>1. /\ past = <<>> /\ Len(past) = 0 /\ past \in Seq(Moved)
      /\ record \in [Apps -> {[version |-> v, at |-> 0] : v \in Installable}]
      /\ buffer = <<>> /\ lost = 0 /\ journal = <<<<>>>> /\ tags = Versions
      /\ restore = Replay!Idle
  BY EmptySeq DEF Replay!Init, Installable
<1>2. ReplayTypes
  <2>1. record \in [Apps -> [version: Installable, at: 0..MaxNow]]
    BY <1>1, ReplayConstants
  <2>2. restore \in [busy: BOOLEAN, when: 0..MaxNow, horizon: 0..(MaxNow + 1),
                     todo: Seq([app: Apps, version: Installable])]
    BY <1>1, ReplayConstants, EmptySeq DEF Replay!Idle
  <2> QED
    BY <1>1, <2>1, <2>2, ReplayConstants DEF ReplayTypes
<1>3. Chained(past, record)
  BY <1>1 DEF Chained, TruthOf, Before, ChangesOf
<1>4. Kept(journal, buffer, past, lost)
  <2>1. /\ journal \in Seq(Seq(Replay!Line)) /\ journal # <<>> /\ DOMAIN journal = {1}
        /\ journal[1] = <<>> /\ buffer \in Seq(Replay!Line)
    BY <1>1, EmptySeq
  <2>2. DOMAIN <<>> = {}
    OBVIOUS
  <2> QED
    BY <1>1, <2>1, <2>2 DEF Kept
<1>5. PlanIsTrue
  BY <1>1 DEF PlanIsTrue, Replay!Idle
<1> QED
  BY <1>1, <1>2, <1>3, <1>4, <1>5 DEF ReplayInv

\* A change of x to v.
LEMMA ChangeStep ==
  ASSUME ReplayInv, NEW x \in Apps, NEW v \in Installable, Replay!Change(x, v)
  PROVE  /\ past' \in Seq(Moved) /\ Len(past') \in Nat /\ Len(past') <= MaxNow
         /\ Len(past) \in Nat /\ Len(past') = Len(past) + 1
         /\ record' \in [Apps -> [version: Installable, at: 0..MaxNow]]
         /\ Chained(past', record') /\ Kept(journal, buffer', past', lost)
         /\ buffer' # <<>> => buffer'[Len(buffer')].ts = Len(past')
         /\ \A y \in Apps, t \in 0..Len(past) :
              TruthOf(past', record', y, t) = TruthOf(past, record, y, t)
         /\ lost' = lost
<1> DEFINE c == [app |-> x, version |-> v, from |-> record[x].version]
           n == Len(past)
<1>1. /\ past \in Seq(Moved) /\ n \in Nat /\ n < MaxNow /\ MaxNow \in Nat
      /\ record \in [Apps -> [version: Installable, at: 0..MaxNow]]
      /\ lost \in Nat /\ Chained(past, record) /\ Kept(journal, buffer, past, lost)
      /\ \A i \in 1..n : past[i] \in Moved
  BY ReplayConstants, LenProperties, ElementOfSeq
     DEF ReplayInv, ReplayTypes, Replay!Change, Replay!now
<1>2. c \in Moved /\ c.from = record[c.app].version /\ c.app = x /\ c.version = v
  BY <1>1 DEF Moved
<1>3. /\ past' = Append(past, c) /\ lost' = lost
      /\ record' = [record EXCEPT ![x] = IF v = None THEN Replay!NoInstall
                                         ELSE [version |-> v, at |-> n + 1]]
      /\ \E line \in Replay!Lines(n + 1, x, v, record[x].version) : buffer' = Append(buffer, line)
  BY DEF Replay!Change, Replay!now
<1> HIDE DEF c, n
<1>4. /\ past' \in Seq(Moved) /\ Len(past') = n + 1 /\ past'[n + 1] = c
      /\ \A i \in 1..n : past'[i] = past[i]
  BY <1>1, <1>2, <1>3, AppendProperties DEF n
<1>5. /\ record' \in [Apps -> [version: Installable, at: 0..MaxNow]] /\ record'[x].version = v
      /\ \A y \in Apps \ {x} : record'[y].version = record[y].version
  BY <1>1, <1>3 DEF Replay!NoInstall
<1>6. Chained(past', record')
  <2>1. /\ record'[c.app].version = c.version
        /\ \A y \in Apps \ {c.app} : record'[y].version = record[y].version
    BY <1>2, <1>5
  <2>2. Chained(Append(past, c), record')
    BY <1>1, <1>2, <2>1, ChainGrows
  <2> QED
    BY <1>3, <2>2
<1>7. \A y \in Apps, t \in 0..n : TruthOf(past', record', y, t) = TruthOf(past, record, y, t)
  <2>1. \A y \in Apps \ {c.app} : record'[y].version = record[y].version
    BY <1>2, <1>5
  <2>2. \A y \in Apps, t \in 0..Len(past) :
          TruthOf(Append(past, c), record', y, t) = TruthOf(past, record, y, t)
    <3>1. past \in Seq(Moved) /\ c \in Moved /\ c.from = record[c.app].version
      BY <1>1, <1>2
    <3> QED
      BY <2>1, <3>1, TruthKept, Zenon
  <2> QED
    BY <1>3, <2>2 DEF n
<1>8. PICK line \in Replay!Lines(n + 1, x, v, record[x].version) : buffer' = Append(buffer, line)
  BY <1>3
<1>9. /\ line \in Replay!Line /\ line.ts = n + 1 /\ line.app = x
      /\ line.version \in {v, Unknown} /\ line.replaced \in {record[x].version, Unknown}
      /\ n + 1 > OldUntil => line.replaced # Unknown
  <2>1. /\ record[x].version \in Installable /\ Unknown \notin Installable
        /\ Installable \subseteq Versions \union {None, Unknown} /\ n + 1 \in 1..MaxNow
    BY <1>1, ReplayConstants DEF Installable
  <2>2. CASE n + 1 > OldUntil
    <3>1. line = [ts |-> n + 1, app |-> x, version |-> v, replaced |-> record[x].version]
      BY <1>8, <2>2 DEF Replay!Lines
    <3> QED
      BY <2>1, <2>2, <3>1 DEF Replay!Line
  <2>3. CASE ~(n + 1 > OldUntil)
    <3>1. PICK w \in {v, Unknown} :
            line = [ts |-> n + 1, app |-> x, version |-> w, replaced |-> Unknown]
      BY <1>8, <2>3 DEF Replay!Lines
    <3> QED
      BY <2>1, <2>3, <3>1 DEF Replay!Line
  <2> QED
    BY <2>2, <2>3
<1>10. LineIsTrue(past', line)
  BY <1>1, <1>2, <1>4, <1>9 DEF LineIsTrue
<1>11. Kept(journal, buffer', past', lost)
  BY <1>1, <1>2, <1>3, <1>8, <1>9, <1>10, KeptGrows DEF n
<1>12. buffer'[Len(buffer')].ts = n + 1
  <2>1. buffer \in Seq(Replay!Line)
    BY <1>1 DEF Kept
  <2>2. Len(buffer') = Len(buffer) + 1 /\ buffer'[Len(buffer) + 1] = line
    BY <1>8, <1>9, <2>1, AppendProperties
  <2> QED
    BY <1>9, <2>2
<1>13. Len(past') \in Nat /\ Len(past') <= MaxNow
  BY <1>1, <1>4
<1> QED
  BY <1>1, <1>3, <1>4, <1>5, <1>6, <1>7, <1>11, <1>12, <1>13, Zenon DEF n

\* A plan stays true when time goes on, and when less of it is left.
LEMMA PlanStays ==
  ASSUME ReplayInv, lost' >= lost, lost' \in Nat,
         Len(past') \in Nat, Len(past') >= Len(past),
         \A y \in Apps, t \in 0..Len(past) :
           TruthOf(past', record', y, t) = TruthOf(past, record, y, t),
         restore'.when = restore.when, restore'.horizon = restore.horizon,
         \/ restore.todo # <<>> /\ restore'.todo = Tail(restore.todo)
         \/ restore'.todo = restore.todo
  PROVE  PlanIsTrue'
<1>1. /\ Len(past) \in Nat /\ lost \in Nat /\ restore.when \in 0..Len(past)
      /\ restore.todo \in Seq([app: Apps, version: Installable])
  BY LenProperties DEF ReplayInv, ReplayTypes, PlanIsTrue
<1>2. \A i \in DOMAIN restore'.todo : \E j \in DOMAIN restore.todo :
        restore'.todo[i] = restore.todo[j]
  <2>1. CASE restore'.todo = restore.todo
    BY <2>1
  <2>2. CASE restore.todo # <<>> /\ restore'.todo = Tail(restore.todo)
    <3>1. /\ Tail(restore.todo) \in Seq([app: Apps, version: Installable])
          /\ Len(Tail(restore.todo)) = Len(restore.todo) - 1
          /\ \A i \in 1..Len(Tail(restore.todo)) : Tail(restore.todo)[i] = restore.todo[i + 1]
      BY <1>1, <2>2, HeadTailProperties
    <3>2. /\ DOMAIN restore.todo = 1..Len(restore.todo) /\ Len(restore.todo) \in Nat
          /\ DOMAIN Tail(restore.todo) = 1..Len(Tail(restore.todo))
      BY <1>1, <3>1, LenProperties
    <3>3. \A i \in DOMAIN Tail(restore.todo) : i + 1 \in DOMAIN restore.todo
      BY <3>1, <3>2
    <3> QED
      BY <2>2, <3>1, <3>2, <3>3
  <2> QED
    BY <2>1, <2>2
<1>3. \A j \in DOMAIN restore.todo : restore.todo[j].app \in Apps
  <2>1. \A j \in DOMAIN restore.todo : restore.todo[j] \in [app: Apps, version: Installable]
    BY <1>1, ElementOfSeq, LenProperties
  <2> QED
    BY <2>1
<1>4. ASSUME restore'.when >= restore'.horizon, restore'.when >= lost',
             NEW i \in DOMAIN restore'.todo
      PROVE  restore'.todo[i].version =
               TruthOf(past', record', restore'.todo[i].app, restore'.when)
  <2>1. PICK j \in DOMAIN restore.todo : restore'.todo[i] = restore.todo[j]
    BY <1>2
  <2>2. restore.when >= restore.horizon /\ restore.when >= lost
    BY <1>1, <1>4
  <2>3. restore.todo[j].version = TruthOf(past, record, restore.todo[j].app, restore.when)
    BY <2>2 DEF ReplayInv, PlanIsTrue
  <2> QED
    BY <1>1, <1>3, <2>1, <2>3
<1> QED
  BY <1>1, <1>4 DEF PlanIsTrue

\* Finite sets are listed.
LEMMA SetsAreListed ==
  ASSUME NEW S, IsFiniteSet(S) PROVE Replay!SetToSeq(S) \in Seq(S)
<1>1. Replay!Cardinality(S) = Cardinality(S)
  BY DEF Replay!Cardinality, Cardinality, Replay!IsFiniteSet, IsFiniteSet
<1>2. Cardinality(S) \in Nat /\ ExistsBijection(1..Cardinality(S), S)
  BY FS_CardinalityType
<1>3. PICK f \in [1..Cardinality(S) -> S] :
        \A i, j \in 1..Cardinality(S) : f[i] = f[j] => i = j
  BY <1>2 DEF ExistsBijection, Bijection, Injection, IsInjective
<1>4. Replay!IsInjective(f)
  BY <1>3 DEF Replay!IsInjective
<1>5. Replay!SetToSeq(S) \in [1..Cardinality(S) -> S]
  BY <1>1, <1>4 DEF Replay!SetToSeq
<1> QED
  BY <1>2, <1>5, SeqDef

\* What a row says is something that can be installed.
LEMMA RowIsTyped ==
  ASSUME ReplayTypes, NEW files, Kept(files, <<>>, past, lost), NEW x \in Apps, NEW when
  PROVE  Replay!Resolve(x, when, files).version \in Installable
<1> DEFINE mine  == {e \in Replay!Query(files) : e.app = x}
           after == {e \in mine : e.ts > when}
           before == mine \ after
           first == CHOOSE e \in after : \A f \in after : e.ts <= f.ts
           newest == CHOOSE e \in before : \A f \in before : f.ts <= e.ts
<1>1. after \in SUBSET Replay!Line /\ before \in SUBSET Replay!Line
  BY QueryIsTrue
<1>2. record[x].version \in Installable /\ None \in Installable
  BY ReplayConstants DEF ReplayTypes
<1>3. CASE after = {}
  <2>1. Replay!Resolve(x, when, files) =
          Replay!FromSilence(x, when, when >= Replay!Horizon(files))
    BY <1>3 DEF Replay!Resolve
  <2>2. \A c : Replay!FromSilence(x, when, c).version \in Installable
    BY <1>2 DEF Replay!FromSilence, Replay!Known, Replay!Doubt
  <2> QED
    BY <2>1, <2>2
<1>4. CASE after # {}
  <2>1. Replay!Resolve(x, when, files) = Replay!FromChanges(first, before)
    BY <1>4 DEF Replay!Resolve
  <2>2. first \in Replay!Line
    <3> HIDE DEF after
    <3> QED
      BY <1>1, <1>4, FirstAndLast
  <2>3. before # {} => newest \in Replay!Line
    <3> HIDE DEF before
    <3> QED
      BY <1>1, FirstAndLast
  <2> HIDE DEF first
  <2>4. first.replaced # Unknown => first.replaced \in Installable
    BY <2>2 DEF Replay!Line, Installable
  <2>5. before # {} /\ newest.version # Unknown => newest.version \in Installable
    BY <2>3 DEF Replay!Line, Installable
  <2>6. CASE first.replaced # Unknown
    BY <2>1, <2>4, <2>6 DEF Replay!FromChanges, Replay!Known
  <2>7. CASE first.replaced = Unknown /\ before = {}
    BY <1>2, <2>1, <2>7 DEF Replay!FromChanges, Replay!Doubt
  <2>8. CASE first.replaced = Unknown /\ before # {}
    <3>1. Replay!Resolve(x, when, files) =
            IF newest.version = Unknown THEN Replay!Doubt ELSE Replay!Known(newest.version)
      BY <2>1, <2>8 DEF Replay!FromChanges
    <3> HIDE DEF newest
    <3>2. CASE newest.version = Unknown
      BY <1>2, <3>1, <3>2 DEF Replay!Doubt
    <3>3. CASE newest.version # Unknown
      BY <2>5, <2>8, <3>1, <3>3 DEF Replay!Known
    <3> QED
      BY <3>2, <3>3
  <2> QED
    BY <2>6, <2>7, <2>8
<1> QED
  BY <1>3, <1>4

\* A plan is a list of rows that are not in doubt.
LEMMA PlanIsListed ==
  ASSUME ReplayTypes, NEW files, Kept(files, <<>>, past, lost), NEW when
  PROVE  /\ Replay!Plan(when, files) \in Seq([app: Apps, version: Installable])
         /\ \A i \in DOMAIN Replay!Plan(when, files) :
              \E x \in Replay!Rows(files) :
                /\ ~Replay!Resolve(x, when, files).uncertain
                /\ Replay!Plan(when, files)[i] =
                     [app |-> x, version |-> Replay!Resolve(x, when, files).version]
<1> DEFINE row(x)     == Replay!Resolve(x, when, files)
           chosen(act) == {x \in Replay!Rows(files) : Replay!Action(x, row(x)) = act}
           items(act) == {[app |-> x, version |-> row(x).version] : x \in chosen(act)}
           Item == {[app |-> x, version |-> row(x).version] :
                      x \in {y \in Replay!Rows(files) : ~row(y).uncertain}}
<1>1. Replay!Rows(files) \subseteq Apps
  BY DEF Replay!Rows
<1>2. ASSUME NEW act \in {"remove", "install"}
      PROVE  IsFiniteSet(items(act)) /\ items(act) \subseteq Item
  <2>1. IsFiniteSet(chosen(act))
    BY <1>1, ReplayConstants, FS_Subset
  <2>2. [x \in chosen(act) |-> [app |-> x, version |-> row(x).version]]
          \in Surjection(chosen(act), items(act))
    BY DEF Surjection
  <2>3. IsFiniteSet(items(act))
    BY <2>1, <2>2, FS_Surjection
  <2>4. \A x \in chosen(act) : ~row(x).uncertain
    BY DEF Replay!Action
  <2> QED
    BY <2>3, <2>4
<1>3. ASSUME NEW act \in {"remove", "install"} PROVE Replay!SetToSeq(items(act)) \in Seq(Item)
  BY <1>2, SetsAreListed, SeqMonotonic
<1>4. Replay!Plan(when, files) =
        Replay!SetToSeq(items("remove")) \o Replay!SetToSeq(items("install"))
  BY DEF Replay!Plan
<1>5. Replay!Plan(when, files) \in Seq(Item)
  BY <1>3, <1>4, ConcatProperties
<1>6. Item \subseteq [app: Apps, version: Installable]
  BY <1>1, RowIsTyped
<1>7. \A i \in DOMAIN Replay!Plan(when, files) : Replay!Plan(when, files)[i] \in Item
  BY <1>5, ElementOfSeq, LenProperties
<1> QED
  BY <1>5, <1>6, <1>7, SeqMonotonic

\* The horizon is a moment.
LEMMA HorizonIsTyped ==
  ASSUME ReplayTypes, NEW files, Kept(files, <<>>, past, lost)
  PROVE  Replay!Horizon(files) \in 0..(MaxNow + 1)
<1> DEFINE written == {i \in DOMAIN files : files[i] # <<>>}
<1>1. Len(past) \in 0..MaxNow /\ MaxNow \in Nat
  BY ReplayConstants, LenProperties DEF ReplayTypes
<1>2. CASE written = {}
  BY <1>1, <1>2 DEF Replay!Horizon, Replay!now
<1>3. CASE written # {}
  <2>1. Replay!Max(written) \in written
    <3>1. written \in SUBSET (1..Len(files)) /\ Len(files) \in Nat
      BY KeptFacts
    <3> HIDE DEF written
    <3> QED
      BY <1>3, <3>1, LargestChange
  <2>2. files[Replay!Max(written)] \in Seq(Replay!Line) /\ files[Replay!Max(written)] # <<>>
    BY <2>1, KeptFacts
  <2>3. Head(files[Replay!Max(written)]) \in Replay!Line
    BY <2>2, HeadTailProperties
  <2>4. Replay!Horizon(files) = Head(files[Replay!Max(written)]).ts
    BY <1>3 DEF Replay!Horizon
  <2> QED
    BY <1>1, <2>3, <2>4 DEF Replay!Line
<1> QED
  BY <1>2, <1>3

\* The user's change.
LEMMA UserChangesStep ==
  ASSUME ReplayInv, NEW x \in Apps, NEW v \in Installable, Replay!UserChanges(x, v)
  PROVE  ReplayInv'
<1>1. Replay!Change(x, v) /\ journal' = journal /\ tags' = tags /\ restore' = restore
  BY DEF Replay!UserChanges
<1>2. PlanIsTrue'
  <2>1. lost' >= lost /\ lost' \in Nat
    BY <1>1, ChangeStep DEF ReplayInv, ReplayTypes
  <2> QED
    BY <1>1, <2>1, ChangeStep, PlanStays
<1>3. ReplayTypes'
  <2>1. /\ lost \in 0..Len(past) /\ (lost = 0 \/ lost > OldUntil)
    BY DEF ReplayInv, ReplayTypes
  <2>2. lost' \in 0..Len(past') /\ (lost' = 0 \/ lost' > OldUntil)
    BY <1>1, <2>1, ChangeStep
  <2> QED
    BY <1>1, <2>2, ChangeStep DEF ReplayInv, ReplayTypes
<1> QED
  BY <1>1, <1>2, <1>3, ChangeStep DEF ReplayInv

\* A step of a restore, done or failed.
LEMMA StepDoneStep == ASSUME ReplayInv, Replay!StepDone PROVE ReplayInv'
<1> DEFINE step == Head(restore.todo)
<1>1. /\ restore.todo # <<>> /\ step.version \in tags \union {None}
      /\ Replay!Change(step.app, step.version) /\ journal' = journal /\ tags' = tags
      /\ restore' = [restore EXCEPT !.todo = Tail(@)]
  BY DEF Replay!StepDone
<1>2. restore \in [busy: BOOLEAN, when: 0..MaxNow, horizon: 0..(MaxNow + 1),
                   todo: Seq([app: Apps, version: Installable])]
  BY DEF ReplayInv, ReplayTypes
<1>3. step \in [app: Apps, version: Installable]
      /\ Tail(restore.todo) \in Seq([app: Apps, version: Installable])
  BY <1>1, <1>2, HeadTailProperties
<1>4. step.app \in Apps /\ step.version \in Installable
  BY <1>3
<1>5. /\ restore'.when = restore.when /\ restore'.horizon = restore.horizon
      /\ restore'.todo = Tail(restore.todo)
      /\ restore' \in [busy: BOOLEAN, when: 0..MaxNow, horizon: 0..(MaxNow + 1),
                       todo: Seq([app: Apps, version: Installable])]
  BY <1>1, <1>2, <1>3
<1> HIDE DEF step
<1>6. PlanIsTrue'
  <2>1. lost' >= lost /\ lost' \in Nat
    BY <1>1, <1>4, ChangeStep DEF ReplayInv, ReplayTypes
  <2> QED
    BY <1>1, <1>4, <1>5, <2>1, ChangeStep, PlanStays
<1>7. ReplayTypes'
  <2>1. /\ lost \in 0..Len(past) /\ (lost = 0 \/ lost > OldUntil) /\ tags \subseteq Versions
    BY DEF ReplayInv, ReplayTypes
  <2>2. lost' \in 0..Len(past') /\ (lost' = 0 \/ lost' > OldUntil)
    BY <1>1, <1>4, <2>1, ChangeStep
  <2> QED
    BY <1>1, <1>4, <1>5, <2>1, <2>2, ChangeStep DEF ReplayTypes
<1> QED
  BY <1>1, <1>4, <1>6, <1>7, ChangeStep DEF ReplayInv

LEMMA StepFailsStep == ASSUME ReplayInv, Replay!StepFails PROVE ReplayInv'
<1>1. /\ restore.todo # <<>> /\ restore' = [restore EXCEPT !.todo = Tail(@)]
      /\ UNCHANGED <<past, record, buffer, lost, journal, tags>>
  BY DEF Replay!StepFails
<1>2. restore \in [busy: BOOLEAN, when: 0..MaxNow, horizon: 0..(MaxNow + 1),
                   todo: Seq([app: Apps, version: Installable])]
      /\ Len(past) \in Nat /\ lost \in Nat
  BY LenProperties DEF ReplayInv, ReplayTypes
<1>3. Tail(restore.todo) \in Seq([app: Apps, version: Installable])
  BY <1>1, <1>2, HeadTailProperties
<1>4. /\ restore'.when = restore.when /\ restore'.horizon = restore.horizon
      /\ restore'.todo = Tail(restore.todo)
      /\ restore' \in [busy: BOOLEAN, when: 0..MaxNow, horizon: 0..(MaxNow + 1),
                       todo: Seq([app: Apps, version: Installable])]
  BY <1>1, <1>2, <1>3
<1>5. PlanIsTrue'
  BY <1>1, <1>2, <1>4, PlanStays
<1> QED
  BY <1>1, <1>4, <1>5 DEF ReplayInv, ReplayTypes

\* The journal is written, or cannot be, or the hub is killed.
LEMMA JournalStep ==
  ASSUME ReplayInv, Replay!Flush \/ Replay!WriteFails \/ Replay!Kill
  PROVE  ReplayInv'
<1>1. /\ past' = past /\ record' = record /\ tags' = tags /\ buffer' = <<>> /\ buffer # <<>>
      /\ restore' \in {restore, Replay!Idle}
  BY DEF Replay!Flush, Replay!WriteFails, Replay!Kill
<1>2. /\ Len(past) \in Nat /\ Len(past) <= MaxNow /\ lost \in 0..Len(past)
      /\ (lost = 0 \/ lost > OldUntil)
      /\ Kept(journal, buffer, past, lost) /\ buffer \in Seq(Replay!Line)
      /\ \A k \in DOMAIN buffer : LineIsTrue(past, buffer[k])
      /\ buffer[Len(buffer)].ts = Len(past)
  BY <1>1, LenProperties DEF ReplayInv, ReplayTypes, Kept
<1>3. /\ Kept(journal', buffer', past', lost') /\ lost' \in 0..Len(past) /\ lost' >= lost
      /\ (lost' = 0 \/ lost' > OldUntil)
  <2>1. CASE Replay!Flush
    <3>1. Kept(journal', <<>>, past, lost)
      BY <1>2, <2>1, FlushedKeeps DEF Replay!Flush
    <3> QED
      BY <1>1, <1>2, <2>1, <3>1 DEF Replay!Flush
  <2>2. ASSUME Replay!WriteFails \/ Replay!Kill
        PROVE  lost' = Len(past) /\ lost' > OldUntil
    BY <1>2, <2>2 DEF Replay!WriteFails, Replay!Kill, Replay!Last
  <2>3. \A files : Kept(files, buffer, past, lost) => Kept(files, buffer, past, Len(past))
    BY <1>2, KeptLess
  <2>4. \A t : t \notin (Len(past) + 1)..Len(past)
    BY <1>2
  <2>5. CASE Replay!WriteFails
    <3>1. PICK files \in {journal, Replay!Rotated(journal)} : journal' = files
      BY <2>5 DEF Replay!WriteFails
    <3>2. Kept(files, buffer, past, Len(past))
      BY <1>2, <2>3, <3>1, RotatedKeeps
    <3>3. Kept(files, <<>>, past, Len(past))
      BY <3>2, EmptySeq DEF Kept
    <3> QED
      BY <1>1, <1>2, <2>2, <2>5, <3>1, <3>3
  <2>6. CASE Replay!Kill
    <3>1. PICK whole \in 0..(Len(buffer) - 1) :
            journal' = Replay!Appended(journal, SubSeq(buffer, 1, whole))
      BY <2>6 DEF Replay!Kill
    <3>2. Len(buffer) \in Nat /\ DOMAIN buffer = 1..Len(buffer)
      BY <1>2, LenProperties
    <3>3. /\ SubSeq(buffer, 1, whole) \in Seq(Replay!Line)
          /\ Len(SubSeq(buffer, 1, whole)) = whole
          /\ \A k \in 1..whole : SubSeq(buffer, 1, whole)[k] = buffer[k]
      <4>1. \A k \in 1..whole : buffer[k] \in Replay!Line
        BY <1>2, <3>1, <3>2, ElementOfSeq
      <4>2. /\ SubSeq(buffer, 1, whole) \in Seq(Replay!Line)
            /\ Len(SubSeq(buffer, 1, whole)) = IF 1 <= whole THEN whole - 1 + 1 ELSE 0
            /\ \A k \in 1..(whole - 1 + 1) : SubSeq(buffer, 1, whole)[k] = buffer[1 + k - 1]
        BY <3>1, <3>2, <4>1, SubSeqProperties
      <4> QED
        BY <3>1, <3>2, <4>2
    <3>4. \A k \in DOMAIN SubSeq(buffer, 1, whole) : LineIsTrue(past, SubSeq(buffer, 1, whole)[k])
      <4>1. DOMAIN SubSeq(buffer, 1, whole) = 1..whole
        BY <3>3, LenProperties
      <4> QED
        BY <1>2, <3>1, <3>2, <3>3, <4>1
    <3>5. Kept(journal', <<>>, past, Len(past))
      BY <1>2, <2>3, <2>4, <3>1, <3>3, <3>4, AppendedKeeps
    <3> QED
      BY <1>1, <1>2, <2>2, <2>6, <3>5
  <2> QED
    BY <2>1, <2>5, <2>6
<1>4. PlanIsTrue'
  <2>1. CASE restore' = restore
    <3>1. lost' \in Nat
      BY <1>2, <1>3
    <3> QED
      BY <1>1, <1>2, <1>3, <2>1, <3>1, PlanStays
  <2>2. CASE restore' = Replay!Idle
    BY <1>1, <1>2, <2>2 DEF PlanIsTrue, Replay!Idle
  <2> QED
    BY <1>1, <2>1, <2>2
<1>5. ReplayTypes'
  <2>1. Replay!Idle \in [busy: BOOLEAN, when: 0..MaxNow, horizon: 0..(MaxNow + 1),
                         todo: Seq([app: Apps, version: Installable])]
    BY ReplayConstants, EmptySeq DEF Replay!Idle
  <2> QED
    BY <1>1, <1>2, <1>3, <2>1 DEF ReplayInv, ReplayTypes
<1> QED
  BY <1>1, <1>3, <1>4, <1>5 DEF ReplayInv

\* A plan is made.
LEMMA RestoreStep ==
  ASSUME ReplayInv, NEW when \in 0..Len(past), Replay!Restore(when)
  PROVE  ReplayInv'
<1>1. PICK files \in Replay!Flushed :
        /\ journal' = files
        /\ restore' = [busy |-> TRUE, when |-> when, horizon |-> Replay!Horizon(files),
                       todo |-> Replay!Plan(when, files)]
  BY DEF Replay!Restore
<1>2. buffer' = <<>> /\ UNCHANGED <<past, record, lost, tags>>
  BY DEF Replay!Restore
<1>3. Kept(files, <<>>, past, lost) /\ ReplayTypes /\ Chained(past, record)
  BY FlushedKeeps DEF ReplayInv
<1>4. /\ Replay!Plan(when, files) \in Seq([app: Apps, version: Installable])
      /\ Replay!Horizon(files) \in 0..(MaxNow + 1) /\ when \in 0..MaxNow /\ Len(past) \in Nat
  <2>1. Len(past) \in Nat /\ Len(past) <= MaxNow /\ MaxNow \in Nat
    BY <1>3, LenProperties, ReplayConstants DEF ReplayTypes
  <2>2. when \in 0..MaxNow
    BY <2>1
  <2>3. Replay!Plan(when, files) \in Seq([app: Apps, version: Installable])
    BY <1>3, PlanIsListed
  <2>4. Replay!Horizon(files) \in 0..(MaxNow + 1)
    BY <1>3, HorizonIsTyped
  <2> QED
    BY <2>1, <2>2, <2>3, <2>4
<1>5. ASSUME when >= Replay!Horizon(files), when >= lost, NEW i \in DOMAIN Replay!Plan(when, files)
      PROVE  Replay!Plan(when, files)[i].version =
               TruthOf(past, record, Replay!Plan(when, files)[i].app, when)
  <2>1. PICK x \in Replay!Rows(files) :
          /\ ~Replay!Resolve(x, when, files).uncertain
          /\ Replay!Plan(when, files)[i] =
               [app |-> x, version |-> Replay!Resolve(x, when, files).version]
    BY <1>3, PlanIsListed
  <2>2. x \in Apps
    BY DEF Replay!Rows
  <2>3. Replay!IsTrue(x, when, files)
    BY <1>3, <1>5, <2>2, RowIsTrue
  <2>4. Replay!Resolve(x, when, files).version = TruthOf(past, record, x, when)
    BY <2>1, <2>3, TruthIsTruth DEF Replay!IsTrue
  <2> QED
    BY <2>1, <2>4
<1>6. PlanIsTrue'
  BY <1>1, <1>2, <1>4, <1>5 DEF PlanIsTrue
<1>7. ReplayTypes'
  BY <1>1, <1>2, <1>3, <1>4 DEF ReplayTypes
<1>8. Chained(past', record') /\ Kept(journal', buffer', past', lost')
  BY <1>1, <1>2, <1>3
<1> QED
  BY <1>2, <1>6, <1>7, <1>8 DEF ReplayInv

\* Every step keeps the invariant.
LEMMA ReplayInvStep == ReplayInv /\ [Replay!Next]_Replay!vars => ReplayInv'
<1> SUFFICES ASSUME ReplayInv, [Replay!Next]_Replay!vars PROVE ReplayInv'
  OBVIOUS
<1>1. CASE Replay!Flush \/ Replay!WriteFails \/ Replay!Kill
  BY <1>1, JournalStep
<1>2. ASSUME NEW x \in Apps, NEW v \in Versions \union {None}, Replay!UserChanges(x, v)
      PROVE  ReplayInv'
  BY <1>2, UserChangesStep DEF Installable
<1>3. ASSUME NEW v \in Versions, Replay!Withdraw(v) PROVE ReplayInv'
  <2>1. UNCHANGED <<past, record, buffer, lost, journal, restore>> /\ tags' \subseteq tags
    BY <1>3 DEF Replay!Withdraw
  <2> QED
    BY <2>1 DEF ReplayInv, ReplayTypes, PlanIsTrue
<1>4. ASSUME NEW when \in 0..Replay!now, Replay!Restore(when) PROVE ReplayInv'
  BY <1>4, RestoreStep DEF Replay!now
<1>5. CASE Replay!StepDone
  BY <1>5, StepDoneStep
<1>6. CASE Replay!StepFails
  BY <1>6, StepFailsStep
<1>7. CASE Replay!Verdict
  <2>1. UNCHANGED <<past, record, buffer, lost, journal, tags>> /\ restore' = Replay!Idle
    BY <1>7 DEF Replay!Verdict
  <2>2. Replay!Idle \in [busy: BOOLEAN, when: 0..MaxNow, horizon: 0..(MaxNow + 1),
                         todo: Seq([app: Apps, version: Installable])]
    BY ReplayConstants, EmptySeq DEF Replay!Idle
  <2>3. ReplayTypes'
    BY <2>1, <2>2 DEF ReplayInv, ReplayTypes
  <2>4. PlanIsTrue'
    BY <2>1, LenProperties DEF ReplayInv, ReplayTypes, PlanIsTrue, Replay!Idle
  <2> QED
    BY <2>1, <2>3, <2>4 DEF ReplayInv
<1>8. CASE UNCHANGED Replay!vars
  BY <1>8 DEF Replay!vars, ReplayInv, ReplayTypes, PlanIsTrue
<1> QED
  BY <1>1, <1>2, <1>3, <1>4, <1>5, <1>6, <1>7, <1>8 DEF Replay!Next

\* A step of a restore does what its plan says.
LEMMA StepsAreTrue ==
  ReplayInv /\ [Replay!Next]_Replay!vars => [Replay!MovesToTruth]_Replay!vars
<1> SUFFICES ASSUME ReplayInv, NEW x \in Apps, Replay!StepDone, record'[x] # record[x],
                    restore.when >= restore.horizon, restore.when >= lost
             PROVE  record'[x].version = Replay!Truth(x, restore.when)
  BY DEF Replay!MovesToTruth
<1> DEFINE step == Head(restore.todo)
<1>1. restore.todo # <<>> /\ Replay!Change(step.app, step.version)
  BY DEF Replay!StepDone
<1>2. restore.todo \in Seq([app: Apps, version: Installable])
      /\ record \in [Apps -> [version: Installable, at: 0..MaxNow]]
  BY DEF ReplayInv, ReplayTypes
<1>3. step \in [app: Apps, version: Installable] /\ step = restore.todo[1]
      /\ 1 \in DOMAIN restore.todo
  <2>1. /\ Len(restore.todo) \in Nat \ {0} /\ DOMAIN restore.todo = 1..Len(restore.todo)
        /\ step = restore.todo[1]
    BY <1>1, <1>2, EmptySeq, LenProperties
  <2>2. 1 \in DOMAIN restore.todo
    BY <2>1
  <2>3. restore.todo[1] \in [app: Apps, version: Installable]
    BY <1>2, <2>1, <2>2, ElementOfSeq
  <2> QED
    BY <2>1, <2>2, <2>3
<1>4. step.version = TruthOf(past, record, step.app, restore.when)
  BY <1>3 DEF ReplayInv, PlanIsTrue
<1>5. record' = [record EXCEPT ![step.app] = IF step.version = None THEN Replay!NoInstall
                                  ELSE [version |-> step.version, at |-> Len(past) + 1]]
  BY <1>1 DEF Replay!Change, Replay!now
<1> HIDE DEF step
<1>6. x = step.app
  BY <1>2, <1>3, <1>5
<1>7. record'[x].version = step.version
  BY <1>2, <1>5, <1>6 DEF Replay!NoInstall
<1> QED
  BY <1>4, <1>6, <1>7, TruthIsTruth

\* A checkpoint in the journal's reach names the version that was installed, or is marked
\* uncertain, and leaves out nothing that has changed since; and what a restore does on its
\* word is done on the truth: whatever is rotated away, killed, refused by the disk, withdrawn
\* or installed in between (resolveRow, reconstruct, restore; flush, rotateIfNeeded).  For any
\* apps and versions, any number of changes and of files kept, and any age of the old lines.
THEOREM HistoryAlwaysHonest == Replay!Spec => HistoryIsHonest
<1>1. Replay!Spec => [](Replay!RowsInReachAreTrue /\ Replay!CoveredIsComplete)
  BY ReplayInvInit, ReplayInvStep, ReplayInvImplies, PTL DEF Replay!Spec
<1>2. Replay!Spec => Replay!RestoreNeverGuesses
  BY ReplayInvInit, ReplayInvStep, StepsAreTrue, PTL DEF Replay!Spec, Replay!RestoreNeverGuesses
<1> QED
  BY <1>1, <1>2, PTL DEF HistoryIsHonest, Replay!HistoryIsHonest
=============================================================================
