----------------------------- MODULE UpdatesProofs -----------------------------
(***************************************************************************)
(* What holds of the way to a new version for every value of the constants.*)
(*                                                                         *)
(* The catalogue and the update policies (Catalogue), for any apps,        *)
(* versions and releases, and any number of passes at one time.            *)
(*                                                                         *)
(* The asset lock (AssetLock), for any number of hub processes and         *)
(* acquisitions: as long as no process has exited and no lock write has    *)
(* failed, nobody but the holder removes a lock that names a hub, so at    *)
(* most one acquisition holds it; with two hubs, not even an exit changes  *)
(* that.                                                                   *)
(***************************************************************************)
EXTENDS MCUpdates, FiniteSetTheorems, WellFoundedInduction, TLAPS

Preference == [skipped : Cat!Version, hidden : BOOLEAN, prerelease : BOOLEAN, policy : Cat!Policies]

Pass == [busy : BOOLEAN, todo : Seq(Apps), loading : BOOLEAN, loaded : BOOLEAN,
         policy : [Apps -> Cat!Policies], own : [Apps -> Cat!Row] \union {<<>>}]

CatalogueTypes ==
  /\ published \in [Apps -> Cat!Version] /\ fetched \in [Apps -> Cat!Version]
  /\ installed \in [Apps -> Cat!Version] /\ downloads \in [Apps -> Cat!Version]
  /\ prefs \in [Apps -> Preference]
  /\ refresh.busy => refresh.prefs \in [Apps -> Preference]
  /\ model \in [Apps -> Cat!Row]
  /\ pass \in [Passes -> Pass]

\* What is being loaded is the app a pass is at.
LoadsItsHead == \A p \in Passes : pass[p].loading => pass[p].todo # <<>>

CatalogueInv == CatalogueTypes /\ LoadsItsHead /\ Cat!ReadyIsReal

-----------------------------------------------------------------------------
(* The rows.                                                                 *)

\* Versions are the naturals up to the last one.
LEMMA LastIsNat == LastVersion \in Nat \ {0} /\ 0 \in Cat!Version /\ Cat!Version = 0..LastVersion
BY CatalogueAssumed DEF Cat!CatalogueAssumption, Cat!Version

\* A nonempty set of naturals has a least element.
LEMMA LeastNatural ==
  ASSUME NEW T, T \subseteq Nat, T # {}
  PROVE  \E n \in T : \A m \in T : n <= m
<1>1. PICK n \in T : \A m \in T : ~(<<m, n>> \in OpToRel(<, Nat))
  BY NatLessThanWellFounded, WFMin
<1>2. \A m \in T : ~(m < n)
  BY <1>1 DEF OpToRel
<1> QED
  BY <1>2

\* The newest of some versions is one of them.
LEMMA NewestIsOne ==
  ASSUME NEW versions \in SUBSET Cat!Version
  PROVE  Cat!Newest(versions) \in Cat!Version
<1>1. CASE versions = {}
  BY <1>1, LastIsNat DEF Cat!Newest
<1>2. CASE versions # {}
  <2> DEFINE T == {LastVersion - v : v \in versions}
  <2>1. T \subseteq Nat /\ T # {}
    <3>1. \A v \in versions : LastVersion - v \in Nat
      BY LastIsNat
    <3> QED
      BY <1>2, <3>1
  <2>2. PICK n \in T : \A m \in T : n <= m
    <3> HIDE DEF T
    <3> QED
      BY <2>1, LeastNatural
  <2>3. PICK v \in versions : n = LastVersion - v
    BY <2>2
  <2>4. \A w \in versions : w <= v
    <3>1. SUFFICES ASSUME NEW w \in versions PROVE w <= v
      OBVIOUS
    <3>2. n <= LastVersion - w
      BY <2>2, <3>1
    <3>3. v \in Int /\ w \in Int /\ LastVersion \in Int
      BY <2>3, <3>1, LastIsNat
    <3> QED
      BY <2>3, <3>2, <3>3
  <2>5. \E u \in versions : \A w \in versions : w <= u
    BY <2>4
  <2>6. Cat!Newest(versions) \in versions
    BY <1>2, <2>5 DEF Cat!Newest
  <2> QED
    BY <2>6
<1> QED
  BY <1>1, <1>2

\* A row with the state of the disk is ready when the download is of its target.
LEMMA MergedRow ==
  ASSUME NEW row \in Cat!Row, NEW p \in Preference, NEW has \in Cat!Version,
         NEW loaded \in Cat!Version
  PROVE  /\ Cat!Merged(row, p, has, loaded) \in Cat!Row
         /\ Cat!Merged(row, p, has, loaded).ready => loaded = Cat!Merged(row, p, has, loaded).target
BY DEF Cat!Merged, Cat!Row, Preference

\* So is one that is built from a list of releases.
LEMMA BuiltRow ==
  ASSUME NEW newest \in Cat!Version, NEW p \in Preference, NEW has \in Cat!Version,
         NEW loaded \in Cat!Version, NEW a \in Apps
  PROVE  /\ Cat!Built(newest, p, has, loaded, a) \in Cat!Row
         /\ Cat!Built(newest, p, has, loaded, a).ready
              => loaded = Cat!Built(newest, p, has, loaded, a).target
<1> DEFINE eligible == Cat!Eligible(newest, p.prerelease)
           row == [Cat!Unknown EXCEPT !.latest = Cat!Newest(eligible),
                                  !.target = Cat!Newest(eligible \intersect Ships[a])]
<1>1. eligible \in SUBSET Cat!Version
  BY LastIsNat DEF Cat!Eligible
<1>2. /\ Cat!Newest(eligible) \in Cat!Version
      /\ Cat!Newest(eligible \intersect Ships[a]) \in Cat!Version
  BY <1>1, NewestIsOne
<1>3. row \in Cat!Row
  BY <1>2 DEF Cat!Unknown, Cat!Row
<1>4. Cat!Built(newest, p, has, loaded, a) = Cat!Merged(row, p, has, loaded)
  BY DEF Cat!Built
<1> HIDE DEF eligible, row
<1> QED
  BY <1>3, <1>4, MergedRow

\* What all rows say after a rebuild or a merge.
Real(rows, loads) ==
  /\ rows \in [Apps -> Cat!Row]
  /\ \A a \in Apps : rows[a].ready => loads[a] = rows[a].target

\* The whole catalogue, built again.
LEMMA RebuiltRows ==
  ASSUME installed \in [Apps -> Cat!Version], downloads \in [Apps -> Cat!Version],
         NEW known \in [Apps -> Cat!Version], NEW p \in [Apps -> Preference]
  PROVE  Real(Cat!Rebuilt(known, p), downloads)
BY BuiltRow DEF Cat!Rebuilt, Real

\* The whole catalogue, with the state of the disk merged in.
LEMMA RemergedRows ==
  ASSUME model \in [Apps -> Cat!Row], prefs \in [Apps -> Preference],
         NEW has \in [Apps -> Cat!Version], NEW loads \in [Apps -> Cat!Version]
  PROVE  Real(Cat!Remerged(has, loads), loads)
BY MergedRow DEF Cat!Remerged, Real

-----------------------------------------------------------------------------
(* The passes.                                                               *)

\* A pass that begins.
LEMMA FreshPass ==
  ASSUME NEW p \in [Apps -> Preference]
  PROVE  [Cat!NoPass EXCEPT !.busy = TRUE, !.todo = Order, !.policy = [a \in Apps |-> p[a].policy]]
           \in Pass
<1>1. Order \in Seq(Apps) /\ <<>> \in Seq(Apps)
  BY CatalogueAssumed DEF Cat!CatalogueAssumption
<1>2. [a \in Apps |-> p[a].policy] \in [Apps -> Cat!Policies]
  BY DEF Preference
<1> QED
  BY <1>1, <1>2 DEF Cat!NoPass, Pass

\* No pass at all.
LEMMA NoPassIsOne == Cat!NoPass \in Pass
<1>1. [a \in Apps |-> "notify"] \in [Apps -> Cat!Policies] /\ <<>> \in Seq(Apps)
  BY DEF Cat!Policies
<1> QED
  BY <1>1 DEF Cat!NoPass, Pass

\* Passes that lose their place in the catalogue keep the rows they had.
LEMMA DetachedPasses ==
  ASSUME pass \in [Passes -> Pass], model \in [Apps -> Cat!Row]
  PROVE  /\ Cat!Detached \in [Passes -> Pass]
         /\ \A p \in Passes : /\ Cat!Detached[p].loading = pass[p].loading
                              /\ Cat!Detached[p].todo = pass[p].todo
                              /\ Cat!Overtaken(p) =>
                                   /\ Cat!Detached[p].busy /\ Cat!Detached[p].loaded
                                   /\ Cat!Detached[p].own # <<>>
BY DEF Cat!Detached, Pass, Cat!Overtaken

\* A pass goes to its next app.
LEMMA NextAppTyped ==
  ASSUME pass \in [Passes -> Pass], NEW p \in Passes, pass[p].todo # <<>>
  PROVE  /\ Cat!NextApp(p) \in [Passes -> Pass]
         /\ \A q \in Passes \ {p} : Cat!NextApp(p)[q] = pass[q]
         /\ ~Cat!NextApp(p)[p].loading /\ Cat!NextApp(p)[p].busy = pass[p].busy
         /\ Cat!NextApp(p)[p].own = pass[p].own /\ Cat!NextApp(p)[p].loaded = pass[p].loaded
<1>1. Tail(pass[p].todo) \in Seq(Apps)
  BY DEF Pass
<1> QED
  BY <1>1 DEF Cat!NextApp, Pass

-----------------------------------------------------------------------------
(* The steps.                                                                *)

\* Whatever replaces or brings up to date all rows makes them real.
LEMMA RealRowsAreReady ==
  ASSUME Real(model', downloads') PROVE Cat!ReadyIsReal'
BY DEF Real, Cat!ReadyIsReal

\* What leaves rows, downloads and those thrown away alone, and ends no pass that
\* was overtaken.
LEMMA PassesKeep ==
  ASSUME CatalogueInv, UNCHANGED <<downloads, model, spurned>>,
         \A p \in Passes : Cat!Overtaken(p) => Cat!Overtaken(p)'
  PROVE  Cat!ReadyIsReal'
BY DEF CatalogueInv, Cat!ReadyIsReal

\* Releases, refreshes and the start of a hub.
LEMMA RefreshSteps ==
  ASSUME CatalogueInv,
         \/ Cat!RefreshBegins \/ Cat!RefreshFails \/ Cat!Restart
         \/ \E p \in Passes : Cat!Answer(p)
         \/ \E a \in Apps : Cat!Publish(a)
  PROVE  CatalogueInv'
<1>1. ASSUME NEW a \in Apps, Cat!Publish(a) PROVE CatalogueInv'
  <2>1. published[a] \in 0..LastVersion /\ published[a] + 1 \in Cat!Version
    BY <1>1, LastIsNat DEF Cat!Publish, CatalogueInv, CatalogueTypes
  <2>2. published' \in [Apps -> Cat!Version]
    BY <1>1, <2>1 DEF Cat!Publish, CatalogueInv, CatalogueTypes
  <2> QED
    BY <1>1, <2>2 DEF Cat!Publish, CatalogueInv, CatalogueTypes, LoadsItsHead,
                      Cat!ReadyIsReal, Cat!Overtaken
<1>2. ASSUME Cat!RefreshBegins PROVE CatalogueInv'
  BY <1>2 DEF Cat!RefreshBegins, CatalogueInv, CatalogueTypes, LoadsItsHead,
              Cat!ReadyIsReal, Cat!Overtaken
<1>3. ASSUME Cat!RefreshFails PROVE CatalogueInv'
  <2>1. PICK p \in Passes :
          /\ ~pass[p].busy
          /\ pass' = [pass EXCEPT ![p] = [Cat!NoPass EXCEPT !.busy = TRUE, !.todo = Order,
                                            !.policy = [a \in Apps |-> prefs[a].policy]]]
    BY <1>3 DEF Cat!RefreshFails
  <2>2. PICK new \in Pass : new = [Cat!NoPass EXCEPT !.busy = TRUE, !.todo = Order,
                                            !.policy = [a \in Apps |-> prefs[a].policy]]
    BY FreshPass DEF CatalogueInv, CatalogueTypes
  <2>3. ~new.loading
    BY <2>2 DEF Cat!NoPass
  <2>4. /\ pass' \in [Passes -> Pass] /\ pass'[p] = new
        /\ \A q \in Passes \ {p} : pass'[q] = pass[q]
    BY <2>1, <2>2 DEF CatalogueInv, CatalogueTypes
  <2>5. \A q \in Passes : Cat!Overtaken(q) => Cat!Overtaken(q)'
    BY <2>1, <2>4 DEF Cat!Overtaken
  <2>6. LoadsItsHead'
    BY <2>3, <2>4 DEF CatalogueInv, LoadsItsHead
  <2>7. CatalogueTypes'
    BY <1>3, <2>4 DEF Cat!RefreshFails, Cat!NoRefresh, CatalogueInv, CatalogueTypes
  <2> QED
    BY <1>3, <2>5, <2>6, <2>7, PassesKeep DEF Cat!RefreshFails, CatalogueInv
<1>4. ASSUME NEW p \in Passes, NEW answered \in SUBSET Apps, Cat!RefreshEnds(answered, p)
      PROVE  CatalogueInv'
  <2>1. fetched' \in [Apps -> Cat!Version]
    BY <1>4, LastIsNat DEF Cat!RefreshEnds, CatalogueInv, CatalogueTypes
  <2>2. Real(model', downloads') /\ UNCHANGED downloads
    <3>1. refresh.prefs \in [Apps -> Preference]
      BY <1>4 DEF Cat!RefreshEnds, CatalogueInv, CatalogueTypes
    <3> QED
      BY <1>4, <2>1, <3>1, RebuiltRows DEF Cat!RefreshEnds, CatalogueInv, CatalogueTypes
  <2>3. PICK new \in Pass : new = [Cat!NoPass EXCEPT !.busy = TRUE, !.todo = Order,
                                            !.policy = [a \in Apps |-> prefs[a].policy]]
    BY FreshPass DEF CatalogueInv, CatalogueTypes
  <2>4. ~new.loading
    BY <2>3 DEF Cat!NoPass
  <2>5. /\ Cat!Detached \in [Passes -> Pass]
        /\ \A q \in Passes : Cat!Detached[q].loading => Cat!Detached[q].todo # <<>>
    BY DetachedPasses DEF CatalogueInv, CatalogueTypes, LoadsItsHead
  <2>6. pass' = [Cat!Detached EXCEPT ![p] = new]
    BY <1>4, <2>3 DEF Cat!RefreshEnds
  <2>7. pass' \in [Passes -> Pass] /\ LoadsItsHead'
    BY <2>4, <2>5, <2>6 DEF LoadsItsHead
  <2>8. CatalogueTypes'
    BY <1>4, <2>1, <2>2, <2>7 DEF Cat!RefreshEnds, Cat!NoRefresh, Real, CatalogueInv, CatalogueTypes
  <2> QED
    BY <2>2, <2>7, <2>8, RealRowsAreReady DEF CatalogueInv
<1>5. ASSUME Cat!Restart PROVE CatalogueInv'
  <2>1. Cat!Unknown \in Cat!Row /\ ~Cat!Unknown.ready
    BY LastIsNat DEF Cat!Unknown, Cat!Row
  <2>2. model' \in [Apps -> Cat!Row] /\ Cat!ReadyIsReal'
    BY <1>5, <2>1 DEF Cat!Restart, Cat!ReadyIsReal
  <2>3. pass' \in [Passes -> Pass] /\ LoadsItsHead'
    BY <1>5, NoPassIsOne DEF Cat!Restart, LoadsItsHead, Cat!NoPass
  <2> QED
    BY <1>5, <2>2, <2>3, LastIsNat DEF Cat!Restart, Cat!NoRefresh, CatalogueInv, CatalogueTypes
<1> QED
  BY <1>1, <1>2, <1>3, <1>4, <1>5 DEF Cat!Answer

\* What the user does, and jobs that end.
LEMMA UserSteps ==
  ASSUME CatalogueInv,
         \/ Cat!ClearDownloads
         \/ \E a \in Apps : \E pref \in Cat!Prefs(a) : Cat!SetAppPref(a, pref)
         \/ \E a \in Apps : Cat!UserInstalls(a) \/ \E v \in Cat!Version : Cat!UserRemoves(a, v)
         \/ \E a \in Apps, well \in BOOLEAN : Cat!JobEnds(a, well)
  PROVE  CatalogueInv'
<1>1. ASSUME UNCHANGED <<published, prefs, fetched, refresh, pass>>,
             installed' \in [Apps -> Cat!Version], downloads' \in [Apps -> Cat!Version],
             model' = Cat!Remerged(installed', downloads')
      PROVE  CatalogueInv'
  <2>1. Real(model', downloads')
    BY <1>1, RemergedRows DEF CatalogueInv, CatalogueTypes
  <2>2. CatalogueTypes' /\ LoadsItsHead'
    BY <1>1, <2>1 DEF Real, CatalogueInv, CatalogueTypes, LoadsItsHead
  <2> QED
    BY <2>1, <2>2, RealRowsAreReady DEF CatalogueInv
<1>2. ASSUME Cat!ClearDownloads PROVE CatalogueInv'
  BY <1>1, <1>2, LastIsNat DEF Cat!ClearDownloads, CatalogueInv, CatalogueTypes
<1>3. ASSUME NEW a \in Apps, UNCHANGED <<published, prefs, fetched, refresh, pass>>, Cat!Installs(a)
      PROVE  CatalogueInv'
  <2>1. model[a].target \in Cat!Version
    BY DEF CatalogueInv, CatalogueTypes, Cat!Row
  <2>2. installed' \in [Apps -> Cat!Version] /\ downloads' \in [Apps -> Cat!Version]
    BY <1>3, <2>1, LastIsNat DEF Cat!Installs, CatalogueInv, CatalogueTypes
  <2> QED
    BY <1>1, <1>3, <2>2 DEF Cat!Installs
<1>4. ASSUME NEW a \in Apps, UNCHANGED <<published, prefs, fetched, refresh, pass>>, Cat!Spurns(a)
      PROVE  CatalogueInv'
  <2>1. CatalogueTypes' /\ LoadsItsHead'
    BY <1>4, LastIsNat DEF Cat!Spurns, CatalogueInv, CatalogueTypes, LoadsItsHead
  <2>2. \A b \in Apps : b \notin spurned' => downloads'[b] = downloads[b] /\ b \notin spurned
    BY <1>4 DEF Cat!Spurns, CatalogueInv, CatalogueTypes
  <2>3. Cat!ReadyIsReal'
    BY <1>4, <2>2 DEF Cat!Spurns, Cat!Overtaken, CatalogueInv, Cat!ReadyIsReal
  <2> QED
    BY <2>1, <2>3 DEF CatalogueInv
<1>6. ASSUME NEW a \in Apps, Cat!UserInstalls(a) PROVE CatalogueInv'
  BY <1>3, <1>4, <1>6 DEF Cat!UserInstalls
<1>7. ASSUME NEW a \in Apps, NEW v \in Cat!Version, Cat!UserRemoves(a, v) PROVE CatalogueInv'
  BY <1>1, <1>7 DEF Cat!UserRemoves, CatalogueInv, CatalogueTypes
<1>8. ASSUME NEW a \in Apps, NEW well \in BOOLEAN, Cat!JobEnds(a, well) PROVE CatalogueInv'
  <2>1. CASE UNCHANGED <<installed, downloads, model, spurned>>
    BY <1>8, <2>1 DEF Cat!JobEnds, CatalogueInv, CatalogueTypes, LoadsItsHead,
                      Cat!ReadyIsReal, Cat!Overtaken
  <2> QED
    BY <1>3, <1>4, <1>8, <2>1 DEF Cat!JobEnds
<1>5. ASSUME NEW a \in Apps, NEW pref \in Cat!Prefs(a), Cat!SetAppPref(a, pref) PROVE CatalogueInv'
  <2>1. prefs[a] \in Preference /\ model[a].target \in Cat!Version
    BY DEF CatalogueInv, CatalogueTypes, Cat!Row
  <2>2. pref \in Preference
    <3>1. PICK old \in Preference : old = prefs[a]
      BY <2>1
    <3>2. \/ \E way \in Cat!Policies : pref = [old EXCEPT !.policy = way]
          \/ \E v \in {0, model[a].target} : pref = [old EXCEPT !.skipped = v]
          \/ pref = [old EXCEPT !.hidden = ~@]
          \/ pref = [old EXCEPT !.prerelease = ~@]
      BY <3>1 DEF Cat!Prefs
    <3> QED
      BY <2>1, <3>2, LastIsNat DEF Preference
  <2>3. prefs' \in [Apps -> Preference]
    BY <1>5, <2>2 DEF Cat!SetAppPref, CatalogueInv, CatalogueTypes
  <2>4. Real(model', downloads') /\ UNCHANGED downloads
    BY <1>5, <2>3, RebuiltRows DEF Cat!SetAppPref, CatalogueInv, CatalogueTypes
  <2>5. pass' \in [Passes -> Pass] /\ LoadsItsHead'
    BY <1>5, DetachedPasses DEF Cat!SetAppPref, CatalogueInv, CatalogueTypes, LoadsItsHead
  <2>6. CatalogueTypes'
    BY <1>5, <2>3, <2>4, <2>5 DEF Cat!SetAppPref, Real, CatalogueInv, CatalogueTypes
  <2> QED
    BY <2>4, <2>5, <2>6, RealRowsAreReady DEF CatalogueInv
<1> QED
  BY <1>2, <1>5, <1>6, <1>7, <1>8

\* A pass at an app, and its end.
LEMMA PolicySteps ==
  ASSUME CatalogueInv, NEW p \in Passes, Cat!Policy(p) \/ Cat!PolicyDone(p)
  PROVE  CatalogueInv'
<1>1. /\ pass \in [Passes -> Pass] /\ model \in [Apps -> Cat!Row]
      /\ \A q \in Passes : pass[q].loading => pass[q].todo # <<>>
  BY DEF CatalogueInv, CatalogueTypes, LoadsItsHead
<1>2. ASSUME pass' = Cat!NextApp(p), pass[p].todo # <<>>,
             UNCHANGED <<published, prefs, fetched, refresh, installed, downloads, model, spurned>>
      PROVE  CatalogueInv'
  <2>1. /\ pass' \in [Passes -> Pass]
        /\ \A q \in Passes \ {p} : pass'[q] = pass[q]
        /\ ~pass'[p].loading /\ pass'[p].busy = pass[p].busy
        /\ pass'[p].own = pass[p].own /\ pass'[p].loaded = pass[p].loaded
    BY <1>1, <1>2, NextAppTyped
  <2>2. LoadsItsHead' /\ \A q \in Passes : Cat!Overtaken(q) => Cat!Overtaken(q)'
    BY <1>1, <2>1 DEF LoadsItsHead, Cat!Overtaken
  <2>3. CatalogueTypes'
    BY <1>2, <2>1 DEF CatalogueInv, CatalogueTypes
  <2> QED
    BY <1>2, <2>2, <2>3, PassesKeep DEF CatalogueInv
<1>3. ASSUME NEW a \in Apps,
             Cat!PolicyPasses(p, a) \/ Cat!PolicyNotifies(p, a) \/ Cat!PolicyInstalls(p, a)
      PROVE  CatalogueInv'
  BY <1>2, <1>3 DEF Cat!PolicyPasses, Cat!PolicyNotifies, Cat!PolicyInstalls, Cat!Turn
<1>4. ASSUME NEW a \in Apps, Cat!PolicyLoads(p, a) PROVE CatalogueInv'
  <2>1. PICK new : new = [pass[p] EXCEPT !.loading = TRUE]
    OBVIOUS
  <2>2. new \in Pass /\ new.busy = pass[p].busy /\ new.own = pass[p].own
        /\ new.loaded = pass[p].loaded /\ new.todo = pass[p].todo
    BY <1>1, <2>1 DEF Pass
  <2>3. pass' = [pass EXCEPT ![p] = new] /\ pass[p].todo # <<>>
    BY <1>4, <2>1 DEF Cat!PolicyLoads, Cat!Turn
  <2>4. /\ pass' \in [Passes -> Pass] /\ pass'[p] = new
        /\ \A q \in Passes \ {p} : pass'[q] = pass[q]
    BY <1>1, <2>2, <2>3
  <2>5. LoadsItsHead'
    BY <1>1, <2>2, <2>3, <2>4 DEF LoadsItsHead
  <2>6. \A q \in Passes : Cat!Overtaken(q) => Cat!Overtaken(q)'
    BY <2>2, <2>4 DEF Cat!Overtaken
  <2>7. CatalogueTypes'
    BY <1>4, <2>4 DEF Cat!PolicyLoads, CatalogueInv, CatalogueTypes
  <2> QED
    BY <1>4, <2>5, <2>6, <2>7, PassesKeep DEF Cat!PolicyLoads, CatalogueInv
<1>5. ASSUME NEW a \in Apps, Cat!PolicyLoaded(p, a) PROVE CatalogueInv'
  <2>1. pass[p].todo # <<>> /\ pass[p].busy /\ spurned' = spurned
    BY <1>1, <1>5 DEF Cat!PolicyLoaded
  <2>2. PICK next \in [Passes -> Pass] :
          /\ next = Cat!NextApp(p)
          /\ \A q \in Passes \ {p} : next[q] = pass[q]
          /\ ~next[p].loading /\ next[p].busy = pass[p].busy
          /\ next[p].own = pass[p].own /\ next[p].loaded = pass[p].loaded
    BY <1>1, <2>1, NextAppTyped
  <2>3. CASE /\ downloads' = [downloads EXCEPT ![a] = Cat!RowsOf(p)[a].latest]
             /\ Cat!Flagged(p, a, downloads' # downloads)
    <3>1. PICK new \in BOOLEAN : new <=> downloads' # downloads
      OBVIOUS
    <3>2. CASE pass[p].own = <<>>
      <4>1. /\ model' = [model EXCEPT ![a].ready = TRUE]
            /\ pass' = [next EXCEPT ![p].loaded = @ \/ (downloads' # downloads)]
            /\ downloads' = [downloads EXCEPT ![a] = model[a].latest]
        BY <2>2, <2>3, <3>2 DEF Cat!Flagged, Cat!RowsOf
      <4>2. /\ pass' \in [Passes -> Pass]
            /\ \A q \in Passes \ {p} : pass'[q] = pass[q]
            /\ ~pass'[p].loading
        <5>1. PICK r : r = [next[p] EXCEPT !.loaded = next[p].loaded \/ new]
          OBVIOUS
        <5>2. r \in Pass /\ r.loading = next[p].loading
          <6>1. next[p] \in Pass /\ next[p].loaded \in BOOLEAN
            BY <2>2 DEF Pass
          <6>2. (next[p].loaded \/ new) \in BOOLEAN
            BY <6>1
          <6> QED
            BY <5>1, <6>1, <6>2 DEF Pass
        <5>3. pass' = [next EXCEPT ![p] = r]
          <6>1. (next[p].loaded \/ (downloads' # downloads)) <=> (next[p].loaded \/ new)
            BY <3>1
          <6> QED
            BY <4>1, <5>1, <6>1
        <5> QED
          BY <2>2, <5>2, <5>3
      <4>3. /\ model' \in [Apps -> Cat!Row] /\ downloads' \in [Apps -> Cat!Version]
            /\ \A b \in Apps : model'[b].target = model[b].target
                               /\ model'[b].latest = model[b].latest
            /\ \A b \in Apps \ {a} : model'[b].ready = model[b].ready
                                     /\ downloads'[b] = downloads[b]
            /\ downloads'[a] = model[a].latest
        BY <1>1, <4>1 DEF CatalogueInv, CatalogueTypes, Cat!Row
      <4>4. \A q \in Passes : Cat!Overtaken(q) => Cat!Overtaken(q)'
        BY <3>2, <4>2 DEF Cat!Overtaken
      <4>5. Cat!ReadyIsReal'
        BY <2>1, <4>3, <4>4 DEF CatalogueInv, Cat!ReadyIsReal
      <4>6. CatalogueTypes' /\ LoadsItsHead'
        BY <1>1, <1>5, <4>2, <4>3
           DEF Cat!PolicyLoaded, CatalogueInv, CatalogueTypes, LoadsItsHead
      <4> QED
        BY <4>5, <4>6 DEF CatalogueInv
    <3>3. CASE pass[p].own # <<>>
      <4>1. /\ model' = model
            /\ pass' = [next EXCEPT ![p].loaded = @ \/ (downloads' # downloads),
                                    ![p].own[a].ready = TRUE]
            /\ downloads' = [downloads EXCEPT ![a] = pass[p].own[a].latest]
        BY <2>2, <2>3, <3>3 DEF Cat!Flagged, Cat!RowsOf
      <4>2. pass[p].own \in [Apps -> Cat!Row]
        BY <1>1, <3>3 DEF Pass
      <4>3. PICK rows \in [Apps -> Cat!Row] : rows = [pass[p].own EXCEPT ![a].ready = TRUE]
        BY <4>2 DEF Cat!Row
      <4>4. rows # <<>>
        BY <4>3
      <4>5. /\ pass' \in [Passes -> Pass]
            /\ \A q \in Passes \ {p} : pass'[q] = pass[q]
            /\ ~pass'[p].loading /\ pass'[p].busy /\ pass'[p].own = rows
            /\ pass'[p].loaded <=> (pass[p].loaded \/ downloads' # downloads)
        <5>1. PICK flag \in BOOLEAN : flag = (next[p].loaded \/ (downloads' # downloads))
          BY Zenon
        <5>2. PICK mid : mid = [next EXCEPT ![p].loaded = flag]
          OBVIOUS
        <5>3. pass' = [mid EXCEPT ![p].own[a].ready = TRUE]
          BY <4>1, <5>1, <5>2, Zenon
        <5>4. /\ mid \in [Passes -> Pass] /\ mid[p].own = pass[p].own /\ mid[p].loaded = flag
              /\ \A q \in Passes \ {p} : mid[q] = pass[q]
              /\ ~mid[p].loading /\ mid[p].busy
          <6>1. PICK m : m = [next[p] EXCEPT !.loaded = flag]
            OBVIOUS
          <6>2. /\ m \in Pass /\ m.loaded = flag /\ m.own = next[p].own
                /\ m.loading = next[p].loading /\ m.busy = next[p].busy
            BY <2>2, <5>1, <6>1 DEF Pass
          <6>3. mid = [next EXCEPT ![p] = m]
            BY <5>2, <6>1
          <6> QED
            BY <2>1, <2>2, <6>2, <6>3
        <5>5. PICK r : r = [mid[p] EXCEPT !.own = rows]
          OBVIOUS
        <5>6. /\ r \in Pass /\ r.own = rows /\ r.loaded = flag /\ ~r.loading /\ r.busy
          BY <5>4, <5>5 DEF Pass
        <5>7. pass' = [mid EXCEPT ![p] = r]
          BY <4>3, <5>3, <5>4, <5>5
        <5>8. flag <=> (pass[p].loaded \/ downloads' # downloads)
          BY <2>2, <5>1
        <5> QED
          BY <5>4, <5>6, <5>7, <5>8
      <4>6. downloads' \in [Apps -> Cat!Version]
        BY <4>1, <4>2 DEF CatalogueInv, CatalogueTypes, Cat!Row
      <4>7. Cat!ReadyIsReal'
        <5>1. CASE downloads' = downloads
          <6>1. \A q \in Passes : Cat!Overtaken(q) => Cat!Overtaken(q)'
            BY <4>4, <4>5 DEF Cat!Overtaken
          <6> QED
            BY <2>1, <4>1, <5>1, <6>1, PassesKeep
        <5>2. CASE downloads' # downloads
          BY <4>4, <4>5, <5>2 DEF Cat!Overtaken, Cat!ReadyIsReal
        <5> QED
          BY <5>1, <5>2
      <4>8. CatalogueTypes' /\ LoadsItsHead'
        <5>1. LoadsItsHead'
          BY <1>1, <4>5 DEF LoadsItsHead
        <5>2. /\ UNCHANGED <<published, prefs, fetched, refresh, installed, model>>
          BY <1>5, <4>1 DEF Cat!PolicyLoaded
        <5> QED
          BY <4>5, <4>6, <5>1, <5>2 DEF CatalogueInv, CatalogueTypes
      <4> QED
        BY <4>7, <4>8 DEF CatalogueInv
    <3> QED
      BY <3>2, <3>3
  <2>4. CASE pass' = Cat!NextApp(p) /\ UNCHANGED <<downloads, model>>
    BY <1>2, <1>5, <2>1, <2>4 DEF Cat!PolicyLoaded
  <2> QED
    BY <1>5, <2>3, <2>4 DEF Cat!PolicyLoaded
<1>6. ASSUME Cat!PolicyDone(p) PROVE CatalogueInv'
  <2>1. /\ pass' \in [Passes -> Pass] /\ ~pass'[p].loading
        /\ \A q \in Passes \ {p} : pass'[q] = pass[q]
    BY <1>1, <1>6, NoPassIsOne DEF Cat!PolicyDone, Cat!NoPass
  <2>2. LoadsItsHead'
    BY <1>1, <2>1 DEF LoadsItsHead
  <2>3. CASE pass[p].loaded
    <3>1. Real(model', downloads')
      BY <1>6, <2>3, RemergedRows DEF Cat!PolicyDone, CatalogueInv, CatalogueTypes
    <3>2. CatalogueTypes'
      BY <1>6, <2>1, <3>1 DEF Cat!PolicyDone, Real, CatalogueInv, CatalogueTypes
    <3> QED
      BY <2>2, <3>1, <3>2, RealRowsAreReady DEF CatalogueInv
  <2>4. CASE ~pass[p].loaded
    <3>1. \A q \in Passes : Cat!Overtaken(q) => Cat!Overtaken(q)'
      BY <2>1, <2>4 DEF Cat!Overtaken
    <3>2. CatalogueTypes' /\ UNCHANGED <<downloads, model, spurned>>
      BY <1>6, <2>1, <2>4 DEF Cat!PolicyDone, CatalogueInv, CatalogueTypes
    <3> QED
      BY <2>2, <3>1, <3>2, PassesKeep DEF CatalogueInv
  <2> QED
    BY <2>3, <2>4
<1> QED
  BY <1>3, <1>4, <1>5, <1>6 DEF Cat!Policy

\* The strengthened invariant of the catalogue holds in every reachable state.
THEOREM CatalogueInvariant == Cat!Spec => []CatalogueInv
<1>1. Cat!Init => CatalogueInv
  <2> SUFFICES ASSUME Cat!Init PROVE CatalogueInv
    OBVIOUS
  <2>1. Cat!Unknown \in Cat!Row /\ ~Cat!Unknown.ready
    BY LastIsNat DEF Cat!Unknown, Cat!Row
  <2>2. model \in [Apps -> Cat!Row] /\ Cat!ReadyIsReal
    BY <2>1 DEF Cat!Init, Cat!ReadyIsReal
  <2>3. pass \in [Passes -> Pass] /\ LoadsItsHead
    BY NoPassIsOne DEF Cat!Init, LoadsItsHead, Cat!NoPass
  <2>4. prefs \in [Apps -> Preference]
    BY LastIsNat DEF Cat!Init, Preference
  <2>5. ~refresh.busy
    BY DEF Cat!Init, Cat!NoRefresh
  <2> QED
    BY <2>2, <2>3, <2>4, <2>5, LastIsNat DEF Cat!Init, CatalogueInv, CatalogueTypes
<1>2. CatalogueInv /\ [Cat!Next]_Cat!vars => CatalogueInv'
  <2> SUFFICES ASSUME CatalogueInv, [Cat!Next]_Cat!vars PROVE CatalogueInv'
    OBVIOUS
  <2>1. CASE UNCHANGED Cat!vars
    BY <2>1 DEF Cat!vars, CatalogueInv, CatalogueTypes, LoadsItsHead, Cat!ReadyIsReal, Cat!Overtaken
  <2> QED
    BY <2>1, RefreshSteps, UserSteps, PolicySteps DEF Cat!Next, Cat!PassGoesOn
<1> QED
  BY <1>1, <1>2, PTL DEF Cat!Spec

\* What is shown as ready to install has been downloaded in that version, or a pass
\* that began with an older catalogue has just recorded another and will see to it,
\* or its signature was wrong and no row has been merged since: for any apps,
\* versions and number of passes that overtake each other.
THEOREM ReadyAlwaysReal == Cat!Spec => []ReadyIsReal
<1>1. CatalogueInv => ReadyIsReal
  BY DEF CatalogueInv, ReadyIsReal
<1> QED
  BY <1>1, CatalogueInvariant, PTL

-----------------------------------------------------------------------------
(* The asset lock.                                                           *)

\* The mutual exclusion is not inductive by itself: it rests on what the lock
\* file says while somebody owns it, on nobody being about to break it, and on
\* an empty lock being young because its creator is still at work.
OwnerIsNamed ==
  \A c \in Clients : pc[c] \in Owned =>
    /\ linked[c]
    /\ lock = IF pc[c] = "write" THEN Infant ELSE HubOf[c]

OneOwner == \A c, d \in Clients : pc[c] \in Owned /\ pc[d] \in Owned => c = d

LockHasOwner == lock # Absent => \E c \in Clients : pc[c] \in Owned

NobodyBreaks == ~aged /\ \A c \in Clients : pc[c] # "break"

Calm == OwnerIsNamed /\ OneOwner /\ LockHasOwner /\ NobodyBreaks

LockInv == TypeOK /\ (Undisturbed => Calm)

-----------------------------------------------------------------------------
\* Every variable of the lock protocol keeps its type, e.g. the lock file only
\* ever names a hub process (acquireAssetLock writes process.pid).
LEMMA LockTyping == TypeOK /\ [Next]_vars => TypeOK'
<1> SUFFICES ASSUME TypeOK, [Next]_vars PROVE TypeOK'
  OBVIOUS
<1> USE LockAssumption DEF TypeOK, Content, PC, Sync
<1>1. ASSUME NEW c \in Clients, Open(c) PROVE TypeOK'
  BY <1>1 DEF Open, GoTo
<1>2. ASSUME NEW c \in Clients, Write(c) PROVE TypeOK'
  BY <1>2 DEF Write, GoTo
<1>3. ASSUME NEW c \in Clients, WriteFails(c) PROVE TypeOK'
  BY <1>3 DEF WriteFails, GoTo
<1>4. ASSUME NEW c \in Clients, Look(c) PROVE TypeOK'
  BY <1>4 DEF Look, GoTo
<1>5. ASSUME NEW c \in Clients, Judge(c) PROVE TypeOK'
  BY <1>5 DEF Judge, GoTo
<1>6. ASSUME NEW c \in Clients, Break(c) PROVE TypeOK'
  BY <1>6 DEF Break, Unlink, GoTo
<1>7. ASSUME NEW c \in Clients, Release(c) PROVE TypeOK'
  BY <1>7 DEF Release, GoTo
<1>8. ASSUME NEW c \in Clients, RemoveOwn(c) PROVE TypeOK'
  BY <1>8 DEF RemoveOwn, Unlink, GoTo
<1>9. ASSUME NEW h \in Hubs, Die(h) PROVE TypeOK'
  BY <1>9 DEF Die
<1>10. CASE Age
  BY <1>10 DEF Age
<1>11. CASE UNCHANGED vars
  BY <1>11 DEF vars
<1> QED
  BY <1>1, <1>2, <1>3, <1>4, <1>5, <1>6, <1>7, <1>8, <1>9, <1>10, <1>11
     DEF Next, Step

\* A quiet world was quiet before: no step revives a process or takes back a
\* failed write.
LEMMA StaysDisturbed == TypeOK /\ [Next]_vars /\ Undisturbed' => Undisturbed
<1> SUFFICES ASSUME TypeOK, [Next]_vars, Undisturbed' PROVE Undisturbed
  OBVIOUS
<1> USE DEF Undisturbed, NoWriteFailed, TypeOK
<1>1. ASSUME NEW c \in Clients, Step(c) PROVE Undisturbed
  BY <1>1 DEF Step, Open, Write, WriteFails, Look, Judge, Break, Release,
              RemoveOwn, GoTo
<1>2. ASSUME NEW h \in Hubs, Die(h) PROVE Undisturbed
  BY <1>2 DEF Die
<1>3. CASE Age
  BY <1>3 DEF Age
<1>4. CASE UNCHANGED vars
  BY <1>4 DEF vars
<1> QED
  BY <1>1, <1>2, <1>3, <1>4 DEF Next

\* In a quiet world no lock looks stale, whatever was read and however long ago.
LEMMA NothingIsStale ==
  ASSUME LockInv, Undisturbed, NEW c \in Clients
  PROVE  ~Stale(c)
BY DEF LockInv, Undisturbed, Calm, NobodyBreaks, Stale

\* The calm state of the lock lasts while no hub exits and no write fails, whatever
\* the acquisitions do.
LEMMA CalmStep == LockInv /\ Undisturbed /\ Undisturbed' /\ [Next]_vars => Calm'
<1> SUFFICES ASSUME LockInv, Undisturbed, Undisturbed', [Next]_vars PROVE Calm'
  OBVIOUS
<1>0. TypeOK /\ Calm
  BY DEF LockInv
<1> USE <1>0, LockAssumption
        DEF TypeOK, Content, Calm, OwnerIsNamed, OneOwner, LockHasOwner, NobodyBreaks, Owned
<1>1. ASSUME NEW c \in Clients, Open(c) PROVE Calm'
  <2>1. CASE lock = Absent
    <3>1. \A d \in Clients : pc[d] \notin Owned
      BY <2>1
    <3>2. /\ lock' = Infant /\ ~aged'
          /\ linked' = [linked EXCEPT ![c] = TRUE]
          /\ pc' = [pc EXCEPT ![c] = "write"]
      BY <1>1, <2>1 DEF Open, GoTo
    <3> QED
      BY <3>1, <3>2
  <2>2. CASE lock # Absent
    BY <1>1, <2>2 DEF Open, GoTo
  <2> QED
    BY <2>1, <2>2
<1>2. ASSUME NEW c \in Clients, Write(c) PROVE Calm'
  BY <1>2 DEF Write, GoTo
<1>3. ASSUME NEW c \in Clients, WriteFails(c) PROVE Calm'
  BY <1>3 DEF WriteFails, GoTo, Undisturbed, NoWriteFailed
<1>4. ASSUME NEW c \in Clients, Look(c) PROVE Calm'
  BY <1>4 DEF Look, GoTo
<1>5. ASSUME NEW c \in Clients, Judge(c) PROVE Calm'
  <2>1. ~Stale(c)
    BY NothingIsStale
  <2>2. /\ UNCHANGED <<lock, aged, linked>>
        /\ pc[c] = "judge"
        /\ \E to \in {"retry", "sleep", "aborted"} : pc' = [pc EXCEPT ![c] = to]
    BY <1>5, <2>1 DEF Judge, GoTo
  <2> QED
    BY <2>2
<1>6. ASSUME NEW c \in Clients, Break(c) PROVE Calm'
  BY <1>6 DEF Break
<1>7. ASSUME NEW c \in Clients, Release(c) PROVE Calm'
  BY <1>7 DEF Release, GoTo
<1>8. ASSUME NEW c \in Clients, RemoveOwn(c) PROVE Calm'
  <2>1. \A d \in Clients : d # c => pc[d] \notin Owned
    BY <1>8 DEF RemoveOwn
  <2> QED
    BY <1>8, <2>1 DEF RemoveOwn, Unlink, GoTo
<1>9. ASSUME NEW h \in Hubs, Die(h) PROVE Calm'
  BY <1>9 DEF Die, Undisturbed
<1>10. CASE Age
  <2>1. \E c \in Clients : pc[c] = "write" /\ linked[c] /\ Alive(c)
    BY <1>10 DEF Age, Alive, Undisturbed
  <2> QED
    BY <1>10, <2>1 DEF Age
<1>11. CASE UNCHANGED vars
  BY <1>11 DEF vars
<1> QED
  BY <1>1, <1>2, <1>3, <1>4, <1>5, <1>6, <1>7, <1>8, <1>9, <1>10, <1>11
     DEF Next, Step

\* The strengthened invariant of the lock holds in every reachable state.
THEOREM LockInvariant == Spec => []LockInv
<1>1. Init => LockInv
  BY LockAssumption DEF Init, LockInv, TypeOK, Content, PC, Calm, OwnerIsNamed, OneOwner,
                        LockHasOwner, NobodyBreaks, Owned
<1>2. LockInv /\ [Next]_vars => LockInv'
  BY LockTyping, StaysDisturbed, CalmStep DEF LockInv
<1> QED
  BY <1>1, <1>2, PTL DEF Spec

\* TypeOK for any number of hubs and acquisitions.
THEOREM LockTypeCorrect == Spec => []TypeOK
<1>1. LockInv => TypeOK
  BY DEF LockInv
<1> QED
  BY <1>1, LockInvariant, PTL

\* Mutual exclusion without a crash: however many processes and acquisitions
\* compete, and however open, write, read, stat and unlink interleave, at most
\* one acquisition holds the lock until a process exits or a lock write fails.
THEOREM LockExcludes == Spec => []ExclusiveUndisturbed
<1>1. LockInv => ExclusiveUndisturbed
  BY DEF LockInv, Calm, OneOwner, Owned, ExclusiveUndisturbed, Exclusive, Holding
<1> QED
  BY <1>1, LockInvariant, PTL

\* Until then a lock that names a hub is removed by its holder and nobody else.
THEOREM LockRemovedByHolder == Spec => OnlyHolderRemoves
<1> DEFINE Removal == /\ Undisturbed /\ lock \in Hubs /\ lock' # lock
                      => \E c \in Clients : pc[c] = "unlink" /\ HubOf[c] = lock
<1>1. LockInv /\ [Next]_vars => Removal
  <2> SUFFICES ASSUME LockInv, [Next]_vars, Undisturbed, lock \in Hubs, lock' # lock
               PROVE  \E c \in Clients : pc[c] = "unlink" /\ HubOf[c] = lock
    OBVIOUS
  <2>0. TypeOK /\ Calm
    BY DEF LockInv
  <2> USE <2>0, LockAssumption DEF TypeOK, Calm, OwnerIsNamed, NobodyBreaks, Owned
  <2>1. ASSUME NEW c \in Clients, Step(c) PROVE pc[c] = "unlink" /\ HubOf[c] = lock
    <3>1. CASE RemoveOwn(c)
      BY <3>1 DEF RemoveOwn
    <3>2. CASE Write(c)
      BY <3>2 DEF Write
    <3>3. CASE Open(c) \/ WriteFails(c) \/ Look(c) \/ Judge(c) \/ Break(c) \/ Release(c)
      BY <3>3 DEF Open, WriteFails, Look, Judge, Break, Release
    <3> QED
      BY <2>1, <3>1, <3>2, <3>3 DEF Step
  <2>2. ~(\E h \in Hubs : Die(h)) /\ ~Age /\ ~UNCHANGED vars
    BY DEF Die, Age, vars
  <2> QED
    BY <2>1, <2>2 DEF Next
<1> QED
  BY <1>1, LockInvariant, PTL DEF Spec, OnlyHolderRemoves
-----------------------------------------------------------------------------
(* Two hub processes and crashes.  What survives a crash rests on the event  *)
(* loop: within one process no two acquisitions are inside their synchronous *)
(* sections, so the survivor of two cannot act on a read of its own lock     *)
(* that another of its acquisitions has made stale.                          *)

OneInSync ==
  \A c, d \in Clients :
    HubOf[c] = HubOf[d] /\ pc[c] \in Sync /\ pc[d] \in Sync => c = d

\* A living acquisition that is judging what it read while another one of its
\* process owns the lock has read its own process's pid.
SawItsHub ==
  \A c, d \in Clients :
    Alive(c) /\ Alive(d) /\ HubOf[c] = HubOf[d] /\ pc[c] = "judge" /\ pc[d] \in Owned
      => seen[c] = HubOf[d]

\* What the lock says while a living acquisition owns it: nobody else alive owns
\* it or is about to break it.
LivingOwnerIsNamed ==
  \A c \in Clients : Alive(c) /\ pc[c] \in Owned =>
    /\ linked[c]
    /\ lock = IF pc[c] = "write" THEN Infant ELSE HubOf[c]

OneLivingOwner ==
  \A c, d \in Clients :
    Alive(c) /\ Alive(d) /\ pc[c] \in Owned /\ pc[d] \in Owned => c = d

NoBreakOfLiving ==
  \A c, d \in Clients :
    Alive(c) /\ Alive(d) /\ pc[c] = "break" => pc[d] \notin Owned

LivingOrder == LivingOwnerIsNamed /\ OneLivingOwner /\ NoBreakOfLiving

TwoInv == OneInSync /\ (NoWriteFailed => LivingOrder /\ SawItsHub)

\* Of three hubs out of two, two are the same.
LEMMA TwoAtMost ==
  ASSUME NEW S, IsFiniteSet(S), Cardinality(S) <= 2, NEW a \in S, NEW b \in S, NEW c \in S
  PROVE  a = b \/ b = c \/ a = c
<1> SUFFICES ASSUME a # b, b # c, a # c PROVE FALSE
  OBVIOUS
<1>1. IsFiniteSet({a}) /\ Cardinality({a}) = 1
  BY FS_Singleton
<1>2. IsFiniteSet({a} \cup {b}) /\ Cardinality({a} \cup {b}) = Cardinality({a}) + 1
  <2>1. b \notin {a}
    OBVIOUS
  <2> QED
    BY <1>1, <2>1, FS_AddElement
<1>3. /\ IsFiniteSet({a} \cup {b} \cup {c})
      /\ Cardinality({a} \cup {b} \cup {c}) = Cardinality({a} \cup {b}) + 1
  <2>1. c \notin {a} \cup {b}
    OBVIOUS
  <2> QED
    BY <1>2, <2>1, FS_AddElement
<1>4. Cardinality({a} \cup {b} \cup {c}) = 3
  BY <1>1, <1>2, <1>3
<1>5. {a} \cup {b} \cup {c} \in SUBSET S
  OBVIOUS
<1>6. Cardinality({a} \cup {b} \cup {c}) <= Cardinality(S) /\ Cardinality(S) \in Nat
  BY <1>5, FS_Subset, FS_CardinalityType
<1> QED
  BY <1>4, <1>6

\* Of two hubs at most one outlives a crash: whoever is alive is of that process.
LEMMA OneSurvivor ==
  ASSUME TypeOK, Cardinality(Hubs) <= 2, dead # {},
         NEW c \in Clients, NEW d \in Clients, Alive(c), Alive(d)
  PROVE  HubOf[c] = HubOf[d]
<1>1. PICK h \in Hubs : h \in dead
  BY DEF TypeOK
<1>2. HubOf[c] \in Hubs /\ HubOf[d] \in Hubs /\ HubOf[c] # h /\ HubOf[d] # h
  BY <1>1, LockAssumption DEF Alive
<1> QED
  BY <1>1, <1>2, LockAssumption, TwoAtMost

\* A process runs one synchronous section at a time.
LEMMA SyncStep == TypeOK /\ OneInSync /\ [Next]_vars => OneInSync'
<1> SUFFICES ASSUME TypeOK, OneInSync, [Next]_vars PROVE OneInSync'
  OBVIOUS
<1> USE DEF TypeOK, OneInSync, Sync, HasTheThread, GoTo
<1>1. ASSUME NEW c \in Clients, Open(c) PROVE OneInSync'
  BY <1>1 DEF Open
<1>2. ASSUME NEW c \in Clients, Release(c) PROVE OneInSync'
  BY <1>2 DEF Release
<1>3. ASSUME NEW c \in Clients, Write(c) \/ WriteFails(c) \/ Look(c) \/ RemoveOwn(c)
      PROVE  OneInSync'
  BY <1>3 DEF Write, WriteFails, Look, RemoveOwn
<1>4. ASSUME NEW c \in Clients, Judge(c) \/ Break(c) PROVE OneInSync'
  BY <1>4 DEF Judge, Break
<1>5. ASSUME NEW h \in Hubs, Die(h) PROVE OneInSync'
  BY <1>5 DEF Die
<1>6. CASE Age
  BY <1>6 DEF Age
<1>7. CASE UNCHANGED vars
  BY <1>7 DEF vars
<1> QED
  BY <1>1, <1>2, <1>3, <1>4, <1>5, <1>6, <1>7 DEF Next, Step

\* A failed lock write is not taken back.
LEMMA WritesHeld == TypeOK /\ [Next]_vars /\ NoWriteFailed' => NoWriteFailed
<1> SUFFICES ASSUME TypeOK, [Next]_vars, NoWriteFailed' PROVE NoWriteFailed
  OBVIOUS
<1> USE DEF NoWriteFailed, TypeOK
<1>1. ASSUME NEW c \in Clients, Step(c) PROVE NoWriteFailed
  BY <1>1 DEF Step, Open, Write, WriteFails, Look, Judge, Break, Release, RemoveOwn, GoTo
<1>2. ASSUME NEW h \in Hubs, Die(h) PROVE NoWriteFailed
  BY <1>2 DEF Die
<1>3. CASE Age
  BY <1>3 DEF Age
<1>4. CASE UNCHANGED vars
  BY <1>4 DEF vars
<1> QED
  BY <1>1, <1>2, <1>3, <1>4 DEF Next

\* While all live, the calm lock is in order; the order outlasts the steps of
\* the survivors as they are all of one process.
LEMMA LivingStep ==
  ASSUME LockInv, TwoInv, Cardinality(Hubs) <= 2, [Next]_vars, NoWriteFailed'
  PROVE  LivingOrder'
<1>0. TypeOK /\ NoWriteFailed /\ OneInSync /\ LivingOrder /\ SawItsHub
  BY WritesHeld DEF LockInv, TwoInv
<1>1. CASE dead' = {}
  <2>1. Undisturbed'
    BY <1>1 DEF Undisturbed
  <2>2. Calm'
    BY <2>1, StaysDisturbed, CalmStep DEF LockInv
  <2> QED
    BY <2>2 DEF Calm, OwnerIsNamed, OneOwner, NobodyBreaks, LivingOrder, LivingOwnerIsNamed,
                OneLivingOwner, NoBreakOfLiving
<1> USE <1>0, LockAssumption
        DEF TypeOK, Content, LivingOrder, LivingOwnerIsNamed, OneLivingOwner, NoBreakOfLiving,
            Alive, Owned, GoTo
<1>2. ASSUME NEW h \in Hubs, Die(h) PROVE LivingOrder'
  BY <1>2 DEF Die
<1>3. CASE Age
  BY <1>3 DEF Age
<1>4. CASE UNCHANGED vars
  BY <1>4 DEF vars
<1>5. ASSUME NEW c \in Clients, Step(c), dead' # {} PROVE LivingOrder'
  <2>1. dead' = dead
    BY <1>5 DEF Step, Open, Write, WriteFails, Look, Judge, Break, Release, RemoveOwn, Unlink
  <2>2. \A d, e \in Clients : Alive(d) /\ Alive(e) => HubOf[d] = HubOf[e]
    BY <1>5, <2>1, OneSurvivor
  <2>3. CASE Open(c)
    <3>1. \A d \in Clients : Alive(d) /\ d # c => pc[d] \notin Sync
      BY <2>2, <2>3 DEF Open, HasTheThread
    <3> QED
      BY <2>3, <3>1 DEF Open, Sync
  <2>4. CASE Write(c)
    BY <2>1, <2>4 DEF Write
  <2>5. CASE WriteFails(c)
    BY <2>5 DEF WriteFails, NoWriteFailed
  <2>6. CASE Look(c)
    BY <2>1, <2>6 DEF Look
  <2>7. CASE Judge(c)
    <3>1. ASSUME NEW d \in Clients, Alive(d), pc[d] \in Owned PROVE ~Stale(c)
      <4>1. seen[c] = HubOf[d]
        BY <2>2, <2>7, <3>1 DEF SawItsHub, Judge
      <4> QED
        BY <3>1, <4>1 DEF Stale
    <3> QED
      BY <2>1, <2>7, <3>1 DEF Judge
  <2>8. CASE Break(c)
    <3>1. \A d \in Clients : Alive(d) => pc[d] \notin Owned
      BY <2>8 DEF Break
    <3> QED
      BY <2>1, <2>8, <3>1 DEF Break, Unlink
  <2>9. CASE Release(c)
    <3>1. \A d \in Clients : Alive(d) /\ d # c => pc[d] # "break"
      BY <2>2, <2>9 DEF Release, HasTheThread, Sync
    <3> QED
      BY <2>1, <2>9, <3>1 DEF Release
  <2>10. CASE RemoveOwn(c)
    <3>1. \A d \in Clients : Alive(d) /\ d # c => pc[d] \notin Owned
      BY <2>10 DEF RemoveOwn
    <3> QED
      BY <2>1, <2>10, <3>1 DEF RemoveOwn, Unlink
  <2> QED
    BY <1>5, <2>3, <2>4, <2>5, <2>6, <2>7, <2>8, <2>9, <2>10 DEF Step
<1> QED
  BY <1>1, <1>2, <1>3, <1>4, <1>5 DEF Next

\* What a living acquisition has read of its own process's lock stays true while
\* it judges: nobody of its process can move in between.
LEMMA SawStep ==
  ASSUME LockInv, TwoInv, [Next]_vars, NoWriteFailed'
  PROVE  SawItsHub'
<1>0. TypeOK /\ NoWriteFailed /\ OneInSync /\ LivingOrder /\ SawItsHub
  BY WritesHeld DEF LockInv, TwoInv
<1> USE <1>0, LockAssumption DEF TypeOK, SawItsHub, Alive, Owned, GoTo
<1>1. ASSUME NEW c \in Clients, Open(c) PROVE SawItsHub'
  BY <1>1 DEF Open, HasTheThread, Sync
<1>2. ASSUME NEW c \in Clients, Look(c) PROVE SawItsHub'
  <2>1. ASSUME NEW d \in Clients, Alive(d), HubOf[d] = HubOf[c], pc[d] \in Owned
        PROVE  lock = HubOf[d]
    <3>1. pc[d] # "write"
      BY <1>2, <2>1 DEF Look, OneInSync, Sync
    <3> QED
      BY <2>1, <3>1 DEF LivingOrder, LivingOwnerIsNamed
  <2> QED
    BY <1>2, <2>1 DEF Look
<1>3. ASSUME NEW c \in Clients, Write(c) \/ WriteFails(c) \/ RemoveOwn(c) PROVE SawItsHub'
  BY <1>3 DEF Write, WriteFails, RemoveOwn
<1>4. ASSUME NEW c \in Clients, Judge(c) PROVE SawItsHub'
  BY <1>4 DEF Judge
<1>5. ASSUME NEW c \in Clients, Break(c) PROVE SawItsHub'
  BY <1>5 DEF Break
<1>6. ASSUME NEW c \in Clients, Release(c) PROVE SawItsHub'
  BY <1>6 DEF Release
<1>7. ASSUME NEW h \in Hubs, Die(h) PROVE SawItsHub'
  BY <1>7 DEF Die
<1>8. CASE Age
  BY <1>8 DEF Age
<1>9. CASE UNCHANGED vars
  BY <1>9 DEF vars
<1> QED
  BY <1>1, <1>2, <1>3, <1>4, <1>5, <1>6, <1>7, <1>8, <1>9 DEF Next, Step

\* Mutual exclusion between a window and one terminal, crashes included: whenever
\* either of two hub processes exits, the other one's acquisitions still hold the
\* lock one at a time, as long as no lock write has failed.
THEOREM LockExcludesOfTwo == Spec => []ExclusiveOfTwo
<1>1. Init => TwoInv
  BY DEF Init, TwoInv, OneInSync, LivingOrder, LivingOwnerIsNamed, OneLivingOwner,
         NoBreakOfLiving, SawItsHub, Owned, Sync
<1>2. LockInv /\ Cardinality(Hubs) <= 2 /\ TwoInv /\ [Next]_vars => TwoInv'
  BY SyncStep, LivingStep, SawStep DEF TwoInv, LockInv
<1>3. TwoInv => ExclusiveOfTwo
  BY DEF TwoInv, LivingOrder, OneLivingOwner, Owned, ExclusiveOfTwo, Exclusive, Holding
<1>4. CASE Cardinality(Hubs) <= 2
  <2>1. LockInv /\ TwoInv /\ [Next]_vars => TwoInv'
    BY <1>2, <1>4
  <2> QED
    BY <1>1, <1>3, <2>1, LockInvariant, PTL DEF Spec
<1>5. CASE ~(Cardinality(Hubs) <= 2)
  <2>1. ExclusiveOfTwo
    BY <1>5 DEF ExclusiveOfTwo
  <2> QED
    BY <2>1, PTL
<1> QED
  BY <1>4, <1>5
=============================================================================
