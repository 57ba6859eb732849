------------------------------ MODULE Catalogue ------------------------------
(***************************************************************************)
(* The catalogue the hub shows and acts on (src/main/discovery.js), and    *)
(* the update policies that run after every refresh (applyUpdatePolicies   *)
(* of src/main/jobs.js).                                                   *)
(*                                                                         *)
(* A refresh reads the settings, asks GitHub for every app's releases and  *)
(* replaces the model of the apps; a second one joins the first.  Without  *)
(* the network the model is rebuilt when a preference is set and brought   *)
(* up to date when a job ends.  A policy pass walks the apps as the        *)
(* refresh left them and may wait for a download at each, while all of     *)
(* this goes on.                                                           *)
(*                                                                         *)
(* Every app has one artifact, which not every release ships: an older     *)
(* release fills the gap.                                                  *)
(***************************************************************************)
EXTENDS Integers, FiniteSets, Sequences

CONSTANTS
    Apps,
    Order,        \* the apps in the order of the catalogue
    Ships,        \* app -> the versions whose release has its artifact
    Prereleases,  \* versions that are prereleases
    LastVersion,  \* bound: releases of an app, numbered in their order
    Passes,       \* policy passes at one time
    MaxChanges    \* bound: changes of preferences and installs by the user

CatalogueAssumption ==
    /\ LastVersion \in Nat \ {0} /\ MaxChanges \in Nat
    /\ Ships \in [Apps -> SUBSET (1..LastVersion)]
    /\ Prereleases \subseteq 1..LastVersion
    /\ Order \in Seq(Apps) /\ {Order[i] : i \in 1..Len(Order)} = Apps

Policies == {"notify", "download", "install"}

VARIABLES
    published,  \* app -> the newest release on GitHub
    prefs,      \* app -> [skipped, hidden, prerelease, policy] in settings.json
    installed,  \* app -> the version installed, 0 for none
    downloads,  \* app -> the version of the download record, 0 for none
    notified,   \* app -> the version last announced, in state.json
    fetched,    \* app -> the newest release of the last good answer, 0 for none
    model,      \* app -> what the catalogue says of it
    refresh,    \* [busy, prefs], the preferences it began with
    pass,       \* policy passes, see NoPass
    attempts,   \* <<app, version>> the install policy has tried in this hub life
    job,        \* app -> an install job of the policy is queued or runs
    failed,     \* a ghost: <<app, version>> whose policy job failed in this hub life
    retried,    \* a ghost: the policy has queued one of them again
    spurned,    \* a ghost: apps whose download was thrown away for its signature since
                \* the rows were last merged
    changes     \* changes so far

vars == <<published, prefs, installed, downloads, notified, fetched, model, refresh, pass,
          attempts, job, failed, retried, spurned, changes>>

Version == 0..LastVersion

NoRefresh == [busy |-> FALSE, prefs |-> <<>>]

(* own: the rows of the pass, once they are no longer those of the model.  *)
NoPass == [busy |-> FALSE, todo |-> <<>>, loading |-> FALSE, loaded |-> FALSE,
           policy |-> [a \in Apps |-> "notify"], own |-> <<>>]

(* What the catalogue says of an app of which nothing is known.            *)
Unknown == [latest |-> 0, target |-> 0, hidden |-> FALSE, available |-> FALSE, ready |-> FALSE]

Row == [latest: Version, target: Version, hidden: BOOLEAN, available: BOOLEAN, ready: BOOLEAN]

TypeOK ==
    /\ published \in [Apps -> Version] /\ installed \in [Apps -> Version]
    /\ downloads \in [Apps -> Version] /\ notified \in [Apps -> Version]
    /\ fetched \in [Apps -> Version] /\ model \in [Apps -> Row]
    /\ prefs \in [Apps -> [skipped: Version, hidden: BOOLEAN, prerelease: BOOLEAN,
                           policy: Policies]]
    /\ DOMAIN refresh = {"busy", "prefs"} /\ refresh.busy \in BOOLEAN
    /\ \A p \in Passes : pass[p].busy \in BOOLEAN /\ pass[p].policy \in [Apps -> Policies]
    /\ attempts \subseteq Apps \X Version /\ failed \subseteq Apps \X Version
    /\ job \in [Apps -> BOOLEAN] /\ retried \in BOOLEAN /\ spurned \subseteq Apps
    /\ changes \in 0..MaxChanges

-----------------------------------------------------------------------------
(* The model of an app.                                                    *)

Newest(versions) == IF versions = {} THEN 0
                    ELSE CHOOSE v \in versions : \A w \in versions : w <= v

(* Stable releases, unless prereleases are wanted or there is nothing else. *)
Eligible(newest, prerelease) ==
    LET stable == (1..newest) \ Prereleases
    IN IF prerelease \/ stable = {} THEN 1..newest ELSE stable

(* The state of the disk merged into a row: any other version than the one *)
(* installed is an update, unless it is the skipped one.                   *)
Merged(row, p, has, loaded) ==
    [row EXCEPT !.hidden = p.hidden,
                !.available = has # 0 /\ row.target # 0 /\ has # row.target
                              /\ p.skipped # row.target,
                !.ready = row.target # 0 /\ loaded = row.target]

(* The release chosen, and the newest one that ships the artifact.         *)
Built(newest, p, has, loaded, a) ==
    LET eligible == Eligible(newest, p.prerelease)
    IN Merged([Unknown EXCEPT !.latest = Newest(eligible),
                              !.target = Newest(eligible \intersect Ships[a])],
              p, has, loaded)

(* Passes keep the rows they began with once the catalogue is replaced.    *)
Detached == [q \in Passes |-> IF pass[q].busy /\ pass[q].own = <<>>
                              THEN [pass[q] EXCEPT !.own = model] ELSE pass[q]]

(* Every row again, from the releases known.                               *)
Rebuilt(known, p) == [a \in Apps |-> Built(known[a], p[a], installed[a], downloads[a], a)]

(* Mutant: what was ready stays ready.                                     *)
RemergedKeepsReady(has, loaded) ==
    [a \in Apps |-> [Merged(model[a], prefs[a], has[a], loaded[a]) EXCEPT
                       !.ready = @ \/ model[a].ready]]

(* The rows in their place, brought up to date.                            *)
Remerged(has, loaded) == [a \in Apps |-> Merged(model[a], prefs[a], has[a], loaded[a])]

(* The same for a row, whether of the catalogue or kept by pass p.         *)
RowsOf(p) == IF pass[p].own = <<>> THEN model ELSE pass[p].own

-----------------------------------------------------------------------------
Init ==
    /\ published \in [Apps -> 1..LastVersion]
    /\ \E policy \in [Apps -> Policies] :
          prefs = [a \in Apps |-> [skipped |-> 0, hidden |-> FALSE, prerelease |-> FALSE,
                                    policy |-> policy[a]]]
    /\ installed \in [Apps -> Version] /\ \A a \in Apps : installed[a] \in Ships[a] \union {0}
    /\ downloads = [a \in Apps |-> 0] /\ notified = [a \in Apps |-> 0]
    /\ fetched = [a \in Apps |-> 0] /\ model = [a \in Apps |-> Unknown]
    /\ refresh = NoRefresh
    /\ pass = [p \in Passes |-> NoPass]
    /\ attempts = {} /\ job = [a \in Apps |-> FALSE]
    /\ failed = {} /\ retried = FALSE /\ spurned = {} /\ changes = 0

Publish(a) ==
    /\ published[a] < LastVersion
    /\ published' = [published EXCEPT ![a] = @ + 1]
    /\ UNCHANGED <<prefs, installed, downloads, notified, fetched, model, refresh, pass,
                   attempts, job, failed, retried, spurned, changes>>

(* By the timer, a person, or a change of the sources.  One that comes     *)
(* while another runs waits for that one's answer.                         *)
RefreshBegins ==
    /\ ~refresh.busy
    /\ refresh' = [busy |-> TRUE, prefs |-> prefs]
    /\ UNCHANGED <<published, prefs, installed, downloads, notified, fetched, model, pass,
                   attempts, job, failed, retried, spurned, changes>>

(* Mutant: the same releases as before make no new model.                  *)
RefreshEndsUnchanged(answered, p) ==
    /\ refresh.busy /\ ~pass[p].busy
    /\ fetched' = [a \in Apps |-> IF a \in answered THEN published[a] ELSE 0]
    /\ model' = IF fetched' = fetched THEN model ELSE Rebuilt(fetched', refresh.prefs)
    /\ refresh' = NoRefresh
    /\ pass' = [Detached EXCEPT ![p] = [NoPass EXCEPT !.busy = TRUE, !.todo = Order,
                                          !.policy = [a \in Apps |-> prefs[a].policy]]]
    /\ spurned' = {}
    /\ UNCHANGED <<published, prefs, installed, downloads, notified, attempts, job, failed,
                   retried, changes>>

(* Mutant: only the apps with a new release are walked.                    *)
RefreshEndsQuietly(answered, p) ==
    /\ refresh.busy /\ ~pass[p].busy
    /\ fetched' = [a \in Apps |-> IF a \in answered THEN published[a] ELSE 0]
    /\ model' = Rebuilt(fetched', refresh.prefs)
    /\ refresh' = NoRefresh
    /\ pass' = [Detached EXCEPT ![p] = [NoPass EXCEPT !.busy = TRUE,
                  !.todo = SelectSeq(Order, LAMBDA a : model[a].latest # model'[a].latest),
                  !.policy = [a \in Apps |-> prefs[a].policy]]]
    /\ spurned' = {}
    /\ UNCHANGED <<published, prefs, installed, downloads, notified, attempts, job, failed,
                   retried, changes>>

(* The apps of which a release list arrives; a list that does not leaves   *)
(* its app without releases.  The policy pass that follows runs beside     *)
(* one that still waits for a download.                                    *)
RefreshEnds(answered, p) ==
    /\ refresh.busy /\ ~pass[p].busy
    /\ fetched' = [a \in Apps |-> IF a \in answered THEN published[a] ELSE 0]
    /\ model' = Rebuilt(fetched', refresh.prefs)
    /\ refresh' = NoRefresh
    /\ pass' = [Detached EXCEPT ![p] = [NoPass EXCEPT !.busy = TRUE, !.todo = Order,
                                          !.policy = [a \in Apps |-> prefs[a].policy]]]
    /\ spurned' = {}
    /\ UNCHANGED <<published, prefs, installed, downloads, notified, attempts, job, failed,
                   retried, changes>>

(* The refresh fails as a whole: the catalogue stays, and the policies run *)
(* on it.                                                                  *)
RefreshFails ==
    /\ refresh.busy
    /\ refresh' = NoRefresh
    /\ \E p \in Passes :
          /\ ~pass[p].busy
          /\ pass' = [pass EXCEPT ![p] = [NoPass EXCEPT !.busy = TRUE, !.todo = Order,
                                            !.policy = [a \in Apps |-> prefs[a].policy]]]
    /\ UNCHANGED <<published, prefs, installed, downloads, notified, fetched, model, attempts,
                   job, failed, retried, spurned, changes>>

(* A preference is set, and the catalogue rebuilt.                         *)
SetAppPref(a, pref) ==
    /\ changes < MaxChanges /\ changes' = changes + 1
    /\ pref # prefs[a]
    /\ prefs' = [prefs EXCEPT ![a] = pref]
    /\ pass' = Detached
    /\ model' = Rebuilt(fetched, prefs')
    /\ spurned' = {}
    /\ UNCHANGED <<published, installed, downloads, notified, fetched, refresh, attempts, job,
                   failed, retried>>

(* A person rolls back or uninstalls.  An app has one job at a time.        *)
UserRemoves(a, v) ==
    /\ changes < MaxChanges /\ changes' = changes + 1
    /\ ~job[a] /\ v # installed[a] /\ v \in {0} \union (Ships[a] \intersect (1..fetched[a]))
    /\ installed' = [installed EXCEPT ![a] = v]
    /\ model' = Remerged(installed', downloads)
    /\ spurned' = {}
    /\ UNCHANGED <<published, prefs, downloads, notified, fetched, refresh, pass, attempts, job,
                   failed, retried>>

(* An install that succeeds uses up the download.                          *)
Installs(a) ==
    /\ installed' = [installed EXCEPT ![a] = model[a].target]
    /\ downloads' = [downloads EXCEPT ![a] = 0]
    /\ model' = Remerged(installed', downloads')
    /\ spurned' = {}

(* One whose file has a wrong signature throws the file and its record     *)
(* away, and the rows are not merged.                                      *)
Spurns(a) ==
    /\ downloads' = [downloads EXCEPT ![a] = 0]
    /\ spurned' = spurned \union {a}
    /\ UNCHANGED <<installed, model>>

(* A person installs, or installs again, what the catalogue offers.  (One  *)
(* that fails otherwise changes nothing.)                                  *)
UserInstalls(a) ==
    /\ changes < MaxChanges /\ changes' = changes + 1
    /\ ~job[a] /\ model[a].target # 0
    /\ Installs(a) \/ Spurns(a)
    /\ UNCHANGED <<published, prefs, notified, fetched, refresh, pass, attempts, job, failed,
                   retried>>

(* The download cache is cleared.                                          *)
ClearDownloads ==
    /\ changes < MaxChanges /\ changes' = changes + 1
    /\ downloads' = [a \in Apps |-> 0]
    /\ model' = Remerged(installed, downloads')
    /\ spurned' = {}
    /\ UNCHANGED <<published, prefs, installed, notified, fetched, refresh, pass, attempts, job,
                   failed, retried>>

-----------------------------------------------------------------------------
(* A policy pass, app by app: the visible app, the update of its artifact, *)
(* and the policy read when the pass began.                                *)

Turn(p, a) == pass[p].busy /\ ~pass[p].loading /\ pass[p].todo # <<>> /\ Head(pass[p].todo) = a

Pending(p, a) == LET row == RowsOf(p)[a] IN row.latest # 0 /\ ~row.hidden /\ row.available

NextApp(p) == [pass EXCEPT ![p].todo = Tail(@), ![p].loading = FALSE]

(* Nothing to do for this app, or it has been done: announced already,     *)
(* tried already.                                                          *)
PolicyPasses(p, a) ==
    /\ Turn(p, a)
    /\ LET version == RowsOf(p)[a].latest
       IN \/ ~Pending(p, a)
          \/ pass[p].policy[a] = "notify"  /\ notified[a] = version
          \/ pass[p].policy[a] = "install" /\ (<<a, version>> \in attempts \/ job[a])
    /\ pass' = NextApp(p)
    /\ UNCHANGED <<published, prefs, installed, downloads, notified, fetched, model, refresh,
                   attempts, job, failed, retried, spurned, changes>>

PolicyNotifies(p, a) ==
    /\ Turn(p, a) /\ Pending(p, a) /\ pass[p].policy[a] = "notify"
    /\ LET version == RowsOf(p)[a].latest
       IN /\ notified[a] # version
          /\ notified' = [notified EXCEPT ![a] = version]
    /\ pass' = NextApp(p)
    /\ UNCHANGED <<published, prefs, installed, downloads, fetched, model, refresh, attempts,
                   job, failed, retried, spurned, changes>>

(* The attempt is remembered under the app's newest version, whatever the  *)
(* artifact's own is.                                                      *)
PolicyInstalls(p, a) ==
    /\ Turn(p, a) /\ Pending(p, a) /\ pass[p].policy[a] = "install"
    /\ LET row == RowsOf(p)[a]
       IN /\ <<a, row.latest>> \notin attempts /\ ~job[a]
          /\ attempts' = attempts \union {<<a, row.latest>>}
          /\ retried' = (retried \/ <<a, model[a].target>> \in failed)
    /\ job' = [job EXCEPT ![a] = model[a].target # 0]   \* unknown artifact: an error
    /\ pass' = NextApp(p)
    /\ UNCHANGED <<published, prefs, installed, downloads, notified, fetched, model, refresh,
                   failed, spurned, changes>>

PolicyLoads(p, a) ==
    /\ Turn(p, a) /\ Pending(p, a) /\ pass[p].policy[a] = "download"
    /\ pass' = [pass EXCEPT ![p].loading = TRUE]
    /\ UNCHANGED <<published, prefs, installed, downloads, notified, fetched, model, refresh,
                   attempts, job, failed, retried, spurned, changes>>

(* What is flagged is the row the pass began with.                         *)
Flagged(p, a, new) ==
    IF pass[p].own = <<>>
    THEN /\ model' = [model EXCEPT ![a].ready = TRUE]
         /\ pass' = [NextApp(p) EXCEPT ![p].loaded = @ \/ new]
    ELSE /\ UNCHANGED model
         /\ pass' = [NextApp(p) EXCEPT ![p].loaded = @ \/ new, ![p].own[a].ready = TRUE]

(* The download ends, is found already there, or fails: it is recorded     *)
(* under the app's newest version.                                         *)
PolicyLoaded(p, a) ==
    /\ pass[p].busy /\ pass[p].loading /\ Head(pass[p].todo) = a
    /\ \/ /\ downloads' = [downloads EXCEPT ![a] = RowsOf(p)[a].latest]
          /\ Flagged(p, a, downloads' # downloads)
       \/ /\ downloads[a] # RowsOf(p)[a].latest
          /\ pass' = NextApp(p)
          /\ UNCHANGED <<downloads, model>>
    /\ UNCHANGED <<published, prefs, installed, notified, fetched, refresh, attempts, job,
                   failed, retried, spurned, changes>>

(* The walk is over; the rows are merged again if something was loaded.    *)
PolicyDone(p) ==
    /\ pass[p].busy /\ pass[p].todo = <<>>
    /\ pass' = [pass EXCEPT ![p] = NoPass]
    /\ IF pass[p].loaded THEN model' = Remerged(installed, downloads) /\ spurned' = {}
                         ELSE UNCHANGED <<model, spurned>>
    /\ UNCHANGED <<published, prefs, installed, downloads, notified, fetched, refresh, attempts,
                   job, failed, retried, changes>>

(* The policy's job ends: what it installs is what the catalogue says by   *)
(* then.  A failure merges nothing.                                        *)
JobEnds(a, well) ==
    /\ job[a] /\ job' = [job EXCEPT ![a] = FALSE]
    /\ \/ well /\ model[a].target # 0 /\ Installs(a) /\ UNCHANGED failed
       \/ /\ ~well \/ model[a].target = 0
          /\ failed' = failed \union {<<a, model[a].target>>}
          /\ \/ UNCHANGED <<installed, downloads, model, spurned>>
             \/ model[a].target # 0 /\ Spurns(a)
    /\ UNCHANGED <<published, prefs, notified, fetched, refresh, pass, attempts, retried, changes>>

(* The hub ends and starts again: settings, records and the disk stay.     *)
Restart ==
    /\ changes < MaxChanges /\ changes' = changes + 1
    /\ fetched' = [a \in Apps |-> 0] /\ model' = [a \in Apps |-> Unknown]
    /\ refresh' = NoRefresh
    /\ pass' = [p \in Passes |-> NoPass]
    /\ attempts' = {} /\ job' = [a \in Apps |-> FALSE] /\ failed' = {} /\ retried' = FALSE
    /\ spurned' = {}
    /\ UNCHANGED <<published, prefs, installed, downloads, notified>>

Prefs(a) ==
    UNION {{[prefs[a] EXCEPT !.policy = x] : x \in Policies},
           {[prefs[a] EXCEPT !.skipped = v] : v \in {0, model[a].target}},
           {[prefs[a] EXCEPT !.hidden = ~@], [prefs[a] EXCEPT !.prerelease = ~@]}}

Answer(p) == \E answered \in SUBSET Apps : RefreshEnds(answered, p)

Policy(p) == \E a \in Apps : \/ PolicyPasses(p, a) \/ PolicyNotifies(p, a) \/ PolicyInstalls(p, a)
                             \/ PolicyLoads(p, a) \/ PolicyLoaded(p, a)

PassGoesOn(p) == Policy(p) \/ PolicyDone(p)

Next ==
    \/ \E a \in Apps : Publish(a)
    \/ RefreshBegins \/ RefreshFails \/ ClearDownloads \/ Restart
    \/ \E p \in Passes : Answer(p) \/ PassGoesOn(p)
    \/ \E a \in Apps : \E pref \in Prefs(a) : SetAppPref(a, pref)
    \/ \E a \in Apps : UserInstalls(a) \/ \E v \in Version : UserRemoves(a, v)
    \/ \E a \in Apps, well \in BOOLEAN : JobEnds(a, well)

(* The timer goes on; every so often a refresh finds every app's releases  *)
(* and a download succeeds; what has begun ends.                           *)
Fairness ==
    /\ WF_vars(RefreshBegins)
    /\ SF_vars(\E p \in Passes : RefreshEnds(Apps, p))
    /\ \A p \in Passes : WF_vars(PassGoesOn(p))
    /\ \A p \in Passes, a \in Apps : SF_vars(PolicyLoaded(p, a) /\ downloads' # downloads)
    /\ \A a \in Apps : WF_vars(\E well \in BOOLEAN : JobEnds(a, well))

Spec == Init /\ [][Next]_vars /\ Fairness

-----------------------------------------------------------------------------
(* Properties.                                                             *)

(* What the catalogue should say.                                          *)
Truth(a) == Built(published[a], prefs[a], installed[a], downloads[a], a)

(* Eventual consistency: whatever refreshes, preferences, jobs and passes  *)
(* crossed, every app's row comes to be what GitHub, the settings and the  *)
(* disk say, again and again.                                              *)
Settled(a) == [model[a] EXCEPT !.ready = FALSE] = [Truth(a) EXCEPT !.ready = FALSE]

CatalogueSettles == \A a \in Apps : []<>Settled(a)

Served(a) ==
    CASE prefs[a].policy = "notify"   -> notified[a] = Truth(a).latest
      [] prefs[a].policy = "install"  -> <<a, Truth(a).latest>> \in attempts
      [] prefs[a].policy = "download" -> downloads[a] = Truth(a).latest

(* No pending update of a visible app is passed over for good: it is       *)
(* announced, loaded or attempted as its policy says.                      *)
Attended(a) == Truth(a).available /\ ~Truth(a).hidden => Served(a)

PendingIsServed == \A a \in Apps : []<>Attended(a)

(* An app shown as ready to install without a download has one of the      *)
(* version that would be installed, unless a pass that began with an older *)
(* catalogue has just recorded another, and will see to it when it ends,   *)
(* or the download's signature was wrong and no row has been merged since. *)
(* An artifact of an older release is left out: its download is recorded   *)
(* under the newer version.                                                *)
Overtaken(p) == pass[p].busy /\ pass[p].own # <<>> /\ pass[p].loaded

ReadyIsReal ==
    \A a \in Apps :
        model[a].ready /\ model[a].target = model[a].latest
          => \/ downloads[a] = model[a].target
             \/ \E p \in Passes : Overtaken(p)
             \/ a \in spurned

(* A policy never attempts again a version that failed once in this hub's  *)
(* life.  (It does not hold: the attempt is remembered under the newest    *)
(* release, also when the artifact comes from an older one.)               *)
NoRetryOfFailed == ~retried

(* The policy installs no version the user has skipped.  (It does not      *)
(* hold: a refresh that began before, or a pass that waits for a download, *)
(* still has the old preference.)                                          *)
SkipIsKept ==
    [][\A a \in Apps : job'[a] /\ ~job[a] => prefs[a].skipped # Truth(a).target]_vars

=============================================================================
