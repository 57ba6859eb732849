------------------------------ MODULE MCUpdates ------------------------------
(* How this machine comes to a new version, one of three parts in each        *)
(* behaviour (`part`).                                                        *)
(*                                                                            *)
(* "lock": two processes and the lock of one asset (AssetLock): a window with *)
(* two acquisitions going (an install and a pre-download), so that clients of *)
(* one process interleave as well, and a terminal.                            *)
(* "catalogue": releases, the catalogue made of them and the update policies  *)
(* (Catalogue): two apps and versions, one whose newest release ships no      *)
(* artifact, one change by the user or restart, one policy pass at a time;    *)
(* x begins with the policy "download", y with "install".                     *)
(* "passes": the same with two passes at a time that overtake each other,     *)
(* over x alone.                                                              *)
EXTENDS AssetLock, TLC, Sequences

CONSTANTS gui, cli, guiJob, guiFetch, cliJob, x, y,
          Apps, Order, Ships, Prereleases, LastVersion, Passes, lone, MaxChanges

VARIABLES part, published, prefs, installed, downloads, notified, fetched, model, refresh, pass,
          attempts, job, failed, retried, spurned, changes

catalogueVars == <<published, prefs, installed, downloads, notified, fetched, model, refresh,
                   pass, attempts, job, failed, retried, spurned, changes>>
allVars == <<part, vars, catalogueVars>>

Cat == INSTANCE Catalogue

ASSUME CatalogueAssumed == Cat!CatalogueAssumption

TwoHubs   == (guiJob :> gui) @@ (guiFetch :> gui) @@ (cliJob :> cli)

Walk    == <<x, y>>
Shipped == x :> 1..LastVersion @@ y :> 1..(LastVersion - 1)

(* At rest nothing is due in a part: every process has gone, or nothing has   *)
(* been published.                                                            *)
LockRests ==
  /\ lock = Absent /\ aged = FALSE /\ dead = Hubs
  /\ pc = [c \in Clients |-> "start"] /\ seen = [c \in Clients |-> Absent]
  /\ linked = [c \in Clients |-> FALSE]

CatalogueRests ==
  /\ Cat!Init
  /\ \A a \in Apps : published[a] = 1 /\ installed[a] = 0 /\ prefs[a].policy = "notify"

MCInit ==
  \/ part = "lock"      /\ Init      /\ CatalogueRests
  \/ part = "catalogue" /\ LockRests /\ Cat!Init
     /\ prefs[x].policy = "download" /\ prefs[y].policy = "install"
  \/ part = "passes"    /\ LockRests /\ Cat!Init
     /\ prefs[x].policy = "download" /\ prefs[y].policy = "notify"
     /\ published[y] = 1 /\ installed[y] = 0

OnePass == \A p \in Passes \ {lone} : ~pass'[p].busy

(* Only x moves; of y the release list arrives with that of x.                *)
OneApp == /\ published'[y] = published[y] /\ installed'[y] = installed[y] /\ prefs'[y] = prefs[y]
          /\ (fetched'[x] = 0 <=> fetched'[y] = 0)

MCNext ==
  /\ UNCHANGED part
  /\ \/ part = "lock"      /\ Next           /\ UNCHANGED catalogueVars
     \/ part = "catalogue" /\ Cat!Next /\ OnePass /\ UNCHANGED vars
     \/ part = "passes"    /\ Cat!Next /\ OneApp  /\ UNCHANGED vars

(* The fairness of the parts, as they state it, each where it applies.  Only  *)
(* one part moves, so that a strong fairness of either shares a conjunct.     *)
Locking == part = "lock"
Walking == part # "lock"

GetsOn(c) == Locking /\ (Open(c) \/ Release(c)) /\ UNCHANGED <<part, catalogueVars>>
Refreshed == /\ Walking /\ \E p \in Passes : Cat!RefreshEnds(Apps, p)
             /\ UNCHANGED <<part, vars>>
Loads(p, a) == /\ Walking /\ Cat!PolicyLoaded(p, a) /\ downloads' # downloads
               /\ UNCHANGED <<part, vars>>

MCFairness ==
  /\ \A c \in Clients : WF_vars(Locking /\ Step(c))
  /\ WF_vars(Locking /\ Age)
  /\ WF_catalogueVars(Walking /\ Cat!RefreshBegins)
  /\ \A p \in Passes : WF_catalogueVars(Walking /\ Cat!PassGoesOn(p))
  /\ \A a \in Apps : WF_catalogueVars(Walking /\ \E well \in BOOLEAN : Cat!JobEnds(a, well))
  /\ SF_allVars(GetsOn(guiJob) \/ Refreshed)
  /\ SF_allVars(GetsOn(guiFetch) \/ Loads(lone, x))
  /\ SF_allVars(GetsOn(cliJob) \/ Loads(lone, y) \/ \E p \in Passes \ {lone} : Loads(p, x))

MCSpec == MCInit /\ [][MCNext]_allVars /\ MCFairness

(* The properties of Catalogue, as it states them.                            *)
ReadyIsReal      == Cat!ReadyIsReal
CatalogueSettles == \A a \in Apps : []<>(Walking => Cat!Settled(a))
PendingIsServed  == \A a \in Apps : []<>(Walking => Cat!Attended(a))
SkipIsKept       == Cat!SkipIsKept
NoRetryOfFailed  == Cat!NoRetryOfFailed
=============================================================================
