-------------------------------- MODULE Stores --------------------------------
(***************************************************************************)
(* The small files a hub keeps its facts in: state.json, settings.json,    *)
(* fleet.json and dev.json.  Each change of one is a read of the whole     *)
(* file, a change in memory and a write of the whole file beside it that   *)
(* is renamed over it.  One process does that without a pause; the         *)
(* window's process, a daemon and every `nx` command do it beside each     *)
(* other and there is no lock.                                             *)
(*                                                                         *)
(* A file is a function from cells to values: a cell is a table (or the    *)
(* part of one) and a key.  A behaviour is about one of the four files.    *)
(***************************************************************************)
EXTENDS Naturals, FiniteSets

CONSTANTS Procs,   \* processes that use the data directory
          Keys,    \* apps with their artifacts, peers, links
          Vals,    \* versions, settings, addresses: two that differ
          None,
          MaxOps   \* bound: changes begun

StoresAssumption == None \notin Vals /\ MaxOps \in Nat

VARIABLES
    store,   \* which file
    file,    \* what it says
    held,    \* process -> the change it makes and what it has read for it
    memo,    \* process -> what discovery has parsed of dev.json
    fresh,   \* processes whose memo has the time and size of the file
    ops,     \* changes begun
    due,     \* history: cell -> what the last finished change of it made it
    risky    \* history: cells another process had read before that change

vars == <<store, file, held, memo, fresh, ops, due, risky>>

IdCell == <<"id", None>>
Cells == [state    |-> {"installed", "notified", "downloads", "crashes"} \X Keys,
          settings |-> {"global"} \X Keys \union {"pref", "stamp"} \X Keys,
          fleet    |-> {IdCell} \union {"secret", "address"} \X Keys,
          dev      |-> {"link"} \X Keys]
Counts  == Vals \X {1, 2}
Values  == Vals \union Counts \union {None}
Blank   == [c \in Cells[store] |-> None]

TypeOK ==
    /\ store \in DOMAIN Cells
    /\ file \in [Cells[store] -> Values] /\ due \in [Cells[store] -> Values]
    /\ risky \subseteq Cells[store]
    /\ \A p \in Procs : held[p] = None \/ held[p].seen \in [Cells[store] -> Values]
    /\ \A p \in Procs : memo[p] = None \/ memo[p] \in [Cells[store] -> Values]
    /\ fresh \subseteq Procs /\ ops \in 0..MaxOps

Init ==
    /\ store \in DOMAIN Cells /\ file = Blank /\ due = Blank /\ risky = {}
    /\ held = [p \in Procs |-> None] /\ memo = [p \in Procs |-> None]
    /\ fresh = {} /\ ops = 0

-----------------------------------------------------------------------------
(* What the changes do to what has been read: the cells they set, and to   *)
(* what.  `k` is the key of the change and `v` its value.                  *)

Sets(cells, v) == [c \in cells |-> v]

\* state.json
RecordInstall(s, k, v)  == Sets({<<"installed", k>>}, v)
RemoveInstall(s, k, v)  == Sets({<<"installed", k>>}, None)
MarkNotified(s, k, v)   == Sets({<<"notified", k>>}, v)
ClearNotified(s, k, v)  == Sets({<<"notified", k>>}, None)
RecordDownload(s, k, v) == Sets({<<"downloads", k>>}, v)
RemoveDownload(s, k, v) == Sets({<<"downloads", k>>}, None)
ClearDownloads(s, k, v) == Sets({"downloads"} \X Keys, None)
\* The count is of crashes at one version.  Bound: it is counted to two.
RecordCrash(s, k, v) ==
    LET was == s[<<"crashes", k>>]
    IN  Sets({<<"crashes", k>>}, <<v, IF was \in {v} \X {1, 2} THEN 2 ELSE 1>>)
ResetCrashes(s, k, v) ==
    IF s[<<"crashes", k>>] = None THEN Sets({}, None) ELSE Sets({<<"crashes", k>>}, None)

\* settings.json.  A preference goes with the stamp of the edit.
SaveSettings(s, k, v) == Sets({<<"global", k>>}, v)
SetAppPref(s, k, v)   == Sets({<<"pref", k>>, <<"stamp", k>>}, v)
ImportSettings(s, k, v) == Sets({"global", "pref"} \X Keys, v)

\* fleet.json.  To pair again may change the secret, to be seen never does.
UpsertPeer(s, k, v) == Sets({<<"secret", k>>, <<"address", k>>}, v)
TouchPeer(s, k, v) ==
    IF s[<<"secret", k>>] = None \/ s[<<"address", k>>] = v
    THEN Sets({}, None) ELSE Sets({<<"address", k>>}, v)
RemovePeer(s, k, v) ==
    IF s[<<"secret", k>>] = None THEN Sets({}, None)
    ELSE Sets({<<"secret", k>>, <<"address", k>>}, None)

\* dev.json
Link(s, k, v)   == Sets({<<"link", k>>}, v)
Unlink(s, k, v) ==
    IF s[<<"link", k>>] = None THEN Sets({}, None) ELSE Sets({<<"link", k>>}, None)

Kinds == [state    |-> {"install", "uninstall", "notify", "unnotify", "download", "undownload",
                        "clear downloads", "crash", "no crash"},
          settings |-> {"save", "prefer", "import"},
          fleet    |-> {"pair", "touch", "unpair"},
          dev      |-> {"link", "unlink"}]

Change(kind, s, k, v) ==
    CASE kind = "install"   -> RecordInstall(s, k, v)  [] kind = "uninstall"  -> RemoveInstall(s, k, v)
      [] kind = "notify"    -> MarkNotified(s, k, v)   [] kind = "unnotify"   -> ClearNotified(s, k, v)
      [] kind = "download"  -> RecordDownload(s, k, v) [] kind = "undownload" -> RemoveDownload(s, k, v)
      [] kind = "clear downloads" -> ClearDownloads(s, k, v)
      [] kind = "crash"     -> RecordCrash(s, k, v)    [] kind = "no crash"   -> ResetCrashes(s, k, v)
      [] kind = "save"      -> SaveSettings(s, k, v)   [] kind = "prefer"     -> SetAppPref(s, k, v)
      [] kind = "import"    -> ImportSettings(s, k, v)
      [] kind = "pair"      -> UpsertPeer(s, k, v)     [] kind = "touch"      -> TouchPeer(s, k, v)
      [] kind = "unpair"    -> RemovePeer(s, k, v)
      [] kind = "link"      -> Link(s, k, v)           [] kind = "unlink"     -> Unlink(s, k, v)

With(s, new) == [c \in Cells[store] |-> IF c \in DOMAIN new THEN new[c] ELSE s[c]]

-----------------------------------------------------------------------------
(* Defect: a change of dev.json is made to what discovery has parsed.      *)
ReadStoreCached(p) == IF store = "dev" /\ p \in fresh THEN memo[p] ELSE file
(* What a change reads: the file, whatever has been parsed before.         *)
ReadStore(p) == file

Reads(p, kind, k, v) ==
    /\ held[p] = None /\ ops < MaxOps /\ ops' = ops + 1
    /\ held' = [held EXCEPT ![p] = [kind |-> kind, k |-> k, v |-> v, seen |-> ReadStore(p)]]
    /\ UNCHANGED <<store, file, memo, fresh, due, risky>>

Others(p) == \E q \in Procs \ {p} : held[q] # None

\* writeJsonAtomic.  A file of the same size, written within one tick of the
\* clock of the file system, looks unchanged to a memo.
Renamed(p, content, new) ==
    /\ file' = content
    /\ due' = With(due, new)
    /\ risky' = IF Others(p) THEN risky \union DOMAIN new ELSE risky \ DOMAIN new
    /\ \/ fresh' = {}
       \/ /\ Cardinality({c \in Cells[store] : file[c] # None})
               = Cardinality({c \in Cells[store] : content[c] # None})
          /\ fresh' = fresh \ {p}

\* The first read of fleet.json gives the hub its id, and writes it.
Mints(p) ==
    /\ store = "fleet" /\ held[p] # None /\ held[p].seen[IdCell] = None
    /\ \E id \in Vals :
        /\ held' = [held EXCEPT ![p].seen = With(@, Sets({IdCell}, id))]
        /\ Renamed(p, With(held[p].seen, Sets({IdCell}, id)), Sets({IdCell}, id))
    /\ UNCHANGED <<store, memo, ops>>

\* setAppPref reads the preferences, and its save reads everything else again.
Rereads(p) ==
    /\ held[p] # None /\ held[p].kind = "prefer"
    /\ held' = [held EXCEPT ![p].seen =
                  [c \in Cells[store] |-> IF c[1] = "global" THEN file[c] ELSE @[c]]]
    /\ UNCHANGED <<store, file, memo, fresh, ops, due, risky>>

Writes(p) ==
    LET h   == held[p]
        new == Change(h.kind, h.seen, h.k, h.v)
    IN  /\ h # None
        /\ store = "fleet" => h.seen[IdCell] # None
        /\ IF DOMAIN new = {} THEN UNCHANGED <<file, due, risky, fresh>>
           ELSE Renamed(p, With(h.seen, new), new)
        /\ held' = [held EXCEPT ![p] = None]
        /\ UNCHANGED <<store, memo, ops>>

\* A process that is killed leaves the file as it is, and its own copy beside it.
Killed(p) ==
    /\ held[p] # None \/ memo[p] # None
    /\ held' = [held EXCEPT ![p] = None]
    /\ memo' = [memo EXCEPT ![p] = None] /\ fresh' = fresh \ {p}
    /\ UNCHANGED <<store, file, ops, due, risky>>

\* linkFor, for each row discovery builds.
LinkFor(p) ==
    /\ store = "dev" /\ p \notin fresh
    /\ memo' = [memo EXCEPT ![p] = file] /\ fresh' = fresh \union {p}
    /\ UNCHANGED <<store, file, held, ops, due, risky>>

\* A file that cannot be read or parsed reads as an empty one.
Damaged ==
    /\ file # Blank /\ file' = Blank /\ due' = Blank /\ risky' = Cells[store] /\ fresh' = {}
    /\ UNCHANGED <<store, held, memo, ops>>

Next ==
    \/ \E p \in Procs, kind \in Kinds[store], k \in Keys, v \in Vals : Reads(p, kind, k, v)
    \/ \E p \in Procs : Mints(p) \/ Rereads(p) \/ Writes(p) \/ Killed(p) \/ LinkFor(p)
    \/ Damaged

Spec == Init /\ [][Next]_vars

-----------------------------------------------------------------------------
\* A finished change stays until the next of the same cell, whatever other
\* changes are made, unless another process had read the file before it and
\* had not written yet.
ChangeStays == \A c \in Cells[store] : c \notin risky => file[c] = due[c]

\* A peer is known whole or not at all: one that has been unpaired is not seen
\* under an address while no secret goes with it, and one that is seen keeps it.
SecretGoesWithPeer ==
    store = "fleet" => \A k \in Keys : (file[<<"secret", k>>] = None) <=> (file[<<"address", k>>] = None)

StoresAreSound == TypeOK /\ ChangeStays /\ SecretGoesWithPeer
=============================================================================
