------------------------------- MODULE FleetSync -------------------------------
(***************************************************************************)
(* Settings sync between paired hubs (src/main/fleet/sync.js, pushPrefs,   *)
(* notePrefsChange and onPrefsSync of fleet/index.js, the stamps of        *)
(* setAppPref in config.js and of save in stacks.js).                      *)
(*                                                                         *)
(* A hub sends all its entries, an app's preferences or a stack each; the  *)
(* receiver merges them entry by entry, the later stamp wins.  A session   *)
(* delivers in order and loses what is under way when it ends.             *)
(*                                                                         *)
(* A payload that is too large, one the sanitizers refuse, and edits by    *)
(* another process than the hub are left out.  Both ends of a session      *)
(* adopt it at the same time.                                              *)
(***************************************************************************)
EXTENDS Integers, FiniteSets, Sequences

CONSTANTS
  Hubs,
  Links,     \* the paired hubs, sets of two
  Prefs,     \* entries that stay: the preferences of an app
  StackIds,  \* entries that may be removed: stacks
  Skewed,    \* whether a hub's clock may be behind a stamp it has received
  MaxStamp,  \* bound: edits, each with a stamp of its own
  MaxOpens   \* bound: sessions opened

Entries == Prefs \cup StackIds
Stamps  == 1..MaxStamp

SyncAssumption ==
  /\ Links \subseteq {l \in SUBSET Hubs : Cardinality(l) = 2}
  /\ Prefs \cap StackIds = {}
  /\ Skewed \in BOOLEAN /\ MaxStamp \in Nat /\ MaxOpens \in Nat

VARIABLES
  entries,   \* hub -> entry -> its stamp, 0 when the hub has none.  What an entry
             \* holds is named by its stamp: no two edits have the same
  lastHash,  \* hub -> the entries it has sent last (lastPrefsHash)
  timer,     \* the hubs whose debounced push is pending (prefsTimer)
  session,   \* the links that have a live session
  wire,      \* sender -> receiver -> the payloads under way
  stamps,    \* history: stamps given out, in the order of any hub's clock
  opens,     \* sessions opened so far
  removed    \* history: hub -> the stacks its user has ever removed

vars == <<entries, lastHash, timer, session, wire, stamps, opens, removed>>

Payload == [Entries -> 0..MaxStamp]
Nothing == [e \in Entries |-> 0]
Never   == [e \in Entries |-> -1]    \* lastPrefsHash of a hub that has sent nothing

TypeOK ==
  /\ entries \in [Hubs -> Payload]
  /\ lastHash \in [Hubs -> Payload \cup {Never}]
  /\ timer \subseteq Hubs /\ session \subseteq Links
  /\ wire \in [Hubs -> [Hubs -> Seq(Payload)]]
  /\ stamps \subseteq Stamps /\ opens \in 0..MaxOpens
  /\ removed \in [Hubs -> SUBSET StackIds]

Peers(h) == {g \in Hubs : {g, h} \in session}

\* notePrefsChange: one timer at a time, started by any local change.
NoteChange(h) == timer' = timer \cup {h}

\* pushPrefs(session): the payload goes to one peer, and is what was sent last.
PushTo(h, g, payload, w) == [w EXCEPT ![h][g] = Append(@, payload)]

\* pushPrefs(): to every live session, when it has moved since it was sent last.
PushAll(h, payload, w) ==
  IF payload = lastHash[h] THEN w
  ELSE [w EXCEPT ![h] = [g \in Hubs |-> IF g \in Peers(h) THEN Append(@[g], payload) ELSE @[g]]]

(***************************************************************************)
(* The user                                                                *)
(***************************************************************************)
\* setAppPref and stacks.save: stamped by the clock of this hub, which may be
\* behind that of another.
Edit(h, e) ==
  /\ \E s \in Stamps \ stamps :
       /\ Skewed \/ s > entries[h][e]
       /\ entries' = [entries EXCEPT ![h][e] = s]
       /\ stamps' = stamps \cup {s}
  /\ NoteChange(h)
  /\ UNCHANGED <<lastHash, session, wire, opens, removed>>

\* stacks.remove: the entry is gone, nothing of it stays.  Bound: once per hub.
RemoveStack(h, e) ==
  /\ entries[h][e] # 0 /\ e \notin removed[h]
  /\ entries' = [entries EXCEPT ![h][e] = 0]
  /\ removed' = [removed EXCEPT ![h] = @ \cup {e}]
  /\ NoteChange(h)
  /\ UNCHANGED <<lastHash, session, wire, stamps, opens>>

(***************************************************************************)
(* The hub                                                                 *)
(***************************************************************************)
TimerFires(h) ==
  /\ h \in timer
  /\ timer' = timer \ {h}
  /\ wire' = PushAll(h, entries[h], wire)
  /\ lastHash' = [lastHash EXCEPT ![h] = entries[h]]
  /\ UNCHANGED <<entries, session, stamps, opens, removed>>

\* Mutant: the hub that dials sends nothing when the session opens.
OpenOneWay(g, h) ==
  /\ {g, h} \in Links \ session
  /\ opens < MaxOpens
  /\ opens' = opens + 1
  /\ session' = session \cup {{g, h}}
  /\ wire' = PushTo(g, h, entries[g], wire)
  /\ lastHash' = [lastHash EXCEPT ![g] = entries[g]]
  /\ UNCHANGED <<entries, timer, stamps, removed>>

\* adopt, on both ends: each sends the other all it has.
Open(g, h) ==
  /\ {g, h} \in Links \ session
  /\ opens < MaxOpens
  /\ opens' = opens + 1
  /\ session' = session \cup {{g, h}}
  /\ wire' = PushTo(g, h, entries[g], PushTo(h, g, entries[h], wire))
  /\ lastHash' = [lastHash EXCEPT ![g] = entries[g], ![h] = entries[h]]
  /\ UNCHANGED <<entries, timer, stamps, removed>>

Drop(g, h) ==
  /\ {g, h} \in session
  /\ session' = session \ {{g, h}}
  /\ wire' = [wire EXCEPT ![g][h] = <<>>, ![h][g] = <<>>]
  /\ UNCHANGED <<entries, lastHash, timer, stamps, opens, removed>>

\* A hub ends and starts again: what is on disk stays.
Restart(h) ==
  /\ h \in timer \/ Peers(h) # {}
  /\ session' = {l \in session : h \notin l}
  /\ wire' = [a \in Hubs |-> [b \in Hubs |-> IF h \in {a, b} THEN <<>> ELSE wire[a][b]]]
  /\ timer' = timer \ {h}
  /\ lastHash' = [lastHash EXCEPT ![h] = Never]
  /\ UNCHANGED <<entries, stamps, opens, removed>>

\* mergeAppPrefs and mergeStacks: theirs when it is later, or when there is none.
\* A tie keeps the local copy.
Merge(ours, theirs) == [e \in Entries |-> IF theirs[e] <= ours[e] THEN ours[e] ELSE theirs[e]]

\* Mutant: the result of a merge is sent on whether or not there is news in it.
ReceiveAnswers(g, h) ==
  /\ wire[g][h] # <<>>
  /\ LET merged == Merge(entries[h], Head(wire[g][h]))
     IN /\ entries' = [entries EXCEPT ![h] = merged]
        /\ wire' = [wire EXCEPT ![g][h] = Tail(@), ![h][g] = Append(@, merged)]
        /\ lastHash' = [lastHash EXCEPT ![h] = merged]
  /\ UNCHANGED <<timer, session, stamps, opens, removed>>

\* onPrefsSync.  What the merge writes is no local change (applyingPrefs); it is
\* sent on, also to where it came from, only if there is something new in it.
Receive(g, h) ==
  /\ wire[g][h] # <<>>
  /\ LET merged == Merge(entries[h], Head(wire[g][h]))
         rest   == [wire EXCEPT ![g][h] = Tail(@)]
     IN /\ entries' = [entries EXCEPT ![h] = merged]
        /\ IF merged = entries[h]
           THEN wire' = rest /\ UNCHANGED lastHash
           ELSE /\ wire' = PushAll(h, merged, rest)
                /\ lastHash' = [lastHash EXCEPT ![h] = merged]
  /\ UNCHANGED <<timer, session, stamps, opens, removed>>

(***************************************************************************)
(* The specification                                                       *)
(***************************************************************************)
Init ==
  /\ entries = [h \in Hubs |-> Nothing] /\ lastHash = [h \in Hubs |-> Never]
  /\ timer = {} /\ session = {}
  /\ wire = [g \in Hubs |-> [h \in Hubs |-> <<>>]]
  /\ stamps = {} /\ opens = 0 /\ removed = [h \in Hubs |-> {}]

Next ==
  \/ \E h \in Hubs : \/ \E e \in Entries : Edit(h, e)
                     \/ \E e \in StackIds : RemoveStack(h, e)
                     \/ TimerFires(h) \/ Restart(h)
  \/ \E g, h \in Hubs : Open(g, h) \/ Drop(g, h) \/ Receive(g, h)

\* A timer fires, and what has arrived is read.
Fairness ==
  /\ \A h \in Hubs : WF_vars(TimerFires(h))
  /\ \A g, h \in Hubs : WF_vars(Receive(g, h))

Spec == Init /\ [][Next]_vars /\ Fairness

(***************************************************************************)
(* Properties                                                              *)
(***************************************************************************)
\* Where nothing is under way and no push is pending, the receiving hub has every
\* entry of the sending one in that version or a later one, but for stacks its own
\* user has removed ("pushed debounced 3s after any local change + on session
\* open", SPEC.md).  It follows that hubs that are quiet both ways agree.
QuietLinkAgrees ==
  \A g, h \in Hubs :
    ({g, h} \in session /\ wire[g][h] = <<>> /\ g \notin timer)
      => \A e \in Entries \ removed[h] : entries[h][e] >= entries[g][e]

\* Two hubs do not talk for ever: after the last edit and the last session opened
\* the exchange ends, with what the merge changed sent on each time.
ExchangeEnds == <>[](timer = {} /\ \A g, h \in Hubs : wire[g][h] = <<>>)
=============================================================================
