------------------------------ MODULE JobLedger ------------------------------
(***************************************************************************)
(* What the job queue promises the rest of the hub: a numbered list of     *)
(* jobs, each belonging to one app.  The jobs of one app run one at a time *)
(* and in the order they were accepted; a job that has ended stays ended.  *)
(* Nothing is said about queues, dispatchers or download slots: JobQueue   *)
(* shows how src/main/jobs.js keeps the promise with those.                *)
(***************************************************************************)
EXTENDS Naturals

CONSTANTS Apps,      \* the apps jobs are queued for
          NoApp,     \* "this job id has not been handed out yet"
          MaxJobs    \* how many job ids exist

VARIABLES app,       \* job id -> its app
          state      \* job id -> where the job is in its life

ledger == <<app, state>>

Jobs    == 1..MaxJobs
Outcome == {"done", "error", "cancelled"}

AppIdle(a) == \A k \in Jobs : ~(app[k] = a /\ state[k] = "running")

\* The oldest waiting job of app a, given the apps ap and the states st.
IsOldest(j, a, ap, st) ==
  /\ ap[j] = a /\ st[j] = "queued"
  /\ \A k \in Jobs : k < j => ~(ap[k] = a /\ st[k] = "queued")

LedgerInit == /\ app   = [j \in Jobs |-> NoApp]
              /\ state = [j \in Jobs |-> "unborn"]

\* A job is accepted with the next free id.  Within the same call the oldest
\* waiting job of an idle app, most often this one, may start.
Accept(j, a) ==
  LET queued == [state EXCEPT ![j] = "queued"]
  IN  /\ state[j] = "unborn"
      /\ \A k \in Jobs : k < j => state[k] # "unborn"
      /\ app' = [app EXCEPT ![j] = a]
      /\ \/ state' = queued
         \/ /\ AppIdle(a)
            /\ \E k \in Jobs : /\ IsOldest(k, a, app', queued)
                               /\ state' = [queued EXCEPT ![k] = "running"]

\* The oldest waiting job of an idle app starts.
Start(j) ==
  /\ AppIdle(app[j])
  /\ IsOldest(j, app[j], app, state)
  /\ state' = [state EXCEPT ![j] = "running"]
  /\ UNCHANGED app

\* A waiting job is withdrawn; it never runs.
Withdraw(j) ==
  /\ state[j] = "queued"
  /\ state' = [state EXCEPT ![j] = "cancelled"]
  /\ UNCHANGED app

\* A running job ends, whatever came of it.
Conclude(j) ==
  /\ state[j] = "running"
  /\ \E o \in Outcome : state' = [state EXCEPT ![j] = o]
  /\ UNCHANGED app

LedgerNext == \E j \in Jobs : \/ \E a \in Apps : Accept(j, a)
                              \/ Start(j)
                              \/ Withdraw(j)
                              \/ Conclude(j)

LedgerSpec == LedgerInit /\ [][LedgerNext]_ledger
=============================================================================
