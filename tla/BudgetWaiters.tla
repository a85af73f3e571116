--------------------------- MODULE BudgetWaiters ---------------------------
(***************************************************************************)
(* BudgetScope::stopped (crates/core/budget): how a task that waits for    *)
(* the stop of its budget is woken.  The ledger and the list of waiters    *)
(* are under two locks, which nobody holds together: whoever releases the  *)
(* ledger's lock after a stop reads the list afterwards, and a waiter that *)
(* has put itself into the list reads the ledger afterwards.               *)
(***************************************************************************)
EXTENDS Naturals, FiniteSets

CONSTANTS
  Waiters,   \* calls of stopped
  Users,     \* threads that use the ledger, one operation at a time
  MaxUses    \* bound on the operations of each

ASSUME UsesAssumption == MaxUses \in Nat \ {0} /\ Waiters \cap Users = {}

VARIABLES
  stopped,   \* check_active fails: stopped, sealed, frozen, or its run closed
  list,      \* Inner.waiters whose future is alive
  at,        \* where each call of stopped is
  waker,     \* its AtomicWaker holds the waker of the task
  woken,     \* the task is scheduled to poll again
  user,      \* where each user is
  found,     \* the waiters a user upgraded, still to be woken
  uses

waiting == <<stopped, list, at, waker, woken, user, found, uses>>

WaitersInit ==
  /\ stopped = FALSE /\ list = {}
  /\ at = [w \in Waiters |-> "idle"] /\ waker = [w \in Waiters |-> FALSE]
  /\ woken = [w \in Waiters |-> FALSE]
  /\ user = [u \in Users |-> "idle"] /\ found = [u \in Users |-> {}]
  /\ uses = [u \in Users |-> 0]

-----------------------------------------------------------------------------
\* stopped: the waiter enters the list, which forgets those that are gone.
Enlist(w) ==
  /\ at[w] = "idle"
  /\ at' = [at EXCEPT ![w] = "poll"]
  /\ list' = list \cup {w}
  /\ UNCHANGED <<stopped, waker, woken, user, found, uses>>

\* The head of a poll: register.
Register(w) ==
  /\ at[w] = "poll"
  /\ at' = [at EXCEPT ![w] = "check"]
  /\ waker' = [waker EXCEPT ![w] = TRUE]
  /\ UNCHANGED <<stopped, list, woken, user, found, uses>>

\* Its tail: check_active under the ledger's lock.  The guard of a check that sees
\* the stop would notify the list, too; it does not here, so that no waiter owes
\* its wakeup to another.
Check(w) ==
  /\ at[w] = "check"
  /\ at' = [at EXCEPT ![w] = IF stopped THEN "done" ELSE "pending"]
  /\ list' = IF stopped THEN list \ {w} ELSE list
  /\ UNCHANGED <<stopped, waker, woken, user, found, uses>>

\* The executor polls a woken task.
Poll(w) ==
  /\ at[w] = "pending" /\ woken[w]
  /\ woken' = [woken EXCEPT ![w] = FALSE]
  /\ at' = [at EXCEPT ![w] = "poll"]
  /\ UNCHANGED <<stopped, list, waker, user, found, uses>>

\* The future is dropped, by the select that held it.
Drop(w) ==
  /\ at[w] \in {"poll", "check", "pending"}
  /\ at' = [at EXCEPT ![w] = "done"] /\ list' = list \ {w}
  /\ UNCHANGED <<stopped, waker, woken, user, found, uses>>

-----------------------------------------------------------------------------
\* An operation takes and releases the ledger's lock, and may stop the budget.
\* The drop of its StateGuard reads there whether to notify.
Use(u, stops) ==
  /\ user[u] = "idle" /\ uses[u] < MaxUses
  /\ uses' = [uses EXCEPT ![u] = @ + 1]
  /\ stopped' = (stopped \/ stops)
  /\ user' = [user EXCEPT ![u] = IF stopped' THEN "notify" ELSE "idle"]
  /\ UNCHANGED <<list, at, waker, woken, found>>

\* Under the lock of the list: upgrade.
Collect(u) ==
  /\ user[u] = "notify"
  /\ user' = [user EXCEPT ![u] = "wake"]
  /\ found' = [found EXCEPT ![u] = list]
  /\ UNCHANGED <<stopped, list, at, waker, woken, uses>>

\* Mutant: one waiter is woken for all.
WakeOne(u) ==
  /\ user[u] = "wake"
  /\ \/ \E w \in found[u] : /\ woken' = [woken EXCEPT ![w] = @ \/ waker[w]]
                            /\ waker' = [waker EXCEPT ![w] = FALSE]
     \/ found[u] = {} /\ UNCHANGED <<waker, woken>>
  /\ found' = [found EXCEPT ![u] = {}] /\ user' = [user EXCEPT ![u] = "idle"]
  /\ UNCHANGED <<stopped, list, at, uses>>

\* wake takes the waker, if it is still there.
Wake(u) ==
  /\ user[u] = "wake"
  /\ \/ \E w \in found[u] :
          /\ woken' = [woken EXCEPT ![w] = @ \/ waker[w]]
          /\ waker' = [waker EXCEPT ![w] = FALSE]
          /\ found' = [found EXCEPT ![u] = @ \ {w}]
          /\ UNCHANGED user
     \/ /\ found[u] = {} /\ user' = [user EXCEPT ![u] = "idle"]
        /\ UNCHANGED <<waker, woken, found>>
  /\ UNCHANGED <<stopped, list, at, uses>>

WaitersNext ==
  \/ \E w \in Waiters : Enlist(w) \/ Register(w) \/ Check(w) \/ Poll(w) \/ Drop(w)
  \/ \E u \in Users : Collect(u) \/ Wake(u) \/ \E stops \in BOOLEAN : Use(u, stops)

WaitersSpec == WaitersInit /\ [][WaitersNext]_waiting

-----------------------------------------------------------------------------
\* Types; the list holds exactly the waiters whose future is alive.
WaitersTypeOK ==
  /\ stopped \in BOOLEAN /\ list = {w \in Waiters : at[w] \in {"poll", "check", "pending"}}
  /\ at \in [Waiters -> {"idle", "poll", "check", "pending", "done"}]
  /\ waker \in [Waiters -> BOOLEAN] /\ woken \in [Waiters -> BOOLEAN]
  /\ user \in [Users -> {"idle", "notify", "wake"}] /\ found \in [Users -> SUBSET Waiters]
  /\ uses \in [Users -> 0 .. MaxUses]

\* Once the budget is stopped, a task that sleeps in stopped is woken already, or
\* somebody who saw the stop is on the way to wake it: the wakeup does not fall
\* between its check and its registration, nor between the two locks.
NoLostWakeup ==
  stopped => \A w \in Waiters : at[w] = "pending" =>
    \/ woken[w]
    \/ waker[w] /\ \E u \in Users : user[u] = "notify" \/ (user[u] = "wake" /\ w \in found[u])
=============================================================================
