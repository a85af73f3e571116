---------------------------- MODULE BudgetLedger ----------------------------
(***************************************************************************)
(* The budget of one Task (crates/core/budget/src/lib.rs and the sealing   *)
(* and restoring of checkpoint.rs): what a task and its current run have   *)
(* charged, reserved and spent in time, and what its owners may still do   *)
(* with their handles: the run lease, the scopes and the reservations.     *)
(*                                                                         *)
(* Every operation holds the ledger's lock from its first line to its      *)
(* last, so an action is an operation, whichever thread calls it.  Each    *)
(* begins with the sampling of the clock, Tick(l, e), where e is the time  *)
(* since the last sample.  An operation that is refused changes nothing    *)
(* beyond that: Observe stands for it, and for report.                     *)
(*                                                                         *)
(* A handle of an earlier run or of a sealed ledger is refused everywhere; *)
(* runHeld and held are the handles that still matter.                     *)
(***************************************************************************)
EXTENDS Integers, FiniteSetsExt, Functions

CONSTANTS
  Variable,     \* resources settled after the fact, numbers as the attempts
  Attempts,     \* resources charged when they are admitted
  Requests,     \* what may be reserved: amounts of every resource
  Limits,       \* limits a task, a run or a host may set
  Usages,       \* what a settlement may report, for every variable resource
  Elapsed,      \* times between two samples of the clock, below 0 if it ran backwards
  MaxValue,     \* u64::MAX of the amounts and of Duration
  MaxId         \* u64::MAX of next_id

\* BudgetResource::ALL, in its order.
Resources == Attempts \cup Variable
Amounts == [Resources -> 0 .. MaxValue]
AnyLimit == [res : Amounts, time : 0 .. MaxValue]
Usage == [kind : {"actual", "estimated", "unknown"}, amount : 0 .. MaxValue]

ASSUME ResourcesAssumption == Attempts \cup Variable \subseteq Nat /\ Attempts \cap Variable = {}
ASSUME WidthsAssumption == MaxValue \in Nat /\ MaxId \in Nat
ASSUME RequestsAssumption == Requests \subseteq Amounts
ASSUME HostLimitsAssumption == Limits \subseteq AnyLimit
ASSUME UsagesAssumption == Usages \subseteq [Variable -> Usage]
ASSUME ElapsedAssumption == Elapsed \subseteq Int /\ 0 \in Elapsed

VARIABLES
  account,   \* State, with the limits of Inner
  runHeld,   \* an unfinished BudgetRun exists
  held       \* the identifiers of the BudgetReservations that exist

accounts == <<account, runHeld, held>>

Reasons == {"resource", "time", "breach", "reservation_abandoned", "run_abandoned",
            "clock", "overflow", "requested", "recovery"}

Zero == [r \in Resources |-> 0]
NoLimit == [res |-> Zero, time |-> 0]

\* Option<RunState>: identifiers start at 1.
NoRun == [id |-> 0, open |-> FALSE, cleaning |-> FALSE, stop |-> "none", limits |-> NoLimit,
          charged |-> Zero, reserved |-> Zero, active |-> 0, cleanup |-> 0]

Pending == [amounts : Requests, started : BOOLEAN, abandoned : BOOLEAN, failed : BOOLEAN]

TightenedBy(a, b) ==
  [res |-> [r \in Resources |-> Min({a.res[r], b.res[r]})], time |-> Min({a.time, b.time})]

Fits(charged, reserved, amount, limit) == charged + reserved + amount <= limit

-----------------------------------------------------------------------------
(***************************************************************************)
(* What the operations are made of.                                        *)
(***************************************************************************)
Writable(l) == ~l.sealed /\ ~l.frozen
RunOpen(l) == Writable(l) /\ l.run.id # 0 /\ l.run.open
Stopped(l) == l.stop # "none" \/ l.run.stop # "none"

\* Option::get_or_insert of a reason to stop.
StopWith(l, reason) == [l EXCEPT !.stop = IF @ = "none" THEN reason ELSE @]

\* The part of Tick that measures e for the current run.
Timed(l, e) ==
  LET taskLeft == Max({0, l.limits.time - l.active})
      runLeft == Max({0, l.run.limits.time - l.run.active})
      left == Min({taskLeft, runLeft})
      counting == ~Stopped(l) /\ ~l.run.cleaning
      active == IF counting THEN Min({e, left}) ELSE 0
      cleanup == e - active
      spent == [l EXCEPT !.active = @ + active, !.run.active = @ + active]
      timed == IF ~(counting /\ e >= left) THEN spent
               ELSE IF taskLeft <= runLeft THEN [spent EXCEPT !.stop = "time"]
               ELSE [spent EXCEPT !.run.stop = "time"]
  IN IF l.cleanup + cleanup <= MaxValue /\ l.run.cleanup + cleanup <= MaxValue
     THEN [timed EXCEPT !.cleanup = @ + cleanup, !.run.cleanup = @ + cleanup]
     ELSE StopWith(timed, "overflow")

Tick(l, e) ==
  IF ~Writable(l) THEN l
  ELSE IF e < 0 THEN StopWith(l, "clock")
  ELSE IF l.run.id # 0 /\ (l.run.open \/ DOMAIN l.pending # {}) THEN Timed(l, e)
  ELSE l

\* The first resource of the loop of reserve that does not fit, if any.
Refusing(l, q) ==
  {r \in Resources :
     \/ ~Fits(l.charged[r], l.reserved[r], q[r], l.limits.res[r])
     \/ ~Fits(l.run.charged[r], l.run.reserved[r], q[r], l.run.limits.res[r])}

\* The amounts of q that are charged at once, and those that are reserved.
Charged(a, q) == [r \in Resources |-> IF r \in Attempts THEN a[r] + q[r] ELSE a[r]]
Reserved(a, q) == [r \in Resources |-> IF r \in Variable THEN a[r] + q[r] ELSE a[r]]
Released(a, q) == [r \in Resources |-> IF r \in Variable THEN a[r] - q[r] ELSE a[r]]

\* settlement: what a usage costs against the reservation q.
Debit(q, u, r) ==
  CASE u[r].kind = "actual" -> u[r].amount
    [] u[r].kind = "estimated" -> Max({u[r].amount, q[r]})
    [] u[r].kind = "unknown" -> q[r]

Debited(a, q, u) == [r \in Resources |-> IF r \in Variable THEN a[r] + Debit(q, u, r) ELSE a[r]]
Evident(a, u) ==
  [r \in Variable |-> IF u[r].kind = "unknown" THEN a[r] ELSE a[r] + u[r].amount]

Overflows(a) == \E r \in DOMAIN a : a[r] > MaxValue

Without(pending, i) == Restrict(pending, DOMAIN pending \ {i})

\* Mutant: what was charged on admission is given back too.
ResolveRefunding(l, i) ==
  [l EXCEPT !.reserved = Released(@, l.pending[i].amounts),
            !.run.reserved = Released(@, l.pending[i].amounts),
            !.charged = [r \in Resources |-> @[r] - (IF r \in Attempts THEN l.pending[i].amounts[r] ELSE 0)],
            !.pending = Without(@, i)]

\* The reservation i leaves, its variable amounts given back.
Resolve(l, i) ==
  [l EXCEPT !.reserved = Released(@, l.pending[i].amounts),
            !.run.reserved = Released(@, l.pending[i].amounts),
            !.pending = Without(@, i)]

\* Drop of a BudgetReservation that was not resolved.
Abandon(l, i) ==
  IF Writable(l) THEN StopWith([l EXCEPT !.pending[i].abandoned = TRUE], "reservation_abandoned")
  ELSE l

-----------------------------------------------------------------------------
(***************************************************************************)
(* Runs.                                                                   *)
(***************************************************************************)
\* begin_run and begin_admission.  They sample the clock a second time; time
\* that passes in between is that of a following Observe.
BeginRun(lim, e) ==
  LET l == Tick(account, e)
  IN /\ Writable(l) /\ l.run.id = 0 /\ ~Stopped(l)
     /\ \/ /\ l.nextId < MaxId
           /\ account' = [l EXCEPT !.nextId = @ + 1,
                !.run = [NoRun EXCEPT !.id = l.nextId + 1, !.open = TRUE,
                                      !.limits = TightenedBy(l.limits, lim)]]
           /\ runHeld' = TRUE
        \/ /\ l.nextId = MaxId
           /\ account' = StopWith(l, "overflow")
           /\ UNCHANGED runHeld
     /\ UNCHANGED held

\* report, and whatever is refused.
Observe(e) ==
  /\ ~account.sealed
  /\ account' = Tick(account, e)
  /\ UNCHANGED <<runHeld, held>>

PrepareReport(e) ==
  LET l == Tick(account, e)
  IN /\ runHeld /\ RunOpen(l) /\ DOMAIN l.pending = {}
     /\ account' = [l EXCEPT !.run.open = FALSE]
     /\ UNCHANGED <<runHeld, held>>

\* Mutant: a run finishes whatever is pending.
FinishPending(e) ==
  LET l == Tick(account, e)
  IN /\ runHeld /\ Writable(l)
     /\ account' = [l EXCEPT !.run = NoRun]
     /\ runHeld' = FALSE
     /\ UNCHANGED held

Finish(e) ==
  LET l == Tick(account, e)
  IN /\ runHeld /\ Writable(l) /\ DOMAIN l.pending = {}
     /\ account' = [l EXCEPT !.run = NoRun]
     /\ runHeld' = FALSE
     /\ UNCHANGED held

\* Drop of an unfinished BudgetRun.
DropRun(e) ==
  LET l == Tick(account, e)
  IN /\ runHeld
     /\ account' = IF Writable(l) THEN StopWith([l EXCEPT !.run.open = FALSE], "run_abandoned") ELSE l
     /\ runHeld' = FALSE
     /\ UNCHANGED held

-----------------------------------------------------------------------------
(***************************************************************************)
(* What a BudgetScope may do.                                              *)
(***************************************************************************)
Expire(e) ==
  LET l == Tick(account, e)
  IN /\ RunOpen(l) /\ ~Stopped(l)
     /\ account' = IF l.limits.time - l.active <= l.run.limits.time - l.run.active
                  THEN [l EXCEPT !.stop = "time"] ELSE [l EXCEPT !.run.stop = "time"]
     /\ UNCHANGED <<runHeld, held>>

StopRun(e) ==
  LET l == Tick(account, e)
  IN /\ RunOpen(l) /\ l.run.stop = "none"
     /\ account' = [l EXCEPT !.run.stop = "requested"]
     /\ UNCHANGED <<runHeld, held>>

BeginCleanup(e) ==
  LET l == Tick(account, e)
  IN /\ RunOpen(l)
     /\ account' = [l EXCEPT !.run.cleaning = TRUE]
     /\ UNCHANGED <<runHeld, held>>

\* reserve: all dimensions at once, or a stop where the first one is refused.
Reserve(q, e) ==
  LET l == Tick(account, e)
      id == l.nextId + 1
      r == Min(Refusing(l, q))
  IN /\ RunOpen(l) /\ ~Stopped(l)
     /\ \/ /\ Refusing(l, q) # {}
           /\ account' = IF Fits(l.charged[r], l.reserved[r], q[r], l.limits.res[r])
                        THEN [l EXCEPT !.run.stop = "resource"] ELSE [l EXCEPT !.stop = "resource"]
           /\ UNCHANGED held
        \/ /\ Refusing(l, q) = {} /\ l.nextId = MaxId
           /\ account' = StopWith(l, "overflow")
           /\ UNCHANGED held
        \/ /\ Refusing(l, q) = {} /\ l.nextId < MaxId
           /\ account' = [l EXCEPT !.nextId = id,
                !.charged = Charged(@, q), !.reserved = Reserved(@, q),
                !.run.charged = Charged(@, q), !.run.reserved = Reserved(@, q),
                !.pending = [i \in DOMAIN @ \cup {id} |->
                  IF i = id
                  THEN [amounts |-> q, started |-> FALSE, abandoned |-> FALSE, failed |-> FALSE]
                  ELSE @[i]]]
           /\ held' = held \cup {id}
     /\ UNCHANGED runHeld

-----------------------------------------------------------------------------
(***************************************************************************)
(* Reservations.  cancel_before_start and settle consume the handle: where *)
(* they fail it is dropped, which abandons the reservation.                *)
(***************************************************************************)
MarkStarted(i, e) ==
  LET l == Tick(account, e)
  IN /\ i \in held /\ RunOpen(l) /\ ~Stopped(l) /\ ~l.pending[i].started
     /\ account' = [l EXCEPT !.pending[i].started = TRUE]
     /\ UNCHANGED <<runHeld, held>>

CancelBeforeStart(i, e) ==
  LET l == Tick(account, e)
  IN /\ i \in held
     /\ account' = IF Writable(l) /\ ~l.pending[i].started THEN Resolve(l, i) ELSE Abandon(l, i)
     /\ held' = held \ {i}
     /\ UNCHANGED runHeld

Settle(i, u, e) ==
  LET l == Tick(account, e)
      q == l.pending[i].amounts
      charged == Debited(l.charged, q, u)
      runCharged == Debited(l.run.charged, q, u)
      used == Evident(l.used, u)
      settled == [Resolve(l, i) EXCEPT !.charged = charged, !.run.charged = runCharged,
                                       !.used = used]
  IN /\ i \in held
     /\ \/ /\ Writable(l) /\ l.pending[i].started
           /\ ~(Overflows(charged) \/ Overflows(runCharged) \/ Overflows(used))
           /\ account' = IF \E r \in Variable : Debit(q, u, r) > q[r]
                        THEN StopWith(settled, "breach") ELSE settled
        \/ /\ Writable(l) /\ l.pending[i].started
           /\ Overflows(charged) \/ Overflows(runCharged) \/ Overflows(used)
           /\ account' = Abandon(StopWith([l EXCEPT !.pending[i].failed = TRUE], "overflow"), i)
        \/ /\ ~(Writable(l) /\ l.pending[i].started)
           /\ account' = Abandon(l, i)
     /\ held' = held \ {i}
     /\ UNCHANGED runHeld

DropReservation(i, e) ==
  /\ i \in held
  /\ account' = Abandon(Tick(account, e), i)
  /\ held' = held \ {i}
  /\ UNCHANGED runHeld

-----------------------------------------------------------------------------
(***************************************************************************)
(* The transfer of a ledger.                                               *)
(***************************************************************************)
\* The units of r that were reserved: the k-th one of the reservation i, each.
Units(pending, r) == UNION {{i} \X (1 .. pending[i].amounts[r]) : i \in DOMAIN pending}

\* The sum of what the pending reservations asked for.
PendingSum(l, r) == Cardinality(Units(l.pending, r))

\* BudgetCheckpoint::validate of the image of a ledger.
ValidTask(l) ==
  /\ DOMAIN l.pending \subseteq (1 .. l.nextId) \ {l.run.id}
  /\ \A i \in DOMAIN l.pending : l.pending[i].failed => l.pending[i].started
  /\ \A r \in Variable : l.reserved[r] = PendingSum(l, r) /\ l.used[r] <= l.charged[r]
  /\ l.nextId = 0 => l.charged = Zero /\ l.active = 0
  /\ \A r \in Attempts : PendingSum(l, r) <= l.charged[r]
  /\ l.stop = "none" => /\ \A r \in Resources : Fits(l.charged[r], l.reserved[r], 0, l.limits.res[r])
                        /\ l.active <= l.limits.time

ValidRun(l) ==
  /\ l.run.id \in 1 .. l.nextId /\ l.run.reserved = l.reserved
  /\ l.run.active <= l.active /\ l.run.cleanup <= l.cleanup
  /\ \A r \in Resources : /\ l.run.charged[r] <= l.charged[r]
                          /\ l.run.limits.res[r] <= l.limits.res[r]
  /\ \A r \in Attempts : PendingSum(l, r) <= l.run.charged[r]
  /\ l.run.limits.time <= l.limits.time
  /\ ~Stopped(l) =>
       /\ \A r \in Resources : Fits(l.run.charged[r], l.run.reserved[r], 0, l.run.limits.res[r])
       /\ l.run.active <= l.run.limits.time

Valid(l) == ValidTask(l) /\ IF l.run.id = 0 THEN DOMAIN l.pending = {} ELSE ValidRun(l)

\* seal_checkpoint: every handle of the ledger is dead from here on.
Seal(e) ==
  /\ ~account.sealed /\ Valid(Tick(account, e))
  /\ account' = [Tick(account, e) EXCEPT !.sealed = TRUE]
  /\ UNCHANGED <<runHeld, held>>

\* Mutant: a restored ledger does not look at the tightened limits.
RestoreUnchecked(host) ==
  LET frozen == account.frozen \/ account.run.id # 0
  IN /\ account.sealed
     /\ account' = [account EXCEPT !.sealed = FALSE, !.frozen = frozen,
                                 !.limits = TightenedBy(@, host),
                                 !.stop = IF frozen /\ @ = "none" THEN "recovery" ELSE @]
     /\ runHeld' = FALSE /\ held' = {}

\* restore_checkpoint of the sealed image, under limits the host may tighten.
Restore(host) ==
  LET limits == TightenedBy(account.limits, host)
      frozen == account.frozen \/ account.run.id # 0 \/ DOMAIN account.pending # {}
      restored ==
        [account EXCEPT !.sealed = FALSE, !.frozen = frozen, !.limits = limits,
           !.run = IF account.run.id = 0 THEN NoRun
                   ELSE [account.run EXCEPT !.open = FALSE, !.cleaning = TRUE,
                                            !.limits = TightenedBy(account.run.limits, limits)]]
      timed == IF frozen THEN StopWith(restored, "recovery")
               ELSE IF account.active >= limits.time THEN StopWith(restored, "time")
               ELSE restored
  IN /\ account.sealed
     /\ account' = IF \E r \in Resources :
                       ~Fits(account.charged[r], account.reserved[r], 0, limits.res[r])
                  THEN StopWith(timed, "resource") ELSE timed
     /\ runHeld' = FALSE /\ held' = {}

-----------------------------------------------------------------------------
\* TaskBudget::new.
LedgerInit ==
  /\ \E lim \in Limits :
       account = [sealed |-> FALSE, frozen |-> FALSE, limits |-> lim, stop |-> "none",
                 charged |-> Zero, reserved |-> Zero, used |-> [r \in Variable |-> 0],
                 active |-> 0, cleanup |-> 0, run |-> NoRun, pending |-> [i \in {} |-> 0],
                 nextId |-> 0]
  /\ runHeld = FALSE /\ held = {}

RunOps(e) == \/ \E lim \in Limits : BeginRun(lim, e)
             \/ Observe(e) \/ PrepareReport(e) \/ Finish(e) \/ DropRun(e)
ScopeOps(e) == \/ Expire(e) \/ StopRun(e) \/ BeginCleanup(e)
               \/ \E q \in Requests : Reserve(q, e)
ReservationOps(i, e) == \/ MarkStarted(i, e) \/ CancelBeforeStart(i, e) \/ DropReservation(i, e)
                        \/ \E u \in Usages : Settle(i, u, e)

LedgerNext ==
  \/ \E e \in Elapsed : \/ RunOps(e) \/ ScopeOps(e) \/ Seal(e)
                        \/ \E i \in held : ReservationOps(i, e)
  \/ \E host \in Limits : Restore(host)

LedgerSpec == LedgerInit /\ [][LedgerNext]_accounts

-----------------------------------------------------------------------------
(***************************************************************************)
(* Properties.                                                             *)
(***************************************************************************)
RunType == [id : 0 .. MaxId, open : BOOLEAN, cleaning : BOOLEAN, stop : Reasons \cup {"none"},
            limits : AnyLimit, charged : Amounts, reserved : Amounts,
            active : 0 .. MaxValue, cleanup : 0 .. MaxValue]

AccountTyped(l) ==
  /\ l \in [sealed : BOOLEAN, frozen : BOOLEAN, limits : AnyLimit, stop : Reasons \cup {"none"},
            charged : Amounts, reserved : Amounts, used : [Variable -> 0 .. MaxValue],
            active : 0 .. MaxValue, cleanup : 0 .. MaxValue, run : RunType,
            pending : {l.pending}, nextId : 0 .. MaxId]
  /\ DOMAIN l.pending \subseteq 1 .. MaxId /\ l.pending \in [DOMAIN l.pending -> Pending]

\* Types; in particular no amount leaves its width, below or above, and a handle
\* that matters has its reservation.
LedgerTypeOK == AccountTyped(account) /\ runHeld \in BOOLEAN /\ held \subseteq DOMAIN account.pending

\* A task, or its run, whose charges and reservations together exceed a limit,
\* or whose active time does, is stopped: whatever mixture of reservations,
\* overruns, clock steps and tightened limits came before.
TaskWithin(l) == /\ \A r \in Resources : l.charged[r] + l.reserved[r] <= l.limits.res[r]
                 /\ l.active <= l.limits.time
RunWithin(l) == /\ \A r \in Resources : l.run.charged[r] + l.run.reserved[r] <= l.run.limits.res[r]
                /\ l.run.active <= l.run.limits.time
WithinLimits ==
  /\ account.stop = "none" => TaskWithin(account)
  /\ ~Stopped(account) => RunWithin(account)

\* What is reserved is what the pending reservations asked for, also after
\* stops, abandoned handles and a transfer; so a release never underflows.
ReservedExact ==
  /\ \A r \in Variable : account.reserved[r] = PendingSum(account, r)
  /\ \A r \in Attempts : account.reserved[r] = 0 /\ PendingSum(account, r) <= account.run.charged[r]

\* A ledger can be transferred in whatever state it was left: seal_checkpoint
\* never refuses the image it took itself, nor does the next host.
Transferable ==
  IF account.sealed THEN Valid(account) ELSE \A e \in Elapsed : Valid(Tick(account, e))

\* The run is part of its task: nothing is counted for the one and not for the
\* other, its limits are no looser, and only a run has pending reservations.
RunWithinTask ==
  /\ account.run.reserved = account.reserved
  /\ \A r \in Resources : /\ account.run.charged[r] <= account.charged[r]
                          /\ account.run.limits.res[r] <= account.limits.res[r]
  /\ account.run.active <= account.active /\ account.run.cleanup <= account.cleanup
  /\ account.run.id = 0 => account.run = NoRun /\ DOMAIN account.pending = {} /\ ~runHeld

\* The usage a report shows as evidence has been charged.
UsageCovered == \A r \in Variable : account.used[r] <= account.charged[r]

\* Whatever is reserved, overrun, abandoned, stopped, timed and transferred, no
\* amount leaves its width, the pending reservations are what is reserved, the run
\* is counted in its task, usage is never shown beyond what was charged, and
\* whatever has passed a limit has stopped.
AccountsExact == LedgerTypeOK /\ ReservedExact /\ RunWithinTask /\ UsageCovered /\ WithinLimits

\* Conditions on a step.  Whoever drops, cancels, settles or restores, nothing
\* charged or spent is ever refunded.
Unrefunded ==
  /\ \A r \in Resources : account'.charged[r] >= account.charged[r]
  /\ account'.active >= account.active /\ account'.cleanup >= account.cleanup

\* Work that began is paid for: whatever becomes of its handle, its reservation
\* leaves the ledger with a settlement, and only so.
StartedIsPaid ==
  \A i \in DOMAIN account.pending :
    account.pending[i].started /\ i \notin DOMAIN account'.pending
    => \E u \in Usages : \A r \in Variable :
         account'.charged[r] - account.charged[r] = Debit(account.pending[i].amounts, u, r)

\* The first reason a task stopped for stays, and so does that of a run, also
\* in the image another host restores.
FirstStopStays ==
  /\ account.stop # "none" => account'.stop = account.stop
  /\ account.run.stop # "none" /\ account'.run.id # 0 => account'.run.stop = account.run.stop

\* Nothing charged or spent is ever refunded, work that began leaves the ledger
\* only with a settlement, and the first reason for a stop stays, whoever drops,
\* cancels, settles or restores.
SpentForGood == [][Unrefunded /\ StartedIsPaid /\ FirstStopStays]_accounts
=============================================================================
