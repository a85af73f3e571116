--------------------------- MODULE ModelScheduler ---------------------------
(***************************************************************************)
(* The canonical LLM runtime (crates/llm/runtime): the scheduler that      *)
(* admits model jobs and hands out execution slots, the driver task of     *)
(* each job, the closure of a turn (finish) and of the runtime (stop).     *)
(*                                                                         *)
(* A step is what runs under one lock of the control state, or between two *)
(* points at which a driver may be suspended or another thread may act.    *)
(* at[j] names where the driver of job j is:                               *)
(*   record     awaiting the append of its request, watching for signals   *)
(*   detached   awaiting that append after a signal took its capacity away *)
(*   check      at the head of the loop of wait_for_slot                   *)
(*   asleep     awaiting a notification or a signal in that loop           *)
(*   preflight  validating the request, about to enter the provider        *)
(*   enter      past the check for signals of start_provider               *)
(*   call       awaiting the provider                                      *)
(*   settle     its outcome decided, its reservation still open            *)
(*   result     awaiting the append of its result                          *)
(*   close      in the JobGuard, whose drop or complete closes the job     *)
(*   remove     about to leave the tables of jobs                          *)
(*                                                                         *)
(* The reasons a job stops for are told apart only as far as they change   *)
(* what happens next; time is the flag expired.                            *)
(***************************************************************************)
EXTENDS Integers, SequencesExt, FiniteSetsExt

CONSTANTS
  Jobs,            \* model operations; each is admitted at most once
  Turns,           \* turns bound to the runtime
  TurnOf,          \* the turn of each job
  Streams,         \* the jobs whose result is streamed to a consumer
  MaxConcurrency, MaxInflight, MaxQueued,  \* ModelSchedulerConfig
  Signals,         \* what may interrupt jobs, a subset of AllSignals
  Faults           \* what may go wrong, a subset of AllFaults

AllSignals == {"budget", "cancel", "timeout", "consumer"}

\* recording: an append to the Session fails.  unwind: a driver panics or is
\* dropped by its executor.  abandon: the future of finish is dropped.
AllFaults == {"recording", "unwind", "abandon"}

ASSUME TurnOfAssumption == TurnOf \in [Jobs -> Turns]
ASSUME StreamsAssumption == Streams \subseteq Jobs
ASSUME ConfigAssumption ==
  /\ MaxConcurrency \in Nat \ {0}
  /\ MaxInflight \in Nat /\ MaxInflight >= MaxConcurrency
  /\ MaxQueued \in Nat
ASSUME DisturbanceAssumption == Signals \subseteq AllSignals /\ Faults \subseteq AllFaults

VARIABLES
  lifecycle,   \* RuntimeControl.lifecycle
  phase,       \* ScheduledJob.phase; none before admission, gone after removal
  queue,       \* RuntimeControl.queue
  occupied,    \* RuntimeControl.occupied
  unack,       \* unacknowledged_failures: the jobs whose failure it records
  drained,     \* RuntimeState.drained holds a permit
  open,        \* TurnControl.open; unbound before bind_turn
  ledger,      \* TurnControl.failures: the jobs whose failure it records
  turnDrained, \* TurnState.drained holds a permit
  at,          \* where the driver of each job is
  wake,        \* JobCancellation.dispatched holds a permit
  cancelled,   \* JobCancellation.token of each job
  turnCancelled, budgetStopped,  \* the cancellation and the budget of each turn
  expired,     \* the deadline of the job has passed
  dropped,     \* the consumer of the stream has gone
  reservation, \* the budget reservation of each job
  recorded,    \* which of its records, request and result, each job knows durable
  failed,      \* the jobs that end in a closure failure
  stopper,     \* where stop is
  finisher,    \* where finish of each turn is
  told         \* the failures finish and stop have returned

scheduler == <<phase, queue, occupied, wake>>
signals == <<cancelled, turnCancelled, budgetStopped, expired, dropped>>
evidence == <<recorded, failed>>
closures == <<stopper, finisher, told>>
permits == <<drained, turnDrained>>
ledgers == <<unack, ledger>>
vars == <<lifecycle, open, scheduler, at, reservation, signals, evidence, ledgers, permits, closures>>

Inflight == {j \in Jobs : phase[j] \notin {"none", "gone"}}
JobsOf(t) == {j \in Jobs : TurnOf[j] = t}

Init ==
  /\ lifecycle = "Constructed"
  /\ phase = [j \in Jobs |-> "none"] /\ queue = <<>> /\ occupied = 0
  /\ wake = [j \in Jobs |-> FALSE]
  /\ open = [t \in Turns |-> "unbound"]
  /\ at = [j \in Jobs |-> "none"]
  /\ reservation = [j \in Jobs |-> "none"]
  /\ cancelled = [j \in Jobs |-> FALSE] /\ expired = [j \in Jobs |-> FALSE]
  /\ turnCancelled = [t \in Turns |-> FALSE] /\ budgetStopped = [t \in Turns |-> FALSE]
  /\ dropped = {} /\ recorded = [j \in Jobs |-> {}] /\ failed = {}
  /\ unack = {} /\ ledger = [t \in Turns |-> {}]
  /\ drained = FALSE /\ turnDrained = [t \in Turns |-> FALSE]
  /\ stopper = "idle" /\ finisher = [t \in Turns |-> "idle"]
  /\ told = [finish |-> {}, stop |-> {}]

-----------------------------------------------------------------------------
(***************************************************************************)
(* Slots and the queue: release_execution and dispatch_waiters.            *)
(***************************************************************************)
\* A queued job that dispatch_waiters closes instead of giving it a slot.
Dead(j) == budgetStopped[TurnOf[j]] \/ cancelled[j] \/ expired[j]

\* Mutant: a released slot is given to nobody.
PoppedNone(q, free) == {}

\* The positions of q that the loop of dispatch_waiters pops with so many
\* slots free: it ends when the slots or the queue are used up.
Popped(q, free) ==
  {k \in DOMAIN q : Cardinality({i \in {q[m] : m \in 1 .. k - 1} : ~Dead(i)}) < free}

\* queue.retain: a job is in the queue at most once.
Retained(q, j) ==
  IF \E k \in DOMAIN q : q[k] = j THEN RemoveAt(q, CHOOSE k \in DOMAIN q : q[k] = j) ELSE q

\* Slots in use once j has given up its own, if it had one.
OccupiedWithout(j) == IF phase[j] = "Queued" THEN occupied ELSE occupied - 1

\* The drivers whose dispatched is notified.
Notified(j, popped) == popped \cup {j}

\* release_execution, which does nothing for a job already released.
Release(j) ==
  IF phase[j] = "Cleaning" THEN UNCHANGED scheduler ELSE
  LET rest   == Retained(queue, j)
      free   == IF lifecycle = "Running" THEN MaxConcurrency - OccupiedWithout(j) ELSE 0
      places == Popped(rest, free)
      popped == {rest[k] : k \in places}
      given  == {i \in popped : ~Dead(i)}
  IN  /\ phase' = [i \in Jobs |-> IF i \in given THEN "Preparing"
                                  ELSE IF i \in popped \cup {j} THEN "Cleaning"
                                  ELSE phase[i]]
      /\ queue' = SubSeq(rest, Cardinality(places) + 1, Len(rest))
      /\ occupied' = OccupiedWithout(j) + Cardinality(given)
      /\ wake' = [i \in Jobs |-> wake[i] \/ i \in Notified(j, popped)]

-----------------------------------------------------------------------------
(***************************************************************************)
(* The runtime, its turns, and admission.                                  *)
(***************************************************************************)
Start ==
  /\ lifecycle = "Constructed"
  /\ lifecycle' = "Running"
  /\ UNCHANGED <<open, scheduler, at, reservation, signals, evidence, ledgers, permits, closures>>

BindTurn(t) ==
  /\ open[t] = "unbound"
  /\ ~turnCancelled[t] /\ ~budgetStopped[t]
  /\ lifecycle = "Running"
  /\ open' = [open EXCEPT ![t] = "open"]
  /\ UNCHANGED <<lifecycle, scheduler, at, reservation, signals, evidence, ledgers, permits, closures>>

SlotFree == occupied < MaxConcurrency

\* Mutant: a job that has to wait goes to the head of the queue.
JumpQueue(j) == <<j>> \o queue

Enqueued(j) == Append(queue, j)

\* admit: every rejection of the scheduler comes before the reservation.  A
\* refused job changes nothing but, in the budget, what StopBudget does.
Admit(j) ==
  LET t == TurnOf[j]
      dispatched == SlotFree /\ queue = <<>>
  IN  /\ phase[j] = "none"
      /\ lifecycle = "Running" /\ open[t] = "open"
      /\ Cardinality(Inflight) < MaxInflight
      /\ dispatched \/ Len(queue) < MaxQueued
      /\ ~budgetStopped[t]
      /\ reservation' = [reservation EXCEPT ![j] = "reserved"]
      /\ phase' = [phase EXCEPT ![j] = IF dispatched THEN "Preparing" ELSE "Queued"]
      /\ occupied' = IF dispatched THEN occupied + 1 ELSE occupied
      /\ queue' = IF dispatched THEN queue ELSE Enqueued(j)
      /\ at' = [at EXCEPT ![j] = "record"]
      /\ UNCHANGED <<lifecycle, open, wake, signals, evidence, ledgers, permits, closures>>

-----------------------------------------------------------------------------
(***************************************************************************)
(* What interrupts jobs.                                                   *)
(***************************************************************************)
\* The turn of the job is cancelled by its owner.
CancelTurn(t) ==
  /\ "cancel" \in Signals /\ ~turnCancelled[t]
  /\ turnCancelled' = [turnCancelled EXCEPT ![t] = TRUE]
  /\ UNCHANGED <<lifecycle, open, scheduler, at, reservation, cancelled, budgetStopped, expired, dropped,
                 evidence, ledgers, permits, closures>>

\* The budget of the turn is exhausted, expires, is cancelled, or stops on a
\* request it refuses.
StopBudget(t) ==
  /\ "budget" \in Signals /\ ~budgetStopped[t]
  /\ budgetStopped' = [budgetStopped EXCEPT ![t] = TRUE]
  /\ UNCHANGED <<lifecycle, open, scheduler, at, reservation, cancelled, turnCancelled, expired, dropped,
                 evidence, ledgers, permits, closures>>

Expire(j) ==
  /\ "timeout" \in Signals /\ j \in Inflight /\ ~expired[j]
  /\ expired' = [expired EXCEPT ![j] = TRUE]
  /\ UNCHANGED <<lifecycle, open, scheduler, at, reservation, cancelled, turnCancelled, budgetStopped, dropped,
                 evidence, ledgers, permits, closures>>

DropConsumer(j) ==
  /\ "consumer" \in Signals /\ j \in (Streams \cap Inflight) \ dropped
  /\ dropped' = dropped \cup {j}
  /\ UNCHANGED <<lifecycle, open, scheduler, at, reservation, cancelled, turnCancelled, budgetStopped, expired,
                 evidence, ledgers, permits, closures>>

\* Mutant: nothing watches the deadline.
SignalledUntimed(j) ==
  \/ budgetStopped[TurnOf[j]]
  \/ cancelled[j] \/ turnCancelled[TurnOf[j]]
  \/ j \in dropped

\* JobExecution::interrupted is ready.
Signalled(j) ==
  \/ budgetStopped[TurnOf[j]]
  \/ cancelled[j] \/ turnCancelled[TurnOf[j]]
  \/ expired[j]
  \/ j \in dropped

\* interruption_now: also when dispatch_waiters has closed the job.
Interrupted(j) == Signalled(j) \/ phase[j] = "Cleaning"

-----------------------------------------------------------------------------
(***************************************************************************)
(* The driver of a job: run_complete and run_stream.                       *)
(***************************************************************************)
Goto(j, p) == at' = [at EXCEPT ![j] = p]

\* A signal while the request is being appended releases the capacity of the
\* job, never the append.
RecordInterrupted(j) ==
  /\ at[j] = "record" /\ Signalled(j)
  /\ Release(j)
  /\ Goto(j, "detached")
  /\ UNCHANGED <<lifecycle, open, reservation, signals, evidence, ledgers, permits, closures>>

RecordRequest(j) ==
  /\ at[j] \in {"record", "detached"}
  /\ recorded' = [recorded EXCEPT ![j] = {"request"}]
  /\ Goto(j, IF at[j] = "detached" \/ Interrupted(j) THEN "settle" ELSE "check")
  /\ UNCHANGED <<lifecycle, open, scheduler, reservation, signals, failed, ledgers, permits, closures>>

\* A failed append ends the driver: nothing of the job goes on without its
\* record, or after it.
RecordFailed(j) ==
  /\ "recording" \in Faults
  /\ at[j] \in {"record", "detached", "result"}
  /\ failed' = failed \cup {j}
  /\ Goto(j, "close")
  /\ UNCHANGED <<lifecycle, open, scheduler, reservation, signals, recorded, ledgers, permits, closures>>

\* One round of wait_for_slot, up to its select.
CheckSlot(j) ==
  /\ at[j] = "check"
  /\ \/ /\ Interrupted(j)
        /\ Release(j)
        /\ Goto(j, "settle")
     \/ /\ ~Interrupted(j)
        /\ Goto(j, IF phase[j] = "Preparing" THEN "preflight" ELSE "asleep")
        /\ UNCHANGED scheduler
  /\ UNCHANGED <<lifecycle, open, reservation, signals, evidence, ledgers, permits, closures>>

\* The select of wait_for_slot; the permit outlives the interval in which
\* nobody waits for it.
AwaitSlot(j) ==
  /\ at[j] = "asleep"
  /\ \/ /\ Signalled(j)
        /\ Release(j)
        /\ Goto(j, "settle")
     \/ /\ ~Signalled(j) /\ wake[j]
        /\ wake' = [wake EXCEPT ![j] = FALSE]
        /\ Goto(j, "check")
        /\ UNCHANGED <<phase, queue, occupied>>
  /\ UNCHANGED <<lifecycle, open, reservation, signals, evidence, ledgers, permits, closures>>

\* A panic of the provider is caught, and is a closure failure of the job.
MayPanic(j) == {failed} \cup (IF "unwind" \in Faults THEN {failed \cup {j}} ELSE {})

\* Validation rejects the request or panics, or a signal has arrived.
Preflight(j) ==
  /\ at[j] = "preflight"
  /\ \/ failed' \in MayPanic(j) /\ Goto(j, "settle")
     \/ ~Interrupted(j) /\ Goto(j, "enter") /\ UNCHANGED failed
  /\ UNCHANGED <<lifecycle, open, scheduler, reservation, signals, recorded, ledgers, permits, closures>>

MayEnter(j) ==
  /\ lifecycle = "Running" /\ ~cancelled[j]
  /\ phase[j] = "Preparing"
  /\ ~expired[j] /\ ~budgetStopped[TurnOf[j]]

\* start_provider, under the lock of the runtime.
StartProvider(j) ==
  /\ at[j] = "enter"
  /\ IF MayEnter(j)
     THEN /\ reservation' = [reservation EXCEPT ![j] = "started"]
          /\ phase' = [phase EXCEPT ![j] = "Executing"]
          /\ Goto(j, "call")
     ELSE Goto(j, "settle") /\ UNCHANGED <<reservation, phase>>
  /\ UNCHANGED <<lifecycle, open, queue, occupied, wake, signals, evidence, ledgers, permits, closures>>

\* The provider answers, fails or panics.
ProviderEnds(j) ==
  /\ at[j] = "call"
  /\ failed' \in MayPanic(j)
  /\ Goto(j, "settle")
  /\ UNCHANGED <<lifecycle, open, scheduler, reservation, signals, recorded, ledgers, permits, closures>>

\* A signal drops the call.
CallInterrupted(j) ==
  /\ at[j] = "call" /\ Signalled(j)
  /\ Goto(j, "settle")
  /\ UNCHANGED <<lifecycle, open, scheduler, reservation, signals, evidence, ledgers, permits, closures>>

\* settle_budget, then the slot.  A budget that stopped replaces any other
\* outcome, so that a panic of the provider is then no closure failure.
Settle(j) ==
  /\ at[j] = "settle"
  /\ reservation' = [reservation EXCEPT ![j] = "settled"]
  /\ failed' \in {failed} \cup (IF budgetStopped[TurnOf[j]] THEN {failed \ {j}} ELSE {})
  /\ Release(j)
  /\ Goto(j, "result")
  /\ UNCHANGED <<lifecycle, open, signals, recorded, ledgers, permits, closures>>

RecordResult(j) ==
  /\ at[j] = "result"
  /\ recorded' = [recorded EXCEPT ![j] = @ \cup {"result"}]
  /\ Goto(j, "close")
  /\ UNCHANGED <<lifecycle, open, scheduler, reservation, signals, failed, ledgers, permits, closures>>

\* The driver panics, or its future is dropped, and with it the JobGuard.
Unwind(j) ==
  /\ "unwind" \in Faults
  /\ at[j] \notin {"none", "close", "remove", "done"}
  /\ failed' = failed \cup {j}
  /\ Goto(j, "close")
  /\ UNCHANGED <<lifecycle, open, scheduler, reservation, signals, recorded, ledgers, permits, closures>>

\* Mutant: a job that fails early leaves its reservation open.
SettledByDriver(j) == UNCHANGED reservation

SettledByGuard(j) == reservation' = [reservation EXCEPT ![j] = "settled"]

\* JobGuard::complete or drop: settle, then release_execution in complete_job.
Close(j) ==
  /\ at[j] = "close"
  /\ SettledByGuard(j)
  /\ Release(j)
  /\ Goto(j, "remove")
  /\ UNCHANGED <<lifecycle, open, signals, evidence, ledgers, permits, closures>>

\* Mutant: the turn is not told of the failure.
LedgerOfRuntime(j) ==
  /\ unack' = IF j \in failed THEN unack \cup {j} ELSE unack
  /\ UNCHANGED ledger

\* The failure goes to the turn and to the runtime.
RecordFailure(j) ==
  IF j \in failed
  THEN /\ unack' = unack \cup {j}
       /\ ledger' = [ledger EXCEPT ![TurnOf[j]] = @ \cup {j}]
  ELSE UNCHANGED ledgers

\* notify_one of the two drained conditions: a permit is kept.
NotifyDrained(j) ==
  /\ drained' = (drained \/ Inflight = {j})
  /\ turnDrained' = [turnDrained EXCEPT ![TurnOf[j]] = @ \/ Inflight \cap JobsOf(TurnOf[j]) = {j}]

\* The rest of complete_job, under both locks, and the answer to the caller.
LeaveTables(j) ==
  /\ at[j] = "remove"
  /\ RecordFailure(j)
  /\ phase' = [phase EXCEPT ![j] = "gone"]
  /\ NotifyDrained(j)
  /\ Goto(j, "done")
  /\ UNCHANGED <<lifecycle, open, queue, occupied, wake, reservation, signals, evidence, closures>>

\* What a driver does of itself; the answer of the provider is not its own.
Driver(j) ==
  \/ RecordInterrupted(j) \/ RecordRequest(j) \/ CheckSlot(j) \/ AwaitSlot(j)
  \/ Preflight(j) \/ StartProvider(j) \/ CallInterrupted(j)
  \/ Settle(j) \/ RecordResult(j) \/ Close(j) \/ LeaveTables(j)

-----------------------------------------------------------------------------
(***************************************************************************)
(* The closure of a turn: TurnState::finish.                               *)
(***************************************************************************)
\* Where the waiters of the two drained conditions go on when notified.
Rechecked == "check"

FinishBegin(t, mode) ==
  /\ open[t] = "open" /\ finisher[t] = "idle"
  /\ open' = [open EXCEPT ![t] = "closed"]
  /\ cancelled' = [j \in Jobs |-> cancelled[j] \/ (mode = "Cancel" /\ j \in Inflight \cap JobsOf(t))]
  /\ finisher' = [finisher EXCEPT ![t] = "check"]
  /\ UNCHANGED <<lifecycle, scheduler, at, reservation, turnCancelled, budgetStopped, expired, dropped,
                 evidence, ledgers, permits, stopper, told>>

FinishCheck(t) ==
  /\ finisher[t] = "check"
  /\ finisher' = [finisher EXCEPT ![t] = IF Inflight \cap JobsOf(t) = {} THEN "take" ELSE "await"]
  /\ UNCHANGED <<lifecycle, open, scheduler, at, reservation, signals, evidence, ledgers, permits, stopper, told>>

FinishAwait(t) ==
  /\ finisher[t] = "await" /\ turnDrained[t]
  /\ turnDrained' = [turnDrained EXCEPT ![t] = FALSE]
  /\ finisher' = [finisher EXCEPT ![t] = Rechecked]
  /\ UNCHANGED <<lifecycle, open, scheduler, at, reservation, signals, evidence, ledgers, drained, stopper, told>>

\* The failures leave the turn; what finish returns is decided.
FinishTake(t) ==
  /\ finisher[t] = "take"
  /\ told' = [told EXCEPT !.finish = @ \cup ledger[t]]
  /\ ledger' = [ledger EXCEPT ![t] = {}]
  /\ finisher' = [finisher EXCEPT ![t] = "acknowledge"]
  /\ UNCHANGED <<lifecycle, open, scheduler, at, reservation, signals, evidence, unack, permits, stopper>>

FinishAcknowledge(t) ==
  /\ finisher[t] = "acknowledge"
  /\ unack' = unack \ JobsOf(t)
  /\ finisher' = [finisher EXCEPT ![t] = "done"]
  /\ UNCHANGED <<lifecycle, open, scheduler, at, reservation, signals, evidence, ledger, permits, stopper, told>>

\* The future is dropped at its await: nobody will see what it would return.
FinishDrop(t) ==
  /\ "abandon" \in Faults
  /\ finisher[t] = "await"
  /\ finisher' = [finisher EXCEPT ![t] = "abandoned"]
  /\ UNCHANGED <<lifecycle, open, scheduler, at, reservation, signals, evidence, ledgers, permits, stopper, told>>

Finish(t) == FinishCheck(t) \/ FinishAwait(t) \/ FinishTake(t) \/ FinishAcknowledge(t)

-----------------------------------------------------------------------------
(***************************************************************************)
(* The closure of the runtime: RuntimeState::stop.                         *)
(***************************************************************************)
CancelAll == cancelled' = [j \in Jobs |-> cancelled[j] \/ j \in Inflight]

StopBegin ==
  /\ lifecycle \in {"Constructed", "Running"} /\ stopper = "idle"
  /\ lifecycle' = "Stopping"
  /\ CancelAll
  /\ stopper' = "check"
  /\ UNCHANGED <<open, scheduler, at, reservation, turnCancelled, budgetStopped, expired, dropped,
                 evidence, ledgers, permits, finisher, told>>

StopCheck ==
  /\ stopper = "check"
  /\ stopper' = IF Inflight = {} THEN "take" ELSE "await"
  /\ UNCHANGED <<lifecycle, open, scheduler, at, reservation, signals, evidence, ledgers, permits, finisher, told>>

StopAwait ==
  /\ stopper = "await" /\ drained
  /\ drained' = FALSE
  /\ stopper' = Rechecked
  /\ UNCHANGED <<lifecycle, open, scheduler, at, reservation, signals, evidence, ledgers, turnDrained, finisher, told>>

StopTake ==
  /\ stopper = "take"
  /\ lifecycle' = "Stopped"
  /\ told' = [told EXCEPT !.stop = unack]
  /\ unack' = {}
  /\ stopper' = "done"
  /\ UNCHANGED <<open, scheduler, at, reservation, signals, evidence, ledger, permits, finisher>>

Stop == StopCheck \/ StopAwait \/ StopTake

\* A stopped runtime whose turns are closed does nothing more.
Terminated ==
  /\ lifecycle = "Stopped"
  /\ \A t \in Turns : finisher[t] \in {"idle", "done", "abandoned"}
  /\ UNCHANGED vars

Environment ==
  \/ \E t \in Turns : CancelTurn(t) \/ StopBudget(t)
  \/ \E j \in Jobs : Expire(j) \/ DropConsumer(j)

Next ==
  \/ Start \/ StopBegin \/ Stop \/ Environment \/ Terminated
  \/ \E t \in Turns : \/ BindTurn(t) \/ Finish(t) \/ FinishDrop(t)
                      \/ \E mode \in {"Drain", "Cancel"} : FinishBegin(t, mode)
  \/ \E j \in Jobs : Admit(j) \/ Driver(j) \/ ProviderEnds(j) \/ RecordFailed(j) \/ Unwind(j)

Spec == Init /\ [][Next]_vars

-----------------------------------------------------------------------------
(***************************************************************************)
(* Properties.                                                             *)
(***************************************************************************)
Phases == {"none", "Queued", "Preparing", "Executing", "Cleaning", "gone"}
Places == {"none", "record", "detached", "check", "asleep", "preflight", "enter", "call",
           "settle", "result", "close", "remove", "done"}

\* Every variable keeps the shape its Rust type gives it; occupied, an usize
\* that release_execution decrements, never goes below zero.
TypeOK ==
  /\ lifecycle \in {"Constructed", "Running", "Stopping", "Stopped"}
  /\ phase \in [Jobs -> Phases] /\ queue \in Seq(Jobs) /\ occupied \in Nat
  /\ wake \in [Jobs -> BOOLEAN]
  /\ open \in [Turns -> {"unbound", "open", "closed"}]
  /\ at \in [Jobs -> Places]
  /\ reservation \in [Jobs -> {"none", "reserved", "started", "settled"}]
  /\ cancelled \in [Jobs -> BOOLEAN] /\ expired \in [Jobs -> BOOLEAN]
  /\ turnCancelled \in [Turns -> BOOLEAN] /\ budgetStopped \in [Turns -> BOOLEAN]
  /\ dropped \subseteq Streams
  /\ recorded \in [Jobs -> SUBSET {"request", "result"}] /\ failed \subseteq Jobs
  /\ unack \subseteq Jobs /\ ledger \in [Turns -> SUBSET Jobs]
  /\ drained \in BOOLEAN /\ turnDrained \in [Turns -> BOOLEAN]
  /\ stopper \in {"idle", "check", "await", "take", "done"}
  /\ finisher \in [Turns -> {"idle", "check", "await", "take", "acknowledge", "done", "abandoned"}]
  /\ told \in [finish : SUBSET Jobs, stop : SUBSET Jobs]

\* Slots are counted right through every release, and never overcommitted; a
\* job is in the queue once if it is Queued, and else not at all.
SlotsExact ==
  /\ occupied = Cardinality({j \in Jobs : phase[j] \in {"Preparing", "Executing"}})
  /\ occupied <= MaxConcurrency
  /\ ToSet(queue) = {j \in Jobs : phase[j] = "Queued"}
  /\ Cardinality(ToSet(queue)) = Len(queue)

\* While the runtime runs, no job waits for a slot that is free, whichever of
\* the jobs before it was cancelled, expired or abandoned in the queue.
NoIdleSlot == lifecycle = "Running" /\ queue # <<>> => occupied = MaxConcurrency

\* A provider is called for no more jobs than there are slots, and for each of
\* them the request is durable and the attempt is charged.
CallsAccounted ==
  /\ Cardinality({j \in Jobs : at[j] = "call"}) <= MaxConcurrency
  /\ \A j \in Jobs : at[j] = "call" =>
       phase[j] = "Executing" /\ "request" \in recorded[j] /\ reservation[j] = "started"

\* The jobs before i in the queue q.
Ahead(q, i) == {q[k] : k \in {n \in DOMAIN q : \E m \in DOMAIN q : n < m /\ q[m] = i}}

\* A step in which nobody gets before a job that waits on, and a slot goes only
\* to those already before it.
InTurn ==
  \A i \in Jobs : phase[i] = "Queued" /\ phase'[i] = "Queued" =>
    /\ Ahead(queue', i) \subseteq Ahead(queue, i)
    /\ \A j \in Jobs : phase[j] # "Preparing" /\ phase'[j] = "Preparing" => j \in Ahead(queue, i)

\* A finish that returns no failure speaks for every job of its turn: both of
\* its records are durable.
FinishTruthful ==
  \A t \in Turns : finisher[t] = "done" =>
    \A j \in JobsOf(t) : phase[j] # "none" /\ j \notin told.finish => recorded[j] = {"request", "result"}

\* A closure failure is kept until finish or stop has returned it, also when
\* the future of finish is dropped or the two run at once.
FailureKept ==
  \A j \in Jobs : j \in failed /\ phase[j] = "gone" => j \in unack \cup told.finish \cup told.stop

\* When a turn has drained, so has its budget: no reservation is left open for
\* finish_owned to trip over.
BudgetDrained ==
  \A t \in Turns : finisher[t] \in {"take", "acknowledge", "done"} =>
    \A j \in JobsOf(t) : reservation[j] \in {"none", "settled"}

\* A stopped runtime has no job, no slot in use and no provider call left.
StoppedQuiet == lifecycle = "Stopped" => Inflight = {} /\ occupied = 0 /\ \A j \in Jobs : at[j] \in {"none", "done"}

\* Slots and queue, through every release, timeout and abandonment.
SlotsRight == TypeOK /\ SlotsExact /\ NoIdleSlot /\ CallsAccounted

\* What finish and the budget of its turn, and the owner of the runtime, rely on.
DrainedQuiet == BudgetDrained /\ StoppedQuiet

\* What finish and stop return.
ClosureTruthful == FinishTruthful /\ FailureKept

\* A job that waits is not overtaken, whatever happens to those before it and
\* whether the others come by release or by admission.
NoOvertaking == [][InTurn]_vars

-----------------------------------------------------------------------------
(***************************************************************************)
(* Liveness.  Drivers are scheduled and appends to the Session end; the    *)
(* provider need never answer.                                             *)
(***************************************************************************)
FairDrivers == \A j \in Jobs : WF_vars(Driver(j))

FairClosures == WF_vars(Stop) /\ \A t \in Turns : WF_vars(Finish(t))

\* Deadlines pass.
DeadlinesPass == \A j \in Jobs : WF_vars(Expire(j))

\* stop returns although providers hang and jobs are queued.
StopCompletes == lifecycle = "Stopping" ~> lifecycle = "Stopped"

\* A job that is given a slot is woken and uses it, or gives it back: no slot
\* is lost to a driver that sleeps, though no deadline or signal comes.
SlotUsed == \A j \in Jobs : phase[j] = "Preparing" ~> phase[j] # "Preparing"

\* finish returns, whether it cancels the jobs of its turn or only drains them.
FinishCompletes == \A t \in Turns : finisher[t] = "check" ~> finisher[t] = "done"

\* A job that was admitted is closed and answered, though providers hang and
\* slots are taken.
JobCloses == \A j \in Jobs : at[j] = "record" ~> at[j] = "done"
=============================================================================
