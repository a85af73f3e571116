---------------------------- MODULE ToolRuntime ----------------------------
(***************************************************************************)
(* The canonical tool runtime (crates/tools/runtime): the admission of     *)
(* calls, the driver task of each, and the closure of a turn (finish) and  *)
(* of the runtime (stop).  Unlike the model runtime it has no queue: a     *)
(* call is admitted or refused at once.                                    *)
(*                                                                         *)
(* at[j] names where the call or the driver of job j is:                   *)
(*   call       past the checks of TurnState::call, before its admission   *)
(*   record     awaiting the append of its Call                            *)
(*   check      interruption, grant and arguments                          *)
(*   guard      awaiting the guards        approve   awaiting approval     *)
(*   ready      interruption again, then the start of its reservation      *)
(*   body       awaiting the body of the tool                              *)
(*   settle     its outcome decided, its reservation still open            *)
(*   result     awaiting the append of its Result                          *)
(*   close      in JobGuard::complete                                      *)
(***************************************************************************)
EXTENDS Naturals, FiniteSets

CONSTANTS
  Jobs,         \* calls; each is made at most once
  Turns,        \* bound turns
  TurnOf,       \* the turn of each call
  MaxInFlight,  \* max_in_flight
  Signals,      \* what may interrupt calls, of cancel, timeout, budget, stop
  Faults        \* what may go wrong, of recording, unwind, abandon

ASSUME TurnOfAssumption == TurnOf \in [Jobs -> Turns]
ASSUME ConfigAssumption == MaxInFlight \in Nat \ {0}
ASSUME DisturbanceAssumption == /\ Signals \subseteq {"cancel", "timeout", "budget", "stop"}
                                /\ Faults \subseteq {"recording", "unwind", "abandon"}

VARIABLES
  lifecycle,     \* RuntimeControl.lifecycle
  open,          \* TurnControl.open
  jobs,          \* RuntimeControl.jobs, whose share of a turn is TurnControl.jobs
  at,            \* where each call is
  entered,       \* the calls whose body was entered
  outcome,       \* the semantic outcome of each call
  reservation,   \* its budget reservation
  log,           \* its records in the Session
  cancelled, expired,            \* of each call
  turnCancelled, budgetStopped,  \* of each turn
  failed,        \* the calls that end in a closure failure
  unack, ledger, \* unacknowledged_failures; TurnControl.failures
  drained,       \* the permits of RuntimeState.drained and TurnState.drained
  stopper, finisher,             \* where stop is, and finish of each turn
  told           \* the failures stop and finish have returned

signals == <<cancelled, expired, turnCancelled, budgetStopped>>
driver == <<at, entered, outcome, reservation, log, failed>>
closures == <<stopper, finisher, told>>
vars == <<lifecycle, open, jobs, driver, signals, unack, ledger, drained, closures>>

JobsOf(t) == {j \in Jobs : TurnOf[j] = t}

Init ==
  /\ lifecycle = "Constructed" /\ open = [t \in Turns |-> FALSE] /\ jobs = {}
  /\ at = [j \in Jobs |-> "none"] /\ entered = {} /\ outcome = [j \in Jobs |-> "none"]
  /\ reservation = [j \in Jobs |-> "none"] /\ log = [j \in Jobs |-> {}]
  /\ cancelled = [j \in Jobs |-> FALSE] /\ expired = [j \in Jobs |-> FALSE]
  /\ turnCancelled = [t \in Turns |-> FALSE] /\ budgetStopped = [t \in Turns |-> FALSE]
  /\ failed = {} /\ unack = {} /\ ledger = [t \in Turns |-> {}]
  /\ drained = {} /\ stopper = "idle" /\ finisher = [t \in Turns |-> "unbound"]
  /\ told = {}

-----------------------------------------------------------------------------
(***************************************************************************)
(* The runtime, its turns, and admission.                                  *)
(***************************************************************************)
Start ==
  /\ lifecycle = "Constructed"
  /\ lifecycle' = "Running"
  /\ UNCHANGED <<open, jobs, driver, signals, unack, ledger, drained, closures>>

BindTurn(t) ==
  /\ finisher[t] = "unbound"
  /\ ~turnCancelled[t] /\ ~budgetStopped[t] /\ lifecycle = "Running"
  /\ open' = [open EXCEPT ![t] = TRUE] /\ finisher' = [finisher EXCEPT ![t] = "idle"]
  /\ UNCHANGED <<lifecycle, jobs, driver, signals, unack, ledger, drained, stopper, told>>

\* TurnState::call up to its admission.  Malformed calls leave no trace.
Call(j) ==
  /\ at[j] = "none" /\ finisher[TurnOf[j]] # "unbound"
  /\ ~turnCancelled[TurnOf[j]] /\ ~budgetStopped[TurnOf[j]]
  /\ at' = [at EXCEPT ![j] = "call"]
  /\ UNCHANGED <<lifecycle, open, jobs, entered, outcome, reservation, log, failed, signals, unack,
                 ledger, drained, closures>>

Admissible(j) ==
  /\ lifecycle = "Running" /\ Cardinality(jobs) < MaxInFlight
  /\ open[TurnOf[j]] /\ ~budgetStopped[TurnOf[j]]

\* RuntimeState::admit, under both locks.
Admit(j) ==
  /\ at[j] = "call"
  /\ \/ /\ Admissible(j)
        /\ jobs' = jobs \cup {j}
        /\ reservation' = [reservation EXCEPT ![j] = "reserved"]
        /\ at' = [at EXCEPT ![j] = "record"]
     \/ /\ ~Admissible(j)
        /\ at' = [at EXCEPT ![j] = "refused"] /\ UNCHANGED <<jobs, reservation>>
  /\ UNCHANGED <<lifecycle, open, entered, outcome, log, failed, signals, unack, ledger, drained,
                 closures>>

-----------------------------------------------------------------------------
(***************************************************************************)
(* Signals.                                                                *)
(***************************************************************************)
CancelTurn(t) ==
  /\ "cancel" \in Signals /\ turnCancelled' = [turnCancelled EXCEPT ![t] = TRUE]
  /\ UNCHANGED <<lifecycle, open, jobs, driver, cancelled, expired, budgetStopped, unack, ledger,
                 drained, closures>>

StopBudget(t) ==
  /\ "budget" \in Signals /\ budgetStopped' = [budgetStopped EXCEPT ![t] = TRUE]
  /\ UNCHANGED <<lifecycle, open, jobs, driver, cancelled, expired, turnCancelled, unack, ledger,
                 drained, closures>>

Expire(j) ==
  /\ "timeout" \in Signals /\ j \in jobs /\ expired' = [expired EXCEPT ![j] = TRUE]
  /\ UNCHANGED <<lifecycle, open, jobs, driver, cancelled, turnCancelled, budgetStopped, unack,
                 ledger, drained, closures>>

\* interruption, and the signals of await_control.
Interrupted(j) ==
  (IF budgetStopped[TurnOf[j]] THEN {"budget"} ELSE {})
    \cup (IF cancelled[j] \/ turnCancelled[TurnOf[j]] THEN {"cancelled"} ELSE {})
    \cup (IF expired[j] THEN {"timeout"} ELSE {})

-----------------------------------------------------------------------------
(***************************************************************************)
(* run_operation: the driver of an admitted call.                          *)
(***************************************************************************)
Go(j, to) == at' = [at EXCEPT ![j] = to]

Decide(j, o) == outcome' = [outcome EXCEPT ![j] = o] /\ Go(j, "settle")

\* What a step of a driver leaves to others.
Rest == UNCHANGED <<lifecycle, open, jobs, cancelled, expired, turnCancelled, unack, ledger,
                    drained, closures>>

\* cancel_before_start of a reservation; the attempt stays charged.
Returned(j) == reservation' = [reservation EXCEPT ![j] = "returned"]

\* Mutant: the body is prepared while the append is still under way.
RecordCallLazily(j) ==
  /\ at[j] = "record"
  /\ Go(j, "check")
  /\ UNCHANGED <<log, reservation, failed, entered, outcome, budgetStopped>> /\ Rest

\* The append of the Call is confirmed, or it fails, whether it is durable or not;
\* an event outside the budget's binding stops the budget, too.
RecordCall(j) ==
  /\ at[j] = "record"
  /\ \/ /\ log' = [log EXCEPT ![j] = @ \cup {"call"}] /\ Go(j, "check")
        /\ UNCHANGED <<reservation, failed, budgetStopped>>
     \/ /\ "recording" \in Faults
        /\ log' \in {log, [log EXCEPT ![j] = @ \cup {"call"}]}
        /\ budgetStopped' \in {budgetStopped, [budgetStopped EXCEPT ![TurnOf[j]] = TRUE]}
        /\ Returned(j) /\ failed' = failed \cup {j} /\ Go(j, "close")
  /\ UNCHANGED <<entered, outcome>> /\ Rest

\* The call is not granted, not registered, or its arguments are invalid.
Check(j) ==
  /\ at[j] = "check"
  /\ \/ \E o \in Interrupted(j) : Decide(j, o)
     \/ Interrupted(j) = {} /\ (Decide(j, "refused") \/ (Go(j, "guard") /\ UNCHANGED outcome))
  /\ UNCHANGED <<log, reservation, failed, entered, budgetStopped>> /\ Rest

\* await_control: a signal interrupts the await of whatever it awaits.
Interrupt(j) ==
  /\ at[j] \in {"guard", "approve", "body"}
  /\ \E o \in Interrupted(j) : Decide(j, o)
  /\ UNCHANGED <<log, reservation, failed, entered, budgetStopped>> /\ Rest

\* The guards, or the authorizer, deny, fail or let the call pass.
Answer(j) ==
  /\ at[j] \in {"guard", "approve"}
  /\ \/ Decide(j, "refused")
     \/ Go(j, IF at[j] = "guard" THEN "approve" ELSE "ready") /\ UNCHANGED outcome
  /\ UNCHANGED <<log, reservation, failed, entered, budgetStopped>> /\ Rest

\* A tool that asks for no approval.
NoApproval(j) ==
  /\ at[j] = "approve" /\ Go(j, "ready")
  /\ UNCHANGED <<log, reservation, failed, entered, outcome, budgetStopped>> /\ Rest

\* The last look at the signals, mark_started, and the body is entered.  A panic of
\* the body on the spot is one of its ends.
Enter(j) ==
  /\ at[j] = "ready"
  /\ \/ \E o \in Interrupted(j) : Decide(j, o) /\ UNCHANGED <<reservation, entered>>
     \/ /\ Interrupted(j) = {}
        /\ reservation' = [reservation EXCEPT ![j] = "started"]
        /\ entered' = entered \cup {j} /\ Go(j, "body") /\ UNCHANGED outcome
  /\ UNCHANGED <<log, failed, budgetStopped>> /\ Rest

\* The body answers, fails, panics, or answers more than its output limit, all of
\* which is reserved.
BodyEnds(j) ==
  /\ at[j] = "body"
  /\ \E o \in {"succeeded", "failed", "oversized"} : Decide(j, o)
  /\ UNCHANGED <<log, reservation, failed, entered, budgetStopped>> /\ Rest

\* OperationBudget::finish: an output over what was reserved breaches the budget,
\* and that replaces the outcome; so does a ledger that is sealed or frozen.
Settle(j) ==
  /\ at[j] = "settle" /\ Go(j, "result")
  /\ reservation' = [reservation EXCEPT ![j] = IF @ = "started" THEN "settled" ELSE "returned"]
  /\ \/ /\ outcome[j] = "oversized"
        /\ outcome' = [outcome EXCEPT ![j] = "budget"]
        /\ budgetStopped' = [budgetStopped EXCEPT ![TurnOf[j]] = TRUE]
     \/ /\ budgetStopped[TurnOf[j]] /\ outcome' = [outcome EXCEPT ![j] = "budget"]
        /\ UNCHANGED budgetStopped
     \/ outcome[j] # "oversized" /\ UNCHANGED <<outcome, budgetStopped>>
  /\ UNCHANGED <<log, entered, failed>> /\ Rest

RecordResult(j) ==
  /\ at[j] = "result" /\ Go(j, "close")
  /\ \/ log' = [log EXCEPT ![j] = @ \cup {"result"}] /\ UNCHANGED <<failed, budgetStopped>>
     \/ /\ "recording" \in Faults /\ failed' = failed \cup {j}
        /\ log' \in {log, [log EXCEPT ![j] = @ \cup {"result"}]}
        /\ budgetStopped' \in {budgetStopped, [budgetStopped EXCEPT ![TurnOf[j]] = TRUE]}
  /\ UNCHANGED <<reservation, entered, outcome>> /\ Rest

\* complete_job, under both locks.
Complete(j, failures) ==
  /\ failed' = failures
  /\ jobs' = jobs \ {j}
  /\ drained' = drained \cup (IF jobs' = {} THEN {"runtime"} ELSE {})
                        \cup (IF jobs' \cap JobsOf(TurnOf[j]) = {} THEN {TurnOf[j]} ELSE {})
  /\ at' = [at EXCEPT ![j] = "done"]
  /\ unack' = IF j \in failures THEN unack \cup {j} ELSE unack
  /\ ledger' = IF j \in failures THEN [ledger EXCEPT ![TurnOf[j]] = @ \cup {j}] ELSE ledger

Close(j) ==
  /\ at[j] = "close"
  /\ Complete(j, failed)
  /\ UNCHANGED <<lifecycle, open, entered, outcome, reservation, log, signals, closures>>

\* The driver panics or is dropped by its executor; JobGuard settles and closes.
Unwind(j) ==
  /\ "unwind" \in Faults /\ at[j] \in {"record", "check", "guard", "approve", "ready", "body",
                                        "settle", "result"}
  /\ reservation' = [reservation EXCEPT ![j] = CASE @ = "started" -> "settled"
                                                 [] @ = "reserved" -> "returned"
                                                 [] OTHER -> @]
  /\ Complete(j, failed \cup {j})
  /\ UNCHANGED <<lifecycle, open, entered, outcome, log, signals, closures>>

-----------------------------------------------------------------------------
(***************************************************************************)
(* finish of a turn, and stop.                                             *)
(***************************************************************************)
FinishBegin(t, mode) ==
  /\ finisher[t] = "idle"
  /\ open' = [open EXCEPT ![t] = FALSE]
  /\ cancelled' = [j \in Jobs |-> cancelled[j] \/ (mode = "Cancel" /\ j \in jobs \cap JobsOf(t))]
  /\ finisher' = [finisher EXCEPT ![t] = "look"]
  /\ UNCHANGED <<lifecycle, jobs, driver, expired, turnCancelled, budgetStopped, unack, ledger,
                 drained, stopper, told>>

\* One turn of its loop: look, await the permit, and once drained take the
\* failures and acknowledge them without another await.
Finish(t) ==
  /\ \/ /\ finisher[t] = "look" /\ jobs \cap JobsOf(t) # {}
        /\ finisher' = [finisher EXCEPT ![t] = "await"]
        /\ UNCHANGED <<unack, ledger, drained, told>>
     \/ /\ finisher[t] = "await" /\ t \in drained
        /\ finisher' = [finisher EXCEPT ![t] = "look"] /\ drained' = drained \ {t}
        /\ UNCHANGED <<unack, ledger, told>>
     \/ /\ finisher[t] = "look" /\ jobs \cap JobsOf(t) = {}
        /\ finisher' = [finisher EXCEPT ![t] = "take"] /\ told' = told \cup ledger[t]
        /\ ledger' = [ledger EXCEPT ![t] = {}]
        /\ UNCHANGED <<unack, drained>>
     \/ /\ finisher[t] = "take"
        /\ finisher' = [finisher EXCEPT ![t] = "done"] /\ unack' = unack \ JobsOf(t)
        /\ UNCHANGED <<ledger, drained, told>>
  /\ UNCHANGED <<lifecycle, open, jobs, driver, signals, stopper>>

\* Mutant: the failures are acknowledged before the turn has drained.
FinishDropAcknowledged(t) ==
  /\ "abandon" \in Faults /\ finisher[t] = "await"
  /\ finisher' = [finisher EXCEPT ![t] = "abandoned"] /\ ledger' = [ledger EXCEPT ![t] = {}]
  /\ unack' = unack \ JobsOf(t)
  /\ UNCHANGED <<lifecycle, open, jobs, driver, signals, drained, stopper, told>>

\* The future of finish is dropped at its await.
FinishDrop(t) ==
  /\ "abandon" \in Faults /\ finisher[t] = "await"
  /\ finisher' = [finisher EXCEPT ![t] = "abandoned"]
  /\ UNCHANGED <<lifecycle, open, jobs, driver, signals, unack, ledger, drained, stopper, told>>

\* Mutant: stop waits for the calls in flight without cancelling them.
StopBeginPatiently ==
  /\ "stop" \in Signals /\ stopper = "idle" /\ stopper' = "look" /\ lifecycle' = "Stopping"
  /\ UNCHANGED <<open, jobs, driver, signals, unack, ledger, drained, finisher, told>>

StopBegin ==
  /\ "stop" \in Signals /\ stopper = "idle" /\ stopper' = "look" /\ lifecycle' = "Stopping"
  /\ cancelled' = [j \in Jobs |-> cancelled[j] \/ j \in jobs]
  /\ UNCHANGED <<open, jobs, driver, expired, turnCancelled, budgetStopped, unack, ledger, drained,
                 finisher, told>>

Stop ==
  /\ \/ /\ stopper = "look" /\ jobs # {} /\ stopper' = "await"
        /\ UNCHANGED <<lifecycle, unack, drained, told>>
     \/ /\ stopper = "await" /\ "runtime" \in drained
        /\ stopper' = "look" /\ drained' = drained \ {"runtime"}
        /\ UNCHANGED <<lifecycle, unack, told>>
     \/ /\ stopper = "look" /\ jobs = {} /\ stopper' = "take" /\ UNCHANGED <<lifecycle, unack, drained, told>>
     \/ /\ stopper = "take" /\ stopper' = "done" /\ lifecycle' = "Stopped"
        /\ told' = told \cup unack /\ unack' = {} /\ UNCHANGED drained
  /\ UNCHANGED <<open, jobs, driver, signals, ledger, finisher>>

-----------------------------------------------------------------------------
Driver(j) ==
  \/ RecordCall(j) \/ Check(j) \/ Interrupt(j) \/ Enter(j) \/ Settle(j) \/ RecordResult(j)
  \/ Close(j)

Next ==
  \/ Start \/ StopBegin \/ Stop
  \/ \E t \in Turns : \/ BindTurn(t) \/ CancelTurn(t) \/ StopBudget(t) \/ Finish(t) \/ FinishDrop(t)
                      \/ \E mode \in {"Graceful", "Cancel"} : FinishBegin(t, mode)
  \/ \E j \in Jobs : \/ Call(j) \/ Admit(j) \/ Expire(j) \/ Driver(j) \/ Answer(j)
                     \/ NoApproval(j) \/ BodyEnds(j) \/ Unwind(j)

Spec == Init /\ [][Next]_vars

\* Drivers are scheduled, appends end; guards, authorizers and bodies need never answer.
Fairness ==
  /\ WF_vars(Stop)
  /\ \A j \in Jobs : WF_vars(Driver(j))
  /\ \A t \in Turns : WF_vars(Finish(t))

\* Deadlines pass.
DeadlinesPass == \A j \in Jobs : WF_vars(Expire(j))

-----------------------------------------------------------------------------
\* Types, and the limit of the calls in flight.
TypeOK ==
  /\ lifecycle \in {"Constructed", "Running", "Stopping", "Stopped"}
  /\ open \in [Turns -> BOOLEAN] /\ jobs \subseteq Jobs /\ Cardinality(jobs) <= MaxInFlight
  /\ at \in [Jobs -> {"none", "call", "refused", "record", "check", "guard", "approve", "ready",
                      "body", "settle", "result", "close", "done"}]
  /\ entered \subseteq Jobs
  /\ outcome \in [Jobs -> {"none", "refused", "budget", "cancelled", "timeout", "succeeded",
                           "failed", "oversized"}]
  /\ reservation \in [Jobs -> {"none", "reserved", "started", "settled", "returned"}]
  /\ log \in [Jobs -> SUBSET {"call", "result"}]
  /\ cancelled \in [Jobs -> BOOLEAN] /\ expired \in [Jobs -> BOOLEAN]
  /\ turnCancelled \in [Turns -> BOOLEAN] /\ budgetStopped \in [Turns -> BOOLEAN]
  /\ failed \subseteq Jobs /\ unack \subseteq Jobs /\ ledger \in [Turns -> SUBSET Jobs]
  /\ drained \subseteq Turns \cup {"runtime"} /\ told \subseteq Jobs
  /\ stopper \in {"idle", "look", "await", "take", "done"}
  /\ finisher \in [Turns -> {"unbound", "idle", "look", "await", "take", "done", "abandoned"}]

\* No body is entered before its Call is durable.
DurableBeforeBody == \A j \in entered : "call" \in log[j]

\* What recovery takes for not executed (inspect_tool_recovery) was never entered:
\* a call whose recorded outcome is a refusal may be made again whatever it does.
RefusedNeverRan == \A j \in Jobs : outcome[j] = "refused" => j \notin entered

\* The reservation of a body that was entered is never given back unused, also
\* when its driver unwinds at any point.
EnteredIsCharged == \A j \in entered : reservation[j] \in {"started", "settled"}

\* The three together: a body that ran is in the log and in the ledger, and one
\* that is said not to have run did not; no more of them run than may.
BodyAccounted ==
  /\ DurableBeforeBody /\ RefusedNeverRan /\ EnteredIsCharged
  /\ Cardinality(jobs) <= MaxInFlight

\* When a turn has drained nothing of it runs, and its budget holds no reservation.
TurnQuiet ==
  \A t \in Turns : finisher[t] \in {"take", "done"} =>
    \A j \in JobsOf(t) : /\ at[j] \in {"none", "call", "refused", "done"}
                         /\ reservation[j] \in {"none", "settled", "returned"}

\* A finish that names no failure of a call that was admitted speaks the truth: both
\* its records are durable, also those of a call that was cancelled.
FinishTruthful ==
  \A t \in Turns : finisher[t] = "done" =>
    \A j \in JobsOf(t) : at[j] = "done" /\ j \notin told => log[j] = {"call", "result"}

\* A closure failure is kept until finish or stop has returned it.
FailureKept == \A j \in failed : at[j] = "done" => j \in unack \cup told

\* The three together: what a closure says of its calls is so, and stays so.
ClosureTruthful == TurnQuiet /\ FinishTruthful /\ FailureKept

\* finish returns although guards, authorizers and bodies hang.
FinishCompletes == \A t \in Turns : finisher[t] = "look" ~> finisher[t] = "done"

\* stop returns although they hang, and no deadline passes.
StopCompletes == lifecycle = "Stopping" ~> lifecycle = "Stopped"
=============================================================================
