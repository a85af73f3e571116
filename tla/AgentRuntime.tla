---------------------------- MODULE AgentRuntime ----------------------------
(***************************************************************************)
(* The AgentRuntime (crates/runtime/agent) on one Session: the drivers     *)
(* that carry a turn from its admission to its settlement, the models and  *)
(* tools they close, the budget run and the durable claim they hold, the   *)
(* controllers that await them and the stop of the runtime.                *)
(*                                                                         *)
(* turn[t].at names the await its driver is at, in the order of            *)
(* drive_turn: begin, boundary, user, body, models, tools, message,        *)
(* report, terminal, settle; then finalize of finalize_durable, and send,  *)
(* leave of JobGuard::complete.  cleanup and prepare are not awaits, but   *)
(* the clock, or a holder of the budget, may step in before them.          *)
(*                                                                         *)
(* The Session is the one SessionCoordinator describes: an append fails    *)
(* and nothing was written, or fails and the Session answers nothing more. *)
(* The dispositions Completed, WaitingForInput and Checkpointed differ in  *)
(* no decision and are all "completed".                                    *)
(***************************************************************************)
EXTENDS SequencesExt, FiniteSets, Naturals

CONSTANTS
  Turns,        \* turns hosts may ask for, in one Session
  Durable,      \* those with a durable budget: they hold the claim of the log's start
  Capabilities, \* of "model" and "tool", those of the agent
  MaxInFlight,  \* max_in_flight
  MaxDetached,  \* MAX_DETACHED_FAILURES
  MaxWork,      \* bound: calls and emissions of a turn
  Faults        \* what may go wrong around the runtime, of AllFaults

\* absent, poison: the two ways an append fails.  invalid: a receipt for an
\* event that is not the one asked for.  foreign: the lease of another Session.
\* undrained: a capability that fails to close and leaves a reservation.
\* unwind: a provider that panics.  store: the exchange of a checkpoint fails.
\* clock: the clock goes backwards.  seal: the host seals the budget meanwhile.
\* late: the deadline may pass between its last check and the cleanup.
AllFaults == {"absent", "poison", "invalid", "foreign", "undrained", "unwind", "store",
              "clock", "seal", "late"}

ASSUME SetsAssumption ==
  Durable \subseteq Turns /\ Capabilities \subseteq {"model", "tool"} /\ Faults \subseteq AllFaults
ASSUME BoundsAssumption == MaxInFlight \in Nat /\ MaxDetached \in Nat /\ MaxWork \in Nat

VARIABLES
  lifecycle,  \* RuntimeLifecycleState
  jobs,       \* the table of jobs
  detached,   \* turns whose failure is in detached_closure_failures
  stopper,    \* the call of stop
  turn,       \* the driver of each turn
  budget,     \* the budget run of each turn
  controller, \* its TurnController and the channel to it
  log,        \* the Session's log
  holder,     \* the turn that has the Session's lease
  sick,       \* the Session answers nothing more
  checkpoint  \* the durable budget image

control == <<lifecycle, jobs, detached, stopper>>
session == <<log, holder, sick>>
vars == <<control, turn, budget, controller, session, checkpoint>>

Nobody == "nobody"
ASSUME NobodyAssumption == Nobody \notin Turns

Dispositions == {"completed", "cancelled", "failed"}

\* An event: its turn, its kind, and what a report or terminal event says.
Entry == [turn : Turns, kind : {"user", "work", "message", "report", "terminal"},
          says : Dispositions \cup {"budget", "none"}, drained : BOOLEAN]
Event(t, kind) == [turn |-> t, kind |-> kind, says |-> "none", drained |-> TRUE]
Terminal(t, d) == [Event(t, "terminal") EXCEPT !.says = d]

Awaits == {"begin", "boundary", "user", "body", "models", "tools", "cleanup", "message",
           "prepare", "report", "terminal", "settle", "finalize", "send", "leave", "undelivered"}

Receipts == {"none", "ok", "failed", "invalid"}

\* outcome: what wait returns.  ok: a report.  closed, unclosed: a TurnFailure.
\* unwound: nothing, the driver panicked.
Outcomes == {"none", "ok", "closed", "unclosed", "durability", "recovery", "refused", "budget",
             "unwound"}

Turn == [at : Awaits \cup {"idle", "gone"}, cancel : {"none", "caller", "runtime"},
         foreign : BOOLEAN, bound : SUBSET Capabilities, busy : SUBSET Capabilities,
         broken : SUBSET Capabilities, intent : Dispositions \cup {"none"},
         says : Dispositions \cup {"budget", "none"},
         message : Receipts, report : Receipts, terminal : Receipts,
         hooks : {"none", "started"} \cup Dispositions, outcome : Outcomes]

NewTurn == [at |-> "idle", cancel |-> "none", foreign |-> FALSE, bound |-> {}, busy |-> {},
            broken |-> {}, intent |-> "none", says |-> "none", message |-> "none",
            report |-> "none", terminal |-> "none", hooks |-> "none", outcome |-> "none"]

\* run: open and consuming, cleaning, reported, then finished or abandoned.
Run == [run : {"none", "open", "cleaning", "reported", "finished", "abandoned"},
        stopped : BOOLEAN, sealed : BOOLEAN, pending : BOOLEAN]
NoRun == [run |-> "none", stopped |-> FALSE, sealed |-> FALSE, pending |-> FALSE]

Init ==
  /\ lifecycle = "constructed" /\ jobs = {} /\ detached = {}
  /\ stopper = [at |-> "idle", permit |-> FALSE, told |-> {}]
  /\ turn = [t \in Turns |-> NewTurn] /\ budget = [t \in Turns |-> NoRun]
  /\ controller = [t \in Turns |-> "none"]
  /\ log = <<>> /\ holder = Nobody /\ sick = FALSE
  /\ checkpoint = "claimed"

-----------------------------------------------------------------------------
(***************************************************************************)
(* The budget of a turn and its signals.                                   *)
(***************************************************************************)
At(t, place) == turn[t].at = place

\* check_active of BudgetScope.
Active(t) == budget[t].run \in {"open", "cleaning"} /\ ~budget[t].stopped /\ ~budget[t].sealed

\* wait_budget_stop or the cancellation is ready.
Signalled(t) == turn[t].cancel # "none" \/ ~Active(t)

\* A limit or a deadline; once the run cleans up only its clock can stop it.
StopBudget(t) ==
  /\ ~budget[t].stopped /\ ~budget[t].sealed
  /\ \/ budget[t].run = "open" /\ (At(t, "cleanup") => "late" \in Faults)
     \/ budget[t].run = "cleaning" /\ "clock" \in Faults
  /\ budget' = [budget EXCEPT ![t].stopped = TRUE]
  /\ UNCHANGED <<control, turn, controller, session, checkpoint>>

\* The host has a clone of the TaskBudget, and seals it.
Seal(t) ==
  /\ "seal" \in Faults /\ budget[t].run \in {"open", "cleaning", "reported"} /\ ~budget[t].sealed
  /\ budget' = [budget EXCEPT ![t].sealed = TRUE]
  /\ UNCHANGED <<control, turn, controller, session, checkpoint>>

\* BudgetRun::finish; a run that cannot finish is abandoned when it is dropped.
Finished(t) ==
  IF budget[t].sealed \/ budget[t].pending
  THEN [budget[t] EXCEPT !.run = "abandoned", !.stopped = @ \/ ~budget[t].sealed]
  ELSE [budget[t] EXCEPT !.run = "finished"]
Abandoned(t) == [budget[t] EXCEPT !.run = "abandoned", !.stopped = @ \/ ~budget[t].sealed]

\* request_cancel: the first reason stays.
Requested(t, reason) ==
  IF turn[t].cancel = "none" THEN [turn[t] EXCEPT !.cancel = reason] ELSE turn[t]

CancelTurn(t) ==
  /\ t \in jobs /\ turn[t].cancel = "none"
  /\ turn' = [turn EXCEPT ![t] = Requested(t, "caller")]
  /\ UNCHANGED <<control, budget, controller, session, checkpoint>>

-----------------------------------------------------------------------------
(***************************************************************************)
(* Admission.                                                              *)
(***************************************************************************)
\* RuntimeState::start.
Start ==
  /\ lifecycle = "constructed"
  /\ lifecycle' = "running"
  /\ UNCHANGED <<jobs, detached, stopper, turn, budget, controller, session, checkpoint>>

\* start_turn; what it refuses changes nothing.
StartTurn(t) ==
  /\ lifecycle = "running" /\ At(t, "idle") /\ Cardinality(jobs) < MaxInFlight
  /\ jobs' = jobs \cup {t}
  /\ turn' = [turn EXCEPT ![t].at = "begin"]
  /\ budget' = [budget EXCEPT ![t].run = "open"]
  /\ controller' = [controller EXCEPT ![t] = "waiting"]
  /\ UNCHANGED <<lifecycle, detached, stopper, session, checkpoint>>

\* begin_turn fails, or is dropped for a signal.
NotAdmitted(t) ==
  /\ At(t, "begin") /\ (Signalled(t) \/ sick \/ "absent" \in Faults)
  /\ turn' = [turn EXCEPT ![t].at = "finalize",
                          ![t].outcome = IF budget[t].sealed THEN "budget" ELSE "refused"]
  /\ budget' = [budget EXCEPT ![t] = Finished(t)]
  /\ UNCHANGED <<control, controller, session, checkpoint>>

\* verify_history of the claim, whose boundary is the start of the log.
Verified(t) == t \in Durable => log = <<>>

\* A lease is delivered, bind_turn, verify_history and the hooks.
Admit(t) ==
  /\ At(t, "begin") /\ turn[t].cancel = "none" /\ ~budget[t].stopped /\ ~budget[t].sealed
  /\ \/ /\ holder = Nobody /\ ~sick
        /\ holder' = t
        /\ turn' = [turn EXCEPT ![t].at = IF Verified(t) THEN "user" ELSE "boundary",
                                ![t].hooks = IF Verified(t) THEN "started" ELSE "none"]
        /\ UNCHANGED budget
     \/ /\ "foreign" \in Faults
        /\ \/ turn' = [turn EXCEPT ![t].at = "user", ![t].hooks = "started", ![t].foreign = TRUE]
           \/ t \in Durable /\ turn' = [turn EXCEPT ![t].at = "boundary", ![t].foreign = TRUE]
        /\ budget' = [budget EXCEPT ![t].stopped = TRUE]
        /\ UNCHANGED holder
  /\ UNCHANGED <<control, controller, log, sick, checkpoint>>

\* Dropping or settling the lease; nothing of a foreign Session is modelled.
Release(t) == holder' = IF holder = t THEN Nobody ELSE holder

\* The turn is refused at its recovery boundary, and settled empty.
SettleBoundary(t) ==
  /\ At(t, "boundary")
  /\ Release(t)
  /\ budget' = [budget EXCEPT ![t] = Finished(t)]
  /\ turn' = [turn EXCEPT ![t].at = "finalize", ![t].outcome = "recovery"]
  /\ UNCHANGED <<control, controller, log, sick, checkpoint>>

-----------------------------------------------------------------------------
(***************************************************************************)
(* The body.                                                               *)
(***************************************************************************)
\* SharedTurn::append, with the receipt r.
Write(t, e, r) ==
  LET written == IF turn[t].foreign THEN log ELSE Append(log, e) IN
    \/ r = "ok" /\ ~sick /\ log' = written /\ UNCHANGED sick
    \/ r = "failed" /\ (sick \/ "absent" \in Faults) /\ UNCHANGED <<log, sick>>
    \/ /\ r = "failed" /\ ~sick /\ "poison" \in Faults
       /\ sick' = TRUE /\ log' \in {log, written}
    \/ r = "invalid" /\ ~sick /\ "invalid" \in Faults /\ UNCHANGED <<log, sick>>

\* What becomes of the intent d after the checks that follow the body: a
\* signal overrules it.
Resolved(t, d) ==
  CASE ~Active(t) -> "failed"
    [] Active(t) /\ turn[t].cancel # "none" /\ d = "completed" -> "cancelled"
    [] OTHER -> d

\* The append of the user's message, and the binding of models and tools.
RecordUser(t) ==
  /\ At(t, "user")
  /\ \E r \in Receipts \ {"none"} :
       /\ IF turn[t].foreign THEN r = "ok" /\ UNCHANGED <<log, sick>> ELSE Write(t, Event(t, "user"), r)
       /\ \/ /\ r = "failed"
             /\ turn' = [turn EXCEPT ![t].at = "models", ![t].intent = "failed"]
          \/ /\ r # "failed" /\ Signalled(t)
             /\ turn' = [turn EXCEPT ![t].at = "models", ![t].intent = Resolved(t, "completed")]
          \/ /\ r # "failed" /\ ~Signalled(t)
             /\ turn' = [turn EXCEPT ![t].at = "body", ![t].bound = Capabilities]
          \/ \* a binding fails; models are bound before tools
             /\ r # "failed" /\ ~Signalled(t) /\ "absent" \in Faults
             /\ \E caps \in {{}, {"model"}} \cap SUBSET Capabilities :
                  /\ caps # Capabilities
                  /\ turn' = [turn EXCEPT ![t].at = "models", ![t].intent = "failed", ![t].bound = caps]
  /\ UNCHANGED <<control, budget, controller, holder, checkpoint>>

Works(t) == Cardinality({i \in DOMAIN log : log[i].turn = t /\ log[i].kind = "work"})

\* AgentContext::emit.
Emit(t) ==
  /\ At(t, "body") /\ Works(t) + Cardinality(turn[t].busy) < MaxWork
  /\ \E r \in Receipts \ {"none"} : Write(t, Event(t, "work"), r)
  /\ UNCHANGED <<control, turn, budget, controller, holder, checkpoint>>

\* The agent calls a model or a tool.
CallOut(t, cap) ==
  /\ At(t, "body") /\ cap \in turn[t].bound \ turn[t].busy
  /\ Works(t) + Cardinality(turn[t].busy) < MaxWork
  /\ turn' = [turn EXCEPT ![t].busy = @ \cup {cap}]
  /\ UNCHANGED <<control, budget, controller, session, checkpoint>>

\* The call ends and is recorded, whether or not the driver still runs: its
\* recorder shares the lease of the turn.
Record(t, cap) ==
  /\ cap \in turn[t].busy
  /\ \E r \in Receipts \ {"none"} :
       /\ Write(t, Event(t, "work"), r)
       /\ turn' = [turn EXCEPT ![t].busy = @ \ {cap},
                               ![t].broken = IF r = "ok" THEN @ ELSE @ \cup {cap}]
  /\ IF At(t, "gone") /\ turn[t].busy = {cap} THEN Release(t) ELSE UNCHANGED holder
  /\ UNCHANGED <<control, budget, controller, checkpoint>>

BodyEnds(t, d) ==
  /\ At(t, "body")
  /\ turn' = [turn EXCEPT ![t].at = "models", ![t].intent = Resolved(t, d)]
  /\ UNCHANGED <<control, budget, controller, session, checkpoint>>

\* run_agent_body: the agent returns, fails or panics, or a signal drops it.
BodyReturns(t) == \E d \in Dispositions : BodyEnds(t, d)
BodyInterrupted(t) == Signalled(t) /\ BodyEnds(t, "cancelled")

-----------------------------------------------------------------------------
(***************************************************************************)
(* The end of the turn.                                                    *)
(***************************************************************************)
\* finish of a capability: it drains, and tells what failed.
Close(t, cap, failed) ==
  /\ cap \notin turn[t].busy
  /\ \/ failed = (cap \in turn[t].broken) /\ UNCHANGED budget
     \/ /\ "undrained" \in Faults /\ cap \in turn[t].bound /\ failed
        /\ budget' = [budget EXCEPT ![t].pending = TRUE]

FinishModels(t) ==
  /\ At(t, "models")
  /\ \E failed \in BOOLEAN :
       /\ Close(t, "model", failed)
       /\ turn' = [turn EXCEPT ![t].at = "tools",
                               ![t].broken = IF failed THEN @ \cup {"model"} ELSE @]
  /\ UNCHANGED <<control, controller, session, checkpoint>>

\* The tools, the last look at the signals, and what failed to close.
FinishTools(t) ==
  /\ At(t, "tools")
  /\ \E failed \in BOOLEAN :
       LET broken == turn[t].broken \cup IF failed THEN {"tool"} ELSE {} IN
         /\ Close(t, "tool", failed)
         /\ turn' = [turn EXCEPT ![t].at = "cleanup", ![t].broken = broken,
                                 ![t].intent = Resolved(t, IF broken # {} THEN "failed" ELSE @)]
  /\ UNCHANGED <<control, controller, session, checkpoint>>

\* An error of the budget ends drive_turn where it is: lease and run are dropped.
ReturnEarly(t) ==
  /\ Release(t)
  /\ budget' = [budget EXCEPT ![t] = Abandoned(t)]
  /\ turn' = [turn EXCEPT ![t].at = "finalize", ![t].outcome = "budget"]
  /\ UNCHANGED <<log, sick>>

BeginCleanup(t) ==
  /\ At(t, "cleanup")
  /\ IF budget[t].sealed
     THEN ReturnEarly(t)
     ELSE /\ budget' = [budget EXCEPT ![t].run = "cleaning"]
          /\ turn' = [turn EXCEPT ![t].at = IF ~turn[t].foreign /\ turn[t].intent = "completed"
                                            THEN "message" ELSE "prepare"]
          /\ UNCHANGED session
  /\ UNCHANGED <<control, controller, checkpoint>>

\* The AssistantMessage, and the receipt that must be for it.
RecordMessage(t) ==
  /\ At(t, "message")
  /\ \E r \in Receipts \ {"none"} :
       /\ Write(t, Event(t, "message"), r)
       /\ turn' = [turn EXCEPT ![t].at = "prepare", ![t].message = r,
                               ![t].intent = IF r = "ok" THEN @ ELSE "failed"]
  /\ UNCHANGED <<control, budget, controller, holder, checkpoint>>

\* The TaskRunStop of the report.
StopReason(t, intent) == IF budget[t].stopped THEN "budget" ELSE intent

\* prepare_report; the run stays open when reservations are pending.
Prepare(t) ==
  /\ At(t, "prepare")
  /\ IF budget[t].sealed
     THEN ReturnEarly(t)
     ELSE LET intent == IF budget[t].pending THEN "failed" ELSE turn[t].intent IN
            /\ turn' = [turn EXCEPT ![t].at = "report", ![t].intent = intent,
                                    ![t].says = StopReason(t, intent)]
            /\ budget' = [budget EXCEPT ![t].run = IF budget[t].pending THEN @ ELSE "reported"]
            /\ UNCHANGED session
  /\ UNCHANGED <<control, controller, checkpoint>>

\* Mutant: a report that could not be recorded changes nothing.
RecordReportQuietly(t) ==
  /\ At(t, "report")
  /\ \E r \in Receipts \ {"none"} :
       /\ IF turn[t].foreign
          THEN r = "failed" /\ UNCHANGED <<log, sick>>
          ELSE Write(t, [Event(t, "report") EXCEPT !.says = turn[t].says,
                                                   !.drained = ~budget[t].pending], r)
       /\ turn' = [turn EXCEPT ![t].at = "terminal", ![t].report = r]
  /\ UNCHANGED <<control, budget, controller, holder, checkpoint>>

\* A foreign Session is not given the report.
RecordReport(t) ==
  /\ At(t, "report")
  /\ \E r \in Receipts \ {"none"} :
       /\ IF turn[t].foreign
          THEN r = "failed" /\ UNCHANGED <<log, sick>>
          ELSE Write(t, [Event(t, "report") EXCEPT !.says = turn[t].says,
                                                   !.drained = ~budget[t].pending], r)
       /\ turn' = [turn EXCEPT ![t].at = "terminal", ![t].report = r,
                               ![t].intent = IF r = "ok" THEN @ ELSE "failed"]
  /\ UNCHANGED <<control, budget, controller, holder, checkpoint>>

RecordTerminal(t) ==
  /\ At(t, "terminal")
  /\ \E r \in Receipts \ {"none"} :
       /\ Write(t, Terminal(t, turn[t].intent), r)
       /\ turn' = [turn EXCEPT ![t].at = "settle", ![t].terminal = r]
  /\ UNCHANGED <<control, budget, controller, holder, checkpoint>>

\* durable_evidence_error is None.
Evidence(t, settled) ==
  t \in Durable => /\ turn[t].message # "invalid" /\ turn[t].report = "ok"
                   /\ turn[t].terminal = "ok" /\ settled

\* What drive_turn returns once the lease is settled, or not.
Outcome(t, settled) ==
  CASE ~Evidence(t, settled) -> "durability"
    [] Evidence(t, settled) /\ turn[t].terminal # "failed" /\ settled ->
         IF turn[t].intent = "failed" THEN "closed" ELSE "ok"
    [] OTHER -> "unclosed"

\* TurnFailure::new refuses a terminal that is not the turn's, and is expected
\* not to.
Panics(t, settled) ==
  turn[t].terminal = "invalid" /\ (turn[t].intent = "failed" \/ ~settled)

\* Drop of JobGuard.  Calls in flight keep the lease they record with.
Unwound(t) ==
  /\ detached' = IF Cardinality(detached) < MaxDetached THEN detached \cup {t} ELSE detached
  /\ jobs' = jobs \ {t}
  /\ stopper' = [stopper EXCEPT !.permit = @ \/ jobs = {t}]
  /\ controller' = [controller EXCEPT ![t] = IF @ = "waiting" THEN "closed" ELSE @]

\* SharedTurn::settle, BudgetRun::finish, the finally hooks and the result.
Settle(t) ==
  /\ At(t, "settle")
  /\ Release(t)
  /\ \E settled \in BOOLEAN :
       /\ sick => ~settled
       /\ ~settled => sick \/ "absent" \in Faults
       /\ IF Panics(t, settled)
          THEN /\ Unwound(t)
               /\ budget' = [budget EXCEPT ![t] = Finished(t)]
               /\ turn' = [turn EXCEPT ![t].at = "gone", ![t].hooks = turn[t].intent,
                                       ![t].outcome = "unwound"]
          ELSE /\ budget' = [budget EXCEPT ![t] = Finished(t)]
               /\ turn' = [turn EXCEPT ![t].at = "finalize", ![t].hooks = turn[t].intent,
                                       ![t].outcome = Outcome(t, settled)]
               /\ UNCHANGED <<jobs, detached, stopper, controller>>
  /\ UNCHANGED <<lifecycle, log, sick, checkpoint>>

\* Elsewhere a driver unwinds only when a provider does.
Unwind(t) ==
  /\ "unwind" \in Faults
  /\ turn[t].at \in {"begin", "boundary", "user", "models", "tools", "message", "report",
                     "terminal", "settle", "finalize"}
  /\ Unwound(t)
  /\ IF turn[t].busy = {} THEN Release(t) ELSE UNCHANGED holder
  /\ budget' = [budget EXCEPT ![t] = IF At(t, "finalize") THEN @ ELSE Abandoned(t)]
  /\ turn' = [turn EXCEPT ![t].at = "gone", ![t].outcome = "unwound"]
  /\ UNCHANGED <<lifecycle, log, sick, checkpoint>>

-----------------------------------------------------------------------------
(***************************************************************************)
(* The durable barrier and the delivery.                                   *)
(***************************************************************************)
\* Where the events of the turn are in the log.
Committed(t) == {i \in DOMAIN log : log[i].turn = t}

\* Its last two events.
EndsWith(t, i, j) ==
  {i, j} \subseteq Committed(t) /\ i < j /\ \A k \in Committed(t) : k <= i \/ k = j

\* The last pair of validate_closed_tail.
Agree(report, terminal) ==
  IF terminal.says = "failed" THEN report.says \in {"failed", "budget"} ELSE report.says = terminal.says

\* Mutant: the settled events are not looked at.
SealableBlindly(t) == budget[t].run = "finished" /\ ~budget[t].sealed

\* commit_closed seals the budget and finds the turn closed in its events.
Sealable(t) ==
  /\ budget[t].run = "finished" /\ ~budget[t].sealed
  /\ \E i, j \in Committed(t) :
       /\ EndsWith(t, i, j)
       /\ {k \in Committed(t) : log[k].kind = "report"} = {i}
       /\ {k \in Committed(t) : log[k].kind = "terminal"} = {j}
       /\ log[i].drained /\ Agree(log[i], log[j])

\* finalize_durable.  Calls whose record failed leave evidence unconfirmed.
Finalize(t) ==
  /\ At(t, "finalize")
  /\ \/ /\ t \notin Durable
        /\ turn' = [turn EXCEPT ![t].at = "send"]
        /\ UNCHANGED checkpoint
     \/ /\ t \in Durable /\ turn[t].outcome \in {"ok", "closed"} /\ Sealable(t)
        /\ checkpoint' = "ready"
        /\ turn' = [turn EXCEPT ![t].at = "send"]
     \/ /\ t \in Durable
        /\ turn[t].outcome \in {"ok", "closed"} =>
             ~Sealable(t) \/ turn[t].broken # {} \/ "store" \in Faults
        /\ \/ UNCHANGED checkpoint
           \/ \* the exchange has happened, and its answer is lost
              /\ turn[t].outcome \in {"ok", "closed"} /\ Sealable(t) /\ "store" \in Faults
              /\ checkpoint' = "ready"
        /\ turn' = [turn EXCEPT ![t].at = "send",
                                ![t].outcome = IF @ = "recovery" THEN @ ELSE "durability"]
  /\ UNCHANGED <<control, budget, controller, session>>

\* JobGuard::complete, first the channel.
Send(t) ==
  /\ At(t, "send")
  /\ IF controller[t] = "waiting"
     THEN /\ controller' = [controller EXCEPT ![t] = "sent"]
          /\ turn' = [turn EXCEPT ![t].at = "leave"]
     ELSE /\ turn' = [turn EXCEPT ![t].at = "undelivered"]
          /\ UNCHANGED controller
  /\ UNCHANGED <<control, budget, session, checkpoint>>

Incomplete(t) == turn[t].outcome \in {"unclosed", "durability", "recovery"}

\* Then the table.
Leave(t) ==
  /\ turn[t].at \in {"leave", "undelivered"}
  /\ detached' = IF At(t, "undelivered") /\ Incomplete(t) /\ Cardinality(detached) < MaxDetached
                 THEN detached \cup {t} ELSE detached
  /\ jobs' = jobs \ {t}
  /\ stopper' = [stopper EXCEPT !.permit = @ \/ jobs = {t}]
  /\ turn' = [turn EXCEPT ![t].at = "gone"]
  /\ UNCHANGED <<lifecycle, budget, controller, session, checkpoint>>

\* wait returns, or the controller is dropped, with the result if it is there.
Read(t) ==
  /\ controller[t] = "sent"
  /\ controller' = [controller EXCEPT ![t] = "read"]
  /\ UNCHANGED <<control, turn, budget, session, checkpoint>>

DropController(t) ==
  /\ controller[t] \in {"waiting", "sent"}
  /\ controller' = [controller EXCEPT ![t] = IF @ = "sent" THEN "discarded" ELSE "dropped"]
  /\ UNCHANGED <<control, turn, budget, session, checkpoint>>

-----------------------------------------------------------------------------
(***************************************************************************)
(* RuntimeState::stop, called once by the lifecycle.                       *)
(***************************************************************************)
\* Mutant: the turns in flight are left to end by themselves.
StopBeginPatiently ==
  /\ stopper.at = "idle"
  /\ lifecycle' = "stopping"
  /\ stopper' = [stopper EXCEPT !.at = "look"]
  /\ UNCHANGED <<jobs, detached, turn, budget, controller, session, checkpoint>>

StopBegin ==
  /\ stopper.at = "idle"
  /\ lifecycle' = "stopping"
  /\ turn' = [t \in Turns |-> IF t \in jobs THEN Requested(t, "runtime") ELSE turn[t]]
  /\ stopper' = [stopper EXCEPT !.at = "look"]
  /\ UNCHANGED <<jobs, detached, budget, controller, session, checkpoint>>

\* The loop: drained is created before the table is looked at.
StopLook ==
  /\ stopper.at = "look"
  /\ stopper' = [stopper EXCEPT !.at = IF jobs = {} THEN "take" ELSE "wait"]
  /\ UNCHANGED <<lifecycle, jobs, detached, turn, budget, controller, session, checkpoint>>

StopWake ==
  /\ stopper.at = "wait" /\ stopper.permit
  /\ stopper' = [stopper EXCEPT !.at = "look", !.permit = FALSE]
  /\ UNCHANGED <<lifecycle, jobs, detached, turn, budget, controller, session, checkpoint>>

StopTake ==
  /\ stopper.at = "take"
  /\ lifecycle' = "stopped" /\ detached' = {}
  /\ stopper' = [stopper EXCEPT !.at = "done", !.told = detached]
  /\ UNCHANGED <<jobs, turn, budget, controller, session, checkpoint>>

Stop == StopBegin \/ StopLook \/ StopWake \/ StopTake

-----------------------------------------------------------------------------
\* What the driver of a turn does when the others let it.
Drive(t) ==
  \/ NotAdmitted(t) \/ Admit(t) \/ SettleBoundary(t) \/ RecordUser(t) \/ BodyInterrupted(t)
  \/ FinishModels(t) \/ FinishTools(t) \/ BeginCleanup(t) \/ RecordMessage(t) \/ Prepare(t)
  \/ RecordReport(t) \/ RecordTerminal(t) \/ Settle(t) \/ Finalize(t) \/ Send(t) \/ Leave(t)

Host(t) == StartTurn(t) \/ CancelTurn(t) \/ Seal(t) \/ Read(t) \/ DropController(t)

Around(t) ==
  \/ StopBudget(t) \/ Emit(t) \/ BodyReturns(t) \/ Unwind(t)
  \/ \E cap \in Capabilities : CallOut(t, cap) \/ Record(t, cap)

\* A runtime that has stopped does nothing more.
Terminated == stopper.at = "done" /\ UNCHANGED vars

Next == Start \/ Stop \/ Terminated \/ \E t \in Turns : Drive(t) \/ Host(t) \/ Around(t)

Spec == Init /\ [][Next]_vars

\* A call that is cancelled, or closed for a turn that did not succeed, ends.
Hurried(t) ==
  \/ Signalled(t) \/ At(t, "gone")
  \/ turn[t].at \in {"models", "tools"} /\ turn[t].intent # "completed"
  \/ At(t, "tools") /\ turn[t].broken # {}

Fairness ==
  /\ WF_vars(StopLook) /\ WF_vars(StopWake) /\ WF_vars(StopTake)
  /\ \A t \in Turns : /\ WF_vars(Drive(t))
                      /\ \A cap \in Capabilities : WF_vars(Hurried(t) /\ Record(t, cap))

-----------------------------------------------------------------------------
(***************************************************************************)
(* Properties.                                                             *)
(***************************************************************************)
TypeOK ==
  /\ lifecycle \in {"constructed", "running", "stopping", "stopped"}
  /\ jobs \in SUBSET Turns /\ detached \in SUBSET Turns
  /\ stopper \in [at : {"idle", "look", "wait", "take", "done"}, permit : BOOLEAN, told : SUBSET Turns]
  /\ turn \in [Turns -> Turn] /\ budget \in [Turns -> Run]
  /\ controller \in [Turns -> {"none", "waiting", "sent", "read", "dropped", "discarded", "closed"}]
  /\ log \in Seq(Entry) /\ holder \in Turns \cup {Nobody} /\ sick \in BOOLEAN
  /\ checkpoint \in {"claimed", "ready"}
  /\ Cardinality(jobs) <= MaxInFlight /\ Cardinality(detached) <= MaxDetached

Rank == [user |-> 1, work |-> 2, message |-> 3, report |-> 4, terminal |-> 5]

\* The events of turns do not mix, and within a turn the calls of models and
\* tools come before the message, the message before the report and the report
\* before the one terminal event: nothing of a turn follows what closes it.
EnvelopeOrdered ==
  \A i, j \in DOMAIN log : i < j =>
    /\ log[i].turn = log[j].turn =>
         /\ Rank[log[i].kind] <= Rank[log[j].kind]
         /\ log[i].kind = log[j].kind => log[i].kind = "work"
    /\ log[i].turn # log[j].turn =>
         \A k \in DOMAIN log : k > j => log[k].turn # log[i].turn

\* The checkpoint is ready for the next execution only when the log ends the
\* turn that had the claim: report, then terminal, of one opinion, with nothing
\* left running.
ReadyIsClosed ==
  checkpoint = "ready" =>
    \E t \in Durable :
      /\ \E i, j \in Committed(t) :
           /\ EndsWith(t, i, j) /\ log[i].kind = "report" /\ log[j].kind = "terminal"
           /\ log[i].drained /\ Agree(log[i], log[j])
      /\ turn[t].busy = {} /\ holder # t

\* A durable turn writes only where its claim left the log: whoever wrote in
\* between, nothing of the turn follows.
BoundaryKept ==
  \A t \in Durable : \A i \in DOMAIN log : log[i].turn = t => \A j \in 1 .. i : log[j].turn = t

\* A turn that is reported done is done: models and tools closed without a
\* failure, its answer recorded, its report and its terminal event the last in
\* its log - for a durable turn whatever receipts the Session gave.
OkIsTrue ==
  \A t \in Turns : turn[t].outcome = "ok" =>
    /\ turn[t].broken = {} /\ turn[t].busy = {} /\ turn[t].intent \in {"completed", "cancelled"}
    /\ turn[t].report = "ok" /\ holder # t
    /\ turn[t].intent = "completed" => turn[t].message = "ok"
    /\ (t \in Durable \/ turn[t].terminal = "ok") =>
         \E i, j \in Committed(t) :
           EndsWith(t, i, j) /\ log[i].kind = "report" /\ log[j] = Terminal(t, turn[t].intent)

\* The Session's lease comes back on every path: whoever has it is a driver at
\* work, or a call still recording for a driver that unwound; and while it is
\* out the budget run is not given up by a driver that works on.
LeaseComesBack ==
  /\ holder # Nobody => holder \in jobs \/ turn[holder].busy # {}
  /\ \A t \in jobs : holder = t => budget[t].run \in {"open", "cleaning", "reported"}
  /\ \A t \in Turns : At(t, "gone") => budget[t].run \in {"finished", "abandoned"}

\* A turn whose log or checkpoint is not closed, or whose driver unwound, is
\* told: to its controller, or by stop, unless stop has enough to tell.
FailureKept ==
  \A t \in Turns : At(t, "gone") /\ (Incomplete(t) \/ turn[t].outcome = "unwound") =>
    \/ controller[t] \in {"sent", "read", "discarded"}
    \/ t \in detached \cup stopper.told
    \/ Cardinality(detached \cup stopper.told) >= MaxDetached

\* The three together: what a turn, its controller and the runtime are told is so.
ToldTruly == OkIsTrue /\ LeaseComesBack /\ FailureKept

\* The three together, with the types: what the log and the checkpoint say of a
\* turn is in order, for whoever continues the task from them.
RecordSound == TypeOK /\ EnvelopeOrdered /\ BoundaryKept /\ ReadyIsClosed

\* The report and the terminal event of a turn are of one opinion, which
\* validate_closed_tail (core/budget/execution) asserts of every closed turn.
ReportAgrees ==
  \A i, j \in DOMAIN log :
    log[i].kind = "report" /\ log[j].kind = "terminal" /\ log[i].turn = log[j].turn =>
      Agree(log[i], log[j])

\* Cancelling a turn ends it, whatever its agent, models and tools do.
CancelEnds == \A t \in Turns : turn[t].cancel # "none" /\ t \in jobs ~> t \notin jobs

\* stop returns.
StopCompletes == stopper.at = "look" ~> stopper.at = "done"
=============================================================================
