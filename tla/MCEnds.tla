------------------------------- MODULE MCEnds -------------------------------
(***************************************************************************)
(* What must come to an end, for TLC: the components whose callers wait,   *)
(* which share nothing.  scenario tells which of them a behaviour is       *)
(* about; the others stay as they were initially.  Every property names    *)
(* the fairness it rests on.                                               *)
(***************************************************************************)
EXTENDS Naturals

CONSTANTS j1, j2, t1, c1, c2

VARIABLES
  scenario,
  lifecycle, phase, queue, occupied, unack, drained, open, ledger, turnDrained, at,
  wake, cancelled, turnCancelled, budgetStopped, expired, dropped, reservation,
  recorded, failed, stopper, finisher, told,
  toolLifecycle, toolOpen, toolJobs, toolAt, entered, outcome, toolReservation,
  toolLog, toolCancelled, toolExpired, toolTurnCancelled, toolBudgetStopped,
  toolFailed, toolUnack, toolLedger, toolDrained, toolStopper, toolFinisher,
  toolTold,
  turnLifecycle, turnJobs, detached, turnStopper, turn, turnBudget, controller,
  turnLog, holder, sick, checkpoint,
  taskLog, taskOpen, taskBudget, state, kept, control, work, cancel, closing,
  deps, pluginAt, next, service, stops, pluginLedger, call, lock

Jobs == {j1, j2}
Turns == {t1}
SameTurn == [j \in Jobs |-> t1]
NoneOf == {}
Timeouts == {"timeout"}
Stops == {"stop"}
Unwinds == {"unwind"}
Undrained == {"undrained"}
Both == {"model", "tool"}
Single == {c1}
Callers == {c1, c2}
One == 1
TwoOf == 2
Three == 3

\* Two model jobs of a turn, and one slot.
Models == INSTANCE ModelScheduler WITH
  TurnOf <- SameTurn, Streams <- NoneOf, MaxConcurrency <- One, MaxInflight <- TwoOf,
  MaxQueued <- One, Signals <- Timeouts, Faults <- NoneOf

\* Two tool calls of a turn, which meet a deadline.
Tools == INSTANCE ToolRuntime WITH
  TurnOf <- SameTurn, MaxInFlight <- TwoOf, Signals <- Timeouts, Faults <- NoneOf,
  lifecycle <- toolLifecycle, open <- toolOpen, jobs <- toolJobs, at <- toolAt,
  reservation <- toolReservation, log <- toolLog, cancelled <- toolCancelled,
  expired <- toolExpired, turnCancelled <- toolTurnCancelled,
  budgetStopped <- toolBudgetStopped, failed <- toolFailed, unack <- toolUnack,
  ledger <- toolLedger, drained <- toolDrained, stopper <- toolStopper,
  finisher <- toolFinisher, told <- toolTold

\* The same calls, in a runtime that stops and without deadlines.
Calls == INSTANCE ToolRuntime WITH
  TurnOf <- SameTurn, MaxInFlight <- TwoOf, Signals <- Stops, Faults <- Unwinds,
  lifecycle <- toolLifecycle, open <- toolOpen, jobs <- toolJobs, at <- toolAt,
  reservation <- toolReservation, log <- toolLog, cancelled <- toolCancelled,
  expired <- toolExpired, turnCancelled <- toolTurnCancelled,
  budgetStopped <- toolBudgetStopped, failed <- toolFailed, unack <- toolUnack,
  ledger <- toolLedger, drained <- toolDrained, stopper <- toolStopper,
  finisher <- toolFinisher, told <- toolTold

\* A turn with both capabilities, which may fail to drain.
Agents == INSTANCE AgentRuntime WITH
  Durable <- NoneOf, Capabilities <- Both, MaxInFlight <- One,
  MaxDetached <- One, MaxWork <- TwoOf, Faults <- Undrained,
  lifecycle <- turnLifecycle, jobs <- turnJobs, stopper <- turnStopper,
  budget <- turnBudget, log <- turnLog

\* A coordinator that is cancelled and closed.
Tasks == INSTANCE TaskCoordinator WITH
  Coordinators <- Single, Closers <- Single, MaxTurns <- One, MaxRevision <- TwoOf,
  MaxBudget <- Three,
  log <- taskLog, open <- taskOpen, budget <- taskBudget

\* Three services, and two calls of shutdown.
Plugins == INSTANCE PluginLifecycle WITH N <- Three,
  at <- pluginAt, ledger <- pluginLedger

\* The variables of each component.
modelsVars == <<lifecycle, phase, queue, occupied, unack, drained, open, ledger,
  turnDrained, at, wake, cancelled, turnCancelled, budgetStopped, expired, dropped,
  reservation, recorded, failed, stopper, finisher, told>>
toolsVars == <<toolLifecycle, toolOpen, toolJobs, toolAt, entered, outcome,
  toolReservation, toolLog, toolCancelled, toolExpired, toolTurnCancelled,
  toolBudgetStopped, toolFailed, toolUnack, toolLedger, toolDrained, toolStopper,
  toolFinisher, toolTold>>
agentsVars == <<turnLifecycle, turnJobs, detached, turnStopper, turn, turnBudget,
  controller, turnLog, holder, sick, checkpoint>>
tasksVars == <<taskLog, taskOpen, taskBudget, state, kept, control, work, cancel,
  closing>>
pluginsVars == <<deps, pluginAt, next, service, stops, pluginLedger, call, lock>>

MCInit ==
  /\ scenario \in {"models", "tools", "calls", "turns", "tasks", "plugins"}
  /\ Models!Init /\ Tools!Init /\ Agents!Init /\ Tasks!Init /\ Plugins!Init
  /\ scenario = "plugins" \/ \A n \in Plugins!Services : deps[n] = {}

MCNext ==
  /\ \/ /\ scenario = "models" /\ Models!Next
        /\ UNCHANGED <<toolsVars, agentsVars, tasksVars, pluginsVars>>
     \/ /\ scenario = "tools" /\ Tools!Next
        /\ UNCHANGED <<modelsVars, agentsVars, tasksVars, pluginsVars>>
     \/ /\ scenario = "calls" /\ Calls!Next
        /\ UNCHANGED <<modelsVars, agentsVars, tasksVars, pluginsVars>>
     \/ /\ scenario = "turns" /\ Agents!Next
        /\ UNCHANGED <<modelsVars, toolsVars, tasksVars, pluginsVars>>
     \/ /\ scenario = "tasks" /\ Tasks!Next
        /\ UNCHANGED <<modelsVars, toolsVars, agentsVars, pluginsVars>>
     \/ /\ scenario = "plugins" /\ Plugins!Next
        /\ UNCHANGED <<modelsVars, toolsVars, agentsVars, tasksVars>>
  /\ UNCHANGED scenario

MCSpec ==
  MCInit /\ [][MCNext]_<<scenario, modelsVars, toolsVars, agentsVars, tasksVars, pluginsVars>>

\* While drivers and closures are scheduled, stop returns although providers hang
\* and jobs are queued, and a job that is given a slot uses it or gives it back;
\* and once deadlines pass, finish returns and every admitted job is closed.
SchedulerEnds ==
  scenario = "models" /\ Models!FairDrivers /\ Models!FairClosures =>
    /\ Models!StopCompletes /\ Models!SlotUsed
    /\ Models!DeadlinesPass => Models!FinishCompletes /\ Models!JobCloses

\* The same of tools, whose bodies, guards and authorizers hang.
ToolsEnd ==
  /\ scenario = "calls" /\ Calls!Fairness => Calls!StopCompletes
  /\ scenario = "tools" /\ Tools!Fairness /\ Tools!DeadlinesPass => Tools!FinishCompletes

\* A turn that is cancelled ends and a runtime stops, although the agent hangs.
TurnsEnd ==
  scenario = "turns" /\ Agents!Fairness => Agents!CancelEnds /\ Agents!StopCompletes

\* An operation on a task that is cancelled ends, also when the cancel came before
\* the turn could be reached, and close returns after it.
TasksEnd == scenario = "tasks" /\ Tasks!Fairness => Tasks!CancelEnds /\ Tasks!CloseReturns

\* Composition and shutdown end, whatever fails in between and whoever is dropped.
PluginsEnd ==
  scenario = "plugins" /\ Plugins!Fairness => Plugins!ShutdownEnds /\ Plugins!FinishEnds
=============================================================================
