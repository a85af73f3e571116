-------------------------- MODULE TaskCoordinator --------------------------
(***************************************************************************)
(* The continuation of a Task (crates/task/runtime) over its three stores: *)
(* the snapshot of crates/task/state, the budget checkpoint, whose claims  *)
(* are those of ExecutionClaim, and the Session's log.  Each coordinator   *)
(* admits one operation at a time; coordinators of other processes, and a  *)
(* host that raises limits or writes a snapshot itself, change the stores  *)
(* between any two awaits of a worker.                                     *)
(***************************************************************************)
EXTENDS Naturals, Sequences, FiniteSets

CONSTANTS
  Coordinators,   \* instances, one per process
  Closers,        \* those whose close is called
  MaxTurns, MaxRevision, MaxBudget   \* bounds: the log, snapshots, budget images

ASSUME BoundsAssumption == MaxTurns \in Nat /\ MaxRevision \in Nat \ {0} /\ MaxBudget \in Nat \ {0}

VARIABLES
  log,      \* of each closed turn, how it ended and what it continued
  open,     \* the coordinator whose turn is unfinished at the tail of the log, if any
  budget,   \* the latest checkpoint: revision, ready or claimed, anchor in the log
  state,    \* the latest snapshot
  kept,     \* snapshots retained from failed commits
  control,  \* Control of each coordinator
  work,     \* its worker
  cancel,   \* the Cancellation of its operation
  closing   \* its caller of close

vars == <<log, open, budget, state, kept, control, work, cancel, closing>>
stores == <<log, open, budget, state, kept>>

Nobody == "nobody"
ASSUME NamesAssumption == {Nobody, "lost"} \cap Coordinators = {} /\ Closers \subseteq Coordinators

\* TaskPhase; of the intents each coordinator is given the one that matches.
Phase(turns) == IF turns = <<>> THEN "created" ELSE turns[Len(turns)].status
Continued == {"created", "checkpointed", "waiting"}
Statuses == {"checkpointed", "waiting", "completed", "stopped"}

Snapshot == [revision : 1 .. MaxRevision, cursor : 0 .. MaxTurns, budget : 1 .. MaxBudget,
             phase : Statuses \cup {"created"}]
Budget == [revision : 1 .. MaxBudget, ready : BOOLEAN, anchor : 0 .. MaxTurns]

FirstBudget == [revision |-> 1, ready |-> TRUE, anchor |-> 0]
FirstState == [revision |-> 1, cursor |-> 0, budget |-> 1, phase |-> "created"]

Steps == {"idle", "state", "budget", "history", "policy", "claim", "recheck", "restate", "start",
          "publish", "look", "wait", "settle", "evidence", "capture", "commit", "end"}
Idle == [at |-> "idle", snapshot |-> FirstState, budget |-> FirstBudget, cancelled |-> FALSE]
Quiet == [requested |-> FALSE, turn |-> FALSE, caller |-> "none"]

-----------------------------------------------------------------------------
(***************************************************************************)
(* Evidence: what task/state derives from the stores.                      *)
(***************************************************************************)
\* verify_history of a checkpoint; BudgetExecution has it in full.
AtTail(image, turns, tail) == tail = Nobody /\ image.anchor = Len(turns)

\* TaskSnapshot::capture succeeds, and its value.
Capturable(image, turns, tail) == AtTail(image, turns, tail) /\ image.ready
Capture(revision, image, turns) ==
  [revision |-> revision + 1, cursor |-> image.anchor, budget |-> image.revision,
   phase |-> Phase(turns)]

\* verify_evidence: the snapshot captured now would be the same.
Verified(snapshot, image, turns, tail) ==
  /\ Capturable(image, turns, tail)
  /\ Capture(snapshot.revision - 1, image, turns) = snapshot

\* validate_successor, under the compare-and-exchange of the store.
Succeeds(new, old) ==
  /\ new.revision = old.revision + 1
  /\ new.budget >= old.budget /\ new.cursor >= old.cursor
  /\ new.budget = old.budget => new.cursor = old.cursor
  /\ new.cursor = old.cursor => new.phase = old.phase

-----------------------------------------------------------------------------
(***************************************************************************)
(* An operation and its worker.                                            *)
(***************************************************************************)
Go(c, at) == work' = [work EXCEPT ![c].at = at]

Start(c) ==
  /\ control[c].accepting /\ ~control[c].active
  /\ control' = [control EXCEPT ![c].active = TRUE]
  /\ work' = [work EXCEPT ![c] = [Idle EXCEPT !.at = "state"]]
  /\ cancel' = [cancel EXCEPT ![c] = Quiet]
  /\ UNCHANGED <<stores, closing>>

\* Drop of Active, on whatever path the worker ends.
Finish(c) ==
  /\ work[c].at = "end"
  /\ work' = [work EXCEPT ![c] = Idle]
  /\ control' = [control EXCEPT ![c].active = FALSE]
  /\ closing' = [closing EXCEPT ![c].notified = @ \/ closing[c].at \in {"check", "wait"}]
  /\ UNCHANGED <<stores, cancel>>

\* Any store or policy may fail: the operation is over, with what it did.
Fail(c) ==
  /\ work[c].at \in {"state", "budget", "history", "policy", "claim", "recheck", "restate",
                     "evidence", "capture"}
  /\ Go(c, "end")
  /\ UNCHANGED <<stores, control, cancel, closing>>

LoadState(c) ==
  /\ work[c].at = "state"
  /\ work' = [work EXCEPT ![c].snapshot = state,
                ![c].at = IF cancel[c].requested \/ state.phase \notin Continued THEN "end"
                          ELSE "budget"]
  /\ UNCHANGED <<stores, control, cancel, closing>>

LoadBudget(c) ==
  /\ work[c].at = "budget"
  /\ work' = [work EXCEPT ![c].budget = budget, ![c].at = "history"]
  /\ UNCHANGED <<stores, control, cancel, closing>>

LoadHistory(c) ==
  /\ work[c].at = "history"
  /\ Go(c, IF Verified(work[c].snapshot, work[c].budget, log, open) THEN "policy" ELSE "end")
  /\ UNCHANGED <<stores, control, cancel, closing>>

Authorized(c) ==
  /\ work[c].at = "policy"
  /\ Go(c, IF cancel[c].requested THEN "end" ELSE "claim")
  /\ UNCHANGED <<stores, control, cancel, closing>>

\* Mutant: the checkpoint that was loaded is claimed, whatever the store holds.
ClaimLoaded(c) ==
  /\ work[c].at = "claim" /\ work[c].budget.ready /\ budget.revision < MaxBudget
  /\ budget' = [budget EXCEPT !.revision = @ + 1, !.ready = FALSE]
  /\ Go(c, "start")
  /\ UNCHANGED <<log, open, state, kept, control, cancel, closing>>

\* BudgetExecutionLease::acquire of the very checkpoint that was verified; the
\* answer of a claim that is durable may be an error.
Claim(c) ==
  /\ work[c].at = "claim"
  /\ budget = work[c].budget /\ budget.ready /\ budget.revision < MaxBudget
  /\ budget' = [budget EXCEPT !.revision = @ + 1, !.ready = FALSE]
  /\ \E at \in {"recheck", "end"} : Go(c, at)
  /\ UNCHANGED <<log, open, state, kept, control, cancel, closing>>

\* verify_history of the base again, then the snapshot again.
Recheck(c) ==
  /\ work[c].at = "recheck"
  /\ Go(c, IF AtTail(work[c].budget, log, open) THEN "restate" ELSE "end")
  /\ UNCHANGED <<stores, control, cancel, closing>>

Restate(c) ==
  /\ work[c].at = "restate"
  /\ Go(c, IF state = work[c].snapshot /\ ~cancel[c].requested THEN "start" ELSE "end")
  /\ UNCHANGED <<stores, control, cancel, closing>>

\* start_turn: refused, which drops the lease, or admitted with the history the
\* runtime has checked itself.
StartTurn(c) ==
  /\ work[c].at = "start"
  /\ \/ Go(c, "evidence") /\ UNCHANGED open
     \/ /\ AtTail(work[c].budget, log, open)
        /\ Go(c, "publish") /\ open' = c
  /\ UNCHANGED <<log, budget, state, kept, control, cancel, closing>>

\* The canceller of the turn is published, and then requested is read.
Publish(c) ==
  /\ work[c].at = "publish"
  /\ Go(c, "look")
  /\ cancel' = [cancel EXCEPT ![c].turn = TRUE]
  /\ UNCHANGED <<stores, control, closing>>

\* Mutant: a request that came before the canceller is not looked at.
LookAway(c) ==
  /\ work[c].at = "look"
  /\ Go(c, "wait")
  /\ UNCHANGED <<stores, control, cancel, closing>>

Look(c) ==
  /\ work[c].at = "look"
  /\ work' = [work EXCEPT ![c].at = "wait", ![c].cancelled = @ \/ cancel[c].requested]
  /\ UNCHANGED <<stores, control, cancel, closing>>

-----------------------------------------------------------------------------
(***************************************************************************)
(* The turn, run by the Agent runtime on its own.                          *)
(***************************************************************************)
\* It ends as it likes, or is stopped where it was cancelled.
TurnEnds(c, status) ==
  /\ open = c /\ Len(log) < MaxTurns
  /\ log' = Append(log, [status |-> status, continued |-> work[c].snapshot.cursor])
  /\ open' = Nobody
  /\ \/ /\ budget.revision < MaxBudget                  \* commit_closed, answered or not
        /\ budget' = [revision |-> budget.revision + 1, ready |-> TRUE, anchor |-> Len(log')]
     \/ UNCHANGED budget                                \* or the claim stays
  /\ UNCHANGED <<state, kept, control, work, cancel, closing>>

\* It fails and leaves its turn open: a crash of the Session or the runtime.
Waited(c) ==
  /\ work[c].at = "wait" /\ open # c
  /\ Go(c, "evidence")
  /\ cancel' = [cancel EXCEPT ![c].turn = FALSE]
  /\ UNCHANGED <<stores, control, closing>>

-----------------------------------------------------------------------------
(***************************************************************************)
(* The publication of the new snapshot, and the other writers of it.       *)
(***************************************************************************)
PublishEvidence(c) ==
  /\ work[c].at = "evidence"
  /\ work' = [work EXCEPT ![c].budget = budget, ![c].at = "capture"]
  /\ UNCHANGED <<stores, control, cancel, closing>>

\* Mutant: the history is not confirmed by the checkpoint.
CommitUnconfirmed(c) ==
  LET candidate == [Capture(work[c].snapshot.revision, work[c].budget, log)
                      EXCEPT !.cursor = Len(log)]
  IN /\ work[c].at = "capture" /\ open = Nobody
     /\ candidate.revision \in 1 .. MaxRevision /\ Succeeds(candidate, state)
     /\ state' = candidate /\ Go(c, "end") /\ UNCHANGED kept
     /\ UNCHANGED <<log, open, budget, control, cancel, closing>>

\* The history, the payload, the capture; then the compare-and-exchange over the
\* revision the operation started from, answered or not.
Commit(c) ==
  LET candidate == Capture(work[c].snapshot.revision, work[c].budget, log)
  IN /\ work[c].at = "capture"
     /\ \/ /\ ~Capturable(work[c].budget, log, open)
           /\ UNCHANGED <<state, kept>>
        \/ /\ Capturable(work[c].budget, log, open) /\ candidate.revision <= MaxRevision
           /\ state' \in {state} \cup {s \in {candidate} : Succeeds(s, state)}
           /\ kept' \in {kept \cup {candidate}} \cup {k \in {kept} : state' = candidate}
     /\ Go(c, "end")
     /\ UNCHANGED <<log, open, budget, control, cancel, closing>>

\* The host retries a retained snapshot unchanged.
Retry(candidate) ==
  /\ Succeeds(candidate, state)
  /\ state' = candidate /\ kept' = kept \ {candidate}
  /\ UNCHANGED <<log, open, budget, control, work, cancel, closing>>

\* The host reconciles the snapshot with the evidence.
Reconcile ==
  LET candidate == Capture(state.revision, budget, log)
  IN /\ Capturable(budget, log, open) /\ candidate.revision <= MaxRevision
     /\ Succeeds(candidate, state)
     /\ state' = candidate
     /\ UNCHANGED <<log, open, budget, kept, control, work, cancel, closing>>

\* grant_budget.
Grant ==
  /\ budget.ready /\ AtTail(budget, log, open) /\ budget.revision < MaxBudget
  /\ budget' = [budget EXCEPT !.revision = @ + 1]
  /\ UNCHANGED <<log, open, state, kept, control, work, cancel, closing>>

-----------------------------------------------------------------------------
(***************************************************************************)
(* Callers.                                                                *)
(***************************************************************************)
\* TaskRunController::cancel: requested is set, then the canceller is looked up.
Cancel(c) ==
  /\ control[c].active /\ cancel[c].caller = "none"
  /\ cancel' = [cancel EXCEPT ![c].requested = TRUE, ![c].caller = "look"]
  /\ UNCHANGED <<stores, control, work, closing>>

CancelTurn(c) ==
  /\ cancel[c].caller = "look"
  /\ cancel' = [cancel EXCEPT ![c].caller = "done"]
  /\ work' = [work EXCEPT ![c].cancelled = @ \/ cancel[c].turn]
  /\ UNCHANGED <<stores, control, closing>>

Close(c) ==
  /\ c \in Closers /\ closing[c].at = "idle"
  /\ control' = [control EXCEPT ![c].accepting = FALSE]
  /\ closing' = [closing EXCEPT ![c].at = "enable"]
  /\ UNCHANGED <<stores, work, cancel>>

\* One step of the loop of close: enable, look, wait.
CloseStep(c) ==
  LET me == closing[c]
  IN /\ \/ /\ me.at = "enable"
           /\ closing' = [closing EXCEPT ![c] = [at |-> "check", notified |-> FALSE]]
        \/ /\ me.at = "check"
           /\ closing' = [closing EXCEPT ![c].at = IF control[c].active THEN "wait" ELSE "done"]
        \/ /\ me.at = "wait" /\ me.notified
           /\ closing' = [closing EXCEPT ![c].at = "enable"]
     /\ UNCHANGED <<stores, control, work, cancel>>

\* A process dies and a new coordinator takes its place.  Its turn stays open.
Crash(c) ==
  /\ control[c].active
  /\ control' = [control EXCEPT ![c] = [accepting |-> TRUE, active |-> FALSE]]
  /\ work' = [work EXCEPT ![c] = Idle] /\ cancel' = [cancel EXCEPT ![c] = Quiet]
  /\ closing' = [closing EXCEPT ![c] = [at |-> "idle", notified |-> FALSE]]
  /\ open' = IF open = c THEN "lost" ELSE open
  /\ UNCHANGED <<log, budget, state, kept>>

-----------------------------------------------------------------------------
Init ==
  /\ log = <<>> /\ open = Nobody /\ budget = FirstBudget /\ state = FirstState /\ kept = {}
  /\ control = [c \in Coordinators |-> [accepting |-> TRUE, active |-> FALSE]]
  /\ work = [c \in Coordinators |-> Idle] /\ cancel = [c \in Coordinators |-> Quiet]
  /\ closing = [c \in Coordinators |-> [at |-> "idle", notified |-> FALSE]]

Worker(c) ==
  \/ LoadState(c) \/ LoadBudget(c) \/ LoadHistory(c) \/ Authorized(c) \/ Claim(c)
  \/ Recheck(c) \/ Restate(c) \/ StartTurn(c) \/ Publish(c) \/ Look(c) \/ Waited(c)
  \/ PublishEvidence(c) \/ Commit(c) \/ Finish(c) \/ Fail(c)
Turn(c) == \E status \in Statuses : TurnEnds(c, status)
Host == Reconcile \/ Grant \/ \E candidate \in kept : Retry(candidate)

Next ==
  \/ \E c \in Coordinators : \/ Start(c) \/ Worker(c) \/ Turn(c) \/ Cancel(c) \/ CancelTurn(c)
                             \/ Close(c) \/ CloseStep(c) \/ Crash(c)
  \/ Host

Spec == Init /\ [][Next]_vars

\* The runtime polls its tasks.  A turn ends once it is cancelled; on its own it need
\* not.
Stopped(c) == work[c].cancelled /\ Turn(c)
Fairness == \A c \in Coordinators : /\ WF_vars(Worker(c)) /\ WF_vars(Stopped(c))
                                    /\ WF_vars(CancelTurn(c)) /\ WF_vars(CloseStep(c))

-----------------------------------------------------------------------------
\* Types.
TypeOK ==
  /\ log \in Seq([status : Statuses, continued : 0 .. MaxTurns])
  /\ open \in Coordinators \cup {Nobody, "lost"}
  /\ budget \in Budget /\ state \in Snapshot /\ kept \subseteq Snapshot
  /\ control \in [Coordinators -> [accepting : BOOLEAN, active : BOOLEAN]]
  /\ work \in [Coordinators -> [at : Steps, snapshot : Snapshot, budget : Budget,
                                cancelled : BOOLEAN]]
  /\ cancel \in [Coordinators -> [requested : BOOLEAN, turn : BOOLEAN,
                                  caller : {"none", "look", "done"}]]
  /\ closing \in [Coordinators -> [at : {"idle", "enable", "check", "wait", "done"},
                                   notified : BOOLEAN]]

\* A turn continues the turn it was asked to continue: an answer is given once,
\* to the last question, whoever else continued or changed the stores between
\* the checks and the claim.
ContinuesTail ==
  \A i \in DOMAIN log : /\ log[i].continued = i - 1
                        /\ i > 1 => log[i - 1].status \in Continued

\* At most one worker holds the claim of the task or has a turn that may append to
\* the log.
OneTurn ==
  Cardinality({c \in Coordinators : work[c].at \in {"recheck", "restate", "start"}
                                    \/ open = c}) <= 1

\* The two together: the log is one conversation, and one worker at a time continues it.
OneContinuation == ContinuesTail /\ OneTurn

\* The snapshot says of the turn it points at what the log says, and never runs
\* ahead of the checkpoint it names, whoever wrote it, and however late.
StateIsTrue ==
  /\ state.cursor <= budget.anchor /\ state.budget <= budget.revision
  /\ state.phase = Phase(SubSeq(log, 1, state.cursor))

\* A snapshot retained from a failed commit can be committed unchanged for as long as
\* nobody has replaced the one it was made from.
KeptPublishable == \A k \in kept : k.revision = state.revision + 1 => Succeeds(k, state)

\* The two together, of the snapshot in the store and those that may yet get there.
SnapshotTrue == StateIsTrue /\ KeptPublishable

\* A cancel that has returned has reached the turn the worker waits for.
CancelHeard ==
  \A c \in Coordinators :
    work[c].at = "wait" /\ cancel[c].caller = "done" => work[c].cancelled

\* When close has returned nothing of the coordinator runs.
ClosedDrained ==
  \A c \in Coordinators : closing[c].at = "done" => ~control[c].active /\ work[c].at = "idle"

\* The snapshot only moves forward in the log.
StateForward == [][state'.cursor >= state.cursor /\ state'.revision >= state.revision]_vars

\* An operation that is cancelled ends, even when its turn would not end by itself: a
\* cancel that came before the turn's canceller was published is not lost.
CancelEnds == \A c \in Coordinators : cancel[c].requested ~> ~control[c].active

\* close returns once the operation it waits for is cancelled, unless the process dies.
CloseReturns ==
  \A c \in Coordinators :
    closing[c].at = "enable" /\ cancel[c].requested ~> closing[c].at \in {"done", "idle"}
=============================================================================
