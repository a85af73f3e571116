------------------------- MODULE SessionCoordinator -------------------------
(***************************************************************************)
(* One Session of the mailbox SessionRuntime (crates/session/runtime): the *)
(* callers that begin, write and settle turns, the coordinator task that   *)
(* serialises them through its mailbox, the storage behind it and the      *)
(* shutdown of the runtime.                                                *)
(*                                                                         *)
(* An action is what runs between two points where another task may run:   *)
(* an await, or a read of the shared stopping flag or of a response        *)
(* channel that the other side may close at any time.  task.at names the   *)
(* await point the coordinator task is at:                                 *)
(*   recv     receiver.recv() in run_coordinator                           *)
(*   load     persistence.load in admit                                    *)
(*   grant    past the load, about to read stopping and to send the grant  *)
(*   sweep    the head of the loop of grant_pending                        *)
(*   commit   persistence.commit_durable in append                         *)
(*   reload   persistence.load in reconcile_indeterminate                  *)
(*   observe  the observers of a committed event                           *)
(*                                                                         *)
(* A turn is named by its lease token: TurnId::new and the token are drawn *)
(* together and both are fresh.                                            *)
(***************************************************************************)
EXTENDS Integers, SequencesExt

CONSTANTS
  Callers,     \* tasks that use the Session
  None,        \* absence: a closed response channel, no draft, no event
  EventIds,    \* identifiers of drafts
  Drafts,      \* the drafts callers append
  InitialLogs, \* logs an earlier runtime may have left in the storage
  Storages,    \* the storages considered: how each may misbehave, of AllFaults
  TokenLimit,  \* the last value of a lease token (u64::MAX)
  MaxQueue     \* bound: callers send nothing new while so many commands wait

Kinds == {"delta", "done"}
Terminal == {"done"}
Event == [id : EventIds, kind : Kinds, turn : Nat, seq : Nat]

\* definite: an IO error that surely wrote nothing.  indeterminate: an error
\* after which the event may or may not be durable.  late: such an event may
\* become durable after a later load.  corrupt: a damaged log.  unreadable: a
\* load that fails.
AllFaults == {"definite", "indeterminate", "late", "corrupt", "unreadable"}

IdsOf(log) == {log[i].id : i \in DOMAIN log}

\* What validate_physical_log accepts.
ValidLog(log) ==
  /\ \A i \in DOMAIN log : log[i].seq = i - 1
  /\ \A i, j \in DOMAIN log : log[i].id = log[j].id => i = j

ASSUME NoneAssumption == None \notin Callers \cup Drafts \cup Event
ASSUME DraftsAssumption == Drafts \subseteq [id : EventIds, kind : Kinds]
ASSUME InitialLogsAssumption ==
  \A log \in InitialLogs : /\ log \in Seq(Event)
                           /\ ValidLog(log)
                           /\ \A i \in DOMAIN log : log[i].turn = 0
ASSUME StoragesAssumption == Storages \subseteq SUBSET AllFaults
ASSUME BoundsAssumption == TokenLimit \in Nat \ {0} /\ MaxQueue \in Nat

VARIABLES
  stopping,   \* RuntimeControl.stopping
  down,       \* where RuntimeControl::shutdown is
  coord,      \* the coordinator's channel: absent, open, closed, exited
  mailbox,    \* commands sent and not yet received
  task,       \* where the coordinator task is, and what it holds there
  loaded, events, active, nextToken, pending, poisoned,  \* CoordinatorState
  faults,     \* how the storage behind the Session misbehaves
  durable,    \* the events in the storage
  limbo,      \* an event whose commit failed but may still become durable
  pc,         \* where each caller is
  reply,      \* the response channel each caller awaits
  lease,      \* the token of the LeaseRelease each caller holds, or 0
  history,    \* TurnAdmission.history of the turn each caller holds
  observed    \* what the observers were given, in order

state == <<loaded, events, active, nextToken, pending, poisoned>>
callers == <<pc, reply, lease, history>>
storage == <<faults, durable, limbo>>
vars == <<stopping, down, coord, mailbox, task, state, storage, callers, observed>>

-----------------------------------------------------------------------------
(***************************************************************************)
(* Commands, responses and the coordinator's private state.                *)
(***************************************************************************)
Command == [op : {"Begin", "Append", "Settle", "Abandon", "Shutdown"},
            token : Nat, draft : Drafts \cup {None}, resp : Callers \cup {None}]

Begin(c)            == [op |-> "Begin", token |-> 0, draft |-> None, resp |-> c]
AppendCmd(t, d, c)  == [op |-> "Append", token |-> t, draft |-> d, resp |-> c]
SettleCmd(t, c)     == [op |-> "Settle", token |-> t, draft |-> None, resp |-> c]
Abandon(t)          == [op |-> "Abandon", token |-> t, draft |-> None, resp |-> None]
ShutdownCmd         == [op |-> "Shutdown", token |-> 0, draft |-> None, resp |-> None]

\* kind: none (unanswered), grant, done, absent (an error that says the event
\* was not committed), fail (any other error).
Reply == [kind : {"none", "grant", "done", "absent", "fail"},
          token : Nat, events : Seq(Event)]

NoReply   == [kind |-> "none", token |-> 0, events |-> <<>>]
Failed    == [kind |-> "fail", token |-> 0, events |-> <<>>]
Done(s)   == [kind |-> "done", token |-> 0, events |-> s]
Absent(e) == [kind |-> "absent", token |-> 0, events |-> <<e>>]

\* AdmissionGrant: the token and the history of the turn.
Granted(t) == [kind |-> "grant", token |-> t, events |-> events]

\* Option<ActiveTurn>: tokens start at 1, so token 0 is None.
ActiveTurn == [token : Nat, start : Nat, closed : BOOLEAN]
NoTurn == [token |-> 0, start |-> 0, closed |-> FALSE]

Task == [at : {"recv", "load", "grant", "sweep", "commit", "reload", "observe"},
         resp : Callers \cup {None}, event : Event \cup {None}, sweeping : BOOLEAN]

At(p) == [at |-> p, resp |-> None, event |-> None, sweeping |-> FALSE]

\* What follows an admission that failed: the loop of grant_pending goes on,
\* an admission made for a Begin returns to the mailbox.
NextCandidate(sweeping) == IF sweeping THEN At("sweep") ELSE At("recv")

\* oneshot::Sender::send: nothing happens when the receiver is gone.
Answer(c, r) == reply' = IF c = None THEN reply ELSE [reply EXCEPT ![c] = r]

\* The mailbox after an unbounded send; a closed channel refuses it.
Sent(box, m) == IF coord = "open" THEN Append(box, m) ELSE box

\* Bound: neither queue has one in the code.  Cancelled Begins stay in pending
\* until the lease is released.
HasRoom == Len(mailbox) + Len(pending) < MaxQueue

\* Dropping a response receiver closes the channel wherever its sender is.
Closed(r, c) == IF r = c THEN None ELSE r

CloseInMailbox(c) ==
  [i \in DOMAIN mailbox |-> [mailbox[i] EXCEPT !.resp = Closed(@, c)]]

\* Mutant: a grant that nobody takes is forgotten.
ForgetGrant(c) == CloseInMailbox(c)

\* The mailbox once the channel of a Begin is dropped: a grant in it is dropped
\* with it, and its LeaseRelease sends Abandon.
DropGrant(c) ==
  IF reply[c].kind = "grant"
  THEN Sent(CloseInMailbox(c), Abandon(reply[c].token))
  ELSE CloseInMailbox(c)

CloseElsewhere(c) ==
  /\ pending' = [i \in DOMAIN pending |-> Closed(pending[i], c)]
  /\ task' = [task EXCEPT !.resp = Closed(@, c)]

RejectPending ==
  /\ reply' = [c \in Callers |-> IF c \in ToSet(pending) THEN Failed ELSE reply[c]]
  /\ pending' = <<>>

Init ==
  /\ stopping = FALSE /\ down = "running"
  /\ coord = "absent" /\ mailbox = <<>> /\ task = At("recv")
  /\ loaded = FALSE /\ events = <<>> /\ active = NoTurn /\ nextToken = 1
  /\ pending = <<>> /\ poisoned = FALSE
  /\ faults \in Storages /\ durable \in InitialLogs /\ limbo = None
  /\ pc = [c \in Callers |-> "idle"]
  /\ reply = [c \in Callers |-> NoReply]
  /\ lease = [c \in Callers |-> 0]
  /\ history = [c \in Callers |-> <<>>]
  /\ observed = <<>>

-----------------------------------------------------------------------------
(***************************************************************************)
(* Callers: SessionRuntime::begin_turn and the SessionTurn it returns.     *)
(* A refusal that changes nothing is no step.                              *)
(***************************************************************************)

\* The first check of stopping in begin_turn.
BeginCheck(c) ==
  /\ pc[c] = "idle"
  /\ ~stopping
  /\ pc' = [pc EXCEPT ![c] = "checked"]
  /\ UNCHANGED <<stopping, down, coord, mailbox, task, state, storage, reply, lease, history, observed>>

\* MailboxRuntime::coordinator, under the lock of the map of coordinators.
BeginLocate(c) ==
  /\ pc[c] = "checked"
  /\ IF stopping
     THEN pc' = [pc EXCEPT ![c] = "idle"] /\ UNCHANGED coord
     ELSE /\ pc' = [pc EXCEPT ![c] = "located"]
          /\ coord' = IF coord = "absent" THEN "open" ELSE coord
  /\ UNCHANGED <<stopping, down, mailbox, task, state, storage, reply, lease, history, observed>>

\* The second check of stopping in begin_turn.
BeginRecheck(c) ==
  /\ pc[c] = "located"
  /\ pc' = [pc EXCEPT ![c] = IF stopping THEN "idle" ELSE "cleared"]
  /\ UNCHANGED <<stopping, down, coord, mailbox, task, state, storage, reply, lease, history, observed>>

BeginSend(c) ==
  /\ pc[c] = "cleared"
  /\ coord = "open" => HasRoom
  /\ mailbox' = Sent(mailbox, Begin(c))
  /\ pc' = [pc EXCEPT ![c] = IF coord = "open" THEN "begin" ELSE "idle"]
  /\ UNCHANGED <<stopping, down, coord, task, state, storage, reply, lease, history, observed>>

\* The end of begin_turn: a grant becomes a MailboxTurn, an error is returned.
BeginReturn(c) ==
  /\ pc[c] = "begin" /\ reply[c] # NoReply
  /\ IF reply[c].kind = "grant"
     THEN /\ pc' = [pc EXCEPT ![c] = "turn"]
          /\ lease' = [lease EXCEPT ![c] = reply[c].token]
          /\ history' = [history EXCEPT ![c] = reply[c].events]
     ELSE pc' = [pc EXCEPT ![c] = "idle"] /\ UNCHANGED <<lease, history>>
  /\ reply' = [reply EXCEPT ![c] = NoReply]
  /\ UNCHANGED <<stopping, down, coord, mailbox, task, state, storage, observed>>

\* The begin_turn future is dropped.
BeginCancel(c) ==
  /\ pc[c] \in {"checked", "located", "cleared", "begin"}
  /\ mailbox' = DropGrant(c)
  /\ CloseElsewhere(c)
  /\ pc' = [pc EXCEPT ![c] = "idle"]
  /\ reply' = [reply EXCEPT ![c] = NoReply]
  /\ UNCHANGED <<stopping, down, coord, loaded, events, active, nextToken, poisoned, storage, lease, history, observed>>

\* MailboxTurn::append, up to the await of its response.
AppendSend(c) ==
  /\ pc[c] = "turn"
  /\ coord = "open" /\ HasRoom
  /\ \E d \in Drafts : mailbox' = Append(mailbox, AppendCmd(lease[c], d, c))
  /\ pc' = [pc EXCEPT ![c] = "append"]
  /\ UNCHANGED <<stopping, down, coord, task, state, storage, reply, lease, history, observed>>

AppendReturn(c) ==
  /\ pc[c] = "append" /\ reply[c] # NoReply
  /\ pc' = [pc EXCEPT ![c] = "turn"]
  /\ reply' = [reply EXCEPT ![c] = NoReply]
  /\ UNCHANGED <<stopping, down, coord, mailbox, task, state, storage, lease, history, observed>>

\* The append future is dropped: the command stays where it is.
AppendCancel(c) ==
  /\ pc[c] = "append"
  /\ mailbox' = CloseInMailbox(c)
  /\ CloseElsewhere(c)
  /\ pc' = [pc EXCEPT ![c] = "turn"]
  /\ reply' = [reply EXCEPT ![c] = NoReply]
  /\ UNCHANGED <<stopping, down, coord, loaded, events, active, nextToken, poisoned, storage, lease, history, observed>>

\* MailboxTurn::settle, up to the await of its response.  When the send
\* fails the turn is dropped, and so is its Abandon.
SettleSend(c) ==
  /\ pc[c] = "turn"
  /\ mailbox' = Sent(mailbox, SettleCmd(lease[c], c))
  /\ IF coord = "open"
     THEN pc' = [pc EXCEPT ![c] = "settle"] /\ UNCHANGED <<lease, history>>
     ELSE /\ pc' = [pc EXCEPT ![c] = "idle"]
          /\ lease' = [lease EXCEPT ![c] = 0]
          /\ history' = [history EXCEPT ![c] = <<>>]
  /\ UNCHANGED <<stopping, down, coord, task, state, storage, reply, observed>>

\* The turn is gone, and its LeaseRelease, unless disarmed, sends Abandon.
DropLease(c) ==
  /\ pc' = [pc EXCEPT ![c] = "idle"]
  /\ lease' = [lease EXCEPT ![c] = 0]
  /\ history' = [history EXCEPT ![c] = <<>>]

\* The end of settle: the release is disarmed by a summary, not by an error.
SettleReturn(c) ==
  /\ pc[c] = "settle" /\ reply[c] # NoReply
  /\ mailbox' = IF reply[c].kind = "done" THEN mailbox ELSE Sent(mailbox, Abandon(lease[c]))
  /\ DropLease(c)
  /\ reply' = [reply EXCEPT ![c] = NoReply]
  /\ UNCHANGED <<stopping, down, coord, task, state, storage, observed>>

\* The settle future is dropped, and with it the turn, still armed.
SettleCancel(c) ==
  /\ pc[c] = "settle"
  /\ mailbox' = Sent(CloseInMailbox(c), Abandon(lease[c]))
  /\ CloseElsewhere(c)
  /\ DropLease(c)
  /\ reply' = [reply EXCEPT ![c] = NoReply]
  /\ UNCHANGED <<stopping, down, coord, loaded, events, active, nextToken, poisoned, storage, observed>>

TurnDrop(c) ==
  /\ pc[c] = "turn"
  /\ mailbox' = Sent(mailbox, Abandon(lease[c]))
  /\ DropLease(c)
  /\ UNCHANGED <<stopping, down, coord, task, state, storage, reply, observed>>

Caller(c) ==
  \/ BeginCheck(c) \/ BeginLocate(c) \/ BeginRecheck(c) \/ BeginSend(c)
  \/ BeginReturn(c) \/ BeginCancel(c)
  \/ AppendSend(c) \/ AppendReturn(c) \/ AppendCancel(c)
  \/ SettleSend(c) \/ SettleReturn(c) \/ SettleCancel(c) \/ TurnDrop(c)

-----------------------------------------------------------------------------
(***************************************************************************)
(* Admission: run_coordinator, grant_pending, admit.                       *)
(***************************************************************************)
Receive(op) ==
  /\ task.at = "recv"
  /\ mailbox # <<>> /\ Head(mailbox).op = op
  /\ mailbox' = Tail(mailbox)

\* admit, from the check of poisoned to the load.
Admit(c, sweeping) ==
  IF poisoned
  THEN Answer(c, Failed) /\ task' = NextCandidate(sweeping)
  ELSE /\ task' = [At(IF loaded THEN "grant" ELSE "load") EXCEPT !.resp = c, !.sweeping = sweeping]
       /\ UNCHANGED reply

ReceiveBegin ==
  /\ Receive("Begin")
  /\ LET c == Head(mailbox).resp IN
       \/ /\ stopping
          /\ Answer(c, Failed)
          /\ UNCHANGED <<task, pending>>
       \/ /\ ~stopping /\ c = None
          /\ UNCHANGED <<task, pending, reply>>
       \/ /\ ~stopping /\ c # None /\ active.token # 0
          /\ pending' = Append(pending, c)
          /\ UNCHANGED <<task, reply>>
       \/ /\ ~stopping /\ c # None /\ active.token = 0
          /\ Admit(c, FALSE)
          /\ UNCHANGED pending
  /\ UNCHANGED <<stopping, down, coord, loaded, events, active, nextToken, poisoned, storage, pc, lease, history, observed>>

\* One round of the loop of grant_pending.
Sweep ==
  /\ task.at = "sweep"
  /\ \/ /\ pending = <<>>
        /\ task' = At("recv")
        /\ UNCHANGED <<pending, reply>>
     \/ /\ pending # <<>> /\ Head(pending) = None
        /\ pending' = Tail(pending)
        /\ UNCHANGED <<task, reply>>
     \/ /\ pending # <<>> /\ Head(pending) # None /\ stopping
        /\ pending' = Tail(pending)
        /\ Answer(Head(pending), Failed)
        /\ UNCHANGED task
     \/ /\ pending # <<>> /\ Head(pending) # None /\ ~stopping
        /\ pending' = Tail(pending)
        /\ Admit(Head(pending), TRUE)
  /\ UNCHANGED <<stopping, down, coord, mailbox, loaded, events, active, nextToken, poisoned, storage, pc, lease, history, observed>>

\* A log that validate_physical_log refuses is answered like one that cannot
\* be read.
Load ==
  /\ task.at = "load"
  /\ \/ /\ events' = durable /\ loaded' = TRUE
        /\ task' = [task EXCEPT !.at = "grant"]
        /\ UNCHANGED reply
     \/ /\ "unreadable" \in faults
        /\ Answer(task.resp, Failed)
        /\ task' = NextCandidate(task.sweeping)
        /\ UNCHANGED <<events, loaded>>
  /\ UNCHANGED <<stopping, down, coord, mailbox, active, nextToken, pending, poisoned, storage, pc, lease, history, observed>>

\* token.checked_add(1) fails.
Exhausted == nextToken = TokenLimit

\* The end of admit.  The coordinator's Weak handle upgrades as long as the
\* runtime, whose map owns the handle, is there.
Grant ==
  /\ task.at = "grant"
  /\ \/ /\ stopping \/ Exhausted
        /\ Answer(task.resp, Failed)
        /\ task' = NextCandidate(task.sweeping)
        /\ UNCHANGED <<active, nextToken, mailbox>>
     \/ /\ ~stopping /\ ~Exhausted /\ task.resp # None
        /\ nextToken' = nextToken + 1
        /\ active' = [token |-> nextToken, start |-> Len(events), closed |-> FALSE]
        /\ Answer(task.resp, Granted(nextToken))
        /\ task' = At("recv")
        /\ UNCHANGED mailbox
     \/ \* the send fails: the grant is dropped, and sends Abandon
        /\ ~stopping /\ ~Exhausted /\ task.resp = None
        /\ nextToken' = nextToken + 1
        /\ mailbox' = Sent(mailbox, Abandon(nextToken))
        /\ task' = NextCandidate(task.sweeping)
        /\ UNCHANGED <<active, reply>>
  /\ UNCHANGED <<stopping, down, coord, loaded, events, pending, poisoned, storage, pc, lease, history, observed>>

\* Mutant: a released lease is given to nobody.
ReleaseOnly == task' = At("recv")

\* Settle and Abandon end in grant_pending.  Its check of stopping on entry
\* answers the pending Begins as the loop does one by one.
GrantPending == task' = IF active'.token = 0 THEN At("sweep") ELSE At("recv")

-----------------------------------------------------------------------------
(***************************************************************************)
(* Appends: append, reconcile_indeterminate, mark_terminal, observe_all.   *)
(***************************************************************************)
\* Mutant: a command is taken for the active turn whichever turn sent it.
AnyLease(m) == active.token # 0

\* The command is of the turn that is active.
OwnsLease(m) == m.token = active.token

EventOf(m) == [id |-> m.draft.id, kind |-> m.draft.kind, turn |-> active.token, seq |-> Len(events)]

Known(m) == {e \in ToSet(events) : e.id = m.draft.id}

\* The draft is a retry of an event of this turn.
IsRetry(m) == \E e \in Known(m) : e.turn = active.token /\ e.kind = m.draft.kind

\* Mutant: a turn may go on after its terminal event.
MayAppendAfterEnd(m) == OwnsLease(m) /\ ~poisoned /\ (Known(m) = {} \/ IsRetry(m))

MayAppend(m) ==
  /\ OwnsLease(m)
  /\ ~poisoned
  /\ IF Known(m) = {} THEN ~active.closed ELSE IsRetry(m)

ReceiveAppend ==
  /\ Receive("Append")
  /\ LET m == Head(mailbox) IN
       \/ /\ ~MayAppend(m)
          /\ Answer(m.resp, Failed)
          /\ UNCHANGED task
       \/ /\ MayAppend(m) /\ Known(m) # {}
          /\ \E e \in Known(m) : Answer(m.resp, Done(<<e>>))
          /\ UNCHANGED task
       \/ /\ MayAppend(m) /\ Known(m) = {}
          /\ task' = [At("commit") EXCEPT !.resp = m.resp, !.event = EventOf(m)]
          /\ UNCHANGED reply
  /\ UNCHANGED <<stopping, down, coord, state, storage, pc, lease, history, observed>>

\* What the storage accepts: the expected next event under a fresh identifier.
Acceptable(e) == e.seq = Len(durable) /\ e.id \notin IdsOf(durable)

\* The storage holds exactly this event.
AlreadyDurable(e) == e \in ToSet(durable)

\* Mutant: a terminal event does not end the turn.
KeepOpen(e) == active

MarkTerminal(e) == [active EXCEPT !.closed = @ \/ (e.kind \in Terminal /\ e.turn = active.token)]

Poison ==
  /\ poisoned' = TRUE
  /\ Answer(task.resp, Failed)
  /\ task' = At("recv")
  /\ UNCHANGED <<events, active>>

CommitAppended ==
  /\ task.at = "commit" /\ Acceptable(task.event)
  /\ durable' = Append(durable, task.event)
  /\ events' = Append(events, task.event)
  /\ active' = MarkTerminal(task.event)
  /\ task' = [task EXCEPT !.at = "observe"]
  /\ UNCHANGED <<stopping, down, coord, mailbox, loaded, nextToken, pending, poisoned, faults, limbo, callers, observed>>

\* ReplayedExact: the event is not given to the observers.
CommitReplayed ==
  /\ task.at = "commit" /\ AlreadyDurable(task.event)
  /\ events' = Append(events, task.event)
  /\ active' = MarkTerminal(task.event)
  /\ Answer(task.resp, Done(<<task.event>>))
  /\ task' = At("recv")
  /\ UNCHANGED <<stopping, down, coord, mailbox, loaded, nextToken, pending, poisoned, storage, pc, lease, history, observed>>

CommitRefused ==
  /\ task.at = "commit"
  /\ \/ ~Acceptable(task.event) /\ ~AlreadyDurable(task.event)
     \/ "corrupt" \in faults
  /\ Poison
  /\ UNCHANGED <<stopping, down, coord, mailbox, loaded, nextToken, pending, storage, pc, lease, history, observed>>

CommitFailed ==
  /\ task.at = "commit" /\ "definite" \in faults
  /\ Answer(task.resp, Absent(task.event))
  /\ task' = At("recv")
  /\ UNCHANGED <<stopping, down, coord, mailbox, state, storage, pc, lease, history, observed>>

\* Io Indeterminate: the event is durable, or is not, or may yet become so.
CommitIndeterminate ==
  /\ task.at = "commit" /\ "indeterminate" \in faults
  /\ task' = [task EXCEPT !.at = "reload"]
  /\ \/ UNCHANGED storage
     \/ /\ Acceptable(task.event)
        /\ durable' = Append(durable, task.event)
        /\ UNCHANGED <<faults, limbo>>
     \/ /\ "late" \in faults
        /\ limbo' = task.event
        /\ UNCHANGED <<faults, durable>>
  /\ UNCHANGED <<stopping, down, coord, mailbox, state, callers, observed>>

\* The storage completes, on its own, a write it had reported as uncertain.
LateWrite ==
  /\ limbo # None /\ Acceptable(limbo)
  /\ durable' = Append(durable, limbo)
  /\ limbo' = None
  /\ UNCHANGED <<faults, stopping, down, coord, mailbox, task, state, callers, observed>>

\* Mutant: one new event is not told from none.
NothingLonger == Len(durable) <= Len(events) + 1

\* The reconciliation proves that the candidate was not committed.
ProvenAbsent == durable = events

\* The reconciliation proves that the candidate, and only it, was committed.
ProvenPresent == durable = Append(events, task.event)

Reload ==
  /\ task.at = "reload"
  /\ \/ /\ "unreadable" \in faults
        /\ Poison
     \/ /\ ProvenAbsent
        /\ Answer(task.resp, Absent(task.event))
        /\ task' = At("recv")
        /\ UNCHANGED <<events, active, poisoned>>
     \/ /\ ProvenPresent /\ ~ProvenAbsent
        /\ events' = durable
        /\ active' = MarkTerminal(task.event)
        /\ task' = [task EXCEPT !.at = "observe"]
        /\ UNCHANGED <<reply, poisoned>>
     \/ /\ ~ProvenAbsent /\ ~ProvenPresent
        /\ Poison
  /\ UNCHANGED <<stopping, down, coord, mailbox, loaded, nextToken, pending, storage, pc, lease, history, observed>>

\* Mutant: an event whose caller has gone is not observed.
ObserveIfAwaited == observed' = IF task.resp = None THEN observed ELSE Append(observed, task.event)

ObserveAll == observed' = Append(observed, task.event)

\* Errors of observers are logged and change nothing.
Observe ==
  /\ task.at = "observe"
  /\ ObserveAll
  /\ Answer(task.resp, Done(<<task.event>>))
  /\ task' = At("recv")
  /\ UNCHANGED <<stopping, down, coord, mailbox, state, storage, pc, lease, history>>

-----------------------------------------------------------------------------
(***************************************************************************)
(* The end of a turn, and of the coordinator.                              *)
(***************************************************************************)
\* TurnCommitSummary: what the log gained since the turn was admitted.
Summary == SubSeq(events, active.start + 1, Len(events))

ReceiveSettle ==
  /\ Receive("Settle")
  /\ LET m == Head(mailbox) IN
       /\ Answer(m.resp, IF OwnsLease(m) /\ ~poisoned THEN Done(Summary) ELSE Failed)
       /\ active' = IF OwnsLease(m) THEN NoTurn ELSE active
  /\ GrantPending
  /\ UNCHANGED <<stopping, down, coord, loaded, events, nextToken, pending, poisoned, storage, pc, lease, history, observed>>

ReceiveAbandon ==
  /\ Receive("Abandon")
  /\ IF OwnsLease(Head(mailbox))
     THEN active' = NoTurn /\ GrantPending
     ELSE UNCHANGED <<active, task>>
  /\ UNCHANGED <<stopping, down, coord, loaded, events, nextToken, pending, poisoned, storage, callers, observed>>

\* Mutant: the channel stays open.
ShutdownWithoutClose ==
  /\ Receive("Shutdown")
  /\ RejectPending
  /\ UNCHANGED <<stopping, down, coord, task, loaded, events, active, nextToken, poisoned, storage, pc, lease, history, observed>>

ReceiveShutdown ==
  /\ Receive("Shutdown")
  /\ coord' = "closed"
  /\ RejectPending
  /\ UNCHANGED <<stopping, down, task, loaded, events, active, nextToken, poisoned, storage, pc, lease, history, observed>>

\* recv() returns None once the closed channel is drained.
Exit ==
  /\ task.at = "recv" /\ mailbox = <<>> /\ coord = "closed"
  /\ coord' = "exited"
  /\ active' = NoTurn
  /\ RejectPending
  /\ UNCHANGED <<stopping, down, mailbox, task, loaded, events, nextToken, poisoned, storage, pc, lease, history, observed>>

Coordinator ==
  \/ ReceiveBegin \/ ReceiveAppend \/ ReceiveSettle \/ ReceiveAbandon \/ ReceiveShutdown
  \/ Sweep \/ Load \/ Grant
  \/ CommitAppended \/ CommitReplayed \/ CommitRefused \/ CommitFailed
  \/ CommitIndeterminate \/ Reload \/ Observe \/ Exit

\* RuntimeControl::shutdown: the flag, then the map of coordinators under its
\* lock, then the response and the join of the coordinator.
ShutdownFlag ==
  /\ down = "running"
  /\ stopping' = TRUE
  /\ down' = "flagged"
  /\ UNCHANGED <<coord, mailbox, task, state, storage, callers, observed>>

ShutdownSend ==
  /\ down = "flagged"
  /\ mailbox' = Sent(mailbox, ShutdownCmd)
  /\ down' = IF coord = "absent" THEN "done" ELSE "waiting"
  /\ UNCHANGED <<stopping, coord, task, state, storage, callers, observed>>

ShutdownReturn ==
  /\ down = "waiting" /\ coord = "exited"
  /\ down' = "done"
  /\ UNCHANGED <<stopping, coord, mailbox, task, state, storage, callers, observed>>

Shutdown == ShutdownFlag \/ ShutdownSend \/ ShutdownReturn

\* A runtime that is shut down and that nobody uses has stopped for good.
Terminated ==
  /\ down = "done"
  /\ \A c \in Callers : pc[c] = "idle"
  /\ UNCHANGED vars

Next == (\E c \in Callers : Caller(c)) \/ Coordinator \/ Shutdown \/ LateWrite \/ Terminated

Spec == Init /\ [][Next]_vars

-----------------------------------------------------------------------------
(***************************************************************************)
(* Properties.                                                             *)
(***************************************************************************)

\* Every variable keeps the shape its Rust type and its use in coordinator.rs
\* give it.
TypeOK ==
  /\ stopping \in BOOLEAN /\ down \in {"running", "flagged", "waiting", "done"}
  /\ coord \in {"absent", "open", "closed", "exited"}
  /\ mailbox \in Seq(Command) /\ task \in Task
  /\ loaded \in BOOLEAN /\ events \in Seq(Event) /\ active \in ActiveTurn
  /\ nextToken \in 1..TokenLimit /\ pending \in Seq(Callers \cup {None}) /\ poisoned \in BOOLEAN
  /\ faults \in Storages /\ durable \in Seq(Event) /\ limbo \in Event \cup {None}
  /\ pc \in [Callers -> {"idle", "checked", "located", "cleared", "begin", "turn", "append", "settle"}]
  /\ reply \in [Callers -> Reply]
  /\ lease \in [Callers -> Nat]
  /\ history \in [Callers -> Seq(Event)]
  /\ observed \in Seq(Event)

\* The storage tells at each load what it will hold for good.
Sound == "late" \notin faults

Running == coord \in {"open", "closed"}
Holds(c) == pc[c] \in {"turn", "append"}
Waits(c) == pc[c] \in {"begin", "append", "settle"} /\ reply[c] = NoReply

\* A caller that holds a turn owns the coordinator's lease until it gives it
\* up itself, whatever Settle or Abandon of an earlier lease is still on its
\* way, and no two callers hold one turn: turns of a Session never overlap.
LeaseExclusive ==
  \A c \in Callers : Holds(c) =>
    /\ Running => active.token = lease[c]
    /\ \A d \in Callers \ {c} : Holds(d) => lease[d] # lease[c]

\* An open lease is always on its way to being released: a caller has it, or
\* is being sent it, or the command that ends it is in the mailbox.  A grant
\* that raced with the cancellation of its Begin does not lock the Session.
LeaseNotLeaked ==
  coord = "open" /\ active.token # 0 =>
    \/ \E c \in Callers : lease[c] = active.token /\ (Waits(c) \/ Holds(c))
    \/ \E c \in Callers : reply[c].kind = "grant" /\ reply[c].token = active.token
    \/ \E m \in ToSet(mailbox) : m.op \in {"Settle", "Abandon"} /\ m.token = active.token

\* When the coordinator goes back to its mailbox with no turn active, no Begin
\* is left in the pending queue: nothing would ever look at it again.
NoWaiterStranded == task.at = "recv" /\ active.token = 0 => pending = <<>>

\* The durable log is a sequence of whole turns: the events of a turn are
\* contiguous, turns follow in the order of their leases, and nothing of a
\* turn follows its terminal event.
TurnsWhole ==
  \A i, j \in DOMAIN durable : i < j =>
    /\ durable[i].turn <= durable[j].turn
    /\ durable[i].turn = durable[j].turn /\ durable[i].turn # 0 => durable[i].kind \notin Terminal

\* Sequence numbers are gap-free and an identifier is durable once, whatever
\* is retried: the log the storage holds is one that a later load accepts.
DurableValid == ValidLog(durable)

\* What the coordinator remembers is what the storage holds, except while the
\* outcome of a commit is open and once it has given up on the Session.
MemoryCurrent ==
  loaded /\ ~poisoned /\ task.at # "reload" => events = durable

\* Whatever the storage does, the coordinator's memory never runs ahead of it.
MemoryIsPrefix == loaded => IsPrefix(events, durable)

\* The history a turn was admitted with is the log up to its own first event:
\* no event of another turn slips in between the snapshot and the turn.
SnapshotExact ==
  \A c \in Callers : Holds(c) =>
    /\ IsPrefix(history[c], durable)
    /\ \A i \in (Len(history[c]) + 1) .. Len(durable) : durable[i].turn = lease[c]

\* The summary of a settled turn is the part of the log the turn wrote.
SummaryExact ==
  \A c \in Callers : pc[c] = "settle" /\ reply[c].kind = "done" =>
    \E a, b \in 0 .. Len(durable) :
      /\ reply[c].events = SubSeq(durable, a + 1, b)
      /\ \A i \in DOMAIN durable : durable[i].turn = lease[c] <=> a < i /\ i <= b

\* An append answered Ok is durable; one answered "not committed" is not, also
\* after an indeterminate commit has been reconciled.
AnswerTruthful ==
  \A c \in Callers : pc[c] = "append" /\ reply[c] # NoReply =>
    /\ reply[c].kind = "done" => reply[c].events[1] \in ToSet(durable)
    /\ reply[c].kind = "absent" => reply[c].events[1].id \notin IdsOf(durable)

\* Observers are given every event this runtime made durable, once and in log
\* order, before the coordinator takes its next command.
ObservedExactly ==
  task.at = "recv" /\ ~poisoned =>
    \E a \in 0 .. Len(durable) :
      /\ observed = SubSeq(durable, a + 1, Len(durable))
      /\ \A i \in DOMAIN durable : durable[i].turn # 0 <=> a < i

\* Whatever the storage does, observers see durable events only, in log order
\* and never twice.
ObservedInOrder ==
  /\ ToSet(observed) \subseteq ToSet(durable)
  /\ \A i, j \in DOMAIN observed : i < j => observed[i].seq < observed[j].seq

\* A finished shutdown leaves no coordinator behind, and none is created after
\* it, however late a begin_turn reaches the map.
ShutdownFinal == down = "done" => coord \in {"absent", "exited"} /\ mailbox = <<>> /\ pending = <<>>

\* An open lease is on its way to being released, no Begin is left behind in the
\* queue of a Session without a turn, and a shutdown that is done has left no
\* coordinator, also when a grant, a cancellation or a begin_turn raced with it.
LeasesEnd == LeaseNotLeaked /\ NoWaiterStranded /\ ShutdownFinal

\* The log stays one of whole turns that a load accepts and the memory a part of
\* it, however late a write lands; with a sound storage the memory is the log, a
\* turn is admitted with all of it up to its own first event, and the summary of
\* the turn is what it added.
MemoryTruthful ==
  /\ DurableValid /\ TurnsWhole /\ MemoryIsPrefix
  /\ Sound => MemoryCurrent /\ SnapshotExact /\ SummaryExact

\* Observers see durable events, in log order and never twice; with a sound
\* storage they have seen every one before the next command is received.
ObserversFollow == ObservedInOrder /\ (Sound => ObservedExactly)

\* With a sound storage, what an append was answered about its event is so.
AnswersTruthful == Sound => AnswerTruthful

-----------------------------------------------------------------------------
(***************************************************************************)
(* Liveness.  The coordinator task and the shutdown are scheduled, storage *)
(* and observers answer, a caller takes the response it awaits and gives   *)
(* up its turn in the end, however many appends it makes first.            *)
(***************************************************************************)
FairCoordinator == WF_vars(Coordinator)

FairShutdown == WF_vars(ShutdownSend) /\ WF_vars(ShutdownReturn)

FairCallers ==
  \A c \in Callers :
    /\ WF_vars(BeginReturn(c) \/ AppendReturn(c) \/ SettleReturn(c))
    /\ SF_vars(SettleSend(c) \/ TurnDrop(c))

\* Every Begin is answered or cancelled, whoever holds the lease before it.
BeginAnswered == \A c \in Callers : pc[c] = "begin" ~> pc[c] # "begin"

\* A shutdown that was asked for returns.
ShutdownCompletes == down = "flagged" ~> down = "done"

-----------------------------------------------------------------------------
(***************************************************************************)
(* The coordinator implements the abstract Session log.                    *)
(***************************************************************************)
Log == INSTANCE SessionLog WITH log <- durable, turn <- active.token, last <- nextToken - 1

\* The durable log, the active turn and the tokens given out behave as the
\* abstract log does, through cancellations, faults and shutdown, as long as the
\* storage is sound: a write that lands late lands in whatever turn is open then.
ImplementsLog == Log!Spec
=============================================================================
