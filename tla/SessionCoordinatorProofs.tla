---------------------- MODULE SessionCoordinatorProofs ----------------------
(***************************************************************************)
(* Proofs about SessionCoordinator, for every set of callers and drafts,   *)
(* every set of storage faults and every bound. In this order:             *)
(*   TypeCorrect             the types of the variables                    *)
(*   LeaseIsExclusive        LeaseExclusive                                *)
(*   LeasesAreEnded          LeasesEnd                                     *)
(*   MemoryIsTruthful        MemoryTruthful                                *)
(*   ObserversAreShown       ObserversFollow                               *)
(*   AnswersAreTruthful      AnswersTruthful                               *)
(*   CoordinatorImplementsLog  every step of a coordinator whose storage   *)
(*                           has no late write is one of SessionLog        *)
(***************************************************************************)
EXTENDS SessionCoordinator, SequenceTheorems, TLAPS

-----------------------------------------------------------------------------
(***************************************************************************)
(* Facts about the operators the coordinator is built from.                *)
(***************************************************************************)

\* The commands that are ever sent: an Append carries a draft.
Sendable == {m \in Command : m.op = "Append" => m.draft \in Drafts}

\* Closing a response channel changes no command but in its channel.
LEMMA CloseKeepsCommands ==
  ASSUME mailbox \in Seq(Sendable), NEW c \in Callers
  PROVE  /\ CloseInMailbox(c) \in Seq(Sendable)
         /\ Len(CloseInMailbox(c)) = Len(mailbox)
         /\ \A i \in 1 .. Len(mailbox) :
              /\ CloseInMailbox(c)[i].op = mailbox[i].op
              /\ CloseInMailbox(c)[i].token = mailbox[i].token
              /\ CloseInMailbox(c)[i].resp = Closed(mailbox[i].resp, c)
<1> DEFINE closed(i) == [mailbox[i] EXCEPT !.resp = Closed(@, c)]
<1>1. Len(mailbox) \in Nat /\ DOMAIN mailbox = 1 .. Len(mailbox)
  BY LenProperties
<1>2. \A i \in 1 .. Len(mailbox) : mailbox[i] \in Sendable
  BY ElementOfSeq
<1>3. \A i \in 1 .. Len(mailbox) :
        /\ closed(i) \in Sendable
        /\ closed(i).op = mailbox[i].op
        /\ closed(i).token = mailbox[i].token
        /\ closed(i).resp = Closed(mailbox[i].resp, c)
  BY <1>2 DEF Sendable, Command, Closed
<1>4. CloseInMailbox(c) = [i \in 1 .. Len(mailbox) |-> closed(i)]
  BY <1>1 DEF CloseInMailbox
<1> HIDE DEF closed
<1>5. CloseInMailbox(c) \in [1 .. Len(mailbox) -> Sendable]
  BY <1>3, <1>4
<1>6. CloseInMailbox(c) \in Seq(Sendable)
  BY <1>1, <1>5, SeqDef
<1>7. Len(CloseInMailbox(c)) = Len(mailbox)
  BY <1>1, <1>5, <1>6, LenProperties
<1>8. QED
  BY <1>3, <1>4, <1>6, <1>7

\* Closing a response channel leaves as many Begins pending as there were.
LEMMA ClosePendingType ==
  ASSUME pending \in Seq(Callers \cup {None}), NEW c \in Callers
  PROVE  LET closed == [i \in DOMAIN pending |-> Closed(pending[i], c)]
         IN  /\ closed \in Seq(Callers \cup {None})
             /\ Len(closed) = Len(pending)
             /\ \A i \in 1 .. Len(pending) : closed[i] = Closed(pending[i], c)
<1>1. Len(pending) \in Nat /\ DOMAIN pending = 1 .. Len(pending)
  BY LenProperties
<1>2. \A i \in 1 .. Len(pending) : pending[i] \in Callers \cup {None}
  BY ElementOfSeq
<1>3. [i \in DOMAIN pending |-> Closed(pending[i], c)] \in [1 .. Len(pending) -> Callers \cup {None}]
  BY <1>1, <1>2 DEF Closed
<1>4. [i \in DOMAIN pending |-> Closed(pending[i], c)] \in Seq(Callers \cup {None})
  BY <1>1, <1>3, SeqDef
<1>5. Len([i \in DOMAIN pending |-> Closed(pending[i], c)]) = Len(pending)
  BY <1>1, <1>3, <1>4, LenProperties
<1>6. QED
  BY <1>1, <1>4, <1>5

\* A send leaves the commands before it where they are.
LEMMA SentKeepsCommands ==
  ASSUME NEW box \in Seq(Sendable), NEW m \in Sendable
  PROVE  /\ Sent(box, m) \in Seq(Sendable)
         /\ Len(Sent(box, m)) \in {Len(box), Len(box) + 1}
         /\ \A i \in 1 .. Len(box) : Sent(box, m)[i] = box[i]
         /\ Len(Sent(box, m)) = Len(box) + 1 => Sent(box, m)[Len(box) + 1] = m
BY AppendProperties, LenProperties DEF Sent

\* An answer to a caller is a reply.
LEMMA AnswerType ==
  ASSUME reply \in [Callers -> Reply], NEW c \in Callers \cup {None}, NEW r \in Reply,
         Answer(c, r)
  PROVE  reply' \in [Callers -> Reply]
BY DEF Answer

\* What the coordinator and the callers say to each other is well formed.
LEMMA MessageTypes ==
  /\ \A c \in Callers : Begin(c) \in Sendable
  /\ \A t \in Nat, d \in Drafts, c \in Callers : AppendCmd(t, d, c) \in Sendable
  /\ \A t \in Nat, c \in Callers : SettleCmd(t, c) \in Sendable
  /\ \A t \in Nat : Abandon(t) \in Sendable
  /\ ShutdownCmd \in Sendable
  /\ NoReply \in Reply /\ Failed \in Reply
  /\ \A s \in Seq(Event) : Done(s) \in Reply
  /\ \A e \in Event : Absent(e) \in Reply /\ Done(<<e>>) \in Reply
  /\ events \in Seq(Event) => \A t \in Nat : Granted(t) \in Reply
BY DEF Sendable, Command, Begin, AppendCmd, SettleCmd, Abandon, ShutdownCmd, Reply, NoReply, Failed,
       Done, Absent, Granted

\* Receiving the head moves every other command one place forward.
LEMMA ReceiveKeepsCommands ==
  ASSUME mailbox \in Seq(Sendable), NEW op, Receive(op)
  PROVE  /\ mailbox' \in Seq(Sendable)
         /\ Head(mailbox) = mailbox[1] /\ Head(mailbox) \in Sendable /\ Head(mailbox).op = op
         /\ Len(mailbox) \in Nat \ {0}
         /\ Len(mailbox') = Len(mailbox) - 1
         /\ \A i \in 1 .. Len(mailbox') : mailbox'[i] = mailbox[i + 1]
BY HeadTailProperties, LenProperties, EmptySeq DEF Receive

\* What is left of the queue is a queue.
LEMMA TailOfPending ==
  ASSUME pending \in Seq(Callers \cup {None}), pending # <<>>
  PROVE  Head(pending) \in Callers \cup {None} /\ Tail(pending) \in Seq(Callers \cup {None})
BY HeadTailProperties

\* The refusal of a waiter keeps the types of the replies.
LEMMA RejectType ==
  ASSUME reply \in [Callers -> Reply], RejectPending
  PROVE  reply' \in [Callers -> Reply] /\ pending' \in Seq(Callers \cup {None})
BY MessageTypes DEF RejectPending

-----------------------------------------------------------------------------
(***************************************************************************)
(* Types.  TypeOK is not inductive: the draft an Append carries and the    *)
(* event being committed must be there when the coordinator uses them.     *)
(***************************************************************************)
EventAtHand == task.at \in {"commit", "reload", "observe"} => task.event \in Event

TypeInv == TypeOK /\ mailbox \in Seq(Sendable) /\ EventAtHand

\* The initial states are typed.
LEMMA TypeInit == Init => TypeInv
<1> SUFFICES ASSUME Init PROVE TypeInv
  OBVIOUS
<1>1. durable \in Seq(Event)
  BY InitialLogsAssumption DEF Init
<1>2. NoReply \in Reply
  BY MessageTypes
<1>3. nextToken \in 1 .. TokenLimit
  BY BoundsAssumption DEF Init
<1>4. /\ mailbox \in Seq(Command) /\ events \in Seq(Event) /\ observed \in Seq(Event)
      /\ pending \in Seq(Callers \cup {None})
      /\ mailbox \in Seq(Sendable) /\ EventAtHand
  BY EmptySeq DEF Init, EventAtHand, At
<1>5. task \in Task /\ active \in ActiveTurn
  BY DEF Init, Task, At, ActiveTurn, NoTurn
<1>6. /\ pc \in [Callers -> {"idle", "checked", "located", "cleared", "begin", "turn", "append", "settle"}]
      /\ reply \in [Callers -> Reply]
      /\ lease \in [Callers -> Nat]
      /\ history \in [Callers -> Seq(Event)]
  <2>1. <<>> \in Seq(Event)
    BY EmptySeq
  <2>2. QED
    BY <1>2, <2>1 DEF Init
<1>7. QED
  BY <1>1, <1>3, <1>4, <1>5, <1>6 DEF Init, TypeOK, TypeInv

\* What the callers do keeps every variable in its type.
LEMMA TypeCallers ==
  ASSUME TypeInv, NEW c \in Callers, Caller(c)
  PROVE  TypeInv'
<1> USE DEF TypeInv, TypeOK, EventAtHand
<1>1. /\ CloseInMailbox(c) \in Seq(Sendable)
      /\ reply[c] \in Reply /\ lease[c] \in Nat
      /\ reply[c].token \in Nat /\ reply[c].events \in Seq(Event)
  BY CloseKeepsCommands DEF Reply
<1>2. \A box \in Seq(Sendable) :
        /\ Sent(box, Begin(c)) \in Seq(Sendable)
        /\ \A t \in Nat : /\ Sent(box, SettleCmd(t, c)) \in Seq(Sendable)
                          /\ Sent(box, Abandon(t)) \in Seq(Sendable)
                          /\ \A d \in Drafts : Append(box, AppendCmd(t, d, c)) \in Seq(Sendable)
  BY MessageTypes, SentKeepsCommands, AppendProperties
<1>3. mailbox' \in Seq(Sendable)
  <2>1. CASE BeginSend(c)
    BY <2>1, <1>2 DEF BeginSend
  <2>2. CASE AppendSend(c)
    BY <2>2, <1>1, <1>2 DEF AppendSend
  <2>3. CASE SettleSend(c)
    BY <2>3, <1>1, <1>2 DEF SettleSend
  <2>4. CASE SettleReturn(c)
    BY <2>4, <1>1, <1>2 DEF SettleReturn
  <2>5. CASE TurnDrop(c)
    BY <2>5, <1>1, <1>2 DEF TurnDrop
  <2>6. CASE BeginCancel(c)
    BY <2>6, <1>1, <1>2 DEF BeginCancel, DropGrant
  <2>7. CASE AppendCancel(c)
    BY <2>7, <1>1, <1>2 DEF AppendCancel
  <2>8. CASE SettleCancel(c)
    BY <2>8, <1>1, <1>2 DEF SettleCancel
  <2>9. CASE BeginCheck(c) \/ BeginLocate(c) \/ BeginRecheck(c) \/ BeginReturn(c) \/ AppendReturn(c)
    BY <2>9 DEF BeginCheck, BeginLocate, BeginRecheck, BeginReturn, AppendReturn
  <2>10. QED
    BY <2>1, <2>2, <2>3, <2>4, <2>5, <2>6, <2>7, <2>8, <2>9 DEF Caller
<1>4. mailbox' \in Seq(Command)
  BY <1>3, SeqMonotonic DEF Sendable
<1>5. NoReply \in Reply
  BY MessageTypes
<1>6. /\ pending' \in Seq(Callers \cup {None})
      /\ task' \in Task
      /\ task'.at = task.at /\ task'.event = task.event
  <2>1. CASE CloseElsewhere(c)
    BY <2>1, ClosePendingType DEF CloseElsewhere, Task, Closed
  <2>2. CASE UNCHANGED <<pending, task>>
    BY <2>2
  <2>3. QED
    BY <2>1, <2>2 DEF Caller, BeginCheck, BeginLocate, BeginRecheck, BeginSend, BeginReturn,
      BeginCancel, AppendSend, AppendReturn, AppendCancel, SettleSend, SettleReturn,
      SettleCancel, TurnDrop, state
<1>7. /\ pc' \in [Callers -> {"idle", "checked", "located", "cleared", "begin", "turn", "append", "settle"}]
      /\ reply' \in [Callers -> Reply]
      /\ lease' \in [Callers -> Nat]
      /\ history' \in [Callers -> Seq(Event)]
  <2>1. CASE BeginCheck(c) \/ BeginLocate(c) \/ BeginRecheck(c) \/ BeginSend(c) \/ AppendSend(c)
    BY <2>1 DEF BeginCheck, BeginLocate, BeginRecheck, BeginSend, AppendSend
  <2>2. CASE BeginReturn(c) \/ BeginCancel(c) \/ AppendReturn(c) \/ AppendCancel(c)
    BY <2>2, <1>1, <1>5 DEF BeginReturn, BeginCancel, AppendReturn, AppendCancel
  <2>3. CASE SettleSend(c) \/ SettleReturn(c) \/ SettleCancel(c) \/ TurnDrop(c)
    <3>1. <<>> \in Seq(Event)
      BY EmptySeq
    <3>2. /\ lease' \in {lease, [lease EXCEPT ![c] = 0]}
          /\ history' \in {history, [history EXCEPT ![c] = <<>>]}
      BY <2>3 DEF SettleSend, SettleReturn, SettleCancel, TurnDrop, DropLease
    <3>3. /\ pc' \in {[pc EXCEPT ![c] = "settle"], [pc EXCEPT ![c] = "idle"]}
          /\ reply' \in {reply, [reply EXCEPT ![c] = NoReply]}
      BY <2>3 DEF SettleSend, SettleReturn, SettleCancel, TurnDrop, DropLease
    <3>4. lease' \in [Callers -> Nat]
      BY <3>2
    <3>5. [history EXCEPT ![c] = <<>>] \in [Callers -> Seq(Event)]
      BY <3>1
    <3>6. history' \in [Callers -> Seq(Event)]
      BY <3>2, <3>5
    <3>7. QED
      BY <3>3, <3>4, <3>6, <1>5
  <2>4. QED
    BY <2>1, <2>2, <2>3 DEF Caller
<1>8. /\ coord' \in {"absent", "open", "closed", "exited"}
      /\ UNCHANGED <<stopping, down, loaded, events, active, nextToken, poisoned, faults, durable, limbo, observed>>
  BY DEF Caller, BeginCheck, BeginLocate, BeginRecheck, BeginSend, BeginReturn,
    BeginCancel, AppendSend, AppendReturn, AppendCancel, SettleSend, SettleReturn,
    SettleCancel, TurnDrop, state, storage
<1>9. QED
  BY <1>3, <1>4, <1>6, <1>7, <1>8

\* What the coordinator does keeps every variable in its type.
LEMMA TypeCoordinator ==
  ASSUME TypeInv, Coordinator
  PROVE  TypeInv'
<1> USE DEF TypeInv, TypeOK, EventAtHand
<1> DEFINE someone == Callers \cup {None}
<1>1. /\ task.resp \in someone /\ task.sweeping \in BOOLEAN
      /\ \A b \in BOOLEAN : NextCandidate(b) \in Task /\ NextCandidate(b).at \in {"recv", "sweep"}
      /\ \A p \in {"recv", "sweep"} : At(p) \in Task /\ At(p).at = p
  BY DEF Task, NextCandidate, At
<1>2. /\ \A i \in 1 .. Len(mailbox) : mailbox[i].resp \in someone
      /\ \A op : Receive(op) => Head(mailbox).resp \in someone
  BY ReceiveKeepsCommands, ElementOfSeq DEF Sendable, Command
<1>3. NoTurn \in ActiveTurn
  BY DEF NoTurn, ActiveTurn
<1>4. /\ NoReply \in Reply /\ Failed \in Reply
      /\ \A s \in Seq(Event) : Done(s) \in Reply
      /\ \A e \in Event : Absent(e) \in Reply /\ Done(<<e>>) \in Reply
      /\ Granted(nextToken) \in Reply
  BY MessageTypes
<1>5. ASSUME NEW r \in someone, NEW a \in Reply, Answer(r, a)
      PROVE  reply' \in [Callers -> Reply]
  BY <1>5, AnswerType
<1>6. \A r \in someone, b \in BOOLEAN :
        Admit(r, b) => /\ reply' \in [Callers -> Reply]
                       /\ task' \in Task
                       /\ task'.at \in {"recv", "sweep", "load", "grant"}
  <2> SUFFICES ASSUME NEW r \in someone, NEW b \in BOOLEAN, Admit(r, b)
               PROVE  /\ reply' \in [Callers -> Reply]
                      /\ task' \in Task
                      /\ task'.at \in {"recv", "sweep", "load", "grant"}
    OBVIOUS
  <2>1. CASE poisoned
    BY <2>1, <1>1, <1>4, <1>5 DEF Admit
  <2>2. CASE ~poisoned
    <3>1. \A p \in {"load", "grant"} : [At(p) EXCEPT !.resp = r, !.sweeping = b] \in Task
      BY DEF At, Task
    <3>2. \A p \in {"load", "grant"} : [At(p) EXCEPT !.resp = r, !.sweeping = b].at = p
      BY DEF At
    <3>3. \E p \in {"load", "grant"} : task' = [At(p) EXCEPT !.resp = r, !.sweeping = b]
      BY <2>2, Zenon DEF Admit
    <3>4. reply' = reply
      BY <2>2 DEF Admit
    <3>5. QED
      BY <3>1, <3>2, <3>3, <3>4
  <2>3. QED
    BY <2>1, <2>2
<1>7. CASE ReceiveBegin
  <2>1. mailbox' \in Seq(Sendable) /\ mailbox' \in Seq(Command)
    BY <1>7, ReceiveKeepsCommands, SeqMonotonic DEF ReceiveBegin, Sendable
  <2>2. pending' \in Seq(Callers \cup {None})
    <3>1. Head(mailbox).resp \in someone
      BY <1>2, <1>7 DEF ReceiveBegin
    <3>2. Append(pending, Head(mailbox).resp) \in Seq(someone)
      BY <3>1, AppendProperties
    <3>3. pending' = pending \/ pending' = Append(pending, Head(mailbox).resp)
      BY <1>7 DEF ReceiveBegin
    <3>4. QED
      BY <3>2, <3>3
  <2>3. /\ reply' \in [Callers -> Reply] /\ task' \in Task
        /\ EventAtHand'
    BY <1>2, <1>4, <1>5, <1>6, <1>7 DEF ReceiveBegin
  <2>4. QED
    BY <1>7, <2>1, <2>2, <2>3 DEF ReceiveBegin, storage
<1>8. CASE Sweep
  BY ZenonT(40), <1>8, <1>1, <1>4, <1>5, <1>6, TailOfPending DEF Sweep, storage
<1>9. CASE Load
  BY ZenonT(40), <1>9, <1>1, <1>4, <1>5 DEF Load, storage, Task
<1>10. CASE Grant
  <2>1. nextToken \in Nat /\ nextToken # TokenLimit => nextToken + 1 \in 1 .. TokenLimit
    BY BoundsAssumption
  <2>2. Abandon(nextToken) \in Sendable
    BY <2>1, MessageTypes
  <2>3. mailbox' \in Seq(Sendable) /\ mailbox' \in Seq(Command)
    <3>1. Sent(mailbox, Abandon(nextToken)) \in Seq(Sendable)
      BY <2>2, SentKeepsCommands
    <3>2. mailbox' \in Seq(Sendable)
      BY <1>10, <3>1 DEF Grant
    <3>3. QED
      BY <3>2, SeqMonotonic DEF Sendable
  <2>4. nextToken' \in 1 .. TokenLimit /\ active' \in ActiveTurn
    <3>1. Len(events) \in Nat /\ nextToken \in Nat
      BY LenProperties, BoundsAssumption
    <3>2. [token |-> nextToken, start |-> Len(events), closed |-> FALSE] \in ActiveTurn
      BY <3>1 DEF ActiveTurn
    <3>3. CASE UNCHANGED <<active, nextToken>>
      BY <3>3
    <3>4. CASE ~Exhausted /\ nextToken' = nextToken + 1
      BY <1>10, <2>1, <3>1, <3>2, <3>4 DEF Grant, Exhausted
    <3>5. QED
      BY <1>10, <3>3, <3>4 DEF Grant
  <2>5. reply' \in [Callers -> Reply] /\ task' \in Task /\ EventAtHand'
    BY <1>1, <1>4, <1>5, <1>10 DEF Grant
  <2>6. QED
    BY <1>10, <2>3, <2>4, <2>5 DEF Grant, storage
<1>11. CASE ReceiveAppend
  <2>1. /\ mailbox' \in Seq(Sendable) /\ mailbox' \in Seq(Command)
        /\ Head(mailbox) \in Sendable /\ Head(mailbox).op = "Append"
    BY <1>11, ReceiveKeepsCommands, SeqMonotonic DEF ReceiveAppend, Sendable
  <2>2. EventOf(Head(mailbox)) \in Event
    BY <2>1, DraftsAssumption, LenProperties DEF EventOf, Event, Sendable, Command, ActiveTurn
  <2>3. \A e \in Known(Head(mailbox)) : e \in Event
    BY LenProperties, ElementOfSeq DEF Known, ToSet
  <2>4. reply' \in [Callers -> Reply] /\ task' \in Task /\ EventAtHand'
    BY <1>2, <1>4, <1>5, <1>11, <2>2, <2>3 DEF ReceiveAppend, At, Task
  <2>5. QED
    BY <1>11, <2>1, <2>4 DEF ReceiveAppend, state, storage
<1>12. CASE CommitAppended \/ CommitReplayed \/ CommitRefused \/ CommitFailed
  <2>1. task.event \in Event /\ task.at = "commit"
    BY <1>12 DEF CommitAppended, CommitReplayed, CommitRefused, CommitFailed
  <2>2. /\ Append(durable, task.event) \in Seq(Event)
        /\ Append(events, task.event) \in Seq(Event)
        /\ MarkTerminal(task.event) \in ActiveTurn
    BY <2>1, AppendProperties DEF MarkTerminal, ActiveTurn
  <2>3. CASE CommitAppended
    BY <2>1, <2>2, <2>3 DEF CommitAppended, callers, Task
  <2>4. CASE CommitReplayed
    BY <2>1, <2>2, <2>4, <1>1, <1>4, <1>5 DEF CommitReplayed, storage
  <2>5. CASE CommitRefused
    BY <2>5, <1>1, <1>4, <1>5 DEF CommitRefused, Poison, storage
  <2>6. CASE CommitFailed
    BY <2>1, <2>6, <1>1, <1>4, <1>5 DEF CommitFailed, state, storage
  <2>7. QED
    BY <1>12, <2>3, <2>4, <2>5, <2>6
<1>13. CASE CommitIndeterminate
  <2>1. task.event \in Event
    BY <1>13 DEF CommitIndeterminate
  <2>2. Append(durable, task.event) \in Seq(Event)
    BY <2>1, AppendProperties
  <2>3. QED
    BY <1>13, <2>1, <2>2 DEF CommitIndeterminate, state, storage, callers, Task
<1>14. CASE Reload
  <2>1. task.event \in Event /\ task.at = "reload"
    BY <1>14 DEF Reload
  <2>2. MarkTerminal(task.event) \in ActiveTurn /\ [task EXCEPT !.at = "observe"] \in Task
    BY <2>1 DEF MarkTerminal, ActiveTurn, Task
  <2>3. reply' \in [Callers -> Reply] /\ task' \in Task /\ EventAtHand'
    <3>1. CASE Poison
      BY <3>1, <1>1, <1>4, <1>5 DEF Poison
    <3>2. CASE Answer(task.resp, Absent(task.event)) /\ task' = At("recv")
      BY <3>2, <1>1, <1>4, <1>5, <2>1
    <3>3. CASE task' = [task EXCEPT !.at = "observe"] /\ UNCHANGED reply
      BY <3>3, <2>1, <2>2 DEF Task
    <3>4. QED
      BY <1>14, <3>1, <3>2, <3>3 DEF Reload
  <2>4. events' \in Seq(Event) /\ active' \in ActiveTurn /\ poisoned' \in BOOLEAN
    BY <1>14, <2>2 DEF Reload, Poison
  <2>5. QED
    BY <1>14, <2>3, <2>4 DEF Reload, storage
<1>15. CASE Observe
  <2>1. task.event \in Event /\ Append(observed, task.event) \in Seq(Event)
    BY <1>15, AppendProperties DEF Observe
  <2>2. QED
    BY <1>1, <1>4, <1>5, <1>15, <2>1 DEF Observe, ObserveAll, state, storage
<1>16. CASE ReceiveSettle \/ ReceiveAbandon
  <2>1. mailbox' \in Seq(Sendable) /\ mailbox' \in Seq(Command)
    BY <1>16, ReceiveKeepsCommands, SeqMonotonic DEF ReceiveSettle, ReceiveAbandon, Sendable
  <2>2. Summary \in Seq(Event)
    BY LenProperties, ElementOfSeq, SubSeqProperties DEF Summary, ActiveTurn
  <2>3. active' \in ActiveTurn /\ task' \in Task /\ EventAtHand'
    BY <1>1, <1>3, <1>16 DEF ReceiveSettle, ReceiveAbandon, GrantPending
  <2>4. reply' \in [Callers -> Reply]
    BY <1>2, <1>4, <1>5, <1>16, <2>2 DEF ReceiveSettle, ReceiveAbandon, callers
  <2>5. QED
    BY <1>16, <2>1, <2>3, <2>4 DEF ReceiveSettle, ReceiveAbandon, storage, callers
<1>17. CASE ReceiveShutdown
  <2>1. mailbox' \in Seq(Sendable) /\ mailbox' \in Seq(Command)
    BY <1>17, ReceiveKeepsCommands, SeqMonotonic DEF ReceiveShutdown, Sendable
  <2>2. QED
    BY <1>17, <2>1, RejectType DEF ReceiveShutdown, storage
<1>18. CASE Exit
  BY <1>3, <1>18, RejectType DEF Exit, storage
<1>19. QED
  BY <1>7, <1>8, <1>9, <1>10, <1>11, <1>12, <1>13, <1>14, <1>15, <1>16, <1>17, <1>18
  DEF Coordinator

\* Every step keeps the types.
LEMMA TypeStep == TypeInv /\ [Next]_vars => TypeInv'
<1> SUFFICES ASSUME TypeInv, [Next]_vars PROVE TypeInv'
  OBVIOUS
<1>1. ASSUME NEW c \in Callers, Caller(c) PROVE TypeInv'
  BY <1>1, TypeCallers
<1>2. CASE Coordinator
  BY <1>2, TypeCoordinator
<1>3. CASE Shutdown
  <2>1. Sent(mailbox, ShutdownCmd) \in Seq(Sendable)
    BY MessageTypes, SentKeepsCommands DEF TypeInv
  <2>2. mailbox' \in Seq(Sendable) /\ mailbox' \in Seq(Command)
    BY <1>3, <2>1, SeqMonotonic
    DEF TypeInv, Shutdown, ShutdownFlag, ShutdownSend, ShutdownReturn, Sendable
  <2>3. QED
    BY <1>3, <2>2 DEF TypeInv, TypeOK, EventAtHand, Shutdown, ShutdownFlag, ShutdownSend,
      ShutdownReturn, state, storage, callers
<1>4. CASE LateWrite
  <2>1. Append(durable, limbo) \in Seq(Event)
    BY <1>4, AppendProperties DEF LateWrite, TypeInv, TypeOK
  <2>2. QED
    BY <1>4, <2>1 DEF LateWrite, TypeInv, TypeOK, EventAtHand, state, callers
<1>5. CASE UNCHANGED vars
  BY <1>5 DEF TypeInv, TypeOK, EventAtHand, vars, state, storage, callers
<1>6. QED
  BY <1>1, <1>2, <1>3, <1>4, <1>5 DEF Next, Terminated

\* So every state is typed.
LEMMA TypeInvariant == Spec => []TypeInv
<1>1. QED
  BY TypeInit, TypeStep, PTL DEF Spec

\* Type correctness: every variable of the coordinator, its callers and the
\* storage keeps its type, whatever the storage answers.
THEOREM TypeCorrect == Spec => []TypeOK
<1>1. TypeInv => TypeOK
  BY DEF TypeInv
<1>2. QED
  BY <1>1, TypeInvariant, PTL

-----------------------------------------------------------------------------
(***************************************************************************)
(* The inductive invariant behind LeaseExclusive.  A lease passes from the *)
(* coordinator (Offered: a grant in a response channel) to a caller (Has), *)
(* and back through the one Settle or Abandon that carries its token.      *)
(***************************************************************************)
Has(c) == pc[c] \in {"turn", "append", "settle"}
Offered(c) == reply[c].kind = "grant"

\* A caller may still write under the token t, or is being handed it.
Owns(c, t) == (Holds(c) /\ lease[c] = t) \/ (Offered(c) /\ reply[c].token = t)

Tokens == 0 .. TokenLimit

Releases(m) == m.op \in {"Settle", "Abandon"}

\* Tokens in circulation were drawn from the counter.
TokensSpent ==
  /\ active.token < nextToken
  /\ \A c \in Callers : lease[c] < nextToken /\ (Has(c) => lease[c] > 0)
  /\ \A c \in Callers : Offered(c) => 0 < reply[c].token /\ reply[c].token < nextToken
  /\ \A i \in 1 .. Len(mailbox) :
       mailbox[i].token < nextToken /\ (mailbox[i].op = "Append" => mailbox[i].token # 0)

\* No token is held or offered twice.
TokensUnique ==
  /\ \A c, d \in Callers : Has(c) /\ Has(d) /\ lease[c] = lease[d] => c = d
  /\ \A c, d \in Callers : Offered(c) /\ Offered(d) /\ reply[c].token = reply[d].token => c = d
  /\ \A c, d \in Callers : Has(c) /\ Offered(d) => lease[c] # reply[d].token

\* A token that is owned is the active one.
OwnersActive == coord # "exited" => \A c \in Callers, t \in Tokens : Owns(c, t) => active.token = t

\* Nothing in the mailbox releases a token that is owned.
NoReleaseSent ==
  \A i \in 1 .. Len(mailbox) : Releases(mailbox[i]) =>
    \A c \in Callers, t \in Tokens : Owns(c, t) => mailbox[i].token # t

\* An admission under way finds no active turn.
AdmittingIdle == task.at \in {"load", "grant", "sweep"} => active.token = 0

\* Only a running coordinator has commands to receive.
MailboxNeedsCoordinator == coord \in {"absent", "exited"} => mailbox = <<>>

LeaseInv ==
  /\ TokensSpent /\ TokensUnique /\ OwnersActive /\ NoReleaseSent
  /\ AdmittingIdle /\ MailboxNeedsCoordinator

\* The invariant of the leases holds at first.
LEMMA LeaseInit == Init => LeaseInv
<1> SUFFICES ASSUME Init PROVE LeaseInv
  OBVIOUS
<1>1. \A c \in Callers : ~Has(c) /\ ~Holds(c) /\ ~Offered(c) /\ lease[c] = 0
  BY DEF Init, Has, Holds, Offered, NoReply
<1>2. mailbox = <<>> /\ Len(mailbox) = 0 /\ nextToken = 1 /\ active.token = 0
  BY EmptySeq DEF Init, NoTurn
<1>3. QED
  BY <1>1, <1>2 DEF LeaseInv, TokensSpent, TokensUnique, OwnersActive, NoReleaseSent, Owns,
    AdmittingIdle, MailboxNeedsCoordinator

\* Most steps hand out no lease.  Then a caller that has or is offered one had
\* it, or was offered it, before, and a command in the mailbox was there
\* before or releases a token that its sender no longer owns.
NoNewOwner ==
  /\ nextToken' = nextToken
  /\ \A c \in Callers :
       /\ Has(c)' => Has(c) /\ lease'[c] = lease[c]
       /\ Holds(c)' => Holds(c)
       /\ Offered(c)' => Offered(c) /\ reply'[c] = reply[c]
       /\ lease'[c] \in {0, lease[c]}

OldCommands ==
  \A i \in 1 .. Len(mailbox') :
    \/ \E j \in 1 .. Len(mailbox) :
         mailbox'[i].op = mailbox[j].op /\ mailbox'[i].token = mailbox[j].token
    \/ /\ mailbox'[i].token < nextToken
       /\ mailbox'[i].op = "Append" => mailbox'[i].token # 0
       /\ Releases(mailbox'[i]) => \A c \in Callers, t \in Tokens : Owns(c, t)' => mailbox'[i].token # t

\* A step that hands out no lease keeps the invariant of the leases.
LEMMA NoNewOwnerKeeps ==
  ASSUME TypeInv, TypeInv', LeaseInv, NoNewOwner, OldCommands, active'.token \in {0, active.token}
  PROVE  TokensSpent' /\ TokensUnique' /\ NoReleaseSent'
<1> USE DEF LeaseInv, NoNewOwner
<1>1. nextToken \in Nat \ {0}
  BY BoundsAssumption DEF TypeInv, TypeOK
<1>2. /\ \A c \in Callers : lease[c] \in Nat /\ lease'[c] \in Nat /\ reply[c].token \in Nat
      /\ active.token \in Nat
  BY DEF TypeInv, TypeOK, Reply, ActiveTurn
<1>3. TokensSpent'
  <2>1. active'.token < nextToken'
    BY <1>1, <1>2 DEF TokensSpent
  <2>2. \A c \in Callers : lease'[c] < nextToken' /\ (Has(c)' => lease'[c] > 0)
    BY <1>1, <1>2 DEF TokensSpent
  <2>3. \A c \in Callers : Offered(c)' => 0 < reply'[c].token /\ reply'[c].token < nextToken'
    BY <1>2 DEF TokensSpent
  <2>4. \A i \in 1 .. Len(mailbox') :
          mailbox'[i].token < nextToken' /\ (mailbox'[i].op = "Append" => mailbox'[i].token # 0)
    BY DEF OldCommands, TokensSpent
  <2>5. QED
    BY <2>1, <2>2, <2>3, <2>4 DEF TokensSpent
<1>4. TokensUnique'
  BY DEF TokensUnique
<1>5. \A c \in Callers, t \in Tokens : Owns(c, t)' => Owns(c, t)
  BY DEF Owns, Has, Holds
<1>6. NoReleaseSent'
  <2> SUFFICES ASSUME NEW i \in 1 .. Len(mailbox'), Releases(mailbox'[i]),
                      NEW c \in Callers, NEW t \in Tokens, Owns(c, t)', mailbox'[i].token = t
               PROVE  FALSE
    BY DEF NoReleaseSent
  <2>1. PICK j \in 1 .. Len(mailbox) :
          mailbox'[i].op = mailbox[j].op /\ mailbox'[i].token = mailbox[j].token
    BY DEF OldCommands
  <2>2. Releases(mailbox[j]) /\ Owns(c, t) /\ mailbox[j].token = t
    BY <1>5, <2>1 DEF Releases
  <2>3. QED
    BY <2>2 DEF NoReleaseSent
<1>7. QED
  BY <1>3, <1>4, <1>6

\* What the callers do.
LEMMA LeaseCallers ==
  ASSUME TypeInv, TypeInv', LeaseInv, NEW c \in Callers, Caller(c)
  PROVE  LeaseInv'
<1> USE DEF LeaseInv
<1> DEFINE box == CloseInMailbox(c)
<1>1. /\ nextToken \in 1 .. TokenLimit /\ TokenLimit \in Nat
      /\ \A d \in Callers : /\ lease[d] \in Nat /\ lease[d] < nextToken
                            /\ reply[d].token \in Nat
                            /\ Offered(d) => reply[d].token < nextToken
  BY BoundsAssumption DEF TypeInv, TypeOK, Reply, TokensSpent
<1>2. /\ mailbox \in Seq(Sendable) /\ Len(mailbox) \in Nat
      /\ box \in Seq(Sendable) /\ Len(box) = Len(mailbox)
      /\ \A i \in 1 .. Len(mailbox) : box[i].op = mailbox[i].op /\ box[i].token = mailbox[i].token
  BY CloseKeepsCommands, LenProperties DEF TypeInv
<1>3. pc \in [Callers -> {"idle", "checked", "located", "cleared", "begin", "turn", "append", "settle"}]
      /\ reply \in [Callers -> Reply] /\ lease \in [Callers -> Nat]
  BY DEF TypeInv, TypeOK
<1> HIDE DEF box
<1>4. nextToken' = nextToken /\ active' = active /\ task'.at = task.at
  <2>1. CASE CloseElsewhere(c)
    BY <2>1 DEF CloseElsewhere, TypeInv, TypeOK, Task, Caller, BeginCheck, BeginLocate,
      BeginRecheck, BeginSend, BeginReturn, BeginCancel, AppendSend, AppendReturn, AppendCancel,
      SettleSend, SettleReturn, SettleCancel, TurnDrop, state
  <2>2. CASE UNCHANGED <<task, state>>
    BY <2>2 DEF state
  <2>3. QED
    BY <2>1, <2>2 DEF Caller, BeginCheck, BeginLocate, BeginRecheck, BeginSend, BeginReturn,
      BeginCancel, AppendSend, AppendReturn, AppendCancel, SettleSend, SettleReturn,
      SettleCancel, TurnDrop
<1>5. AdmittingIdle'
  BY <1>4 DEF AdmittingIdle
<1>6. coord' = coord \/ (coord = "absent" /\ coord' = "open" /\ mailbox' = mailbox)
  BY DEF Caller, BeginCheck, BeginLocate, BeginRecheck, BeginSend, BeginReturn, BeginCancel,
    AppendSend, AppendReturn, AppendCancel, SettleSend, SettleReturn, SettleCancel, TurnDrop
<1>7. MailboxNeedsCoordinator'
  <2> SUFFICES ASSUME coord \in {"absent", "exited"}, coord' = coord PROVE mailbox' = <<>>
    BY <1>6 DEF MailboxNeedsCoordinator
  <2>1. mailbox = <<>> /\ box = <<>>
    BY <1>2, EmptySeq, LenProperties DEF MailboxNeedsCoordinator
  <2>2. mailbox' \in {mailbox, box}
    BY DEF Caller, BeginCheck, BeginLocate, BeginRecheck, BeginSend, BeginReturn, BeginCancel,
      AppendSend, AppendReturn, AppendCancel, SettleSend, SettleReturn, SettleCancel, TurnDrop,
      DropGrant, Sent, box
  <2>3. QED
    BY <2>1, <2>2
<1>8. ASSUME NoNewOwner, OldCommands PROVE LeaseInv'
  <2>1. OwnersActive'
    BY <1>4, <1>6, <1>8 DEF OwnersActive, NoNewOwner, Owns, Holds, Has
  <2>2. QED
    BY <1>4, <1>5, <1>7, <1>8, <2>1, NoNewOwnerKeeps
<1>9. CASE BeginReturn(c) /\ Offered(c)
  <2>1. /\ Offered(c) /\ pc[c] = "begin" /\ ~Has(c) /\ ~Holds(c)
        /\ pc' = [pc EXCEPT ![c] = "turn"] /\ lease' = [lease EXCEPT ![c] = reply[c].token]
        /\ reply' = [reply EXCEPT ![c] = NoReply] /\ mailbox' = mailbox
    BY <1>9 DEF BeginReturn, Offered, Has, Holds
  <2>2. /\ Has(c)' /\ Holds(c)' /\ ~Offered(c)' /\ lease'[c] = reply[c].token
        /\ \A d \in Callers \ {c} :
             /\ lease'[d] = lease[d] /\ reply'[d] = reply[d]
             /\ Has(d)' <=> Has(d)
             /\ Holds(d)' <=> Holds(d)
             /\ Offered(d)' <=> Offered(d)
    BY <1>3, <2>1 DEF Has, Holds, Offered, NoReply
  <2>3. TokensSpent'
    BY <1>4, <2>1, <2>2 DEF TokensSpent
  <2>4. TokensUnique'
    BY <2>1, <2>2 DEF TokensUnique
  <2>5. \A d \in Callers, t \in Tokens : Owns(d, t)' => Owns(d, t)
    BY <2>1, <2>2 DEF Owns
  <2>6. OwnersActive' /\ NoReleaseSent'
    BY <1>4, <1>6, <2>1, <2>5 DEF OwnersActive, NoReleaseSent
  <2>7. QED
    BY <1>5, <1>7, <2>3, <2>4, <2>6
<1>10. CASE ~(BeginReturn(c) /\ Offered(c))
  <2>1. NoNewOwner
    <3>1. CASE BeginCheck(c) \/ BeginLocate(c) \/ BeginRecheck(c) \/ BeginSend(c) \/ BeginReturn(c)
      BY <1>3, <1>4, <1>10, <3>1 DEF BeginCheck, BeginLocate, BeginRecheck, BeginSend, BeginReturn,
        NoNewOwner, Has, Holds, Offered, NoReply
    <3>2. CASE BeginCancel(c) \/ AppendSend(c) \/ AppendReturn(c) \/ AppendCancel(c)
      BY <1>3, <1>4, <3>2 DEF BeginCancel, AppendSend, AppendReturn, AppendCancel,
        NoNewOwner, Has, Holds, Offered, NoReply
    <3>3. CASE SettleSend(c) \/ SettleReturn(c) \/ SettleCancel(c) \/ TurnDrop(c)
      BY <1>3, <1>4, <3>3 DEF SettleSend, SettleReturn, SettleCancel, TurnDrop, DropLease,
        NoNewOwner, Has, Holds, Offered, NoReply
    <3>4. QED
      BY <3>1, <3>2, <3>3 DEF Caller
  <2>2. OldCommands
    <3>1. ASSUME NEW b \in {mailbox, box}, NEW m \in Sendable, m.token < nextToken,
                 m.op = "Append" => m.token # 0,
                 mailbox' \in {Sent(b, m), Append(b, m)},
                 Releases(m) => \A d \in Callers, t \in Tokens : Owns(d, t)' => m.token # t
          PROVE  OldCommands
      <4>1. /\ mailbox' \in Seq(Sendable)
            /\ Len(mailbox') \in {Len(mailbox), Len(mailbox) + 1}
            /\ \A i \in 1 .. Len(mailbox) : mailbox'[i] = b[i]
            /\ Len(mailbox') = Len(mailbox) + 1 => mailbox'[Len(mailbox) + 1] = m
        <5>1. b \in Seq(Sendable) /\ Len(b) = Len(mailbox) /\ Len(b) \in Nat
          BY <1>2
        <5>2. CASE mailbox' = Append(b, m)
          BY <5>1, <5>2, AppendProperties
        <5>3. CASE mailbox' = Sent(b, m)
          <6>1. /\ Sent(b, m) \in Seq(Sendable)
                /\ Len(Sent(b, m)) \in {Len(b), Len(b) + 1}
                /\ \A i \in 1 .. Len(b) : Sent(b, m)[i] = b[i]
                /\ Len(Sent(b, m)) = Len(b) + 1 => Sent(b, m)[Len(b) + 1] = m
            BY <5>1, SentKeepsCommands
          <6>2. QED
            BY <5>1, <5>3, <6>1
        <5>4. QED
          BY <3>1, <5>2, <5>3
      <4>2. \A i \in 1 .. Len(mailbox) : b[i].op = mailbox[i].op /\ b[i].token = mailbox[i].token
        BY <1>2
      <4>3. \A i \in 1 .. Len(mailbox') : i \in 1 .. Len(mailbox) \/ mailbox'[i] = m
        BY <1>2, <4>1
      <4>4. QED
        BY <3>1, <4>1, <4>2, <4>3 DEF OldCommands
    <3>2. ASSUME mailbox' \in {mailbox, box} PROVE OldCommands
      BY <1>2, <3>2 DEF OldCommands
    <3>3. ASSUME Has(c), ~Holds(c)', NEW d \in Callers, NEW t \in Tokens, Owns(d, t)'
          PROVE  lease[c] # t
      BY <2>1, <3>3 DEF NoNewOwner, Owns, TokensUnique, Has, Holds
    <3>4. ASSUME Offered(c), ~Offered(c)', NEW d \in Callers, NEW t \in Tokens, Owns(d, t)'
          PROVE  reply[c].token # t
      BY <2>1, <3>4 DEF NoNewOwner, Owns, TokensUnique, Has, Holds
    <3>5. /\ Begin(c) \in Sendable /\ Begin(c).token = 0 /\ ~Releases(Begin(c))
          /\ Begin(c).op = "Begin"
          /\ \A t \in Nat :
               /\ \A d \in Drafts : /\ AppendCmd(t, d, c) \in Sendable
                                    /\ AppendCmd(t, d, c).token = t
                                    /\ ~Releases(AppendCmd(t, d, c))
               /\ SettleCmd(t, c) \in Sendable /\ SettleCmd(t, c).token = t
               /\ Abandon(t) \in Sendable /\ Abandon(t).token = t
               /\ SettleCmd(t, c).op = "Settle" /\ Abandon(t).op = "Abandon"
      BY MessageTypes DEF Begin, AppendCmd, SettleCmd, Abandon, Releases
    <3>6. CASE BeginCheck(c) \/ BeginLocate(c) \/ BeginRecheck(c) \/ BeginReturn(c)
               \/ AppendReturn(c) \/ AppendCancel(c)
      BY <3>2, <3>6 DEF BeginCheck, BeginLocate, BeginRecheck, BeginReturn, AppendReturn,
        AppendCancel, box
    <3>7. CASE BeginSend(c)
      BY <1>1, <3>1, <3>5, <3>7 DEF BeginSend
    <3>8. CASE AppendSend(c)
      <4>1. Has(c) /\ lease[c] # 0 /\ lease[c] \in Nat /\ lease[c] < nextToken
        BY <1>1, <3>8 DEF AppendSend, Has, TokensSpent
      <4>2. PICK d \in Drafts : mailbox' = Append(mailbox, AppendCmd(lease[c], d, c))
        BY <3>8 DEF AppendSend
      <4>3. QED
        BY ZenonT(40), <3>1, <3>5, <4>1, <4>2
    <3>9. CASE BeginCancel(c)
      <4>1. ~Offered(c)'
        BY <1>3, <3>9 DEF BeginCancel, Offered, NoReply
      <4>2. CASE Offered(c)
        <5>1. mailbox' = Sent(box, Abandon(reply[c].token))
          BY <3>9, <4>2 DEF BeginCancel, DropGrant, Offered, box
        <5>2. QED
          BY <1>1, <3>1, <3>4, <3>5, <4>1, <4>2, <5>1
      <4>3. CASE ~Offered(c)
        BY <3>2, <3>9, <4>3 DEF BeginCancel, DropGrant, Offered, box
      <4>4. QED
        BY <4>2, <4>3
    <3>10. CASE SettleSend(c) \/ SettleReturn(c) \/ SettleCancel(c) \/ TurnDrop(c)
      <4>1. Has(c) /\ ~Holds(c)'
        BY <1>3, <3>10 DEF SettleSend, SettleReturn, SettleCancel, TurnDrop, DropLease, Has, Holds
      <4>2. \/ mailbox' = mailbox
            \/ \E b \in {mailbox, box}, m \in {SettleCmd(lease[c], c), Abandon(lease[c])} :
                 mailbox' = Sent(b, m)
        BY <3>10 DEF SettleSend, SettleReturn, SettleCancel, TurnDrop, box
      <4>3. QED
        BY <1>1, <3>1, <3>2, <3>3, <3>5, <4>1, <4>2
    <3>11. QED
      BY <3>6, <3>7, <3>8, <3>9, <3>10 DEF Caller
  <2>3. QED
    BY <1>8, <2>1, <2>2
<1>11. QED
  BY <1>9, <1>10

\* What the coordinator does.
LEMMA LeaseCoordinator ==
  ASSUME TypeInv, TypeInv', LeaseInv, Coordinator
  PROVE  LeaseInv'
<1> USE DEF LeaseInv
<1>1. /\ nextToken \in 1 .. TokenLimit /\ TokenLimit \in Nat
      /\ active.token \in Nat
      /\ mailbox \in Seq(Sendable) /\ Len(mailbox) \in Nat
      /\ task.resp \in Callers \cup {None}
      /\ reply \in [Callers -> Reply]
  BY BoundsAssumption, LenProperties DEF TypeInv, TypeOK, ActiveTurn, Task
<1>2. ASSUME NEW r \in Callers \cup {None}, NEW a \in Reply, a.kind # "grant", Answer(r, a)
      PROVE  \A c \in Callers : Offered(c)' => Offered(c) /\ reply'[c] = reply[c]
  BY <1>1, <1>2 DEF Answer, Offered
<1>3. ASSUME NEW op, Receive(op)
      PROVE  /\ OldCommands /\ coord \notin {"absent", "exited"}
             /\ 1 \in 1 .. Len(mailbox) /\ Head(mailbox) = mailbox[1] /\ Head(mailbox).op = op
  <2>1. /\ Head(mailbox) = mailbox[1] /\ Head(mailbox).op = op
        /\ Len(mailbox) \in Nat \ {0} /\ Len(mailbox') = Len(mailbox) - 1
        /\ \A i \in 1 .. Len(mailbox') : mailbox'[i] = mailbox[i + 1]
    BY <1>1, <1>3, ReceiveKeepsCommands
  <2>2. \A i \in 1 .. Len(mailbox') : i + 1 \in 1 .. Len(mailbox)
    BY <2>1
  <2>3. OldCommands
    BY <2>1, <2>2 DEF OldCommands
  <2>4. coord \notin {"absent", "exited"}
    BY <1>3 DEF Receive, MailboxNeedsCoordinator
  <2>5. QED
    BY <2>1, <2>3, <2>4
<1>4. ASSUME mailbox' = mailbox PROVE OldCommands
  BY <1>4 DEF OldCommands
<1>5. ASSUME UNCHANGED <<nextToken, pc, lease>>,
             \A c \in Callers : Offered(c)' => Offered(c) /\ reply'[c] = reply[c]
      PROVE  /\ NoNewOwner
             /\ \A c \in Callers, t \in Tokens : Owns(c, t)' => Owns(c, t)
  BY <1>5 DEF NoNewOwner, Owns, Has, Holds
<1>6. ASSUME NoNewOwner, OldCommands, active'.token = active.token, coord' = coord,
             \A c \in Callers, t \in Tokens : Owns(c, t)' => Owns(c, t),
             AdmittingIdle', MailboxNeedsCoordinator'
      PROVE  LeaseInv'
  BY <1>6, NoNewOwnerKeeps DEF OwnersActive
<1>7. ASSUME NEW a \in Reply, a.kind # "grant",
             \/ \E r \in Callers \cup {None} : Answer(r, a)
             \/ RejectPending /\ a = Failed
             \/ UNCHANGED reply
      PROVE  \A c \in Callers : Offered(c)' => Offered(c) /\ reply'[c] = reply[c]
  BY <1>1, <1>2, <1>7 DEF RejectPending, Offered
<1>8. /\ Failed \in Reply /\ Failed.kind # "grant"
      /\ \A s \in Seq(Event) : Done(s) \in Reply /\ Done(s).kind # "grant"
      /\ \A e \in Event : /\ Absent(e) \in Reply /\ Absent(e).kind # "grant"
                          /\ Done(<<e>>) \in Reply /\ Done(<<e>>).kind # "grant"
  BY MessageTypes DEF Failed, Done, Absent
<1>9. \A b \in BOOLEAN : NextCandidate(b).at \in {"recv", "sweep"} /\ At("recv").at = "recv"
  BY DEF NextCandidate, At
<1>10. CASE ReceiveBegin
  <2>1. Head(mailbox).resp \in Callers \cup {None}
    BY <1>1, <1>10, HeadTailProperties DEF ReceiveBegin, Receive, Sendable, Command
  <2>2. \A c \in Callers : Offered(c)' => Offered(c) /\ reply'[c] = reply[c]
    BY <1>7, <1>8, <1>10, <2>1 DEF ReceiveBegin, Admit
  <2>3. AdmittingIdle'
    BY <1>10 DEF ReceiveBegin, Receive, AdmittingIdle
  <2>4. OldCommands /\ MailboxNeedsCoordinator'
    BY <1>3, <1>10 DEF ReceiveBegin, MailboxNeedsCoordinator
  <2>5. QED
    BY <1>5, <1>6, <1>10, <2>2, <2>3, <2>4 DEF ReceiveBegin
<1>11. CASE Sweep \/ Load
  <2>1. pending # <<>> => Head(pending) \in Callers \cup {None}
    BY TailOfPending DEF TypeInv, TypeOK
  <2>2. \A c \in Callers : Offered(c)' => Offered(c) /\ reply'[c] = reply[c]
    BY <1>1, <1>7, <1>8, <1>11, <2>1 DEF Sweep, Load, Admit
  <2>3. AdmittingIdle' /\ MailboxNeedsCoordinator'
    BY <1>11 DEF Sweep, Load, AdmittingIdle, MailboxNeedsCoordinator
  <2>4. QED
    BY <1>4, <1>5, <1>6, <1>11, <2>2, <2>3 DEF Sweep, Load
<1>12. CASE ReceiveAppend
  <2>1. Head(mailbox).resp \in Callers \cup {None}
    BY <1>1, <1>12, HeadTailProperties DEF ReceiveAppend, Receive, Sendable, Command
  <2>2. \A e \in Known(Head(mailbox)) : e \in Event
    BY LenProperties, ElementOfSeq DEF Known, ToSet, TypeInv, TypeOK
  <2>3. \A c \in Callers : Offered(c)' => Offered(c) /\ reply'[c] = reply[c]
    BY <1>7, <1>8, <1>12, <2>1, <2>2 DEF ReceiveAppend
  <2>4. task'.at \in {"recv", "commit"}
    BY <1>12 DEF ReceiveAppend, Receive, At
  <2>5. OldCommands /\ MailboxNeedsCoordinator'
    BY <1>3, <1>12 DEF ReceiveAppend, MailboxNeedsCoordinator
  <2>6. QED
    BY <1>5, <1>6, <1>12, <2>3, <2>4, <2>5 DEF ReceiveAppend, state, AdmittingIdle
<1>13. CASE CommitAppended \/ CommitReplayed \/ CommitRefused \/ CommitFailed
            \/ CommitIndeterminate \/ Reload \/ Observe
  <2>1. task.event \in Event
    BY <1>13 DEF TypeInv, EventAtHand, CommitAppended, CommitReplayed, CommitRefused, CommitFailed,
      CommitIndeterminate, Reload, Observe
  <2>2. \A c \in Callers : Offered(c)' => Offered(c) /\ reply'[c] = reply[c]
    <3>1. \E a \in Reply : /\ a.kind # "grant"
                           /\ Answer(task.resp, a) \/ UNCHANGED reply
      BY <1>8, <1>13, <2>1 DEF CommitAppended, CommitReplayed, CommitRefused, CommitFailed,
        CommitIndeterminate, Reload, Observe, Poison, callers
    <3>2. QED
      BY <1>1, <1>7, <3>1
  <2>3. active'.token = active.token
    BY <1>13 DEF CommitAppended, CommitReplayed, CommitRefused, CommitFailed,
      CommitIndeterminate, Reload, Observe, Poison, MarkTerminal, state, TypeInv, TypeOK, ActiveTurn
  <2>4. task'.at \in {"recv", "reload", "observe"}
    BY <1>13 DEF CommitAppended, CommitReplayed, CommitRefused, CommitFailed,
      CommitIndeterminate, Reload, Observe, Poison, At, TypeInv, TypeOK, Task
  <2>5. UNCHANGED <<nextToken, mailbox, coord, pc, lease>>
    BY <1>13 DEF CommitAppended, CommitReplayed, CommitRefused, CommitFailed,
      CommitIndeterminate, Reload, Observe, state, callers
  <2>6. QED
    BY <1>4, <1>5, <1>6, <2>2, <2>3, <2>4, <2>5 DEF AdmittingIdle, MailboxNeedsCoordinator
<1>14. CASE Grant
  <2>1. active.token = 0 /\ UNCHANGED <<coord, pc, lease>>
    BY <1>14 DEF Grant, AdmittingIdle
  <2>2. CASE Answer(task.resp, Failed) /\ task' = NextCandidate(task.sweeping)
             /\ UNCHANGED <<active, nextToken, mailbox>>
    <3>1. \A c \in Callers : Offered(c)' => Offered(c) /\ reply'[c] = reply[c]
      BY <1>1, <1>7, <1>8, <2>2
    <3>2. AdmittingIdle' /\ MailboxNeedsCoordinator'
      BY <2>1, <2>2 DEF AdmittingIdle, MailboxNeedsCoordinator
    <3>3. QED
      BY <1>4, <1>5, <1>6, <2>1, <2>2, <3>1, <3>2
  <2>3. ASSUME nextToken' = nextToken + 1, task.resp \in Callers,
               active' = [token |-> nextToken, start |-> Len(events), closed |-> FALSE],
               Answer(task.resp, Granted(nextToken)), task' = At("recv"), mailbox' = mailbox
        PROVE  LeaseInv'
    <3> PICK r \in Callers : r = task.resp
      BY <2>3
    <3>1. /\ active'.token = nextToken
          /\ reply' = [reply EXCEPT ![r] = Granted(nextToken)]
      BY <2>3, NoneAssumption DEF Answer
    <3>2. /\ Offered(r)' /\ reply'[r].token = nextToken
          /\ \A c \in Callers \ {r} : reply'[c] = reply[c] /\ (Offered(c)' <=> Offered(c))
      <4>1. reply'[r] = Granted(nextToken) /\ \A c \in Callers \ {r} : reply'[c] = reply[c]
        BY <1>1, <2>3, <3>1
      <4>2. QED
        BY <4>1 DEF Offered, Granted
    <3>3. \A c \in Callers : (Has(c)' <=> Has(c)) /\ (Holds(c)' <=> Holds(c))
      BY <2>1 DEF Has, Holds
    <3>4. \A c \in Callers : /\ lease[c] \in Nat /\ lease[c] < nextToken
                             /\ Offered(c) => reply[c].token \in Nat /\ reply[c].token < nextToken
      BY DEF TypeInv, TypeOK, TokensSpent, Reply
    <3>5. \A i \in 1 .. Len(mailbox) : mailbox[i].token \in Nat /\ mailbox[i].token < nextToken
      BY <1>1, ElementOfSeq DEF TokensSpent, Sendable, Command
    <3>6. TokensSpent'
      BY <1>1, <2>1, <2>3, <3>1, <3>2, <3>3, <3>4, <3>5 DEF TokensSpent
    <3>7. TokensUnique'
      BY <1>1, <2>1, <3>2, <3>3, <3>4 DEF TokensUnique
    <3>8. \A c \in Callers, t \in Tokens : Owns(c, t)' => Owns(c, t) \/ t = nextToken
      BY <2>1, <3>2, <3>3 DEF Owns
    <3>9. coord # "exited" => \A c \in Callers, t \in Tokens : ~Owns(c, t)
      BY <2>1, <3>4 DEF OwnersActive, TokensSpent, Owns, Holds, Has
    <3>10. OwnersActive'
      BY <2>1, <3>1, <3>8, <3>9 DEF OwnersActive
    <3>11. NoReleaseSent'
      BY <2>3, <3>5, <3>8 DEF NoReleaseSent
    <3>12. AdmittingIdle' /\ MailboxNeedsCoordinator'
      BY <1>9, <2>1, <2>3 DEF AdmittingIdle, MailboxNeedsCoordinator
    <3>13. QED
      BY <3>6, <3>7, <3>10, <3>11, <3>12
  <2>4. ASSUME nextToken' = nextToken + 1, mailbox' = Sent(mailbox, Abandon(nextToken)),
               task' = NextCandidate(task.sweeping), UNCHANGED <<active, reply>>
        PROVE  LeaseInv'
    <3>1. /\ Len(mailbox') \in {Len(mailbox), Len(mailbox) + 1}
          /\ \A i \in 1 .. Len(mailbox) : mailbox'[i] = mailbox[i]
          /\ Len(mailbox') = Len(mailbox) + 1 => mailbox'[Len(mailbox) + 1].token = nextToken
      <4>1. nextToken \in Nat /\ Abandon(nextToken) \in Sendable /\ Abandon(nextToken).token = nextToken
        BY <1>1, MessageTypes DEF Abandon
      <4>2. QED
        BY <1>1, <2>4, <4>1, SentKeepsCommands
    <3>2. \A i \in 1 .. Len(mailbox') :
            \/ i \in 1 .. Len(mailbox) /\ mailbox'[i] = mailbox[i]
            \/ mailbox'[i].token = nextToken
      BY <1>1, <3>1
    <3>3. \A i \in 1 .. Len(mailbox) : mailbox[i].token \in Nat /\ mailbox[i].token < nextToken
      BY <1>1, ElementOfSeq DEF TokensSpent, Sendable, Command
    <3>4. \A c \in Callers : /\ lease[c] \in Nat /\ lease[c] < nextToken
                             /\ Offered(c) => reply[c].token \in Nat /\ reply[c].token < nextToken
      BY DEF TypeInv, TypeOK, TokensSpent, Reply
    <3>5. \A c \in Callers : /\ Has(c)' <=> Has(c)
                             /\ Holds(c)' <=> Holds(c)
                             /\ Offered(c)' <=> Offered(c)
                             /\ \A t \in Tokens : Owns(c, t)' <=> Owns(c, t)
      BY <2>1, <2>4 DEF Has, Holds, Offered, Owns
    <3>6. TokensSpent'
      BY <1>1, <2>1, <2>4, <3>2, <3>3, <3>4, <3>5 DEF TokensSpent
    <3>7. TokensUnique' /\ OwnersActive'
      BY <2>1, <2>4, <3>5 DEF TokensUnique, OwnersActive
    <3>8. NoReleaseSent'
      <4>1. \A c \in Callers, t \in Tokens : Owns(c, t) => t # nextToken
        BY <1>1, <3>4 DEF Owns
      <4>2. QED
        BY <3>2, <3>5, <4>1 DEF NoReleaseSent
    <3>9. AdmittingIdle' /\ MailboxNeedsCoordinator'
      BY <2>1, <2>4 DEF AdmittingIdle, MailboxNeedsCoordinator, Sent
    <3>10. QED
      BY <3>6, <3>7, <3>8, <3>9
  <2>5. QED
    BY <1>1, <1>14, <2>2, <2>3, <2>4 DEF Grant
<1>15. CASE ReceiveSettle \/ ReceiveAbandon
  <2>1. /\ Releases(mailbox[1]) /\ 1 \in 1 .. Len(mailbox) /\ Head(mailbox) = mailbox[1]
        /\ OldCommands /\ coord \notin {"absent", "exited"}
    BY <1>3, <1>15 DEF ReceiveSettle, ReceiveAbandon, Releases
  <2>2. Head(mailbox).resp \in Callers \cup {None}
    BY <1>1, <1>15, HeadTailProperties DEF ReceiveSettle, ReceiveAbandon, Receive, Sendable, Command
  <2>3. Summary \in Seq(Event)
    BY LenProperties, ElementOfSeq, SubSeqProperties DEF Summary, ActiveTurn, TypeInv, TypeOK
  <2>4. \A c \in Callers : Offered(c)' => Offered(c) /\ reply'[c] = reply[c]
    <3>1. \E a \in Reply : /\ a.kind # "grant"
                           /\ Answer(Head(mailbox).resp, a) \/ UNCHANGED reply
      BY <1>8, <1>15, <2>3 DEF ReceiveSettle, ReceiveAbandon, callers
    <3>2. QED
      BY <1>7, <2>2, <3>1
  <2>5. /\ UNCHANGED <<nextToken, pc, lease, coord>>
        /\ active' = active \/ (active' = NoTurn /\ OwnsLease(Head(mailbox)))
    BY <1>15 DEF ReceiveSettle, ReceiveAbandon, callers
  <2>6. NoNewOwner /\ \A c \in Callers, t \in Tokens : Owns(c, t)' => Owns(c, t)
    BY <1>5, <2>4, <2>5
  <2>7. OwnsLease(Head(mailbox)) => \A c \in Callers, t \in Tokens : ~Owns(c, t)
    BY <2>1 DEF OwnsLease, OwnersActive, NoReleaseSent
  <2>8. OwnersActive' /\ active'.token \in {0, active.token}
    BY <2>5, <2>6, <2>7 DEF OwnersActive, NoTurn
  <2>9. AdmittingIdle' /\ MailboxNeedsCoordinator'
    BY <1>15, <2>1, <2>5
    DEF ReceiveSettle, ReceiveAbandon, Receive, GrantPending, At, AdmittingIdle,
      MailboxNeedsCoordinator
  <2>10. QED
    BY <2>1, <2>6, <2>8, <2>9, NoNewOwnerKeeps
<1>16. CASE ReceiveShutdown
  <2>1. \A c \in Callers : Offered(c)' => Offered(c) /\ reply'[c] = reply[c]
    BY <1>7, <1>8, <1>16 DEF ReceiveShutdown
  <2>2. NoNewOwner /\ OldCommands
    BY <1>3, <1>5, <1>16, <2>1 DEF ReceiveShutdown
  <2>3. OwnersActive' /\ AdmittingIdle' /\ MailboxNeedsCoordinator'
    BY <1>3, <1>5, <1>16, <2>1
    DEF ReceiveShutdown, OwnersActive, AdmittingIdle, MailboxNeedsCoordinator
  <2>4. QED
    BY <1>16, <2>2, <2>3, NoNewOwnerKeeps DEF ReceiveShutdown
<1>17. CASE Exit
  <2>1. \A c \in Callers : Offered(c)' => Offered(c) /\ reply'[c] = reply[c]
    BY <1>7, <1>8, <1>17 DEF Exit
  <2>2. NoNewOwner /\ OldCommands /\ active'.token = 0
    BY <1>4, <1>5, <1>17, <2>1 DEF Exit, NoTurn
  <2>3. OwnersActive' /\ AdmittingIdle' /\ MailboxNeedsCoordinator'
    BY <1>17, <2>2 DEF Exit, OwnersActive, AdmittingIdle, MailboxNeedsCoordinator
  <2>4. QED
    BY <2>2, <2>3, NoNewOwnerKeeps
<1>18. QED
  BY <1>10, <1>11, <1>12, <1>13, <1>14, <1>15, <1>16, <1>17 DEF Coordinator

\* Every step keeps the invariant of the leases.
LEMMA LeaseStep == TypeInv /\ TypeInv' /\ LeaseInv /\ [Next]_vars => LeaseInv'
<1> SUFFICES ASSUME TypeInv, TypeInv', LeaseInv, [Next]_vars PROVE LeaseInv'
  OBVIOUS
<1>1. ASSUME NEW c \in Callers, Caller(c) PROVE LeaseInv'
  BY <1>1, LeaseCallers
<1>2. CASE Coordinator
  BY <1>2, LeaseCoordinator
<1>3. CASE Shutdown
  <2>1. /\ mailbox' \in {mailbox, Sent(mailbox, ShutdownCmd)}
        /\ UNCHANGED <<coord, task, state, callers>>
    BY <1>3 DEF Shutdown, ShutdownFlag, ShutdownSend, ShutdownReturn
  <2>2. /\ mailbox \in Seq(Sendable) /\ Len(mailbox) \in Nat
        /\ ShutdownCmd \in Sendable /\ ShutdownCmd.token = 0 /\ ~Releases(ShutdownCmd)
        /\ ShutdownCmd.op = "Shutdown"
        /\ nextToken \in 1 .. TokenLimit
    BY MessageTypes, LenProperties DEF TypeInv, TypeOK, ShutdownCmd, Releases
  <2>3. \A i \in 1 .. Len(mailbox') :
          (i \in 1 .. Len(mailbox) /\ mailbox'[i] = mailbox[i]) \/ mailbox'[i] = ShutdownCmd
    <3>1. /\ Len(Sent(mailbox, ShutdownCmd)) \in {Len(mailbox), Len(mailbox) + 1}
          /\ \A i \in 1 .. Len(mailbox) : Sent(mailbox, ShutdownCmd)[i] = mailbox[i]
          /\ Len(Sent(mailbox, ShutdownCmd)) = Len(mailbox) + 1 =>
               Sent(mailbox, ShutdownCmd)[Len(mailbox) + 1] = ShutdownCmd
      BY <2>2, SentKeepsCommands
    <3>2. QED
      BY <2>1, <2>2, <3>1
  <2>4. OldCommands
    BY <2>2, <2>3 DEF OldCommands
  <2>5. NoNewOwner /\ active' = active
    BY <2>1 DEF NoNewOwner, Has, Holds, Offered, state, callers
  <2>6. OwnersActive' /\ AdmittingIdle'
    BY <2>1 DEF LeaseInv, OwnersActive, AdmittingIdle, Owns, Holds, Offered, state, callers
  <2>7. MailboxNeedsCoordinator'
    BY <2>1 DEF LeaseInv, MailboxNeedsCoordinator, Sent
  <2>8. QED
    BY <2>4, <2>5, <2>6, <2>7, NoNewOwnerKeeps DEF LeaseInv
<1>4. CASE LateWrite \/ UNCHANGED vars
  <2>1. UNCHANGED <<coord, mailbox, task, state, callers>>
    BY <1>4 DEF LateWrite, vars
  <2>2. QED
    BY <2>1 DEF LeaseInv, TokensSpent, TokensUnique, OwnersActive, NoReleaseSent, AdmittingIdle,
      MailboxNeedsCoordinator, Owns, Has, Holds, Offered, Releases, state, callers
<1>5. QED
  BY <1>1, <1>2, <1>3, <1>4 DEF Next, Terminated

\* Turns of a Session never overlap: a caller that holds a turn owns the
\* coordinator's lease as long as a coordinator runs, and no other caller
\* holds the same turn.
THEOREM LeaseIsExclusive == Spec => []LeaseExclusive
<1>1. TypeInv /\ LeaseInv => LeaseExclusive
  <2> SUFFICES ASSUME TypeInv, LeaseInv, NEW c \in Callers, Holds(c)
               PROVE  /\ Running => active.token = lease[c]
                      /\ \A d \in Callers \ {c} : Holds(d) => lease[d] # lease[c]
    BY DEF LeaseExclusive
  <2>1. lease[c] \in Tokens
    BY BoundsAssumption DEF TypeInv, TypeOK, LeaseInv, TokensSpent, Tokens
  <2>2. Running => active.token = lease[c]
    BY <2>1 DEF LeaseInv, OwnersActive, Owns, Running
  <2>3. \A d \in Callers \ {c} : Holds(d) => lease[d] # lease[c]
    BY DEF LeaseInv, TokensUnique, Holds, Has
  <2>4. QED
    BY <2>2, <2>3
<1>2. Spec => []LeaseInv
  BY LeaseInit, LeaseStep, TypeInvariant, PTL DEF Spec
<1>3. QED
  BY <1>1, <1>2, TypeInvariant, PTL

-----------------------------------------------------------------------------
(***************************************************************************)
(* The log.  What follows holds of every storage, one that completes a     *)
(* failed write late included.  Sequences are compared element by element. *)
(***************************************************************************)

\* The coordinator's memory is the beginning of what the storage holds.
MemoryFollows ==
  /\ Len(events) <= Len(durable)
  /\ \A i \in 1 .. Len(events) : events[i] = durable[i]

\* Events are numbered by their places and belong to turns already given out.
Numbered == \A i \in 1 .. Len(durable) : durable[i].seq = i - 1 /\ durable[i].turn < nextToken

Distinct == \A i, j \in 1 .. Len(durable) : durable[i].id = durable[j].id => i = j

Whole ==
  \A i, j \in 1 .. Len(durable) : i < j =>
    /\ durable[i].turn <= durable[j].turn
    /\ durable[i].turn = durable[j].turn /\ durable[i].turn # 0 => durable[i].kind \notin Terminal

\* The event e keeps the log whole if the log ends where e was meant to go.
Follows(e) ==
  /\ 0 < e.turn /\ e.turn < nextToken
  /\ e.seq <= Len(durable)
  /\ e.seq = Len(durable) =>
       \A i \in 1 .. Len(durable) :
         /\ durable[i].turn <= e.turn
         /\ durable[i].turn = e.turn => durable[i].kind \notin Terminal

LimboFollows == limbo # None => Follows(limbo)

\* A turn that is open is the last that was given out.
ActiveIsLast == active.token # 0 => active.token = nextToken - 1

\* The coordinator knows the terminal event of a turn it takes for ended.
OpenNotEnded ==
  active.token # 0 /\ ~active.closed =>
    \A i \in 1 .. Len(events) : events[i].turn = active.token => events[i].kind \notin Terminal

\* The event being committed is the next one of the open turn.
CandidateNext ==
  task.at \in {"commit", "reload"} =>
    /\ active.token # 0 /\ ~active.closed
    /\ task.event.turn = active.token
    /\ task.event.seq = Len(events)
    /\ \A i \in 1 .. Len(events) : events[i].id # task.event.id

\* The log is loaded before a turn is admitted, and a coordinator that has
\* given up on its memory admits and commits nothing.
Stages ==
  /\ task.at = "load" => ~loaded
  /\ task.at \in {"grant", "commit", "reload", "observe"} => loaded
  /\ task.at \notin {"recv", "sweep"} => ~poisoned
  /\ active.token # 0 => loaded

\* How much of its memory the coordinator has shown to the observers.
Seen == IF task.at = "observe" THEN Len(events) - 1 ELSE Len(events)

ObservedSoFar ==
  /\ task.at = "observe" =>
       Len(events) > 0 /\ task.event = events[Len(events)] /\ task.event.turn > 0
  /\ \A i \in 1 .. Len(observed) :
       observed[i].seq < Seen /\ observed[i] = events[observed[i].seq + 1]
  /\ \A i, j \in 1 .. Len(observed) : i < j => observed[i].seq < observed[j].seq

LogInv ==
  /\ MemoryFollows /\ Numbered /\ Distinct /\ Whole /\ LimboFollows
  /\ ActiveIsLast /\ OpenNotEnded /\ CandidateNext /\ Stages /\ ObservedSoFar

\* What most proofs about the log use of the types.
LEMMA LogTypes ==
  ASSUME TypeInv
  PROVE  /\ Len(durable) \in Nat /\ Len(events) \in Nat /\ Len(observed) \in Nat
         /\ durable \in Seq(Event) /\ events \in Seq(Event) /\ observed \in Seq(Event)
         /\ \A i \in 1 .. Len(durable) : durable[i] \in Event
         /\ \A i \in 1 .. Len(events) : events[i] \in Event
         /\ \A i \in 1 .. Len(observed) : observed[i] \in Event
         /\ nextToken \in Nat \ {0} /\ active \in ActiveTurn /\ active.token \in Nat
         /\ task \in Task
         /\ task.at \in {"commit", "reload", "observe"} => task.event \in Event
         /\ limbo # None => limbo \in Event
         /\ \A e \in Event : e.turn \in Nat /\ e.seq \in Nat
<1>1. durable \in Seq(Event) /\ events \in Seq(Event) /\ observed \in Seq(Event)
  BY DEF TypeInv, TypeOK
<1>2. \A s \in Seq(Event) : Len(s) \in Nat /\ \A i \in 1 .. Len(s) : s[i] \in Event
  BY LenProperties, ElementOfSeq
<1>3. /\ nextToken \in Nat \ {0} /\ active \in ActiveTurn /\ active.token \in Nat
      /\ task \in Task
      /\ task.at \in {"commit", "reload", "observe"} => task.event \in Event
      /\ limbo # None => limbo \in Event
  BY BoundsAssumption DEF TypeInv, TypeOK, EventAtHand, ActiveTurn
<1>4. \A e \in Event : e.turn \in Nat /\ e.seq \in Nat
  BY DEF Event
<1>5. QED
  BY <1>1, <1>2, <1>3, <1>4

\* The invariant of the log holds at first.
LEMMA LogInit == Init => LogInv
<1> SUFFICES ASSUME Init PROVE LogInv
  OBVIOUS
<1>1. /\ durable \in InitialLogs /\ durable \in Seq(Event) /\ ValidLog(durable)
      /\ DOMAIN durable = 1 .. Len(durable) /\ Len(durable) \in Nat
      /\ \A i \in 1 .. Len(durable) : durable[i].turn = 0
  BY InitialLogsAssumption, LenProperties DEF Init
<1>2. Len(events) = 0 /\ Len(observed) = 0 /\ task.at = "recv" /\ active.token = 0 /\ nextToken = 1 /\ limbo = None
  BY EmptySeq DEF Init, At, NoTurn
<1>3. Numbered /\ Distinct /\ Whole
  BY <1>1, <1>2 DEF ValidLog, Numbered, Distinct, Whole
<1>4. MemoryFollows /\ LimboFollows /\ ActiveIsLast /\ OpenNotEnded /\ CandidateNext
  BY <1>1, <1>2 DEF MemoryFollows, LimboFollows, ActiveIsLast, OpenNotEnded, CandidateNext
<1>5. Stages /\ ObservedSoFar
  BY <1>1, <1>2 DEF Stages, ObservedSoFar, Seen
<1>6. QED
  BY <1>3, <1>4, <1>5 DEF LogInv

\* A step that changes neither the storage nor takes a token back.
LEMMA StorageKept ==
  ASSUME TypeInv, TypeInv', LogInv, durable' = durable, limbo' = limbo, nextToken' \in {nextToken, nextToken + 1}
  PROVE  Numbered' /\ Distinct' /\ Whole' /\ LimboFollows'
BY LogTypes DEF LogInv, Numbered, Distinct, Whole, LimboFollows, Follows

\* An event that follows the log under a fresh identifier leaves it whole.
LEMMA AppendKeepsLog ==
  ASSUME TypeInv, TypeInv', LogInv, NEW e \in Event, Follows(e), Acceptable(e),
         durable' = Append(durable, e), nextToken' = nextToken, limbo' \in {None, limbo}
  PROVE  /\ Numbered' /\ Distinct' /\ Whole' /\ LimboFollows'
         /\ Len(durable') = Len(durable) + 1
         /\ durable'[Len(durable) + 1] = e
         /\ \A i \in 1 .. Len(durable) : durable'[i] = durable[i]
<1>1. /\ Len(durable) \in Nat /\ DOMAIN durable = 1 .. Len(durable)
      /\ Len(durable') = Len(durable) + 1
      /\ durable'[Len(durable) + 1] = e
      /\ \A i \in 1 .. Len(durable) : durable'[i] = durable[i]
  BY LogTypes, AppendProperties, LenProperties
<1>2. e.seq = Len(durable) /\ \A i \in 1 .. Len(durable) : durable[i].id # e.id
  BY <1>1 DEF Acceptable, IdsOf
<1>3. \A i \in 1 .. Len(durable') : i \in 1 .. Len(durable) \/ i = Len(durable) + 1
  BY <1>1
<1>4. Numbered'
  BY <1>1, <1>2, <1>3 DEF LogInv, Numbered, Follows
<1>5. Distinct'
  BY <1>1, <1>2, <1>3 DEF LogInv, Distinct
<1>6. Whole'
  BY <1>1, <1>2, <1>3 DEF LogInv, Whole, Follows
<1>7. LimboFollows'
  <2>1. SUFFICES ASSUME limbo' # None PROVE Follows(limbo)'
    BY DEF LimboFollows
  <2>2. limbo' = limbo /\ Follows(limbo) /\ limbo.seq \in Nat
    BY <2>1, LogTypes DEF LogInv, LimboFollows
  <2>3. QED
    BY <1>1, <2>2 DEF Follows
<1>8. QED
  BY <1>1, <1>4, <1>5, <1>6, <1>7

\* The event being committed follows the log.
LEMMA CandidateFollows ==
  ASSUME TypeInv, LogInv, task.at \in {"commit", "reload"}
  PROVE  /\ task.event \in Event /\ Follows(task.event)
         /\ task.event.seq = Len(durable) => Len(durable) = Len(events)
<1>1. task.event \in Event /\ task.event.turn = active.token /\ task.event.seq = Len(events)
  BY LogTypes DEF LogInv, CandidateNext
<1>2. 0 < active.token /\ active.token < nextToken /\ Len(events) <= Len(durable)
  BY LogTypes DEF LogInv, CandidateNext, ActiveIsLast, MemoryFollows
<1>3. ASSUME Len(events) = Len(durable), NEW i \in 1 .. Len(durable)
      PROVE  /\ durable[i].turn <= active.token
             /\ durable[i].turn = active.token => durable[i].kind \notin Terminal
  <2>1. durable[i].turn \in Nat /\ durable[i].turn < nextToken
    BY LogTypes DEF LogInv, Numbered
  <2>2. events[i] = durable[i] /\ active.token = nextToken - 1
    BY <1>2, <1>3, LogTypes DEF LogInv, MemoryFollows, ActiveIsLast
  <2>3. QED
    BY <1>2, <1>3, <2>1, <2>2, LogTypes DEF LogInv, OpenNotEnded, CandidateNext
<1>4. QED
  BY <1>1, <1>2, <1>3 DEF Follows

\* The log and the coordinator's memory of it.
Remembered == <<faults, durable, limbo, events, active, nextToken, loaded, poisoned, observed>>

\* A step that touches neither the log nor where the coordinator is.
LogKept == UNCHANGED Remembered /\ task'.at = task.at /\ task'.event = task.event

\* No caller moves the memory, the log or what the coordinator is writing.
LEMMA CallersKeepLog ==
  ASSUME TypeInv, NEW c \in Callers, Caller(c)
  PROVE  LogKept
<1>1. CASE CloseElsewhere(c)
  BY <1>1 DEF CloseElsewhere, TypeInv, TypeOK, Task, Caller, BeginCheck, BeginLocate,
    BeginRecheck, BeginSend, BeginReturn, BeginCancel, AppendSend, AppendReturn, AppendCancel,
    SettleSend, SettleReturn, SettleCancel, TurnDrop, state, storage, LogKept, Remembered
<1>2. CASE UNCHANGED <<task, state>>
  BY <1>2 DEF Caller, BeginCheck, BeginLocate,
    BeginRecheck, BeginSend, BeginReturn, BeginCancel, AppendSend, AppendReturn, AppendCancel,
    SettleSend, SettleReturn, SettleCancel, TurnDrop, state, storage, LogKept, Remembered
<1>3. QED
  BY <1>1, <1>2 DEF Caller, BeginCheck, BeginLocate, BeginRecheck, BeginSend, BeginReturn,
    BeginCancel, AppendSend, AppendReturn, AppendCancel, SettleSend, SettleReturn,
    SettleCancel, TurnDrop

\* What leaves the log and the memory alone keeps the invariant of the log.
LEMMA KeptLog == LogInv /\ LogKept => LogInv'
<1> SUFFICES ASSUME LogInv, LogKept PROVE LogInv'
  OBVIOUS
<1> USE DEF LogInv, LogKept, Remembered
<1>1. MemoryFollows' /\ Numbered' /\ Distinct' /\ Whole'
  BY DEF MemoryFollows, Numbered, Distinct, Whole
<1>2. LimboFollows' /\ ActiveIsLast' /\ OpenNotEnded'
  BY DEF LimboFollows, Follows, ActiveIsLast, OpenNotEnded
<1>3. CandidateNext' /\ Stages' /\ ObservedSoFar'
  BY DEF CandidateNext, Stages, ObservedSoFar, Seen
<1>4. QED
  BY <1>1, <1>2, <1>3

\* A step of the coordinator that neither writes nor begins to.
Idle ==
  /\ UNCHANGED <<durable, limbo, events, observed>>
  /\ task.at # "observe" /\ task'.at \notin {"commit", "reload", "observe"}
  /\ active' \in {active, NoTurn}
  /\ nextToken' = nextToken \/ (nextToken' = nextToken + 1 /\ active'.token = 0)

\* An idle coordinator turns to its next command without moving the log.
LEMMA IdleKeepsLog ==
  ASSUME TypeInv, TypeInv', LogInv, Idle, Stages'
  PROVE  LogInv'
<1> USE DEF Idle
<1>1. Numbered' /\ Distinct' /\ Whole' /\ LimboFollows'
  BY StorageKept
<1>2. MemoryFollows' /\ CandidateNext'
  BY DEF LogInv, MemoryFollows, CandidateNext
<1>3. ActiveIsLast' /\ OpenNotEnded'
  BY DEF LogInv, ActiveIsLast, OpenNotEnded, NoTurn
<1>4. ObservedSoFar'
  BY DEF LogInv, ObservedSoFar, Seen
<1>5. QED
  BY <1>1, <1>2, <1>3, <1>4 DEF LogInv

\* Where the coordinator goes from an admission.
LEMMA Places ==
  /\ At("recv").at = "recv" /\ At("sweep").at = "sweep"
  /\ \A b : NextCandidate(b).at \in {"recv", "sweep"}
BY DEF At, NextCandidate

\* The steps of the coordinator that write nothing.
LEMMA LogAdmission ==
  ASSUME TypeInv, TypeInv', LeaseInv, LogInv,
         \/ ReceiveBegin \/ Sweep \/ Load \/ Grant
         \/ ReceiveSettle \/ ReceiveAbandon \/ ReceiveShutdown \/ Exit
  PROVE  LogInv'
<1>1. CASE ReceiveBegin \/ Sweep
  <2>1. /\ task.at \in {"recv", "sweep"}
        /\ task'.at \in {"recv", "sweep", "load", "grant"}
        /\ task'.at = "load" => ~loaded /\ ~poisoned
        /\ task'.at = "grant" => loaded /\ ~poisoned
    <3>1. \/ UNCHANGED task
          \/ task' = At("recv")
          \/ \E c, b : Admit(c, b)
      BY <1>1 DEF ReceiveBegin, Sweep
    <3>2. task.at \in {"recv", "sweep"}
      BY <1>1 DEF ReceiveBegin, Sweep, Receive
    <3>3. ASSUME NEW c, NEW b, Admit(c, b)
          PROVE  /\ task'.at \in {"recv", "sweep", "load", "grant"}
                 /\ task'.at = "load" => ~loaded /\ ~poisoned
                 /\ task'.at = "grant" => loaded /\ ~poisoned
      <4>1. CASE poisoned
        BY <3>3, <4>1, Places DEF Admit
      <4>2. CASE ~poisoned
        <5>1. \A p \in {"load", "grant"} : [At(p) EXCEPT !.resp = c, !.sweeping = b].at = p
          BY DEF At
        <5>2. CASE loaded
          <6>1. task' = [At("grant") EXCEPT !.resp = c, !.sweeping = b]
            BY <3>3, <4>2, <5>2, Zenon DEF Admit
          <6>2. QED
            BY <4>2, <5>1, <5>2, <6>1
        <5>3. CASE ~loaded
          <6>1. task' = [At("load") EXCEPT !.resp = c, !.sweeping = b]
            BY <3>3, <4>2, <5>3, Zenon DEF Admit
          <6>2. QED
            BY <4>2, <5>1, <5>3, <6>1
        <5>4. QED
          BY <5>2, <5>3
      <4>3. QED
        BY <4>1, <4>2
    <3>4. QED
      BY <3>1, <3>2, <3>3, Places
  <2>2. UNCHANGED <<durable, limbo, events, observed, active, nextToken, loaded, poisoned>>
    BY <1>1 DEF ReceiveBegin, Sweep, storage
  <2>3. Idle /\ Stages'
    BY <2>1, <2>2 DEF Idle, LogInv, Stages
  <2>4. QED
    BY <2>3, IdleKeepsLog
<1>2. CASE ReceiveSettle \/ ReceiveAbandon \/ ReceiveShutdown \/ Exit
  <2>1. Idle
    BY <1>2, Places DEF ReceiveSettle, ReceiveAbandon, ReceiveShutdown, Exit, Receive, GrantPending,
      Idle, storage
  <2>2. Stages'
    BY <1>2, Places DEF ReceiveSettle, ReceiveAbandon, ReceiveShutdown, Exit, Receive, GrantPending,
      LogInv, Stages, NoTurn
  <2>3. QED
    BY <2>1, <2>2, IdleKeepsLog
<1>3. CASE Load
  <2>1. CASE UNCHANGED <<events, loaded>> /\ task' = NextCandidate(task.sweeping)
    <3>1. Idle
      BY <1>3, <2>1, Places DEF Load, Idle, storage
    <3>2. Stages'
      BY <1>3, <2>1, Places DEF Load, LogInv, Stages
    <3>3. QED
      BY <3>1, <3>2, IdleKeepsLog
  <2>2. CASE events' = durable /\ loaded' = TRUE /\ task' = [task EXCEPT !.at = "grant"]
    <3>1. task.at = "load" /\ task'.at = "grant" /\ active.token = 0
      BY <1>3, <2>2 DEF Load, TypeInv, TypeOK, Task, LeaseInv, AdmittingIdle
    <3>2. UNCHANGED <<durable, limbo, observed, active, nextToken, poisoned>>
      BY <1>3 DEF Load, storage
    <3>3. Numbered' /\ Distinct' /\ Whole' /\ LimboFollows'
      BY <3>2, StorageKept
    <3>4. MemoryFollows' /\ CandidateNext' /\ ActiveIsLast' /\ OpenNotEnded' /\ Stages'
      BY <2>2, <3>1, <3>2, LogTypes
      DEF MemoryFollows, CandidateNext, ActiveIsLast, OpenNotEnded, Stages, LogInv
    <3>5. ObservedSoFar'
      <4>1. Seen = Len(events) /\ Seen' = Len(durable) /\ Len(events) <= Len(durable)
        BY <2>2, <3>1 DEF Seen, LogInv, MemoryFollows
      <4>2. \A i \in 1 .. Len(observed) : observed[i].seq \in Nat
        BY LogTypes
      <4>3. \A i \in 1 .. Len(observed) :
              observed[i].seq < Seen' /\ observed[i] = durable[observed[i].seq + 1]
        BY <4>1, <4>2, LogTypes DEF LogInv, ObservedSoFar, MemoryFollows
      <4>4. QED
        BY <2>2, <3>1, <3>2, <4>3 DEF LogInv, ObservedSoFar
    <3>6. QED
      BY <3>3, <3>4, <3>5 DEF LogInv
  <2>3. QED
    BY <1>3, <2>1, <2>2 DEF Load
<1>4. CASE Grant
  <2>1. /\ active.token = 0 /\ task.at = "grant" /\ loaded /\ ~poisoned
        /\ UNCHANGED <<durable, limbo, events, observed, loaded, poisoned>>
    BY <1>4 DEF Grant, LeaseInv, AdmittingIdle, LogInv, Stages, storage
  <2>2. CASE UNCHANGED active /\ nextToken' \in {nextToken, nextToken + 1}
             /\ task' = NextCandidate(task.sweeping)
    <3>1. Idle /\ Stages'
      BY <2>1, <2>2, Places DEF Idle, Stages
    <3>2. QED
      BY <3>1, IdleKeepsLog
  <2>3. CASE nextToken' = nextToken + 1 /\ task' = At("recv")
             /\ active' = [token |-> nextToken, start |-> Len(events), closed |-> FALSE]
    <3>1. /\ active'.token = nextToken /\ task'.at = "recv" /\ nextToken \in Nat
      BY <2>3, Places, LogTypes
    <3>2. Numbered' /\ Distinct' /\ Whole' /\ LimboFollows'
      BY <2>1, <2>3, StorageKept
    <3>3. MemoryFollows' /\ CandidateNext' /\ ActiveIsLast' /\ Stages'
      BY <2>1, <2>3, <3>1 DEF LogInv, MemoryFollows, CandidateNext, ActiveIsLast, Stages
    <3>4. OpenNotEnded'
      <4>1. \A i \in 1 .. Len(events) : events[i].turn \in Nat /\ events[i].turn < nextToken
        BY LogTypes DEF LogInv, MemoryFollows, Numbered
      <4>2. QED
        BY <2>1, <3>1, <4>1 DEF OpenNotEnded
    <3>5. ObservedSoFar'
      BY <2>1, <3>1 DEF LogInv, ObservedSoFar, Seen
    <3>6. QED
      BY <3>2, <3>3, <3>4, <3>5 DEF LogInv
  <2>4. QED
    BY <1>4, <2>2, <2>3 DEF Grant
<1>5. QED
  BY <1>1, <1>2, <1>3, <1>4

\* An event committed behind the log the coordinator remembers is remembered.
LEMMA RememberCommitted ==
  ASSUME TypeInv, TypeInv', LogInv, task.at \in {"commit", "reload"},
         events' = Append(events, task.event), active' = MarkTerminal(task.event),
         nextToken' = nextToken, observed' = observed, loaded' = loaded, poisoned' = poisoned,
         Len(events) < Len(durable'), durable'[Len(events) + 1] = task.event,
         \A i \in 1 .. Len(durable) : durable'[i] = durable[i],
         \/ task' = [task EXCEPT !.at = "observe"]
         \/ task'.at = "recv"
  PROVE  /\ MemoryFollows' /\ ActiveIsLast' /\ OpenNotEnded'
         /\ CandidateNext' /\ Stages' /\ ObservedSoFar'
<1>1. /\ task.event \in Event /\ active.token # 0
      /\ task.event.turn = active.token /\ task.event.seq = Len(events)
      /\ loaded /\ ~poisoned /\ Len(events) \in Nat /\ Len(durable) \in Nat
      /\ Len(events) <= Len(durable)
      /\ \A i \in 1 .. Len(events) : events[i] = durable[i]
  BY LogTypes DEF LogInv, CandidateNext, Stages, MemoryFollows
<1>2. /\ Len(events') = Len(events) + 1
      /\ events'[Len(events) + 1] = task.event
      /\ \A i \in 1 .. Len(events) : events'[i] = events[i]
  BY <1>1, LogTypes, AppendProperties
<1>3. /\ active'.token = active.token
      /\ ~active'.closed => ~active.closed /\ task.event.kind \notin Terminal
  BY <1>1, LogTypes DEF MarkTerminal, ActiveTurn
<1>4. /\ task'.at \in {"recv", "observe"}
      /\ task'.at = "observe" => task'.event = task.event
  BY LogTypes DEF Task
<1>5. MemoryFollows'
  BY <1>1, <1>2 DEF MemoryFollows
<1>6. ActiveIsLast' /\ CandidateNext' /\ Stages'
  BY <1>1, <1>3, <1>4 DEF LogInv, ActiveIsLast, CandidateNext, Stages
<1>7. OpenNotEnded'
  BY <1>1, <1>2, <1>3 DEF LogInv, OpenNotEnded
<1>8. ObservedSoFar'
  <2>1. Seen = Len(events) /\ Seen' \in {Len(events), Len(events) + 1}
    BY <1>1, <1>2, <1>4 DEF Seen
  <2>2. \A i \in 1 .. Len(observed) : observed[i].seq \in Nat
    BY LogTypes
  <2>3. \A i \in 1 .. Len(observed) :
          observed[i].seq < Seen' /\ observed[i] = events'[observed[i].seq + 1]
    BY <1>1, <1>2, <2>1, <2>2 DEF LogInv, ObservedSoFar
  <2>4. active.token > 0
    BY <1>1, LogTypes
  <2>5. task'.at = "observe" =>
          Len(events') > 0 /\ task'.event = events'[Len(events')] /\ task'.event.turn > 0
    BY <1>1, <1>2, <1>4, <2>4
  <2>6. \A i, j \in 1 .. Len(observed') : i < j => observed'[i].seq < observed'[j].seq
    BY DEF LogInv, ObservedSoFar
  <2>7. QED
    BY <2>3, <2>5, <2>6 DEF ObservedSoFar
<1>9. QED
  BY <1>5, <1>6, <1>7, <1>8

\* The steps of the coordinator that write, and what follows them.
LEMMA LogAppends ==
  ASSUME TypeInv, TypeInv', LeaseInv, LogInv,
         \/ ReceiveAppend \/ CommitAppended \/ CommitReplayed \/ CommitRefused
         \/ CommitFailed \/ CommitIndeterminate \/ Reload \/ Observe
  PROVE  LogInv'
<1>1. CASE ReceiveAppend
  <2>1. UNCHANGED <<durable, limbo, events, observed, active, nextToken, loaded, poisoned>> /\ task.at = "recv"
    BY <1>1 DEF ReceiveAppend, Receive, state, storage
  <2>2. CASE UNCHANGED task
    <3>1. Idle /\ Stages'
      BY <2>1, <2>2 DEF Idle, LogInv, Stages
    <3>2. QED
      BY <3>1, IdleKeepsLog
  <2>3. ASSUME NEW m \in Sendable, MayAppend(m), Known(m) = {},
               task' = [At("commit") EXCEPT !.resp = m.resp, !.event = EventOf(m)],
               m.draft \in Drafts, m.token # 0
        PROVE  LogInv'
    <3>1. task'.at = "commit" /\ task'.event = EventOf(m)
      BY <2>3 DEF At
    <3>2. /\ EventOf(m).turn = active.token /\ EventOf(m).seq = Len(events)
          /\ EventOf(m).id = m.draft.id
      BY DEF EventOf
    <3>3. \A i \in 1 .. Len(events) : events[i].id # m.draft.id
      <4>1. DOMAIN events = 1 .. Len(events)
        BY LogTypes, LenProperties
      <4>2. QED
        BY <2>3, <4>1 DEF Known, ToSet
    <3>4. m.token = active.token /\ ~poisoned /\ ~active.closed
      BY <2>3 DEF MayAppend, OwnsLease
    <3>5. active.token # 0
      BY <2>3, <3>4
    <3>6. Numbered' /\ Distinct' /\ Whole' /\ LimboFollows'
      BY <2>1, StorageKept
    <3>7. MemoryFollows' /\ ActiveIsLast' /\ OpenNotEnded' /\ Stages'
      BY <2>1, <3>1, <3>4, <3>5 DEF LogInv, MemoryFollows, ActiveIsLast, OpenNotEnded, Stages
    <3>8. CandidateNext'
      BY <2>1, <3>1, <3>2, <3>3, <3>4, <3>5 DEF CandidateNext
    <3>9. ObservedSoFar'
      BY <2>1, <3>1 DEF LogInv, ObservedSoFar, Seen
    <3>10. QED
      BY <3>6, <3>7, <3>8, <3>9 DEF LogInv
  <2>4. Head(mailbox) \in Sendable /\ Head(mailbox).op = "Append" /\ Head(mailbox).token # 0
    BY <1>1, ReceiveKeepsCommands DEF ReceiveAppend, TypeInv, LeaseInv, TokensSpent
  <2>5. QED
    BY <1>1, <2>2, <2>3, <2>4 DEF ReceiveAppend, Sendable
<1>2. CASE CommitRefused \/ CommitFailed
  <2>1. Idle /\ Stages'
    BY <1>2, Places DEF CommitRefused, CommitFailed, Poison, Idle, LogInv, Stages, state, storage
  <2>2. QED
    BY <2>1, IdleKeepsLog
<1>3. CASE CommitAppended
  <2>1. task.at = "commit" /\ task.event \in Event /\ Acceptable(task.event) /\ Follows(task.event)
    BY <1>3, CandidateFollows DEF CommitAppended
  <2>2. Len(durable) = Len(events) /\ task.event.seq = Len(durable)
    BY <2>1, CandidateFollows DEF Acceptable
  <2>3. UNCHANGED <<limbo, observed, nextToken, loaded, poisoned>> /\ durable' = Append(durable, task.event)
    BY <1>3 DEF CommitAppended
  <2>4. /\ Numbered' /\ Distinct' /\ Whole' /\ LimboFollows'
        /\ Len(durable') = Len(durable) + 1
        /\ durable'[Len(durable) + 1] = task.event
        /\ \A i \in 1 .. Len(durable) : durable'[i] = durable[i]
    BY <2>1, <2>3, AppendKeepsLog
  <2>5. Len(events) < Len(durable') /\ durable'[Len(events) + 1] = task.event
    BY <2>2, <2>4, LogTypes
  <2>6. /\ MemoryFollows' /\ ActiveIsLast' /\ OpenNotEnded'
        /\ CandidateNext' /\ Stages' /\ ObservedSoFar'
    BY <1>3, <2>1, <2>3, <2>4, <2>5, RememberCommitted DEF CommitAppended
  <2>7. QED
    BY <2>4, <2>6 DEF LogInv
<1>4. CASE CommitReplayed
  <2>1. /\ task.at = "commit" /\ task.event \in ToSet(durable) /\ task'.at = "recv"
        /\ UNCHANGED <<durable, limbo, observed, nextToken, loaded, poisoned>>
    BY <1>4, Places DEF CommitReplayed, AlreadyDurable, storage
  <2>2. Numbered' /\ Distinct' /\ Whole' /\ LimboFollows'
    BY <2>1, StorageKept
  <2>3. PICK i \in 1 .. Len(durable) : durable[i] = task.event
    <3>1. DOMAIN durable = 1 .. Len(durable)
      BY LogTypes, LenProperties
    <3>2. QED
      BY <2>1, <3>1 DEF ToSet
  <2>4. i - 1 = Len(events)
    BY <2>1, <2>3 DEF LogInv, Numbered, CandidateNext
  <2>5. Len(events) < Len(durable') /\ durable'[Len(events) + 1] = task.event
    BY <2>1, <2>3, <2>4, LogTypes
  <2>6. /\ MemoryFollows' /\ ActiveIsLast' /\ OpenNotEnded'
        /\ CandidateNext' /\ Stages' /\ ObservedSoFar'
    BY <1>4, <2>1, <2>5, RememberCommitted DEF CommitReplayed
  <2>7. QED
    BY <2>2, <2>6 DEF LogInv
<1>5. CASE CommitIndeterminate
  <2>1. /\ task.at = "commit" /\ task'.at = "reload" /\ task'.event = task.event
        /\ UNCHANGED <<observed, events, active, nextToken, loaded, poisoned>>
    BY <1>5, LogTypes DEF CommitIndeterminate, state, Task
  <2>2. ActiveIsLast' /\ OpenNotEnded' /\ CandidateNext' /\ Stages' /\ ObservedSoFar'
    BY <2>1 DEF LogInv, ActiveIsLast, OpenNotEnded, CandidateNext, Stages, ObservedSoFar, Seen
  <2>3. CASE UNCHANGED <<durable, limbo>>
    <3>1. Numbered' /\ Distinct' /\ Whole' /\ LimboFollows' /\ MemoryFollows'
      BY <2>1, <2>3, StorageKept DEF LogInv, MemoryFollows
    <3>2. QED
      BY <2>2, <3>1 DEF LogInv
  <2>4. CASE Acceptable(task.event) /\ durable' = Append(durable, task.event) /\ limbo' = limbo
    <3>1. task.event \in Event /\ Follows(task.event)
      BY <2>1, CandidateFollows
    <3>2. /\ Numbered' /\ Distinct' /\ Whole' /\ LimboFollows'
          /\ Len(durable') = Len(durable) + 1
          /\ \A i \in 1 .. Len(durable) : durable'[i] = durable[i]
      BY <2>1, <2>4, <3>1, AppendKeepsLog
    <3>3. MemoryFollows'
      BY <2>1, <3>2, LogTypes DEF LogInv, MemoryFollows
    <3>4. QED
      BY <2>2, <3>2, <3>3 DEF LogInv
  <2>5. CASE limbo' = task.event /\ durable' = durable
    <3>1. Follows(task.event)
      BY <2>1, CandidateFollows
    <3>2. LimboFollows'
      BY <2>1, <2>5, <3>1 DEF LimboFollows, Follows
    <3>3. Numbered' /\ Distinct' /\ Whole' /\ MemoryFollows'
      BY <2>1, <2>5 DEF LogInv, Numbered, Distinct, Whole, MemoryFollows
    <3>4. QED
      BY <2>2, <3>2, <3>3 DEF LogInv
  <2>6. QED
    BY <1>5, <2>3, <2>4, <2>5 DEF CommitIndeterminate, storage
<1>6. CASE Reload
  <2>1. task.at = "reload" /\ UNCHANGED <<durable, limbo, observed, nextToken, loaded>>
    BY <1>6 DEF Reload, storage
  <2>2. CASE UNCHANGED <<events, active>> /\ task'.at = "recv"
    <3>1. Idle /\ Stages'
      BY <2>1, <2>2 DEF Idle, LogInv, Stages
    <3>2. QED
      BY <3>1, IdleKeepsLog
  <2>3. CASE /\ ProvenPresent /\ events' = durable /\ active' = MarkTerminal(task.event)
             /\ task' = [task EXCEPT !.at = "observe"] /\ UNCHANGED poisoned
    <3>1. /\ durable = Append(events, task.event) /\ task.event \in Event
          /\ Len(durable) = Len(events) + 1 /\ durable[Len(events) + 1] = task.event
      BY <2>1, <2>3, LogTypes, AppendProperties DEF ProvenPresent
    <3>2. Numbered' /\ Distinct' /\ Whole' /\ LimboFollows'
      BY <2>1, StorageKept
    <3>3. Len(events) < Len(durable')
      BY <2>1, <3>1, LogTypes
    <3>4. /\ MemoryFollows' /\ ActiveIsLast' /\ OpenNotEnded'
          /\ CandidateNext' /\ Stages' /\ ObservedSoFar'
      BY <2>1, <2>3, <3>1, <3>3, RememberCommitted
    <3>5. QED
      BY <3>2, <3>4 DEF LogInv
  <2>4. QED
    BY <1>6, <2>2, <2>3, Places DEF Reload, Poison
<1>7. CASE Observe
  <2>1. /\ task.at = "observe" /\ task'.at = "recv" /\ observed' = Append(observed, task.event)
        /\ UNCHANGED <<durable, limbo, events, active, nextToken, loaded, poisoned>>
    BY <1>7, Places DEF Observe, ObserveAll, state, storage
  <2>2. Numbered' /\ Distinct' /\ Whole' /\ LimboFollows'
    BY <2>1, StorageKept
  <2>3. MemoryFollows' /\ ActiveIsLast' /\ OpenNotEnded' /\ CandidateNext' /\ Stages'
    BY <2>1 DEF LogInv, MemoryFollows, ActiveIsLast, OpenNotEnded, CandidateNext, Stages
  <2>4. ObservedSoFar'
    <3>1. /\ task.event \in Event /\ Len(events) \in Nat /\ Len(events) > 0
          /\ task.event = events[Len(events)] /\ task.event.seq = Len(events) - 1
      BY <2>1, LogTypes DEF LogInv, ObservedSoFar, MemoryFollows, Numbered
    <3>2. /\ Len(observed) \in Nat /\ Len(observed') = Len(observed) + 1
          /\ observed'[Len(observed) + 1] = task.event
          /\ \A i \in 1 .. Len(observed) : observed'[i] = observed[i]
      BY <2>1, <3>1, LogTypes, AppendProperties
    <3>3. Seen = Len(events) - 1 /\ Seen' = Len(events)
      BY <2>1 DEF Seen
    <3>4. \A i \in 1 .. Len(observed') : i \in 1 .. Len(observed) \/ i = Len(observed) + 1
      BY <3>2
    <3>5. \A i \in 1 .. Len(observed) : observed[i].seq \in Nat
      BY LogTypes
    <3>6. \A i \in 1 .. Len(observed') :
            observed'[i].seq < Seen' /\ observed'[i] = events'[observed'[i].seq + 1]
      BY <2>1, <3>1, <3>2, <3>3, <3>4, <3>5 DEF LogInv, ObservedSoFar
    <3>7. \A i, j \in 1 .. Len(observed') : i < j => observed'[i].seq < observed'[j].seq
      BY <3>1, <3>2, <3>3, <3>4, <3>5 DEF LogInv, ObservedSoFar
    <3>8. QED
      BY <2>1, <3>6, <3>7 DEF ObservedSoFar
  <2>5. QED
    BY <2>2, <2>3, <2>4 DEF LogInv
<1>8. QED
  BY <1>1, <1>2, <1>3, <1>4, <1>5, <1>6, <1>7

\* Every step keeps the invariant of the log.
LEMMA LogStep == TypeInv /\ TypeInv' /\ LeaseInv /\ LogInv /\ [Next]_vars => LogInv'
<1> SUFFICES ASSUME TypeInv, TypeInv', LeaseInv, LogInv, [Next]_vars PROVE LogInv'
  OBVIOUS
<1>1. ASSUME NEW c \in Callers, Caller(c) PROVE LogInv'
  BY <1>1, CallersKeepLog, KeptLog
<1>2. CASE Coordinator
  BY <1>2, LogAdmission, LogAppends DEF Coordinator
<1>3. CASE Shutdown \/ UNCHANGED vars
  <2>1. LogKept
    BY <1>3 DEF Shutdown, ShutdownFlag, ShutdownSend, ShutdownReturn, vars, state, storage, LogKept, Remembered
  <2>2. QED
    BY <2>1, KeptLog
<1>4. CASE LateWrite
  <2>1. /\ limbo \in Event /\ Follows(limbo) /\ Acceptable(limbo)
        /\ durable' = Append(durable, limbo) /\ limbo' = None
        /\ UNCHANGED <<task, events, active, nextToken, loaded, poisoned, observed>>
    BY <1>4, LogTypes DEF LateWrite, state, LogInv, LimboFollows
  <2>2. /\ Numbered' /\ Distinct' /\ Whole' /\ LimboFollows'
        /\ Len(durable') = Len(durable) + 1
        /\ \A i \in 1 .. Len(durable) : durable'[i] = durable[i]
    BY <2>1, AppendKeepsLog
  <2>3. MemoryFollows'
    BY <2>1, <2>2, LogTypes DEF LogInv, MemoryFollows
  <2>4. ActiveIsLast' /\ OpenNotEnded' /\ CandidateNext' /\ Stages' /\ ObservedSoFar'
    BY <2>1 DEF LogInv, ActiveIsLast, OpenNotEnded, CandidateNext, Stages, ObservedSoFar, Seen
  <2>5. QED
    BY <2>2, <2>3, <2>4 DEF LogInv
<1>5. QED
  BY <1>1, <1>2, <1>3, <1>4 DEF Next, Terminated

-----------------------------------------------------------------------------
(***************************************************************************)
(* Response channels.  A caller that awaits an answer listens at one place *)
(* only, a command in the mailbox, a Begin in the pending queue or the     *)
(* work at hand, and is answered when the coordinator takes it from there. *)
(***************************************************************************)

\* The caller c awaits the answer to the command m.
Expects(c, m) ==
  /\ reply[c] = NoReply
  /\ \/ m.op = "Begin" /\ pc[c] = "begin"
     \/ m.op = "Append" /\ pc[c] = "append" /\ m.token = lease[c]
     \/ m.op = "Settle" /\ pc[c] = "settle" /\ m.token = lease[c]

InMailbox == \A c \in Callers, i \in 1 .. Len(mailbox) : mailbox[i].resp = c => Expects(c, mailbox[i])

InPending ==
  \A c \in Callers, i \in 1 .. Len(pending) : pending[i] = c => reply[c] = NoReply /\ pc[c] = "begin"

AtHand ==
  \A c \in Callers : task.resp = c =>
    /\ reply[c] = NoReply
    /\ \/ task.at \in {"load", "grant"} /\ pc[c] = "begin"
       \/ task.at \in {"commit", "reload", "observe"} /\ pc[c] = "append" /\ lease[c] = active.token

\* No caller listens at two places.
OnePlace ==
  /\ \A c \in Callers, i, j \in 1 .. Len(mailbox) : mailbox[i].resp = c /\ mailbox[j].resp = c => i = j
  /\ \A c \in Callers, i, j \in 1 .. Len(pending) : pending[i] = c /\ pending[j] = c => i = j
  /\ \A c \in Callers, i \in 1 .. Len(mailbox) :
       mailbox[i].resp = c => task.resp # c /\ \A j \in 1 .. Len(pending) : pending[j] # c
  /\ \A c \in Callers, j \in 1 .. Len(pending) : pending[j] = c => task.resp # c

\* Who awaits nothing has no answer, and only a Begin is answered by a grant.
AnswersFit ==
  \A c \in Callers :
    /\ pc[c] \notin {"begin", "append", "settle"} => reply[c] = NoReply
    /\ reply[c].kind = "grant" => pc[c] = "begin"

ChannelInv == InMailbox /\ InPending /\ AtHand /\ OnePlace /\ AnswersFit

\* The caller listens nowhere.
Unheard(c) ==
  /\ \A i \in 1 .. Len(mailbox) : mailbox[i].resp # c
  /\ \A i \in 1 .. Len(pending) : pending[i] # c
  /\ task.resp # c

\* At first nobody listens.
LEMMA ChannelInit == Init => ChannelInv
<1> SUFFICES ASSUME Init PROVE ChannelInv
  OBVIOUS
<1>1. Len(mailbox) = 0 /\ Len(pending) = 0 /\ task.resp = None
  BY EmptySeq DEF Init, At
<1>2. \A c \in Callers : c # None /\ pc[c] = "idle" /\ reply[c] = NoReply
  BY NoneAssumption DEF Init
<1>3. QED
  BY <1>1, <1>2 DEF ChannelInv, InMailbox, InPending, AtHand, OnePlace, AnswersFit, NoReply

\* A caller that waits for no answer, or has it, listens nowhere.
LEMMA NotWaiting ==
  ASSUME ChannelInv, NEW c \in Callers,
         reply[c] # NoReply \/ pc[c] \notin {"begin", "append", "settle"}
  PROVE  Unheard(c)
BY DEF ChannelInv, InMailbox, InPending, AtHand, Expects, Unheard

\* A step of the caller d leaves the channels of the others alone; d itself
\* listens nowhere afterwards but to a command it has just sent.
OnlyTheirs(d) ==
  /\ active' = active /\ task'.at = task.at /\ task'.resp \in {task.resp, None}
  /\ Len(pending') = Len(pending)
  /\ \A i \in 1 .. Len(pending) : pending'[i] \in {pending[i], None} /\ pending'[i] # d
  /\ Len(mailbox') \in {Len(mailbox), Len(mailbox) + 1}
  /\ \A i \in 1 .. Len(mailbox) :
       /\ mailbox'[i].op = mailbox[i].op /\ mailbox'[i].token = mailbox[i].token
       /\ mailbox'[i].resp \in {mailbox[i].resp, None} /\ mailbox'[i].resp # d
  /\ task'.resp # d
  /\ Len(mailbox') = Len(mailbox) + 1 =>
       \E m \in Sendable : /\ mailbox'[Len(mailbox) + 1] = m
                           /\ m.resp = None \/ (m.resp = d /\ Expects(d, m)')
  /\ \A c \in Callers \ {d} : pc'[c] = pc[c] /\ reply'[c] = reply[c] /\ lease'[c] = lease[c]

\* What a step leaves of a waiting caller, its reply and the commands keeps it
\* listening to exactly one of them.
LEMMA OthersKeepListening ==
  ASSUME TypeInv, ChannelInv, NEW d \in Callers, OnlyTheirs(d),
         pc'[d] \notin {"begin", "append", "settle"} => reply'[d] = NoReply,
         reply'[d].kind # "grant"
  PROVE  ChannelInv'
<1>1. Len(mailbox) \in Nat /\ Len(pending) \in Nat /\ \A c \in Callers : c # None
  BY LenProperties, NoneAssumption DEF TypeInv, TypeOK
<1>2. ASSUME NEW i \in 1 .. Len(mailbox'), NEW c \in Callers, mailbox'[i].resp = c
      PROVE  \/ i \in 1 .. Len(mailbox) /\ mailbox[i].resp = c /\ c # d
             \/ i = Len(mailbox) + 1 /\ c = d /\ \E m \in Sendable : mailbox'[i] = m /\ Expects(d, m)'
  <2>1. CASE i \in 1 .. Len(mailbox)
    BY <1>1, <1>2, <2>1 DEF OnlyTheirs
  <2>2. CASE i = Len(mailbox) + 1 /\ Len(mailbox') = Len(mailbox) + 1
    BY <1>1, <1>2, <2>2 DEF OnlyTheirs
  <2>3. QED
    BY <1>1, <2>1, <2>2 DEF OnlyTheirs
<1>3. \A i \in 1 .. Len(pending'), c \in Callers : pending'[i] = c =>
        i \in 1 .. Len(pending) /\ pending[i] = c /\ c # d
  BY <1>1 DEF OnlyTheirs
<1>4. \A c \in Callers : task'.resp = c => task.resp = c /\ c # d
  BY <1>1 DEF OnlyTheirs
<1>5. InMailbox'
  <2> SUFFICES ASSUME NEW c \in Callers, NEW i \in 1 .. Len(mailbox'), mailbox'[i].resp = c
               PROVE  Expects(c, mailbox[i])'
    BY DEF InMailbox
  <2>1. CASE i \in 1 .. Len(mailbox) /\ mailbox[i].resp = c /\ c # d
    <3>1. /\ Expects(c, mailbox[i])
          /\ mailbox'[i].op = mailbox[i].op /\ mailbox'[i].token = mailbox[i].token
          /\ pc'[c] = pc[c] /\ reply'[c] = reply[c] /\ lease'[c] = lease[c]
      BY <2>1 DEF OnlyTheirs, ChannelInv, InMailbox
    <3>2. QED
      BY <3>1 DEF Expects
  <2>2. QED
    BY <1>2, <2>1 DEF Expects
<1>6. InPending' /\ AtHand'
  BY <1>3, <1>4 DEF OnlyTheirs, ChannelInv, InPending, AtHand
<1>7. OnePlace'
  <2>1. ASSUME NEW c \in Callers, NEW i \in 1 .. Len(mailbox'), NEW j \in 1 .. Len(mailbox'),
               mailbox'[i].resp = c, mailbox'[j].resp = c
        PROVE  i = j
    <3>1. CASE c = d
      BY <1>2, <2>1, <3>1
    <3>2. CASE c # d
      BY <1>2, <2>1, <3>2 DEF ChannelInv, OnePlace
    <3>3. QED
      BY <3>1, <3>2
  <2>2. \A c \in Callers, i, j \in 1 .. Len(pending') : pending'[i] = c /\ pending'[j] = c => i = j
    BY <1>3 DEF ChannelInv, OnePlace
  <2>3. ASSUME NEW c \in Callers, NEW i \in 1 .. Len(mailbox'), mailbox'[i].resp = c
        PROVE  task'.resp # c /\ \A j \in 1 .. Len(pending') : pending'[j] # c
    <3>1. CASE c = d
      BY <1>3, <1>4, <3>1
    <3>2. CASE c # d
      <4>1. i \in 1 .. Len(mailbox) /\ mailbox[i].resp = c
        BY <1>2, <2>3, <3>2
      <4>2. QED
        BY <1>3, <1>4, <4>1 DEF ChannelInv, OnePlace
    <3>3. QED
      BY <3>1, <3>2
  <2>4. \A c \in Callers, j \in 1 .. Len(pending') : pending'[j] = c => task'.resp # c
    BY <1>3, <1>4 DEF ChannelInv, OnePlace
  <2>5. QED
    BY <2>1, <2>2, <2>3, <2>4 DEF OnePlace
<1>8. AnswersFit'
  BY DEF OnlyTheirs, ChannelInv, AnswersFit
<1>9. QED
  BY <1>5, <1>6, <1>7, <1>8 DEF ChannelInv

\* An Abandon may follow the commands of the mailbox, and nobody awaits it.
LEMMA AbandonSent ==
  ASSUME NEW box \in Seq(Sendable), NEW t \in Nat, NEW after \in {box, Sent(box, Abandon(t))}
  PROVE  /\ Len(after) \in {Len(box), Len(box) + 1}
         /\ \A i \in 1 .. Len(box) : after[i] = box[i]
         /\ Len(after) = Len(box) + 1 => after[Len(box) + 1] = Abandon(t)
         /\ Abandon(t) \in Sendable /\ Abandon(t).resp = None
<1>1. Abandon(t) \in Sendable /\ Abandon(t).resp = None /\ Len(box) \in Nat
  BY MessageTypes, LenProperties DEF Abandon
<1>2. CASE after = box
  BY <1>1, <1>2
<1>3. CASE after = Sent(box, Abandon(t))
  BY <1>1, <1>3, SentKeepsCommands
<1>4. QED
  BY <1>1, <1>2, <1>3

\* What the callers do.
LEMMA ChannelCallers ==
  ASSUME TypeInv, ChannelInv, NEW c \in Callers, Caller(c)
  PROVE  ChannelInv'
<1>1. /\ pc \in [Callers -> {"idle", "checked", "located", "cleared", "begin", "turn", "append", "settle"}]
      /\ reply \in [Callers -> Reply] /\ lease \in [Callers -> Nat] /\ task \in Task
      /\ mailbox \in Seq(Sendable) /\ Len(mailbox) \in Nat
      /\ pending \in Seq(Callers \cup {None}) /\ Len(pending) \in Nat
      /\ c # None
  BY LenProperties, NoneAssumption DEF TypeInv, TypeOK
<1>2. NoReply.kind = "none"
  BY DEF NoReply
<1> DEFINE box == CloseInMailbox(c)
<1>3. /\ box \in Seq(Sendable) /\ Len(box) = Len(mailbox)
      /\ \A i \in 1 .. Len(mailbox) :
           /\ box[i].op = mailbox[i].op /\ box[i].token = mailbox[i].token
           /\ box[i].resp \in {mailbox[i].resp, None} /\ box[i].resp # c
  BY <1>1, CloseKeepsCommands DEF Closed
<1> HIDE DEF box
<1>4. /\ Begin(c) \in Sendable /\ Begin(c).op = "Begin" /\ Begin(c).resp = c
      /\ \A t \in Nat :
           /\ \A d \in Drafts : /\ AppendCmd(t, d, c) \in Sendable /\ AppendCmd(t, d, c).op = "Append"
                                /\ AppendCmd(t, d, c).token = t /\ AppendCmd(t, d, c).resp = c
           /\ SettleCmd(t, c) \in Sendable /\ SettleCmd(t, c).op = "Settle"
           /\ SettleCmd(t, c).token = t /\ SettleCmd(t, c).resp = c
  BY MessageTypes DEF Begin, AppendCmd, SettleCmd
<1>5. active' = active /\ \A d \in Callers \ {c} : pc'[d] = pc[d] /\ reply'[d] = reply[d] /\ lease'[d] = lease[d]
  BY <1>1 DEF Caller, BeginCheck, BeginLocate, BeginRecheck, BeginSend, BeginReturn, BeginCancel,
    AppendSend, AppendReturn, AppendCancel, SettleSend, SettleReturn, SettleCancel, TurnDrop,
    DropLease, state
<1>6. CASE BeginCheck(c) \/ BeginLocate(c) \/ BeginRecheck(c) \/ BeginReturn(c) \/ AppendReturn(c)
  <2>1. UNCHANGED <<mailbox, pending, task>>
    BY <1>6 DEF BeginCheck, BeginLocate, BeginRecheck, BeginReturn, AppendReturn, state
  <2>2. /\ reply[c] # NoReply \/ pc[c] \notin {"begin", "append", "settle"}
        /\ reply'[c] = NoReply
    BY <1>1, <1>6 DEF BeginCheck, BeginLocate, BeginRecheck, BeginReturn, AppendReturn,
      ChannelInv, AnswersFit
  <2>3. Unheard(c)
    BY <2>2, NotWaiting
  <2>4. OnlyTheirs(c)
    BY <1>1, <1>5, <2>1, <2>3 DEF OnlyTheirs, Unheard
  <2>5. QED
    BY <1>2, <2>2, <2>4, OthersKeepListening
<1>7. CASE BeginSend(c) \/ AppendSend(c) \/ SettleSend(c)
  <2>1. /\ pc[c] \in {"cleared", "turn"} /\ UNCHANGED <<pending, task, reply>>
        /\ reply[c] = NoReply
    BY <1>7 DEF BeginSend, AppendSend, SettleSend, state, ChannelInv, AnswersFit
  <2>2. Unheard(c)
    BY <2>1, NotWaiting
  <2>3. ASSUME mailbox' = mailbox PROVE OnlyTheirs(c)
    BY <1>1, <1>5, <2>1, <2>2, <2>3 DEF OnlyTheirs, Unheard
  <2>4. ASSUME NEW m \in Sendable, mailbox' = Append(mailbox, m), m.resp = c, Expects(c, m)'
        PROVE  OnlyTheirs(c)
    <3>1. /\ Len(mailbox') = Len(mailbox) + 1 /\ mailbox'[Len(mailbox) + 1] = m
          /\ \A i \in 1 .. Len(mailbox) : mailbox'[i] = mailbox[i]
      BY <1>1, <2>4, AppendProperties
    <3>2. QED
      BY <1>1, <1>5, <2>1, <2>2, <2>4, <3>1 DEF OnlyTheirs, Unheard
  <2>5. OnlyTheirs(c)
    <3>1. CASE BeginSend(c)
      <4>1. mailbox' = mailbox \/ (mailbox' = Append(mailbox, Begin(c)) /\ pc'[c] = "begin")
        BY <1>1, <3>1 DEF BeginSend, Sent
      <4>2. pc'[c] = "begin" => Expects(c, Begin(c))'
        BY <1>4, <2>1 DEF Expects, Begin
      <4>3. QED
        BY <1>4, <2>3, <2>4, <4>1, <4>2
    <3>2. CASE AppendSend(c)
      <4>1. PICK d \in Drafts : mailbox' = Append(mailbox, AppendCmd(lease[c], d, c))
        BY <3>2 DEF AppendSend
      <4>2. pc'[c] = "append" /\ lease'[c] = lease[c] /\ lease[c] \in Nat
        BY <1>1, <3>2 DEF AppendSend
      <4>3. Expects(c, AppendCmd(lease[c], d, c))'
        BY <2>1, <4>2 DEF Expects, AppendCmd
      <4>4. AppendCmd(lease[c], d, c) \in Sendable /\ AppendCmd(lease[c], d, c).resp = c
        BY <1>4, <4>2
      <4>5. QED
        BY <2>4, <4>1, <4>2, <4>3, <4>4
    <3>3. CASE SettleSend(c)
      <4>1. \/ mailbox' = mailbox
            \/ mailbox' = Append(mailbox, SettleCmd(lease[c], c)) /\ pc'[c] = "settle" /\ lease'[c] = lease[c]
        BY <1>1, <3>3 DEF SettleSend, Sent
      <4>2. pc'[c] = "settle" /\ lease'[c] = lease[c] => Expects(c, SettleCmd(lease[c], c))'
        BY <2>1 DEF Expects, SettleCmd
      <4>3. QED
        BY <1>1, <1>4, <2>3, <2>4, <4>1, <4>2
    <3>4. QED
      BY <1>7, <3>1, <3>2, <3>3
  <2>6. QED
    BY <1>2, <2>1, <2>5, OthersKeepListening
<1>8. CASE SettleReturn(c) \/ TurnDrop(c)
  <2>1. /\ reply[c] # NoReply \/ pc[c] \notin {"begin", "append", "settle"}
        /\ reply'[c] = NoReply
        /\ UNCHANGED <<pending, task>> /\ mailbox' \in {mailbox, Sent(mailbox, Abandon(lease[c]))}
    BY <1>1, <1>8 DEF SettleReturn, TurnDrop, DropLease, state, ChannelInv, AnswersFit
  <2>2. Unheard(c)
    BY <2>1, NotWaiting
  <2>3. /\ Len(mailbox') \in {Len(mailbox), Len(mailbox) + 1}
        /\ \A i \in 1 .. Len(mailbox) : mailbox'[i] = mailbox[i]
        /\ Len(mailbox') = Len(mailbox) + 1 =>
             \E m \in Sendable : mailbox'[Len(mailbox) + 1] = m /\ m.resp = None
    BY <1>1, <2>1, AbandonSent
  <2>4. OnlyTheirs(c)
    BY <1>1, <1>5, <2>1, <2>2, <2>3 DEF OnlyTheirs, Unheard
  <2>5. QED
    BY <1>2, <2>1, <2>4, OthersKeepListening
<1>9. CASE BeginCancel(c) \/ AppendCancel(c) \/ SettleCancel(c)
  <2>1. /\ CloseElsewhere(c) /\ reply'[c] = NoReply
        /\ \E t \in Nat : mailbox' \in {box, Sent(box, Abandon(t))}
    BY <1>1, <1>9 DEF BeginCancel, AppendCancel, SettleCancel, DropGrant, box, Reply
  <2>2. /\ Len(mailbox') \in {Len(mailbox), Len(mailbox) + 1}
        /\ \A i \in 1 .. Len(mailbox) : mailbox'[i] = box[i]
        /\ Len(mailbox') = Len(mailbox) + 1 =>
             \E m \in Sendable : mailbox'[Len(mailbox) + 1] = m /\ m.resp = None
    BY <1>3, <2>1, AbandonSent
  <2>3. /\ Len(pending') = Len(pending)
        /\ \A i \in 1 .. Len(pending) : pending'[i] \in {pending[i], None} /\ pending'[i] # c
    BY <1>1, <2>1, ClosePendingType DEF CloseElsewhere, Closed, TypeInv, TypeOK
  <2>4. task'.at = task.at /\ task'.resp \in {task.resp, None} /\ task'.resp # c
    BY <1>1, <2>1 DEF CloseElsewhere, Closed, Task
  <2>5. OnlyTheirs(c)
    BY <1>3, <1>5, <2>2, <2>3, <2>4 DEF OnlyTheirs
  <2>6. QED
    BY <1>2, <2>1, <2>5, OthersKeepListening
<1>10. QED
  BY <1>6, <1>7, <1>8, <1>9 DEF Caller

\* The coordinator has taken k commands and n Begins from the heads of its queues.
Taken(k, n) ==
  /\ Len(mailbox') = Len(mailbox) - k
  /\ \A i \in 1 .. Len(mailbox') : mailbox'[i] = mailbox[i + k]
  /\ Len(pending') = Len(pending) - n
  /\ \A i \in 1 .. Len(pending') : pending'[i] = pending[i + n]

\* The coordinator has taken the channel r from a queue or from the work at
\* hand, and has answered it, has lost it, or goes on working for it.
LEMMA TakingKeepsChannels ==
  ASSUME TypeInv, ChannelInv, UNCHANGED <<pc, lease>>,
         NEW k \in {0, 1}, NEW n \in {0, 1}, Taken(k, n),
         NEW r \in Callers \cup {None},
         \A i \in 1 .. Len(mailbox') : mailbox'[i].resp = r => r = None,
         \A i \in 1 .. Len(pending') : pending'[i] = r => r = None,
         task'.resp \in {None, r},
         \A c \in Callers : c # r => reply'[c] = reply[c],
         r # None => /\ pc[r] \in {"begin", "append", "settle"}
                     /\ reply'[r].kind = "grant" => pc[r] = "begin"
                     /\ task'.resp = r =>
                          /\ reply'[r] = NoReply
                          /\ \/ task'.at \in {"load", "grant"} /\ pc[r] = "begin"
                             \/ /\ task'.at \in {"commit", "reload", "observe"}
                                /\ pc[r] = "append" /\ lease[r] = active'.token
  PROVE  ChannelInv'
<1>1. Len(mailbox) \in Nat /\ Len(pending) \in Nat /\ \A c \in Callers : c # None
  BY LenProperties, NoneAssumption DEF TypeInv, TypeOK
<1>2. ASSUME NEW c \in Callers, NEW i \in 1 .. Len(mailbox'), mailbox'[i].resp = c
      PROVE  /\ c # r /\ task'.resp # c /\ i + k \in 1 .. Len(mailbox) /\ mailbox[i + k].resp = c
             /\ mailbox'[i] = mailbox[i + k]
  BY <1>1, <1>2 DEF Taken
<1>3. ASSUME NEW c \in Callers, NEW i \in 1 .. Len(pending'), pending'[i] = c
      PROVE  c # r /\ task'.resp # c /\ i + n \in 1 .. Len(pending) /\ pending[i + n] = c
  BY <1>1, <1>3 DEF Taken
<1>4. InMailbox'
  <2> SUFFICES ASSUME NEW c \in Callers, NEW i \in 1 .. Len(mailbox'), mailbox'[i].resp = c
               PROVE  Expects(c, mailbox[i])'
    BY DEF InMailbox
  <2>1. Expects(c, mailbox[i + k]) /\ mailbox'[i] = mailbox[i + k] /\ reply'[c] = reply[c]
    BY <1>2 DEF ChannelInv, InMailbox
  <2>2. QED
    BY <2>1 DEF Expects
<1>5. InPending'
  BY <1>3 DEF ChannelInv, InPending
<1>6. AtHand' /\ AnswersFit'
  BY <1>1 DEF AtHand, ChannelInv, AnswersFit
<1>7. OnePlace'
  <2>1. ASSUME NEW c \in Callers, NEW i \in 1 .. Len(mailbox'), NEW j \in 1 .. Len(mailbox'),
               mailbox'[i].resp = c, mailbox'[j].resp = c
        PROVE  i = j
    <3>1. i + k = j + k
      BY <1>2, <2>1 DEF ChannelInv, OnePlace
    <3>2. QED
      BY <3>1
  <2>2. ASSUME NEW c \in Callers, NEW i \in 1 .. Len(pending'), NEW j \in 1 .. Len(pending'),
               pending'[i] = c, pending'[j] = c
        PROVE  i = j
    <3>1. i + n = j + n
      BY <1>3, <2>2 DEF ChannelInv, OnePlace
    <3>2. QED
      BY <3>1
  <2>3. ASSUME NEW c \in Callers, NEW i \in 1 .. Len(mailbox'), mailbox'[i].resp = c,
               NEW j \in 1 .. Len(pending'), pending'[j] = c
        PROVE  FALSE
    <3>1. i + k \in 1 .. Len(mailbox) /\ mailbox[i + k].resp = c
      BY <1>2, <2>3
    <3>2. j + n \in 1 .. Len(pending) /\ pending[j + n] = c
      BY <1>3, <2>3
    <3>3. QED
      BY <3>1, <3>2 DEF ChannelInv, OnePlace
  <2>4. QED
    BY <1>2, <1>3, <2>1, <2>2, <2>3 DEF OnePlace
<1>8. QED
  BY <1>4, <1>5, <1>6, <1>7 DEF ChannelInv

\* The coordinator has refused every Begin that waited.
LEMMA RefusalKeepsChannels ==
  ASSUME TypeInv, ChannelInv, UNCHANGED <<pc, lease>>, NEW k \in {0, 1},
         Len(mailbox') = Len(mailbox) - k,
         \A i \in 1 .. Len(mailbox') : mailbox'[i] = mailbox[i + k],
         RejectPending, task'.resp = None
  PROVE  ChannelInv'
<1>1. /\ Len(mailbox) \in Nat /\ Len(pending') = 0 /\ \A c \in Callers : c # None
      /\ DOMAIN pending = 1 .. Len(pending)
  BY LenProperties, EmptySeq, NoneAssumption DEF TypeInv, TypeOK, RejectPending
<1>2. \A c \in Callers : \/ reply'[c] = reply[c]
                         \/ /\ reply'[c] = Failed
                            /\ \E i \in 1 .. Len(pending) : pending[i] = c
  BY <1>1 DEF RejectPending, ToSet
<1>3. ASSUME NEW c \in Callers, NEW i \in 1 .. Len(mailbox'), mailbox'[i].resp = c
      PROVE  /\ i + k \in 1 .. Len(mailbox) /\ mailbox[i + k].resp = c
             /\ mailbox'[i] = mailbox[i + k] /\ reply'[c] = reply[c]
  <2>1. i + k \in 1 .. Len(mailbox) /\ mailbox'[i] = mailbox[i + k]
    BY <1>1, <1>3
  <2>2. \A j \in 1 .. Len(pending) : pending[j] # c
    BY <1>3, <2>1 DEF ChannelInv, OnePlace
  <2>3. QED
    BY <1>2, <1>3, <2>1, <2>2
<1>4. InMailbox'
  <2> SUFFICES ASSUME NEW c \in Callers, NEW i \in 1 .. Len(mailbox'), mailbox'[i].resp = c
               PROVE  Expects(c, mailbox[i])'
    BY DEF InMailbox
  <2>1. Expects(c, mailbox[i + k]) /\ mailbox'[i] = mailbox[i + k] /\ reply'[c] = reply[c]
    BY <1>3 DEF ChannelInv, InMailbox
  <2>2. QED
    BY <2>1 DEF Expects
<1>5. InPending' /\ AtHand'
  BY <1>1 DEF InPending, AtHand
<1>6. OnePlace'
  <2>1. ASSUME NEW c \in Callers, NEW i \in 1 .. Len(mailbox'), NEW j \in 1 .. Len(mailbox'),
               mailbox'[i].resp = c, mailbox'[j].resp = c
        PROVE  i = j
    <3>1. i + k = j + k
      BY <1>3, <2>1 DEF ChannelInv, OnePlace
    <3>2. QED
      BY <3>1
  <2>2. QED
    BY <1>1, <2>1 DEF OnePlace
<1>7. AnswersFit'
  BY <1>2 DEF ChannelInv, AnswersFit, InPending, Failed
<1>8. QED
  BY <1>4, <1>5, <1>6, <1>7 DEF ChannelInv

\* The work at hand, and what an admission makes of it.
LEMMA AdmitFits ==
  ASSUME NEW c \in Callers \cup {None}, NEW b \in BOOLEAN, Admit(c, b)
  PROVE  \/ Answer(c, Failed) /\ task'.resp = None /\ task'.at \in {"recv", "sweep"}
         \/ reply' = reply /\ task'.resp = c /\ task'.at \in {"load", "grant"}
<1>1. NextCandidate(b).resp = None /\ NextCandidate(b).at \in {"recv", "sweep"}
  BY DEF NextCandidate, At
<1>2. CASE poisoned
  BY <1>1, <1>2 DEF Admit
<1>3. CASE ~poisoned
  <2>1. \A p \in {"load", "grant"} : /\ [At(p) EXCEPT !.resp = c, !.sweeping = b].at = p
                                    /\ [At(p) EXCEPT !.resp = c, !.sweeping = b].resp = c
    BY DEF At
  <2>2. \E p \in {"load", "grant"} : task' = [At(p) EXCEPT !.resp = c, !.sweeping = b]
    BY <1>3, Zenon DEF Admit
  <2>3. reply' = reply
    BY <1>3 DEF Admit
  <2>4. QED
    BY <2>1, <2>2, <2>3
<1>4. QED
  BY <1>2, <1>3

\* What the coordinator takes from its mailbox.
LEMMA TakenCommand ==
  ASSUME TypeInv, ChannelInv, NEW op, Receive(op)
  PROVE  LET m == Head(mailbox) IN
         /\ m \in Sendable /\ m.op = op /\ m.resp \in Callers \cup {None}
         /\ m.resp # None => Expects(m.resp, m)
         /\ \A i \in 1 .. Len(mailbox') : mailbox'[i].resp = m.resp => m.resp = None
         /\ \A i \in 1 .. Len(pending) : pending[i] = m.resp => m.resp = None
         /\ Len(mailbox') = Len(mailbox) - 1
         /\ \A i \in 1 .. Len(mailbox') : mailbox'[i] = mailbox[i + 1]
         /\ task.at = "recv" /\ task.resp = None
<1>1. /\ Head(mailbox) = mailbox[1] /\ Head(mailbox) \in Sendable /\ Head(mailbox).op = op
      /\ Len(mailbox) \in Nat \ {0} /\ Len(mailbox') = Len(mailbox) - 1
      /\ \A i \in 1 .. Len(mailbox') : mailbox'[i] = mailbox[i + 1]
  BY ReceiveKeepsCommands DEF TypeInv
<1>2. Head(mailbox).resp \in Callers \cup {None} /\ task.resp \in Callers \cup {None}
  BY <1>1 DEF Sendable, Command, TypeInv, TypeOK, Task
<1>3. task.at = "recv" /\ task.resp = None
  BY <1>2 DEF Receive, ChannelInv, AtHand
<1>4. Head(mailbox).resp # None => Expects(Head(mailbox).resp, Head(mailbox))
  BY <1>1, <1>2 DEF ChannelInv, InMailbox
<1>5. ASSUME NEW i \in 1 .. Len(mailbox'), mailbox'[i].resp = Head(mailbox).resp, Head(mailbox).resp # None
      PROVE  FALSE
  <2>1. i + 1 \in 1 .. Len(mailbox) /\ 1 \in 1 .. Len(mailbox) /\ mailbox[i + 1].resp = mailbox[1].resp
    BY <1>1, <1>5
  <2>2. i + 1 = 1
    BY <1>1, <1>2, <1>5, <2>1 DEF ChannelInv, OnePlace
  <2>3. QED
    BY <2>2
<1>6. \A i \in 1 .. Len(pending) : pending[i] = Head(mailbox).resp => Head(mailbox).resp = None
  BY <1>1, <1>2 DEF ChannelInv, OnePlace
<1>7. QED
  BY <1>1, <1>2, <1>3, <1>4, <1>5, <1>6

\* A command that nobody awaits is sent.
LEMMA NobodyAsked ==
  ASSUME TypeInv, ChannelInv, NEW m \in Sendable, m.resp = None,
         mailbox' = mailbox \/ mailbox' = Sent(mailbox, m),
         UNCHANGED <<pending, pc, reply, lease>>,
         task'.resp = None \/ UNCHANGED <<task, active>>
  PROVE  ChannelInv'
<1>1. Len(mailbox) \in Nat /\ \A c \in Callers : c # None
  BY LenProperties, NoneAssumption DEF TypeInv, TypeOK
<1>2. /\ Len(mailbox') \in {Len(mailbox), Len(mailbox) + 1}
      /\ \A i \in 1 .. Len(mailbox) : mailbox'[i] = mailbox[i]
      /\ Len(mailbox') = Len(mailbox) + 1 => mailbox'[Len(mailbox) + 1] = m
  <2>1. CASE mailbox' = mailbox
    BY <1>1, <2>1
  <2>2. CASE mailbox' = Sent(mailbox, m)
    BY <2>2, SentKeepsCommands DEF TypeInv
  <2>3. QED
    BY <2>1, <2>2
<1>3. ASSUME NEW i \in 1 .. Len(mailbox'), NEW c \in Callers, mailbox'[i].resp = c
      PROVE  i \in 1 .. Len(mailbox) /\ mailbox'[i] = mailbox[i]
  BY <1>1, <1>2, <1>3
<1>4. InMailbox'
  <2> SUFFICES ASSUME NEW c \in Callers, NEW i \in 1 .. Len(mailbox'), mailbox'[i].resp = c
               PROVE  Expects(c, mailbox[i])'
    BY DEF InMailbox
  <2>1. Expects(c, mailbox[i]) /\ mailbox'[i] = mailbox[i]
    BY <1>3 DEF ChannelInv, InMailbox
  <2>2. QED
    BY <2>1 DEF Expects
<1>5. InPending' /\ AtHand' /\ AnswersFit'
  BY <1>1 DEF ChannelInv, InPending, AtHand, AnswersFit
<1>6. OnePlace'
  BY <1>1, <1>3 DEF ChannelInv, OnePlace
<1>7. QED
  BY <1>4, <1>5, <1>6 DEF ChannelInv

\* What the coordinator does.
LEMMA ChannelCoordinator ==
  ASSUME TypeInv, ChannelInv, Coordinator
  PROVE  ChannelInv'
<1> DEFINE m == Head(mailbox)
<1>1. /\ Len(mailbox) \in Nat /\ Len(pending) \in Nat /\ \A c \in Callers : c # None
      /\ task \in Task /\ task.resp \in Callers \cup {None} /\ task.sweeping \in BOOLEAN
      /\ reply \in [Callers -> Reply] /\ pending \in Seq(Callers \cup {None})
  BY LenProperties, NoneAssumption DEF TypeInv, TypeOK, Task
<1>2. /\ \A p : At(p).resp = None /\ At(p).at = p
      /\ \A b : NextCandidate(b).resp = None
  BY DEF At, NextCandidate
<1>3. UNCHANGED <<pc, lease>>
  BY DEF Coordinator, ReceiveBegin, ReceiveAppend, ReceiveSettle, ReceiveAbandon, ReceiveShutdown,
    Sweep, Load, Grant, CommitAppended, CommitReplayed, CommitRefused, CommitFailed,
    CommitIndeterminate, Reload, Observe, Exit, callers
<1>4. \A r \in Callers \cup {None} : \A a : Answer(r, a) => \A c \in Callers : c # r => reply'[c] = reply[c]
  BY <1>1 DEF Answer
<1>5. \A r \in Callers : \A a : Answer(r, a) => reply'[r] = a
  BY <1>1 DEF Answer
<1>6. /\ Failed.kind = "fail"
      /\ \A s : Done(s).kind = "done"
      /\ \A e : Absent(e).kind = "absent"
      /\ NoReply.kind = "none"
  BY DEF Failed, Done, Absent, NoReply
<1>7. mailbox' = mailbox /\ pending' = pending => Taken(0, 0)
  BY <1>1 DEF Taken
\* The work at hand stays, or its channel is answered or dropped.
<1>8. ASSUME mailbox' = mailbox, pending' = pending,
             task.resp # None => \/ /\ task'.resp = task.resp /\ reply' = reply
                                   /\ active'.token = active.token
                                   /\ \/ task.at = "load" /\ task'.at = "grant"
                                      \/ /\ task.at \in {"commit", "reload"}
                                         /\ task'.at \in {"reload", "observe"}
                                 \/ /\ task'.resp = None
                                    /\ \E a : /\ Answer(task.resp, a)
                                              /\ a.kind = "grant" => task.at = "grant",
             task.resp = None => reply' = reply /\ task'.resp = None
      PROVE  ChannelInv'
  <2>1. /\ \A i \in 1 .. Len(mailbox) : mailbox[i].resp = task.resp => task.resp = None
        /\ \A i \in 1 .. Len(pending) : pending[i] = task.resp => task.resp = None
    BY <1>1 DEF ChannelInv, OnePlace
  <2>2. task.resp # None => /\ reply[task.resp] = NoReply
                            /\ \/ task.at \in {"load", "grant"} /\ pc[task.resp] = "begin"
                               \/ /\ task.at \in {"commit", "reload", "observe"}
                                  /\ pc[task.resp] = "append" /\ lease[task.resp] = active.token
    BY <1>1 DEF ChannelInv, AtHand
  <2>3. task'.resp \in {None, task.resp} /\ \A c \in Callers : c # task.resp => reply'[c] = reply[c]
    BY <1>1, <1>4, <1>8
  <2>4. task.resp # None =>
          /\ pc[task.resp] \in {"begin", "append", "settle"}
          /\ reply'[task.resp].kind = "grant" => pc[task.resp] = "begin"
          /\ task'.resp = task.resp =>
                 /\ reply'[task.resp] = NoReply
                 /\ \/ task'.at \in {"load", "grant"} /\ pc[task.resp] = "begin"
                    \/ /\ task'.at \in {"commit", "reload", "observe"}
                       /\ pc[task.resp] = "append" /\ lease[task.resp] = active'.token
    BY <1>1, <1>5, <1>6, <1>8, <2>2
  <2>5. QED
    BY <1>1, <1>3, <1>7, <1>8, <2>1, <2>3, <2>4, TakingKeepsChannels
<1>9. CASE Load
  <2>1. mailbox' = mailbox /\ pending' = pending /\ active' = active /\ task.at = "load"
    BY <1>9 DEF Load
  <2>2. CASE task' = [task EXCEPT !.at = "grant"] /\ reply' = reply
    <3>1. task'.at = "grant" /\ task'.resp = task.resp
      BY <1>1, <2>2 DEF Task
    <3>2. QED
      BY <1>8, <2>1, <2>2, <3>1
  <2>3. CASE Answer(task.resp, Failed) /\ task' = NextCandidate(task.sweeping)
    BY <1>2, <1>6, <1>8, <2>1, <2>3 DEF Answer
  <2>4. QED
    BY <1>9, <2>2, <2>3 DEF Load
<1>10. CASE Grant
  <2>1. pending' = pending /\ task.at = "grant"
    BY <1>10 DEF Grant
  <2>2. CASE Answer(task.resp, Failed) /\ task' = NextCandidate(task.sweeping) /\ mailbox' = mailbox
    BY <1>2, <1>6, <1>8, <2>1, <2>2 DEF Answer
  <2>3. CASE /\ task.resp # None /\ Answer(task.resp, Granted(nextToken))
             /\ task' = At("recv") /\ mailbox' = mailbox
    BY <1>2, <1>8, <2>1, <2>3
  <2>4. CASE /\ task.resp = None /\ mailbox' = Sent(mailbox, Abandon(nextToken))
             /\ task' = NextCandidate(task.sweeping) /\ reply' = reply
    <3>1. Abandon(nextToken) \in Sendable /\ Abandon(nextToken).resp = None
      BY MessageTypes, BoundsAssumption DEF Abandon, TypeInv, TypeOK
    <3>2. QED
      BY <1>2, <1>3, <2>1, <2>4, <3>1, NobodyAsked
  <2>5. QED
    BY <1>10, <2>2, <2>3, <2>4 DEF Grant
<1>11. CASE \/ CommitAppended \/ CommitReplayed \/ CommitRefused \/ CommitFailed
            \/ CommitIndeterminate \/ Reload \/ Observe
  <2>1. mailbox' = mailbox /\ pending' = pending /\ task.at \in {"commit", "reload", "observe"}
    BY <1>11 DEF CommitAppended, CommitReplayed, CommitRefused, CommitFailed, CommitIndeterminate,
      Reload, Observe, state
  <2>2. \/ \E p \in {"reload", "observe"} :
               /\ task' = [task EXCEPT !.at = p] /\ reply' = reply
               /\ task.at \in {"commit", "reload"} /\ active' \in {active, MarkTerminal(task.event)}
        \/ task' = At("recv") /\ \E a : Answer(task.resp, a) /\ a.kind # "grant"
    BY <1>6, <1>11 DEF CommitAppended, CommitReplayed, CommitRefused, CommitFailed, CommitIndeterminate,
      Reload, Observe, Poison, state, callers
  <2>3. CASE \E p \in {"reload", "observe"} :
               /\ task' = [task EXCEPT !.at = p] /\ reply' = reply
               /\ task.at \in {"commit", "reload"} /\ active' \in {active, MarkTerminal(task.event)}
    <3>1. task'.at \in {"reload", "observe"} /\ task'.resp = task.resp
      BY <1>1, <2>3 DEF Task
    <3>2. active'.token = active.token
      BY <2>3 DEF MarkTerminal, TypeInv, TypeOK, ActiveTurn
    <3>3. QED
      BY <1>8, <2>1, <2>3, <3>1, <3>2
  <2>4. CASE task' = At("recv") /\ \E a : Answer(task.resp, a) /\ a.kind # "grant"
    BY <1>2, <1>8, <2>1, <2>4 DEF Answer
  <2>5. QED
    BY <2>2, <2>3, <2>4
\* A command is taken, and answered or dropped.
<1>12. ASSUME NEW op, Receive(op), pending' = pending, task'.resp = None,
              \/ reply' = reply
              \/ \E a : Answer(m.resp, a) /\ a.kind # "grant"
       PROVE  ChannelInv'
  <2>1. m.resp \in Callers \cup {None}
    BY <1>12, TakenCommand
  <2>2. /\ Taken(1, 0)
        /\ \A i \in 1 .. Len(mailbox') : mailbox'[i].resp = m.resp => m.resp = None
        /\ \A i \in 1 .. Len(pending') : pending'[i] = m.resp => m.resp = None
        /\ m.resp # None => Expects(m.resp, m)
    BY <1>1, <1>12, TakenCommand DEF Taken
  <2>3. \A c \in Callers : c # m.resp => reply'[c] = reply[c]
    BY <1>4, <1>12, <2>1
  <2>4. m.resp # None => /\ pc[m.resp] \in {"begin", "append", "settle"}
                         /\ reply'[m.resp].kind # "grant"
    BY <1>1, <1>5, <1>6, <1>12, <2>1, <2>2 DEF Expects
  <2>5. QED
    BY <1>1, <1>3, <1>12, <2>1, <2>2, <2>3, <2>4, TakingKeepsChannels
<1>13. CASE ReceiveSettle \/ ReceiveAbandon
  BY <1>2, <1>6, <1>12, <1>13, TakenCommand DEF ReceiveSettle, ReceiveAbandon, GrantPending, callers
\* A command is taken, and worked on.
<1>14. ASSUME NEW op, Receive(op), pending' = pending, reply' = reply, task'.resp = m.resp,
              m.resp # None =>
                \/ task'.at \in {"load", "grant"} /\ pc[m.resp] = "begin"
                \/ /\ task'.at \in {"commit", "reload", "observe"}
                   /\ pc[m.resp] = "append" /\ lease[m.resp] = active'.token
       PROVE  ChannelInv'
  <2>1. m.resp \in Callers \cup {None}
    BY <1>14, TakenCommand
  <2>2. /\ Taken(1, 0)
        /\ \A i \in 1 .. Len(mailbox') : mailbox'[i].resp = m.resp => m.resp = None
        /\ \A i \in 1 .. Len(pending') : pending'[i] = m.resp => m.resp = None
        /\ m.resp # None => Expects(m.resp, m)
    BY <1>1, <1>14, TakenCommand DEF Taken
  <2>3. m.resp # None => reply'[m.resp] = NoReply
    BY <1>14, <2>2 DEF Expects
  <2>4. QED
    BY <1>1, <1>3, <1>6, <1>14, <2>1, <2>2, <2>3, TakingKeepsChannels
<1>15. CASE ReceiveAppend
  <2>1. Receive("Append") /\ m.op = "Append" /\ UNCHANGED <<pending, active>> /\ task.resp = None
        /\ (m.resp # None => Expects(m.resp, m))
    BY <1>15, TakenCommand DEF ReceiveAppend, state
  <2>2. CASE UNCHANGED task
    BY <1>6, <1>12, <1>15, <2>1, <2>2 DEF ReceiveAppend
  <2>3. CASE /\ MayAppend(m) /\ UNCHANGED reply
             /\ task' = [At("commit") EXCEPT !.resp = m.resp, !.event = EventOf(m)]
    <3>1. task'.resp = m.resp /\ task'.at = "commit"
      BY <2>3 DEF At
    <3>2. m.resp # None => pc[m.resp] = "append" /\ lease[m.resp] = active'.token
      BY <2>1, <2>3 DEF Expects, MayAppend, OwnsLease
    <3>3. QED
      BY <1>14, <2>1, <2>3, <3>1, <3>2
  <2>4. QED
    BY <1>15, <2>2, <2>3 DEF ReceiveAppend
<1>16. CASE ReceiveBegin
  <2>1. /\ Receive("Begin") /\ m.op = "Begin" /\ active' = active /\ task.resp = None
        /\ m.resp # None => Expects(m.resp, m)
        /\ m.resp \in Callers \cup {None}
    BY <1>16, TakenCommand DEF ReceiveBegin
  <2>2. CASE UNCHANGED <<task, pending>>
    <3>1. reply' = reply \/ \E a : Answer(m.resp, a) /\ a.kind # "grant"
      <4>1. CASE stopping
        BY <1>6, <1>16, <4>1 DEF ReceiveBegin
      <4>2. CASE ~stopping /\ m.resp = None
        BY <1>16, <4>2 DEF ReceiveBegin
      <4>3. CASE ~stopping /\ m.resp # None /\ active.token # 0
        BY <1>16, <4>3 DEF ReceiveBegin
      <4>4. CASE ~stopping /\ m.resp # None /\ active.token = 0
        <5>1. Admit(m.resp, FALSE)
          BY <1>16, <4>4 DEF ReceiveBegin
        <5>2. QED
          BY <1>6, <2>1, <5>1, AdmitFits
      <4>5. QED
        BY <4>1, <4>2, <4>3, <4>4
    <3>2. QED
      BY <1>12, <2>1, <2>2, <3>1
  <2>3. CASE Admit(m.resp, FALSE) /\ UNCHANGED pending
    <3>1. CASE Answer(m.resp, Failed) /\ task'.resp = None
      BY <1>6, <1>12, <2>1, <2>3, <3>1
    <3>2. CASE reply' = reply /\ task'.resp = m.resp /\ task'.at \in {"load", "grant"}
      <4>1. m.resp # None => pc[m.resp] = "begin"
        BY <2>1 DEF Expects
      <4>2. QED
        BY <1>14, <2>1, <2>3, <3>2, <4>1
    <3>3. QED
      BY <2>1, <2>3, <3>1, <3>2, AdmitFits
  <2>4. CASE m.resp # None /\ pending' = Append(pending, m.resp) /\ UNCHANGED <<task, reply>>
    <3>1. /\ \A i \in 1 .. Len(mailbox') : mailbox'[i].resp = m.resp => m.resp = None
          /\ \A i \in 1 .. Len(pending) : pending[i] = m.resp => m.resp = None
          /\ Len(mailbox') = Len(mailbox) - 1
          /\ \A i \in 1 .. Len(mailbox') : mailbox'[i] = mailbox[i + 1]
      BY <2>1, TakenCommand
    <3>2. /\ Len(pending') = Len(pending) + 1 /\ pending'[Len(pending) + 1] = m.resp
          /\ \A i \in 1 .. Len(pending) : pending'[i] = pending[i]
      BY <1>1, <2>1, <2>4, AppendProperties
    <3>3. pc[m.resp] = "begin" /\ reply[m.resp] = NoReply /\ m.resp \in Callers
      BY <2>1, <2>4 DEF Expects
    <3>4. ASSUME NEW i \in 1 .. Len(mailbox')
          PROVE  i + 1 \in 1 .. Len(mailbox) /\ mailbox'[i] = mailbox[i + 1]
      BY <1>1, <3>1
    <3>5. \A i \in 1 .. Len(pending') : i \in 1 .. Len(pending) \/ i = Len(pending) + 1
      BY <1>1, <3>2
    <3>6. InMailbox'
      <4> SUFFICES ASSUME NEW c \in Callers, NEW i \in 1 .. Len(mailbox'), mailbox'[i].resp = c
                   PROVE  Expects(c, mailbox[i])'
        BY DEF InMailbox
      <4>1. Expects(c, mailbox[i + 1]) /\ mailbox'[i] = mailbox[i + 1]
        BY <3>4 DEF ChannelInv, InMailbox
      <4>2. QED
        BY <1>3, <2>4, <4>1 DEF Expects
    <3>7. InPending' /\ AtHand' /\ AnswersFit'
      BY <1>3, <2>1, <2>4, <3>2, <3>3, <3>5 DEF ChannelInv, InPending, AtHand, AnswersFit
    <3>8. OnePlace'
      <4>1. ASSUME NEW c \in Callers, NEW i \in 1 .. Len(mailbox'), NEW j \in 1 .. Len(mailbox'),
                   mailbox'[i].resp = c, mailbox'[j].resp = c
            PROVE  i = j
        <5>1. i + 1 = j + 1
          BY <3>4, <4>1 DEF ChannelInv, OnePlace
        <5>2. QED
          BY <5>1
      <4>2. \A c \in Callers, i, j \in 1 .. Len(pending') : pending'[i] = c /\ pending'[j] = c => i = j
        BY <3>1, <3>2, <3>3, <3>5 DEF ChannelInv, OnePlace
      <4>3. \A c \in Callers, i \in 1 .. Len(mailbox') :
              mailbox'[i].resp = c => task'.resp # c /\ \A j \in 1 .. Len(pending') : pending'[j] # c
        BY <1>1, <2>1, <2>4, <3>1, <3>2, <3>3, <3>4, <3>5 DEF ChannelInv, OnePlace
      <4>4. \A c \in Callers, j \in 1 .. Len(pending') : pending'[j] = c => task'.resp # c
        BY <1>1, <2>1, <2>4
      <4>5. QED
        BY <4>1, <4>2, <4>3, <4>4 DEF OnePlace
    <3>9. QED
      BY <3>6, <3>7, <3>8 DEF ChannelInv
  <2>5. QED
    BY <1>16, <2>2, <2>3, <2>4 DEF ReceiveBegin
<1>17. CASE Sweep
  <2>1. /\ task.at = "sweep" /\ task.resp = None /\ mailbox' = mailbox /\ active' = active
    BY <1>1, <1>17 DEF Sweep, ChannelInv, AtHand
  <2>2. CASE pending = <<>>
    BY <1>2, <1>8, <1>17, <2>1, <2>2 DEF Sweep
  <2>3. CASE pending # <<>>
    <3> DEFINE r == Head(pending)
    <3>1. /\ r \in Callers \cup {None} /\ r = pending[1] /\ Len(pending) > 0
          /\ Len(pending') = Len(pending) - 1
          /\ \A i \in 1 .. Len(pending') : pending'[i] = pending[i + 1]
      <4>1. pending' = Tail(pending)
        BY <1>17, <2>3 DEF Sweep
      <4>2. QED
        BY <1>1, <2>3, <4>1, HeadTailProperties, EmptySeq
    <3> HIDE DEF r
    <3>2. Taken(0, 1)
      BY <1>1, <2>1, <3>1 DEF Taken
    <3>3. ASSUME NEW i \in 1 .. Len(pending'), pending'[i] = r, r # None PROVE FALSE
      <4>1. i + 1 \in 1 .. Len(pending) /\ 1 \in 1 .. Len(pending) /\ pending[i + 1] = pending[1]
        BY <1>1, <3>1, <3>3
      <4>2. i + 1 = 1
        BY <3>1, <3>3, <4>1 DEF ChannelInv, OnePlace
      <4>3. QED
        BY <4>2
    <3>4. \A i \in 1 .. Len(mailbox') : mailbox'[i].resp = r => r = None
      BY <1>1, <2>1, <3>1 DEF ChannelInv, OnePlace
    <3>5. r # None => pc[r] = "begin" /\ reply[r] = NoReply
      BY <1>1, <3>1 DEF ChannelInv, InPending
    <3>6. \/ /\ task'.resp = None
             /\ \/ reply' = reply
                \/ Answer(r, Failed)
          \/ reply' = reply /\ task'.resp = r /\ task'.at \in {"load", "grant"}
      <4>1. Admit(r, TRUE) =>
              \/ Answer(r, Failed) /\ task'.resp = None
              \/ reply' = reply /\ task'.resp = r /\ task'.at \in {"load", "grant"}
        BY <3>1, AdmitFits
      <4>2. QED
        BY <1>17, <2>1, <2>3, <4>1 DEF Sweep, r
    <3>7. /\ task'.resp \in {None, r}
          /\ \A c \in Callers : c # r => reply'[c] = reply[c]
      BY <1>4, <3>1, <3>6
    <3>8. r # None => /\ reply'[r].kind # "grant"
                      /\ task'.resp = r => reply'[r] = NoReply /\ task'.at \in {"load", "grant"}
      BY <1>5, <1>6, <3>1, <3>5, <3>6
    <3>9. QED
      BY <1>3, <3>1, <3>2, <3>3, <3>4, <3>5, <3>7, <3>8, TakingKeepsChannels
  <2>4. QED
    BY <2>2, <2>3
<1>18. CASE ReceiveShutdown
  <2>1. Receive("Shutdown") /\ RejectPending /\ task' = task
    BY <1>18 DEF ReceiveShutdown
  <2>2. /\ Len(mailbox') = Len(mailbox) - 1 /\ task.resp = None
        /\ \A i \in 1 .. Len(mailbox') : mailbox'[i] = mailbox[i + 1]
    BY <2>1, TakenCommand
  <2>3. QED
    BY <1>3, <2>1, <2>2, RefusalKeepsChannels
<1>19. CASE Exit
  <2>1. RejectPending /\ task' = task /\ mailbox' = mailbox /\ task.resp = None
    BY <1>1, <1>19 DEF Exit, ChannelInv, AtHand
  <2>2. /\ Len(mailbox') = Len(mailbox) - 0
        /\ \A i \in 1 .. Len(mailbox') : mailbox'[i] = mailbox[i + 0]
    BY <1>1, <2>1
  <2>3. QED
    BY <1>3, <2>1, <2>2, RefusalKeepsChannels
<1>20. QED
  BY <1>9, <1>10, <1>11, <1>13, <1>15, <1>16, <1>17, <1>18, <1>19 DEF Coordinator

\* Every step keeps the channels in order.
LEMMA ChannelStep == TypeInv /\ ChannelInv /\ [Next]_vars => ChannelInv'
<1> SUFFICES ASSUME TypeInv, ChannelInv, [Next]_vars PROVE ChannelInv'
  OBVIOUS
<1>1. ASSUME NEW c \in Callers, Caller(c) PROVE ChannelInv'
  BY <1>1, ChannelCallers
<1>2. CASE Coordinator
  BY <1>2, ChannelCoordinator
<1>3. CASE Shutdown
  <2>1. ShutdownCmd \in Sendable /\ ShutdownCmd.resp = None
    BY MessageTypes DEF ShutdownCmd
  <2>2. mailbox' = mailbox \/ mailbox' = Sent(mailbox, ShutdownCmd)
    BY <1>3 DEF Shutdown, ShutdownFlag, ShutdownSend, ShutdownReturn
  <2>3. UNCHANGED <<pending, pc, reply, lease, task, active>>
    BY <1>3 DEF Shutdown, ShutdownFlag, ShutdownSend, ShutdownReturn, state, callers
  <2>4. QED
    BY <2>1, <2>2, <2>3, NobodyAsked
<1>4. CASE LateWrite \/ UNCHANGED vars
  <2>1. UNCHANGED <<mailbox, pending, task, active, pc, reply, lease>>
    BY <1>4 DEF LateWrite, vars, state, callers
  <2>2. QED
    BY <2>1 DEF ChannelInv, InMailbox, InPending, AtHand, OnePlace, AnswersFit, Expects
<1>5. QED
  BY <1>1, <1>2, <1>3, <1>4 DEF Next, Terminated

-----------------------------------------------------------------------------
(***************************************************************************)
(* How leases and Sessions end.                                            *)
(***************************************************************************)

\* Begins wait only for an open turn or for the sweep that admits the next.
QueueSwept ==
  /\ task.at = "recv" /\ active.token = 0 => Len(pending) = 0
  /\ task.at \in {"load", "grant"} /\ ~task.sweeping => Len(pending) = 0
  /\ task.at \in {"commit", "reload", "observe"} => active.token # 0

\* A Session without a coordinator has no turn and no work.
Asleep == coord \in {"absent", "exited"} => task.at = "recv" /\ active.token = 0

Halting ==
  /\ down # "running" => stopping
  /\ down = "done" => coord \in {"absent", "exited"}

\* Somebody has the open lease, is being sent it, or has given it back.
LeaseOnItsWay ==
  coord = "open" /\ active.token # 0 =>
    \/ \E c \in Callers : Owns(c, active.token)
    \/ \E i \in 1 .. Len(mailbox) : Releases(mailbox[i]) /\ mailbox[i].token = active.token

EndsInv == QueueSwept /\ Asleep /\ Halting /\ LeaseOnItsWay

\* The invariant of the ends holds at first.
LEMMA EndsInit == Init => EndsInv
BY EmptySeq DEF Init, At, NoTurn, EndsInv, QueueSwept, Asleep, Halting, LeaseOnItsWay

\* A caller that has its answer, or awaits none, is not answered.
LEMMA AnswersStay ==
  ASSUME TypeInv, ChannelInv, Coordinator, NEW c \in Callers,
         reply[c] # NoReply \/ pc[c] \notin {"begin", "append", "settle"}
  PROVE  reply'[c] = reply[c]
<1>1. /\ \A i \in 1 .. Len(mailbox) : mailbox[i].resp # c
      /\ \A i \in 1 .. Len(pending) : pending[i] # c
      /\ task.resp # c
  BY NotWaiting DEF Unheard
<1>2. reply \in [Callers -> Reply] /\ pending \in Seq(Callers \cup {None}) /\ DOMAIN pending = 1 .. Len(pending)
  BY LenProperties DEF TypeInv, TypeOK
<1>3. \A r \in Callers \cup {None} : \A a : Answer(r, a) => \A d \in Callers : d # r => reply'[d] = reply[d]
  BY <1>2 DEF Answer
<1>4. task.resp \in Callers \cup {None}
  BY DEF TypeInv, TypeOK, Task
<1>5. CASE RejectPending
  BY <1>1, <1>2, <1>5 DEF RejectPending, ToSet
<1>6. ASSUME NEW op, Receive(op)
      PROVE  Head(mailbox).resp \in Callers \cup {None} /\ Head(mailbox).resp # c
  <2>1. Head(mailbox) = mailbox[1] /\ 1 \in 1 .. Len(mailbox) /\ Head(mailbox) \in Sendable
    BY <1>6, ReceiveKeepsCommands DEF TypeInv
  <2>2. QED
    BY <1>1, <2>1 DEF Sendable, Command
<1>7. \A r, b : Admit(r, b) => reply' = reply \/ Answer(r, Failed)
  BY DEF Admit
<1>8. CASE ReceiveBegin \/ ReceiveAppend \/ ReceiveSettle
  <2>1. reply' = reply \/ \E a : Answer(Head(mailbox).resp, a)
    BY <1>7, <1>8 DEF ReceiveBegin, ReceiveAppend, ReceiveSettle
  <2>2. QED
    BY <1>3, <1>6, <1>8, <2>1 DEF ReceiveBegin, ReceiveAppend, ReceiveSettle
<1>9. CASE Sweep
  <2>1. pending # <<>> => Head(pending) \in Callers \cup {None} /\ Head(pending) # c
    BY <1>1, <1>2, HeadTailProperties, EmptySeq
  <2>2. \/ reply' = reply
        \/ pending # <<>> /\ \E a : Answer(Head(pending), a)
    BY <1>7, <1>9 DEF Sweep
  <2>3. QED
    BY <1>3, <2>1, <2>2
<1>10. CASE \/ Load \/ Grant \/ CommitAppended \/ CommitReplayed \/ CommitRefused \/ CommitFailed
            \/ CommitIndeterminate \/ Reload \/ Observe
  <2>1. reply' = reply \/ \E a : Answer(task.resp, a)
    BY <1>10 DEF Load, Grant, CommitAppended, CommitReplayed, CommitRefused, CommitFailed,
      CommitIndeterminate, Reload, Observe, Poison, callers
  <2>2. QED
    BY <1>1, <1>3, <1>4, <2>1
<1>11. CASE ReceiveAbandon
  BY <1>11 DEF ReceiveAbandon, callers
<1>12. QED
  BY <1>5, <1>8, <1>9, <1>10, <1>11 DEF Coordinator, ReceiveShutdown, Exit

\* A caller gives its lease away only by a Settle or an Abandon.
LEMMA LeaseCallersEnd ==
  ASSUME TypeInv, LeaseInv, ChannelInv, EndsInv, NEW c \in Callers, Caller(c)
  PROVE  LeaseOnItsWay'
<1> SUFFICES ASSUME (coord = "open")', active'.token # 0
             PROVE  \/ \E d \in Callers : Owns(d, active.token)'
                    \/ \E i \in 1 .. Len(mailbox') : Releases(mailbox'[i]) /\ mailbox'[i].token = active'.token
  BY DEF LeaseOnItsWay, Releases
<1> DEFINE box == CloseInMailbox(c)
           t == active.token
<1>1. /\ pc \in [Callers -> {"idle", "checked", "located", "cleared", "begin", "turn", "append", "settle"}]
      /\ reply \in [Callers -> Reply] /\ lease \in [Callers -> Nat]
      /\ mailbox \in Seq(Sendable) /\ Len(mailbox) \in Nat
      /\ box \in Seq(Sendable) /\ Len(box) = Len(mailbox)
      /\ \A i \in 1 .. Len(mailbox) : box[i].op = mailbox[i].op /\ box[i].token = mailbox[i].token
      /\ \A d \in Callers : lease[d] \in Nat /\ reply[d].token \in Nat
  BY CloseKeepsCommands, LenProperties DEF TypeInv, TypeOK, Reply
<1> HIDE DEF box
<1>2. active' = active
  BY DEF Caller, BeginCheck, BeginLocate, BeginRecheck, BeginSend, BeginReturn, BeginCancel,
    AppendSend, AppendReturn, AppendCancel, SettleSend, SettleReturn, SettleCancel, TurnDrop, state
<1>3. coord = "open"
  <2>1. CASE BeginLocate(c)
    <3>1. coord # "absent"
      BY <1>2 DEF EndsInv, Asleep
    <3>2. QED
      BY <2>1, <3>1 DEF BeginLocate
  <2>2. QED
    BY <2>1 DEF Caller, BeginCheck, BeginRecheck, BeginSend, BeginReturn, BeginCancel,
      AppendSend, AppendReturn, AppendCancel, SettleSend, SettleReturn, SettleCancel, TurnDrop
<1>4. ASSUME NEW s \in Seq(Sendable), NEW m \in Sendable, Releases(m), mailbox' = Sent(s, m), m.token = t
      PROVE  \E i \in 1 .. Len(mailbox') : Releases(mailbox'[i]) /\ mailbox'[i].token = t
  <2>1. mailbox' = Append(s, m)
    BY <1>3, <1>4 DEF Sent
  <2>2. Len(mailbox') = Len(s) + 1 /\ mailbox'[Len(s) + 1] = m /\ Len(s) \in Nat
    BY <1>4, <2>1, AppendProperties, LenProperties
  <2>3. QED
    BY <1>4, <2>2
<1>5. \A n \in Nat : /\ Abandon(n) \in Sendable /\ Releases(Abandon(n)) /\ Abandon(n).token = n
                     /\ SettleCmd(n, c) \in Sendable /\ Releases(SettleCmd(n, c)) /\ SettleCmd(n, c).token = n
  BY MessageTypes DEF Abandon, SettleCmd, Releases
\* What was in the mailbox still is.
<1>6. ASSUME NEW i \in 1 .. Len(mailbox), Releases(mailbox[i]), mailbox[i].token = t
      PROVE  \E j \in 1 .. Len(mailbox') : Releases(mailbox'[j]) /\ mailbox'[j].token = t
  <2>1. \/ mailbox' = mailbox \/ mailbox' = box
        \/ \E s \in {mailbox, box}, m \in Sendable : mailbox' = Sent(s, m)
    <3>1. CASE BeginSend(c) \/ AppendSend(c) \/ SettleSend(c)
      BY <1>1, <1>3, <3>1, MessageTypes DEF BeginSend, AppendSend, SettleSend, Sent
    <3>2. CASE SettleReturn(c) \/ SettleCancel(c) \/ TurnDrop(c)
      BY <1>1, <3>2, MessageTypes DEF SettleReturn, SettleCancel, TurnDrop, box
    <3>3. CASE BeginCancel(c)
      BY <1>1, <3>3, MessageTypes DEF BeginCancel, DropGrant, box
    <3>4. QED
      BY <3>1, <3>2, <3>3 DEF Caller, BeginCheck, BeginLocate, BeginRecheck, BeginReturn,
        AppendReturn, AppendCancel, box
  <2>2. \A s \in {mailbox, box}, m \in Sendable :
          /\ Len(mailbox) <= Len(Sent(s, m)) /\ Len(Sent(s, m)) \in Nat
          /\ Sent(s, m)[i].op = mailbox[i].op /\ Sent(s, m)[i].token = mailbox[i].token
    <3>1. ASSUME NEW s \in {mailbox, box}, NEW m \in Sendable
          PROVE  /\ Len(mailbox) <= Len(Sent(s, m)) /\ Len(Sent(s, m)) \in Nat
                 /\ Sent(s, m)[i].op = mailbox[i].op /\ Sent(s, m)[i].token = mailbox[i].token
      <4>1. s \in Seq(Sendable) /\ Len(s) = Len(mailbox) /\ s[i].op = mailbox[i].op /\ s[i].token = mailbox[i].token
        BY <1>1
      <4>2. Len(Sent(s, m)) \in {Len(s), Len(s) + 1} /\ Sent(s, m)[i] = s[i]
        BY ZenonT(40), <4>1, SentKeepsCommands
      <4>3. QED
        BY <1>1, <4>1, <4>2
    <3>2. QED
      BY <3>1
  <2>3. i \in 1 .. Len(mailbox') /\ mailbox'[i].op = mailbox[i].op /\ mailbox'[i].token = mailbox[i].token
    <3>1. CASE mailbox' = mailbox \/ mailbox' = box
      BY <1>1, <3>1
    <3>2. CASE \E s \in {mailbox, box}, m \in Sendable : mailbox' = Sent(s, m)
      <4>1. PICK s \in {mailbox, box}, m \in Sendable : mailbox' = Sent(s, m)
        BY <3>2
      <4>2. /\ Len(mailbox) <= Len(mailbox') /\ Len(mailbox') \in Nat
            /\ mailbox'[i].op = mailbox[i].op /\ mailbox'[i].token = mailbox[i].token
        BY <2>2, <4>1, Zenon
      <4>3. QED
        BY <1>1, <4>2
    <3>3. QED
      BY <2>1, <3>1, <3>2
  <2>4. QED
    BY <1>6, <2>3 DEF Releases
<1>7. \A d \in Callers \ {c} : pc'[d] = pc[d] /\ reply'[d] = reply[d] /\ lease'[d] = lease[d]
  BY <1>1 DEF Caller, BeginCheck, BeginLocate, BeginRecheck, BeginSend, BeginReturn, BeginCancel,
    AppendSend, AppendReturn, AppendCancel, SettleSend, SettleReturn, SettleCancel, TurnDrop,
    DropLease, state
<1>8. ASSUME Holds(c), lease[c] = t
      PROVE  \/ Owns(c, t)'
             \/ \E i \in 1 .. Len(mailbox') : Releases(mailbox'[i]) /\ mailbox'[i].token = t
  <2>1. pc[c] \in {"turn", "append"}
    BY <1>8 DEF Holds
  <2>2. CASE AppendSend(c) \/ AppendReturn(c) \/ AppendCancel(c)
    BY <1>1, <1>2, <1>8, <2>2 DEF AppendSend, AppendReturn, AppendCancel, Owns, Holds
  <2>3. CASE SettleSend(c)
    BY <1>1, <1>4, <1>5, <1>8, <2>3 DEF SettleSend
  <2>4. CASE TurnDrop(c)
    BY <1>1, <1>4, <1>5, <1>8, <2>4 DEF TurnDrop
  <2>5. QED
    BY <2>1, <2>2, <2>3, <2>4 DEF Caller, BeginCheck, BeginLocate, BeginRecheck, BeginSend,
      BeginReturn, BeginCancel, SettleReturn, SettleCancel
<1>9. ASSUME Offered(c), reply[c].token = t
      PROVE  \/ Owns(c, t)'
             \/ \E i \in 1 .. Len(mailbox') : Releases(mailbox'[i]) /\ mailbox'[i].token = t
  <2>1. pc[c] = "begin" /\ reply[c] # NoReply
    BY <1>9 DEF Offered, ChannelInv, AnswersFit, NoReply
  <2>2. CASE BeginReturn(c)
    BY <1>1, <1>2, <1>9, <2>2 DEF BeginReturn, Owns, Holds, Offered
  <2>3. CASE BeginCancel(c)
    BY <1>1, <1>4, <1>5, <1>9, <2>3 DEF BeginCancel, DropGrant, Offered, box
  <2>4. QED
    BY <2>1, <2>2, <2>3 DEF Caller, BeginCheck, BeginLocate, BeginRecheck, BeginSend,
      AppendSend, AppendReturn, AppendCancel, SettleSend, SettleReturn, SettleCancel, TurnDrop
<1>10. ASSUME NEW d \in Callers, Owns(d, t)
       PROVE  \/ Owns(d, t)'
              \/ \E i \in 1 .. Len(mailbox') : Releases(mailbox'[i]) /\ mailbox'[i].token = t
  <2>1. CASE d = c
    BY <1>8, <1>9, <1>10, <2>1 DEF Owns
  <2>2. CASE d # c
    BY <1>2, <1>7, <1>10, <2>2 DEF Owns, Holds, Offered
  <2>3. QED
    BY <2>1, <2>2
<1>11. \/ \E d \in Callers : Owns(d, t)
       \/ \E i \in 1 .. Len(mailbox) : Releases(mailbox[i]) /\ mailbox[i].token = t
  BY <1>2, <1>3 DEF EndsInv, LeaseOnItsWay
<1>12. active'.token = t
  BY <1>2
<1>13. QED
  BY <1>6, <1>10, <1>11, <1>12

\* The coordinator ends a lease only by the Settle or the Abandon it receives.
LEMMA LeaseCoordinatorEnd ==
  ASSUME TypeInv, LeaseInv, ChannelInv, EndsInv, Coordinator
  PROVE  LeaseOnItsWay'
<1> SUFFICES ASSUME (coord = "open")', active'.token # 0
             PROVE  \/ \E d \in Callers : Owns(d, active.token)'
                    \/ \E i \in 1 .. Len(mailbox') : Releases(mailbox'[i]) /\ mailbox'[i].token = active'.token
  BY DEF LeaseOnItsWay, Releases
<1>1. UNCHANGED <<pc, lease>>
  BY DEF Coordinator, ReceiveBegin, ReceiveAppend, ReceiveSettle, ReceiveAbandon, ReceiveShutdown,
    Sweep, Load, Grant, CommitAppended, CommitReplayed, CommitRefused, CommitFailed,
    CommitIndeterminate, Reload, Observe, Exit, callers
<1>2. \A c \in Callers : Offered(c) => reply'[c] = reply[c]
  BY AnswersStay DEF Offered, NoReply
<1>3. CASE active'.token # active.token
  <2>1. active'.token = active.token \/ active'.token = 0 \/ Grant
    <3>1. active' \in {active, NoTurn, MarkTerminal(task.event)} \/ Grant
      BY DEF Coordinator, ReceiveBegin, ReceiveAppend, ReceiveSettle, ReceiveAbandon, ReceiveShutdown,
        Sweep, Load, CommitAppended, CommitReplayed, CommitRefused, CommitFailed,
        CommitIndeterminate, Reload, Observe, Exit, state, Poison
    <3>2. MarkTerminal(task.event).token = active.token /\ NoTurn.token = 0
      BY DEF MarkTerminal, NoTurn, TypeInv, TypeOK, ActiveTurn
    <3>3. QED
      BY <3>1, <3>2
  <2>2. PICK r \in Callers : Answer(r, Granted(nextToken)) /\ active'.token = nextToken
    BY <1>3, <2>1 DEF Grant, TypeInv, TypeOK, Task
  <2>3. Offered(r)' /\ reply'[r].token = nextToken
    <3>1. reply \in [Callers -> Reply] /\ r # None
      BY NoneAssumption DEF TypeInv, TypeOK
    <3>2. reply' = [reply EXCEPT ![r] = Granted(nextToken)]
      BY <2>2, <3>1, Zenon DEF Answer
    <3>3. QED
      BY <3>1, <3>2 DEF Granted, Offered
  <2>4. QED
    BY <2>2, <2>3 DEF Owns
<1>4. CASE active'.token = active.token
  <2>1. CASE \E op : Receive(op) /\ \E i \in 1 .. Len(mailbox) : Releases(mailbox[i]) /\ mailbox[i].token = active.token
    <3>1. PICK op : Receive(op)
      BY <2>1
    <3>2. PICK i \in 1 .. Len(mailbox) : Releases(mailbox[i]) /\ mailbox[i].token = active.token
      BY <2>1
    <3>3. /\ Head(mailbox) = mailbox[1] /\ Len(mailbox) \in Nat /\ Len(mailbox') = Len(mailbox) - 1
          /\ \A j \in 1 .. Len(mailbox') : mailbox'[j] = mailbox[j + 1]
          /\ Head(mailbox).op = op
      BY <3>1, ReceiveKeepsCommands DEF TypeInv
    <3>4. CASE i = 1
      <4>1. op \in {"Settle", "Abandon"} /\ OwnsLease(Head(mailbox))
        BY <3>2, <3>3, <3>4 DEF Releases, OwnsLease
      <4>2. active' = NoTurn
        BY <3>1, <3>3, <4>1 DEF Coordinator, ReceiveBegin, ReceiveAppend, ReceiveSettle, ReceiveAbandon,
          ReceiveShutdown, Receive, Sweep, Load, Grant, CommitAppended, CommitReplayed, CommitRefused,
          CommitFailed, CommitIndeterminate, Reload, Observe, Exit
      <4>3. QED
        BY <4>2 DEF NoTurn
    <3>5. CASE i # 1
      <4>1. i - 1 \in 1 .. Len(mailbox') /\ mailbox'[i - 1] = mailbox[i]
        BY <3>3, <3>5
      <4>2. QED
        BY <1>4, <3>2, <4>1
    <3>6. QED
      BY <3>4, <3>5
  <2>2. CASE \E c \in Callers : Owns(c, active.token)
    BY <1>1, <1>2, <1>4, <2>2 DEF Owns, Holds, Offered
  <2>3. CASE mailbox' = mailbox /\ \E i \in 1 .. Len(mailbox) : Releases(mailbox[i]) /\ mailbox[i].token = active.token
    BY <1>4, <2>3
  <2>4. mailbox' = mailbox \/ (\E op : Receive(op)) \/ Grant
    BY DEF Coordinator, ReceiveBegin, ReceiveAppend, ReceiveSettle, ReceiveAbandon,
      ReceiveShutdown, Sweep, Load, CommitAppended, CommitReplayed, CommitRefused,
      CommitFailed, CommitIndeterminate, Reload, Observe, Exit
  <2>5. coord = "open"
    BY DEF Coordinator, ReceiveBegin, ReceiveAppend, ReceiveSettle, ReceiveAbandon, ReceiveShutdown,
      Sweep, Load, Grant, CommitAppended, CommitReplayed, CommitRefused, CommitFailed,
      CommitIndeterminate, Reload, Observe, Exit
  <2>6. ~Grant
    BY <1>4 DEF Grant, LeaseInv, AdmittingIdle
  <2>7. \/ \E c \in Callers : Owns(c, active.token)
        \/ \E i \in 1 .. Len(mailbox) : Releases(mailbox[i]) /\ mailbox[i].token = active.token
    BY <1>4, <2>5 DEF EndsInv, LeaseOnItsWay
  <2>8. QED
    BY <2>1, <2>2, <2>3, <2>4, <2>6, <2>7
<1>5. QED
  BY <1>3, <1>4

\* What the callers do to the end of turns and of the Session.
LEMMA EndsCallers ==
  ASSUME TypeInv, LeaseInv, ChannelInv, EndsInv, NEW c \in Callers, Caller(c)
  PROVE  EndsInv'
<1>1. /\ UNCHANGED <<active, stopping, down>> /\ task'.at = task.at /\ task'.sweeping = task.sweeping
      /\ Len(pending') = Len(pending)
  <2>1. CASE CloseElsewhere(c)
    <3>1. Len(pending') = Len(pending)
      BY <2>1, ClosePendingType DEF CloseElsewhere, TypeInv, TypeOK
    <3>2. task'.at = task.at /\ task'.sweeping = task.sweeping
      BY <2>1 DEF CloseElsewhere, TypeInv, TypeOK, Task
    <3>3. UNCHANGED <<active, stopping, down>>
      BY DEF Caller, BeginCheck, BeginLocate, BeginRecheck, BeginSend, BeginReturn, BeginCancel,
        AppendSend, AppendReturn, AppendCancel, SettleSend, SettleReturn, SettleCancel, TurnDrop, state
    <3>4. QED
      BY <3>1, <3>2, <3>3
  <2>2. CASE UNCHANGED <<task, pending, active, stopping, down>>
    BY <2>2
  <2>3. QED
    BY <2>1, <2>2 DEF Caller, BeginCheck, BeginLocate, BeginRecheck, BeginSend, BeginReturn,
      BeginCancel, AppendSend, AppendReturn, AppendCancel, SettleSend, SettleReturn,
      SettleCancel, TurnDrop, state
<1>2. coord' = coord \/ (~stopping /\ coord' = "open")
  BY DEF Caller, BeginCheck, BeginLocate, BeginRecheck, BeginSend, BeginReturn, BeginCancel,
    AppendSend, AppendReturn, AppendCancel, SettleSend, SettleReturn, SettleCancel, TurnDrop
<1>3. QueueSwept' /\ Asleep' /\ Halting'
  BY <1>1, <1>2 DEF EndsInv, QueueSwept, Asleep, Halting
<1>4. QED
  BY <1>3, LeaseCallersEnd DEF EndsInv

\* What an admission leaves the coordinator at.
LEMMA AdmitPlaces ==
  ASSUME NEW c, NEW b \in BOOLEAN, Admit(c, b)
  PROVE  \/ task' = NextCandidate(b)
         \/ task'.at \in {"load", "grant"} /\ task'.sweeping = b
<1>1. CASE poisoned
  BY <1>1 DEF Admit
<1>2. CASE ~poisoned
  <2>1. \A p \in {"load", "grant"} : /\ [At(p) EXCEPT !.resp = c, !.sweeping = b].at = p
                                    /\ [At(p) EXCEPT !.resp = c, !.sweeping = b].sweeping = b
    BY DEF At
  <2>2. \E p \in {"load", "grant"} : task' = [At(p) EXCEPT !.resp = c, !.sweeping = b]
    BY <1>2, Zenon DEF Admit
  <2>3. QED
    BY <2>1, <2>2
<1>3. QED
  BY <1>1, <1>2

\* What the coordinator does to the end of turns and of the Session.
LEMMA EndsCoordinator ==
  ASSUME TypeInv, LeaseInv, ChannelInv, EndsInv, Coordinator
  PROVE  EndsInv'
<1>1. Len(<<>>) = 0 /\ Len(pending) \in Nat /\ task \in Task
  BY EmptySeq, LenProperties DEF TypeInv, TypeOK
<1>2. /\ \A p : At(p).at = p
      /\ NextCandidate(TRUE) = At("sweep") /\ NextCandidate(FALSE) = At("recv")
      /\ MarkTerminal(task.event).token = active.token /\ NoTurn.token = 0
  BY DEF At, NextCandidate, MarkTerminal, NoTurn, TypeInv, TypeOK, ActiveTurn
<1>3. ASSUME NEW op, Receive(op) PROVE task.at = "recv" /\ coord \notin {"absent", "exited"}
  BY <1>3 DEF Receive, LeaseInv, MailboxNeedsCoordinator
<1>4. coord \notin {"absent", "exited"}
  BY <1>3 DEF Coordinator, ReceiveBegin, ReceiveAppend, ReceiveSettle, ReceiveAbandon, ReceiveShutdown,
    Sweep, Load, Grant, CommitAppended, CommitReplayed, CommitRefused, CommitFailed,
    CommitIndeterminate, Reload, Observe, Exit, EndsInv, Asleep
<1>5. \/ coord' = coord \/ coord' = "closed"
      \/ coord' = "exited" /\ task'.at = "recv" /\ active'.token = 0
  BY <1>2 DEF Coordinator, ReceiveBegin, ReceiveAppend, ReceiveSettle, ReceiveAbandon, ReceiveShutdown,
    Sweep, Load, Grant, CommitAppended, CommitReplayed, CommitRefused, CommitFailed,
    CommitIndeterminate, Reload, Observe, Exit
<1>6. UNCHANGED <<stopping, down>>
  BY DEF Coordinator, ReceiveBegin, ReceiveAppend, ReceiveSettle, ReceiveAbandon, ReceiveShutdown,
    Sweep, Load, Grant, CommitAppended, CommitReplayed, CommitRefused, CommitFailed,
    CommitIndeterminate, Reload, Observe, Exit
<1>7. Asleep' /\ Halting'
  BY <1>4, <1>5, <1>6 DEF EndsInv, Asleep, Halting
<1>8. QueueSwept'
  <2>1. CASE ReceiveBegin
    <3>1. task.at = "recv" /\ active' = active
      BY <1>3, <2>1 DEF ReceiveBegin
    <3>2. CASE task' = task /\ pending' = pending
      BY <3>1, <3>2 DEF EndsInv, QueueSwept
    <3>3. CASE task' = task /\ active.token # 0
      BY <3>1, <3>3 DEF QueueSwept
    <3>4. CASE Admit(Head(mailbox).resp, FALSE) /\ active.token = 0 /\ pending' = pending
      <4>1. Len(pending') = 0
        BY <3>1, <3>4 DEF EndsInv, QueueSwept
      <4>2. task'.at \in {"recv", "load", "grant"}
        BY <1>2, <3>4, AdmitPlaces
      <4>3. QED
        BY <4>1, <4>2 DEF QueueSwept
    <3>5. QED
      BY <2>1, <3>2, <3>3, <3>4 DEF ReceiveBegin
  <2>2. CASE Sweep
    <3>1. CASE pending = <<>>
      BY <1>1, <1>2, <2>2, <3>1 DEF Sweep, QueueSwept
    <3>2. CASE task' = task
      BY <2>2, <3>2 DEF Sweep, QueueSwept
    <3>3. CASE Admit(Head(pending), TRUE)
      <4>1. task'.at = "sweep" \/ (task'.at \in {"load", "grant"} /\ task'.sweeping = TRUE)
        BY <1>2, <3>3, AdmitPlaces
      <4>2. QED
        BY <4>1 DEF QueueSwept
    <3>4. QED
      BY <2>2, <3>1, <3>2, <3>3 DEF Sweep
  <2>3. CASE Load \/ Grant
    <3>1. pending' = pending /\ task.sweeping \in BOOLEAN
      BY <1>1, <2>3 DEF Load, Grant, Task
    <3>2. CASE task' = [task EXCEPT !.at = "grant"] /\ active' = active /\ task.at = "load"
      <4>1. task'.at = "grant" /\ task'.sweeping = task.sweeping
        BY <1>1, <3>2 DEF Task
      <4>2. QED
        BY <3>1, <3>2, <4>1 DEF EndsInv, QueueSwept
    <3>3. CASE task' = NextCandidate(task.sweeping) /\ active' = active
      <4>1. CASE task.sweeping = TRUE
        <5>1. task'.at = "sweep"
          BY <1>2, <3>3, <4>1
        <5>2. QED
          BY <5>1 DEF QueueSwept
      <4>2. CASE task.sweeping = FALSE
        <5>1. task'.at = "recv" /\ task.at \in {"load", "grant"}
          BY <1>2, <2>3, <3>3, <4>2 DEF Load, Grant
        <5>2. QED
          BY <3>1, <4>2, <5>1 DEF EndsInv, QueueSwept
      <4>3. QED
        BY <3>1, <4>1, <4>2
    <3>4. CASE task' = At("recv") /\ active'.token = nextToken
      BY <1>2, <3>4, BoundsAssumption DEF QueueSwept, TypeInv, TypeOK
    <3>5. QED
      BY <2>3, <3>2, <3>3, <3>4 DEF Load, Grant
  <2>4. CASE ReceiveAppend
    <3>1. task.at = "recv" /\ active' = active /\ pending' = pending
      BY <1>3, <2>4 DEF ReceiveAppend, state
    <3>2. CASE task' = task
      BY <3>1, <3>2 DEF EndsInv, QueueSwept
    <3>3. CASE MayAppend(Head(mailbox)) /\ task' = [At("commit") EXCEPT !.resp = Head(mailbox).resp, !.event = EventOf(Head(mailbox))]
      <4>1. Head(mailbox).token # 0
        BY <2>4, ReceiveKeepsCommands DEF ReceiveAppend, TypeInv, LeaseInv, TokensSpent
      <4>2. active.token # 0 /\ task'.at = "commit"
        BY <3>3, <4>1 DEF MayAppend, OwnsLease, At
      <4>3. QED
        BY <3>1, <4>2 DEF QueueSwept
    <3>4. QED
      BY <2>4, <3>2, <3>3 DEF ReceiveAppend
  <2>5. CASE ReceiveSettle \/ ReceiveAbandon
    <3>1. pending' = pending /\ task.at = "recv"
      BY <1>3, <2>5 DEF ReceiveSettle, ReceiveAbandon
    <3>2. CASE GrantPending
      <4>1. \/ task'.at = "sweep"
            \/ task'.at = "recv" /\ active'.token # 0
        BY <1>2, <3>2 DEF GrantPending
      <4>2. QED
        BY <4>1 DEF QueueSwept
    <3>3. CASE UNCHANGED <<active, task>>
      BY <3>1, <3>3 DEF EndsInv, QueueSwept
    <3>4. QED
      BY <2>5, <3>2, <3>3 DEF ReceiveSettle, ReceiveAbandon
  <2>6. CASE ReceiveShutdown \/ Exit
    <3>1. Len(pending') = 0 /\ task' = task /\ task.at = "recv"
      BY <1>1, <1>3, <2>6 DEF ReceiveShutdown, Exit, RejectPending
    <3>2. QED
      BY <3>1 DEF QueueSwept
  <2>7. CASE \/ CommitAppended \/ CommitReplayed \/ CommitRefused \/ CommitFailed
             \/ CommitIndeterminate \/ Reload \/ Observe
    <3>1. task.at \in {"commit", "reload", "observe"} /\ active.token # 0
      BY <2>7 DEF CommitAppended, CommitReplayed, CommitRefused, CommitFailed, CommitIndeterminate,
        Reload, Observe, EndsInv, QueueSwept
    <3>2. active' \in {active, MarkTerminal(task.event)}
      BY <2>7 DEF CommitAppended, CommitReplayed, CommitRefused, CommitFailed, CommitIndeterminate,
        Reload, Observe, Poison, state
    <3>3. task' = At("recv") \/ \E p \in {"reload", "observe"} : task' = [task EXCEPT !.at = p]
      BY <2>7 DEF CommitAppended, CommitReplayed, CommitRefused, CommitFailed, CommitIndeterminate,
        Reload, Observe, Poison
    <3>4. task'.at \in {"recv", "reload", "observe"}
      BY <1>1, <1>2, <3>3 DEF Task
    <3>5. QED
      BY <1>2, <3>1, <3>2, <3>4 DEF QueueSwept
  <2>8. QED
    BY <2>1, <2>2, <2>3, <2>4, <2>5, <2>6, <2>7 DEF Coordinator
<1>9. QED
  BY <1>7, <1>8, LeaseCoordinatorEnd DEF EndsInv

\* Every step keeps the invariant of the ends.
LEMMA EndsStep == TypeInv /\ LeaseInv /\ ChannelInv /\ EndsInv /\ [Next]_vars => EndsInv'
<1> SUFFICES ASSUME TypeInv, LeaseInv, ChannelInv, EndsInv, [Next]_vars PROVE EndsInv'
  OBVIOUS
<1>1. ASSUME NEW c \in Callers, Caller(c) PROVE EndsInv'
  BY <1>1, EndsCallers
<1>2. CASE Coordinator
  BY <1>2, EndsCoordinator
<1>3. CASE Shutdown
  <2>1. UNCHANGED <<coord, task, pending, active, pc, lease, reply>>
    BY <1>3 DEF Shutdown, ShutdownFlag, ShutdownSend, ShutdownReturn, state, callers
  <2>2. QueueSwept' /\ Asleep' /\ Halting'
    BY <1>3, <2>1 DEF EndsInv, QueueSwept, Asleep, Halting, Shutdown, ShutdownFlag, ShutdownSend, ShutdownReturn
  <2>3. LeaseOnItsWay'
    <3>1. mailbox' = mailbox \/ mailbox' = Sent(mailbox, ShutdownCmd)
      BY <1>3 DEF Shutdown, ShutdownFlag, ShutdownSend, ShutdownReturn
    <3>2. /\ Len(mailbox) \in Nat /\ Len(mailbox') \in {Len(mailbox), Len(mailbox) + 1}
          /\ \A i \in 1 .. Len(mailbox) : mailbox'[i] = mailbox[i]
      <4>1. Len(mailbox) \in Nat
        BY LenProperties DEF TypeInv
      <4>2. CASE mailbox' = mailbox
        BY <4>1, <4>2
      <4>3. CASE mailbox' = Sent(mailbox, ShutdownCmd)
        BY <4>1, <4>3, SentKeepsCommands, MessageTypes DEF TypeInv
      <4>4. QED
        BY <3>1, <4>2, <4>3
    <3>3. \A i \in 1 .. Len(mailbox) : i \in 1 .. Len(mailbox')
      BY <3>2
    <3>4. QED
      BY <2>1, <3>2, <3>3 DEF EndsInv, LeaseOnItsWay, Owns, Holds, Offered
  <2>4. QED
    BY <2>2, <2>3 DEF EndsInv
<1>4. CASE LateWrite \/ UNCHANGED vars
  <2>1. UNCHANGED <<stopping, down, coord, mailbox, task, pending, active, pc, reply, lease>>
    BY <1>4 DEF LateWrite, vars, state, callers
  <2>2. QED
    BY <2>1 DEF EndsInv, QueueSwept, Asleep, Halting, LeaseOnItsWay, Owns, Holds, Offered
<1>5. QED
  BY <1>1, <1>2, <1>3, <1>4 DEF Next, Terminated

\* The channels of the callers and the ends of turns are in order in every
\* reachable state.
LEMMA EndsInvariant == Spec => [](TypeInv /\ LeaseInv /\ ChannelInv /\ EndsInv)
BY TypeInvariant, LeaseInit, LeaseStep, ChannelInit, ChannelStep, EndsInit, EndsStep, PTL DEF Spec

\* No lease leaks, no Begin is stranded and a finished shutdown is final,
\* however grants, cancellations and shutdown race.
THEOREM LeasesAreEnded == Spec => []LeasesEnd
<1>1. ASSUME TypeInv, LeaseInv, ChannelInv, EndsInv PROVE LeasesEnd
  <2>1. LeaseNotLeaked
    <3>1. \A i \in 1 .. Len(mailbox) : mailbox[i] \in ToSet(mailbox)
      BY <1>1, LenProperties DEF TypeInv, ToSet
    <3>2. \A c \in Callers : Owns(c, active.token) =>
            \/ lease[c] = active.token /\ Holds(c)
            \/ reply[c].kind = "grant" /\ reply[c].token = active.token
      BY DEF Owns, Offered
    <3>3. QED
      BY <1>1, <3>1, <3>2 DEF EndsInv, LeaseOnItsWay, LeaseNotLeaked, Releases
  <2>2. NoWaiterStranded
    BY <1>1, EmptySeq DEF EndsInv, QueueSwept, NoWaiterStranded, TypeInv, TypeOK
  <2>3. ShutdownFinal
    BY <1>1, EmptySeq DEF EndsInv, QueueSwept, Asleep, Halting, LeaseInv, MailboxNeedsCoordinator,
      ShutdownFinal, TypeInv, TypeOK
  <2>4. QED
    BY <2>1, <2>2, <2>3 DEF LeasesEnd
<1>2. QED
  BY <1>1, EndsInvariant, PTL

-----------------------------------------------------------------------------
(***************************************************************************)
(* The memory, the snapshots, the summaries, the observers and the answers *)
(* when the storage is sound.                                              *)
(***************************************************************************)

Committing == task.at \in {"commit", "reload"}

\* The sequence s is the part of t that follows the place a and ends at b.
Slice(s, t, a, b) == Len(s) = b - a /\ \A i \in 1 .. Len(s) : s[i] = t[a + i]

\* No write is under way but the one at hand, and the memory is the whole log.
Current == limbo = None /\ (loaded /\ ~poisoned /\ task.at # "reload" => Len(events) = Len(durable))

\* The log is h, and what the turn t added to it.
Snap(h, t) ==
  /\ Len(h) <= Len(durable)
  /\ \A i \in 1 .. Len(h) : h[i] = durable[i]
  /\ \A i \in 1 .. Len(durable) : Len(h) < i => durable[i].turn = t

Snapshots ==
  \A c \in Callers : /\ Holds(c) => Snap(history[c], lease[c])
                     /\ Offered(c) => Snap(reply[c].events, reply[c].token)

\* The open turn wrote what follows its start.
StartExact ==
  active.token # 0 =>
    /\ active.start <= Len(durable)
    /\ \A i \in 1 .. Len(durable) : durable[i].turn = active.token <=> active.start < i

SettledIsOver == \A c \in Callers : pc[c] = "settle" /\ reply[c] # NoReply => lease[c] # active.token

Summaries ==
  \A c \in Callers : pc[c] = "settle" /\ reply[c].kind = "done" =>
    \E a, b \in 0 .. Len(durable) :
      /\ a <= b /\ Slice(reply[c].events, durable, a, b)
      /\ \A i \in 1 .. Len(durable) : durable[i].turn = lease[c] <=> a < i /\ i <= b

AllObserved ==
  ~poisoned =>
    \E a \in 0 .. Len(durable) :
      /\ \A i \in 1 .. Len(durable) : durable[i].turn # 0 <=> a < i
      /\ ~loaded => a = Len(durable) /\ Len(observed) = 0
      /\ loaded => a <= Seen /\ Slice(observed, durable, a, Seen)

AnswersKept ==
  \A c \in Callers : pc[c] = "append" /\ reply[c] # NoReply =>
    /\ reply[c].kind = "done" => \E i \in 1 .. Len(durable) : durable[i] = reply[c].events[1]
    /\ reply[c].kind = "absent" => \A i \in 1 .. Len(durable) : durable[i].id # reply[c].events[1].id

\* When an append is taken no other of its turn is in the mailbox or at hand.
LastWord ==
  \A c \in Callers : pc[c] = "append" =>
    /\ reply[c] # NoReply \/ task.resp = c =>
         \A i \in 1 .. Len(mailbox) : mailbox[i].op = "Append" => mailbox[i].token # lease[c]
    /\ \A i, j \in 1 .. Len(mailbox) :
         i < j /\ mailbox[i].resp = c /\ mailbox[j].op = "Append" => mailbox[j].token # lease[c]
    /\ reply[c] # NoReply => ~(Committing /\ active.token = lease[c])

SoundInv ==
  /\ Current /\ Snapshots /\ StartExact /\ SettledIsOver /\ Summaries
  /\ AllObserved /\ AnswersKept /\ LastWord

\* What the proofs below start from.
Base == TypeInv /\ LeaseInv /\ LogInv /\ ChannelInv /\ EndsInv

\* What a caller's step changes: only its own turn, and its answer is taken.
LEMMA CallerEffects ==
  ASSUME Base, NEW c \in Callers, Caller(c)
  PROVE  /\ reply'[c] = NoReply
         /\ Holds(c)' => \/ Holds(c) /\ lease'[c] = lease[c] /\ history'[c] = history[c]
                         \/ Offered(c) /\ lease'[c] = reply[c].token /\ history'[c] = reply[c].events
         /\ \A d \in Callers \ {c} :
              pc'[d] = pc[d] /\ reply'[d] = reply[d] /\ lease'[d] = lease[d] /\ history'[d] = history[d]
<1>1. /\ pc \in [Callers -> {"idle", "checked", "located", "cleared", "begin", "turn", "append", "settle"}]
      /\ reply \in [Callers -> Reply] /\ lease \in [Callers -> Nat] /\ history \in [Callers -> Seq(Event)]
  BY DEF Base, TypeInv, TypeOK
<1>2. pc[c] \notin {"begin", "append", "settle"} => reply[c] = NoReply
  BY DEF Base, ChannelInv, AnswersFit
<1>3. CASE BeginCheck(c) \/ BeginLocate(c) \/ BeginRecheck(c) \/ BeginSend(c) \/ BeginReturn(c) \/ BeginCancel(c)
  BY <1>1, <1>2, <1>3 DEF BeginCheck, BeginLocate, BeginRecheck, BeginSend, BeginReturn, BeginCancel,
    Holds, Offered
<1>4. CASE AppendSend(c) \/ AppendReturn(c) \/ AppendCancel(c) \/ SettleSend(c) \/ SettleReturn(c)
           \/ SettleCancel(c) \/ TurnDrop(c)
  BY <1>1, <1>2, <1>4 DEF AppendSend, AppendReturn, AppendCancel, SettleSend, SettleReturn, SettleCancel,
    TurnDrop, DropLease, Holds, Offered
<1>5. QED
  BY <1>3, <1>4 DEF Caller

\* What a caller may send, and what it leaves in the mailbox.
LEMMA CallerSends ==
  ASSUME Base, NEW c \in Callers, Caller(c), NEW i \in 1 .. Len(mailbox')
  PROVE  \/ /\ i \in 1 .. Len(mailbox) /\ mailbox'[i].op = mailbox[i].op
            /\ mailbox'[i].token = mailbox[i].token
            /\ mailbox'[i].resp = mailbox[i].resp \/ mailbox'[i].resp = None
         \/ i = Len(mailbox) + 1 /\ mailbox'[i].op # "Append"
         \/ /\ i = Len(mailbox) + 1 /\ pc[c] = "turn" /\ pc'[c] = "append" /\ lease'[c] = lease[c]
            /\ mailbox'[i].token = lease[c]
<1> DEFINE box == CloseInMailbox(c)
<1>1. /\ mailbox \in Seq(Sendable) /\ Len(mailbox) \in Nat
      /\ box \in Seq(Sendable) /\ Len(box) = Len(mailbox)
      /\ \A j \in 1 .. Len(mailbox) :
           /\ box[j].op = mailbox[j].op /\ box[j].token = mailbox[j].token
           /\ box[j].resp = mailbox[j].resp \/ box[j].resp = None
      /\ lease \in [Callers -> Nat]
      /\ pc \in [Callers -> {"idle", "checked", "located", "cleared", "begin", "turn", "append", "settle"}]
      /\ \A d \in Callers : lease[d] \in Nat /\ reply[d].token \in Nat
  BY CloseKeepsCommands, LenProperties DEF Base, TypeInv, TypeOK, Closed, Reply
<1> HIDE DEF box
<1>2. ASSUME NEW s \in {mailbox, box}, NEW m \in Sendable, mailbox' = Sent(s, m) \/ mailbox' = Append(s, m)
      PROVE  \/ /\ i \in 1 .. Len(mailbox) /\ mailbox'[i].op = mailbox[i].op
                /\ mailbox'[i].token = mailbox[i].token
                /\ mailbox'[i].resp = mailbox[i].resp \/ mailbox'[i].resp = None
             \/ i = Len(mailbox) + 1 /\ mailbox'[i] = m
  <2>1. s \in Seq(Sendable) /\ Len(s) = Len(mailbox)
    BY <1>1
  <2>2. /\ Len(mailbox') \in {Len(s), Len(s) + 1}
        /\ \A j \in 1 .. Len(s) : mailbox'[j] = s[j]
        /\ Len(mailbox') = Len(s) + 1 => mailbox'[Len(s) + 1] = m
    <3>1. CASE mailbox' = Sent(s, m)
      BY <2>1, <3>1, SentKeepsCommands
    <3>2. CASE mailbox' = Append(s, m)
      BY <2>1, <3>2, AppendProperties
    <3>3. QED
      BY <1>2, <3>1, <3>2
  <2>3. CASE i \in 1 .. Len(mailbox)
    BY <1>1, <2>1, <2>2, <2>3
  <2>4. CASE i = Len(mailbox) + 1 /\ Len(mailbox') = Len(mailbox) + 1
    BY <2>1, <2>2, <2>4
  <2>5. QED
    BY <1>1, <2>1, <2>2, <2>3, <2>4
<1>3. CASE mailbox' \in {mailbox, box}
  BY <1>1, <1>3
<1>4. CASE BeginSend(c)
  <2>1. Begin(c) \in Sendable /\ Begin(c).op # "Append" /\ mailbox' = Sent(mailbox, Begin(c))
    BY <1>4, MessageTypes DEF Begin, BeginSend
  <2>2. QED
    BY <1>2, <2>1
<1>5. CASE SettleSend(c)
  <2>1. /\ SettleCmd(lease[c], c) \in Sendable /\ SettleCmd(lease[c], c).op # "Append"
        /\ mailbox' = Sent(mailbox, SettleCmd(lease[c], c))
    BY <1>1, <1>5, MessageTypes DEF SettleCmd, SettleSend
  <2>2. QED
    BY <1>2, <2>1
<1>6. CASE AppendSend(c)
  <2>1. PICK d \in Drafts : mailbox' = Append(mailbox, AppendCmd(lease[c], d, c))
    BY <1>6 DEF AppendSend
  <2>2. /\ AppendCmd(lease[c], d, c) \in Sendable /\ AppendCmd(lease[c], d, c).token = lease[c]
        /\ pc[c] = "turn" /\ pc'[c] = "append" /\ lease'[c] = lease[c]
    BY <1>1, <1>6, MessageTypes DEF AppendCmd, AppendSend
  <2>3. QED
    BY <1>2, <2>1, <2>2
<1>7. CASE \E t \in Nat, s \in {mailbox, box} : mailbox' = Sent(s, Abandon(t))
  <2>1. PICK t \in Nat, s \in {mailbox, box} : mailbox' = Sent(s, Abandon(t))
    BY <1>7
  <2>2. Abandon(t) \in Sendable /\ Abandon(t).op # "Append"
    BY MessageTypes DEF Abandon
  <2>3. QED
    BY <1>2, <2>1, <2>2
<1>8. CASE BeginCancel(c) \/ SettleReturn(c) \/ SettleCancel(c) \/ TurnDrop(c)
  BY <1>1, <1>3, <1>7, <1>8 DEF BeginCancel, DropGrant, SettleReturn, SettleCancel, TurnDrop, box
<1>9. CASE BeginCheck(c) \/ BeginLocate(c) \/ BeginRecheck(c) \/ BeginReturn(c) \/ AppendReturn(c)
           \/ AppendCancel(c)
  BY <1>3, <1>9 DEF BeginCheck, BeginLocate, BeginRecheck, BeginReturn, AppendReturn, AppendCancel, box
<1>10. QED
  BY <1>4, <1>5, <1>6, <1>8, <1>9 DEF Caller

\* What the callers do when the storage is sound.
LEMMA SoundCallers ==
  ASSUME Base, SoundInv, NEW c \in Callers, Caller(c)
  PROVE  SoundInv'
<1>1. LogKept
  BY CallersKeepLog DEF Base
<1>2. UNCHANGED <<durable, limbo, events, active, nextToken, loaded, poisoned, observed>>
      /\ task'.at = task.at
  BY <1>1 DEF LogKept, Remembered
<1>3. /\ reply'[c] = NoReply
      /\ Holds(c)' => \/ Holds(c) /\ lease'[c] = lease[c] /\ history'[c] = history[c]
                      \/ Offered(c) /\ lease'[c] = reply[c].token /\ history'[c] = reply[c].events
      /\ \A d \in Callers \ {c} :
           pc'[d] = pc[d] /\ reply'[d] = reply[d] /\ lease'[d] = lease[d] /\ history'[d] = history[d]
  BY CallerEffects
<1>4. NoReply.kind = "none"
  BY DEF NoReply
<1>5. Current' /\ StartExact' /\ AllObserved'
  BY <1>2 DEF SoundInv, Current, StartExact, AllObserved, Seen, Slice
<1>6. Snapshots'
  <2> SUFFICES ASSUME NEW d \in Callers
               PROVE  /\ Holds(d)' => Snap(history[d], lease[d])'
                      /\ Offered(d)' => Snap(reply[d].events, reply[d].token)'
    BY DEF Snapshots
  <2>1. CASE d = c
    BY <1>2, <1>3, <1>4, <2>1 DEF SoundInv, Snapshots, Snap, Offered
  <2>2. CASE d # c
    BY <1>2, <1>3, <2>2 DEF SoundInv, Snapshots, Snap, Offered, Holds
  <2>3. QED
    BY <2>1, <2>2
<1>7. SettledIsOver' /\ AnswersKept'
  BY <1>2, <1>3 DEF SoundInv, SettledIsOver, AnswersKept
<1>8. Summaries'
  <2> SUFFICES ASSUME NEW d \in Callers, pc'[d] = "settle", reply'[d].kind = "done"
               PROVE  \E a, b \in 0 .. Len(durable') :
                        /\ a <= b /\ Slice(reply'[d].events, durable', a, b)
                        /\ \A i \in 1 .. Len(durable') : durable'[i].turn = lease'[d] <=> a < i /\ i <= b
    BY Zenon DEF Summaries, Slice
  <2>1. d # c
    BY <1>3, <1>4
  <2>2. pc[d] = "settle" /\ reply'[d] = reply[d] /\ lease'[d] = lease[d]
    BY <1>3, <2>1
  <2>3. \E a, b \in 0 .. Len(durable) :
          /\ a <= b /\ Slice(reply[d].events, durable, a, b)
          /\ \A i \in 1 .. Len(durable) : durable[i].turn = lease[d] <=> a < i /\ i <= b
    BY <2>2 DEF SoundInv, Summaries
  <2>4. QED
    BY <1>2, <2>2, <2>3
<1>9. LastWord'
  <2> SUFFICES ASSUME NEW d \in Callers, pc'[d] = "append"
               PROVE  /\ reply'[d] # NoReply \/ task'.resp = d =>
                           \A i \in 1 .. Len(mailbox') : mailbox'[i].op = "Append" => mailbox'[i].token # lease'[d]
                      /\ \A i, j \in 1 .. Len(mailbox') :
                           i < j /\ mailbox'[i].resp = d /\ mailbox'[j].op = "Append" => mailbox'[j].token # lease'[d]
                      /\ reply'[d] # NoReply => ~(Committing' /\ active'.token = lease'[d])
    BY DEF LastWord
  <2>1. task' = task \/ CloseElsewhere(c)
    BY DEF Caller, BeginCheck, BeginLocate, BeginRecheck, BeginSend, BeginReturn, BeginCancel,
      AppendSend, AppendReturn, AppendCancel, SettleSend, SettleReturn, SettleCancel, TurnDrop
  <2>2. task'.resp = d => task.resp = d
    BY <2>1, NoneAssumption DEF CloseElsewhere, Closed, Base, TypeInv, TypeOK, Task
  <2>3. CASE d = c
    <3>1. pc[c] = "append" \/ pc[c] = "turn"
      BY <1>3, <2>3 DEF Holds, Offered, Caller, BeginCheck, BeginLocate, BeginRecheck, BeginSend, BeginReturn,
        BeginCancel, AppendSend, AppendReturn, AppendCancel, SettleSend, SettleReturn, SettleCancel,
        TurnDrop, DropLease, Base, TypeInv, TypeOK
    <3>2. pc[c] # "append"
      BY <2>3 DEF Caller, BeginCheck, BeginLocate, BeginRecheck, BeginSend, BeginReturn,
        BeginCancel, AppendSend, AppendReturn, AppendCancel, SettleSend, SettleReturn, SettleCancel,
        TurnDrop, DropLease, Base, TypeInv, TypeOK
    <3>3. Unheard(c)
      BY <3>1, <3>2, NotWaiting DEF Base
    <3>4. c # None /\ Len(mailbox) \in Nat
      BY NoneAssumption, LenProperties DEF Base, TypeInv
    <3>5. \A i \in 1 .. Len(mailbox') : mailbox'[i].resp = c => i = Len(mailbox) + 1
      BY <3>3, <3>4, CallerSends DEF Unheard
    <3>6. \A i \in 1 .. Len(mailbox') : i <= Len(mailbox) + 1
      BY <3>4, CallerSends
    <3>7. QED
      BY <1>3, <2>2, <2>3, <3>3, <3>4, <3>5, <3>6 DEF Unheard
  <2>4. CASE d # c
    <3>1. pc[d] = "append" /\ reply'[d] = reply[d] /\ lease'[d] = lease[d] /\ Has(d) /\ d # None
      BY <1>3, <2>4, NoneAssumption DEF Has
    <3>2. pc[c] = "turn" => lease[c] # lease[d]
      BY <2>4, <3>1 DEF Base, LeaseInv, TokensUnique, Has
    <3>3. \A i \in 1 .. Len(mailbox') :
            mailbox'[i].op = "Append" =>
              \/ /\ i \in 1 .. Len(mailbox) /\ mailbox[i].op = "Append"
                 /\ mailbox'[i].token = mailbox[i].token
              \/ mailbox'[i].token # lease[d]
      BY <3>2, CallerSends
    <3>4. Len(mailbox) \in Nat
      BY LenProperties DEF Base, TypeInv
    <3>5. \A i \in 1 .. Len(mailbox') : i <= Len(mailbox) + 1
      BY <3>4, CallerSends
    <3>6. ASSUME NEW i \in 1 .. Len(mailbox'), NEW j \in 1 .. Len(mailbox'), i < j, mailbox'[i].resp = d,
                 mailbox'[j].op = "Append"
          PROVE  mailbox'[j].token # lease[d]
      <4>1. i \in 1 .. Len(mailbox) /\ mailbox[i].resp = d
        <5>1. i # Len(mailbox) + 1
          BY <3>4, <3>5, <3>6
        <5>2. QED
          BY <3>1, <3>6, <5>1, CallerSends
      <4>2. QED
        BY <3>1, <3>3, <3>6, <4>1 DEF SoundInv, LastWord
    <3>7. QED
      BY <1>2, <2>2, <3>1, <3>3, <3>6 DEF SoundInv, LastWord, Committing
  <2>5. QED
    BY <2>3, <2>4
<1>10. QED
  BY <1>5, <1>6, <1>7, <1>8, <1>9 DEF SoundInv

\* One more event in the log, written for the open turn.
Growth ==
  /\ task.at = "commit" /\ Acceptable(task.event) /\ durable' = Append(durable, task.event)
  /\ task'.at \in {"reload", "observe"} /\ task'.event = task.event /\ task'.resp = task.resp
  /\ task'.at = "reload" => events' = events
  /\ task'.at = "observe" => events' = Append(events, task.event)
  /\ active'.token = active.token /\ active'.start = active.start
  /\ UNCHANGED <<callers, mailbox, observed, loaded, poisoned, nextToken, limbo>>

\* A step whose one effect on the log is a commit of the open turn keeps what
\* a sound storage promises.
LEMMA GrowthKeepsSound ==
  ASSUME Base, SoundInv, Growth
  PROVE  SoundInv'
<1> DEFINE e == task.event
<1>1. /\ e \in Event /\ e.turn = active.token /\ active.token # 0 /\ loaded /\ ~poisoned
      /\ Len(events) \in Nat /\ Len(durable) \in Nat /\ Len(observed) \in Nat
      /\ \A i \in 1 .. Len(events) : events[i] = durable[i]
      /\ active.token \in Nat /\ active \in ActiveTurn
  BY LogTypes DEF Base, LogInv, Stages, CandidateNext, MemoryFollows, Growth
<1>2. /\ Len(durable') = Len(durable) + 1
      /\ durable'[Len(durable) + 1] = e
      /\ \A i \in 1 .. Len(durable) : durable'[i] = durable[i]
  BY LogTypes, AppendProperties DEF Base, Growth
<1>3. \A i \in 1 .. Len(durable') : i \in 1 .. Len(durable) \/ i = Len(durable) + 1
  BY <1>1, <1>2
<1>4. Len(events) = Len(durable) /\ limbo = None
  BY <1>1 DEF Growth, SoundInv, Current
<1>5. UNCHANGED <<pc, reply, lease, history>>
  BY DEF Growth, callers
<1>6. /\ task'.at = "observe" => Len(events') = Len(events) + 1
      /\ task'.at = "reload" => Len(events') = Len(events)
  BY LogTypes, AppendProperties DEF Base, Growth
<1>7. coord # "exited"
  BY DEF Growth, Base, EndsInv, Asleep
<1>8. Current'
  BY <1>2, <1>4, <1>6 DEF Growth, Current
<1>9. Snapshots'
  <2>1. ASSUME NEW c \in Callers, Holds(c) PROVE Snap(history[c], lease[c])'
    <3>1. Snap(history[c], lease[c]) /\ Len(history[c]) \in Nat
      BY <2>1, LenProperties DEF SoundInv, Snapshots, Base, TypeInv, TypeOK
    <3>2. lease[c] = active.token
      BY <1>7, <2>1, BoundsAssumption DEF Base, LeaseInv, OwnersActive, Owns, Tokens, TokensSpent, TypeInv, TypeOK
    <3>3. QED
      BY SMTT(30), <1>1, <1>2, <1>3, <1>5, <3>1, <3>2 DEF Snap
  <2>2. ASSUME NEW c \in Callers, Offered(c) PROVE Snap(reply[c].events, reply[c].token)'
    <3>1. Snap(reply[c].events, reply[c].token) /\ Len(reply[c].events) \in Nat
      BY <2>2, LenProperties DEF SoundInv, Snapshots, Base, TypeInv, TypeOK, Reply
    <3>2. reply[c].token = active.token
      BY <1>7, <2>2, BoundsAssumption DEF Base, LeaseInv, OwnersActive, Owns, Tokens, TokensSpent, TypeInv, TypeOK, Reply
    <3>3. QED
      BY <1>1, <1>2, <1>3, <1>5, <3>1, <3>2 DEF Snap
  <2>3. QED
    BY <1>5, <2>1, <2>2 DEF Snapshots, Holds, Offered
<1>10. StartExact'
  <2>1. active.start \in Nat /\ active.start <= Len(durable)
    BY <1>1 DEF SoundInv, StartExact, ActiveTurn
  <2>2. active'.token = active.token /\ active'.start = active.start
    BY DEF Growth
  <2>3. \A i \in 1 .. Len(durable') : durable'[i].turn = active.token <=> active.start < i
    BY <1>1, <1>2, <1>3, <2>1 DEF SoundInv, StartExact
  <2>4. QED
    BY <1>1, <1>2, <2>1, <2>2, <2>3 DEF StartExact
<1>11. SettledIsOver'
  BY <1>5 DEF SoundInv, SettledIsOver, Growth
<1>12. Summaries'
  <2> SUFFICES ASSUME NEW c \in Callers, pc[c] = "settle", reply[c].kind = "done"
               PROVE  \E a, b \in 0 .. Len(durable') :
                        /\ a <= b /\ Slice(reply[c].events, durable, a, b)'
                        /\ \A i \in 1 .. Len(durable') : durable'[i].turn = lease[c] <=> a < i /\ i <= b
    BY <1>5 DEF Summaries
  <2>1. PICK a \in 0 .. Len(durable), b \in 0 .. Len(durable) :
          /\ a <= b /\ Slice(reply[c].events, durable, a, b)
          /\ \A i \in 1 .. Len(durable) : durable[i].turn = lease[c] <=> a < i /\ i <= b
    BY DEF SoundInv, Summaries
  <2>2. e.turn # lease[c]
    BY <1>1 DEF SoundInv, SettledIsOver, NoReply
  <2>3. Slice(reply[c].events, durable, a, b)'
    <3>1. \A i \in 1 .. Len(reply[c].events) : a + i \in 1 .. Len(durable)
      BY <1>1, <2>1 DEF Slice
    <3>2. QED
      BY <1>2, <1>5, <2>1, <3>1 DEF Slice
  <2>4. \A i \in 1 .. Len(durable') : durable'[i].turn = lease[c] <=> a < i /\ i <= b
    BY <1>1, <1>2, <1>3, <2>1, <2>2
  <2>5. a \in 0 .. Len(durable') /\ b \in 0 .. Len(durable')
    BY <1>1, <1>2
  <2>6. QED
    BY <2>1, <2>3, <2>4, <2>5
<1>13. AllObserved'
  <2>1. PICK a \in 0 .. Len(durable) :
          /\ \A i \in 1 .. Len(durable) : durable[i].turn # 0 <=> a < i
          /\ a <= Seen /\ Slice(observed, durable, a, Seen)
    BY <1>1 DEF SoundInv, AllObserved
  <2>2. Seen = Len(events) /\ Seen' = Len(events)
    BY <1>1, <1>6 DEF Growth, Seen
  <2>3. \A i \in 1 .. Len(durable') : durable'[i].turn # 0 <=> a < i
    BY <1>1, <1>2, <1>3, <2>1
  <2>4. Slice(observed, durable', a, Seen)
    BY <1>1, <1>2, <1>4, <2>1, <2>2 DEF Slice
  <2>5. a \in 0 .. Len(durable') /\ UNCHANGED <<loaded, observed>>
    BY <1>1, <1>2 DEF Growth
  <2>6. QED
    BY <1>1, <2>1, <2>2, <2>3, <2>4, <2>5 DEF AllObserved, Slice
<1>14. AnswersKept'
  <2>1. \A c \in Callers : pc[c] = "append" /\ reply[c] # NoReply => FALSE
    <3> SUFFICES ASSUME NEW c \in Callers, pc[c] = "append", reply[c] # NoReply PROVE FALSE
      OBVIOUS
    <3>1. lease[c] = active.token
      BY <1>7, BoundsAssumption DEF Base, LeaseInv, OwnersActive, Owns, Holds, Tokens, TokensSpent, TypeInv, TypeOK
    <3>2. QED
      BY <3>1 DEF SoundInv, LastWord, Committing, Growth
  <2>2. QED
    BY <1>5, <2>1 DEF AnswersKept
<1>15. LastWord'
  BY <1>5 DEF SoundInv, LastWord, Committing, Growth
<1>16. QED
  BY <1>8, <1>9, <1>10, <1>11, <1>12, <1>13, <1>14, <1>15 DEF SoundInv

\* Whom the coordinator answers, and how, when the storage is sound.
LEMMA CoordinatorAnswers ==
  ASSUME Base, SoundInv, Coordinator, NEW c \in Callers, reply'[c] # reply[c]
  PROVE  \/ /\ pc[c] = "begin"
            /\ \/ reply'[c] = Failed
               \/ /\ task.at = "grant" /\ reply'[c] = Granted(nextToken) /\ active'.token = nextToken
                  /\ durable' = durable
         \/ /\ pc[c] = "settle" /\ active' = IF lease[c] = active.token THEN NoTurn ELSE active
            /\ \/ reply'[c] = Failed
               \/ lease[c] = active.token /\ ~poisoned /\ task.at = "recv" /\ reply'[c] = Done(Summary)
         \/ /\ pc[c] = "append" /\ task'.at = "recv"
            /\ \/ reply'[c] = Failed
               \/ \E i \in 1 .. Len(durable) : reply'[c] = Done(<<durable[i]>>)
               \/ /\ reply'[c] = Absent(task.event)
                  /\ \A i \in 1 .. Len(durable) : durable[i].id # task.event.id
            /\ durable' = durable
            /\ \A i \in 1 .. Len(mailbox') : mailbox'[i].op = "Append" => mailbox'[i].token # lease[c]
<1>1. /\ reply \in [Callers -> Reply] /\ pending \in Seq(Callers \cup {None})
      /\ DOMAIN pending = 1 .. Len(pending) /\ Len(mailbox) \in Nat /\ Len(durable) \in Nat
      /\ Len(events) \in Nat /\ DOMAIN events = 1 .. Len(events) /\ DOMAIN durable = 1 .. Len(durable)
      /\ task \in Task /\ c # None
      /\ \A i \in 1 .. Len(events) : events[i] = durable[i] /\ i \in 1 .. Len(durable)
  BY LenProperties, NoneAssumption DEF Base, TypeInv, TypeOK, LogInv, MemoryFollows
<1>2. \A r, a : Answer(r, a) => (r # None /\ r \in Callers /\ r = c /\ reply'[c] = a) \/ r \notin Callers \cup {None}
  BY <1>1 DEF Answer
<1>3. CASE RejectPending
  <2>1. reply'[c] = Failed /\ \E i \in 1 .. Len(pending) : pending[i] = c
    BY <1>1, <1>3 DEF RejectPending, ToSet
  <2>2. pc[c] = "begin"
    BY <2>1 DEF Base, ChannelInv, InPending
  <2>3. QED
    BY <2>1, <2>2
<1>4. \A r, b : Admit(r, b) => reply' = reply \/ Answer(r, Failed)
  BY DEF Admit
<1>5. CASE ReceiveBegin
  <2>1. /\ Head(mailbox).resp \in Callers \cup {None}
        /\ Head(mailbox).resp # None => Expects(Head(mailbox).resp, Head(mailbox))
        /\ Head(mailbox).op = "Begin"
    BY <1>5, TakenCommand DEF Base, ReceiveBegin
  <2>2. Answer(Head(mailbox).resp, Failed)
    BY <1>4, <1>5 DEF ReceiveBegin
  <2>3. Head(mailbox).resp = c /\ reply'[c] = Failed
    BY <1>2, <2>1, <2>2
  <2>4. QED
    BY <1>1, <2>1, <2>3 DEF Expects
<1>6. CASE Sweep
  <2>1. pending # <<>> => Head(pending) \in Callers \cup {None} /\ Head(pending) = pending[1] /\ 1 \in 1 .. Len(pending)
    BY <1>1, HeadTailProperties, EmptySeq
  <2>2. pending # <<>> /\ Answer(Head(pending), Failed)
    BY <1>4, <1>6 DEF Sweep
  <2>3. pending[1] = c /\ 1 \in 1 .. Len(pending) /\ reply'[c] = Failed
    BY <1>2, <2>1, <2>2
  <2>4. QED
    BY <2>3 DEF Base, ChannelInv, InPending
<1>7. CASE Load \/ Grant
  <2>1. PICK a : Answer(task.resp, a)
    BY <1>7 DEF Load, Grant
  <2>2. task.resp = c /\ reply'[c] = a
    BY <1>1, <1>2, <2>1 DEF Task
  <2>3. pc[c] = "begin"
    BY <1>7, <2>2 DEF Load, Grant, Base, ChannelInv, AtHand
  <2>4. CASE Answer(task.resp, Failed)
    BY <1>1, <1>2, <2>3, <2>4 DEF Task
  <2>5. CASE Grant /\ Answer(task.resp, Granted(nextToken)) /\ active'.token = nextToken
    <3>1. reply'[c] = Granted(nextToken) /\ task.at = "grant" /\ durable' = durable
      BY <1>1, <1>2, <2>5 DEF Task, Grant, storage
    <3>2. QED
      BY <2>3, <2>5, <3>1
  <2>6. Answer(task.resp, Failed) \/ (Grant /\ Answer(task.resp, Granted(nextToken)) /\ active'.token = nextToken)
    BY <1>7 DEF Load, Grant
  <2>7. QED
    BY <2>4, <2>5, <2>6
<1>8. CASE ReceiveSettle
  <2>1. /\ Head(mailbox).resp \in Callers \cup {None} /\ Head(mailbox).op = "Settle"
        /\ Head(mailbox).resp # None => Expects(Head(mailbox).resp, Head(mailbox))
        /\ task.at = "recv"
    BY <1>8, TakenCommand DEF Base, ReceiveSettle
  <2>2. \/ Answer(Head(mailbox).resp, Failed)
        \/ OwnsLease(Head(mailbox)) /\ ~poisoned /\ Answer(Head(mailbox).resp, Done(Summary))
    BY <1>8 DEF ReceiveSettle
  <2>3. /\ Head(mailbox).resp = c
        /\ \/ reply'[c] = Failed
           \/ OwnsLease(Head(mailbox)) /\ ~poisoned /\ reply'[c] = Done(Summary)
    BY <1>2, <2>1, <2>2
  <2>4. pc[c] = "settle" /\ Head(mailbox).token = lease[c]
    BY <1>1, <2>1, <2>3 DEF Expects
  <2>5. active' = IF lease[c] = active.token THEN NoTurn ELSE active
    BY <1>8, <2>4, Zenon DEF ReceiveSettle, OwnsLease
  <2>6. QED
    BY <2>1, <2>3, <2>4, <2>5 DEF OwnsLease
<1>9. CASE ReceiveAppend
  <2>1. /\ Head(mailbox).resp \in Callers \cup {None} /\ Head(mailbox).op = "Append"
        /\ Head(mailbox).resp # None => Expects(Head(mailbox).resp, Head(mailbox))
        /\ task.at = "recv"
    BY <1>9, TakenCommand DEF Base, ReceiveAppend
  <2>2. \/ Answer(Head(mailbox).resp, Failed) /\ task' = task
        \/ \E e \in Known(Head(mailbox)) : Answer(Head(mailbox).resp, Done(<<e>>)) /\ task' = task
    BY <1>9 DEF ReceiveAppend
  <2>3. /\ Head(mailbox).resp = c /\ task' = task
        /\ \/ reply'[c] = Failed
           \/ \E e \in Known(Head(mailbox)) : reply'[c] = Done(<<e>>)
    BY <1>2, <2>1, <2>2
  <2>4. pc[c] = "append"
    BY <1>1, <2>1, <2>3 DEF Expects
  <2>5. \A e \in Known(Head(mailbox)) : \E i \in 1 .. Len(durable) : e = durable[i]
    BY <1>1 DEF Known, ToSet
  <2>6. \A i \in 1 .. Len(mailbox') : mailbox'[i].op = "Append" => mailbox'[i].token # lease[c]
    <3>1. /\ Len(mailbox') = Len(mailbox) - 1 /\ Head(mailbox) = mailbox[1] /\ 1 \in 1 .. Len(mailbox)
          /\ \A i \in 1 .. Len(mailbox') : mailbox'[i] = mailbox[i + 1]
      BY <1>9, ReceiveKeepsCommands DEF Base, TypeInv, ReceiveAppend
    <3>2. \A i \in 1 .. Len(mailbox') : i + 1 \in 1 .. Len(mailbox) /\ 1 < i + 1
      BY <1>1, <3>1
    <3>3. QED
      BY <2>3, <2>4, <3>1, <3>2 DEF SoundInv, LastWord
  <2>7. durable' = durable
    BY <1>9 DEF ReceiveAppend, storage
  <2>8. reply'[c] = Failed \/ \E i \in 1 .. Len(durable) : reply'[c] = Done(<<durable[i]>>)
    BY <2>3, <2>5
  <2>9. QED
    BY <2>1, <2>3, <2>4, <2>6, <2>7, <2>8
<1>10. CASE \/ CommitAppended \/ CommitReplayed \/ CommitRefused \/ CommitFailed
            \/ CommitIndeterminate \/ Reload \/ Observe
  <2>1. /\ task.at \in {"commit", "reload", "observe"} /\ mailbox' = mailbox
        /\ \E a : Answer(task.resp, a)
    BY <1>10 DEF CommitAppended, CommitReplayed, CommitRefused, CommitFailed, CommitIndeterminate,
      Reload, Observe, Poison, callers
  <2>2. task.resp = c /\ task.resp \in Callers
    BY <1>1, <1>2, <2>1 DEF Task
  <2>3. pc[c] = "append" /\ lease[c] = active.token
    BY <2>1, <2>2 DEF Base, ChannelInv, AtHand
  <2>4. \A i \in 1 .. Len(mailbox') : mailbox'[i].op = "Append" => mailbox'[i].token # lease[c]
    BY <2>1, <2>2, <2>3 DEF SoundInv, LastWord
  <2>5. At("recv").at = "recv"
    BY DEF At
  <2>6. loaded /\ ~poisoned
    BY <2>1 DEF Base, LogInv, Stages
  <2>7. \A a : Answer(task.resp, a) => reply'[c] = a
    BY <1>2, <2>2
  <2>8. Committing => \A i \in 1 .. Len(events) : events[i].id # task.event.id
    BY DEF Committing, Base, LogInv, CandidateNext
  <2>9. CASE CommitReplayed
    <3>1. \E i \in 1 .. Len(durable) : task.event = durable[i]
      BY <1>1, <2>9 DEF CommitReplayed, AlreadyDurable, ToSet
    <3>2. reply'[c] = Done(<<task.event>>) /\ task'.at = "recv" /\ durable' = durable
      BY <2>5, <2>7, <2>9 DEF CommitReplayed, storage
    <3>3. QED
      BY <2>3, <2>4, <3>1, <3>2
  <2>10. CASE Observe
    <3>1. Len(events) > 0 /\ task.event = events[Len(events)]
      BY <2>10 DEF Observe, Base, LogInv, ObservedSoFar
    <3>2. Len(events) \in 1 .. Len(events) /\ Len(events) \in 1 .. Len(durable) /\ task.event = durable[Len(events)]
      BY <1>1, <3>1
    <3>3. reply'[c] = Done(<<task.event>>) /\ task'.at = "recv" /\ durable' = durable
      BY <2>5, <2>7, <2>10 DEF Observe, storage
    <3>4. QED
      BY <2>3, <2>4, <3>2, <3>3
  <2>11. CASE CommitFailed
    <3>1. Len(events) = Len(durable)
      BY <2>6, <2>11 DEF CommitFailed, SoundInv, Current
    <3>2. reply'[c] = Absent(task.event) /\ task'.at = "recv" /\ durable' = durable /\ Committing
      BY <2>5, <2>7, <2>11 DEF CommitFailed, storage, Committing
    <3>3. QED
      BY <1>1, <2>3, <2>4, <2>8, <3>1, <3>2
  <2>12. CASE CommitRefused
    <3>1. reply'[c] = Failed /\ task'.at = "recv" /\ durable' = durable
      BY <2>5, <2>7, <2>12 DEF CommitRefused, Poison, storage
    <3>2. QED
      BY <2>3, <2>4, <3>1
  <2>13. CASE Reload
    <3>1. durable' = durable /\ Committing
      BY <2>13 DEF Reload, storage, Committing
    <3>2. CASE Poison
      BY <2>3, <2>4, <2>5, <2>7, <3>1, <3>2 DEF Poison
    <3>3. CASE ProvenAbsent /\ Answer(task.resp, Absent(task.event)) /\ task' = At("recv")
      BY <2>3, <2>4, <2>5, <2>7, <2>8, <3>1, <3>3 DEF ProvenAbsent
    <3>4. QED
      BY <2>13, <3>2, <3>3 DEF Reload
  <2>14. QED
    BY <1>10, <2>9, <2>10, <2>11, <2>12, <2>13 DEF CommitAppended, CommitIndeterminate, callers
<1>11. QED
  BY <1>3, <1>5, <1>6, <1>7, <1>8, <1>9, <1>10
  DEF Coordinator, ReceiveAbandon, ReceiveShutdown, Exit, callers

\* With a sound storage an event becomes durable only by the commit at hand.
LEMMA GrowthOnly ==
  ASSUME Base, SoundInv, Sound, Coordinator
  PROVE  Growth \/ (durable' = durable /\ limbo' = limbo)
<1>1. limbo = None /\ task \in Task
  BY DEF SoundInv, Current, Base, TypeInv, TypeOK
<1>2. CASE CommitAppended
  <2>1. task'.at = "observe" /\ task'.event = task.event /\ task'.resp = task.resp
    BY <1>1, <1>2 DEF CommitAppended, Task
  <2>2. active'.token = active.token /\ active'.start = active.start
    BY <1>2 DEF CommitAppended, MarkTerminal, Base, TypeInv, TypeOK, ActiveTurn
  <2>3. QED
    BY <1>2, <2>1, <2>2 DEF CommitAppended, Growth
<1>3. CASE CommitIndeterminate
  <2>1. task'.at = "reload" /\ task'.event = task.event /\ task'.resp = task.resp
    BY <1>1, <1>3 DEF CommitIndeterminate, Task
  <2>2. QED
    BY <1>3, <2>1 DEF CommitIndeterminate, Growth, Sound, state, storage
<1>4. QED
  BY <1>2, <1>3 DEF Coordinator, ReceiveBegin, ReceiveAppend, ReceiveSettle, ReceiveAbandon,
    ReceiveShutdown, Sweep, Load, Grant, CommitReplayed, CommitRefused, CommitFailed, Reload,
    Observe, Exit, storage

\* With a sound storage a commit never finds its own event in the log.
LEMMA NoReplay ==
  ASSUME Base, SoundInv, CommitReplayed
  PROVE  FALSE
<1>1. /\ task.at = "commit" /\ loaded /\ ~poisoned
      /\ DOMAIN durable = 1 .. Len(durable) /\ Len(durable) = Len(events)
      /\ \A i \in 1 .. Len(events) : events[i] = durable[i] /\ events[i].id # task.event.id
  BY LenProperties DEF CommitReplayed, Base, TypeInv, TypeOK, LogInv, Stages, MemoryFollows, CandidateNext,
    SoundInv, Current
<1>2. \E i \in 1 .. Len(durable) : durable[i] = task.event
  BY <1>1 DEF CommitReplayed, AlreadyDurable, ToSet
<1>3. QED
  BY <1>1, <1>2

\* How the coordinator moves from one turn to the next.
LEMMA TurnMoves ==
  ASSUME Base, Coordinator
  PROVE  \/ active'.token = active.token /\ active'.start = active.start /\ nextToken' \in {nextToken, nextToken + 1}
         \/ active'.token = 0 /\ nextToken' = nextToken
         \/ /\ Grant /\ active'.token = nextToken /\ active'.start = Len(events)
            /\ nextToken' = nextToken + 1 /\ task'.at = "recv"
<1>1. /\ MarkTerminal(task.event).token = active.token /\ MarkTerminal(task.event).start = active.start
      /\ NoTurn.token = 0 /\ At("recv").at = "recv"
  BY DEF MarkTerminal, NoTurn, At, Base, TypeInv, TypeOK, ActiveTurn
<1>2. CASE Grant
  BY <1>1, <1>2 DEF Grant
<1>3. CASE ~Grant
  <2>1. active' \in {active, NoTurn, MarkTerminal(task.event)} /\ nextToken' = nextToken
    BY <1>3 DEF Coordinator, ReceiveBegin, ReceiveAppend, ReceiveSettle, ReceiveAbandon, ReceiveShutdown,
      Sweep, Load, CommitAppended, CommitReplayed, CommitRefused, CommitFailed,
      CommitIndeterminate, Reload, Observe, Exit, state, Poison
  <2>2. QED
    BY <1>1, <2>1
<1>4. QED
  BY <1>2, <1>3

\* How the coordinator's memory moves when nothing becomes durable.
LEMMA MemoryMoves ==
  ASSUME Base, SoundInv, Coordinator, durable' = durable
  PROVE  \/ poisoned'
         \/ /\ UNCHANGED <<events, loaded, observed, poisoned>> /\ task.at # "observe" /\ task'.at # "observe"
            /\ task.at = "reload" => Len(events) = Len(durable)
         \/ /\ task.at = "load" /\ ~loaded /\ loaded' /\ events' = durable /\ task'.at # "observe"
            /\ UNCHANGED <<observed, poisoned>>
         \/ /\ task.at = "reload" /\ loaded /\ task'.at = "observe" /\ events' = durable
            /\ Len(durable) = Len(events) + 1 /\ UNCHANGED <<loaded, observed, poisoned>>
         \/ /\ task.at = "observe" /\ task'.at = "recv" /\ observed' = Append(observed, task.event)
            /\ UNCHANGED <<events, loaded, poisoned>>
<1>1. task \in Task /\ At("recv").at = "recv" /\ \A b : NextCandidate(b).at # "observe"
  BY DEF Base, TypeInv, TypeOK, At, NextCandidate
<1>2. CASE Load
  BY <1>1, <1>2 DEF Load, Base, LogInv, Stages, Task
<1>3. CASE Observe
  BY <1>1, <1>3 DEF Observe, ObserveAll, state
<1>4. CASE Reload
  <2>1. CASE Poison
    BY <2>1 DEF Poison
  <2>2. CASE ProvenAbsent /\ task' = At("recv") /\ UNCHANGED <<events, active, poisoned>>
    BY <1>1, <1>4, <2>2 DEF Reload, ProvenAbsent
  <2>3. CASE ProvenPresent /\ events' = durable /\ task' = [task EXCEPT !.at = "observe"] /\ UNCHANGED poisoned
    <3>1. task'.at = "observe" /\ task.at = "reload" /\ loaded
      BY <1>1, <1>4, <2>3 DEF Reload, Task, Base, LogInv, Stages
    <3>2. Len(durable) = Len(events) + 1
      BY <2>3, <3>1, LogTypes, AppendProperties DEF ProvenPresent, Base
    <3>3. QED
      BY <1>4, <2>3, <3>1, <3>2 DEF Reload
  <2>4. QED
    BY <1>4, <2>1, <2>2, <2>3 DEF Reload
<1>5. CASE CommitAppended
  <2>1. Len(durable') = Len(durable) + 1 /\ Len(durable) \in Nat
    BY <1>5, LogTypes, AppendProperties DEF CommitAppended, Base
  <2>2. QED
    BY <2>1
<1>6. CASE ReceiveBegin \/ Sweep
  <2>1. task' = task \/ task' = At("recv") \/ \E c, b : Admit(c, b)
    BY <1>6 DEF ReceiveBegin, Sweep
  <2>2. \A c, b : Admit(c, b) => task'.at # "observe"
    BY <1>1 DEF Admit, At
  <2>3. QED
    BY <1>1, <1>6, <2>1, <2>2 DEF ReceiveBegin, Sweep, Receive
<1>7. CASE Grant \/ ReceiveAppend
  BY <1>1, <1>7 DEF Grant, ReceiveAppend, Receive, state, At
<1>8. CASE ReceiveSettle \/ ReceiveAbandon \/ ReceiveShutdown \/ Exit
  BY <1>1, <1>8 DEF ReceiveSettle, ReceiveAbandon, ReceiveShutdown, Exit, Receive, GrantPending, At
<1>9. CASE CommitRefused \/ CommitFailed \/ CommitIndeterminate
  BY <1>1, <1>9 DEF CommitRefused, CommitFailed, CommitIndeterminate, Poison, state, Task
<1>10. QED
  BY <1>2, <1>3, <1>4, <1>5, <1>6, <1>7, <1>8, <1>9, NoReplay DEF Coordinator

\* Nothing but an append leads to a commit.
LEMMA OnlyAppendsCommit ==
  ASSUME Base, Coordinator, ~ReceiveAppend, task.at \notin {"commit", "reload"}
  PROVE  /\ task'.at \notin {"commit", "reload"}
         /\ task'.at = "observe" => task' = task
<1>1. \A p : At(p).at = p
  BY DEF At
<1>2. \A b : NextCandidate(b).at \notin {"commit", "reload", "observe"}
  BY DEF NextCandidate, At
<1>3. \A d, b : Admit(d, b) => task'.at \notin {"commit", "reload", "observe"}
  BY <1>2 DEF Admit, At
<1>4. CASE ReceiveBegin \/ Sweep \/ ReceiveShutdown \/ Exit
  BY <1>1, <1>3, <1>4 DEF ReceiveBegin, Sweep, ReceiveShutdown, Exit
<1>5. CASE Load \/ Grant
  BY <1>1, <1>2, <1>5 DEF Load, Grant, Base, TypeInv, TypeOK, Task
<1>6. CASE ReceiveSettle \/ ReceiveAbandon \/ Observe
  BY <1>1, <1>6 DEF ReceiveSettle, ReceiveAbandon, Observe, GrantPending
<1>7. QED
  BY <1>4, <1>5, <1>6 DEF Coordinator, CommitAppended, CommitReplayed, CommitRefused,
    CommitFailed, CommitIndeterminate, Reload

\* The steps of the coordinator after which the log is what it was.
LEMMA QuietKeepsSound ==
  ASSUME Base, Base', SoundInv, Coordinator, durable' = durable, limbo' = limbo
  PROVE  SoundInv'
<1>1. /\ Len(durable) \in Nat /\ Len(events) \in Nat /\ Len(observed) \in Nat /\ nextToken \in Nat
      /\ events \in Seq(Event) /\ durable \in Seq(Event) /\ observed \in Seq(Event)
      /\ \A i \in 1 .. Len(events) : events[i] = durable[i]
      /\ \A i \in 1 .. Len(durable) : durable[i].turn \in Nat /\ durable[i].turn < nextToken
      /\ active.token \in Nat /\ active \in ActiveTurn
  BY LogTypes DEF Base, LogInv, MemoryFollows, Numbered
<1>2. UNCHANGED <<pc, lease, history>>
  BY DEF Coordinator, ReceiveBegin, ReceiveAppend, ReceiveSettle, ReceiveAbandon, ReceiveShutdown,
    Sweep, Load, Grant, CommitAppended, CommitReplayed, CommitRefused, CommitFailed,
    CommitIndeterminate, Reload, Observe, Exit, callers
<1>3. task.at = "grant" => Len(events) = Len(durable)
  BY DEF SoundInv, Current, Base, LogInv, Stages
<1>4. \A c \in Callers : lease[c] < nextToken /\ (Has(c) => lease[c] > 0) /\ lease[c] \in Nat
  BY DEF Base, LeaseInv, TokensSpent, TypeInv, TypeOK
<1>5. /\ Granted(nextToken).kind = "grant" /\ Granted(nextToken).events = events
      /\ Granted(nextToken).token = nextToken
      /\ Failed.kind = "fail" /\ NoReply.kind = "none"
      /\ \A s : Done(s).kind = "done" /\ Done(s).events = s
      /\ \A e : Absent(e).kind = "absent" /\ Absent(e).events = <<e>>
  BY DEF Granted, Failed, NoReply, Done, Absent
<1>6. Current'
  <2>1. task'.at = "reload" \/ poisoned' \/ ~loaded' \/ Len(events') = Len(durable)
    BY MemoryMoves DEF SoundInv, Current
  <2>2. QED
    BY <2>1 DEF SoundInv, Current
<1>7. Snapshots'
  <2>1. ASSUME NEW c \in Callers, Holds(c) PROVE Snap(history[c], lease[c])'
    BY <1>2, <2>1 DEF SoundInv, Snapshots, Snap
  <2>2. ASSUME NEW c \in Callers, Offered(c)' PROVE Snap(reply[c].events, reply[c].token)'
    <3>1. CASE reply'[c] = reply[c]
      BY <2>2, <3>1 DEF SoundInv, Snapshots, Snap, Offered
    <3>2. CASE reply'[c] = Granted(nextToken) /\ task.at = "grant"
      <4>1. reply'[c].events = events
        BY <1>5, <3>2
      <4>2. Len(events) = Len(durable)
        BY <1>3, <3>2
      <4>3. \A i \in 1 .. Len(durable) : ~ Len(events) < i
        BY <1>1, <4>2
      <4>4. Len(reply'[c].events) = Len(durable') /\ \A i \in 1 .. Len(durable') : ~ Len(reply'[c].events) < i
        BY <4>1, <4>2, <4>3
      <4>5. \A i \in 1 .. Len(reply'[c].events) : reply'[c].events[i] = durable'[i]
        BY <1>1, <4>1
      <4>6. Len(reply'[c].events) <= Len(durable')
        BY <1>1, <4>4
      <4>7. QED
        BY <4>4, <4>5, <4>6 DEF Snap
    <3>3. QED
      BY <1>5, <2>2, <3>1, <3>2, CoordinatorAnswers DEF Offered
  <2>3. QED
    BY <1>2, <2>1, <2>2 DEF Snapshots, Holds
<1>8. StartExact'
  <2>1. CASE active'.token = active.token /\ active'.start = active.start
    BY <2>1 DEF SoundInv, StartExact
  <2>2. CASE active'.token = 0
    BY <2>2 DEF StartExact
  <2>3. CASE Grant /\ active'.token = nextToken /\ active'.start = Len(events)
    <3>1. Len(events) = Len(durable)
      BY <1>3, <2>3 DEF Grant
    <3>2. QED
      BY <1>1, <2>3, <3>1 DEF StartExact
  <2>4. QED
    BY <2>1, <2>2, <2>3, TurnMoves
<1>9. SettledIsOver'
  <2> SUFFICES ASSUME NEW c \in Callers, pc[c] = "settle", reply'[c] # NoReply PROVE lease[c] # active'.token
    BY <1>2 DEF SettledIsOver
  <2>1. lease[c] > 0 /\ lease[c] < nextToken /\ lease[c] \in Nat
    BY <1>4 DEF Has
  <2>2. CASE reply'[c] = reply[c]
    BY <1>1, <2>1, <2>2, TurnMoves DEF SoundInv, SettledIsOver
  <2>3. CASE reply'[c] # reply[c]
    <3>1. active' = IF lease[c] = active.token THEN NoTurn ELSE active
      BY <2>3, CoordinatorAnswers
    <3>2. QED
      BY <2>1, <3>1 DEF NoTurn
  <2>4. QED
    BY <2>2, <2>3
<1>10. Summaries'
  <2> SUFFICES ASSUME NEW c \in Callers, pc'[c] = "settle", reply'[c].kind = "done"
               PROVE  \E a, b \in 0 .. Len(durable') :
                        /\ a <= b /\ Slice(reply'[c].events, durable', a, b)
                        /\ \A i \in 1 .. Len(durable') : durable'[i].turn = lease'[c] <=> a < i /\ i <= b
    BY Zenon DEF Summaries, Slice
  <2>0. pc[c] = "settle" /\ lease'[c] = lease[c]
    BY <1>2
  <2>1. CASE reply'[c] = reply[c]
    BY <2>0, <2>1 DEF SoundInv, Summaries
  <2>2. CASE reply'[c] # reply[c]
    <3>1. lease[c] = active.token /\ ~poisoned /\ task.at = "recv" /\ reply'[c] = Done(Summary)
      BY <1>5, <2>0, <2>2, CoordinatorAnswers
    <3>2. active.token # 0
      BY <1>4, <2>0, <3>1 DEF Has
    <3>3. Len(events) = Len(durable)
      BY <3>1, <3>2 DEF SoundInv, Current, Base, LogInv, Stages
    <3>4. active.start \in Nat /\ active.start <= Len(durable)
      BY <1>1, <3>2 DEF SoundInv, StartExact, ActiveTurn
    <3>5. reply'[c].events = SubSeq(events, active.start + 1, Len(events))
      BY <1>5, <3>1 DEF Summary
    <3>6. \A i \in active.start + 1 .. Len(events) : events[i] \in Event
      BY <1>1, <3>4, ElementOfSeq
    <3>7. /\ Len(reply'[c].events) = Len(events) - active.start
          /\ \A i \in 1 .. Len(events) - active.start : reply'[c].events[i] = events[active.start + i]
      <4>1. active.start + 1 \in Int /\ Len(events) \in Int
        BY <1>1, <3>4
      <4>2. /\ Len(SubSeq(events, active.start + 1, Len(events)))
                 = IF active.start + 1 <= Len(events) THEN Len(events) - (active.start + 1) + 1 ELSE 0
            /\ \A i \in 1 .. Len(events) - (active.start + 1) + 1 :
                 SubSeq(events, active.start + 1, Len(events))[i] = events[active.start + 1 + i - 1]
        BY <3>6, <4>1, SubSeqProperties
      <4>3. Len(events) - (active.start + 1) + 1 = Len(events) - active.start
        BY <1>1, <3>4
      <4>4. \A i \in 1 .. Len(events) - active.start : active.start + 1 + i - 1 = active.start + i
        BY <1>1, <3>4
      <4>5. QED
        BY <1>1, <3>3, <3>4, <3>5, <4>2, <4>3, <4>4
    <3>8. Slice(reply'[c].events, durable, active.start, Len(durable))
      <4>1. \A i \in 1 .. Len(events) - active.start : active.start + i \in 1 .. Len(events)
        BY <1>1, <3>4
      <4>2. QED
        BY <1>1, <3>3, <3>7, <4>1 DEF Slice
    <3>9. \A i \in 1 .. Len(durable) : durable[i].turn = lease[c] <=> active.start < i /\ i <= Len(durable)
      BY <1>1, <3>1, <3>2 DEF SoundInv, StartExact
    <3>10. QED
      BY <1>1, <2>0, <3>4, <3>8, <3>9
  <2>3. QED
    BY <2>1, <2>2
<1>11. AllObserved'
  <2> SUFFICES ASSUME ~poisoned'
               PROVE  \E a \in 0 .. Len(durable) :
                        /\ \A i \in 1 .. Len(durable) : durable[i].turn # 0 <=> a < i
                        /\ ~loaded' => a = Len(durable) /\ Len(observed') = 0
                        /\ loaded' => a <= Seen' /\ Slice(observed', durable, a, Seen')
    BY DEF AllObserved, Slice
  <2>1. ~poisoned
    BY MemoryMoves
  <2>2. PICK a \in 0 .. Len(durable) :
          /\ \A i \in 1 .. Len(durable) : durable[i].turn # 0 <=> a < i
          /\ ~loaded => a = Len(durable) /\ Len(observed) = 0
          /\ loaded => a <= Seen /\ Slice(observed, durable, a, Seen)
    BY <2>1 DEF SoundInv, AllObserved
  <2>3. CASE UNCHANGED <<events, loaded, observed>> /\ task.at # "observe" /\ task'.at # "observe"
    <3>1. Seen' = Seen
      BY <2>3 DEF Seen
    <3>2. QED
      BY <2>2, <2>3, <3>1
  <2>4. CASE ~loaded /\ loaded' /\ events' = durable /\ task'.at # "observe" /\ UNCHANGED observed
    <3>1. Seen' = Len(durable)
      BY <2>4 DEF Seen
    <3>2. QED
      BY <1>1, <2>2, <2>4, <3>1 DEF Slice
  <2>5. CASE /\ task.at = "reload" /\ loaded /\ task'.at = "observe" /\ events' = durable
             /\ Len(durable) = Len(events) + 1 /\ UNCHANGED <<loaded, observed>>
    <3>1. Seen' = Seen
      BY <1>1, <2>5 DEF Seen
    <3>2. QED
      BY <2>2, <2>5, <3>1
  <2>6. CASE /\ task.at = "observe" /\ task'.at = "recv" /\ observed' = Append(observed, task.event)
             /\ UNCHANGED <<events, loaded>>
    <3>1. /\ loaded /\ Len(events) > 0 /\ task.event = durable[Len(events)] /\ task.event \in Event
          /\ Len(events) <= Len(durable) /\ task.event.turn # 0
      BY <1>1, <2>6, LogTypes DEF Base, LogInv, ObservedSoFar, Stages, MemoryFollows
    <3>2. Seen = Len(events) - 1 /\ Seen' = Len(events)
      BY <2>6 DEF Seen
    <3>3. /\ Len(observed') = Len(observed) + 1 /\ observed'[Len(observed) + 1] = task.event
          /\ \A i \in 1 .. Len(observed) : observed'[i] = observed[i]
      BY <1>1, <2>6, <3>1, AppendProperties
    <3>4. Len(observed) = Seen - a /\ \A i \in 1 .. Len(observed) : observed[i] = durable[a + i]
      BY <2>2, <3>1 DEF Slice
    <3>5. Slice(observed', durable, a, Seen')
      <4>1. Len(observed') = Seen' - a
        BY <1>1, <3>2, <3>3, <3>4
      <4>2. \A i \in 1 .. Len(observed') : i \in 1 .. Len(observed) \/ i = Len(observed) + 1
        BY <1>1, <3>3
      <4>3. a + (Len(observed) + 1) = Len(events)
        BY <1>1, <3>2, <3>4
      <4>4. QED
        BY <3>1, <3>3, <3>4, <4>1, <4>2, <4>3 DEF Slice
    <3>6. QED
      BY <1>1, <2>2, <2>6, <3>1, <3>2, <3>5
  <2>7. QED
    BY <2>3, <2>4, <2>5, <2>6, MemoryMoves
<1>12. AnswersKept'
  <2> SUFFICES ASSUME NEW c \in Callers, pc[c] = "append", reply'[c] # NoReply
               PROVE  /\ reply'[c].kind = "done" => \E i \in 1 .. Len(durable) : durable[i] = reply'[c].events[1]
                      /\ reply'[c].kind = "absent" =>
                           \A i \in 1 .. Len(durable) : durable[i].id # reply'[c].events[1].id
    BY <1>2 DEF AnswersKept
  <2>1. CASE reply'[c] = reply[c]
    BY <2>1 DEF SoundInv, AnswersKept
  <2>2. CASE reply'[c] # reply[c]
    <3>1. \/ reply'[c] = Failed
          \/ \E i \in 1 .. Len(durable) : reply'[c] = Done(<<durable[i]>>)
          \/ /\ reply'[c] = Absent(task.event)
             /\ \A i \in 1 .. Len(durable) : durable[i].id # task.event.id
      BY <2>2, CoordinatorAnswers
    <3>2. CASE reply'[c] = Failed
      BY <1>5, <3>2
    <3>3. CASE \E i \in 1 .. Len(durable) : reply'[c] = Done(<<durable[i]>>)
      <4>1. PICK i \in 1 .. Len(durable) : reply'[c] = Done(<<durable[i]>>)
        BY <3>3
      <4>2. reply'[c].kind = "done" /\ reply'[c].events = <<durable[i]>>
        BY <1>5, <4>1
      <4>3. QED
        BY <4>2
    <3>4. CASE /\ reply'[c] = Absent(task.event)
               /\ \A i \in 1 .. Len(durable) : durable[i].id # task.event.id
      <4>1. reply'[c].kind = "absent" /\ reply'[c].events = <<task.event>>
        BY <1>5, <3>4
      <4>2. QED
        BY <3>4, <4>1
    <3>5. QED
      BY <3>1, <3>2, <3>3, <3>4
  <2>3. QED
    BY <2>1, <2>2
<1>13. LastWord'
  <2> SUFFICES ASSUME NEW c \in Callers, pc[c] = "append"
               PROVE  /\ reply'[c] # NoReply \/ task'.resp = c =>
                           \A i \in 1 .. Len(mailbox') : mailbox'[i].op = "Append" => mailbox'[i].token # lease[c]
                      /\ \A i, j \in 1 .. Len(mailbox') :
                           i < j /\ mailbox'[i].resp = c /\ mailbox'[j].op = "Append" => mailbox'[j].token # lease[c]
                      /\ reply'[c] # NoReply => ~(Committing' /\ active'.token = lease[c])
    BY <1>2 DEF LastWord
  <2>0. c # None /\ Len(mailbox) \in Nat
    BY NoneAssumption, LenProperties DEF Base, TypeInv
  <2>1. \/ mailbox' = mailbox
        \/ Grant /\ mailbox' = Sent(mailbox, Abandon(nextToken))
        \/ \E op : Receive(op)
    BY DEF Coordinator, ReceiveBegin, ReceiveAppend, ReceiveSettle, ReceiveAbandon,
      ReceiveShutdown, Sweep, Load, Grant, CommitAppended, CommitReplayed, CommitRefused,
      CommitFailed, CommitIndeterminate, Reload, Observe, Exit
  <2>2. \E k \in {0, 1} : \A i \in 1 .. Len(mailbox') :
          \/ i + k \in 1 .. Len(mailbox) /\ mailbox'[i] = mailbox[i + k]
          \/ /\ i = Len(mailbox') /\ mailbox'[i].op # "Append"
             /\ mailbox'[i].resp = None
    <3>1. CASE mailbox' = mailbox
      <4>1. \A i \in 1 .. Len(mailbox') : i + 0 \in 1 .. Len(mailbox) /\ mailbox'[i] = mailbox[i + 0]
        BY <2>0, <3>1
      <4>2. QED
        BY <4>1
    <3>2. CASE mailbox' = Sent(mailbox, Abandon(nextToken))
      <4>1. Abandon(nextToken) \in Sendable /\ Abandon(nextToken).op # "Append" /\ Abandon(nextToken).resp = None
        BY <1>1, MessageTypes DEF Abandon
      <4>2. /\ Len(mailbox') \in {Len(mailbox), Len(mailbox) + 1}
            /\ \A i \in 1 .. Len(mailbox) : mailbox'[i] = mailbox[i]
            /\ Len(mailbox') = Len(mailbox) + 1 => mailbox'[Len(mailbox) + 1] = Abandon(nextToken)
        BY <3>2, <4>1, SentKeepsCommands DEF Base, TypeInv
      <4>3. ASSUME NEW i \in 1 .. Len(mailbox')
            PROVE  \/ i + 0 \in 1 .. Len(mailbox) /\ mailbox'[i] = mailbox[i + 0]
                   \/ /\ i = Len(mailbox') /\ mailbox'[i].op # "Append" /\ mailbox'[i].resp = None
        BY <2>0, <4>1, <4>2
      <4>4. QED
        BY <4>3
    <3>3. CASE \E op : Receive(op)
      <4>1. PICK op : Receive(op)
        BY <3>3
      <4>2. /\ Len(mailbox') = Len(mailbox) - 1
            /\ \A i \in 1 .. Len(mailbox') : mailbox'[i] = mailbox[i + 1]
        BY <4>1, ReceiveKeepsCommands DEF Base, TypeInv
      <4>3. \A i \in 1 .. Len(mailbox') : i + 1 \in 1 .. Len(mailbox) /\ mailbox'[i] = mailbox[i + 1]
        BY <2>0, <4>2
      <4>4. QED
        BY <4>3
    <3>4. QED
      BY <2>1, <3>1, <3>2, <3>3
  <2>3. PICK k \in {0, 1} : \A i \in 1 .. Len(mailbox') :
          \/ i + k \in 1 .. Len(mailbox) /\ mailbox'[i] = mailbox[i + k]
          \/ /\ i = Len(mailbox') /\ mailbox'[i].op # "Append"
             /\ mailbox'[i].resp = None
    BY <2>2
  <2>4. ASSUME NEW i \in 1 .. Len(mailbox'), NEW j \in 1 .. Len(mailbox'),
               i < j, mailbox'[i].resp = c, mailbox'[j].op = "Append"
        PROVE  mailbox'[j].token # lease[c]
    <3>1. /\ i + k \in 1 .. Len(mailbox) /\ mailbox'[i] = mailbox[i + k]
          /\ j + k \in 1 .. Len(mailbox) /\ mailbox'[j] = mailbox[j + k]
          /\ i + k < j + k
      BY <2>0, <2>3, <2>4
    <3>2. QED
      BY <2>4, <3>1 DEF SoundInv, LastWord
  <2>5. ASSUME \A i \in 1 .. Len(mailbox) : mailbox[i].op = "Append" => mailbox[i].token # lease[c]
        PROVE  \A i \in 1 .. Len(mailbox') : mailbox'[i].op = "Append" => mailbox'[i].token # lease[c]
    BY <2>3, <2>5
  <2>6. CASE reply'[c] # reply[c]
    BY <2>4, <2>6, CoordinatorAnswers DEF Committing
  <2>7. CASE reply'[c] = reply[c] /\ reply[c] # NoReply
    <3>1. \A i \in 1 .. Len(mailbox) : mailbox[i].op = "Append" => mailbox[i].token # lease[c]
      BY <2>7 DEF SoundInv, LastWord
    <3>2. ASSUME Committing', active'.token = lease[c] PROVE FALSE
      <4>1. CASE ReceiveAppend
        <5>1. MayAppend(Head(mailbox)) /\ active' = active
          BY <3>2, <4>1 DEF ReceiveAppend, Receive, Committing, state
        <5>2. /\ Head(mailbox) = mailbox[1] /\ 1 \in 1 .. Len(mailbox) /\ Head(mailbox).op = "Append"
          BY <4>1, ReceiveKeepsCommands DEF ReceiveAppend, Base, TypeInv
        <5>3. QED
          BY <3>1, <3>2, <5>1, <5>2 DEF MayAppend, OwnsLease
      <4>2. CASE Committing
        <5>1. active'.token = active.token
          BY <1>4, <3>2, <4>2, TurnMoves DEF Grant, Committing, Has
        <5>2. QED
          BY <2>7, <3>2, <4>2, <5>1 DEF SoundInv, LastWord
      <4>3. CASE ~ReceiveAppend /\ ~Committing
        <5>1. task'.at \notin {"commit", "reload"}
          BY <4>3, OnlyAppendsCommit DEF Committing
        <5>2. QED
          BY <3>2, <5>1 DEF Committing
      <4>4. QED
        BY <4>1, <4>2, <4>3
    <3>3. QED
      BY <2>4, <2>5, <2>7, <3>1, <3>2
  <2>8. CASE reply'[c] = NoReply /\ reply[c] = NoReply
    <3>1. ASSUME task'.resp = c
          PROVE  \A i \in 1 .. Len(mailbox') : mailbox'[i].op = "Append" => mailbox'[i].token # lease[c]
      <4>1. task'.at \in {"commit", "reload", "observe"}
        BY <1>2, <3>1 DEF Base, ChannelInv, AtHand
      <4>2. CASE task.resp = c
        BY <2>5, <4>2 DEF SoundInv, LastWord
      <4>3. CASE ReceiveAppend /\ task' = [At("commit") EXCEPT !.resp = Head(mailbox).resp, !.event = EventOf(Head(mailbox))]
        <5>1. Head(mailbox).resp = c
          BY <3>1, <4>3 DEF At
        <5>2. /\ Len(mailbox') = Len(mailbox) - 1 /\ Head(mailbox) = mailbox[1] /\ 1 \in 1 .. Len(mailbox)
              /\ \A i \in 1 .. Len(mailbox') : mailbox'[i] = mailbox[i + 1]
          BY <4>3, ReceiveKeepsCommands DEF ReceiveAppend, Base, TypeInv
        <5>3. \A i \in 1 .. Len(mailbox') : i + 1 \in 1 .. Len(mailbox) /\ 1 < i + 1
          BY <2>0, <5>2
        <5>4. QED
          BY <5>1, <5>2, <5>3 DEF SoundInv, LastWord
      <4>4. CASE ReceiveAppend /\ task' = task
        BY <2>5, <3>1, <4>4 DEF SoundInv, LastWord
      <4>5. CASE task.at \in {"commit", "reload"} /\ ~(task' = At("recv"))
        <5>1. task'.resp = task.resp
          BY <4>1, <4>5 DEF Coordinator, ReceiveBegin, ReceiveAppend, ReceiveSettle, ReceiveAbandon,
            ReceiveShutdown, Receive, Sweep, Load, Grant, CommitAppended, CommitReplayed, CommitRefused,
            CommitFailed, CommitIndeterminate, Reload, Observe, Exit, Poison, Base, TypeInv, TypeOK, Task
        <5>2. QED
          BY <3>1, <4>2, <5>1
      <4>6. CASE ~ReceiveAppend /\ ~(task.at \in {"commit", "reload"})
        <5>1. task'.at \notin {"commit", "reload"} /\ (task'.at = "observe" => task' = task)
          BY <4>6, OnlyAppendsCommit
        <5>2. QED
          BY <3>1, <4>1, <4>2, <5>1
      <4>7. At("recv").at = "recv"
        BY DEF At
      <4>8. QED
        BY <4>1, <4>3, <4>4, <4>5, <4>6, <4>7 DEF ReceiveAppend
    <3>2. QED
      BY <2>4, <2>8, <3>1
  <2>9. QED
    BY <2>6, <2>7, <2>8
<1>14. QED
  BY <1>6, <1>7, <1>8, <1>9, <1>10, <1>11, <1>12, <1>13 DEF SoundInv

\* What the coordinator promises of a sound storage holds at first.
LEMMA SoundInit == Init => SoundInv
<1> SUFFICES ASSUME Init PROVE SoundInv
  OBVIOUS
<1>1. /\ durable \in Seq(Event) /\ Len(durable) \in Nat /\ DOMAIN durable = 1 .. Len(durable)
      /\ \A i \in 1 .. Len(durable) : durable[i].turn = 0
  BY InitialLogsAssumption, LenProperties DEF Init
<1>2. /\ limbo = None /\ ~loaded /\ active.token = 0 /\ Len(observed) = 0 /\ Len(mailbox) = 0
      /\ \A c \in Callers : pc[c] = "idle" /\ reply[c] = NoReply
  BY EmptySeq DEF Init, NoTurn
<1>3. Current /\ Snapshots /\ StartExact /\ SettledIsOver /\ Summaries
  BY <1>2 DEF Current, Snapshots, StartExact, SettledIsOver, Summaries, Holds, Offered, NoReply
<1>4. AllObserved
  BY <1>1, <1>2 DEF AllObserved
<1>5. AnswersKept /\ LastWord
  BY <1>2 DEF AnswersKept, LastWord
<1>6. QED
  BY <1>3, <1>4, <1>5 DEF SoundInv

\* A storage misbehaves in the same ways as long as it is there.
LEMMA SameStorage == [Next]_vars => faults' = faults
<1>1. ASSUME NEW c \in Callers, Caller(c) PROVE faults' = faults
  BY <1>1 DEF Caller, BeginCheck, BeginLocate, BeginRecheck, BeginSend, BeginReturn, BeginCancel,
    AppendSend, AppendReturn, AppendCancel, SettleSend, SettleReturn, SettleCancel, TurnDrop, storage
<1>2. CASE Coordinator
  BY <1>2 DEF Coordinator, ReceiveBegin, ReceiveAppend, ReceiveSettle, ReceiveAbandon, ReceiveShutdown,
    Sweep, Load, Grant, CommitAppended, CommitReplayed, CommitRefused, CommitFailed,
    CommitIndeterminate, Reload, Observe, Exit, storage
<1>3. CASE Shutdown \/ LateWrite \/ UNCHANGED vars
  BY <1>3 DEF Shutdown, ShutdownFlag, ShutdownSend, ShutdownReturn, LateWrite, vars, storage
<1>4. QED
  BY <1>1, <1>2, <1>3 DEF Next, Terminated

\* Every step with a sound storage keeps what it promises.
LEMMA SoundStep == Base /\ Base' /\ Sound /\ SoundInv /\ [Next]_vars => SoundInv'
<1> SUFFICES ASSUME Base, Base', Sound, SoundInv, [Next]_vars PROVE SoundInv'
  OBVIOUS
<1>1. ASSUME NEW c \in Callers, Caller(c) PROVE SoundInv'
  BY <1>1, SoundCallers
<1>2. CASE Coordinator
  BY <1>2, GrowthOnly, GrowthKeepsSound, QuietKeepsSound
<1>3. CASE LateWrite
  BY <1>3 DEF LateWrite, SoundInv, Current
<1>4. CASE Shutdown
  <2>1. UNCHANGED <<coord, task, pending, active, durable, limbo, events, loaded, poisoned, observed, pc, reply, lease, history>>
    BY <1>4 DEF Shutdown, ShutdownFlag, ShutdownSend, ShutdownReturn, state, callers, storage
  <2>2. Current' /\ StartExact' /\ SettledIsOver' /\ AnswersKept'
    BY <2>1 DEF SoundInv, Current, StartExact, SettledIsOver, AnswersKept
  <2>3. Snapshots' /\ Summaries' /\ AllObserved'
    BY SMTT(30), <2>1 DEF SoundInv, Snapshots, Snap, Holds, Offered, Summaries, Slice, AllObserved, Seen
  <2>4. LastWord'
    <3>1. /\ Len(mailbox) \in Nat
          /\ \A i \in 1 .. Len(mailbox') :
               \/ i \in 1 .. Len(mailbox) /\ mailbox'[i] = mailbox[i]
               \/ i = Len(mailbox) + 1 /\ mailbox'[i].op # "Append" /\ mailbox'[i].resp = None
      <4>1. Len(mailbox) \in Nat /\ mailbox \in Seq(Sendable)
        BY LenProperties DEF Base, TypeInv
      <4>2. CASE mailbox' = mailbox
        BY <4>1, <4>2
      <4>3. CASE mailbox' = Sent(mailbox, ShutdownCmd)
        <5>1. ShutdownCmd \in Sendable /\ ShutdownCmd.op # "Append" /\ ShutdownCmd.resp = None
          BY MessageTypes DEF ShutdownCmd
        <5>2. /\ Len(mailbox') \in {Len(mailbox), Len(mailbox) + 1}
              /\ \A i \in 1 .. Len(mailbox) : mailbox'[i] = mailbox[i]
              /\ Len(mailbox') = Len(mailbox) + 1 => mailbox'[Len(mailbox) + 1] = ShutdownCmd
          BY <4>1, <4>3, <5>1, SentKeepsCommands
        <5>3. QED
          BY <4>1, <5>1, <5>2
      <4>4. QED
        BY <1>4, <4>1, <4>2, <4>3 DEF Shutdown, ShutdownFlag, ShutdownSend, ShutdownReturn
    <3>2. \A c \in Callers : c # None
      BY NoneAssumption
    <3>3. \A i \in 1 .. Len(mailbox'), j \in 1 .. Len(mailbox') :
            i < j /\ mailbox'[j].op = "Append" =>
              /\ i \in 1 .. Len(mailbox) /\ mailbox'[i] = mailbox[i]
              /\ j \in 1 .. Len(mailbox) /\ mailbox'[j] = mailbox[j]
      BY <3>1
    <3>4. QED
      BY <2>1, <3>1, <3>2, <3>3 DEF SoundInv, LastWord, Committing
  <2>5. QED
    BY <2>2, <2>3, <2>4 DEF SoundInv
<1>5. CASE UNCHANGED vars
  BY <1>5 DEF vars, state, storage, callers, SoundInv, Current, StartExact, SettledIsOver, AnswersKept,
    Snapshots, Snap, Holds, Offered, Summaries, Slice, AllObserved, Seen, LastWord, Committing
<1>6. QED
  BY <1>1, <1>2, <1>3, <1>4, <1>5 DEF Next, Terminated

\* The invariants of the log, the channels and the ends, and with a sound
\* storage those of the memory.
LEMMA SessionInvariant == Spec => [](Base /\ (Sound => SoundInv))
<1>1. Spec => []LogInv
  <2>1. Spec => [](TypeInv /\ LeaseInv)
    BY EndsInvariant, PTL
  <2>2. QED
    BY <2>1, LogInit, LogStep, PTL DEF Spec
<1>2. Spec => []Base
  BY <1>1, EndsInvariant, PTL DEF Base
<1>3. Init => (Sound => SoundInv)
  BY SoundInit
<1>4. Base /\ Base' /\ (Sound => SoundInv) /\ [Next]_vars => (Sound => SoundInv)'
  BY SoundStep, SameStorage DEF Sound
<1>5. QED
  BY <1>2, <1>3, <1>4, PTL DEF Spec

\* A sequence of events that agrees with the beginning of another is a prefix.
LEMMA PrefixByElements ==
  ASSUME NEW s \in Seq(Event), NEW t \in Seq(Event), Len(s) <= Len(t),
         \A i \in 1 .. Len(s) : s[i] = t[i]
  PROVE  IsPrefix(s, t)
<1>1. Len(s) \in Nat /\ Len(t) \in Nat /\ Len(s) \in Int /\ 1 \in Int
  BY LenProperties
<1>2. \A i \in 1 .. Len(s) : s[i] \in Event /\ t[i] \in Event
  BY ElementOfSeq
<1>3. /\ SubSeq(t, 1, Len(s)) \in Seq(Event)
      /\ Len(SubSeq(t, 1, Len(s))) = IF 1 <= Len(s) THEN Len(s) - 1 + 1 ELSE 0
      /\ \A i \in 1 .. Len(s) - 1 + 1 : SubSeq(t, 1, Len(s))[i] = t[1 + i - 1]
  BY <1>1, <1>2, SubSeqProperties
<1>4. Len(SubSeq(t, 1, Len(s))) = Len(s)
  BY <1>1, <1>3
<1>5. \A i \in 1 .. Len(s) : SubSeq(t, 1, Len(s))[i] = t[i]
  <2>1. \A i \in 1 .. Len(s) : i \in 1 .. Len(s) - 1 + 1 /\ 1 + i - 1 = i
    BY <1>1
  <2>2. QED
    BY <1>3, <2>1
<1>6. s = SubSeq(t, 1, Len(s))
  BY <1>3, <1>4, <1>5, SeqEqual
<1>7. SubSeq(s, 1, Len(s)) = s
  BY SubSeqFull
<1>8. QED
  BY <1>6, <1>7 DEF IsPrefix

\* A part of a sequence of events is the subsequence between its ends.
LEMMA SliceIsSubSeq ==
  ASSUME NEW s \in Seq(Event), NEW t \in Seq(Event), NEW a \in Nat, NEW b \in Nat,
         a <= b, b <= Len(t), Slice(s, t, a, b)
  PROVE  s = SubSeq(t, a + 1, b)
<1>1. Len(s) \in Nat /\ Len(t) \in Nat /\ a + 1 \in Int /\ b \in Int
  BY LenProperties
<1>2. \A i \in a + 1 .. b : t[i] \in Event
  BY <1>1, ElementOfSeq
<1>3. /\ SubSeq(t, a + 1, b) \in Seq(Event)
      /\ Len(SubSeq(t, a + 1, b)) = IF a + 1 <= b THEN b - (a + 1) + 1 ELSE 0
      /\ \A i \in 1 .. b - (a + 1) + 1 : SubSeq(t, a + 1, b)[i] = t[a + 1 + i - 1]
  BY <1>1, <1>2, SubSeqProperties
<1>4. Len(SubSeq(t, a + 1, b)) = Len(s)
  BY <1>1, <1>3 DEF Slice
<1>5. \A i \in 1 .. Len(s) : s[i] = SubSeq(t, a + 1, b)[i]
  <2>1. \A i \in 1 .. Len(s) : i \in 1 .. b - (a + 1) + 1 /\ a + 1 + i - 1 = a + i
    BY <1>1 DEF Slice
  <2>2. QED
    BY <1>3, <2>1 DEF Slice
<1>6. QED
  BY <1>3, <1>4, <1>5, SeqEqual

\* The log stays valid and whole and the memory a part of it whatever the
\* storage does; with a sound storage the memory, the snapshots the turns are
\* admitted with and their summaries are exact.
THEOREM MemoryIsTruthful == Spec => []MemoryTruthful
<1>1. ASSUME Base, Sound => SoundInv PROVE MemoryTruthful
  <2>1. /\ durable \in Seq(Event) /\ events \in Seq(Event) /\ Len(durable) \in Nat /\ Len(events) \in Nat
        /\ DOMAIN durable = 1 .. Len(durable)
        /\ history \in [Callers -> Seq(Event)] /\ reply \in [Callers -> Reply]
        /\ \A c \in Callers : Len(history[c]) \in Nat
    BY <1>1, LenProperties DEF Base, TypeInv, TypeOK
  <2>2. DurableValid
    BY <1>1, <2>1 DEF Base, LogInv, Numbered, Distinct, DurableValid, ValidLog
  <2>3. TurnsWhole
    BY <1>1, <2>1 DEF Base, LogInv, Whole, TurnsWhole
  <2>4. IsPrefix(events, durable)
    BY <1>1, <2>1, PrefixByElements DEF Base, LogInv, MemoryFollows
  <2>5. ASSUME Sound PROVE MemoryCurrent
    BY <1>1, <2>1, <2>5, SeqEqual DEF MemoryCurrent, SoundInv, Current, Base, LogInv, MemoryFollows
  <2>6. ASSUME Sound PROVE SnapshotExact
    <3> SUFFICES ASSUME NEW c \in Callers, Holds(c)
                 PROVE  /\ IsPrefix(history[c], durable)
                        /\ \A i \in (Len(history[c]) + 1) .. Len(durable) : durable[i].turn = lease[c]
      BY DEF SnapshotExact
    <3>1. Snap(history[c], lease[c])
      BY <1>1, <2>6 DEF SoundInv, Snapshots
    <3>2. IsPrefix(history[c], durable)
      BY <2>1, <3>1, PrefixByElements DEF Snap
    <3>3. \A i \in (Len(history[c]) + 1) .. Len(durable) : i \in 1 .. Len(durable) /\ Len(history[c]) < i
      BY <2>1
    <3>4. QED
      BY <3>1, <3>2, <3>3 DEF Snap
  <2>7. ASSUME Sound PROVE SummaryExact
    <3> SUFFICES ASSUME NEW c \in Callers, pc[c] = "settle", reply[c].kind = "done"
                 PROVE  \E a, b \in 0 .. Len(durable) :
                          /\ reply[c].events = SubSeq(durable, a + 1, b)
                          /\ \A i \in DOMAIN durable : durable[i].turn = lease[c] <=> a < i /\ i <= b
      BY DEF SummaryExact
    <3>1. PICK a \in 0 .. Len(durable), b \in 0 .. Len(durable) :
            /\ a <= b /\ Slice(reply[c].events, durable, a, b)
            /\ \A i \in 1 .. Len(durable) : durable[i].turn = lease[c] <=> a < i /\ i <= b
      BY <1>1, <2>7 DEF SoundInv, Summaries
    <3>2. reply[c].events \in Seq(Event) /\ a \in Nat /\ b \in Nat /\ b <= Len(durable)
      BY <2>1, <3>1 DEF Reply
    <3>3. reply[c].events = SubSeq(durable, a + 1, b)
      BY <2>1, <3>1, <3>2, SliceIsSubSeq
    <3>4. QED
      BY <2>1, <3>1, <3>3
  <2>8. QED
    BY <2>2, <2>3, <2>4, <2>5, <2>6, <2>7 DEF MemoryTruthful, MemoryIsPrefix
<1>2. QED
  BY <1>1, SessionInvariant, PTL

\* The observers are shown durable events, in order and once; with a sound
\* storage all that this runtime wrote.
THEOREM ObserversAreShown == Spec => []ObserversFollow
<1>1. ASSUME Base, Sound => SoundInv PROVE ObserversFollow
  <2>1. /\ durable \in Seq(Event) /\ Len(durable) \in Nat /\ Len(events) \in Nat
        /\ DOMAIN durable = 1 .. Len(durable)
        /\ observed \in Seq(Event) /\ Len(observed) \in Nat /\ DOMAIN observed = 1 .. Len(observed)
        /\ \A i \in 1 .. Len(observed) : observed[i].seq \in Nat
    BY <1>1, LenProperties, LogTypes DEF Base
  <2>2. \A i \in 1 .. Len(observed) : \E j \in 1 .. Len(durable) : observed[i] = durable[j]
    <3> SUFFICES ASSUME NEW i \in 1 .. Len(observed) PROVE \E j \in 1 .. Len(durable) : observed[i] = durable[j]
      OBVIOUS
    <3>1. observed[i].seq < Len(events) /\ observed[i] = events[observed[i].seq + 1]
      BY <1>1, <2>1 DEF Base, LogInv, ObservedSoFar, Seen
    <3>2. observed[i].seq + 1 \in 1 .. Len(events) /\ Len(events) <= Len(durable)
      BY <1>1, <2>1, <3>1 DEF Base, LogInv, MemoryFollows
    <3>3. events[observed[i].seq + 1] = durable[observed[i].seq + 1]
      BY <1>1, <3>2 DEF Base, LogInv, MemoryFollows
    <3>4. QED
      BY <2>1, <3>1, <3>2, <3>3
  <2>3. ObservedInOrder
    <3>1. ToSet(observed) \subseteq ToSet(durable)
      BY <2>1, <2>2, Zenon DEF ToSet
    <3>2. \A i, j \in DOMAIN observed : i < j => observed[i].seq < observed[j].seq
      BY SMTT(30), <1>1, <2>1 DEF Base, LogInv, ObservedSoFar
    <3>3. QED
      BY <3>1, <3>2, Zenon DEF ObservedInOrder
  <2>4. ASSUME Sound, task.at = "recv", ~poisoned
        PROVE  \E a \in 0 .. Len(durable) :
                 /\ observed = SubSeq(durable, a + 1, Len(durable))
                 /\ \A i \in DOMAIN durable : durable[i].turn # 0 <=> a < i
    <3>1. PICK a \in 0 .. Len(durable) :
            /\ \A i \in 1 .. Len(durable) : durable[i].turn # 0 <=> a < i
            /\ ~loaded => a = Len(durable) /\ Len(observed) = 0
            /\ loaded => a <= Seen /\ Slice(observed, durable, a, Seen)
      BY <1>1, <2>4 DEF SoundInv, AllObserved
    <3>2. loaded => Seen = Len(durable)
      BY <1>1, <2>4 DEF SoundInv, Current, Seen
    <3>3. Slice(observed, durable, a, Len(durable))
      <4>1. CASE loaded
        BY <3>1, <3>2, <4>1, Zenon
      <4>2. CASE ~loaded
        <5>1. a = Len(durable) /\ Len(observed) = 0
          BY <3>1, <4>2
        <5>2. Len(observed) = Len(durable) - a /\ (1 .. (Len(durable) - a)) = {}
          BY <2>1, <5>1
        <5>3. QED
          BY <2>1, <5>1, <5>2 DEF Slice
      <4>3. QED
        BY <4>1, <4>2
    <3>6. a \in Nat /\ a <= Len(durable) /\ Len(durable) <= Len(durable)
      BY <2>1
    <3>4. observed = SubSeq(durable, a + 1, Len(durable))
      BY <2>1, <3>3, <3>6, SliceIsSubSeq, ZenonT(40)
    <3>5. QED
      BY ZenonT(40), <2>1, <3>1, <3>4
  <2>5. QED
    BY <2>3, <2>4 DEF ObserversFollow, ObservedExactly
<1>2. QED
  BY <1>1, SessionInvariant, PTL

\* With a sound storage an append answered Ok is durable and one answered "not
\* committed" is not, also after a reconciliation and however many retries of
\* cancelled appends are still on their way.
THEOREM AnswersAreTruthful == Spec => []AnswersTruthful
<1>1. ASSUME Base, Sound => SoundInv PROVE AnswersTruthful
  <2>1. DOMAIN durable = 1 .. Len(durable)
    BY <1>1, LenProperties DEF Base, TypeInv, TypeOK
  <2>2. ASSUME Sound PROVE AnswerTruthful
    BY <1>1, <2>1, <2>2 DEF SoundInv, AnswersKept, AnswerTruthful, ToSet, IdsOf
  <2>3. QED
    BY <2>2 DEF AnswersTruthful
<1>2. QED
  BY <1>1, SessionInvariant, PTL

\* A commit of the open turn is a Record of the abstract log.
LEMMA GrowthRecords ==
  ASSUME Base, SoundInv, Growth, nextToken' = nextToken
  PROVE  Log!Record
<1>1. /\ task.event \in Event /\ active.token # 0 /\ loaded /\ ~poisoned /\ ~active.closed
      /\ task.event.turn = active.token
      /\ Len(events) = Len(durable) /\ DOMAIN durable = 1 .. Len(durable)
      /\ \A i \in 1 .. Len(events) : events[i] = durable[i]
  BY LogTypes, LenProperties DEF Growth, Base, LogInv, CandidateNext, Stages, SoundInv, Current, MemoryFollows
<1>2. ~Log!Ended(active.token)
  BY <1>1 DEF Log!Ended, Base, LogInv, OpenNotEnded
<1>3. task.event \in [id : EventIds \ Log!IdsOf(durable), kind : Kinds, turn : {active.token}, seq : {Len(durable)}]
  BY <1>1 DEF Growth, Acceptable, Event, IdsOf, Log!IdsOf
<1>4. durable' = Append(durable, task.event) /\ active'.token = active.token
  BY DEF Growth
<1>5. QED
  BY <1>1, <1>2, <1>3, <1>4 DEF Log!Record

\* With a sound storage the durable log, the open turn and the tokens given out
\* behave as the abstract Session log.
THEOREM CoordinatorImplementsLog == Spec /\ Sound => ImplementsLog
<1>1. Init => Log!Init
  <2> SUFFICES ASSUME Init PROVE Log!Init
    OBVIOUS
  <2>1. durable \in Seq(Event) /\ \A i \in DOMAIN durable : durable[i].turn = 0 /\ durable[i].seq = i - 1
    BY InitialLogsAssumption DEF Init, ValidLog
  <2>2. Event = Log!Event
    BY DEF Event, Log!Event
  <2>3. QED
    BY <2>1, <2>2 DEF Init, Log!Init, NoTurn
<1>2. ASSUME Base, SoundInv, Sound, [Next]_vars PROVE [Log!Next]_(Log!vars)
  <2>1. active.token \in Nat /\ nextToken \in Nat
    BY <1>2, LogTypes DEF Base
  <2>2. CASE Coordinator
    <3>1. CASE Grant
      <4>1. active.token = 0 /\ durable' = durable
        BY <1>2, <3>1 DEF Grant, Base, LeaseInv, AdmittingIdle, storage
      <4>2. CASE nextToken' = nextToken + 1 /\ active'.token = nextToken
        BY <2>1, <4>1, <4>2 DEF Log!Next, Log!Open
      <4>3. CASE nextToken' = nextToken + 1 /\ active' = active
        BY <2>1, <4>1, <4>3 DEF Log!Next, Log!Forfeit
      <4>4. CASE nextToken' = nextToken /\ active' = active
        BY <4>1, <4>4 DEF Log!vars
      <4>5. QED
        BY <3>1, <4>2, <4>3, <4>4 DEF Grant
    <3>2. CASE ~Grant
      <4>1. nextToken' = nextToken
        BY <2>2, <3>2 DEF Coordinator, ReceiveBegin, ReceiveAppend, ReceiveSettle, ReceiveAbandon,
          ReceiveShutdown, Sweep, Load, CommitAppended, CommitReplayed, CommitRefused,
          CommitFailed, CommitIndeterminate, Reload, Observe, Exit, state
      <4>2. CASE Growth
        BY <1>2, <4>1, <4>2, GrowthRecords DEF Log!Next
      <4>3. CASE durable' = durable
        <5>1. active'.token \in {active.token, 0}
          BY <1>2, <2>2, <3>2, TurnMoves
        <5>2. QED
          BY <4>1, <4>3, <5>1 DEF Log!Next, Log!Close, Log!vars
      <4>4. QED
        BY <1>2, <2>2, <4>2, <4>3, GrowthOnly
    <3>3. QED
      BY <3>1, <3>2
  <2>3. ASSUME NEW c \in Callers, Caller(c) PROVE UNCHANGED Log!vars
    BY <1>2, <2>3, CallersKeepLog DEF LogKept, Remembered, Log!vars, Base
  <2>4. CASE Shutdown \/ UNCHANGED vars
    BY <2>4 DEF Shutdown, ShutdownFlag, ShutdownSend, ShutdownReturn, vars, state, storage, Log!vars
  <2>5. ~LateWrite
    BY <1>2 DEF LateWrite, SoundInv, Current
  <2>6. QED
    BY <1>2, <2>2, <2>3, <2>4, <2>5 DEF Next, Terminated
<1>3. Sound /\ [Next]_vars => Sound'
  BY SameStorage DEF Sound
<1>4. QED
  BY <1>1, <1>2, <1>3, SessionInvariant, PTL DEF Spec, ImplementsLog, Log!Spec

=============================================================================
