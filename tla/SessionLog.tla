----------------------------- MODULE SessionLog -----------------------------
(***************************************************************************)
(* What a Session promises to the turns that share it: one append-only log *)
(* of events, written by one turn at a time.  A turn is admitted only when *)
(* no other is open, every event it records extends the log at its head    *)
(* under an identifier the log does not hold yet, and nothing of a turn    *)
(* follows its terminal event.                                             *)
(*                                                                         *)
(* The module says nothing of mailboxes, leases, retries or storage:       *)
(* SessionCoordinator is shown to implement it.                            *)
(***************************************************************************)
EXTENDS Naturals, Sequences

CONSTANTS
  EventIds,  \* identifiers of events (EventId)
  Kinds,     \* kinds of events
  Terminal   \* the kinds that end a turn

VARIABLES
  log,   \* the durable events, in order
  turn,  \* the open turn, 0 when there is none
  last   \* the last turn number given out

vars == <<log, turn, last>>

Event == [id : EventIds, kind : Kinds, turn : Nat, seq : Nat]

IdsOf(s) == {s[i].id : i \in DOMAIN s}

\* A turn is ended when the log holds a terminal event of it.
Ended(t) == \E i \in DOMAIN log : log[i].turn = t /\ log[i].kind \in Terminal

\* A log that some earlier runtime left behind belongs to no turn of this one.
Init ==
  /\ log \in Seq(Event)
  /\ \A i \in DOMAIN log : log[i].turn = 0 /\ log[i].seq = i - 1
  /\ turn = 0
  /\ last = 0

Open ==
  /\ turn = 0
  /\ last' = last + 1
  /\ turn' = last'
  /\ UNCHANGED log

\* A turn number whose requester is gone is spent without the turn opening.
Forfeit ==
  /\ turn = 0
  /\ last' = last + 1
  /\ UNCHANGED <<log, turn>>

Record ==
  /\ turn # 0
  /\ ~Ended(turn)
  /\ \E e \in [id : EventIds \ IdsOf(log), kind : Kinds, turn : {turn}, seq : {Len(log)}] :
       log' = Append(log, e)
  /\ UNCHANGED <<turn, last>>

Close ==
  /\ turn # 0
  /\ turn' = 0
  /\ UNCHANGED <<log, last>>

Next == Open \/ Forfeit \/ Record \/ Close

Spec == Init /\ [][Next]_vars
=============================================================================
