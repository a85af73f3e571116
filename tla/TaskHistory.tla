----------------------------- MODULE TaskHistory -----------------------------
(***************************************************************************)
(* What a Session's history says of a task (crates/task/state):            *)
(* assess_task_history reads the events one after the other, refuses a     *)
(* history no runtime writes, and tells which operations have no result    *)
(* and which steps are settled; capture takes a snapshot where nothing is  *)
(* left open, and validate_successor compares it with the one before.      *)
(*                                                                         *)
(* The history grows here, event by event, and is assessed as it stands:   *)
(* assess_task_history has no state but that of its loop.                  *)
(***************************************************************************)
EXTENDS SequencesExt, FiniteSets, Naturals

CONSTANTS
  TurnIds, CallIds, StepIds, \* the ids events name
  Kinds,                     \* the kinds of events that come up
  Strangers,                 \* whether another writer's events come up
  MaxEvents                  \* bound: length of a history

None == "none"
ASSUME NoneAssumption == None \notin TurnIds \cup CallIds \cup StepIds
ASSUME EventsAssumption == MaxEvents \in Nat /\ Strangers \in BOOLEAN

VARIABLES
  history,  \* the events read
  refused,  \* the event that assess_task_history refused, as a set
  turns,    \* turn_ids
  current,  \* current_turn
  closed,   \* it has its terminal event
  pending,  \* models and tools: operations without a result
  calls,    \* calls_seen
  steps,    \* steps, in the order in which they were seen
  counts,   \* events of the current turn, by kind
  reported, \* report_seen
  captured  \* settled_steps of the snapshot the store has

loop == <<turns, current, closed, pending, calls, steps, counts, reported>>
assessment == <<history, refused, loop, captured>>

Intents == {"model", "tool"}
Results == {"model result", "tool result"}
ResultOf == [model |-> "model result", tool |-> "tool result"]
Counted == Intents \cup Results

NoCounts == [k \in Counted |-> 0]

\* seq and id are the physical address; step is the one of the intent's action,
\* if it is of this task; counts is what a report says was confirmed.
Event(t, k) == [seq |-> Len(history), id |-> Len(history), turn |-> t, kind |-> k, call |-> None,
                step |-> None, counts |-> NoCounts]

Counts(t) ==
  [k \in Counted |-> Cardinality({i \in DOMAIN history : history[i].turn = t /\ history[i].kind = k})]

\* Events that may follow, those of another writer among them.
Events ==
  {e \in
     {Event(t, k) : t \in TurnIds, k \in {"user", "terminal", "other"}}
       \cup {[Event(t, k) EXCEPT !.call = c, !.step = s] :
               t \in TurnIds, k \in Intents, c \in CallIds, s \in StepIds \cup {None}}
       \cup {[Event(t, k) EXCEPT !.call = c] : t \in TurnIds, k \in Results, c \in CallIds}
       \cup {[Event(t, "report") EXCEPT !.counts = n] :
               t \in TurnIds, n \in UNION {{Counts(u), [Counts(u) EXCEPT !["tool result"] = @ + 1]} : u \in TurnIds}}
       \cup {[Event(t, "other") EXCEPT !.seq = q, !.id = i] :
               t \in TurnIds, q \in {Len(history), Len(history) + 1}, i \in {0, Len(history)}} :
   e.kind \in Kinds}

HistoryInit ==
  /\ history = <<>> /\ refused = {} /\ captured = <<>>
  /\ turns = {} /\ current = None /\ closed = TRUE /\ pending = {} /\ calls = {} /\ steps = <<>>
  /\ counts = NoCounts /\ reported = FALSE

-----------------------------------------------------------------------------
\* The envelope of a turn: the user's message opens it, once, and nothing
\* follows its terminal event.
Enveloped(e) ==
  IF e.turn # current
  THEN closed /\ e.turn \notin turns /\ e.kind = "user"
  ELSE e.kind # "user" /\ ~closed

\* finish finds the operation, in the same turn.
Resolves(p, e) == ResultOf[p.kind] = e.kind /\ p.call = e.call /\ p.turn = e.turn

\* Mutant: the report's counts are taken as they are.
ConsistentUncounted(e) ==
  /\ e.kind \in Results => \E p \in pending : Resolves(p, e)
  /\ e.kind \in Intents => <<e.kind, e.call>> \notin calls

\* The checks of the kinds: a result resolves one operation, a report counts
\* what came before it, and no intent uses a call again.
Consistent(e) ==
  /\ e.kind \in Results => \E p \in pending : Resolves(p, e)
  /\ e.kind = "report" => e.counts = counts
  /\ e.kind \in Intents => <<e.kind, e.call>> \notin calls

Accepts(e) ==
  /\ e.seq = Len(history) /\ \A i \in DOMAIN history : history[i].id # e.id
  /\ Enveloped(e)
  /\ e.turn = current /\ reported => e.kind = "terminal"
  /\ Consistent(e)

Operation(e) == [kind |-> e.kind, call |-> e.call, turn |-> e.turn, seq |-> e.seq, step |-> e.step]

\* steps_seen and steps.
Seen(e) == IF e.step = None \/ Contains(steps, e.step) THEN steps ELSE Append(steps, e.step)

\* An iteration of the loop.
Read(e) ==
  /\ refused = {} /\ Accepts(e)
  /\ history' = Append(history, e)
  /\ turns' = turns \cup {e.turn} /\ current' = e.turn
  /\ closed' = (e.kind = "terminal")
  /\ reported' = (e.kind = "report" \/ (e.turn = current /\ reported))
  /\ LET base == IF e.turn = current THEN counts ELSE NoCounts IN
       counts' = [k \in Counted |-> IF k = e.kind THEN base[k] + 1 ELSE base[k]]
  /\ pending' = {p \in pending : ~Resolves(p, e)} \cup IF e.kind \in Intents THEN {Operation(e)} ELSE {}
  /\ calls' = calls \cup IF e.kind \in Intents THEN {<<e.kind, e.call>>} ELSE {}
  /\ steps' = Seen(e)
  /\ UNCHANGED <<refused, captured>>

Refuse(e) ==
  /\ Strangers /\ refused = {} /\ ~Accepts(e)
  /\ refused' = {e}
  /\ UNCHANGED <<history, loop, captured>>

\* The elements of S, which is finite, by their keys: sort_by_key.
InOrder(S, key) ==
  [n \in 1 .. Cardinality(S) |-> CHOOSE x \in S : Cardinality({y \in S : key[y] <= key[x]}) = n]

\* The assessment: operations without a result, in their order, and the steps
\* none of them is of.
Unresolved == InOrder(pending, [p \in pending |-> p.seq])
SettledSteps ==
  LET settled == {i \in DOMAIN steps : \A p \in pending : p.step # steps[i]}
      order == InOrder(settled, [i \in settled |-> i])
  IN  [n \in DOMAIN order |-> steps[order[n]]]

\* capture needs an empty or closed boundary with nothing unresolved.
AtBoundary == closed /\ pending = {}

\* capture, then validate_successor with the snapshot of the store.
Settle ==
  /\ refused = {} /\ AtBoundary /\ captured # SettledSteps
  /\ IsPrefix(captured, SettledSteps)
  /\ captured' = SettledSteps
  /\ UNCHANGED <<history, refused, loop>>

\* A history that is refused, or as long as they get, is left alone.
Done ==
  /\ refused # {} \/ Len(history) = MaxEvents \/ (closed /\ turns = TurnIds)
  /\ UNCHANGED assessment

HistoryNext ==
  \/ Settle \/ Done
  \/ Len(history) < MaxEvents /\ \E e \in Events : Read(e) \/ Refuse(e)

HistorySpec == HistoryInit /\ [][HistoryNext]_assessment

-----------------------------------------------------------------------------
(***************************************************************************)
(* Properties: what a history means, said of all its events at once.       *)
(***************************************************************************)
TurnOf(h, i) == {j \in DOMAIN h : h[j].turn = h[i].turn}

\* Turns are runs of events: one user's message first, at most one terminal
\* event, which is last and which only the last turn may lack, and before it
\* the report, if any.
WellFormed(h) ==
  \A i \in DOMAIN h :
    /\ h[i].seq = i - 1 /\ \A j \in DOMAIN h : h[j].id = h[i].id => i = j
    /\ (h[i].kind = "user") <=> (\A j \in TurnOf(h, i) : i <= j)
    /\ \A j \in TurnOf(h, i), k \in DOMAIN h : i < k /\ k < j => h[k].turn = h[i].turn
    /\ h[i].kind = "terminal" => \A j \in TurnOf(h, i) : j <= i
    /\ (\A j \in TurnOf(h, i) : j <= i) /\ i < Len(h) => h[i].kind = "terminal"
    /\ h[i].kind = "report" /\ i + 1 \in TurnOf(h, i) => h[i + 1].kind = "terminal"

\* The intent the i-th event is the result of.
IntentOf(h, i) ==
  {j \in TurnOf(h, i) : /\ j < i /\ h[j].kind \in Intents /\ ResultOf[h[j].kind] = h[i].kind
                        /\ h[j].call = h[i].call}

\* Calls are unique in the whole history, each result has its intent in its own
\* turn and no other result, and a report counts its turn.
Matched(h) ==
  \A i, j \in DOMAIN h :
    /\ h[i].kind \in Results =>
         /\ IntentOf(h, i) # {}
         /\ i # j /\ h[j].kind = h[i].kind => h[j].call # h[i].call
    /\ h[i].kind \in Intents /\ i # j /\ h[j].kind = h[i].kind => h[j].call # h[i].call
    /\ h[i].kind = "report" =>
         h[i].counts = [k \in Counted |-> Cardinality({n \in TurnOf(h, i) : n < i /\ h[n].kind = k})]

\* The loop refuses a history exactly when it is not one.
AcceptsExactly ==
  /\ WellFormed(history) /\ Matched(history)
  /\ \A e \in refused : LET h == Append(history, e) IN ~(WellFormed(h) /\ Matched(h))

\* An operation is told as unresolved exactly when no result follows it, in the
\* order of the intents: a recovery neither misses one nor asks for one twice.
UnresolvedExact ==
  LET told == Unresolved IN
    /\ \A i \in DOMAIN told : history[told[i].seq + 1].call = told[i].call
    /\ \A i, j \in DOMAIN told : i < j => told[i].seq < told[j].seq
    /\ {told[i].seq + 1 : i \in DOMAIN told} =
         {i \in DOMAIN history : /\ history[i].kind \in Intents
                                 /\ \A j \in DOMAIN history : i \notin IntentOf(history, j)}

\* A snapshot can be taken whenever the boundary allows it: what was settled in
\* the one before is settled, in the same order, and validate_successor takes it.
SnapshotsFollow == AtBoundary => IsPrefix(captured, SettledSteps)

\* What the assessment says: a history is refused exactly when no runtime writes
\* it, an operation is told as unresolved exactly when no result follows it, and
\* a snapshot can be taken wherever the boundary allows it.
HistoryRead == AcceptsExactly /\ UnresolvedExact /\ SnapshotsFollow
=============================================================================
