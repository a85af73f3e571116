------------------------- MODULE AgentRuntimeProofs -------------------------
(***************************************************************************)
(* Proofs about AgentRuntime, for any turns, capabilities and bounds and   *)
(* every fault: what a turn that is reported done has done, where the      *)
(* Session's lease is, which failures are told, and what the log and the   *)
(* checkpoint say of the turns.                                            *)
(***************************************************************************)
EXTENDS AgentRuntime, FiniteSetTheorems, TLAPS

-----------------------------------------------------------------------------
(***************************************************************************)
(* The invariant.                                                          *)
(***************************************************************************)
\* The places of drive_turn, in its order: before the body, from the body on,
\* and once it has returned.
Early == {"idle", "begin", "boundary", "user"}
Open == {"body", "models", "tools"}
Shut == {"cleanup", "message", "prepare", "report", "terminal", "settle"}
Late == {"send", "leave", "undelivered", "gone"}
After == {"finalize"} \cup Late

\* Where the driver of a turn has the lease.
Leased == {"boundary", "user"} \cup Open \cup Shut

\* What of a turn has happened by the time it is where it is.
Stage(t) ==
  /\ t \in jobs <=> turn[t].at \notin {"idle", "gone"}
  /\ turn[t].busy \subseteq turn[t].bound
  /\ turn[t].at \in Early => turn[t].bound = {} /\ turn[t].report = "none"
  /\ turn[t].at \in {"idle", "begin"} => ~turn[t].foreign
  /\ turn[t].at \in Shut \cup (After \ {"gone"}) => turn[t].busy = {}
  /\ turn[t].at = "tools" => "model" \notin turn[t].busy
  /\ turn[t].foreign => budget[t].stopped /\ turn[t].bound = {} /\ turn[t].report # "ok"
  /\ turn[t].at = "leave" => controller[t] \in {"sent", "read", "discarded"}

\* What the driver has made of the turn's intent, and the receipts it rests on.
Judged(t) ==
  /\ turn[t].at \in {"models", "tools"} \cup Shut =>
       turn[t].intent \in Dispositions /\ (turn[t].foreign => turn[t].intent = "failed")
  /\ turn[t].at \in Shut /\ turn[t].broken # {} => turn[t].intent = "failed"
  /\ turn[t].at \in {"prepare", "report", "terminal", "settle"} /\ turn[t].intent = "completed" =>
       turn[t].message = "ok"
  /\ turn[t].at \in {"terminal", "settle"} /\ turn[t].intent # "failed" => turn[t].report = "ok"
  /\ turn[t].outcome = "ok" =>
       /\ turn[t].at \in After /\ turn[t].busy = {} /\ turn[t].broken = {}
       /\ turn[t].intent \in {"completed", "cancelled"} /\ turn[t].report = "ok"
       /\ turn[t].intent = "completed" => turn[t].message = "ok"
       /\ t \in Durable => turn[t].terminal = "ok"
  /\ turn[t].outcome = "unwound" => turn[t].at = "gone"

\* Where the budget run is.
Running(t) ==
  /\ turn[t].at \in {"begin", "boundary", "user", "cleanup"} \cup Open => budget[t].run = "open"
  /\ turn[t].at \in {"message", "prepare"} => budget[t].run = "cleaning"
  /\ turn[t].at \in {"report", "terminal", "settle"} => budget[t].run \in {"cleaning", "reported"}
  /\ turn[t].at \in After => budget[t].run \in {"finished", "abandoned"}

\* The lease is with the driver or, once that is gone, with the calls it left.
Leasing(t) == holder = t <=> ~turn[t].foreign /\ (turn[t].at \in Leased \/ turn[t].busy # {})

\* The events of a turn by the time it is where it is.
Wrote(t) ==
  \A i \in Committed(t) :
    /\ turn[t].at \notin Early /\ ~turn[t].foreign
    /\ turn[t].busy # {} \/ turn[t].at \in Open \cup {"cleanup", "message"} =>
         log[i].kind \in {"user", "work"}
    /\ turn[t].at \in {"prepare", "report"} => log[i].kind \in {"user", "work", "message"}
    /\ turn[t].at = "terminal" => log[i].kind # "terminal"

\* A report, or a report and the terminal event, that were recorded are the last.
Closes(t, i, j) ==
  EndsWith(t, i, j) /\ log[i].kind = "report" /\ log[j] = Terminal(t, turn[t].intent)
Recorded(t) ==
  turn[t].report = "ok" =>
    /\ turn[t].at = "terminal" =>
         Len(log) \in DOMAIN log /\ log[Len(log)].turn = t /\ log[Len(log)].kind = "report"
    /\ (turn[t].at = "settle" \/ turn[t].outcome = "ok") /\ turn[t].terminal = "ok" =>
         \E i, j \in Committed(t) : Closes(t, i, j)

\* A durable turn that holds the lease found the log empty.
Alone(t) ==
  t \in Durable /\ holder = t /\ turn[t].at # "boundary" => \A i \in DOMAIN log : log[i].turn = t

Placed(t) ==
  Stage(t) /\ Judged(t) /\ Running(t) /\ Leasing(t) /\ Wrote(t) /\ Recorded(t) /\ Alone(t)

\* What the holder of the lease has written is the end of the log.
Ending == \A i, j \in DOMAIN log : i < j /\ log[i].turn = holder => log[j].turn = holder
Logged == EnvelopeOrdered /\ BoundaryKept /\ Ending

\* A turn that was sealed writes no more.
Sealed(t) ==
  /\ \E i, j \in Committed(t) :
       /\ EndsWith(t, i, j) /\ log[i].kind = "report" /\ log[j].kind = "terminal"
       /\ log[i].drained /\ Agree(log[i], log[j])
  /\ turn[t].busy = {} /\ turn[t].at \in Late
Ready == checkpoint = "ready" => \E t \in Durable : Sealed(t)

\* stop has seen the last job leave before it takes what is to be told.
Stopping ==
  /\ stopper.at = "idle" <=> lifecycle \in {"constructed", "running"}
  /\ stopper.at # "done" => stopper.told = {}
  /\ stopper.at \in {"take", "done"} => jobs = {}
  /\ stopper.at = "done" => detached = {}

Finite == IsFiniteSet(jobs) /\ IsFiniteSet(detached) /\ IsFiniteSet(stopper.told)

Inv ==
  /\ TypeOK /\ Finite /\ Stopping /\ FailureKept
  /\ \A t \in Turns : Placed(t)
  /\ Logged /\ Ready

-----------------------------------------------------------------------------
(***************************************************************************)
(* A step that is about one turn.                                          *)
(***************************************************************************)
Channels == {"none", "waiting", "sent", "read", "dropped", "discarded", "closed"}

\* Nothing of another turn changes, nor what a turn that was sealed has left.
Frame(t) ==
  /\ turn' \in [Turns -> Turn] /\ budget' \in [Turns -> Run] /\ controller' \in [Turns -> Channels]
  /\ holder' \in {holder, t, Nobody} /\ sick' \in BOOLEAN
  /\ \A s \in Turns : s # t =>
       /\ turn'[s] = turn[s] /\ budget'[s] = budget[s] /\ controller'[s] = controller[s]
       /\ s \in jobs' <=> s \in jobs
       /\ holder' = s <=> holder = s

\* What the holder of the lease may record next.
Follows(t, e) ==
  /\ e \in Entry /\ e.turn = t
  /\ \A i \in Committed(t) :
       Rank[log[i].kind] <= Rank[e.kind] /\ (log[i].kind = e.kind => log[i].kind = "work")

\* The log stays, or gets an event of t, which has the lease.
Adds(t) ==
  \/ log' = log
  \/ holder = t /\ turn[t].at # "boundary" /\ \E e : Follows(t, e) /\ log' = Append(log, e)

\* A turn that was sealed stays so.
Rests(t) ==
  turn[t].at \in Late /\ turn[t].busy = {} =>
    turn'[t].at \in Late /\ turn'[t].busy = {} /\ log' = log

\* What is in a log that got one more event.
LEMMA Appended ==
  ASSUME log \in Seq(Entry), NEW e \in Entry, log' = Append(log, e)
  PROVE  /\ log' \in Seq(Entry) /\ Len(log) \in Nat /\ Len(log') = Len(log) + 1
         /\ DOMAIN log = 1 .. Len(log) /\ DOMAIN log' = 1 .. Len(log) + 1
         /\ \A i \in DOMAIN log : i \in DOMAIN log' /\ log'[i] = log[i]
         /\ log'[Len(log) + 1] = e
OBVIOUS

\* The events of a turn, when another's is appended.
LEMMA OthersEvents ==
  ASSUME Inv, NEW t \in Turns, NEW s \in Turns, s # t, Adds(t)
  PROVE  Committed(s)' = Committed(s) /\ \A i \in Committed(s) : log'[i] = log[i]
<1>1. CASE log' = log
  BY <1>1 DEF Committed
<1>2. ASSUME NEW e, Follows(t, e), log' = Append(log, e)
      PROVE  Committed(s)' = Committed(s) /\ \A i \in Committed(s) : log'[i] = log[i]
  <2>1. e \in Entry /\ e.turn = t /\ log \in Seq(Entry)
    BY <1>2 DEF Follows, Inv, TypeOK
  <2> HIDE DEF Entry
  <2>2. /\ DOMAIN log' = DOMAIN log \cup {Len(log) + 1} /\ log'[Len(log) + 1] = e
        /\ \A i \in DOMAIN log : log'[i] = log[i]
    BY <1>2, <2>1, Appended
  <2> QED
    BY <2>1, <2>2 DEF Committed
<1> QED
  BY <1>1, <1>2 DEF Adds

\* The others stay where they are.
LEMMA Others ==
  ASSUME Inv, NEW t \in Turns, NEW s \in Turns, s # t, Frame(t), Adds(t)
  PROVE  Placed(s)'
<1>1. /\ Stage(s) /\ Judged(s) /\ Running(s) /\ Leasing(s) /\ Wrote(s) /\ Recorded(s) /\ Alone(s)
  BY DEF Inv, Placed
<1>2. /\ turn'[s] = turn[s] /\ budget'[s] = budget[s] /\ controller'[s] = controller[s]
      /\ s \in jobs' <=> s \in jobs
      /\ holder' = s <=> holder = s
  BY DEF Frame
<1>3. Committed(s)' = Committed(s) /\ \A i \in Committed(s) : log'[i] = log[i]
  BY OthersEvents
<1>4. Stage(s)'
  BY <1>1, <1>2 DEF Stage
<1>5. Judged(s)'
  BY <1>1, <1>2 DEF Judged
<1>6. Running(s)' /\ Leasing(s)'
  BY <1>1, <1>2 DEF Running, Leasing
<1>7. Wrote(s)'
  BY <1>1, <1>2, <1>3 DEF Wrote
<1>8. holder = s => log' = log
  BY DEF Adds
<1>9. Alone(s)'
  BY <1>1, <1>2, <1>8 DEF Alone
<1>10. Recorded(s)'
  <2> SUFFICES ASSUME turn[s].report = "ok" PROVE Recorded(s)'
    BY <1>2 DEF Recorded
  <2>1. ~turn[s].foreign
    BY <1>1 DEF Stage
  <2>2. turn[s].at = "terminal" => log' = log
    BY <1>1, <1>8, <2>1 DEF Leasing, Leased, Shut
  <2>3. ASSUME (turn[s].at = "settle" \/ turn[s].outcome = "ok") /\ turn[s].terminal = "ok"
        PROVE  \E i, j \in Committed(s)' : Closes(s, i, j)'
    <3>1. PICK i \in Committed(s), j \in Committed(s) : Closes(s, i, j)
      BY <1>1, <2>3 DEF Recorded
    <3>2. Closes(s, i, j)'
      BY <3>1, <1>2, <1>3 DEF Closes, EndsWith
    <3> QED
      BY <3>2, <1>3
  <2>4. turn[s].at = "terminal" => log[Len(log)].turn = s /\ Len(log) \in DOMAIN log
                                   /\ log[Len(log)].kind = "report"
    BY <1>1 DEF Recorded
  <2> QED
    BY <1>2, <2>2, <2>3, <2>4 DEF Recorded
<1> QED
  BY <1>4, <1>5, <1>6, <1>7, <1>9, <1>10 DEF Placed

\* The log stays in order: who has the lease writes at its end, one event that
\* may follow its others, and a lease that is given anew is for a turn that has
\* written nothing.
LEMMA LogKept ==
  ASSUME Inv, NEW t \in Turns, Adds(t), holder' \in {holder, t, Nobody},
         holder' = t => holder = t \/ Committed(t) = {}
  PROVE  Logged' /\ log' \in Seq(Entry)
<1>1. Logged /\ log \in Seq(Entry) /\ Alone(t)
  BY DEF Inv, TypeOK, Placed
<1>2. \A i \in DOMAIN log : log[i].turn \in Turns
  <2>1. \A i \in DOMAIN log : log[i] \in Entry
    BY <1>1
  <2> QED
    BY <2>1 DEF Entry
<1>3. CASE log' = log
  <2>1. Ending'
    <3>1. CASE holder' = holder
      BY <1>1, <1>3, <3>1 DEF Logged, Ending
    <3>2. CASE holder' = Nobody
      BY <1>2, <1>3, <3>2, NobodyAssumption DEF Ending
    <3>3. CASE holder' = t /\ Committed(t) = {}
      BY <1>3, <3>3 DEF Ending, Committed
    <3> QED
      BY <3>1, <3>2, <3>3
  <2> QED
    BY <1>1, <1>3, <2>1 DEF Logged, EnvelopeOrdered, BoundaryKept
<1>4. ASSUME holder = t, turn[t].at # "boundary", NEW e, Follows(t, e), log' = Append(log, e)
      PROVE  Logged' /\ log' \in Seq(Entry)
  <2>1. e \in Entry /\ e.turn = t
    BY <1>4 DEF Follows
  <2> DEFINE n == Len(log) + 1
  <2>2. /\ log' \in Seq(Entry) /\ n \in Nat /\ DOMAIN log = 1 .. n - 1 /\ DOMAIN log' = 1 .. n
        /\ \A i \in DOMAIN log : i \in DOMAIN log' /\ log'[i] = log[i]
        /\ log'[n] = e
    <3> HIDE DEF Entry
    <3> QED
      BY <1>1, <1>4, <2>1, Appended
  <2>3. \A i \in DOMAIN log' : i \in DOMAIN log \/ i = n
    BY <2>2
  <2>4. n \notin DOMAIN log /\ \A i \in DOMAIN log : i < n /\ i \in Nat
    BY <2>2
  <2> HIDE DEF n
  <2>5. \A i, j \in DOMAIN log : i < j /\ log[i].turn = t => log[j].turn = t
    BY <1>1, <1>4 DEF Logged, Ending
  <2>6. Ending'
    <3> SUFFICES ASSUME NEW i \in DOMAIN log', NEW j \in DOMAIN log', i < j, log'[i].turn = holder'
                 PROVE  log'[j].turn = holder'
      BY DEF Ending
    <3>1. log'[i].turn \in Turns
      BY <1>2, <2>1, <2>2, <2>3
    <3>2. holder' = t
      BY <3>1, <1>4, NobodyAssumption
    <3>3. i \in DOMAIN log
      BY <2>2, <2>3, <2>4
    <3> QED
      BY <2>1, <2>2, <2>3, <2>5, <3>2, <3>3
  <2>7. BoundaryKept'
    <3> SUFFICES ASSUME NEW s \in Durable, NEW i \in DOMAIN log', log'[i].turn = s, NEW j \in 1 .. i
                 PROVE  log'[j].turn = s
      BY DEF BoundaryKept
    <3>1. CASE i \in DOMAIN log
      <4>1. j \in DOMAIN log
        BY <3>1, <2>2
      <4> QED
        BY <1>1, <2>2, <3>1, <4>1 DEF Logged, BoundaryKept
    <3>2. CASE i = n
      <4>1. s = t
        BY <2>1, <2>2, <3>2
      <4>2. \A k \in DOMAIN log : log[k].turn = t
        BY <1>1, <1>4, <4>1 DEF Alone
      <4>3. j \in DOMAIN log'
        BY <3>2, <2>2
      <4> QED
        BY <2>1, <2>2, <2>3, <4>1, <4>2, <4>3
    <3> QED
      BY <2>3, <3>1, <3>2
  <2>8. EnvelopeOrdered'
    <3> SUFFICES ASSUME NEW i \in DOMAIN log', NEW j \in DOMAIN log', i < j
                 PROVE  /\ log'[i].turn = log'[j].turn =>
                             /\ Rank[log'[i].kind] <= Rank[log'[j].kind]
                             /\ log'[i].kind = log'[j].kind => log'[i].kind = "work"
                        /\ log'[i].turn # log'[j].turn =>
                             \A k \in DOMAIN log' : k > j => log'[k].turn # log'[i].turn
      BY DEF EnvelopeOrdered, Rank
    <3>1. i \in DOMAIN log
      BY <2>2, <2>3, <2>4
    <3>2. CASE j = n
      <4>1. log'[i].turn = t => i \in Committed(t)
        BY <2>2, <3>1 DEF Committed
      <4>2. \A k \in DOMAIN log' : ~(k > j)
        BY <3>2, <2>2
      <4> QED
        BY <1>4, <2>1, <2>2, <3>1, <3>2, <4>1, <4>2 DEF Follows
    <3>3. CASE j \in DOMAIN log
      <4>1. /\ log[i].turn = log[j].turn =>
                 /\ Rank[log[i].kind] <= Rank[log[j].kind]
                 /\ log[i].kind = log[j].kind => log[i].kind = "work"
            /\ log[i].turn # log[j].turn =>
                 \A k \in DOMAIN log : k > j => log[k].turn # log[i].turn
        BY <1>1, <3>1, <3>3 DEF Logged, EnvelopeOrdered
      <4>2. log[i].turn = t => log[j].turn = t
        BY <2>5, <3>1, <3>3
      <4> QED
        BY <2>1, <2>2, <2>3, <3>1, <3>3, <4>1, <4>2
    <3> QED
      BY <2>3, <3>2, <3>3
  <2> QED
    BY <2>2, <2>6, <2>7, <2>8 DEF Logged
<1> QED
  BY <1>1, <1>3, <1>4 DEF Adds

\* What was sealed stays so.
LEMMA ReadyKept ==
  ASSUME Inv, NEW t \in Turns, Frame(t), Adds(t), Rests(t), checkpoint' = checkpoint
  PROVE  Ready'
<1> SUFFICES ASSUME checkpoint = "ready" PROVE \E s \in Durable : Sealed(s)'
  BY DEF Ready
<1>1. PICK s \in Durable : Sealed(s)
  BY DEF Inv, Ready
<1>2. s \in Turns
  BY SetsAssumption
<1>3. turn[s].at \in Late /\ turn[s].busy = {}
  BY <1>1 DEF Sealed
<1>4. turn'[s].at \in Late /\ turn'[s].busy = {}
  BY <1>2, <1>3 DEF Frame, Rests
<1>5. Committed(s)' = Committed(s) /\ \A i \in Committed(s) : log'[i] = log[i]
  <2>1. CASE s = t
    BY <1>3, <2>1 DEF Rests, Committed
  <2>2. CASE s # t
    BY <1>2, <2>2, OthersEvents
  <2> QED
    BY <2>1, <2>2
<1>6. PICK i \in Committed(s), j \in Committed(s) :
        /\ EndsWith(s, i, j) /\ log[i].kind = "report" /\ log[j].kind = "terminal"
        /\ log[i].drained /\ Agree(log[i], log[j])
  BY <1>1 DEF Sealed
<1>7. EndsWith(s, i, j)'
  BY <1>5, <1>6 DEF EndsWith
<1>8. Agree(log[i], log[j])'
  BY <1>5, <1>6 DEF Agree
<1>9. Sealed(s)'
  BY <1>4, <1>5, <1>6, <1>7, <1>8 DEF Sealed
<1> QED
  BY <1>9

-----------------------------------------------------------------------------
(***************************************************************************)
(* The table of jobs, and what stop is told.                               *)
(***************************************************************************)
\* A turn that is gone with something to tell has told it.
Told(t) ==
  \/ controller[t] \in {"sent", "read", "discarded"}
  \/ t \in detached \cup stopper.told
  \/ Cardinality(detached \cup stopper.told) >= MaxDetached

Gone(t) == turn[t].at = "gone" /\ (Incomplete(t) \/ turn[t].outcome = "unwound")

\* A step of a turn that leaves the table alone.
LEMMA TableStays ==
  ASSUME Inv, NEW t \in Turns, Frame(t), Adds(t), Rests(t), UNCHANGED control, Placed(t)',
         checkpoint' = checkpoint \/ (checkpoint' = "ready" /\ t \in Durable /\ Sealed(t)'),
         holder' = t => holder = t \/ Committed(t) = {},
         Gone(t)' => Gone(t) /\ (controller[t] \in {"sent", "read", "discarded"} =>
                                   controller'[t] \in {"sent", "read", "discarded"})
  PROVE  Inv'
<1>1. Logged' /\ log' \in Seq(Entry)
  BY LogKept DEF Frame
<1>2. TypeOK'
  BY <1>1 DEF Inv, TypeOK, Frame, control, Channels
<1>3. Finite' /\ Stopping'
  BY DEF Inv, Finite, Stopping, control
<1>4. FailureKept'
  <2> SUFFICES ASSUME NEW s \in Turns, Gone(s)' PROVE Told(s)'
    BY DEF FailureKept, Gone, Told, At
  <2>1. Gone(s) /\ (controller[s] \in {"sent", "read", "discarded"} =>
                      controller'[s] \in {"sent", "read", "discarded"})
    BY DEF Frame, Gone, Incomplete
  <2>2. Told(s)
    BY <2>1 DEF Inv, FailureKept, Gone, Told, At
  <2> QED
    BY <2>1, <2>2 DEF Told, control
<1>5. \A s \in Turns : Placed(s)'
  BY Others
<1>6. Ready'
  BY ReadyKept DEF Ready
<1> QED
  BY <1>1, <1>2, <1>3, <1>4, <1>5, <1>6 DEF Inv

\* A turn leaves the table: JobGuard completes, or is dropped.
LEMMA TableLeft ==
  ASSUME Inv, NEW t \in Turns, Frame(t), Adds(t), Rests(t), Placed(t)', checkpoint' = checkpoint,
         holder' = t => holder = t \/ Committed(t) = {},
         t \in jobs, jobs' = jobs \ {t}, lifecycle' = lifecycle,
         stopper' = [stopper EXCEPT !.permit = @ \/ jobs = {t}],
         \/ detached' = detached
         \/ detached' = detached \cup {t} /\ Cardinality(detached) < MaxDetached,
         Gone(t)' => \/ controller'[t] \in {"sent", "read", "discarded"}
                     \/ t \in detached'
                     \/ Cardinality(detached) >= MaxDetached
  PROVE  Inv'
<1>1. Logged' /\ log' \in Seq(Entry)
  BY LogKept DEF Frame
<1>2. /\ IsFiniteSet(jobs) /\ IsFiniteSet(detached) /\ IsFiniteSet(stopper.told)
      /\ Cardinality(jobs) <= MaxInFlight /\ Cardinality(detached) <= MaxDetached
      /\ jobs \in SUBSET Turns /\ detached \in SUBSET Turns
      /\ stopper \in [at : {"idle", "look", "wait", "take", "done"}, permit : BOOLEAN, told : SUBSET Turns]
  BY DEF Inv, Finite, TypeOK
<1>3. stopper'.at = stopper.at /\ stopper'.told = stopper.told
      /\ stopper' \in [at : {"idle", "look", "wait", "take", "done"}, permit : BOOLEAN, told : SUBSET Turns]
  BY <1>2
<1>4. stopper.at \notin {"take", "done"} /\ stopper.told = {}
  BY DEF Inv, Stopping
<1>5. IsFiniteSet(jobs') /\ Cardinality(jobs') <= MaxInFlight
  <2>1. IsFiniteSet(jobs') /\ Cardinality(jobs') <= Cardinality(jobs)
    BY <1>2, FS_Subset
  <2>2. Cardinality(jobs) \in Nat /\ Cardinality(jobs') \in Nat
    BY <1>2, <2>1, FS_CardinalityType
  <2> QED
    BY <1>2, <2>1, <2>2, BoundsAssumption
<1>6. IsFiniteSet(detached') /\ Cardinality(detached') <= MaxDetached
      /\ detached \subseteq detached' /\ Cardinality(detached) <= Cardinality(detached')
  <2>1. Cardinality(detached) \in Nat
    BY <1>2, FS_CardinalityType
  <2>2. CASE detached' = detached
    BY <1>2, <2>1, <2>2
  <2>3. CASE detached' = detached \cup {t} /\ Cardinality(detached) < MaxDetached
    <3>1. IsFiniteSet(detached \cup {t}) /\ Cardinality(detached \cup {t}) =
            IF t \in detached THEN Cardinality(detached) ELSE Cardinality(detached) + 1
      BY <1>2, FS_AddElement
    <3> QED
      BY <2>1, <2>3, <3>1, BoundsAssumption
  <2> QED
    BY <2>2, <2>3
<1>7. TypeOK'
  BY <1>1, <1>2, <1>3, <1>5, <1>6 DEF Inv, TypeOK, Frame, Channels
<1>8. Finite' /\ Stopping'
  BY <1>2, <1>3, <1>4, <1>5, <1>6 DEF Inv, Finite, Stopping
<1>9. FailureKept'
  <2> SUFFICES ASSUME NEW s \in Turns, Gone(s)' PROVE Told(s)'
    BY DEF FailureKept, Gone, Told, At
  <2>1. detached' \cup stopper'.told = detached' /\ detached \cup stopper.told = detached
    BY <1>3, <1>4
  <2>2. Cardinality(detached) \in Nat /\ Cardinality(detached') \in Nat
    BY <1>2, <1>6, FS_CardinalityType
  <2>3. CASE s = t
    BY <1>6, <2>1, <2>2, <2>3, BoundsAssumption DEF Told
  <2>4. CASE s # t
    <3>1. Gone(s) /\ controller'[s] = controller[s]
      BY <2>4 DEF Frame, Gone, Incomplete
    <3>2. Told(s)
      BY <3>1 DEF Inv, FailureKept, Gone, Told, At
    <3> QED
      BY <1>6, <2>1, <2>2, <3>1, <3>2, BoundsAssumption DEF Told
  <2> QED
    BY <2>3, <2>4
<1>10. \A s \in Turns : Placed(s)'
  BY Others
<1>11. Ready'
  BY ReadyKept
<1> QED
  BY <1>1, <1>7, <1>8, <1>9, <1>10, <1>11 DEF Inv

\* No turn has been asked for, and the log is empty.
LEMMA InitInv == Init => Inv
<1> SUFFICES ASSUME Init PROVE Inv
  OBVIOUS
<1>1. NewTurn \in Turn /\ NoRun \in Run
  BY DEF NewTurn, Turn, NoRun, Run, Awaits, Dispositions, Receipts, Outcomes
<1>2. \A t \in Turns : turn[t] = NewTurn /\ budget[t] = NoRun /\ controller[t] = "none"
  BY DEF Init
<1>3. log \in Seq(Entry) /\ DOMAIN log = {}
  <2> HIDE DEF Entry
  <2> QED
    BY DEF Init
<1>4. IsFiniteSet({}) /\ Cardinality({}) = 0
  BY FS_EmptySet
<1>5. TypeOK
  <2>1. turn \in [Turns -> Turn] /\ budget \in [Turns -> Run]
    BY <1>1 DEF Init
  <2>2. controller \in [Turns -> {"none", "waiting", "sent", "read", "dropped", "discarded", "closed"}]
    BY DEF Init
  <2>3. stopper \in [at : {"idle", "look", "wait", "take", "done"}, permit : BOOLEAN, told : SUBSET Turns]
    BY DEF Init
  <2>4. Cardinality(jobs) <= MaxInFlight /\ Cardinality(detached) <= MaxDetached
    BY <1>4, BoundsAssumption DEF Init
  <2>5. lifecycle \in {"constructed", "running", "stopping", "stopped"} /\ jobs \in SUBSET Turns
        /\ detached \in SUBSET Turns /\ holder \in Turns \cup {Nobody} /\ sick \in BOOLEAN
        /\ checkpoint \in {"claimed", "ready"}
    BY DEF Init
  <2> QED
    BY <1>3, <2>1, <2>2, <2>3, <2>4, <2>5 DEF TypeOK
<1>6. Finite /\ Stopping
  BY <1>4 DEF Init, Finite, Stopping
<1>7. ASSUME NEW t \in Turns PROVE Placed(t)
  <2>1. turn[t] = NewTurn /\ budget[t] = NoRun /\ jobs = {} /\ holder # t
    BY <1>2, NobodyAssumption DEF Init
  <2>2. Committed(t) = {}
    BY <1>3 DEF Committed
  <2>3. Stage(t) /\ Running(t) /\ Leasing(t)
    BY <2>1 DEF NewTurn, Stage, Early, Open, Shut, After, Late, Running, Leasing, Leased
  <2>4. Judged(t) /\ Recorded(t) /\ Alone(t)
    BY <2>1 DEF NewTurn, Judged, Shut, Recorded, Alone
  <2>5. Wrote(t)
    BY <2>2 DEF Wrote
  <2> QED
    BY <2>3, <2>4, <2>5 DEF Placed
<1>8. FailureKept
  BY <1>2 DEF FailureKept, At, NewTurn
<1>9. Logged /\ Ready
  BY <1>3 DEF Logged, EnvelopeOrdered, BoundaryKept, Ending, Ready, Init
<1> QED
  BY <1>5, <1>6, <1>7, <1>8, <1>9 DEF Inv

-----------------------------------------------------------------------------
(***************************************************************************)
(* What an append does to the events of a turn.                            *)
(***************************************************************************)
LEMMA Here ==
  ASSUME Inv, NEW t \in Turns
  PROVE  /\ turn[t] \in Turn /\ budget[t] \in Run /\ controller[t] \in Channels
         /\ Stage(t) /\ Judged(t) /\ Running(t) /\ Leasing(t)
         /\ Wrote(t) /\ Recorded(t) /\ Alone(t)
         /\ holder \in Turns \cup {Nobody} /\ t # Nobody /\ sick \in BOOLEAN
         /\ turn \in [Turns -> Turn] /\ budget \in [Turns -> Run] /\ controller \in [Turns -> Channels]
BY NobodyAssumption DEF Inv, TypeOK, Placed, Channels

\* A turn with one field of another value.
LEMMA Updates ==
  ASSUME NEW r \in Turn
  PROVE  /\ \A v \in Awaits \cup {"idle", "gone"} : [r EXCEPT !.at = v] \in Turn
         /\ \A v \in {"none", "caller", "runtime"} : [r EXCEPT !.cancel = v] \in Turn
         /\ \A v \in BOOLEAN : [r EXCEPT !.foreign = v] \in Turn
         /\ \A v \in SUBSET Capabilities : [r EXCEPT !.bound = v] \in Turn
         /\ \A v \in SUBSET Capabilities : [r EXCEPT !.busy = v] \in Turn
         /\ \A v \in SUBSET Capabilities : [r EXCEPT !.broken = v] \in Turn
         /\ \A v \in Dispositions : [r EXCEPT !.intent = v] \in Turn
         /\ \A v \in Dispositions \cup {"budget"} : [r EXCEPT !.says = v] \in Turn
         /\ \A v \in Dispositions \cup {"none", "started"} : [r EXCEPT !.hooks = v] \in Turn
         /\ \A v \in Receipts : [r EXCEPT !.message = v] \in Turn
         /\ \A v \in Receipts : [r EXCEPT !.report = v] \in Turn
         /\ \A v \in Receipts : [r EXCEPT !.terminal = v] \in Turn
         /\ \A v \in Outcomes : [r EXCEPT !.outcome = v] \in Turn
<1>1. \A v \in Awaits \cup {"idle", "gone"} : [r EXCEPT !.at = v] \in Turn
  BY DEF Turn
<1>2. \A v \in {"none", "caller", "runtime"} : [r EXCEPT !.cancel = v] \in Turn
  BY DEF Turn
<1>3. \A v \in BOOLEAN : [r EXCEPT !.foreign = v] \in Turn
  BY DEF Turn
<1>4. \A v \in SUBSET Capabilities : [r EXCEPT !.bound = v] \in Turn
  BY DEF Turn
<1>5. \A v \in SUBSET Capabilities : [r EXCEPT !.busy = v] \in Turn
  BY DEF Turn
<1>6. \A v \in SUBSET Capabilities : [r EXCEPT !.broken = v] \in Turn
  BY DEF Turn
<1>7. \A v \in Dispositions : [r EXCEPT !.intent = v] \in Turn
  BY DEF Turn
<1>8. \A v \in Dispositions \cup {"budget"} : [r EXCEPT !.says = v] \in Turn
  BY DEF Turn
<1>9. \A v \in Dispositions \cup {"none", "started"} : [r EXCEPT !.hooks = v] \in Turn
  BY DEF Turn
<1>10. \A v \in Receipts : [r EXCEPT !.message = v] \in Turn
  BY DEF Turn
<1>11. \A v \in Receipts : [r EXCEPT !.report = v] \in Turn
  BY DEF Turn
<1>12. \A v \in Receipts : [r EXCEPT !.terminal = v] \in Turn
  BY DEF Turn
<1>13. \A v \in Outcomes : [r EXCEPT !.outcome = v] \in Turn
  BY DEF Turn
<1> QED
  BY <1>1, <1>2, <1>3, <1>4, <1>5, <1>6, <1>7, <1>8, <1>9, <1>10, <1>11, <1>12, <1>13

\* A step that records nothing.
LEMMA Unwritten ==
  ASSUME NEW t \in Turns, log' = log
  PROVE  Adds(t) /\ Committed(t)' = Committed(t)
BY DEF Adds, Committed

\* Write records at most the event it is given, and does if it answers so.
LEMMA Written ==
  ASSUME Inv, NEW t \in Turns, NEW e, Follows(t, e), turn[t].at # "boundary",
         ~turn[t].foreign => holder = t, NEW r, Write(t, e, r)
  PROVE  /\ Adds(t) /\ sick' \in BOOLEAN
         /\ turn[t].foreign => log' = log
         /\ r = "ok" /\ ~turn[t].foreign => log' = Append(log, e)
         /\ \A i \in Committed(t)' : (i \in Committed(t) /\ log'[i] = log[i])
                                     \/ (~turn[t].foreign /\ log'[i] = e)
<1>1. sick' \in BOOLEAN /\ (turn[t].foreign => log' = log)
      /\ (r = "ok" /\ ~turn[t].foreign => log' = Append(log, e))
  BY Here DEF Write
<1>2. log' = log \/ (~turn[t].foreign /\ log' = Append(log, e))
  BY DEF Write
<1>3. Adds(t)
  BY <1>2 DEF Adds
<1>4. CASE log' = log
  BY <1>1, <1>3, <1>4 DEF Committed
<1>5. CASE ~turn[t].foreign /\ log' = Append(log, e)
  <2>1. e \in Entry /\ log \in Seq(Entry)
    BY DEF Follows, Inv, TypeOK
  <2>2. DOMAIN log' = DOMAIN log \cup {Len(log) + 1} /\ log'[Len(log) + 1] = e
        /\ \A i \in DOMAIN log : log'[i] = log[i]
    <3> HIDE DEF Entry
    <3> QED
      BY <1>5, <2>1, Appended
  <2> QED
    BY <1>1, <1>3, <1>5, <2>2 DEF Committed
<1> QED
  BY <1>2, <1>4, <1>5

\* A run that finishes or is abandoned consumes nothing more.
LEMMA RunEnds ==
  ASSUME Inv, NEW t \in Turns
  PROVE  /\ Finished(t) \in Run /\ Finished(t).run \in {"finished", "abandoned"}
         /\ budget[t].stopped => Finished(t).stopped
         /\ Abandoned(t) \in Run /\ Abandoned(t).run = "abandoned"
         /\ budget[t].stopped => Abandoned(t).stopped
BY Here DEF Finished, Abandoned, Run

\* A step of a driver at work, or of a call it has left.
LEMMA Keeps ==
  ASSUME Inv, NEW t \in Turns, Frame(t), Adds(t), Placed(t)',
         UNCHANGED <<control, controller, checkpoint>>,
         holder' = t => holder = t \/ Committed(t) = {},
         turn[t].at \notin Late \/ turn[t].busy # {},
         turn'[t].at = "gone" => turn[t].at = "gone" /\ turn'[t].outcome = turn[t].outcome
  PROVE  Inv'
BY TableStays DEF Rests, Gone, Incomplete

-----------------------------------------------------------------------------
(***************************************************************************)
(* Admission.                                                              *)
(***************************************************************************)
LEMMA NotAdmittedKeeps ==
  ASSUME Inv, NEW t \in Turns, NotAdmitted(t)
  PROVE  Inv'
<1> DEFINE next == [turn[t] EXCEPT !.at = "finalize",
                                   !.outcome = IF budget[t].sealed THEN "budget" ELSE "refused"]
<1> DEFINE run == Finished(t)
<1>1. turn[t].at = "begin" /\ turn' = [turn EXCEPT ![t] = next] /\ budget' = [budget EXCEPT ![t] = run]
      /\ log' = log /\ holder' = holder /\ sick' = sick /\ checkpoint' = checkpoint
      /\ controller' = controller /\ UNCHANGED control
  BY Here DEF NotAdmitted, At, session
<1>2. next \in Turn /\ run \in Run /\ run.run \in {"finished", "abandoned"}
      /\ (budget[t].stopped => run.stopped)
  <2>1. [turn[t] EXCEPT !.at = "finalize"] \in Turn
    BY Here, Updates DEF Awaits
  <2>2. next \in Turn
    BY <2>1, Updates DEF Outcomes
  <2> QED
    BY <2>2, RunEnds
<1>3. /\ next.at = "finalize"
      /\ next.outcome = IF budget[t].sealed THEN "budget" ELSE "refused"
      /\ next.cancel = turn[t].cancel /\ next.foreign = turn[t].foreign
      /\ next.bound = turn[t].bound /\ next.busy = turn[t].busy
      /\ next.broken = turn[t].broken /\ next.intent = turn[t].intent
      /\ next.message = turn[t].message /\ next.report = turn[t].report
      /\ next.terminal = turn[t].terminal
  BY Here DEF Turn
<1> HIDE DEF next, run
<1>4. turn'[t] = next /\ budget'[t] = run
  BY <1>1, Here
<1>5. Frame(t)
  BY <1>1, <1>2, Here DEF Frame, control
<1>6. Adds(t) /\ Committed(t)' = Committed(t)
  BY <1>1, Unwritten
<1>7. Stage(t)' /\ Judged(t)' /\ Running(t)' /\ Leasing(t)'
  BY <1>1, <1>2, <1>3, <1>4, Here
     DEF Stage, Judged, Running, Leasing, Early, Open, Shut, Late, After, Leased, control
<1>8. Wrote(t)' /\ Recorded(t)' /\ Alone(t)'
  BY <1>1, <1>3, <1>4, <1>6, Here DEF Stage, Wrote, Recorded, Leasing, Alone, Early, Leased, Open, Shut
<1> QED
  BY <1>1, <1>3, <1>4, <1>5, <1>6, <1>7, <1>8, Keeps DEF Placed, Late

\* begin answers with a lease, whose boundary is the claimed one or another.
LEMMA AdmitKeeps ==
  ASSUME Inv, NEW t \in Turns, Admit(t)
  PROVE  Inv'
<1>1. turn[t].at = "begin" /\ log' = log /\ sick' = sick /\ checkpoint' = checkpoint
      /\ controller' = controller /\ UNCHANGED control
  BY DEF Admit, At
<1>2. Adds(t) /\ Committed(t)' = Committed(t) /\ Committed(t) = {}
  BY <1>1, Unwritten, Here DEF Wrote, Early
<1>3. ~turn[t].foreign /\ turn[t].bound = {} /\ turn[t].busy = {} /\ turn[t].report = "none"
      /\ budget[t].run = "open" /\ holder # t /\ t \in jobs /\ turn[t].outcome # "ok"
      /\ turn[t].outcome # "unwound"
  BY <1>1, Here DEF Stage, Running, Leasing, Judged, Early, Leased, Open, Shut, After, Late
<1>4. ASSUME NEW place \in {"boundary", "user"}, NEW mark \in {"none", "started"},
             place = "user" => Verified(t), holder' = t, budget' = budget,
             turn' = [turn EXCEPT ![t].at = place, ![t].hooks = mark], holder = Nobody
      PROVE  Inv'
  <2> DEFINE next == [turn[t] EXCEPT !.at = place, !.hooks = mark]
  <2>1. turn' = [turn EXCEPT ![t] = next]
    BY <1>4, Here
  <2>2. next \in Turn
    <3>1. [turn[t] EXCEPT !.at = place] \in Turn
      BY Here, Updates DEF Awaits
    <3> QED
      BY <3>1, Updates
  <2>3. /\ next.at = place
        /\ next.cancel = turn[t].cancel /\ next.foreign = turn[t].foreign
        /\ next.bound = turn[t].bound /\ next.busy = turn[t].busy
        /\ next.broken = turn[t].broken /\ next.intent = turn[t].intent
        /\ next.message = turn[t].message /\ next.report = turn[t].report
        /\ next.terminal = turn[t].terminal /\ next.outcome = turn[t].outcome
    BY Here DEF Turn
  <2> HIDE DEF next
  <2>4. turn'[t] = next
    BY <2>1, Here
  <2>5. Frame(t)
    BY <1>1, <1>4, <2>1, <2>2, Here DEF Frame, control
  <2>6. Stage(t)' /\ Judged(t)' /\ Running(t)' /\ Leasing(t)'
    BY <1>1, <1>3, <1>4, <2>3, <2>4, Here
       DEF Stage, Judged, Running, Leasing, Early, Open, Shut, Late, After, Leased, control
  <2>7. Alone(t)'
    BY <1>1, <1>4, <2>3, <2>4 DEF Alone, Verified
  <2>8. Wrote(t)' /\ Recorded(t)'
    BY <1>2, <1>3, <2>3, <2>4 DEF Wrote, Recorded
  <2> QED
    BY <1>1, <1>2, <1>4, <2>3, <2>4, <2>5, <2>6, <2>7, <2>8, Keeps DEF Placed, Late
<1>5. ASSUME NEW place \in {"boundary", "user"}, NEW next \in Turn,
             /\ next.at = place
             /\ next.foreign = TRUE
             /\ next.cancel = turn[t].cancel /\ next.bound = turn[t].bound
             /\ next.busy = turn[t].busy /\ next.broken = turn[t].broken
             /\ next.intent = turn[t].intent /\ next.message = turn[t].message
             /\ next.report = turn[t].report /\ next.terminal = turn[t].terminal
             /\ next.outcome = turn[t].outcome,
             turn' = [turn EXCEPT ![t] = next],
             holder' = holder, budget' = [budget EXCEPT ![t].stopped = TRUE]
      PROVE  Inv'
  <2>1. [budget[t] EXCEPT !.stopped = TRUE] \in Run /\ [budget[t] EXCEPT !.stopped = TRUE].run = "open"
        /\ [budget[t] EXCEPT !.stopped = TRUE].stopped
    BY <1>3, Here DEF Run
  <2>2. turn'[t] = next /\ budget' = [budget EXCEPT ![t] = [budget[t] EXCEPT !.stopped = TRUE]]
    BY <1>5, Here
  <2>3. budget'[t].run = "open" /\ budget'[t].stopped /\ budget' \in [Turns -> Run]
    BY <2>1, <2>2, Here
  <2>4. Frame(t)
    BY <1>1, <1>5, <2>2, <2>3, Here DEF Frame, control
  <2>5. Stage(t)' /\ Judged(t)' /\ Running(t)' /\ Leasing(t)'
    BY <1>1, <1>3, <1>5, <2>2, <2>3, Here
       DEF Stage, Judged, Running, Leasing, Early, Open, Shut, Late, After, Leased, control
  <2>6. Alone(t)'
    BY <1>3, <1>5 DEF Alone
  <2>7. Wrote(t)' /\ Recorded(t)'
    BY <1>2, <1>3, <1>5, <2>2 DEF Wrote, Recorded
  <2> QED
    BY <1>1, <1>2, <1>3, <1>5, <2>2, <2>4, <2>5, <2>6, <2>7, Keeps DEF Placed, Late
<1>6. CASE holder = Nobody /\ holder' = t /\ budget' = budget
           /\ turn' = [turn EXCEPT ![t].at = IF Verified(t) THEN "user" ELSE "boundary",
                                   ![t].hooks = IF Verified(t) THEN "started" ELSE "none"]
  BY <1>6, <1>4
<1>7. CASE /\ \/ turn' = [turn EXCEPT ![t].at = "user", ![t].hooks = "started", ![t].foreign = TRUE]
              \/ turn' = [turn EXCEPT ![t].at = "boundary", ![t].foreign = TRUE]
           /\ budget' = [budget EXCEPT ![t].stopped = TRUE] /\ holder' = holder
  <2>1. CASE turn' = [turn EXCEPT ![t].at = "user", ![t].hooks = "started", ![t].foreign = TRUE]
    <3> DEFINE next == [turn[t] EXCEPT !.at = "user", !.hooks = "started", !.foreign = TRUE]
    <3>1. turn' = [turn EXCEPT ![t] = next]
      BY <2>1, Here
    <3>2. [turn[t] EXCEPT !.at = "user"] \in Turn
      BY Here, Updates DEF Awaits
    <3>3. [turn[t] EXCEPT !.at = "user", !.hooks = "started"] \in Turn
      BY <3>2, Updates
    <3>4. next \in Turn
      BY <3>3, Updates
    <3>5. /\ next.at = "user"
          /\ next.foreign = TRUE
          /\ next.cancel = turn[t].cancel /\ next.bound = turn[t].bound
          /\ next.busy = turn[t].busy /\ next.broken = turn[t].broken
          /\ next.intent = turn[t].intent /\ next.message = turn[t].message
          /\ next.report = turn[t].report /\ next.terminal = turn[t].terminal
          /\ next.outcome = turn[t].outcome
      BY Here DEF Turn
    <3> HIDE DEF next
    <3> QED
      BY <1>5, <1>7, <3>1, <3>4, <3>5
  <2>2. CASE turn' = [turn EXCEPT ![t].at = "boundary", ![t].foreign = TRUE]
    <3> DEFINE next == [turn[t] EXCEPT !.at = "boundary", !.foreign = TRUE]
    <3>1. turn' = [turn EXCEPT ![t] = next]
      BY <2>2, Here
    <3>2. [turn[t] EXCEPT !.at = "boundary"] \in Turn
      BY Here, Updates DEF Awaits
    <3>3. next \in Turn
      BY <3>2, Updates
    <3>4. /\ next.at = "boundary"
          /\ next.foreign = TRUE
          /\ next.cancel = turn[t].cancel /\ next.bound = turn[t].bound
          /\ next.busy = turn[t].busy /\ next.broken = turn[t].broken
          /\ next.intent = turn[t].intent /\ next.message = turn[t].message
          /\ next.report = turn[t].report /\ next.terminal = turn[t].terminal
          /\ next.outcome = turn[t].outcome
      BY Here DEF Turn
    <3> HIDE DEF next
    <3> QED
      BY <1>5, <1>7, <3>1, <3>3, <3>4
  <2> QED
    BY <1>7, <2>1, <2>2
<1> QED
  BY <1>6, <1>7 DEF Admit

\* The lease of a turn that found another boundary goes back.
LEMMA SettleBoundaryKeeps ==
  ASSUME Inv, NEW t \in Turns, SettleBoundary(t)
  PROVE  Inv'
<1> DEFINE next == [turn[t] EXCEPT !.at = "finalize", !.outcome = "recovery"]
<1> DEFINE run == Finished(t)
<1>1. /\ turn[t].at = "boundary" /\ holder' = IF holder = t THEN Nobody ELSE holder
      /\ turn' = [turn EXCEPT ![t] = next] /\ budget' = [budget EXCEPT ![t] = run]
      /\ log' = log /\ sick' = sick /\ checkpoint' = checkpoint
      /\ controller' = controller /\ UNCHANGED control
  BY Here DEF SettleBoundary, Release, At
<1>2. next \in Turn /\ run \in Run /\ run.run \in {"finished", "abandoned"}
      /\ (budget[t].stopped => run.stopped)
  <2>1. [turn[t] EXCEPT !.at = "finalize"] \in Turn
    BY Here, Updates DEF Awaits
  <2>2. next \in Turn
    BY <2>1, Updates DEF Outcomes
  <2> QED
    BY <2>2, RunEnds
<1>3. /\ next.at = "finalize"
      /\ next.outcome = "recovery"
      /\ next.cancel = turn[t].cancel /\ next.foreign = turn[t].foreign
      /\ next.bound = turn[t].bound /\ next.busy = turn[t].busy
      /\ next.broken = turn[t].broken /\ next.intent = turn[t].intent
      /\ next.message = turn[t].message /\ next.report = turn[t].report
      /\ next.terminal = turn[t].terminal
  BY Here DEF Turn
<1> HIDE DEF next, run
<1>4. turn'[t] = next /\ budget'[t] = run /\ holder' # t
  BY <1>1, Here
<1>5. Frame(t)
  BY <1>1, <1>2, Here, NobodyAssumption DEF Frame, control
<1>6. Adds(t) /\ Committed(t)' = Committed(t)
  BY <1>1, Unwritten
<1>7. Stage(t)' /\ Judged(t)' /\ Running(t)' /\ Leasing(t)'
  BY <1>1, <1>2, <1>3, <1>4, Here
     DEF Stage, Judged, Running, Leasing, Early, Open, Shut, Late, After, Leased, control
<1>8. Wrote(t)' /\ Recorded(t)' /\ Alone(t)'
  BY <1>1, <1>3, <1>4, <1>6, Here DEF Stage, Wrote, Recorded, Alone, Early
<1> QED
  BY <1>1, <1>3, <1>4, <1>5, <1>6, <1>7, <1>8, Keeps DEF Placed, Late

\* The table has room for the turn.
LEMMA StartTurnKeeps ==
  ASSUME Inv, NEW t \in Turns, StartTurn(t)
  PROVE  Inv'
<1> DEFINE next == [turn[t] EXCEPT !.at = "begin"]
<1> DEFINE run == [budget[t] EXCEPT !.run = "open"]
<1>1. /\ turn[t].at = "idle" /\ lifecycle = "running" /\ Cardinality(jobs) < MaxInFlight
      /\ turn' = [turn EXCEPT ![t] = next] /\ budget' = [budget EXCEPT ![t] = run]
      /\ controller' = [controller EXCEPT ![t] = "waiting"]
      /\ jobs' = jobs \cup {t} /\ UNCHANGED <<lifecycle, detached, stopper, log, holder, sick, checkpoint>>
  BY Here DEF StartTurn, At, session
<1>2. next \in Turn /\ run \in Run /\ run.run = "open"
  <2>1. next \in Turn
    BY Here, Updates DEF Awaits
  <2> QED
    BY <2>1, Here DEF Run
<1>3. /\ next.at = "begin"
      /\ next.cancel = turn[t].cancel /\ next.foreign = turn[t].foreign
      /\ next.bound = turn[t].bound /\ next.busy = turn[t].busy
      /\ next.broken = turn[t].broken /\ next.intent = turn[t].intent
      /\ next.message = turn[t].message /\ next.report = turn[t].report
      /\ next.terminal = turn[t].terminal /\ next.outcome = turn[t].outcome
  BY Here DEF Turn
<1> HIDE DEF next, run
<1>4. turn'[t] = next /\ budget'[t] = run
  BY <1>1, Here
<1>5. Frame(t)
  BY <1>1, <1>2, Here DEF Frame, Channels
<1>6. Adds(t) /\ Committed(t)' = Committed(t)
  BY <1>1, Unwritten
<1>7. Stage(t)' /\ Judged(t)' /\ Running(t)' /\ Leasing(t)'
  BY <1>1, <1>2, <1>3, <1>4, Here
     DEF Stage, Judged, Running, Leasing, Early, Open, Shut, Late, After, Leased
<1>8. Wrote(t)' /\ Recorded(t)' /\ Alone(t)'
  BY <1>1, <1>3, <1>4, <1>6, Here DEF Judged, Wrote, Recorded, Alone, Leasing, Leased, Stage, Early,
     Open, Shut, After, Late
<1>9. Logged' /\ log' \in Seq(Entry)
  BY <1>1, <1>6, LogKept
<1>10. IsFiniteSet(jobs') /\ Cardinality(jobs') <= MaxInFlight
  <2>1. t \notin jobs /\ IsFiniteSet(jobs)
    BY <1>1, Here DEF Stage, Inv, Finite
  <2>2. IsFiniteSet(jobs \cup {t}) /\ Cardinality(jobs \cup {t}) = Cardinality(jobs) + 1
    BY <2>1, FS_AddElement
  <2>3. Cardinality(jobs) \in Nat
    BY <2>1, FS_CardinalityType
  <2> QED
    BY <1>1, <2>2, <2>3, BoundsAssumption
<1>11. TypeOK'
  BY <1>1, <1>5, <1>9, <1>10 DEF Inv, TypeOK, Frame, Channels
<1>12. Finite' /\ Stopping'
  BY <1>1, <1>10 DEF Inv, Finite, Stopping
<1>13. FailureKept'
  <2> SUFFICES ASSUME NEW s \in Turns, Gone(s)' PROVE Told(s)'
    BY DEF FailureKept, Gone, Told, At
  <2>1. s # t
    BY <1>3, <1>4 DEF Gone
  <2>2. Gone(s) /\ controller'[s] = controller[s]
    BY <1>5, <2>1 DEF Frame, Gone, Incomplete
  <2>3. Told(s)
    BY <2>2 DEF Inv, FailureKept, Gone, Told, At
  <2> QED
    BY <1>1, <2>2, <2>3 DEF Told
<1>14. \A s \in Turns : Placed(s)'
  BY <1>5, <1>6, <1>7, <1>8, Others DEF Placed
<1>15. Rests(t)
  BY <1>1 DEF Rests, Late
<1>16. Ready'
  BY <1>1, <1>5, <1>6, <1>15, ReadyKept
<1> QED
  BY <1>9, <1>11, <1>12, <1>13, <1>14, <1>16 DEF Inv

-----------------------------------------------------------------------------
(***************************************************************************)
(* The body.                                                               *)
(***************************************************************************)
LEMMA EventTypes ==
  ASSUME NEW t \in Turns, NEW kind \in {"user", "work", "message", "report", "terminal"}
  PROVE  Event(t, kind) \in Entry /\ Event(t, kind).turn = t /\ Event(t, kind).kind = kind
BY DEF Event, Entry

\* A budget that has stopped overrules what the turn was up to.
LEMMA ResolvedIntent ==
  ASSUME Inv, NEW t \in Turns, NEW d \in Dispositions
  PROVE  /\ Resolved(t, d) \in Dispositions
         /\ budget[t].stopped \/ d = "failed" => Resolved(t, d) = "failed"
BY DEF Resolved, Active, Dispositions

\* Who has the lease of an empty log, and is not refused, has it to itself.
LEMMA AloneKept ==
  ASSUME Inv, NEW t \in Turns, Adds(t), turn[t].at # "boundary", holder' = t => holder = t
  PROVE  Alone(t)'
<1> SUFFICES ASSUME t \in Durable, holder = t, NEW i \in DOMAIN log' PROVE log'[i].turn = t
  BY DEF Alone
<1>1. \A j \in DOMAIN log : log[j].turn = t
  BY Here DEF Alone
<1>2. ASSUME NEW e, Follows(t, e), log' = Append(log, e) PROVE log'[i].turn = t
  <2>1. e \in Entry /\ e.turn = t /\ log \in Seq(Entry)
    BY <1>2 DEF Follows, Inv, TypeOK
  <2> HIDE DEF Entry
  <2>2. DOMAIN log' = DOMAIN log \cup {Len(log) + 1} /\ log'[Len(log) + 1] = e
        /\ \A j \in DOMAIN log : log'[j] = log[j]
    BY <1>2, <2>1, Appended
  <2> QED
    BY <1>1, <2>1, <2>2
<1> QED
  BY <1>1, <1>2 DEF Adds

\* The start hooks and the first event of the turn.
LEMMA RecordUserKeeps ==
  ASSUME Inv, NEW t \in Turns, RecordUser(t)
  PROVE  Inv'
<1>1. turn[t].at = "user" /\ checkpoint' = checkpoint /\ holder' = holder
      /\ controller' = controller /\ budget' = budget /\ UNCHANGED control
  BY DEF RecordUser, At
<1>2. /\ turn[t].bound = {} /\ turn[t].busy = {} /\ Committed(t) = {} /\ turn[t].outcome # "ok"
      /\ turn[t].outcome # "unwound" /\ (~turn[t].foreign <=> holder = t)
      /\ (turn[t].foreign => budget[t].stopped) /\ budget[t].run = "open"
  BY <1>1, Here DEF Stage, Wrote, Judged, Leasing, Running, Early, Leased, After, Late
<1>3. Follows(t, Event(t, "user"))
  BY <1>2, EventTypes DEF Follows
<1>4. /\ Adds(t) /\ sick' \in BOOLEAN
      /\ \A i \in Committed(t)' : ~turn[t].foreign /\ log'[i] = Event(t, "user")
  <2>1. PICK r \in Receipts \ {"none"} :
          IF turn[t].foreign THEN r = "ok" /\ UNCHANGED <<log, sick>> ELSE Write(t, Event(t, "user"), r)
    BY DEF RecordUser
  <2>2. CASE turn[t].foreign
    BY <1>2, <2>1, <2>2, Unwritten, Here
  <2>3. CASE ~turn[t].foreign
    BY <1>1, <1>2, <1>3, <2>1, <2>3, Written
  <2> QED
    BY <2>2, <2>3
<1>5. ASSUME NEW place \in {"models", "body"}, NEW caps \in SUBSET Capabilities, NEW d, NEW next \in Turn,
             /\ next.at = place
             /\ next.bound = caps
             /\ next.intent = d
             /\ next.cancel = turn[t].cancel /\ next.foreign = turn[t].foreign
             /\ next.busy = turn[t].busy /\ next.broken = turn[t].broken
             /\ next.message = turn[t].message /\ next.report = turn[t].report
             /\ next.terminal = turn[t].terminal /\ next.outcome = turn[t].outcome,
             turn' = [turn EXCEPT ![t] = next],
             place = "models" => d \in Dispositions,
             turn[t].foreign => place = "models" /\ d = "failed" /\ caps = {}
      PROVE  Inv'
  <2>1. turn'[t] = next
    BY <1>5, Here
  <2>2. Frame(t)
    BY <1>1, <1>4, <1>5, Here DEF Frame, control
  <2>3. Stage(t)' /\ Judged(t)' /\ Running(t)' /\ Leasing(t)'
    BY <1>1, <1>2, <1>5, <2>1, Here
       DEF Stage, Judged, Running, Leasing, Early, Open, Shut, Late, After, Leased, control
  <2>4. Wrote(t)' /\ Recorded(t)'
    BY <1>2, <1>4, <1>5, <2>1, EventTypes DEF Wrote, Recorded, Early
  <2>5. Alone(t)'
    BY <1>1, <1>4, AloneKept
  <2> QED
    BY <1>1, <1>4, <1>5, <2>1, <2>2, <2>3, <2>4, <2>5, Keeps DEF Placed, Late
<1>6. ASSUME NEW d \in Dispositions, NEW caps \in SUBSET Capabilities,
             turn' = [turn EXCEPT ![t].at = "models", ![t].intent = d, ![t].bound = caps],
             turn[t].foreign => d = "failed" /\ caps = {}
      PROVE  Inv'
  <2> DEFINE next == [turn[t] EXCEPT !.at = "models", !.intent = d, !.bound = caps]
  <2>1. turn' = [turn EXCEPT ![t] = next]
    BY <1>6, Here
  <2>2. [turn[t] EXCEPT !.at = "models"] \in Turn
    BY Here, Updates DEF Awaits
  <2>3. [turn[t] EXCEPT !.at = "models", !.intent = d] \in Turn
    BY <2>2, Updates
  <2>4. next \in Turn
    BY <2>3, Updates
  <2>5. /\ next.at = "models"
        /\ next.bound = caps
        /\ next.intent = d
        /\ next.cancel = turn[t].cancel /\ next.foreign = turn[t].foreign
        /\ next.busy = turn[t].busy /\ next.broken = turn[t].broken
        /\ next.message = turn[t].message /\ next.report = turn[t].report
        /\ next.terminal = turn[t].terminal /\ next.outcome = turn[t].outcome
    BY Here DEF Turn
  <2> HIDE DEF next
  <2> QED
    BY <1>5, <1>6, <2>1, <2>4, <2>5
<1>7. ASSUME NEW d \in Dispositions, turn' = [turn EXCEPT ![t].at = "models", ![t].intent = d],
             turn[t].foreign => d = "failed"
      PROVE  Inv'
  <2> DEFINE next == [turn[t] EXCEPT !.at = "models", !.intent = d]
  <2>1. turn' = [turn EXCEPT ![t] = next]
    BY <1>7, Here
  <2>2. [turn[t] EXCEPT !.at = "models"] \in Turn
    BY Here, Updates DEF Awaits
  <2>3. next \in Turn
    BY <2>2, Updates
  <2>4. /\ next.at = "models"
        /\ next.bound = turn[t].bound
        /\ next.intent = d
        /\ next.cancel = turn[t].cancel /\ next.foreign = turn[t].foreign
        /\ next.busy = turn[t].busy /\ next.broken = turn[t].broken
        /\ next.message = turn[t].message /\ next.report = turn[t].report
        /\ next.terminal = turn[t].terminal /\ next.outcome = turn[t].outcome
    BY Here DEF Turn
  <2>5. turn[t].bound \in SUBSET Capabilities /\ (turn[t].foreign => turn[t].bound = {})
    BY <1>2
  <2> HIDE DEF next
  <2> QED
    BY <1>5, <1>7, <2>1, <2>3, <2>4, <2>5
<1>8. ASSUME ~Signalled(t), turn' = [turn EXCEPT ![t].at = "body", ![t].bound = Capabilities]
      PROVE  Inv'
  <2> DEFINE next == [turn[t] EXCEPT !.at = "body", !.bound = Capabilities]
  <2>1. turn' = [turn EXCEPT ![t] = next]
    BY <1>8, Here
  <2>2. [turn[t] EXCEPT !.at = "body"] \in Turn
    BY Here, Updates DEF Awaits
  <2>3. next \in Turn
    BY <2>2, Updates
  <2>4. /\ next.at = "body"
        /\ next.bound = Capabilities
        /\ next.intent = turn[t].intent
        /\ next.cancel = turn[t].cancel /\ next.foreign = turn[t].foreign
        /\ next.busy = turn[t].busy /\ next.broken = turn[t].broken
        /\ next.message = turn[t].message /\ next.report = turn[t].report
        /\ next.terminal = turn[t].terminal /\ next.outcome = turn[t].outcome
    BY Here DEF Turn
  <2>5. ~turn[t].foreign
    BY <1>2, <1>8 DEF Signalled, Active
  <2> HIDE DEF next
  <2> QED
    BY <1>5, <2>1, <2>3, <2>4, <2>5
<1>9. \/ turn' = [turn EXCEPT ![t].at = "models", ![t].intent = "failed"]
      \/ turn' = [turn EXCEPT ![t].at = "models", ![t].intent = Resolved(t, "completed")]
      \/ ~Signalled(t) /\ turn' = [turn EXCEPT ![t].at = "body", ![t].bound = Capabilities]
      \/ ~Signalled(t) /\ \E caps \in SUBSET Capabilities :
           turn' = [turn EXCEPT ![t].at = "models", ![t].intent = "failed", ![t].bound = caps]
  BY DEF RecordUser
<1>10. "failed" \in Dispositions /\ "completed" \in Dispositions
  BY DEF Dispositions
<1>11. Resolved(t, "completed") \in Dispositions
       /\ (turn[t].foreign => Resolved(t, "completed") = "failed")
  BY <1>2, <1>10, ResolvedIntent
<1>12. ~Signalled(t) => ~turn[t].foreign
  BY <1>2 DEF Signalled, Active
<1>13. CASE turn' = [turn EXCEPT ![t].at = "models", ![t].intent = "failed"]
  BY <1>7, <1>10, <1>13
<1>14. CASE turn' = [turn EXCEPT ![t].at = "models", ![t].intent = Resolved(t, "completed")]
  BY <1>7, <1>11, <1>14
<1>15. CASE ~Signalled(t) /\ \E caps \in SUBSET Capabilities :
         turn' = [turn EXCEPT ![t].at = "models", ![t].intent = "failed", ![t].bound = caps]
  BY <1>6, <1>10, <1>12, <1>15
<1> QED
  BY <1>8, <1>9, <1>13, <1>14, <1>15

\* The agent emits an event.
LEMMA EmitKeeps ==
  ASSUME Inv, NEW t \in Turns, Emit(t)
  PROVE  Inv'
<1>1. turn[t].at = "body" /\ turn' = turn /\ budget' = budget /\ checkpoint' = checkpoint
      /\ holder' = holder /\ controller' = controller /\ UNCHANGED control
  BY DEF Emit, At
<1>2. \A i \in Committed(t) : log[i].kind \in {"user", "work"}
  BY <1>1, Here DEF Wrote, Open
<1>3. Follows(t, Event(t, "work"))
  BY <1>2, EventTypes DEF Follows, Rank
<1>4. ~turn[t].foreign => holder = t
  BY <1>1, Here DEF Leasing, Leased, Open
<1>5. /\ Adds(t) /\ sick' \in BOOLEAN
      /\ \A i \in Committed(t)' : (i \in Committed(t) /\ log'[i] = log[i])
                                  \/ (~turn[t].foreign /\ log'[i] = Event(t, "work"))
  BY <1>1, <1>3, <1>4, Written DEF Emit
<1>6. Frame(t)
  BY <1>1, <1>5, Here DEF Frame, control
<1>7. Stage(t)' /\ Judged(t)' /\ Running(t)' /\ Leasing(t)'
  BY <1>1, Here DEF Stage, Judged, Running, Leasing, control
<1>8. Wrote(t)'
  BY <1>1, <1>2, <1>5, EventTypes, Here DEF Wrote, Early, Open
<1>9. Recorded(t)'
  BY <1>1, Here DEF Recorded, Judged, After, Late
<1>10. Alone(t)'
  BY <1>1, <1>5, AloneKept
<1> QED
  BY <1>1, <1>5, <1>6, <1>7, <1>8, <1>9, <1>10, Keeps DEF Placed, Late

\* The agent calls a model or a tool, which records from then on.
LEMMA CallOutKeeps ==
  ASSUME Inv, NEW t \in Turns, NEW cap \in Capabilities, CallOut(t, cap)
  PROVE  Inv'
<1> DEFINE next == [turn[t] EXCEPT !.busy = @ \cup {cap}]
<1>1. /\ turn[t].at = "body" /\ cap \in turn[t].bound /\ turn' = [turn EXCEPT ![t] = next]
      /\ budget' = budget /\ log' = log /\ holder' = holder /\ sick' = sick
      /\ checkpoint' = checkpoint /\ controller' = controller /\ UNCHANGED control
  BY Here DEF CallOut, At, session
<1>2. turn[t].busy \in SUBSET Capabilities
  BY Here DEF Turn
<1>3. next \in Turn
  BY <1>2, Here, Updates
<1>4. /\ next.busy = turn[t].busy \cup {cap}
      /\ next.at = turn[t].at /\ next.cancel = turn[t].cancel
      /\ next.foreign = turn[t].foreign /\ next.bound = turn[t].bound
      /\ next.broken = turn[t].broken /\ next.intent = turn[t].intent
      /\ next.message = turn[t].message /\ next.report = turn[t].report
      /\ next.terminal = turn[t].terminal /\ next.outcome = turn[t].outcome
  BY Here DEF Turn
<1> HIDE DEF next
<1>5. turn'[t] = next
  BY <1>1, Here
<1>6. Frame(t)
  BY <1>1, <1>3, Here DEF Frame, control
<1>7. Adds(t) /\ Committed(t)' = Committed(t)
  BY <1>1, Unwritten
<1>8. Stage(t)' /\ Judged(t)' /\ Running(t)' /\ Leasing(t)'
  BY <1>1, <1>4, <1>5, Here
     DEF Stage, Judged, Running, Leasing, Early, Open, Shut, Late, After, Leased, control
<1>9. Wrote(t)' /\ Recorded(t)' /\ Alone(t)'
  BY <1>1, <1>4, <1>5, <1>7, Here DEF Judged, Wrote, Recorded, Alone, Early, Open, After, Late
<1> QED
  BY <1>1, <1>4, <1>5, <1>6, <1>7, <1>8, <1>9, Keeps DEF Placed, Late

\* A call that outlives its driver still has the lease to record with.
LEMMA RecordKeeps ==
  ASSUME Inv, NEW t \in Turns, NEW cap \in Capabilities, Record(t, cap)
  PROVE  Inv'
<1>1. PICK r \in Receipts \ {"none"} :
        /\ Write(t, Event(t, "work"), r)
        /\ turn' = [turn EXCEPT ![t].busy = @ \ {cap},
                                ![t].broken = IF r = "ok" THEN @ ELSE @ \cup {cap}]
  BY DEF Record
<1> DEFINE calls == turn[t].busy \ {cap}
<1> DEFINE failures == IF r = "ok" THEN turn[t].broken ELSE turn[t].broken \cup {cap}
<1> DEFINE next == [turn[t] EXCEPT !.busy = calls, !.broken = failures]
<1>2. /\ cap \in turn[t].busy /\ turn' = [turn EXCEPT ![t] = next] /\ budget' = budget
      /\ IF turn[t].at = "gone" /\ turn[t].busy = {cap}
         THEN holder' = IF holder = t THEN Nobody ELSE holder
         ELSE holder' = holder
      /\ checkpoint' = checkpoint /\ controller' = controller /\ UNCHANGED control
  BY <1>1, Here DEF Record, Release, At
<1>3. turn[t].at \in Open \cup {"gone"}
  BY <1>2, Here DEF Stage, Turn, Awaits, Early, Open, Shut, After, Late
<1>4. turn[t].outcome # "ok" /\ ~turn[t].foreign /\ holder = t
  BY <1>2, <1>3, Here DEF Stage, Judged, Leasing
<1>5. calls \in SUBSET Capabilities /\ failures \in SUBSET Capabilities
  BY Here DEF Turn
<1>6. next \in Turn
  <2>1. [turn[t] EXCEPT !.busy = calls] \in Turn
    BY <1>5, Here, Updates
  <2> QED
    BY <1>5, <2>1, Updates
<1>7. /\ next.busy = calls
      /\ next.broken = failures
      /\ next.at = turn[t].at /\ next.cancel = turn[t].cancel
      /\ next.foreign = turn[t].foreign /\ next.bound = turn[t].bound
      /\ next.intent = turn[t].intent /\ next.message = turn[t].message
      /\ next.report = turn[t].report /\ next.terminal = turn[t].terminal
      /\ next.outcome = turn[t].outcome
  BY Here DEF Turn
<1>8. calls \subseteq turn[t].busy /\ (calls = {} <=> turn[t].busy = {cap})
  BY <1>2
<1> HIDE DEF next, calls, failures
<1>9. turn'[t] = next
  BY <1>2, Here
<1>10. \A i \in Committed(t) : log[i].kind \in {"user", "work"}
  BY <1>2, Here DEF Wrote
<1>11. Follows(t, Event(t, "work"))
  BY <1>10, EventTypes DEF Follows, Rank
<1>12. turn[t].at # "boundary"
  BY <1>3 DEF Open
<1>13. /\ Adds(t) /\ sick' \in BOOLEAN
       /\ \A i \in Committed(t)' : (i \in Committed(t) /\ log'[i] = log[i])
                                   \/ (~turn[t].foreign /\ log'[i] = Event(t, "work"))
  BY <1>1, <1>4, <1>11, <1>12, Written
<1>14. Frame(t)
  BY <1>2, <1>4, <1>6, <1>13, Here, NobodyAssumption DEF Frame, control
<1>15. Stage(t)' /\ Judged(t)' /\ Running(t)'
  BY <1>2, <1>3, <1>4, <1>7, <1>8, <1>9, Here
     DEF Stage, Judged, Running, Early, Open, Shut, Late, After, control
<1>16. Leasing(t)'
  BY <1>2, <1>3, <1>4, <1>7, <1>8, <1>9, NobodyAssumption DEF Leasing, Leased, Open, Early, Shut
<1>17. Wrote(t)'
  BY <1>3, <1>4, <1>7, <1>9, <1>10, <1>13, EventTypes DEF Wrote, Early, Open
<1>18. Recorded(t)'
  BY <1>3, <1>4, <1>7, <1>9 DEF Recorded, Open
<1>19. Alone(t)'
  BY <1>4, <1>12, <1>13, AloneKept
<1> QED
  BY <1>2, <1>4, <1>7, <1>9, <1>13, <1>14, <1>15, <1>16, <1>17, <1>18, <1>19, Keeps DEF Placed

\* The agent returns, fails, or is interrupted.
LEMMA BodyEndsKeeps ==
  ASSUME Inv, NEW t \in Turns, NEW d \in Dispositions, BodyEnds(t, d)
  PROVE  Inv'
<1> DEFINE next == [turn[t] EXCEPT !.at = "models", !.intent = Resolved(t, d)]
<1>1. /\ turn[t].at = "body" /\ turn' = [turn EXCEPT ![t] = next]
      /\ budget' = budget /\ log' = log /\ holder' = holder /\ sick' = sick
      /\ checkpoint' = checkpoint /\ controller' = controller /\ UNCHANGED control
  BY Here DEF BodyEnds, At, session
<1>2. Resolved(t, d) \in Dispositions /\ (turn[t].foreign => Resolved(t, d) = "failed")
  BY ResolvedIntent, Here DEF Stage
<1>3. next \in Turn
  <2>1. [turn[t] EXCEPT !.at = "models"] \in Turn
    BY Here, Updates DEF Awaits
  <2> QED
    BY <1>2, <2>1, Updates
<1>4. /\ next.at = "models"
      /\ next.intent = Resolved(t, d)
      /\ next.cancel = turn[t].cancel /\ next.foreign = turn[t].foreign
      /\ next.bound = turn[t].bound /\ next.busy = turn[t].busy
      /\ next.broken = turn[t].broken /\ next.message = turn[t].message
      /\ next.report = turn[t].report /\ next.terminal = turn[t].terminal
      /\ next.outcome = turn[t].outcome
  BY Here DEF Turn
<1> HIDE DEF next
<1>5. turn'[t] = next
  BY <1>1, Here
<1>6. Frame(t)
  BY <1>1, <1>3, Here DEF Frame, control
<1>7. Adds(t) /\ Committed(t)' = Committed(t)
  BY <1>1, Unwritten
<1>8. Stage(t)' /\ Judged(t)' /\ Running(t)' /\ Leasing(t)'
  BY <1>1, <1>2, <1>4, <1>5, Here
     DEF Stage, Judged, Running, Leasing, Early, Open, Shut, Late, After, Leased, control
<1>9. Wrote(t)' /\ Recorded(t)' /\ Alone(t)'
  BY <1>1, <1>4, <1>5, <1>7, Here DEF Judged, Wrote, Recorded, Alone, Early, Open, After, Late
<1> QED
  BY <1>1, <1>4, <1>5, <1>6, <1>7, <1>8, <1>9, Keeps DEF Placed, Late

-----------------------------------------------------------------------------
(***************************************************************************)
(* The end of the turn.                                                    *)
(***************************************************************************)
\* Closing a capability may leave a reservation, and changes no more.
LEMMA Closing ==
  ASSUME Inv, NEW t \in Turns, NEW cap, NEW failed, Close(t, cap, failed)
  PROVE  /\ cap \notin turn[t].busy
         /\ failed => cap \in turn[t].broken \/ cap \in turn[t].bound
         /\ budget' \in [Turns -> Run] /\ \A s \in Turns : s # t => budget'[s] = budget[s]
         /\ budget'[t].run = budget[t].run /\ budget'[t].stopped = budget[t].stopped
<1>1. cap \notin turn[t].busy /\ (failed => cap \in turn[t].broken \/ cap \in turn[t].bound)
      /\ (budget' = budget \/ budget' = [budget EXCEPT ![t].pending = TRUE])
  BY DEF Close
<1>2. CASE budget' = budget
  BY <1>1, <1>2, Here
<1>3. CASE budget' = [budget EXCEPT ![t].pending = TRUE]
  <2>1. [budget[t] EXCEPT !.pending = TRUE] \in Run
        /\ [budget[t] EXCEPT !.pending = TRUE].run = budget[t].run
        /\ [budget[t] EXCEPT !.pending = TRUE].stopped = budget[t].stopped
    BY Here DEF Run
  <2>2. budget' = [budget EXCEPT ![t] = [budget[t] EXCEPT !.pending = TRUE]]
    BY <1>3, Here
  <2> QED
    BY <1>1, <2>1, <2>2, Here
<1> QED
  BY <1>1, <1>2, <1>3

\* The models of the turn are closed, or are not.
LEMMA FinishModelsKeeps ==
  ASSUME Inv, NEW t \in Turns, FinishModels(t)
  PROVE  Inv'
<1>1. PICK failed \in BOOLEAN :
        /\ Close(t, "model", failed)
        /\ turn' = [turn EXCEPT ![t].at = "tools",
                                ![t].broken = IF failed THEN @ \cup {"model"} ELSE @]
  BY DEF FinishModels
<1> DEFINE failures == IF failed THEN turn[t].broken \cup {"model"} ELSE turn[t].broken
<1> DEFINE next == [turn[t] EXCEPT !.at = "tools", !.broken = failures]
<1>2. /\ turn[t].at = "models" /\ turn' = [turn EXCEPT ![t] = next]
      /\ log' = log /\ holder' = holder /\ sick' = sick
      /\ checkpoint' = checkpoint /\ controller' = controller /\ UNCHANGED control
  BY <1>1, Here DEF FinishModels, At, session
<1>3. /\ "model" \notin turn[t].busy
      /\ budget' \in [Turns -> Run] /\ \A s \in Turns : s # t => budget'[s] = budget[s]
      /\ budget'[t].run = budget[t].run /\ budget'[t].stopped = budget[t].stopped
  BY <1>1, Closing
<1>4. failures \in SUBSET Capabilities
  BY <1>1, Closing, Here DEF Turn
<1>5. next \in Turn
  <2>1. [turn[t] EXCEPT !.at = "tools"] \in Turn
    BY Here, Updates DEF Awaits
  <2> QED
    BY <1>4, <2>1, Updates
<1>6. /\ next.at = "tools"
      /\ next.broken = failures
      /\ next.cancel = turn[t].cancel /\ next.foreign = turn[t].foreign
      /\ next.bound = turn[t].bound /\ next.busy = turn[t].busy
      /\ next.intent = turn[t].intent /\ next.message = turn[t].message
      /\ next.report = turn[t].report /\ next.terminal = turn[t].terminal
      /\ next.outcome = turn[t].outcome
  BY Here DEF Turn
<1> HIDE DEF next, failures
<1>7. turn'[t] = next
  BY <1>2, Here
<1>8. Frame(t)
  BY <1>2, <1>3, <1>5, Here DEF Frame, control
<1>9. Adds(t) /\ Committed(t)' = Committed(t)
  BY <1>2, Unwritten
<1>10. Stage(t)' /\ Judged(t)' /\ Running(t)' /\ Leasing(t)'
  BY <1>2, <1>3, <1>6, <1>7, Here
     DEF Stage, Judged, Running, Leasing, Early, Open, Shut, Late, After, Leased, control
<1>11. Wrote(t)' /\ Recorded(t)' /\ Alone(t)'
  BY <1>2, <1>6, <1>7, <1>9, Here DEF Judged, Wrote, Recorded, Alone, Early, Open, After, Late
<1> QED
  BY <1>2, <1>6, <1>7, <1>8, <1>9, <1>10, <1>11, Keeps DEF Placed, Late

\* Both capabilities are closed: no call is left.
LEMMA FinishToolsKeeps ==
  ASSUME Inv, NEW t \in Turns, FinishTools(t)
  PROVE  Inv'
<1>1. PICK failed \in BOOLEAN :
        LET broken == turn[t].broken \cup IF failed THEN {"tool"} ELSE {} IN
          /\ Close(t, "tool", failed)
          /\ turn' = [turn EXCEPT ![t].at = "cleanup", ![t].broken = broken,
                                  ![t].intent = Resolved(t, IF broken # {} THEN "failed" ELSE @)]
  BY DEF FinishTools
<1> DEFINE failures == turn[t].broken \cup IF failed THEN {"tool"} ELSE {}
<1> DEFINE d == Resolved(t, IF failures # {} THEN "failed" ELSE turn[t].intent)
<1> DEFINE next == [turn[t] EXCEPT !.at = "cleanup", !.broken = failures, !.intent = d]
<1>2. /\ turn[t].at = "tools" /\ turn' = [turn EXCEPT ![t] = next]
      /\ log' = log /\ holder' = holder /\ sick' = sick
      /\ checkpoint' = checkpoint /\ controller' = controller /\ UNCHANGED control
  BY <1>1, Here DEF FinishTools, At, session
<1>3. /\ "tool" \notin turn[t].busy
      /\ budget' \in [Turns -> Run] /\ \A s \in Turns : s # t => budget'[s] = budget[s]
      /\ budget'[t].run = budget[t].run /\ budget'[t].stopped = budget[t].stopped
  BY <1>1, Closing
<1>4. failures \in SUBSET Capabilities
  BY <1>1, Closing, Here DEF Turn
<1>5. d \in Dispositions /\ (failures # {} \/ turn[t].foreign => d = "failed")
  <2>1. turn[t].intent \in Dispositions /\ "failed" \in Dispositions
    BY <1>2, Here DEF Judged, Dispositions
  <2>2. (IF failures # {} THEN "failed" ELSE turn[t].intent) \in Dispositions
    BY <2>1
  <2>3. turn[t].foreign => budget[t].stopped
    BY Here DEF Stage
  <2> HIDE DEF failures
  <2> QED
    BY <2>2, <2>3, ResolvedIntent
<1>6. next \in Turn
  <2>1. [turn[t] EXCEPT !.at = "cleanup"] \in Turn
    BY Here, Updates DEF Awaits
  <2> HIDE DEF failures, d
  <2>2. [turn[t] EXCEPT !.at = "cleanup", !.broken = failures] \in Turn
    BY <1>4, <2>1, Updates
  <2> QED
    BY <1>5, <2>2, Updates
<1>7. /\ next.at = "cleanup"
      /\ next.broken = failures
      /\ next.intent = d
      /\ next.cancel = turn[t].cancel /\ next.foreign = turn[t].foreign
      /\ next.bound = turn[t].bound /\ next.busy = turn[t].busy
      /\ next.message = turn[t].message /\ next.report = turn[t].report
      /\ next.terminal = turn[t].terminal /\ next.outcome = turn[t].outcome
  <2> HIDE DEF failures, d
  <2> QED
    BY Here DEF Turn
<1> HIDE DEF next, failures, d
<1>8. turn'[t] = next
  BY <1>2, Here
<1>9. Frame(t)
  BY <1>2, <1>3, <1>6, Here DEF Frame, control
<1>10. Adds(t) /\ Committed(t)' = Committed(t)
  BY <1>2, Unwritten
<1>11. turn[t].busy = {}
  <2>1. turn[t].busy \subseteq {"model", "tool"}
    BY Here, SetsAssumption DEF Turn
  <2>2. "model" \notin turn[t].busy
    BY <1>2, Here DEF Stage
  <2> QED
    BY <1>3, <2>1, <2>2
<1>12. Stage(t)' /\ Judged(t)' /\ Running(t)' /\ Leasing(t)'
  BY <1>2, <1>3, <1>5, <1>7, <1>8, <1>11, Here
     DEF Stage, Judged, Running, Leasing, Early, Open, Shut, Late, After, Leased, control
<1>13. Wrote(t)' /\ Recorded(t)' /\ Alone(t)'
  BY <1>2, <1>7, <1>8, <1>10, Here DEF Judged, Wrote, Recorded, Alone, Early, Open, After, Late
<1> QED
  BY <1>2, <1>7, <1>8, <1>9, <1>10, <1>12, <1>13, Keeps DEF Placed, Late

\* Lease and run are given up together.
LEMMA ReturnEarlyKeeps ==
  ASSUME Inv, NEW t \in Turns, turn[t].at \in {"cleanup", "prepare"}, ReturnEarly(t),
         UNCHANGED <<control, controller, checkpoint>>
  PROVE  Inv'
<1> DEFINE next == [turn[t] EXCEPT !.at = "finalize", !.outcome = "budget"]
<1> DEFINE run == Abandoned(t)
<1>1. /\ holder' = IF holder = t THEN Nobody ELSE holder
      /\ turn' = [turn EXCEPT ![t] = next] /\ budget' = [budget EXCEPT ![t] = run]
      /\ log' = log /\ sick' = sick /\ checkpoint' = checkpoint
      /\ controller' = controller /\ UNCHANGED control
  BY Here DEF ReturnEarly, Release
<1>2. next \in Turn /\ run \in Run /\ run.run \in {"finished", "abandoned"}
      /\ (budget[t].stopped => run.stopped)
  <2>1. [turn[t] EXCEPT !.at = "finalize"] \in Turn
    BY Here, Updates DEF Awaits
  <2>2. next \in Turn
    BY <2>1, Updates DEF Outcomes
  <2> QED
    BY <2>2, RunEnds
<1>3. /\ next.at = "finalize"
      /\ next.outcome = "budget"
      /\ next.cancel = turn[t].cancel /\ next.foreign = turn[t].foreign
      /\ next.bound = turn[t].bound /\ next.busy = turn[t].busy
      /\ next.broken = turn[t].broken /\ next.intent = turn[t].intent
      /\ next.message = turn[t].message /\ next.report = turn[t].report
      /\ next.terminal = turn[t].terminal
  BY Here DEF Turn
<1> HIDE DEF next, run
<1>4. turn'[t] = next /\ budget'[t] = run /\ holder' # t
  BY <1>1, Here
<1>5. Frame(t)
  BY <1>1, <1>2, Here, NobodyAssumption DEF Frame, control
<1>6. Adds(t) /\ Committed(t)' = Committed(t)
  BY <1>1, Unwritten
<1>7. Stage(t)' /\ Judged(t)' /\ Running(t)' /\ Leasing(t)'
  BY <1>1, <1>2, <1>3, <1>4, Here
     DEF Stage, Judged, Running, Leasing, Early, Open, Shut, Late, After, Leased, control
<1>8. Wrote(t)' /\ Recorded(t)' /\ Alone(t)'
  BY <1>1, <1>3, <1>4, <1>6, <1>7, Here DEF Stage, Wrote, Recorded, Alone, Early, Shut, After, Late, Open
<1> QED
  BY <1>1, <1>3, <1>4, <1>5, <1>6, <1>7, <1>8, Keeps DEF Placed, Late

\* The budget stops counting active time.
LEMMA BeginCleanupKeeps ==
  ASSUME Inv, NEW t \in Turns, BeginCleanup(t)
  PROVE  Inv'
<1>1. turn[t].at = "cleanup" /\ UNCHANGED <<control, controller, checkpoint>>
  BY DEF BeginCleanup, At
<1>2. CASE budget[t].sealed
  BY <1>1, <1>2, ReturnEarlyKeeps DEF BeginCleanup
<1>3. CASE ~budget[t].sealed
  <2> DEFINE place == IF ~turn[t].foreign /\ turn[t].intent = "completed" THEN "message" ELSE "prepare"
  <2> DEFINE next == [turn[t] EXCEPT !.at = place]
  <2> DEFINE run == [budget[t] EXCEPT !.run = "cleaning"]
  <2>1. /\ turn' = [turn EXCEPT ![t] = next] /\ budget' = [budget EXCEPT ![t] = run]
        /\ log' = log /\ holder' = holder /\ sick' = sick
    BY <1>3, Here DEF BeginCleanup, session
  <2>2. next \in Turn /\ run \in Run /\ run.run = "cleaning" /\ run.stopped = budget[t].stopped
    <3>1. next \in Turn
      BY Here, Updates DEF Awaits
    <3> QED
      BY <3>1, Here DEF Run
  <2>3. /\ next.at = place
        /\ next.cancel = turn[t].cancel /\ next.foreign = turn[t].foreign
        /\ next.bound = turn[t].bound /\ next.busy = turn[t].busy
        /\ next.broken = turn[t].broken /\ next.intent = turn[t].intent
        /\ next.message = turn[t].message /\ next.report = turn[t].report
        /\ next.terminal = turn[t].terminal /\ next.outcome = turn[t].outcome
    BY Here DEF Turn
  <2>4. place \in {"message", "prepare"} /\ (turn[t].intent = "completed" => place = "message")
    BY <1>1, Here DEF Judged, Shut
  <2> HIDE DEF next, run, place
  <2>5. turn'[t] = next /\ budget'[t] = run
    BY <2>1, Here
  <2>6. Frame(t)
    BY <1>1, <2>1, <2>2, Here DEF Frame, control
  <2>7. Adds(t) /\ Committed(t)' = Committed(t)
    BY <2>1, Unwritten
  <2>8. Stage(t)' /\ Judged(t)' /\ Running(t)' /\ Leasing(t)'
    BY <1>1, <2>1, <2>2, <2>3, <2>4, <2>5, Here
       DEF Stage, Judged, Running, Leasing, Early, Open, Shut, Late, After, Leased, control
  <2>9. Wrote(t)' /\ Recorded(t)' /\ Alone(t)'
    BY <1>1, <2>1, <2>3, <2>4, <2>5, <2>7, Here
       DEF Stage, Judged, Wrote, Recorded, Alone, Early, Open, Shut, After, Late
  <2> QED
    BY <1>1, <2>1, <2>3, <2>4, <2>5, <2>6, <2>7, <2>8, <2>9, Keeps DEF Placed, Late
<1> QED
  BY <1>2, <1>3

\* The answer of the agent and its receipt.
LEMMA RecordMessageKeeps ==
  ASSUME Inv, NEW t \in Turns, RecordMessage(t)
  PROVE  Inv'
<1>1. PICK r \in Receipts \ {"none"} :
        /\ Write(t, Event(t, "message"), r)
        /\ turn' = [turn EXCEPT ![t].at = "prepare", ![t].message = r,
                                ![t].intent = IF r = "ok" THEN @ ELSE "failed"]
  BY DEF RecordMessage
<1> DEFINE d == IF r = "ok" THEN turn[t].intent ELSE "failed"
<1> DEFINE next == [turn[t] EXCEPT !.at = "prepare", !.message = r, !.intent = d]
<1>2. /\ turn[t].at = "message" /\ turn' = [turn EXCEPT ![t] = next] /\ budget' = budget
      /\ holder' = holder /\ checkpoint' = checkpoint /\ controller' = controller /\ UNCHANGED control
  BY <1>1, Here DEF RecordMessage, At
<1>3. /\ d \in Dispositions /\ (turn[t].intent = "failed" => d = "failed")
      /\ (d = "completed" => r = "ok")
  BY <1>2, Here DEF Judged, Shut, Dispositions
<1>4. next \in Turn
  <2> HIDE DEF d
  <2>1. [turn[t] EXCEPT !.at = "prepare"] \in Turn
    BY Here, Updates DEF Awaits
  <2>2. [turn[t] EXCEPT !.at = "prepare", !.message = r] \in Turn
    BY <2>1, Updates
  <2> QED
    BY <1>3, <2>2, Updates
<1>5. /\ next.at = "prepare"
      /\ next.message = r
      /\ next.intent = d
      /\ next.cancel = turn[t].cancel /\ next.foreign = turn[t].foreign
      /\ next.bound = turn[t].bound /\ next.busy = turn[t].busy
      /\ next.broken = turn[t].broken /\ next.report = turn[t].report
      /\ next.terminal = turn[t].terminal /\ next.outcome = turn[t].outcome
  <2> HIDE DEF d
  <2> QED
    BY Here DEF Turn
<1> HIDE DEF next, d
<1>6. turn'[t] = next
  BY <1>2, Here
<1>7. \A i \in Committed(t) : log[i].kind \in {"user", "work"}
  BY <1>2, Here DEF Wrote, Open
<1>8. Follows(t, Event(t, "message"))
  BY <1>7, EventTypes DEF Follows, Rank
<1>9. ~turn[t].foreign => holder = t
  BY <1>2, Here DEF Leasing, Leased, Shut
<1>10. /\ Adds(t) /\ sick' \in BOOLEAN
       /\ \A i \in Committed(t)' : (i \in Committed(t) /\ log'[i] = log[i])
                                   \/ (~turn[t].foreign /\ log'[i] = Event(t, "message"))
  BY <1>1, <1>2, <1>8, <1>9, Written
<1>11. Frame(t)
  BY <1>2, <1>4, <1>10, Here DEF Frame, control
<1>12. Stage(t)' /\ Judged(t)' /\ Running(t)' /\ Leasing(t)'
  BY <1>2, <1>3, <1>5, <1>6, Here
     DEF Stage, Judged, Running, Leasing, Early, Open, Shut, Late, After, Leased, control
<1>13. turn[t].busy = {} /\ turn[t].outcome # "ok"
  BY <1>2, Here DEF Stage, Judged, Shut, After, Late
<1>14. Wrote(t)'
  BY <1>2, <1>5, <1>6, <1>7, <1>10, <1>13, EventTypes, Here DEF Wrote, Early, Open
<1>15. Recorded(t)'
  BY <1>5, <1>6, <1>13 DEF Recorded
<1>16. Alone(t)'
  BY <1>2, <1>10, AloneKept
<1> QED
  BY <1>2, <1>5, <1>6, <1>10, <1>11, <1>12, <1>14, <1>15, <1>16, Keeps DEF Placed, Late

\* The report is made from the budget as it is.
LEMMA PrepareKeeps ==
  ASSUME Inv, NEW t \in Turns, Prepare(t)
  PROVE  Inv'
<1>1. turn[t].at = "prepare" /\ UNCHANGED <<control, controller, checkpoint>>
  BY DEF Prepare, At
<1>2. CASE budget[t].sealed
  BY <1>1, <1>2, ReturnEarlyKeeps DEF Prepare
<1>3. CASE ~budget[t].sealed
  <2> DEFINE d == IF budget[t].pending THEN "failed" ELSE turn[t].intent
  <2> DEFINE reason == StopReason(t, d)
  <2> DEFINE next == [turn[t] EXCEPT !.at = "report", !.intent = d, !.says = reason]
  <2> DEFINE now == IF budget[t].pending THEN budget[t].run ELSE "reported"
  <2> DEFINE run == [budget[t] EXCEPT !.run = now]
  <2>1. /\ turn' = [turn EXCEPT ![t] = next] /\ budget' = [budget EXCEPT ![t] = run]
        /\ log' = log /\ holder' = holder /\ sick' = sick
    BY <1>3, Here DEF Prepare, session
  <2>2. /\ d \in Dispositions /\ (turn[t].intent = "failed" => d = "failed")
        /\ (d = "completed" => turn[t].intent = "completed")
    BY <1>1, Here DEF Judged, Shut, Dispositions
  <2>3. reason \in Dispositions \cup {"budget"} /\ now \in {"cleaning", "reported"}
    BY <1>1, <2>2, Here DEF StopReason, Running
  <2> HIDE DEF d, reason, now
  <2>4. next \in Turn
    <3>1. [turn[t] EXCEPT !.at = "report"] \in Turn
      BY Here, Updates DEF Awaits
    <3>2. [turn[t] EXCEPT !.at = "report", !.intent = d] \in Turn
      BY <2>2, <3>1, Updates
    <3> QED
      BY <2>3, <3>2, Updates
  <2>5. /\ next.at = "report"
        /\ next.intent = d
        /\ next.cancel = turn[t].cancel /\ next.foreign = turn[t].foreign
        /\ next.bound = turn[t].bound /\ next.busy = turn[t].busy
        /\ next.broken = turn[t].broken /\ next.message = turn[t].message
        /\ next.report = turn[t].report /\ next.terminal = turn[t].terminal
        /\ next.outcome = turn[t].outcome
    BY Here DEF Turn
  <2>6. run \in Run /\ run.run = now /\ run.stopped = budget[t].stopped
    BY <2>3, Here DEF Run
  <2> HIDE DEF next, run
  <2>7. turn'[t] = next /\ budget'[t] = run
    BY <2>1, Here
  <2>8. Frame(t)
    BY <1>1, <2>1, <2>4, <2>6, Here DEF Frame, control
  <2>9. Adds(t) /\ Committed(t)' = Committed(t)
    BY <2>1, Unwritten
  <2>10. Stage(t)' /\ Judged(t)' /\ Running(t)' /\ Leasing(t)'
    BY <1>1, <2>1, <2>2, <2>3, <2>5, <2>6, <2>7, Here
       DEF Stage, Judged, Running, Leasing, Early, Open, Shut, Late, After, Leased, control
  <2>11. Wrote(t)' /\ Recorded(t)' /\ Alone(t)'
    BY <1>1, <2>1, <2>5, <2>7, <2>9, Here
       DEF Stage, Judged, Wrote, Recorded, Alone, Early, Open, Shut, After, Late
  <2> QED
    BY <1>1, <2>1, <2>5, <2>7, <2>8, <2>9, <2>10, <2>11, Keeps DEF Placed, Late
<1> QED
  BY <1>2, <1>3

\* The report that was recorded is the last event.
LEMMA RecordReportKeeps ==
  ASSUME Inv, NEW t \in Turns, RecordReport(t)
  PROVE  Inv'
<1> DEFINE e == [Event(t, "report") EXCEPT !.says = turn[t].says, !.drained = ~budget[t].pending]
<1>1. PICK r \in Receipts \ {"none"} :
        /\ IF turn[t].foreign THEN r = "failed" /\ UNCHANGED <<log, sick>> ELSE Write(t, e, r)
        /\ turn' = [turn EXCEPT ![t].at = "terminal", ![t].report = r,
                                ![t].intent = IF r = "ok" THEN @ ELSE "failed"]
  BY DEF RecordReport
<1> DEFINE d == IF r = "ok" THEN turn[t].intent ELSE "failed"
<1> DEFINE next == [turn[t] EXCEPT !.at = "terminal", !.report = r, !.intent = d]
<1>2. /\ turn[t].at = "report" /\ turn' = [turn EXCEPT ![t] = next] /\ budget' = budget
      /\ holder' = holder /\ checkpoint' = checkpoint /\ controller' = controller /\ UNCHANGED control
  BY <1>1, Here DEF RecordReport, At
<1>3. /\ d \in Dispositions /\ (turn[t].intent = "failed" => d = "failed")
      /\ (d = "completed" => turn[t].intent = "completed") /\ (d # "failed" => r = "ok")
  BY <1>2, Here DEF Judged, Shut, Dispositions
<1>4. next \in Turn
  <2> HIDE DEF d
  <2>1. [turn[t] EXCEPT !.at = "terminal"] \in Turn
    BY Here, Updates DEF Awaits
  <2>2. [turn[t] EXCEPT !.at = "terminal", !.report = r] \in Turn
    BY <2>1, Updates
  <2> QED
    BY <1>3, <2>2, Updates
<1>5. /\ next.at = "terminal"
      /\ next.report = r
      /\ next.intent = d
      /\ next.cancel = turn[t].cancel /\ next.foreign = turn[t].foreign
      /\ next.bound = turn[t].bound /\ next.busy = turn[t].busy
      /\ next.broken = turn[t].broken /\ next.message = turn[t].message
      /\ next.terminal = turn[t].terminal /\ next.outcome = turn[t].outcome
  <2> HIDE DEF d
  <2> QED
    BY Here DEF Turn
<1>6. e \in Entry /\ e.turn = t /\ e.kind = "report"
  BY Here DEF Entry, Event, Turn, Run
<1> HIDE DEF next, d, e
<1>7. turn'[t] = next
  BY <1>2, Here
<1>8. \A i \in Committed(t) : log[i].kind \in {"user", "work", "message"}
  BY <1>2, Here DEF Wrote
<1>9. Follows(t, e)
  BY <1>6, <1>8 DEF Follows, Rank
<1>10. ~turn[t].foreign => holder = t
  BY <1>2, Here DEF Leasing, Leased, Shut
<1>11. /\ Adds(t) /\ sick' \in BOOLEAN
       /\ \A i \in Committed(t)' : (i \in Committed(t) /\ log'[i] = log[i])
                                   \/ (~turn[t].foreign /\ log'[i] = e)
       /\ r = "ok" => ~turn[t].foreign /\ log' = Append(log, e)
  <2>1. CASE turn[t].foreign
    BY <1>1, <2>1, Unwritten, Here
  <2>2. CASE ~turn[t].foreign
    BY <1>1, <1>2, <1>9, <1>10, <2>2, Written
  <2> QED
    BY <2>1, <2>2
<1>12. Frame(t)
  BY <1>2, <1>4, <1>11, Here DEF Frame, control
<1>13. Stage(t)' /\ Judged(t)' /\ Running(t)' /\ Leasing(t)'
  BY <1>2, <1>3, <1>5, <1>7, <1>11, Here
     DEF Stage, Judged, Running, Leasing, Early, Open, Shut, Late, After, Leased, control
<1>14. turn[t].busy = {} /\ turn[t].outcome # "ok"
  BY <1>2, Here DEF Stage, Judged, Shut, After, Late
<1>15. Wrote(t)'
  BY <1>2, <1>5, <1>6, <1>7, <1>8, <1>11, <1>14, Here DEF Wrote, Early, Open
<1>16. Recorded(t)'
  <2> SUFFICES ASSUME r = "ok"
               PROVE  Len(log') \in DOMAIN log' /\ log'[Len(log')].turn = t /\ log'[Len(log')].kind = "report"
    BY <1>5, <1>7, <1>14 DEF Recorded
  <2>1. log \in Seq(Entry)
    BY DEF Inv, TypeOK
  <2> HIDE DEF Entry
  <2> QED
    BY <1>6, <1>11, <2>1, Appended
<1>17. Alone(t)'
  BY <1>2, <1>11, AloneKept
<1> QED
  BY <1>2, <1>5, <1>7, <1>11, <1>12, <1>13, <1>15, <1>16, <1>17, Keeps DEF Placed, Late

\* A terminal event that was recorded follows the report, and both are the last.
LEMMA RecordTerminalKeeps ==
  ASSUME Inv, NEW t \in Turns, RecordTerminal(t)
  PROVE  Inv'
<1> DEFINE e == Terminal(t, turn[t].intent)
<1>1. PICK r \in Receipts \ {"none"} :
        Write(t, e, r) /\ turn' = [turn EXCEPT ![t].at = "settle", ![t].terminal = r]
  BY DEF RecordTerminal
<1> DEFINE next == [turn[t] EXCEPT !.at = "settle", !.terminal = r]
<1>2. /\ turn[t].at = "terminal" /\ turn' = [turn EXCEPT ![t] = next] /\ budget' = budget
      /\ holder' = holder /\ checkpoint' = checkpoint /\ controller' = controller /\ UNCHANGED control
  BY <1>1, Here DEF RecordTerminal, At
<1>3. next \in Turn
  <2>1. [turn[t] EXCEPT !.at = "settle"] \in Turn
    BY Here, Updates DEF Awaits
  <2> QED
    BY <2>1, Updates
<1>4. /\ next.at = "settle"
      /\ next.terminal = r
      /\ next.cancel = turn[t].cancel /\ next.foreign = turn[t].foreign
      /\ next.bound = turn[t].bound /\ next.busy = turn[t].busy
      /\ next.broken = turn[t].broken /\ next.intent = turn[t].intent
      /\ next.message = turn[t].message /\ next.report = turn[t].report
      /\ next.outcome = turn[t].outcome
  BY Here DEF Turn
<1>5. e \in Entry /\ e.turn = t /\ e.kind = "terminal"
  BY <1>2, Here DEF Entry, Terminal, Event, Judged, Shut
<1> HIDE DEF next, e
<1>6. turn'[t] = next
  BY <1>2, Here
<1>7. \A i \in Committed(t) : log[i].kind # "terminal" /\ log[i].kind \in DOMAIN Rank
  <2>1. \A i \in Committed(t) : log[i] \in Entry
    BY DEF Committed, Inv, TypeOK
  <2> QED
    BY <1>2, <2>1, Here DEF Wrote, Entry, Rank
<1>8. Follows(t, e)
  BY <1>5, <1>7 DEF Follows, Rank
<1>9. ~turn[t].foreign => holder = t
  BY <1>2, Here DEF Leasing, Leased, Shut
<1>10. /\ Adds(t) /\ sick' \in BOOLEAN
       /\ \A i \in Committed(t)' : (i \in Committed(t) /\ log'[i] = log[i])
                                   \/ (~turn[t].foreign /\ log'[i] = e)
       /\ r = "ok" /\ ~turn[t].foreign => log' = Append(log, e)
  BY <1>1, <1>2, <1>8, <1>9, Written
<1>11. Frame(t)
  BY <1>2, <1>3, <1>10, Here DEF Frame, control
<1>12. Stage(t)' /\ Judged(t)' /\ Running(t)' /\ Leasing(t)'
  BY <1>2, <1>4, <1>6, Here
     DEF Stage, Judged, Running, Leasing, Early, Open, Shut, Late, After, Leased, control
<1>13. turn[t].busy = {} /\ turn[t].outcome # "ok"
  BY <1>2, Here DEF Stage, Judged, Shut, After, Late
<1>14. Wrote(t)'
  BY <1>2, <1>4, <1>6, <1>10, <1>13, Here DEF Wrote, Early, Open
<1>15. Recorded(t)'
  <2> SUFFICES ASSUME turn[t].report = "ok", r = "ok"
               PROVE  \E i, j \in Committed(t)' : Closes(t, i, j)'
    BY <1>4, <1>6, <1>13 DEF Recorded
  <2>1. log' = Append(log, e) /\ log \in Seq(Entry)
    BY <1>10, Here DEF Stage, Inv, TypeOK
  <2>2. PICK n \in DOMAIN log : n = Len(log) /\ log[n].turn = t /\ log[n].kind = "report"
    BY <1>2, Here DEF Recorded
  <2>3. /\ n \in Nat /\ DOMAIN log = 1 .. n /\ DOMAIN log' = 1 .. n + 1
        /\ \A i \in DOMAIN log : i \in DOMAIN log' /\ log'[i] = log[i]
        /\ log'[n + 1] = e
    <3> HIDE DEF Entry
    <3> QED
      BY <1>5, <2>1, <2>2, Appended
  <2>4. Committed(t)' = {i \in DOMAIN log' : log'[i].turn = t}
    BY DEF Committed
  <2>5. n \in Committed(t)' /\ n + 1 \in Committed(t)'
    BY <1>5, <2>2, <2>3, <2>4
  <2>6. \A k \in Committed(t)' : k <= n \/ k = n + 1
    BY <2>3, <2>4
  <2>7. log'[n + 1] = Terminal(t, turn'[t].intent)
    BY <1>4, <1>6, <2>3 DEF e
  <2>8. Closes(t, n, n + 1)'
    BY <2>2, <2>3, <2>5, <2>6, <2>7 DEF Closes, EndsWith
  <2> QED
    BY <2>5, <2>8
<1>16. Alone(t)'
  BY <1>2, <1>10, AloneKept
<1> QED
  BY <1>2, <1>4, <1>6, <1>10, <1>11, <1>12, <1>14, <1>15, <1>16, Keeps DEF Placed, Late

\* What drive_turn may return.
LEMMA SettledOutcome ==
  ASSUME Inv, NEW t \in Turns, NEW settled \in BOOLEAN, turn[t].at = "settle"
  PROVE  /\ Outcome(t, settled) \in {"ok", "closed", "unclosed", "durability"}
         /\ Outcome(t, settled) = "ok" =>
              /\ turn[t].intent \in {"completed", "cancelled"} /\ turn[t].report = "ok"
              /\ turn[t].broken = {} /\ (turn[t].intent = "completed" => turn[t].message = "ok")
              /\ t \in Durable => turn[t].terminal = "ok"
<1>1. turn[t].intent \in Dispositions
  BY Here DEF Judged, Shut
<1>2. Outcome(t, settled) \in {"ok", "closed", "unclosed", "durability"}
  BY DEF Outcome
<1>3. ASSUME Outcome(t, settled) = "ok" PROVE turn[t].intent # "failed" /\ Evidence(t, settled)
  BY <1>3 DEF Outcome
<1>4. turn[t].intent # "failed" => turn[t].report = "ok" /\ turn[t].broken = {}
      /\ (turn[t].intent = "completed" => turn[t].message = "ok")
  BY Here DEF Judged, Shut
<1>5. Evidence(t, settled) /\ t \in Durable => turn[t].terminal = "ok"
  BY DEF Evidence
<1> QED
  BY <1>1, <1>2, <1>3, <1>4, <1>5 DEF Dispositions

\* What an unwound driver does to the table.
LEMMA UnwoundKeeps ==
  ASSUME Inv, NEW t \in Turns, Frame(t), Adds(t), Placed(t)', Unwound(t),
         turn[t].at \notin Late, checkpoint' = checkpoint, lifecycle' = lifecycle,
         turn'[t].at = "gone", turn'[t].outcome = "unwound",
         holder' = t => holder = t, t \in jobs
  PROVE  Inv'
<1>1. /\ jobs' = jobs \ {t} /\ stopper' = [stopper EXCEPT !.permit = @ \/ jobs = {t}]
      /\ \/ detached' = detached \cup {t} /\ Cardinality(detached) < MaxDetached
         \/ detached' = detached /\ ~(Cardinality(detached) < MaxDetached)
  BY DEF Unwound
<1>2. Cardinality(detached) \in Nat /\ MaxDetached \in Nat
  BY FS_CardinalityType, BoundsAssumption DEF Inv, Finite
<1>3. t \in detached' \/ Cardinality(detached) >= MaxDetached
  BY <1>1, <1>2
<1>4. Rests(t)
  BY DEF Rests
<1> QED
  BY <1>1, <1>3, <1>4, TableLeft

\* What an unwinding driver leaves to whom it may be told.
LEMMA UnwoundChannel ==
  ASSUME Inv, NEW t \in Turns, Unwound(t)
  PROVE  /\ controller' \in [Turns -> Channels]
         /\ \A s \in Turns : s # t => controller'[s] = controller[s] /\ (s \in jobs' <=> s \in jobs)
         /\ t \notin jobs'
BY Here DEF Unwound, Channels

\* The lease goes back, the finally hooks run and the outcome is made.
LEMMA SettleKeeps ==
  ASSUME Inv, NEW t \in Turns, Settle(t)
  PROVE  Inv'
<1>1. PICK settled \in BOOLEAN :
        IF Panics(t, settled)
        THEN /\ Unwound(t)
             /\ budget' = [budget EXCEPT ![t] = Finished(t)]
             /\ turn' = [turn EXCEPT ![t].at = "gone", ![t].hooks = turn[t].intent,
                                     ![t].outcome = "unwound"]
        ELSE /\ budget' = [budget EXCEPT ![t] = Finished(t)]
             /\ turn' = [turn EXCEPT ![t].at = "finalize", ![t].hooks = turn[t].intent,
                                     ![t].outcome = Outcome(t, settled)]
             /\ UNCHANGED <<jobs, detached, stopper, controller>>
  BY DEF Settle
<1> DEFINE run == Finished(t)
<1>2. /\ turn[t].at = "settle" /\ holder' = IF holder = t THEN Nobody ELSE holder
      /\ lifecycle' = lifecycle /\ log' = log /\ sick' = sick /\ checkpoint' = checkpoint
      /\ budget' = [budget EXCEPT ![t] = run]
  BY <1>1 DEF Settle, Release, At
<1>3. run \in Run /\ run.run \in {"finished", "abandoned"} /\ (budget[t].stopped => run.stopped)
  BY RunEnds
<1>4. turn[t].intent \in Dispositions /\ turn[t].busy = {} /\ t \in jobs
  BY <1>2, Here DEF Judged, Stage, Shut
<1>5. Adds(t) /\ Committed(t)' = Committed(t)
  BY <1>2, Unwritten
<1> HIDE DEF run
<1>6. budget'[t] = run /\ holder' # t
  BY <1>2, Here
<1>7. CASE Panics(t, settled)
  <2> DEFINE next == [turn[t] EXCEPT !.at = "gone", !.hooks = turn[t].intent, !.outcome = "unwound"]
  <2>1. turn' = [turn EXCEPT ![t] = next] /\ Unwound(t)
    BY <1>1, <1>7, Here
  <2>2. next \in Turn
    <3>1. [turn[t] EXCEPT !.at = "gone"] \in Turn
      BY Here, Updates
    <3>2. [turn[t] EXCEPT !.at = "gone", !.hooks = turn[t].intent] \in Turn
      BY <1>4, <3>1, Updates
    <3> QED
      BY <3>2, Updates DEF Outcomes
  <2>3. /\ next.at = "gone"
        /\ next.outcome = "unwound"
        /\ next.cancel = turn[t].cancel /\ next.foreign = turn[t].foreign
        /\ next.bound = turn[t].bound /\ next.busy = turn[t].busy
        /\ next.broken = turn[t].broken /\ next.intent = turn[t].intent
        /\ next.message = turn[t].message /\ next.report = turn[t].report
        /\ next.terminal = turn[t].terminal
    BY Here DEF Turn
  <2> HIDE DEF next
  <2>4. turn'[t] = next
    BY <2>1, Here
  <2>5. Frame(t)
    BY <1>2, <1>3, <2>1, <2>2, UnwoundChannel, Here, NobodyAssumption DEF Frame
  <2>6. Stage(t)' /\ Judged(t)' /\ Running(t)' /\ Leasing(t)'
    BY <1>3, <1>4, <1>6, <2>1, <2>3, <2>4, UnwoundChannel, Here
       DEF Stage, Judged, Running, Leasing, Early, Open, Shut, Late, After, Leased
  <2>7. Wrote(t)' /\ Recorded(t)' /\ Alone(t)'
    BY <1>2, <1>4, <1>5, <1>6, <2>3, <2>4, Here DEF Wrote, Recorded, Alone, Early, Open
  <2> QED
    BY <1>2, <1>4, <1>5, <1>6, <2>1, <2>3, <2>4, <2>5, <2>6, <2>7, UnwoundKeeps DEF Placed, Late
<1>8. CASE ~Panics(t, settled)
  <2> DEFINE out == Outcome(t, settled)
  <2> DEFINE next == [turn[t] EXCEPT !.at = "finalize", !.hooks = turn[t].intent, !.outcome = out]
  <2>1. /\ turn' = [turn EXCEPT ![t] = next] /\ controller' = controller /\ UNCHANGED control
    BY <1>1, <1>2, <1>8, Here DEF control
  <2>2. /\ out \in {"ok", "closed", "unclosed", "durability"}
        /\ out = "ok" =>
             /\ turn[t].intent \in {"completed", "cancelled"} /\ turn[t].report = "ok"
             /\ turn[t].broken = {} /\ (turn[t].intent = "completed" => turn[t].message = "ok")
             /\ t \in Durable => turn[t].terminal = "ok"
    BY <1>2, SettledOutcome
  <2> HIDE DEF out
  <2>3. next \in Turn
    <3>1. [turn[t] EXCEPT !.at = "finalize"] \in Turn
      BY Here, Updates DEF Awaits
    <3>2. [turn[t] EXCEPT !.at = "finalize", !.hooks = turn[t].intent] \in Turn
      BY <1>4, <3>1, Updates
    <3> QED
      BY <2>2, <3>2, Updates DEF Outcomes
  <2>4. /\ next.at = "finalize"
        /\ next.outcome = out
        /\ next.cancel = turn[t].cancel /\ next.foreign = turn[t].foreign
        /\ next.bound = turn[t].bound /\ next.busy = turn[t].busy
        /\ next.broken = turn[t].broken /\ next.intent = turn[t].intent
        /\ next.message = turn[t].message /\ next.report = turn[t].report
        /\ next.terminal = turn[t].terminal
    BY Here DEF Turn
  <2> HIDE DEF next
  <2>5. turn'[t] = next
    BY <2>1, Here
  <2>6. Frame(t)
    BY <1>2, <1>3, <2>1, <2>3, Here, NobodyAssumption DEF Frame, control
  <2>7. Stage(t)' /\ Judged(t)' /\ Running(t)' /\ Leasing(t)'
    BY <1>2, <1>3, <1>4, <1>6, <2>1, <2>2, <2>4, <2>5, Here
       DEF Stage, Judged, Running, Leasing, Early, Open, Shut, Late, After, Leased, control
  <2>8. Wrote(t)' /\ Alone(t)'
    BY <1>2, <1>4, <1>5, <1>6, <2>4, <2>5, Here DEF Wrote, Alone, Early, Open
  <2>9. Recorded(t)'
    <3> SUFFICES ASSUME turn[t].report = "ok", turn[t].terminal = "ok"
                 PROVE  \E i, j \in Committed(t)' : Closes(t, i, j)'
      BY <2>4, <2>5 DEF Recorded
    <3>1. PICK i \in Committed(t), j \in Committed(t) : Closes(t, i, j)
      BY <1>2, Here DEF Recorded
    <3>2. Closes(t, i, j)'
      BY <1>2, <1>5, <2>4, <2>5, <3>1 DEF Closes, EndsWith
    <3> QED
      BY <1>5, <3>2
  <2> QED
    BY <1>2, <1>5, <1>6, <2>1, <2>4, <2>5, <2>6, <2>7, <2>8, <2>9, Keeps DEF Placed, Late
<1> QED
  BY <1>7, <1>8

\* The calls that an unwound driver leaves keep the lease.
LEMMA UnwindKeeps ==
  ASSUME Inv, NEW t \in Turns, Unwind(t)
  PROVE  Inv'
<1> DEFINE next == [turn[t] EXCEPT !.at = "gone", !.outcome = "unwound"]
<1> DEFINE run == IF turn[t].at = "finalize" THEN budget[t] ELSE Abandoned(t)
<1>1. /\ turn[t].at \in {"begin", "boundary", "user", "models", "tools", "message", "report",
                         "terminal", "settle", "finalize"}
      /\ Unwound(t) /\ lifecycle' = lifecycle
      /\ IF turn[t].busy = {} THEN holder' = IF holder = t THEN Nobody ELSE holder ELSE holder' = holder
      /\ turn' = [turn EXCEPT ![t] = next] /\ budget' = [budget EXCEPT ![t] = run]
      /\ log' = log /\ sick' = sick /\ checkpoint' = checkpoint
  BY Here DEF Unwind, Release, At
<1>2. run \in Run /\ run.run \in {"finished", "abandoned"} /\ (budget[t].stopped => run.stopped)
  BY RunEnds, Here DEF Running, After
<1>3. next \in Turn
  <2>1. [turn[t] EXCEPT !.at = "gone"] \in Turn
    BY Here, Updates
  <2> QED
    BY <2>1, Updates DEF Outcomes
<1>4. /\ next.at = "gone"
      /\ next.outcome = "unwound"
      /\ next.cancel = turn[t].cancel /\ next.foreign = turn[t].foreign
      /\ next.bound = turn[t].bound /\ next.busy = turn[t].busy
      /\ next.broken = turn[t].broken /\ next.intent = turn[t].intent
      /\ next.message = turn[t].message /\ next.report = turn[t].report
      /\ next.terminal = turn[t].terminal
  BY Here DEF Turn
<1> HIDE DEF next, run
<1>5. turn'[t] = next /\ budget'[t] = run
  BY <1>1, Here
<1>6. t \in jobs
  BY <1>1, Here DEF Stage
<1>7. holder' = t <=> ~turn[t].foreign /\ turn[t].busy # {}
  <2>1. turn[t].busy # {} => turn[t].at \in Leased
    BY <1>1, Here DEF Stage, Early, Shut, After, Late, Leased, Open
  <2> QED
    BY <1>1, <2>1, Here, NobodyAssumption DEF Leasing
<1>8. Frame(t)
  BY <1>1, <1>2, <1>3, UnwoundChannel, Here, NobodyAssumption DEF Frame
<1>9. Adds(t) /\ Committed(t)' = Committed(t)
  BY <1>1, Unwritten
<1>10. Stage(t)' /\ Judged(t)' /\ Running(t)' /\ Leasing(t)'
  BY <1>1, <1>2, <1>4, <1>5, <1>7, UnwoundChannel, Here
     DEF Stage, Judged, Running, Leasing, Early, Open, Shut, Late, After, Leased
<1>11. Wrote(t)' /\ Recorded(t)'
  BY <1>1, <1>4, <1>5, <1>9, Here DEF Wrote, Recorded, Early, Open
<1>12. holder' = t => holder = t /\ turn[t].at # "boundary"
  BY <1>1, Here, NobodyAssumption DEF Stage, Early
<1>13. Alone(t)'
  BY <1>9, <1>12, AloneKept DEF Alone
<1> QED
  BY <1>1, <1>4, <1>5, <1>6, <1>8, <1>9, <1>10, <1>11, <1>12, <1>13, UnwoundKeeps DEF Placed, Late

-----------------------------------------------------------------------------
(***************************************************************************)
(* The durable barrier, the delivery, the host and stop.                   *)
(***************************************************************************)
LEMMA RecordedKept ==
  ASSUME Inv, NEW t \in Turns, log' = log,
         turn'[t].report = turn[t].report, turn'[t].terminal = turn[t].terminal,
         turn'[t].intent = turn[t].intent, turn'[t].outcome = "ok" => turn[t].outcome = "ok",
         turn'[t].at = turn[t].at \/ turn'[t].at \notin {"terminal", "settle"}
  PROVE  Recorded(t)'
<1> SUFFICES ASSUME turn[t].report = "ok" PROVE Recorded(t)'
  BY DEF Recorded
<1>1. Committed(t)' = Committed(t)
  BY DEF Committed
<1>2. turn'[t].at = "terminal" =>
        Len(log') \in DOMAIN log' /\ log'[Len(log')].turn = t /\ log'[Len(log')].kind = "report"
  BY Here DEF Recorded
<1>3. ASSUME turn'[t].at = "settle" \/ turn'[t].outcome = "ok", turn[t].terminal = "ok"
      PROVE  \E i, j \in Committed(t)' : Closes(t, i, j)'
  <2>1. PICK i \in Committed(t), j \in Committed(t) : Closes(t, i, j)
    BY <1>3, Here DEF Recorded
  <2>2. Closes(t, i, j)'
    BY <1>1, <2>1 DEF Closes, EndsWith
  <2> QED
    BY <1>1, <2>2
<1> QED
  BY <1>2, <1>3 DEF Recorded

\* A request to cancel, a stop of the budget, or a reader, moves no driver.
LEMMA StaysPlaced ==
  ASSUME Inv, NEW s \in Turns, UNCHANGED <<jobs, log, holder>>,
         turn'[s].at = turn[s].at, turn'[s].foreign = turn[s].foreign,
         turn'[s].bound = turn[s].bound, turn'[s].busy = turn[s].busy,
         turn'[s].broken = turn[s].broken, turn'[s].intent = turn[s].intent,
         turn'[s].message = turn[s].message, turn'[s].report = turn[s].report,
         turn'[s].terminal = turn[s].terminal, turn'[s].outcome = turn[s].outcome,
         budget'[s].run = budget[s].run, budget[s].stopped => budget'[s].stopped,
         controller[s] \in {"sent", "read", "discarded"} =>
           controller'[s] \in {"sent", "read", "discarded"}
  PROVE  Placed(s)'
<1>1. Stage(s)' /\ Judged(s)' /\ Running(s)' /\ Leasing(s)'
  BY Here DEF Stage, Judged, Running, Leasing
<1>2. Wrote(s)' /\ Alone(s)'
  BY Here DEF Wrote, Alone, Committed
<1>3. Recorded(s)'
  BY RecordedKept
<1> QED
  BY <1>1, <1>2, <1>3 DEF Placed

\* A request to cancel changes no more than cancel.
LEMMA RequestedFields ==
  ASSUME Inv, NEW t \in Turns, NEW reason \in {"caller", "runtime"}
  PROVE  /\ Requested(t, reason) \in Turn
         /\ \A next : next = Requested(t, reason) =>
              /\ next.at = turn[t].at /\ next.foreign = turn[t].foreign
              /\ next.bound = turn[t].bound /\ next.busy = turn[t].busy
              /\ next.broken = turn[t].broken /\ next.intent = turn[t].intent
              /\ next.message = turn[t].message /\ next.report = turn[t].report
              /\ next.terminal = turn[t].terminal /\ next.outcome = turn[t].outcome
<1> DEFINE asked == [turn[t] EXCEPT !.cancel = reason]
<1>1. Requested(t, reason) = asked \/ Requested(t, reason) = turn[t]
  BY DEF Requested
<1>2. asked \in Turn
  BY Here, Updates
<1>3. /\ asked.at = turn[t].at /\ asked.foreign = turn[t].foreign
      /\ asked.bound = turn[t].bound /\ asked.busy = turn[t].busy
      /\ asked.broken = turn[t].broken /\ asked.intent = turn[t].intent
      /\ asked.message = turn[t].message /\ asked.report = turn[t].report
      /\ asked.terminal = turn[t].terminal /\ asked.outcome = turn[t].outcome
  BY Here DEF Turn
<1> HIDE DEF asked
<1> QED
  BY <1>1, <1>2, <1>3, Here

\* A caller cancels the turn.
LEMMA CancelKeeps ==
  ASSUME Inv, NEW t \in Turns, CancelTurn(t)
  PROVE  Inv'
<1> DEFINE next == Requested(t, "caller")
<1>1. /\ turn' = [turn EXCEPT ![t] = next] /\ budget' = budget /\ controller' = controller
      /\ log' = log /\ holder' = holder /\ sick' = sick /\ checkpoint' = checkpoint /\ UNCHANGED control
  BY DEF CancelTurn, session
<1>2. next \in Turn
  BY RequestedFields
<1>3. /\ next.at = turn[t].at /\ next.foreign = turn[t].foreign
      /\ next.bound = turn[t].bound /\ next.busy = turn[t].busy
      /\ next.broken = turn[t].broken /\ next.intent = turn[t].intent
      /\ next.message = turn[t].message /\ next.report = turn[t].report
      /\ next.terminal = turn[t].terminal /\ next.outcome = turn[t].outcome
  BY RequestedFields
<1> HIDE DEF next
<1>4. turn'[t] = next
  BY <1>1, Here
<1>5. Frame(t)
  BY <1>1, <1>2, Here DEF Frame, control
<1>6. Adds(t)
  BY <1>1, Unwritten
<1>7. Placed(t)'
  BY <1>1, <1>3, <1>4, StaysPlaced DEF control
<1>8. Rests(t) /\ (Gone(t)' => Gone(t))
  BY <1>1, <1>3, <1>4 DEF Rests, Gone, Incomplete
<1> QED
  BY <1>1, <1>5, <1>6, <1>7, <1>8, TableStays

\* A limit, a deadline, or the host's seal.
LEMMA SignalKeeps ==
  ASSUME Inv, NEW t \in Turns, StopBudget(t) \/ Seal(t)
  PROVE  Inv'
<1>1. PICK run \in Run : /\ budget' = [budget EXCEPT ![t] = run] /\ run.run = budget[t].run
                         /\ (budget[t].stopped => run.stopped)
  <2>1. CASE StopBudget(t)
    <3> DEFINE run == [budget[t] EXCEPT !.stopped = TRUE]
    <3>1. run \in Run /\ run.run = budget[t].run /\ run.stopped
      BY Here DEF Run
    <3>2. budget' = [budget EXCEPT ![t] = run]
      BY <2>1, Here DEF StopBudget
    <3> QED
      BY <3>1, <3>2
  <2>2. CASE Seal(t)
    <3> DEFINE run == [budget[t] EXCEPT !.sealed = TRUE]
    <3>1. run \in Run /\ run.run = budget[t].run /\ (budget[t].stopped => run.stopped)
      BY Here DEF Run
    <3>2. budget' = [budget EXCEPT ![t] = run]
      BY <2>2, Here DEF Seal
    <3> QED
      BY <3>1, <3>2
  <2> QED
    BY <2>1, <2>2
<1>2. /\ turn' = turn /\ controller' = controller /\ UNCHANGED control
      /\ log' = log /\ holder' = holder /\ sick' = sick /\ checkpoint' = checkpoint
  BY DEF StopBudget, Seal, session
<1>3. budget'[t] = run
  BY <1>1, Here
<1>4. Frame(t)
  BY <1>1, <1>2, Here DEF Frame, control
<1>5. Adds(t)
  BY <1>2, Unwritten
<1>6. Placed(t)'
  BY <1>1, <1>2, <1>3, StaysPlaced DEF control
<1>7. Rests(t) /\ (Gone(t)' => Gone(t))
  BY <1>2 DEF Rests, Gone, Incomplete
<1> QED
  BY <1>2, <1>4, <1>5, <1>6, <1>7, TableStays

\* Reading a result, or not wanting it, unsays nothing.
LEMMA ControllerKeeps ==
  ASSUME Inv, NEW t \in Turns, Read(t) \/ DropController(t)
  PROVE  Inv'
<1>1. PICK c \in Channels : /\ controller' = [controller EXCEPT ![t] = c]
                            /\ controller[t] \in {"sent", "read", "discarded"} =>
                                 c \in {"sent", "read", "discarded"}
  BY DEF Read, DropController, Channels
<1>2. /\ turn' = turn /\ budget' = budget /\ UNCHANGED control
      /\ log' = log /\ holder' = holder /\ sick' = sick /\ checkpoint' = checkpoint
  BY DEF Read, DropController, session
<1>3. controller'[t] = c
  BY <1>1, Here
<1>4. Frame(t)
  BY <1>1, <1>2, Here DEF Frame, control
<1>5. Adds(t)
  BY <1>2, Unwritten
<1>6. Placed(t)'
  BY <1>1, <1>2, <1>3, StaysPlaced, Here DEF control
<1>7. Rests(t) /\ (Gone(t)' => Gone(t))
  BY <1>2 DEF Rests, Gone, Incomplete
<1> QED
  BY <1>1, <1>2, <1>3, <1>4, <1>5, <1>6, <1>7, TableStays

\* The outcome is sent to the controller, or finds it gone.
LEMMA SendKeeps ==
  ASSUME Inv, NEW t \in Turns, Send(t)
  PROVE  Inv'
<1> DEFINE place == IF controller[t] = "waiting" THEN "leave" ELSE "undelivered"
<1> DEFINE next == [turn[t] EXCEPT !.at = place]
<1>1. /\ turn[t].at = "send" /\ turn' = [turn EXCEPT ![t] = next] /\ budget' = budget
      /\ log' = log /\ holder' = holder /\ sick' = sick /\ checkpoint' = checkpoint /\ UNCHANGED control
  BY Here DEF Send, At, session
<1>2. /\ controller' \in [Turns -> Channels] /\ \A s \in Turns : s # t => controller'[s] = controller[s]
      /\ place = "leave" => controller'[t] = "sent"
      /\ controller[t] \in {"sent", "read", "discarded"} => controller'[t] = controller[t]
  BY Here DEF Send, Channels
<1>3. place \in {"leave", "undelivered"}
  OBVIOUS
<1> HIDE DEF place
<1>4. next \in Turn
  BY <1>3, Here, Updates DEF Awaits
<1>5. /\ next.at = place
      /\ next.cancel = turn[t].cancel /\ next.foreign = turn[t].foreign
      /\ next.bound = turn[t].bound /\ next.busy = turn[t].busy
      /\ next.broken = turn[t].broken /\ next.intent = turn[t].intent
      /\ next.message = turn[t].message /\ next.report = turn[t].report
      /\ next.terminal = turn[t].terminal /\ next.outcome = turn[t].outcome
  BY Here DEF Turn
<1> HIDE DEF next
<1>6. turn'[t] = next
  BY <1>1, Here
<1>7. Frame(t)
  BY <1>1, <1>2, <1>4, Here DEF Frame, control
<1>8. Adds(t) /\ Committed(t)' = Committed(t)
  BY <1>1, Unwritten
<1>9. Stage(t)' /\ Judged(t)' /\ Running(t)' /\ Leasing(t)'
  BY <1>1, <1>2, <1>3, <1>5, <1>6, Here
     DEF Stage, Judged, Running, Leasing, Early, Open, Shut, Late, After, Leased, control
<1>10. Wrote(t)' /\ Alone(t)'
  BY <1>1, <1>3, <1>5, <1>6, <1>8, Here DEF Stage, Wrote, Alone, Early, Open, Shut, After, Late
<1>11. Recorded(t)'
  BY <1>1, <1>3, <1>5, <1>6, RecordedKept
<1>12. Rests(t) /\ ~Gone(t)'
  BY <1>1, <1>3, <1>5, <1>6 DEF Rests, Gone, Late
<1> QED
  BY <1>1, <1>7, <1>8, <1>9, <1>10, <1>11, <1>12, TableStays DEF Placed

\* The job leaves the table, with a failure that nobody took.
LEMMA LeaveKeeps ==
  ASSUME Inv, NEW t \in Turns, Leave(t)
  PROVE  Inv'
<1> DEFINE next == [turn[t] EXCEPT !.at = "gone"]
<1>1. /\ turn[t].at \in {"leave", "undelivered"} /\ turn' = [turn EXCEPT ![t] = next]
      /\ jobs' = jobs \ {t} /\ lifecycle' = lifecycle
      /\ stopper' = [stopper EXCEPT !.permit = @ \/ jobs = {t}]
      /\ budget' = budget /\ controller' = controller
      /\ log' = log /\ holder' = holder /\ sick' = sick /\ checkpoint' = checkpoint
  BY Here DEF Leave, session
<1>2. /\ \/ detached' = detached
         \/ detached' = detached \cup {t} /\ Cardinality(detached) < MaxDetached
      /\ turn[t].at = "undelivered" /\ Incomplete(t) =>
           t \in detached' \/ ~(Cardinality(detached) < MaxDetached)
  BY DEF Leave, At
<1>3. next \in Turn
  BY Here, Updates
<1>4. /\ next.at = "gone"
      /\ next.cancel = turn[t].cancel /\ next.foreign = turn[t].foreign
      /\ next.bound = turn[t].bound /\ next.busy = turn[t].busy
      /\ next.broken = turn[t].broken /\ next.intent = turn[t].intent
      /\ next.message = turn[t].message /\ next.report = turn[t].report
      /\ next.terminal = turn[t].terminal /\ next.outcome = turn[t].outcome
  BY Here DEF Turn
<1> HIDE DEF next
<1>5. turn'[t] = next
  BY <1>1, Here
<1>6. Frame(t)
  BY <1>1, <1>3, Here DEF Frame
<1>7. Adds(t) /\ Committed(t)' = Committed(t)
  BY <1>1, Unwritten
<1>8. Stage(t)' /\ Judged(t)' /\ Running(t)' /\ Leasing(t)'
  BY <1>1, <1>4, <1>5, Here
     DEF Stage, Judged, Running, Leasing, Early, Open, Shut, Late, After, Leased
<1>9. Wrote(t)' /\ Alone(t)'
  BY <1>1, <1>4, <1>5, <1>7, Here DEF Stage, Wrote, Alone, Early, Open, Shut, After, Late
<1>10. Recorded(t)'
  BY <1>1, <1>4, <1>5, RecordedKept
<1>11. Rests(t)
  BY <1>1, <1>4, <1>5 DEF Rests, Late
<1>12. t \in jobs
  BY <1>1, Here DEF Stage
<1>13. Gone(t)' => \/ controller'[t] \in {"sent", "read", "discarded"}
                   \/ t \in detached'
                   \/ Cardinality(detached) >= MaxDetached
  <2>1. Gone(t)' => Incomplete(t)
    BY <1>1, <1>4, <1>5, Here DEF Gone, Incomplete, Judged
  <2>2. turn[t].at = "leave" => controller'[t] \in {"sent", "read", "discarded"}
    BY <1>1, Here DEF Stage
  <2>3. Cardinality(detached) \in Nat /\ MaxDetached \in Nat
    BY FS_CardinalityType, BoundsAssumption DEF Inv, Finite
  <2> QED
    BY <1>1, <1>2, <2>1, <2>2, <2>3
<1> QED
  BY <1>1, <1>2, <1>6, <1>7, <1>8, <1>9, <1>10, <1>11, <1>12, <1>13, TableLeft DEF Placed

\* The checkpoint is ready only when the log was found closed.
LEMMA FinalizeKeeps ==
  ASSUME Inv, NEW t \in Turns, Finalize(t)
  PROVE  Inv'
<1>1. PICK out \in Outcomes : /\ turn' = [turn EXCEPT ![t] = [turn[t] EXCEPT !.at = "send", !.outcome = out]]
                              /\ out = "ok" => turn[t].outcome = "ok"
                              /\ out = "unwound" => turn[t].outcome = "unwound"
  <2>1. turn[t].outcome \in Outcomes
    BY Here DEF Turn
  <2>2. CASE turn' = [turn EXCEPT ![t].at = "send"]
    <3>1. [turn[t] EXCEPT !.at = "send"] = [turn[t] EXCEPT !.at = "send", !.outcome = turn[t].outcome]
      BY Here DEF Turn
    <3> DEFINE next == [turn[t] EXCEPT !.at = "send", !.outcome = turn[t].outcome]
    <3>2. turn' = [turn EXCEPT ![t] = next]
      BY <2>2, <3>1, Here
    <3> QED
      BY <2>1, <3>2
  <2>3. CASE turn' = [turn EXCEPT ![t].at = "send",
                                  ![t].outcome = IF @ = "recovery" THEN @ ELSE "durability"]
    <3> DEFINE new == IF turn[t].outcome = "recovery" THEN turn[t].outcome ELSE "durability"
    <3>1. new \in Outcomes /\ new \notin {"ok", "unwound"}
      BY DEF Outcomes
    <3>2. turn' = [turn EXCEPT ![t] = [turn[t] EXCEPT !.at = "send", !.outcome = new]]
      BY <2>3, Here
    <3> QED
      BY <3>1, <3>2
  <2> QED
    BY <2>2, <2>3 DEF Finalize
<1> DEFINE next == [turn[t] EXCEPT !.at = "send", !.outcome = out]
<1>2. /\ turn[t].at = "finalize" /\ turn' = [turn EXCEPT ![t] = next] /\ budget' = budget
      /\ log' = log /\ holder' = holder /\ sick' = sick
      /\ controller' = controller /\ UNCHANGED control
  BY <1>1 DEF Finalize, At, session
<1>3. next \in Turn
  <2>1. [turn[t] EXCEPT !.at = "send"] \in Turn
    BY Here, Updates DEF Awaits
  <2> QED
    BY <2>1, Updates
<1>4. /\ next.at = "send"
      /\ next.outcome = out
      /\ next.cancel = turn[t].cancel /\ next.foreign = turn[t].foreign
      /\ next.bound = turn[t].bound /\ next.busy = turn[t].busy
      /\ next.broken = turn[t].broken /\ next.intent = turn[t].intent
      /\ next.message = turn[t].message /\ next.report = turn[t].report
      /\ next.terminal = turn[t].terminal
  BY Here DEF Turn
<1> HIDE DEF next
<1>5. turn'[t] = next
  BY <1>2, Here
<1>6. Frame(t)
  BY <1>2, <1>3, Here DEF Frame, control
<1>7. Adds(t) /\ Committed(t)' = Committed(t)
  BY <1>2, Unwritten
<1>8. turn[t].busy = {}
  BY <1>2, Here DEF Stage, After, Late
<1>9. Stage(t)' /\ Judged(t)' /\ Running(t)' /\ Leasing(t)'
  BY <1>1, <1>2, <1>4, <1>5, Here
     DEF Stage, Judged, Running, Leasing, Early, Open, Shut, Late, After, Leased, control
<1>10. Wrote(t)' /\ Alone(t)'
  BY <1>2, <1>4, <1>5, <1>7, <1>8, Here DEF Wrote, Alone, Early, Open
<1>11. Recorded(t)'
  BY <1>1, <1>2, <1>4, <1>5, RecordedKept
<1>12. Rests(t) /\ ~Gone(t)'
  BY <1>2, <1>4, <1>5 DEF Rests, Gone, Late
<1>13. checkpoint' = checkpoint \/ (checkpoint' = "ready" /\ t \in Durable /\ Sealed(t)')
  <2>1. checkpoint' = checkpoint \/ (checkpoint' = "ready" /\ t \in Durable /\ Sealable(t))
    BY DEF Finalize
  <2>2. ASSUME Sealable(t) PROVE Sealed(t)'
    <3>1. PICK i \in Committed(t), j \in Committed(t) :
            /\ EndsWith(t, i, j)
            /\ {k \in Committed(t) : log[k].kind = "report"} = {i}
            /\ {k \in Committed(t) : log[k].kind = "terminal"} = {j}
            /\ log[i].drained /\ Agree(log[i], log[j])
      BY <2>2 DEF Sealable
    <3>2. log[i].kind = "report" /\ log[j].kind = "terminal"
      BY <3>1
    <3>3. EndsWith(t, i, j)'
      BY <1>2, <1>7, <3>1 DEF EndsWith
    <3>4. Agree(log[i], log[j])'
      BY <1>2, <3>1 DEF Agree
    <3> QED
      BY <1>2, <1>4, <1>5, <1>7, <1>8, <3>1, <3>2, <3>3, <3>4 DEF Sealed, Late
  <2> QED
    BY <2>1, <2>2
<1> QED
  BY <1>2, <1>6, <1>7, <1>9, <1>10, <1>11, <1>12, <1>13, TableStays, SMTT(30) DEF Placed

\* The runtime, and the call of stop, touch no more of a turn than its cancel.
LEMMA RuntimeKeeps ==
  ASSUME Inv, Start \/ Stop
  PROVE  Inv'
<1>1. UNCHANGED <<jobs, budget, controller, log, holder, sick, checkpoint>>
  BY DEF Start, Stop, StopBegin, StopLook, StopWake, StopTake, session
<1>2. turn' = turn \/ turn' = [t \in Turns |-> IF t \in jobs THEN Requested(t, "runtime") ELSE turn[t]]
  BY DEF Start, Stop, StopBegin, StopLook, StopWake, StopTake
<1>3. ASSUME NEW t \in Turns
      PROVE  /\ turn'[t] \in Turn
             /\ turn'[t].at = turn[t].at /\ turn'[t].foreign = turn[t].foreign
             /\ turn'[t].bound = turn[t].bound /\ turn'[t].busy = turn[t].busy
             /\ turn'[t].broken = turn[t].broken /\ turn'[t].intent = turn[t].intent
             /\ turn'[t].message = turn[t].message /\ turn'[t].report = turn[t].report
             /\ turn'[t].terminal = turn[t].terminal /\ turn'[t].outcome = turn[t].outcome
  <2>1. turn'[t] = turn[t] \/ turn'[t] = Requested(t, "runtime")
    BY <1>2
  <2> QED
    BY <2>1, RequestedFields, Here
<1>4. turn' \in [Turns -> Turn]
  BY <1>2, <1>3, Here DEF Inv, TypeOK
<1>5. \A t \in Turns : Placed(t)'
  BY <1>1, <1>3, StaysPlaced
<1>6. Logged'
  BY <1>1 DEF Inv, Logged, EnvelopeOrdered, BoundaryKept, Ending
<1>7. Ready'
  <2> SUFFICES ASSUME checkpoint = "ready" PROVE \E s \in Durable : Sealed(s)'
    BY <1>1 DEF Ready
  <2>1. PICK s \in Durable : Sealed(s)
    BY DEF Inv, Ready
  <2>2. s \in Turns
    BY SetsAssumption
  <2>3. Committed(s)' = Committed(s)
    BY <1>1 DEF Committed
  <2>4. PICK i \in Committed(s), j \in Committed(s) :
          /\ EndsWith(s, i, j) /\ log[i].kind = "report" /\ log[j].kind = "terminal"
          /\ log[i].drained /\ Agree(log[i], log[j])
    BY <2>1 DEF Sealed
  <2>5. EndsWith(s, i, j)' /\ Agree(log[i], log[j])'
    BY <1>1, <2>3, <2>4 DEF EndsWith, Agree
  <2>6. Sealed(s)'
    BY <1>1, <1>3, <2>1, <2>2, <2>3, <2>4, <2>5 DEF Sealed
  <2> QED
    BY <2>6
<1>8. /\ stopper \in [at : {"idle", "look", "wait", "take", "done"}, permit : BOOLEAN, told : SUBSET Turns]
      /\ detached \in SUBSET Turns /\ Stopping /\ Finite /\ Cardinality(detached) <= MaxDetached
  BY DEF Inv, TypeOK
<1>9. /\ lifecycle' \in {"constructed", "running", "stopping", "stopped"} /\ detached' \in SUBSET Turns
      /\ stopper' \in [at : {"idle", "look", "wait", "take", "done"}, permit : BOOLEAN, told : SUBSET Turns]
  BY <1>8 DEF Start, Stop, StopBegin, StopLook, StopWake, StopTake, Inv, TypeOK
<1>10. /\ detached' \cup stopper'.told = detached \cup stopper.told
       /\ detached' = detached \/ detached' = {}
       /\ stopper'.told = stopper.told \/ stopper'.told = detached
  <2>1. CASE StopTake
    <3>1. stopper.told = {}
      BY <1>8, <2>1 DEF StopTake, Stopping
    <3>2. stopper'.told = detached /\ detached' = {}
      BY <1>8, <2>1 DEF StopTake
    <3> QED
      BY <3>1, <3>2
  <2>2. CASE Start \/ StopBegin \/ StopLook \/ StopWake
    <3>1. stopper'.told = stopper.told /\ detached' = detached
      BY <1>8, <2>2 DEF Start, StopBegin, StopLook, StopWake
    <3> QED
      BY <3>1
  <2> QED
    BY <2>1, <2>2 DEF Stop
<1>11. IsFiniteSet({}) /\ Cardinality({}) = 0
  BY FS_EmptySet
<1>12. Finite' /\ Cardinality(detached') <= MaxDetached
  BY <1>1, <1>8, <1>10, <1>11, BoundsAssumption DEF Finite
<1>13. TypeOK'
  BY <1>1, <1>4, <1>9, <1>12 DEF Inv, TypeOK
<1>14. Stopping'
  BY <1>1, <1>8, <1>9 DEF Start, Stop, StopBegin, StopLook, StopWake, StopTake, Stopping
<1>15. FailureKept'
  <2> SUFFICES ASSUME NEW s \in Turns, Gone(s)' PROVE Told(s)'
    BY DEF FailureKept, Gone, Told, At
  <2>1. Gone(s)
    BY <1>3 DEF Gone, Incomplete
  <2>2. Told(s)
    BY <2>1 DEF Inv, FailureKept, Gone, Told, At
  <2> QED
    BY <1>1, <1>10, <2>2 DEF Told
<1> QED
  BY <1>5, <1>6, <1>7, <1>12, <1>13, <1>14, <1>15 DEF Inv

\* Nothing happens.
LEMMA StutterKeeps ==
  ASSUME Inv, UNCHANGED vars
  PROVE  Inv'
<1>1. UNCHANGED <<lifecycle, jobs, detached, stopper, turn, budget, controller, log, holder, sick, checkpoint>>
  BY DEF vars, control, session
<1>2. TypeOK' /\ Finite' /\ Stopping' /\ FailureKept'
  BY <1>1 DEF Inv, TypeOK, Finite, Stopping, FailureKept, At, Incomplete
<1>3. \A t \in Turns : Placed(t)'
  BY <1>1, StaysPlaced
<1>4. Logged'
  BY <1>1 DEF Inv, Logged, EnvelopeOrdered, BoundaryKept, Ending
<1>5. Ready'
  BY <1>1 DEF Inv, Ready, Sealed, EndsWith, Agree, Committed
<1> QED
  BY <1>2, <1>3, <1>4, <1>5 DEF Inv

\* Every step of the runtime keeps the invariant.
LEMMA StepKeeps == Inv /\ [Next]_vars => Inv'
<1> SUFFICES ASSUME Inv, [Next]_vars PROVE Inv'
  OBVIOUS
<1>1. CASE Start \/ Stop
  BY <1>1, RuntimeKeeps
<1>2. CASE Terminated \/ UNCHANGED vars
  BY <1>2, StutterKeeps DEF Terminated
<1>3. ASSUME NEW t \in Turns, Drive(t) PROVE Inv'
  <2>1. CASE NotAdmitted(t) \/ Admit(t) \/ SettleBoundary(t) \/ RecordUser(t)
    BY <2>1, NotAdmittedKeeps, AdmitKeeps, SettleBoundaryKeeps, RecordUserKeeps
  <2>2. CASE BodyInterrupted(t)
    BY <2>2, BodyEndsKeeps DEF BodyInterrupted, Dispositions
  <2>3. CASE FinishModels(t) \/ FinishTools(t) \/ BeginCleanup(t) \/ RecordMessage(t) \/ Prepare(t)
    BY <2>3, FinishModelsKeeps, FinishToolsKeeps, BeginCleanupKeeps, RecordMessageKeeps, PrepareKeeps
  <2>4. CASE RecordReport(t) \/ RecordTerminal(t) \/ Settle(t)
    BY <2>4, RecordReportKeeps, RecordTerminalKeeps, SettleKeeps
  <2>5. CASE Finalize(t) \/ Send(t) \/ Leave(t)
    BY <2>5, FinalizeKeeps, SendKeeps, LeaveKeeps
  <2> QED
    BY <1>3, <2>1, <2>2, <2>3, <2>4, <2>5 DEF Drive
<1>4. ASSUME NEW t \in Turns, Host(t) PROVE Inv'
  BY <1>4, StartTurnKeeps, CancelKeeps, SignalKeeps, ControllerKeeps DEF Host
<1>5. ASSUME NEW t \in Turns, Around(t) PROVE Inv'
  <2>1. CASE StopBudget(t) \/ Emit(t) \/ Unwind(t)
    BY <2>1, SignalKeeps, EmitKeeps, UnwindKeeps
  <2>2. CASE BodyReturns(t)
    BY <2>2, BodyEndsKeeps DEF BodyReturns
  <2>3. CASE \E cap \in Capabilities : CallOut(t, cap) \/ Record(t, cap)
    BY <2>3, CallOutKeeps, RecordKeeps
  <2> QED
    BY <1>5, <2>1, <2>2, <2>3 DEF Around
<1> QED
  BY <1>1, <1>2, <1>3, <1>4, <1>5 DEF Next

-----------------------------------------------------------------------------
(***************************************************************************)
(* What follows for every behaviour.                                       *)
(***************************************************************************)
LEMMA Invariance == Spec => []Inv
<1> QED
  BY InitInv, StepKeeps, PTL DEF Spec

\* Every variable keeps its type, and neither the table of jobs nor the
\* failures kept for stop outgrow their bounds.
THEOREM TypesCorrect == Spec => []TypeOK
<1>1. Inv => TypeOK
  BY DEF Inv
<1> QED
  BY <1>1, Invariance, PTL

\* What a turn, its controller and the runtime are told is so: a turn that is
\* reported done is done and has closed its log, the lease comes back on every
\* path, and a failure that leaves the log or the checkpoint open is told.
THEOREM OutcomesAreTrue == Spec => []ToldTruly
<1>1. ASSUME Inv PROVE OkIsTrue
  <2> SUFFICES ASSUME NEW t \in Turns, turn[t].outcome = "ok"
               PROVE  /\ turn[t].broken = {} /\ turn[t].busy = {}
                      /\ turn[t].intent \in {"completed", "cancelled"}
                      /\ turn[t].report = "ok" /\ holder # t
                      /\ turn[t].intent = "completed" => turn[t].message = "ok"
                      /\ (t \in Durable \/ turn[t].terminal = "ok") =>
                           \E i, j \in Committed(t) :
                             EndsWith(t, i, j) /\ log[i].kind = "report"
                             /\ log[j] = Terminal(t, turn[t].intent)
    BY DEF OkIsTrue
  <2>1. /\ turn[t].at \in After /\ turn[t].busy = {} /\ turn[t].broken = {}
        /\ turn[t].intent \in {"completed", "cancelled"} /\ turn[t].report = "ok"
        /\ turn[t].intent = "completed" => turn[t].message = "ok"
        /\ t \in Durable => turn[t].terminal = "ok"
    BY <1>1, Here DEF Judged
  <2>2. holder # t
    BY <1>1, <2>1, Here DEF Leasing, Leased, Early, Open, Shut, After, Late
  <2>3. turn[t].terminal = "ok" => \E i, j \in Committed(t) : Closes(t, i, j)
    BY <1>1, <2>1, Here DEF Recorded
  <2> QED
    BY <2>1, <2>2, <2>3 DEF Closes
<1>2. ASSUME Inv PROVE LeaseComesBack
  <2>1. ASSUME NEW t \in Turns, holder = t
        PROVE  /\ t \in jobs \/ turn[t].busy # {}
               /\ t \in jobs => budget[t].run \in {"open", "cleaning", "reported"}
    <3>1. turn[t].at \in Leased \/ turn[t].busy # {}
      BY <1>2, <2>1, Here DEF Leasing
    <3>2. turn[t].busy # {} => turn[t].at \in Leased \/ turn[t].at = "gone"
      BY <1>2, Here DEF Stage, Turn, Awaits, Early, Open, Shut, After, Late, Leased
    <3>3. turn[t].at \in Leased => t \in jobs /\ budget[t].run \in {"open", "cleaning", "reported"}
      BY <1>2, Here DEF Stage, Running, Leased, Open, Shut
    <3>4. turn[t].at = "gone" => t \notin jobs
      BY <1>2, Here DEF Stage
    <3> QED
      BY <3>1, <3>2, <3>3, <3>4
  <2>2. \A t \in Turns : At(t, "gone") => budget[t].run \in {"finished", "abandoned"}
    BY <1>2, Here DEF Running, After, Late, At
  <2>3. holder \in Turns \cup {Nobody} /\ jobs \subseteq Turns
    BY <1>2 DEF Inv, TypeOK
  <2> QED
    BY <2>1, <2>2, <2>3 DEF LeaseComesBack
<1>3. Inv => ToldTruly
  BY <1>1, <1>2 DEF Inv, ToldTruly
<1> QED
  BY <1>3, Invariance, PTL

\* What the log and the checkpoint say of the turns is in order: no turn's
\* events mix with another's or follow what closes it, a durable turn writes
\* only where its claim left the log, and a checkpoint is ready only when the
\* log ends the turn that had it.
THEOREM RecordsAreSound == Spec => []RecordSound
<1>1. ASSUME Inv, checkpoint = "ready" PROVE ReadyIsClosed
  <2>1. PICK t \in Durable : Sealed(t)
    BY <1>1 DEF Inv, Ready
  <2>2. t \in Turns
    BY SetsAssumption
  <2>3. holder # t
    BY <1>1, <2>1, <2>2, Here DEF Sealed, Leasing, Leased, Early, Open, Shut, Late
  <2> QED
    BY <2>1, <2>3 DEF ReadyIsClosed, Sealed
<1>2. Inv => RecordSound
  BY <1>1 DEF Inv, Logged, RecordSound, ReadyIsClosed
<1> QED
  BY <1>2, Invariance, PTL
=============================================================================
