------------------------ MODULE TaskCoordinatorProofs ------------------------
(***************************************************************************)
(* Proofs about TaskCoordinator, for any number of coordinators and turns: *)
(* what a turn continues, who holds the claim, what a snapshot says, what  *)
(* may yet be published, and what a cancel and a close may rely on; and,   *)
(* from InOrder on, about TaskHistory: which histories the assessment      *)
(* accepts and what it says of them.                                       *)
(***************************************************************************)
EXTENDS TaskCoordinator, TaskHistory, FiniteSetTheorems, TLAPS

\* A snapshot that is true to the stores stays so: they only grow.
Faithful(s) ==
  /\ s.cursor <= budget.anchor /\ s.budget <= budget.revision
  /\ s.phase = Phase(SubSeq(log, 1, s.cursor))

Books ==
  /\ Len(log) <= MaxTurns /\ budget.anchor <= Len(log)
  /\ Faithful(state) /\ \A k \in kept : Faithful(k)
  /\ \A c \in Coordinators : /\ work[c].budget.anchor <= budget.anchor
                             /\ work[c].budget.revision <= budget.revision

\* From its checks on a worker knows which turn it continues; while its own turn
\* is open that is the last one.
Checked == {"policy", "claim", "recheck", "restate", "start", "publish", "look"}
Asked ==
  \A c \in Coordinators :
    /\ work[c].at \in {"budget", "history"} => work[c].snapshot.phase \in Continued
    /\ work[c].at \in Checked \/ open = c =>
         /\ work[c].snapshot.phase \in Continued
         /\ work[c].snapshot.cursor = work[c].budget.anchor
         /\ work[c].snapshot.phase = Phase(SubSeq(log, 1, work[c].snapshot.cursor))
    /\ open = c => work[c].budget.anchor = Len(log) /\ work[c].at \in {"publish", "look", "wait"}

\* The claim that nobody else can take while it is held.
Holder(c) == work[c].at \in {"recheck", "restate", "start"} \/ open = c
Exclusive ==
  \A c \in Coordinators : Holder(c) =>
    ~budget.ready /\ \A d \in Coordinators : Holder(d) => d = c

\* A request is seen by the worker or brought by its caller.
Heard ==
  \A c \in Coordinators :
    /\ cancel[c].caller # "none" => cancel[c].requested
    /\ work[c].at \in {"look", "wait"} => cancel[c].turn
    /\ work[c].at = "wait" /\ cancel[c].requested => work[c].cancelled \/ cancel[c].caller = "look"

Drained ==
  \A c \in Coordinators :
    /\ control[c].active <=> work[c].at # "idle"
    /\ closing[c].at # "idle" => ~control[c].accepting
    /\ closing[c].at = "done" => ~control[c].active

Inv == TypeOK /\ Books /\ ContinuesTail /\ Asked /\ Exclusive /\ Heard /\ Drained

-----------------------------------------------------------------------------
(***************************************************************************)
(* The log, and the stores read from it.                                   *)
(***************************************************************************)
Closed == [status : Statuses, continued : 0 .. MaxTurns]

\* What was the tail keeps its phase.
LEMMA PhaseOfPrefix ==
  ASSUME NEW tail \in Seq(Closed), NEW turn \in Closed, NEW n \in 0 .. Len(tail)
  PROVE  /\ SubSeq(Append(tail, turn), 1, n) = SubSeq(tail, 1, n)
         /\ SubSeq(tail, 1, Len(tail)) = tail
  OBVIOUS

\* A phase is one of the snapshot's.
LEMMA PhaseTyped ==
  ASSUME NEW tail \in Seq(Closed)
  PROVE  Phase(tail) \in Statuses \cup {"created"}
<1>1. CASE tail = <<>>
  BY <1>1 DEF Phase
<1>2. CASE tail # <<>>
  <2>1. tail[Len(tail)] \in Closed
    BY <1>2
  <2> QED
    BY <1>2, <2>1 DEF Phase, Closed
<1> QED
  BY <1>1, <1>2

\* What is captured is a snapshot, and true.
LEMMA CaptureIsFaithful ==
  ASSUME Inv, NEW image \in Budget, image.anchor <= budget.anchor, image.revision <= budget.revision,
         Capturable(image, log, open), NEW revision \in Nat, revision + 1 <= MaxRevision
  PROVE  Capture(revision, image, log) \in Snapshot /\ Faithful(Capture(revision, image, log))
<1>1. log \in Seq(Closed) /\ Len(log) \in Nat /\ image.anchor = Len(log)
  BY DEF Inv, TypeOK, Closed, Capturable, AtTail
<1>2. Phase(log) \in Statuses \cup {"created"} /\ SubSeq(log, 1, Len(log)) = log
  BY <1>1, PhaseTyped, PhaseOfPrefix
<1>3. image.anchor \in 0 .. MaxTurns /\ image.revision \in 1 .. MaxBudget /\ revision + 1 \in 1 .. MaxRevision
  BY BoundsAssumption DEF Budget
<1>4. Capture(revision, image, log) \in Snapshot
  BY <1>2, <1>3 DEF Capture, Snapshot
<1> QED
  BY <1>1, <1>2, <1>4 DEF Capture, Faithful

-----------------------------------------------------------------------------
(***************************************************************************)
(* A worker.                                                               *)
(***************************************************************************)
Workers == [Coordinators -> [at : Steps, snapshot : Snapshot, budget : Budget, cancelled : BOOLEAN]]

Controls == [Coordinators -> [accepting : BOOLEAN, active : BOOLEAN]]

\* The worker of c is at `at`, and no other has moved.
Moved(c, at) ==
  /\ work' \in Workers /\ work'[c].at = at
  /\ work'[c].snapshot = work[c].snapshot /\ work'[c].budget = work[c].budget
  /\ work'[c].cancelled = work[c].cancelled
  /\ \A d \in Coordinators \ {c} : work'[d] = work[d]

\* A worker that goes to another place keeps the rest of what it has.
LEMMA GoMoves ==
  ASSUME TypeOK, NEW c \in Coordinators, NEW at \in Steps, Go(c, at)
  PROVE  Moved(c, at)
<1>1. work \in Workers /\ work[c] \in [at : Steps, snapshot : Snapshot, budget : Budget, cancelled : BOOLEAN]
  BY DEF TypeOK, Workers
<1>2. work' = [work EXCEPT ![c] = [work[c] EXCEPT !.at = at]]
  BY DEF Go
<1> QED
  BY <1>1, <1>2 DEF Moved, Workers

\* A step of a worker that only moves, and neither takes nor has a claim by it.
LEMMA Moves ==
  ASSUME Inv, NEW c \in Coordinators, NEW at \in Steps, Moved(c, at),
         UNCHANGED <<log, open, budget, control, closing>>, work[c].at # "idle", at # "idle",
         at \in {"recheck", "restate", "start"} => Holder(c),
         open = c => at \in {"publish", "look", "wait"},
         at \in Checked => /\ work[c].snapshot.phase \in Continued
                           /\ work[c].snapshot.cursor = work[c].budget.anchor
                           /\ work[c].snapshot.phase = Phase(SubSeq(log, 1, work[c].snapshot.cursor)),
         at \in {"budget", "history"} => work[c].snapshot.phase \in Continued
  PROVE  ContinuesTail' /\ Asked' /\ Exclusive' /\ Drained'
<1> USE DEF Inv
<1>1. ContinuesTail'
  BY DEF ContinuesTail
<1>2. Asked'
  BY DEF Asked, Moved
<1>3. Exclusive'
  <2>1. \A d \in Coordinators : Holder(d)' => Holder(d)
    BY DEF Holder, Moved
  <2> QED
    BY <2>1 DEF Exclusive
<1>4. Drained'
  BY DEF Drained, Moved
<1> QED
  BY <1>1, <1>2, <1>3, <1>4

\* The rest of the invariant, where nothing else is touched.
LEMMA MovesQuietly ==
  ASSUME Inv, NEW c \in Coordinators, NEW at \in Steps \ {"look", "wait"}, Moved(c, at),
         UNCHANGED <<stores, control, cancel, closing>>
  PROVE  TypeOK' /\ Books' /\ Heard'
<1> USE DEF Inv, stores
<1>1. TypeOK'
  BY DEF TypeOK, Moved, Workers
<1>2. Books'
  BY DEF Books, Faithful, Moved
<1>3. Heard'
  BY DEF Heard, Moved
<1> QED
  BY <1>1, <1>2, <1>3

\* What a worker is before it is started.
LEMMA IdleTyped == Idle \in [at : Steps, snapshot : Snapshot, budget : Budget, cancelled : BOOLEAN]
<1>1. FirstState \in Snapshot /\ FirstBudget \in Budget
  BY BoundsAssumption DEF FirstState, FirstBudget, Snapshot, Budget
<1>2. "idle" \in Steps
  BY DEF Steps
<1> QED
  BY <1>1, <1>2 DEF Idle

\* A worker, through its checks, its claim and its turn, to the snapshot it commits.
LEMMA WorkerStep ==
  ASSUME Inv, NEW c \in Coordinators, Worker(c)
  PROVE  Inv'
<1> USE DEF Inv, stores
<1>1. /\ work \in Workers /\ work[c].at \in Steps /\ work[c].snapshot \in Snapshot /\ work[c].budget \in Budget
      /\ budget \in Budget /\ state \in Snapshot
  BY DEF TypeOK, Workers
<1>2. CASE LoadState(c)
  <2> PICK at : at = IF cancel[c].requested \/ state.phase \notin Continued THEN "end" ELSE "budget"
    OBVIOUS
  <2>1. work' = [work EXCEPT ![c] = [work[c] EXCEPT !.snapshot = state, !.at = at]]
    BY <1>2 DEF LoadState
  <2>2. /\ work[c].at = "state" /\ at \in {"end", "budget"} /\ (at = "budget" => state.phase \in Continued)
        /\ UNCHANGED <<log, open, budget, state, kept, control, cancel, closing>>
    BY <1>2 DEF LoadState
  <2>3. /\ work' \in Workers /\ work'[c].at = at /\ work'[c].snapshot = state
        /\ work'[c].budget = work[c].budget /\ work'[c].cancelled = work[c].cancelled
        /\ \A d \in Coordinators \ {c} : work'[d] = work[d]
    BY <1>1, <2>1, <2>2 DEF Workers, Steps
  <2>4. open # c
    BY <2>2 DEF Asked
  <2>5. TypeOK'
    BY <2>2, <2>3 DEF TypeOK, Workers
  <2>6. Books' /\ ContinuesTail'
    BY <2>2, <2>3 DEF Books, Faithful, ContinuesTail
  <2>7. Asked'
    BY <2>2, <2>3, <2>4 DEF Asked, Checked
  <2>8. Exclusive'
    BY <2>2, <2>3, <2>4 DEF Exclusive, Holder
  <2>9. Heard' /\ Drained'
    BY <2>2, <2>3 DEF Heard, Drained
  <2> QED
    BY <2>5, <2>6, <2>7, <2>8, <2>9
<1>3. CASE LoadBudget(c) \/ PublishEvidence(c)
  <2> PICK at : at = IF work[c].at = "budget" THEN "history" ELSE "capture"
    OBVIOUS
  <2>1. /\ work' = [work EXCEPT ![c] = [work[c] EXCEPT !.budget = budget, !.at = at]]
        /\ work[c].at \in {"budget", "evidence"}
        /\ UNCHANGED <<log, open, budget, state, kept, control, cancel, closing>>
    BY <1>3 DEF LoadBudget, PublishEvidence
  <2>2. /\ work' \in Workers /\ work'[c].at = at /\ work'[c].snapshot = work[c].snapshot
        /\ work'[c].budget = budget /\ work'[c].cancelled = work[c].cancelled
        /\ \A d \in Coordinators \ {c} : work'[d] = work[d]
    BY <1>1, <2>1 DEF Workers, Steps
  <2>3. open # c
    BY <2>1 DEF Asked
  <2>4. TypeOK'
    BY <2>1, <2>2 DEF TypeOK, Workers
  <2>5. budget.anchor <= budget.anchor /\ budget.revision <= budget.revision
    BY <1>1, BoundsAssumption DEF Budget
  <2>6. Books' /\ ContinuesTail'
    BY <2>1, <2>2, <2>5 DEF Books, Faithful, ContinuesTail
  <2>7. Asked'
    BY <2>1, <2>2, <2>3 DEF Asked, Checked
  <2>8. Exclusive'
    BY <2>1, <2>2, <2>3 DEF Exclusive, Holder
  <2>9. Heard' /\ Drained'
    BY <2>1, <2>2 DEF Heard, Drained
  <2> QED
    BY <2>4, <2>6, <2>7, <2>8, <2>9
<1>4. CASE LoadHistory(c)
  <2> PICK at : at = IF Verified(work[c].snapshot, work[c].budget, log, open) THEN "policy" ELSE "end"
    OBVIOUS
  <2>1. Moved(c, at) /\ at \in Steps \ {"look", "wait"} /\ work[c].at = "history"
        /\ UNCHANGED <<stores, control, cancel, closing>>
    BY <1>4, GoMoves DEF LoadHistory, Steps
  <2>2. open # c
    BY <2>1 DEF Asked
  <2>3. ASSUME at = "policy"
        PROVE  /\ work[c].snapshot.cursor = work[c].budget.anchor
               /\ work[c].snapshot.phase = Phase(SubSeq(log, 1, work[c].snapshot.cursor))
    <3>1. /\ Capture(work[c].snapshot.revision - 1, work[c].budget, log) = work[c].snapshot
          /\ work[c].budget.anchor = Len(log)
      BY <2>3 DEF Verified, Capturable, AtTail
    <3>2. work[c].snapshot.cursor = work[c].budget.anchor /\ work[c].snapshot.phase = Phase(log)
      BY <3>1 DEF Capture
    <3>3. SubSeq(log, 1, Len(log)) = log
      BY PhaseOfPrefix DEF TypeOK, Closed
    <3> QED
      BY <3>1, <3>2, <3>3
  <2>4. work[c].snapshot.phase \in Continued
    BY <2>1 DEF Asked
  <2>5. TypeOK' /\ Books' /\ Heard'
    BY <2>1, MovesQuietly
  <2>6. ContinuesTail' /\ Asked' /\ Exclusive' /\ Drained'
    BY <2>1, <2>2, <2>3, <2>4, Moves DEF Checked
  <2> QED
    BY <2>5, <2>6
<1>5. CASE Authorized(c) \/ Recheck(c) \/ Restate(c) \/ Fail(c)
  <2>1. PICK at \in {"end", "claim", "restate", "start"} :
          /\ Go(c, at) /\ UNCHANGED <<stores, control, cancel, closing>>
          /\ at = "claim" => work[c].at = "policy"
          /\ at \in {"restate", "start"} => work[c].at \in {"recheck", "restate"}
          /\ work[c].at \in {"state", "budget", "history", "policy", "claim", "recheck", "restate",
                             "evidence", "capture"}
    BY <1>5 DEF Authorized, Recheck, Restate, Fail
  <2>2. Moved(c, at) /\ at \in Steps \ {"look", "wait"}
    BY <2>1, GoMoves DEF Steps
  <2>3. open # c
    BY <2>1 DEF Asked
  <2>4. TypeOK' /\ Books' /\ Heard'
    BY <2>1, <2>2, MovesQuietly
  <2>5. at # "end" => /\ work[c].snapshot.phase \in Continued
                      /\ work[c].snapshot.cursor = work[c].budget.anchor
                      /\ work[c].snapshot.phase = Phase(SubSeq(log, 1, work[c].snapshot.cursor))
    BY <2>1 DEF Asked, Checked
  <2>6. ContinuesTail' /\ Asked' /\ Exclusive' /\ Drained'
    BY <2>1, <2>2, <2>3, <2>5, Moves DEF Checked, Holder
  <2> QED
    BY <2>4, <2>6
<1>6. CASE Claim(c)
  <2>1. PICK at \in {"recheck", "end"} : Go(c, at)
    BY <1>6 DEF Claim
  <2>2. Moved(c, at)
    BY <2>1, GoMoves DEF Steps
  <2>3. /\ work[c].at = "claim" /\ budget.ready /\ budget.revision < MaxBudget
        /\ budget' = [budget EXCEPT !.revision = @ + 1, !.ready = FALSE]
        /\ UNCHANGED <<log, open, state, kept, control, cancel, closing>>
    BY <1>6 DEF Claim
  <2>4. /\ budget' \in Budget /\ budget'.revision = budget.revision + 1 /\ ~budget'.ready
        /\ budget'.anchor = budget.anchor /\ budget.revision \in Nat
    <3>1. budget.revision \in Nat /\ budget.revision + 1 \in 1 .. MaxBudget
      BY <1>1, <2>3, BoundsAssumption DEF Budget
    <3>2. budget' = [budget EXCEPT !.revision = budget.revision + 1, !.ready = FALSE]
      BY <2>3
    <3> QED
      BY <1>1, <3>1, <3>2 DEF Budget
  <2>5. \A d \in Coordinators : ~Holder(d) /\ open # d
    BY <2>3 DEF Exclusive, Holder
  <2>6. TypeOK'
    BY <2>2, <2>3, <2>4 DEF TypeOK, Moved, Workers
  <2>7. Books' /\ ContinuesTail'
    <3>1. \A s \in Snapshot : s.budget \in Nat
      BY DEF Snapshot
    <3>2. \A d \in Coordinators : work[d].budget.revision \in Nat
      BY DEF TypeOK, Budget
    <3>3. state \in Snapshot /\ kept \subseteq Snapshot
      BY DEF TypeOK
    <3> QED
      BY <2>2, <2>3, <2>4, <3>1, <3>2, <3>3 DEF Books, Faithful, Moved, ContinuesTail
  <2>8. Asked'
    BY <2>2, <2>3, <2>5 DEF Asked, Checked, Moved
  <2>9. Exclusive'
    <3>1. \A d \in Coordinators : Holder(d)' => d = c
      BY <2>2, <2>3, <2>5 DEF Holder, Moved
    <3> QED
      BY <2>4, <3>1 DEF Exclusive
  <2>10. Heard' /\ Drained'
    BY <2>2, <2>3 DEF Heard, Drained, Moved
  <2> QED
    BY <2>6, <2>7, <2>8, <2>9, <2>10
<1>7. CASE StartTurn(c)
  <2>1. CASE Go(c, "evidence") /\ UNCHANGED open
    <3>1. Moved(c, "evidence") /\ work[c].at = "start" /\ UNCHANGED <<stores, control, cancel, closing>>
      BY <1>7, <2>1, GoMoves DEF StartTurn, Steps
    <3>2. open # c
      BY <3>1 DEF Asked
    <3>3. TypeOK' /\ Books' /\ Heard'
      BY <3>1, MovesQuietly DEF Steps
    <3>4. ContinuesTail' /\ Asked' /\ Exclusive' /\ Drained'
      BY <3>1, <3>2, Moves DEF Checked, Steps
    <3> QED
      BY <3>3, <3>4
  <2>2. CASE Go(c, "publish") /\ open' = c /\ AtTail(work[c].budget, log, open)
    <3>1. /\ Moved(c, "publish") /\ work[c].at = "start" /\ work[c].budget.anchor = Len(log)
          /\ open = Nobody /\ UNCHANGED <<log, budget, state, kept, control, cancel, closing>>
      BY <1>7, <2>2, GoMoves DEF StartTurn, Steps, AtTail
    <3>2. TypeOK'
      BY <2>2, <3>1 DEF TypeOK, Moved, Workers
    <3>3. Books' /\ ContinuesTail'
      BY <3>1 DEF Books, Faithful, Moved, ContinuesTail
    <3>4. Asked'
      BY <2>2, <3>1 DEF Asked, Checked, Moved
    <3>5. Exclusive'
      <4>1. Holder(c) /\ \A d \in Coordinators : Holder(d)' => d = c \/ Holder(d)
        BY <2>2, <3>1 DEF Holder, Moved
      <4> QED
        BY <3>1, <4>1 DEF Exclusive
    <3>6. Heard' /\ Drained'
      BY <3>1 DEF Heard, Drained, Moved
    <3> QED
      BY <3>2, <3>3, <3>4, <3>5, <3>6
  <2> QED
    BY <1>7, <2>1, <2>2 DEF StartTurn
<1>8. CASE Publish(c)
  <2>1. Moved(c, "look") /\ work[c].at = "publish" /\ UNCHANGED <<stores, control, closing>>
    BY <1>8, GoMoves DEF Publish, Steps
  <2>2. /\ cancel' \in [Coordinators -> [requested : BOOLEAN, turn : BOOLEAN, caller : {"none", "look", "done"}]]
        /\ cancel'[c].turn /\ cancel'[c].requested = cancel[c].requested /\ cancel'[c].caller = cancel[c].caller
        /\ \A d \in Coordinators \ {c} : cancel'[d] = cancel[d]
    <3>1. cancel' = [cancel EXCEPT ![c] = [cancel[c] EXCEPT !.turn = TRUE]]
      BY <1>8 DEF Publish
    <3> QED
      BY <3>1 DEF TypeOK
  <2>3. TypeOK' /\ Books'
    BY <2>1, <2>2 DEF TypeOK, Books, Faithful, Moved, Workers
  <2>4. work[c].at \in Checked
    BY <2>1 DEF Checked
  <2>5. ContinuesTail' /\ Asked' /\ Exclusive' /\ Drained'
    BY <2>1, <2>4, Moves DEF Asked, Steps
  <2>6. Heard'
    BY <2>1, <2>2 DEF Heard, Moved
  <2> QED
    BY <2>3, <2>5, <2>6
<1>9. CASE Look(c)
  <2>1. /\ work' = [work EXCEPT ![c] = [work[c] EXCEPT !.at = "wait", !.cancelled = @ \/ cancel[c].requested]]
        /\ work[c].at = "look" /\ UNCHANGED <<log, open, budget, state, kept, control, cancel, closing>>
    BY <1>9 DEF Look
  <2>2. /\ work' \in Workers /\ work'[c].at = "wait" /\ work'[c].snapshot = work[c].snapshot
        /\ work'[c].budget = work[c].budget
        /\ work'[c].cancelled = (work[c].cancelled \/ cancel[c].requested)
        /\ \A d \in Coordinators \ {c} : work'[d] = work[d]
    BY ZenonT(40), <1>1, <2>1 DEF Workers, Steps, TypeOK
  <2>3. TypeOK' /\ Books' /\ ContinuesTail'
    BY <2>1, <2>2 DEF TypeOK, Books, Faithful, Workers, ContinuesTail
  <2>4. Asked'
    BY <2>1, <2>2 DEF Asked, Checked
  <2>5. Exclusive'
    BY <2>1, <2>2 DEF Exclusive, Holder
  <2>6. Heard'
    BY <2>1, <2>2 DEF Heard
  <2>7. Drained'
    BY <2>1, <2>2 DEF Drained
  <2> QED
    BY <2>3, <2>4, <2>5, <2>6, <2>7
<1>10. CASE Waited(c)
  <2>1. Moved(c, "evidence") /\ work[c].at = "wait" /\ open # c /\ UNCHANGED <<stores, control, closing>>
    BY <1>10, GoMoves DEF Waited, Steps
  <2>2. /\ cancel' \in [Coordinators -> [requested : BOOLEAN, turn : BOOLEAN, caller : {"none", "look", "done"}]]
        /\ cancel'[c].requested = cancel[c].requested /\ cancel'[c].caller = cancel[c].caller
        /\ \A d \in Coordinators \ {c} : cancel'[d] = cancel[d]
    <3>1. cancel' = [cancel EXCEPT ![c] = [cancel[c] EXCEPT !.turn = FALSE]]
      BY <1>10 DEF Waited
    <3> QED
      BY <3>1 DEF TypeOK
  <2>3. TypeOK' /\ Books'
    BY <2>1, <2>2 DEF TypeOK, Books, Faithful, Moved, Workers
  <2>4. ContinuesTail' /\ Asked' /\ Exclusive' /\ Drained'
    BY <2>1, Moves DEF Checked, Steps
  <2>5. Heard'
    BY <2>1, <2>2 DEF Heard, Moved
  <2> QED
    BY <2>3, <2>4, <2>5
<1>11. CASE Commit(c)
  <2> PICK candidate : candidate = Capture(work[c].snapshot.revision, work[c].budget, log)
    OBVIOUS
  <2>1. Moved(c, "end") /\ work[c].at = "capture" /\ UNCHANGED <<log, open, budget, control, cancel, closing>>
    BY <1>11, GoMoves DEF Commit, Steps
  <2>2. \/ UNCHANGED <<state, kept>>
        \/ /\ Capturable(work[c].budget, log, open) /\ candidate.revision <= MaxRevision
           /\ state' \in {state, candidate} /\ kept' \subseteq kept \cup {candidate}
    BY <1>11 DEF Commit
  <2>3. ASSUME Capturable(work[c].budget, log, open), candidate.revision <= MaxRevision
        PROVE  candidate \in Snapshot /\ Faithful(candidate)
    <3>1. work[c].budget.anchor <= budget.anchor /\ work[c].budget.revision <= budget.revision
      BY DEF Books
    <3>2. work[c].snapshot.revision \in Nat /\ work[c].snapshot.revision + 1 <= MaxRevision
      BY <1>1, <2>3 DEF Snapshot, Capture
    <3> HIDE DEF Inv
    <3> QED
      BY <1>1, <2>3, <3>1, <3>2, CaptureIsFaithful
  <2>4. TypeOK'
    BY <2>1, <2>2, <2>3 DEF TypeOK, Moved, Workers
  <2>5. Books'
    <3>1. \A s : Faithful(s) => Faithful(s)'
      BY <2>1 DEF Faithful
    <3>2. Faithful(state)' /\ \A k \in kept' : Faithful(k)'
      BY <2>1, <2>2, <2>3 DEF Books, Faithful
    <3> QED
      BY <2>1, <3>2 DEF Books, Moved
  <2>6. open # c
    BY <2>1 DEF Asked
  <2>7. ContinuesTail' /\ Asked' /\ Exclusive' /\ Drained'
    BY <2>1, <2>6, Moves DEF Checked, Steps
  <2>8. Heard'
    BY <2>1 DEF Heard, Moved
  <2> QED
    BY <2>4, <2>5, <2>7, <2>8
<1>12. CASE Finish(c)
  <2>1. /\ work[c].at = "end" /\ work' = [work EXCEPT ![c] = Idle]
        /\ control' = [control EXCEPT ![c] = [control[c] EXCEPT !.active = FALSE]]
        /\ closing' = [closing EXCEPT ![c] = [closing[c] EXCEPT !.notified = @ \/ closing[c].at \in {"check", "wait"}]]
        /\ UNCHANGED <<log, open, budget, state, kept, cancel>>
    BY <1>12 DEF Finish
  <2>2. Idle \in [at : Steps, snapshot : Snapshot, budget : Budget, cancelled : BOOLEAN]
    BY IdleTyped
  <2>3. /\ work' \in Workers /\ work'[c] = Idle /\ \A d \in Coordinators \ {c} : work'[d] = work[d]
    BY <1>1, <2>1, <2>2 DEF Workers
  <2>4. /\ control' \in [Coordinators -> [accepting : BOOLEAN, active : BOOLEAN]]
        /\ ~control'[c].active /\ control'[c].accepting = control[c].accepting
        /\ \A d \in Coordinators \ {c} : control'[d] = control[d]
    <3>1. control \in Controls /\ control[c] \in [accepting : BOOLEAN, active : BOOLEAN]
      BY DEF TypeOK, Controls
    <3>2. PICK off : off = [control[c] EXCEPT !.active = FALSE]
      OBVIOUS
    <3>3. off \in [accepting : BOOLEAN, active : BOOLEAN] /\ ~off.active /\ off.accepting = control[c].accepting
      BY <3>1, <3>2
    <3>4. control' = [control EXCEPT ![c] = off]
      BY <2>1, <3>2
    <3>5. control' \in Controls /\ control'[c] = off /\ \A d \in Coordinators \ {c} : control'[d] = control[d]
      BY <3>1, <3>3, <3>4 DEF Controls
    <3> QED
      BY <3>3, <3>5 DEF Controls
  <2>5. /\ closing' \in [Coordinators -> [at : {"idle", "enable", "check", "wait", "done"}, notified : BOOLEAN]]
        /\ \A d \in Coordinators : closing'[d].at = closing[d].at
    BY <2>1 DEF TypeOK
  <2>6. open # c
    BY <2>1 DEF Asked
  <2>7. TypeOK'
    BY <2>1, <2>3, <2>4, <2>5 DEF TypeOK, Workers
  <2>8. /\ Idle.at = "idle" /\ Idle.budget.anchor = 0 /\ Idle.budget.revision = 1
    BY DEF Idle, FirstBudget
  <2>9. Books' /\ ContinuesTail'
    <3>1. 0 <= budget.anchor /\ 1 <= budget.revision
      BY <1>1 DEF Budget
    <3> QED
      BY <2>1, <2>3, <2>8, <3>1 DEF Books, Faithful, ContinuesTail
  <2>10. Asked'
    BY <2>1, <2>3, <2>6, <2>8 DEF Asked, Checked
  <2>11. Exclusive'
    BY <2>1, <2>3, <2>6, <2>8 DEF Exclusive, Holder
  <2>12. Heard'
    BY <2>1, <2>3, <2>8 DEF Heard
  <2>13. Drained'
    BY <2>1, <2>3, <2>4, <2>5, <2>8 DEF Drained
  <2> QED
    BY <2>7, <2>9, <2>10, <2>11, <2>12, <2>13
<1> QED
  BY <1>2, <1>3, <1>4, <1>5, <1>6, <1>7, <1>8, <1>9, <1>10, <1>11, <1>12 DEF Worker

-----------------------------------------------------------------------------
(***************************************************************************)
(* The turn and the host.                                                  *)
(***************************************************************************)
\* A turn is appended by the coordinator that holds the claim, after the turn
\* it was asked to continue.
LEMMA TurnStep ==
  ASSUME Inv, NEW c \in Coordinators, NEW status \in Statuses, TurnEnds(c, status)
  PROVE  Inv'
<1> USE DEF Inv
<1>1. PICK turn : turn = [status |-> status, continued |-> work[c].snapshot.cursor]
  OBVIOUS
<1>2. /\ open = c /\ Len(log) < MaxTurns /\ log' = Append(log, turn) /\ open' = Nobody
      /\ UNCHANGED <<state, kept, control, work, cancel, closing>>
  BY <1>1 DEF TurnEnds
<1>3. /\ log \in Seq(Closed) /\ Len(log) \in Nat /\ turn \in Closed
      /\ budget \in Budget /\ state \in Snapshot /\ kept \subseteq Snapshot
      /\ \A d \in Coordinators : work[d].snapshot \in Snapshot /\ work[d].budget \in Budget
  BY <1>1 DEF TypeOK, Closed, Snapshot
<1>4. /\ log' \in Seq(Closed) /\ Len(log') = Len(log) + 1 /\ log'[Len(log) + 1] = turn
      /\ \A i \in 1 .. Len(log) : log'[i] = log[i]
  BY <1>2, <1>3
<1>5. \A n \in 0 .. Len(log) : SubSeq(log', 1, n) = SubSeq(log, 1, n)
  BY <1>2, <1>3, PhaseOfPrefix
<1>6. /\ budget' \in Budget /\ budget'.anchor <= Len(log') /\ budget.anchor <= budget'.anchor
      /\ budget.revision <= budget'.revision
  <2>1. CASE UNCHANGED budget
    BY <1>3, <1>4, <2>1, BoundsAssumption DEF Books, Budget
  <2>2. CASE /\ budget.revision < MaxBudget
             /\ budget' = [revision |-> budget.revision + 1, ready |-> TRUE, anchor |-> Len(log')]
    <3>1. budget.revision + 1 \in 1 .. MaxBudget /\ Len(log') \in 0 .. MaxTurns
      BY <1>2, <1>3, <1>4, <2>2, BoundsAssumption DEF Budget
    <3>2. budget'.anchor = Len(log') /\ budget'.revision = budget.revision + 1
      BY <2>2
    <3>3. budget.anchor <= Len(log) /\ budget.anchor \in Nat /\ budget.revision \in Nat
      BY <1>3 DEF Books, Budget
    <3> QED
      BY <1>3, <1>4, <2>2, <3>1, <3>2, <3>3 DEF Budget
  <2> QED
    BY <2>1, <2>2 DEF TurnEnds
<1>7. TypeOK'
  BY <1>2, <1>4, <1>6 DEF TypeOK, Closed
<1>8. \A s \in Snapshot : Faithful(s) => Faithful(s)'
  <2> SUFFICES ASSUME NEW s \in Snapshot, Faithful(s)
               PROVE  Faithful(s)'
    OBVIOUS
  <2>1. /\ s.cursor \in Nat /\ s.budget \in Nat /\ budget.anchor \in Nat /\ budget'.anchor \in Nat
        /\ budget.revision \in Nat /\ budget'.revision \in Nat
    BY <1>3, <1>6 DEF Snapshot, Budget
  <2>2. s.cursor <= budget'.anchor /\ s.budget <= budget'.revision
    BY <1>6, <2>1 DEF Faithful
  <2>3. s.cursor \in 0 .. Len(log)
    BY <1>3, <2>1 DEF Faithful, Books
  <2>4. SubSeq(log', 1, s.cursor) = SubSeq(log, 1, s.cursor)
    BY <1>5, <2>3
  <2> QED
    BY <2>2, <2>4 DEF Faithful
<1>9. Books'
  <2>1. Len(log') <= MaxTurns
    BY <1>2, <1>3, <1>4, BoundsAssumption
  <2>2. ASSUME NEW d \in Coordinators
        PROVE  /\ work[d].budget.anchor <= budget'.anchor
               /\ work[d].budget.revision <= budget'.revision
    <3>1. /\ work[d].budget.anchor \in Nat /\ work[d].budget.revision \in Nat
          /\ budget.anchor \in Nat /\ budget'.anchor \in Nat
          /\ budget.revision \in Nat /\ budget'.revision \in Nat
      BY <1>3, <1>6 DEF Budget
    <3> QED
      BY <1>6, <3>1 DEF Books
  <2>3. Faithful(state)' /\ \A k \in kept' : Faithful(k)'
    <3>1. /\ Faithful(state) /\ \A k \in kept : Faithful(k)
      BY DEF Books
    <3> QED
      BY <1>2, <1>3, <1>8, <3>1 DEF Faithful
  <2> QED
    BY <1>2, <1>6, <2>1, <2>2, <2>3 DEF Books
<1>10. ContinuesTail'
  <2>1. turn.continued = Len(log)
    BY <1>1, <1>2 DEF Asked
  <2>2. Len(log) > 0 => log[Len(log)].status \in Continued
    <3>1. work[c].snapshot.phase \in Continued /\ work[c].snapshot.phase = Phase(SubSeq(log, 1, Len(log)))
      BY <1>2 DEF Asked
    <3>2. Len(log) > 0 => Phase(log) = log[Len(log)].status
      BY <1>3 DEF Phase
    <3>3. SubSeq(log, 1, Len(log)) = log
      BY <1>3
    <3> QED
      BY <3>1, <3>2, <3>3
  <2>3. \A i \in 1 .. Len(log) : /\ log'[i].continued = i - 1
                                 /\ i > 1 => log'[i - 1].status \in Continued
    BY SMTT(30), <1>3, <1>4 DEF ContinuesTail
  <2>4. /\ log'[Len(log) + 1].continued = (Len(log) + 1) - 1
        /\ Len(log) + 1 > 1 => log'[(Len(log) + 1) - 1].status \in Continued
    BY <1>3, <1>4, <2>1, <2>2
  <2>5. DOMAIN log' = 1 .. (Len(log) + 1)
    BY <1>4
  <2> QED
    BY <1>3, <2>3, <2>4, <2>5 DEF ContinuesTail
<1>11. Nobody \notin Coordinators
  BY NamesAssumption
<1>12. Asked'
  <2> SUFFICES ASSUME NEW d \in Coordinators, work[d].at \in Checked
               PROVE  work[d].snapshot.phase = Phase(SubSeq(log', 1, work[d].snapshot.cursor))
    BY <1>2, <1>11 DEF Asked
  <2>1. /\ work[d].snapshot.cursor = work[d].budget.anchor
        /\ work[d].snapshot.phase = Phase(SubSeq(log, 1, work[d].snapshot.cursor))
    BY DEF Asked
  <2>2. work[d].snapshot.cursor \in 0 .. Len(log)
    <3>1. work[d].budget.anchor \in Nat /\ budget.anchor \in Nat
      BY <1>3 DEF Budget
    <3> QED
      BY <1>3, <2>1, <3>1 DEF Books
  <2> QED
    BY <1>5, <2>1, <2>2
<1>13. Exclusive'
  <2>1. Holder(c) /\ work[c].at \in {"publish", "look", "wait"}
    BY <1>2 DEF Holder, Asked
  <2>2. \A d \in Coordinators : ~Holder(d)'
    BY <1>2, <1>11, <2>1 DEF Holder, Exclusive
  <2> QED
    BY <2>2 DEF Exclusive
<1>14. Heard' /\ Drained'
  BY <1>2 DEF Heard, Drained
<1> QED
  BY <1>7, <1>9, <1>10, <1>12, <1>13, <1>14

\* A snapshot that is true may be written by anyone.
LEMMA HostStep ==
  ASSUME Inv, Host
  PROVE  Inv'
<1> USE DEF Inv
<1>1. /\ budget \in Budget /\ state \in Snapshot /\ kept \subseteq Snapshot
      /\ \A d \in Coordinators : work[d].budget \in Budget
  BY DEF TypeOK
<1>2. ASSUME NEW candidate \in Snapshot, Faithful(candidate), state' = candidate, kept' \subseteq kept,
             UNCHANGED <<log, open, budget, control, work, cancel, closing>>
      PROVE  Inv'
  <2>1. TypeOK'
    BY <1>1, <1>2 DEF TypeOK
  <2>2. Books'
    BY <1>2 DEF Books, Faithful
  <2>3. ContinuesTail' /\ Asked' /\ Heard' /\ Drained'
    BY <1>2 DEF ContinuesTail, Asked, Heard, Drained
  <2>4. Exclusive'
    BY <1>2 DEF Exclusive, Holder
  <2> QED
    BY <2>1, <2>2, <2>3, <2>4
<1>3. CASE \E candidate \in kept : Retry(candidate)
  <2>1. PICK candidate \in kept : Retry(candidate)
    BY <1>3
  <2>2. /\ state' = candidate /\ kept' \subseteq kept
        /\ UNCHANGED <<log, open, budget, control, work, cancel, closing>>
    BY <2>1 DEF Retry
  <2>3. candidate \in Snapshot /\ Faithful(candidate)
    BY <1>1, <2>1 DEF Books
  <2> QED
    BY <1>2, <2>2, <2>3
<1>4. CASE Reconcile
  <2>1. PICK candidate : candidate = Capture(state.revision, budget, log)
    OBVIOUS
  <2>2. /\ Capturable(budget, log, open) /\ candidate.revision <= MaxRevision /\ state' = candidate
        /\ UNCHANGED <<log, open, budget, kept, control, work, cancel, closing>>
    BY <1>4, <2>1 DEF Reconcile
  <2>3. state.revision \in Nat /\ state.revision + 1 <= MaxRevision
    BY <1>1, <2>1, <2>2 DEF Snapshot, Capture
  <2>4. budget.anchor <= budget.anchor /\ budget.revision <= budget.revision
    BY <1>1 DEF Budget
  <2>5. candidate \in Snapshot /\ Faithful(candidate)
    <3> HIDE DEF Inv
    <3> QED
      BY <1>1, <2>1, <2>2, <2>3, <2>4, CaptureIsFaithful
  <2> QED
    BY <1>2, <2>2, <2>5
<1>5. CASE Grant
  <2>1. /\ budget.ready /\ budget.revision < MaxBudget
        /\ budget' = [budget EXCEPT !.revision = budget.revision + 1]
        /\ UNCHANGED <<log, open, state, kept, control, work, cancel, closing>>
    BY <1>5 DEF Grant
  <2>2. budget.revision \in Nat /\ budget.revision + 1 \in 1 .. MaxBudget
    BY <1>1, <2>1, BoundsAssumption DEF Budget
  <2>3. /\ budget' \in Budget /\ budget'.revision = budget.revision + 1
        /\ budget'.anchor = budget.anchor
    BY <1>1, <2>1, <2>2 DEF Budget
  <2>4. TypeOK'
    BY <2>1, <2>3 DEF TypeOK
  <2>5. Books'
    <3>1. \A s \in Snapshot : s.budget \in Nat
      BY DEF Snapshot
    <3>2. \A d \in Coordinators : work[d].budget.revision \in Nat
      BY <1>1 DEF Budget
    <3> QED
      BY <1>1, <2>1, <2>2, <2>3, <3>1, <3>2 DEF Books, Faithful
  <2>6. ContinuesTail' /\ Asked' /\ Heard' /\ Drained'
    BY <2>1 DEF ContinuesTail, Asked, Heard, Drained
  <2>7. Exclusive'
    BY <2>1 DEF Exclusive, Holder
  <2> QED
    BY <2>4, <2>5, <2>6, <2>7
<1> QED
  BY <1>3, <1>4, <1>5 DEF Host

-----------------------------------------------------------------------------
(***************************************************************************)
(* The callers of a coordinator.                                           *)
(***************************************************************************)
Cancels == [Coordinators -> [requested : BOOLEAN, turn : BOOLEAN, caller : {"none", "look", "done"}]]
Closings == [Coordinators -> [at : {"idle", "enable", "check", "wait", "done"}, notified : BOOLEAN]]

\* A worker is started, or dies, with its coordinator: whatever it was told is told anew.
LEMMA RestartStep ==
  ASSUME Inv, NEW c \in Coordinators, Start(c) \/ Crash(c)
  PROVE  Inv'
<1> USE DEF Inv
<1>1. PICK at \in {"idle", "state"} : at = IF Start(c) THEN "state" ELSE "idle"
  OBVIOUS
<1>2. PICK fresh : fresh = [Idle EXCEPT !.at = at]
  OBVIOUS
<1>3. /\ fresh \in [at : Steps, snapshot : Snapshot, budget : Budget, cancelled : BOOLEAN]
      /\ fresh.at = at /\ fresh.budget.anchor = 0 /\ fresh.budget.revision = 1
  BY <1>2, IdleTyped DEF Idle, Steps, FirstBudget
<1>4. /\ work' = [work EXCEPT ![c] = fresh] /\ cancel' = [cancel EXCEPT ![c] = Quiet]
      /\ UNCHANGED <<log, budget, state, kept>>
  <2>1. Idle = [Idle EXCEPT !.at = "idle"]
    <3>1. Idle.at = "idle"
      BY DEF Idle
    <3> QED
      BY <3>1, IdleTyped
  <2>2. CASE Start(c)
    BY <1>1, <1>2, <2>2 DEF Start, stores
  <2>3. CASE ~Start(c)
    BY <1>1, <1>2, <2>1, <2>3 DEF Crash
  <2> QED
    BY <2>2, <2>3
<1>5. open' \in Coordinators \cup {Nobody, "lost"} /\ open' # c /\ (open' # open => open = c /\ open' = "lost")
  <2>1. CASE Start(c)
    <3>1. open # c
      BY <2>1 DEF Start, Asked, Drained
    <3> QED
      BY <2>1, <3>1 DEF Start, stores, TypeOK
  <2>2. CASE Crash(c)
    BY <2>2, NamesAssumption DEF Crash, TypeOK
  <2> QED
    BY <2>1, <2>2
<1>6. /\ work' \in Workers /\ work'[c] = fresh /\ \A d \in Coordinators \ {c} : work'[d] = work[d]
  BY <1>3, <1>4 DEF TypeOK, Workers
<1>7. /\ cancel' \in Cancels /\ cancel'[c].caller = "none" /\ ~cancel'[c].requested
      /\ \A d \in Coordinators \ {c} : cancel'[d] = cancel[d]
  <2>1. Quiet \in [requested : BOOLEAN, turn : BOOLEAN, caller : {"none", "look", "done"}]
    BY DEF Quiet
  <2>2. Quiet.caller = "none" /\ ~Quiet.requested
    BY DEF Quiet
  <2> QED
    BY <1>4, <2>1, <2>2 DEF TypeOK, Cancels
<1>8. /\ control' \in Controls /\ closing' \in Closings
      /\ control'[c].active <=> at # "idle"
      /\ closing'[c].at = "idle" /\ \A d \in Coordinators \ {c} : control'[d] = control[d] /\ closing'[d] = closing[d]
  <2>1. control \in Controls /\ closing \in Closings
    BY DEF TypeOK, Controls, Closings
  <2>2. CASE Start(c)
    <3>1. PICK on : on = [control[c] EXCEPT !.active = TRUE]
      OBVIOUS
    <3>2. control[c] \in [accepting : BOOLEAN, active : BOOLEAN]
      BY <2>1 DEF Controls
    <3>3. on \in [accepting : BOOLEAN, active : BOOLEAN] /\ on.active
      BY <3>1, <3>2
    <3>4. control' = [control EXCEPT ![c] = on] /\ closing' = closing
      BY <2>2, <3>1 DEF Start
    <3>5. control' \in Controls /\ control'[c] = on /\ \A d \in Coordinators \ {c} : control'[d] = control[d]
      BY <2>1, <3>3, <3>4 DEF Controls
    <3>6. closing[c].at = "idle"
      BY <2>2 DEF Start, Drained
    <3>7. at # "idle"
      BY <1>1, <2>2
    <3> QED
      BY <2>1, <3>3, <3>4, <3>5, <3>6, <3>7
  <2>3. CASE ~Start(c)
    <3>1. PICK new : new = [accepting |-> TRUE, active |-> FALSE]
      OBVIOUS
    <3>2. PICK opened : opened = [at |-> "idle", notified |-> FALSE]
      OBVIOUS
    <3>3. new \in [accepting : BOOLEAN, active : BOOLEAN] /\ ~new.active
      BY <3>1
    <3>4. opened \in [at : {"idle", "enable", "check", "wait", "done"}, notified : BOOLEAN] /\ opened.at = "idle"
      BY <3>2
    <3>5. control' = [control EXCEPT ![c] = new] /\ closing' = [closing EXCEPT ![c] = opened]
      BY <2>3, <3>1, <3>2 DEF Crash
    <3>6. /\ control' \in Controls /\ control'[c] = new
          /\ \A d \in Coordinators \ {c} : control'[d] = control[d]
      BY <2>1, <3>3, <3>5 DEF Controls
    <3>7. /\ closing' \in Closings /\ closing'[c] = opened
          /\ \A d \in Coordinators \ {c} : closing'[d] = closing[d]
      BY <2>1, <3>4, <3>5 DEF Closings
    <3>8. at = "idle"
      BY <1>1, <2>3
    <3> QED
      BY <3>3, <3>4, <3>6, <3>7, <3>8
  <2> QED
    BY <2>2, <2>3
<1>9. TypeOK'
  BY <1>4, <1>5, <1>6, <1>7, <1>8 DEF TypeOK, Workers, Cancels, Controls, Closings
<1>10. Books' /\ ContinuesTail'
  <2>1. 0 <= budget.anchor /\ 1 <= budget.revision
    BY DEF TypeOK, Budget
  <2> QED
    BY <1>3, <1>4, <1>6, <2>1 DEF Books, Faithful, ContinuesTail
<1>11. \A d \in Coordinators : open' = d => open = d
  BY <1>5, NamesAssumption
<1>12. Asked'
  BY <1>3, <1>4, <1>5, <1>6, <1>11 DEF Asked, Checked
<1>13. Exclusive'
  <2>1. ~Holder(c)' /\ \A d \in Coordinators : Holder(d)' => Holder(d)
    BY <1>3, <1>5, <1>6, <1>11 DEF Holder
  <2> QED
    BY <1>4, <2>1 DEF Exclusive
<1>14. Heard'
  BY <1>3, <1>6, <1>7 DEF Heard
<1>15. Drained'
  BY <1>3, <1>6, <1>8 DEF Drained
<1> QED
  BY <1>9, <1>10, <1>12, <1>13, <1>14, <1>15

\* A cancel sets requested before it looks for the canceller, and says what it found.
LEMMA CancelStep ==
  ASSUME Inv, NEW c \in Coordinators, Cancel(c) \/ CancelTurn(c)
  PROVE  Inv'
<1> USE DEF Inv, stores
<1>1. cancel \in Cancels /\ cancel[c] \in [requested : BOOLEAN, turn : BOOLEAN, caller : {"none", "look", "done"}]
  BY DEF TypeOK, Cancels
<1>2. CASE Cancel(c)
  <2>1. PICK asked : asked = [cancel[c] EXCEPT !.requested = TRUE, !.caller = "look"]
    OBVIOUS
  <2>2. /\ asked \in [requested : BOOLEAN, turn : BOOLEAN, caller : {"none", "look", "done"}]
        /\ asked.requested /\ asked.caller = "look" /\ asked.turn = cancel[c].turn
    BY <1>1, <2>1
  <2>3. cancel' = [cancel EXCEPT ![c] = asked] /\ UNCHANGED <<log, open, budget, state, kept, control, work, closing>>
    BY <1>2, <2>1 DEF Cancel
  <2>4. cancel' \in Cancels /\ cancel'[c] = asked /\ \A d \in Coordinators \ {c} : cancel'[d] = cancel[d]
    BY <1>1, <2>2, <2>3 DEF Cancels
  <2>5. TypeOK'
    BY <2>3, <2>4 DEF TypeOK, Cancels
  <2>6. Books' /\ ContinuesTail' /\ Asked' /\ Drained'
    BY <2>3 DEF Books, Faithful, ContinuesTail, Asked, Drained
  <2>7. Exclusive'
    BY <2>3 DEF Exclusive, Holder
  <2>8. Heard'
    BY <2>2, <2>3, <2>4 DEF Heard
  <2> QED
    BY <2>5, <2>6, <2>7, <2>8
<1>3. CASE CancelTurn(c)
  <2>1. PICK told : told = [cancel[c] EXCEPT !.caller = "done"]
    OBVIOUS
  <2>2. /\ told \in [requested : BOOLEAN, turn : BOOLEAN, caller : {"none", "look", "done"}]
        /\ told.requested = cancel[c].requested /\ told.caller = "done" /\ told.turn = cancel[c].turn
    BY <1>1, <2>1
  <2>3. PICK heard : heard = [work[c] EXCEPT !.cancelled = @ \/ cancel[c].turn]
    OBVIOUS
  <2>4. /\ heard \in [at : Steps, snapshot : Snapshot, budget : Budget, cancelled : BOOLEAN]
        /\ heard.at = work[c].at /\ heard.snapshot = work[c].snapshot /\ heard.budget = work[c].budget
        /\ heard.cancelled = (work[c].cancelled \/ cancel[c].turn)
    BY ZenonT(40), <1>1, <2>3 DEF TypeOK
  <2>5. /\ cancel[c].caller = "look" /\ cancel' = [cancel EXCEPT ![c] = told] /\ work' = [work EXCEPT ![c] = heard]
        /\ UNCHANGED <<log, open, budget, state, kept, control, closing>>
    BY <1>3, <2>1, <2>3 DEF CancelTurn
  <2>6. cancel' \in Cancels /\ cancel'[c] = told /\ \A d \in Coordinators \ {c} : cancel'[d] = cancel[d]
    BY <1>1, <2>2, <2>5 DEF Cancels
  <2>7. work' \in Workers /\ work'[c] = heard /\ \A d \in Coordinators \ {c} : work'[d] = work[d]
    BY <2>4, <2>5 DEF Workers, TypeOK
  <2>8. TypeOK'
    BY <2>5, <2>6, <2>7 DEF TypeOK, Cancels, Workers
  <2>9. Books' /\ ContinuesTail' /\ Drained'
    BY <2>4, <2>5, <2>7 DEF Books, Faithful, ContinuesTail, Drained
  <2>10. Asked'
    BY <2>4, <2>5, <2>7 DEF Asked
  <2>11. Exclusive'
    BY <2>4, <2>5, <2>7 DEF Exclusive, Holder
  <2>12. Heard'
    BY <2>2, <2>4, <2>5, <2>6, <2>7 DEF Heard
  <2> QED
    BY <2>8, <2>9, <2>10, <2>11, <2>12
<1> QED
  BY <1>2, <1>3

\* close returns after it has seen, with the admission shut, that nothing is active.
LEMMA CloseSteps ==
  ASSUME Inv, NEW c \in Coordinators, Close(c) \/ CloseStep(c)
  PROVE  Inv'
<1> USE DEF Inv, stores
<1>1. control \in Controls /\ closing \in Closings
  BY DEF TypeOK, Controls, Closings
<1>2. /\ UNCHANGED <<log, open, budget, state, kept, work, cancel>>
      /\ control' \in Controls /\ closing' \in Closings
      /\ \A d \in Coordinators : control'[d].active = control[d].active
      /\ \A d \in Coordinators \ {c} : control'[d] = control[d] /\ closing'[d] = closing[d]
      /\ ~control'[c].accepting /\ (closing'[c].at = "done" => ~control[c].active)
  <2>1. CASE Close(c)
    <3>1. PICK shut : shut = [control[c] EXCEPT !.accepting = FALSE]
      OBVIOUS
    <3>2. PICK me : me = [closing[c] EXCEPT !.at = "enable"]
      OBVIOUS
    <3>3. shut \in [accepting : BOOLEAN, active : BOOLEAN] /\ shut.active = control[c].active /\ ~shut.accepting
      BY <1>1, <3>1 DEF Controls
    <3>4. me \in [at : {"idle", "enable", "check", "wait", "done"}, notified : BOOLEAN] /\ me.at = "enable"
      BY <1>1, <3>2 DEF Closings
    <3>5. /\ control' = [control EXCEPT ![c] = shut] /\ closing' = [closing EXCEPT ![c] = me]
          /\ UNCHANGED <<log, open, budget, state, kept, work, cancel>>
      BY <2>1, <3>1, <3>2 DEF Close
    <3>6. control' \in Controls /\ control'[c] = shut /\ \A d \in Coordinators \ {c} : control'[d] = control[d]
      BY <1>1, <3>3, <3>5 DEF Controls
    <3>7. closing' \in Closings /\ closing'[c] = me /\ \A d \in Coordinators \ {c} : closing'[d] = closing[d]
      BY <1>1, <3>4, <3>5 DEF Closings
    <3> QED
      BY <3>3, <3>4, <3>5, <3>6, <3>7
  <2>2. CASE CloseStep(c)
    <3>1. PICK me \in [at : {"idle", "enable", "check", "wait", "done"}, notified : BOOLEAN] :
            /\ closing' = [closing EXCEPT ![c] = me]
            /\ me.at = "done" => ~control[c].active
            /\ closing[c].at # "idle"
      <4>1. closing[c] \in [at : {"idle", "enable", "check", "wait", "done"}, notified : BOOLEAN]
        BY <1>1 DEF Closings
      <4>2. CASE /\ closing[c].at = "enable"
                 /\ closing' = [closing EXCEPT ![c] = [at |-> "check", notified |-> FALSE]]
        BY <4>2
      <4>3. CASE /\ closing[c].at = "check"
                 /\ closing' = [closing EXCEPT ![c].at = IF control[c].active THEN "wait" ELSE "done"]
        <5>1. PICK to \in {"wait", "done"} : to = IF control[c].active THEN "wait" ELSE "done"
          OBVIOUS
        <5>2. closing' = [closing EXCEPT ![c] = [closing[c] EXCEPT !.at = to]]
          BY <4>3, <5>1
        <5> QED
          BY <4>1, <4>3, <5>1, <5>2
      <4>4. CASE /\ closing[c].at = "wait"
                 /\ closing' = [closing EXCEPT ![c].at = "enable"]
        BY <4>1, <4>4
      <4> QED
        BY <2>2, <4>2, <4>3, <4>4 DEF CloseStep
    <3>2. UNCHANGED <<log, open, budget, state, kept, control, work, cancel>>
      BY <2>2 DEF CloseStep
    <3>3. closing' \in Closings /\ closing'[c] = me /\ \A d \in Coordinators \ {c} : closing'[d] = closing[d]
      BY <1>1, <3>1 DEF Closings
    <3>4. ~control[c].accepting
      BY <3>1 DEF Drained
    <3> QED
      BY <1>1, <3>1, <3>2, <3>3, <3>4
  <2> QED
    BY <2>1, <2>2
<1>3. TypeOK'
  BY <1>2 DEF TypeOK, Controls, Closings
<1>4. Books' /\ ContinuesTail' /\ Asked' /\ Heard'
  BY <1>2 DEF Books, Faithful, ContinuesTail, Asked, Heard
<1>5. Exclusive'
  BY <1>2 DEF Exclusive, Holder
<1>6. Drained'
  BY <1>2 DEF Drained
<1> QED
  BY <1>3, <1>4, <1>5, <1>6

-----------------------------------------------------------------------------
(***************************************************************************)
(* The invariant, and what follows from it.                                *)
(***************************************************************************)
\* Before anybody has started, the invariant holds.
LEMMA InitInv == Init => Inv
<1> SUFFICES ASSUME Init PROVE Inv
  OBVIOUS
<1> USE DEF Init
<1>1. FirstState \in Snapshot /\ FirstBudget \in Budget
  BY BoundsAssumption DEF FirstState, FirstBudget, Snapshot, Budget
<1>2. /\ FirstState.cursor = 0 /\ FirstState.budget = 1 /\ FirstState.phase = "created"
      /\ FirstBudget.revision = 1 /\ FirstBudget.anchor = 0
  BY DEF FirstState, FirstBudget
<1>3. Idle.at = "idle" /\ Idle.budget = FirstBudget
  BY DEF Idle
<1>4. Quiet \in [requested : BOOLEAN, turn : BOOLEAN, caller : {"none", "look", "done"}] /\ Quiet.caller = "none"
  BY DEF Quiet
<1>5. ~Quiet.requested
  BY DEF Quiet
<1>6. Nobody \notin Coordinators
  BY NamesAssumption
<1>7. TypeOK
  BY <1>1, <1>4, IdleTyped DEF TypeOK
<1>8. Books
  <2>1. SubSeq(<<>>, 1, 0) = <<>> /\ Len(<<>>) = 0
    OBVIOUS
  <2>2. Faithful(state)
    BY <1>2, <2>1 DEF Faithful, Phase
  <2> QED
    BY <1>2, <1>3, <2>1, <2>2, BoundsAssumption DEF Books
<1>9. ContinuesTail
  BY DEF ContinuesTail
<1>10. Asked /\ Exclusive
  BY <1>3, <1>6 DEF Asked, Exclusive, Holder, Checked
<1>11. Heard
  BY <1>3, <1>4, <1>5 DEF Heard
<1>12. Drained
  BY <1>3 DEF Drained
<1> QED
  BY <1>7, <1>8, <1>9, <1>10, <1>11, <1>12 DEF Inv

\* A step of anyone keeps it.
LEMMA StepInv == Inv /\ [Next]_vars => Inv'
<1> SUFFICES ASSUME Inv, [Next]_vars PROVE Inv'
  OBVIOUS
<1>1. ASSUME NEW c \in Coordinators, Turn(c) PROVE Inv'
  BY <1>1, TurnStep DEF Turn
<1>2. CASE UNCHANGED vars
  <2>1. UNCHANGED <<log, open, budget, state, kept, control, work, cancel, closing>>
    BY <1>2 DEF vars
  <2>2. TypeOK' /\ Books' /\ ContinuesTail' /\ Asked'
    BY <2>1 DEF Inv, TypeOK, Books, Faithful, ContinuesTail, Asked
  <2>3. Exclusive' /\ Heard' /\ Drained'
    BY <2>1 DEF Inv, Exclusive, Holder, Heard, Drained
  <2> QED
    BY <2>2, <2>3 DEF Inv
<1>3. CASE Next
  BY <1>1, <1>3, WorkerStep, RestartStep, CancelStep, CloseSteps, HostStep DEF Next
<1> QED
  BY <1>2, <1>3

\* Every state of every behaviour satisfies it.
THEOREM InvHolds == Spec => []Inv
  BY InitInv, StepInv, PTL DEF Spec

\* The types.
THEOREM TypesCorrect == Spec => []TypeOK
<1>1. Inv => TypeOK
  BY DEF Inv
<1> QED
  BY <1>1, InvHolds, PTL

\* A turn continues the last turn, and one that could be continued.
THEOREM TurnsContinueTail == Spec => []ContinuesTail
<1>1. Inv => ContinuesTail
  BY DEF Inv
<1> QED
  BY <1>1, InvHolds, PTL

\* At most one worker holds the claim or has a turn that may append to the log.
THEOREM OneTurnAtOnce == Spec => []OneTurn
<1>1. Inv => OneTurn
  <2> SUFFICES ASSUME Inv PROVE OneTurn
    OBVIOUS
  <2> PICK holders : holders = {c \in Coordinators : Holder(c)}
    OBVIOUS
  <2>1. \A c, d \in holders : c = d
    BY DEF Inv, Exclusive
  <2>2. Cardinality(holders) <= 1
    <3>1. CASE holders = {}
      BY <3>1, FS_EmptySet
    <3>2. CASE holders # {}
      <4>1. PICK c : holders = {c}
        BY <2>1, <3>2
      <4> QED
        BY <4>1, FS_Singleton
    <3> QED
      BY <3>1, <3>2
  <2> QED
    BY <2>2 DEF OneTurn, Holder
<1> QED
  BY <1>1, InvHolds, PTL

\* However the stores change between the checks and the claim, the log is one
\* conversation, and one worker at a time continues it.
THEOREM OneContinues == Spec => []OneContinuation
  BY TurnsContinueTail, OneTurnAtOnce, PTL DEF OneContinuation

\* The snapshot in the store says what the log says, whoever wrote it.
THEOREM SnapshotsAreTrue == Spec => []StateIsTrue
<1>1. Inv => StateIsTrue
  BY DEF Inv, Books, Faithful, StateIsTrue
<1> QED
  BY <1>1, InvHolds, PTL

\* A cancel that has returned has reached the turn.
THEOREM CancelsAreHeard == Spec => []CancelHeard
<1>1. Inv => CancelHeard
  BY DEF Inv, Heard, CancelHeard
<1> QED
  BY <1>1, InvHolds, PTL

\* When close has returned nothing runs.
THEOREM ClosesDrained == Spec => []ClosedDrained
<1>1. Inv => ClosedDrained
  BY DEF Inv, Drained, ClosedDrained
<1> QED
  BY <1>1, InvHolds, PTL

\* The snapshot only moves forward, by whomever it is replaced.
THEOREM StateMovesForward == Spec => StateForward
<1>1. Inv /\ [Next]_vars => [state'.cursor >= state.cursor /\ state'.revision >= state.revision]_vars
  <2> SUFFICES ASSUME Inv, Next PROVE state'.cursor >= state.cursor /\ state'.revision >= state.revision
    BY DEF vars
  <2>1. state.cursor \in Nat /\ state.revision \in Nat
    BY DEF Inv, TypeOK, Snapshot
  <2>2. UNCHANGED state \/ Succeeds(state', state)
    <3>1. ASSUME NEW c \in Coordinators, Worker(c) PROVE UNCHANGED state \/ Succeeds(state', state)
      <4>1. CASE Commit(c)
        BY <4>1 DEF Commit
      <4>2. CASE ~Commit(c)
        BY <3>1, <4>2 DEF Worker, LoadState, LoadBudget, LoadHistory, Authorized, Claim, Recheck, Restate,
             StartTurn, Publish, Look, Waited, PublishEvidence, Finish, Fail, stores
      <4> QED
        BY <4>1, <4>2
    <3>2. ASSUME NEW c \in Coordinators,
                 Start(c) \/ Turn(c) \/ Cancel(c) \/ CancelTurn(c) \/ Close(c) \/ CloseStep(c) \/ Crash(c)
          PROVE  UNCHANGED state
      BY <3>2 DEF Start, Turn, TurnEnds, Cancel, CancelTurn, Close, CloseStep, Crash, stores
    <3>3. ASSUME Host PROVE UNCHANGED state \/ Succeeds(state', state)
      BY <3>3 DEF Host, Reconcile, Grant, Retry
    <3> QED
      BY <3>1, <3>2, <3>3 DEF Next
  <2>3. CASE UNCHANGED state
    BY <2>1, <2>3
  <2>4. CASE Succeeds(state', state)
    BY <2>1, <2>4 DEF Succeeds
  <2> QED
    BY <2>2, <2>3, <2>4
<1> QED
  BY <1>1, InvHolds, PTL DEF Spec, StateForward

-----------------------------------------------------------------------------
(***************************************************************************)
(* The snapshots that may yet be published.                                *)
(***************************************************************************)
\* Where a checkpoint of a revision stands in the log, according to whoever has
\* seen it: the snapshots and the checkpoints that workers hold.
Point(s) == <<s.budget, s.cursor>>
Stand(b) == <<b.revision, b.anchor>>
Points ==
  {<<1, 0>>, Point(state), Stand(budget)} \cup {Point(k) : k \in kept}
    \cup {Point(work[c].snapshot) : c \in Coordinators} \cup {Stand(work[c].budget) : c \in Coordinators}

\* They agree, and none is ahead of the store.
Agreed ==
  /\ \A p \in Points : p[1] \in Nat /\ p[2] \in Nat /\ p[1] <= budget.revision /\ p[2] <= budget.anchor
  /\ \A p, q \in Points : p[1] <= q[1] => p[2] <= q[2]

\* A snapshot that succeeds the one in the store names no older checkpoint.
Successors ==
  \A k \in kept : k.revision <= state.revision + 1 /\ (k.revision = state.revision + 1 => k.budget >= state.budget)

\* The snapshot of a worker is the one in the store, or has been replaced.
Loaded(c) == work[c].at \notin {"idle", "state", "end"}
Current ==
  \A c \in Coordinators : Loaded(c) =>
    /\ work[c].snapshot.revision <= state.revision
    /\ work[c].snapshot.revision = state.revision => work[c].snapshot = state
    /\ work[c].at = "capture" => work[c].snapshot.budget <= work[c].budget.revision

Publishable == Agreed /\ Successors /\ Current

\* What a step does to the places where a checkpoint is named: it copies what
\* the stores say, or writes the next checkpoint.
BudgetGrows ==
  \/ budget' = budget
  \/ budget'.revision = budget.revision + 1 /\ budget'.anchor >= budget.anchor

Copies(c) ==
  /\ work'[c].snapshot \in {work[c].snapshot, state, FirstState}
  /\ work'[c].budget \in {work[c].budget, budget, FirstBudget}
  /\ Loaded(c)' => \/ Loaded(c) /\ work'[c].snapshot = work[c].snapshot
                   \/ work'[c].snapshot = state /\ state' = state /\ work'[c].at # "capture"
  /\ work'[c].at = "capture" => \/ work[c].at = "capture" /\ work'[c].budget = work[c].budget
                                \/ work'[c].budget = budget

StoresCopy ==
  /\ Point(state') \in Points /\ \A k \in kept' : Point(k) \in Points
  /\ state' = state \/ state'.revision = state.revision + 1
  /\ \A k \in kept' : \/ k \in kept
                      \/ \E c \in Coordinators : /\ work[c].at = "capture"
                                                 /\ k.revision = work[c].snapshot.revision + 1
                                                 /\ k.budget = work[c].budget.revision

Effects == BudgetGrows /\ StoresCopy /\ \A c \in Coordinators : Copies(c)

\* A worker that only moves copies what it has.
LEMMA MovedCopies ==
  ASSUME NEW c \in Coordinators, NEW at \in Steps \ {"capture"}, Moved(c, at), Loaded(c) \/ at = "end"
  PROVE  \A d \in Coordinators : Copies(d)
<1>1. ASSUME NEW d \in Coordinators, d # c PROVE Copies(d)
  BY <1>1 DEF Moved, Copies, Loaded
<1>2. Copies(c)
  BY DEF Moved, Copies, Loaded
<1> QED
  BY <1>1, <1>2

\* Stores that stay are named as before.
LEMMA SameStores ==
  ASSUME UNCHANGED <<state, kept>>
  PROVE  StoresCopy
  BY DEF StoresCopy, Points

\* Of a worker.
LEMMA WorkerEffects ==
  ASSUME Inv, NEW c \in Coordinators, Worker(c)
  PROVE  Effects
<1>1. /\ work \in Workers /\ work[c].snapshot \in Snapshot /\ work[c].budget \in Budget /\ budget \in Budget
      /\ work[c] \in [at : Steps, snapshot : Snapshot, budget : Budget, cancelled : BOOLEAN]
  BY DEF Inv, TypeOK, Workers
<1>2. ASSUME NEW at \in Steps \ {"capture"}, Go(c, at), Loaded(c) \/ at = "end" PROVE \A d \in Coordinators : Copies(d)
  BY <1>2, GoMoves, MovedCopies DEF Inv
<1>3. CASE LoadState(c)
  <2> PICK at : at = IF cancel[c].requested \/ state.phase \notin Continued THEN "end" ELSE "budget"
    OBVIOUS
  <2>1. /\ work' = [work EXCEPT ![c] = [work[c] EXCEPT !.snapshot = state, !.at = at]]
        /\ UNCHANGED <<budget, state, kept>> /\ at \in {"end", "budget"}
    BY <1>3 DEF LoadState, stores
  <2>2. /\ work'[c].at = at /\ work'[c].snapshot = state /\ work'[c].budget = work[c].budget
        /\ \A d \in Coordinators \ {c} : work'[d] = work[d]
    BY <1>1, <2>1 DEF Workers
  <2>3. \A d \in Coordinators : Copies(d)
    BY <2>1, <2>2 DEF Copies, Loaded
  <2> QED
    BY <2>1, <2>3, SameStores DEF Effects, BudgetGrows
<1>4. CASE LoadBudget(c) \/ PublishEvidence(c)
  <2> PICK at : at = IF work[c].at = "budget" THEN "history" ELSE "capture"
    OBVIOUS
  <2>1. /\ work' = [work EXCEPT ![c] = [work[c] EXCEPT !.budget = budget, !.at = at]]
        /\ UNCHANGED <<budget, state, kept>> /\ work[c].at \in {"budget", "evidence"}
    BY <1>4 DEF LoadBudget, PublishEvidence, stores
  <2>2. /\ work'[c].at = at /\ work'[c].snapshot = work[c].snapshot /\ work'[c].budget = budget
        /\ \A d \in Coordinators \ {c} : work'[d] = work[d]
    BY <1>1, <2>1 DEF Workers
  <2>3. \A d \in Coordinators : Copies(d)
    BY <2>1, <2>2 DEF Copies, Loaded
  <2> QED
    BY <2>1, <2>3, SameStores DEF Effects, BudgetGrows
<1>5. CASE LoadHistory(c) \/ Authorized(c) \/ Recheck(c) \/ Restate(c) \/ Fail(c) \/ StartTurn(c)
           \/ Publish(c) \/ Waited(c)
  <2>1. UNCHANGED <<budget, state, kept>>
    BY <1>5 DEF LoadHistory, Authorized, Recheck, Restate, Fail, StartTurn, Publish, Waited, stores
  <2>2. \E at \in Steps \ {"capture"} : Go(c, at) /\ (Loaded(c) \/ at = "end")
    BY <1>5 DEF LoadHistory, Authorized, Recheck, Restate, Fail, StartTurn, Publish, Waited, Loaded, Steps
  <2> QED
    BY <1>2, <2>1, <2>2, SameStores DEF Effects, BudgetGrows
<1>6. CASE Claim(c)
  <2>1. /\ UNCHANGED <<state, kept>> /\ \E at \in {"recheck", "end"} : Go(c, at)
        /\ budget' = [budget EXCEPT !.revision = @ + 1, !.ready = FALSE] /\ work[c].at = "claim"
    BY <1>6 DEF Claim
  <2>2. \A d \in Coordinators : Copies(d)
    BY <1>2, <2>1 DEF Loaded, Steps
  <2>3. BudgetGrows
    BY <1>1, <2>1, BoundsAssumption DEF BudgetGrows, Budget
  <2> QED
    BY <2>1, <2>2, <2>3, SameStores DEF Effects
<1>7. CASE Look(c)
  <2>1. /\ work' = [work EXCEPT ![c] = [work[c] EXCEPT !.at = "wait", !.cancelled = @ \/ cancel[c].requested]]
        /\ UNCHANGED <<budget, state, kept>> /\ work[c].at = "look"
    BY <1>7 DEF Look, stores
  <2>2. /\ work'[c].at = "wait" /\ work'[c].snapshot = work[c].snapshot /\ work'[c].budget = work[c].budget
        /\ \A d \in Coordinators \ {c} : work'[d] = work[d]
    BY <1>1, <2>1 DEF Workers
  <2>3. \A d \in Coordinators : Copies(d)
    BY <2>1, <2>2 DEF Copies, Loaded
  <2> QED
    BY <2>1, <2>3, SameStores DEF Effects, BudgetGrows
<1>8. CASE Finish(c)
  <2>1. /\ work' = [work EXCEPT ![c] = Idle] /\ UNCHANGED <<budget, state, kept>>
    BY <1>8 DEF Finish, stores
  <2>2. /\ work'[c] = Idle /\ \A d \in Coordinators \ {c} : work'[d] = work[d]
    BY <1>1, <2>1 DEF Workers
  <2>3. \A d \in Coordinators : Copies(d)
    BY <2>2 DEF Copies, Loaded, Idle
  <2> QED
    BY <2>1, <2>3, SameStores DEF Effects, BudgetGrows
<1>9. CASE Commit(c)
  <2> PICK candidate : candidate = Capture(work[c].snapshot.revision, work[c].budget, log)
    OBVIOUS
  <2>1. /\ work[c].at = "capture" /\ Go(c, "end") /\ UNCHANGED budget
        /\ state' = state \/ (state' = candidate /\ Succeeds(candidate, state))
        /\ kept' \subseteq kept \cup {candidate}
    BY <1>9 DEF Commit
  <2>2. /\ candidate.revision = work[c].snapshot.revision + 1 /\ candidate.budget = work[c].budget.revision
        /\ Point(candidate) = Stand(work[c].budget)
    BY DEF Capture, Point, Stand
  <2>3. Point(candidate) \in Points /\ Point(state) \in Points /\ \A k \in kept : Point(k) \in Points
    BY <2>2 DEF Points
  <2>4. StoresCopy
    BY <2>1, <2>2, <2>3 DEF StoresCopy, Succeeds
  <2>5. \A d \in Coordinators : Copies(d)
    BY <1>2, <2>1 DEF Steps
  <2> QED
    BY <2>1, <2>4, <2>5 DEF Effects, BudgetGrows
<1> QED
  BY <1>3, <1>4, <1>5, <1>6, <1>7, <1>8, <1>9 DEF Worker

\* Of a caller, a turn and a crash.
LEMMA OtherEffects ==
  ASSUME Inv, NEW c \in Coordinators,
         Start(c) \/ Turn(c) \/ Cancel(c) \/ CancelTurn(c) \/ Close(c) \/ CloseStep(c) \/ Crash(c)
  PROVE  Effects
<1>1. /\ work \in Workers /\ budget \in Budget
      /\ work[c] \in [at : Steps, snapshot : Snapshot, budget : Budget, cancelled : BOOLEAN]
  BY DEF Inv, TypeOK, Workers
<1>2. ASSUME work' = work PROVE \A d \in Coordinators : Copies(d)
  BY <1>2 DEF Copies, Loaded
<1>3. CASE Start(c) \/ Crash(c)
  <2> PICK at : at = IF Start(c) THEN "state" ELSE "idle"
    OBVIOUS
  <2>1. UNCHANGED <<budget, state, kept>> /\ work' = [work EXCEPT ![c] = [Idle EXCEPT !.at = at]]
    BY <1>3 DEF Start, Crash, stores, Idle
  <2>2. /\ work'[c].at = at /\ work'[c].snapshot = FirstState /\ work'[c].budget = FirstBudget
        /\ at \in {"state", "idle"} /\ \A d \in Coordinators \ {c} : work'[d] = work[d]
    BY <1>1, <2>1 DEF Workers, Idle
  <2>3. \A d \in Coordinators : Copies(d)
    BY <2>2 DEF Copies, Loaded
  <2> QED
    BY <2>1, <2>3, SameStores DEF Effects, BudgetGrows
<1>4. CASE CancelTurn(c)
  <2>1. UNCHANGED <<budget, state, kept>> /\ work' = [work EXCEPT ![c] = [work[c] EXCEPT !.cancelled = @ \/ cancel[c].turn]]
    BY <1>4 DEF CancelTurn, stores
  <2>2. /\ work'[c].at = work[c].at /\ work'[c].snapshot = work[c].snapshot /\ work'[c].budget = work[c].budget
        /\ \A d \in Coordinators \ {c} : work'[d] = work[d]
    BY <1>1, <2>1 DEF Workers
  <2>3. \A d \in Coordinators : Copies(d)
    BY <2>2 DEF Copies, Loaded
  <2> QED
    BY <2>1, <2>3, SameStores DEF Effects, BudgetGrows
<1>5. CASE Cancel(c) \/ Close(c) \/ CloseStep(c)
  BY <1>2, <1>5, SameStores DEF Cancel, Close, CloseStep, stores, Effects, BudgetGrows
<1>6. CASE Turn(c)
  <2> PICK status \in Statuses : TurnEnds(c, status)
    BY <1>6 DEF Turn
  <2>1. /\ UNCHANGED <<state, kept, work>>
        /\ log' = Append(log, [status |-> status, continued |-> work[c].snapshot.cursor])
        /\ \/ budget' = [revision |-> budget.revision + 1, ready |-> TRUE, anchor |-> Len(log')]
           \/ UNCHANGED budget
    BY DEF TurnEnds
  <2>2. Len(log') = Len(log) + 1 /\ Len(log) \in Nat
    BY <2>1 DEF Inv, TypeOK
  <2>3. BudgetGrows
    BY <1>1, <2>1, <2>2 DEF BudgetGrows, Inv, Books, Budget
  <2> QED
    BY <1>2, <2>1, <2>3, SameStores DEF Effects
<1> QED
  BY <1>3, <1>4, <1>5, <1>6

\* Of a host.
LEMMA HostEffects ==
  ASSUME Inv, Host
  PROVE  Effects
<1>1. budget \in Budget
  BY DEF Inv, TypeOK
<1>2. ASSUME work' = work PROVE \A d \in Coordinators : Copies(d)
  BY <1>2 DEF Copies, Loaded
<1>3. CASE Reconcile
  <2>1. /\ state' = Capture(state.revision, budget, log) /\ UNCHANGED <<budget, kept, work>>
    BY <1>3 DEF Reconcile
  <2>2. state'.revision = state.revision + 1 /\ Point(state') = Stand(budget)
    BY <2>1 DEF Capture, Point, Stand
  <2>3. StoresCopy
    BY <2>1, <2>2 DEF StoresCopy, Points
  <2> QED
    BY <1>2, <2>1, <2>3 DEF Effects, BudgetGrows
<1>4. CASE Grant
  <2>1. /\ budget' = [budget EXCEPT !.revision = @ + 1] /\ UNCHANGED <<state, kept, work>>
    BY <1>4 DEF Grant
  <2>2. BudgetGrows
    BY <1>1, <2>1, BoundsAssumption DEF BudgetGrows, Budget
  <2> QED
    BY <1>2, <2>1, <2>2, SameStores DEF Effects
<1>5. ASSUME NEW candidate \in kept, Retry(candidate) PROVE Effects
  <2>1. /\ state' = candidate /\ Succeeds(candidate, state) /\ kept' \subseteq kept
        /\ UNCHANGED <<budget, work>>
    BY <1>5 DEF Retry
  <2>2. StoresCopy
    BY <2>1 DEF StoresCopy, Points, Succeeds
  <2> QED
    BY <1>2, <2>1, <2>2 DEF Effects, BudgetGrows
<1> QED
  BY <1>3, <1>4, <1>5 DEF Host

\* The places agree after it.
LEMMA AgreedStays ==
  ASSUME Inv, Inv', Agreed, Effects
  PROVE  Agreed'
<1>1. Points' \subseteq Points \cup {Stand(budget')}
  <2>1. Point(FirstState) = <<1, 0>> /\ Stand(FirstBudget) = <<1, 0>> /\ <<1, 0>> \in Points
    BY DEF Point, Stand, FirstState, FirstBudget, Points
  <2>2. Point(state) \in Points /\ Stand(budget) \in Points
    BY DEF Points
  <2>3. \A c \in Coordinators : Point(work[c].snapshot) \in Points /\ Stand(work[c].budget) \in Points
    BY DEF Points
  <2>4. \A c \in Coordinators : Point(work'[c].snapshot) \in Points /\ Stand(work'[c].budget) \in Points
    BY <2>1, <2>2, <2>3 DEF Effects, Copies
  <2>5. Point(state') \in Points /\ \A k \in kept' : Point(k) \in Points
    BY DEF Effects, StoresCopy
  <2>6. Points' = {<<1, 0>>, Point(state'), Stand(budget')} \cup {Point(k) : k \in kept'}
          \cup {Point(work'[c].snapshot) : c \in Coordinators} \cup {Stand(work'[c].budget) : c \in Coordinators}
    BY DEF Points, Point, Stand
  <2> QED
    BY <2>1, <2>4, <2>5, <2>6
<1>2. Stand(budget') = <<budget'.revision, budget'.anchor>>
  BY DEF Stand
<1>3. /\ budget.revision \in Nat /\ budget.anchor \in Nat
      /\ budget'.revision \in Nat /\ budget'.anchor \in Nat
  BY BoundsAssumption DEF Inv, TypeOK, Budget
<1>4. CASE budget' = budget
  <2>1. Points' \subseteq Points
    BY <1>1, <1>4 DEF Points
  <2> QED
    BY <1>4, <2>1 DEF Agreed
<1>5. CASE budget'.revision = budget.revision + 1 /\ budget'.anchor >= budget.anchor
  <2>1. \A p \in Points : /\ p[1] \in Nat /\ p[2] \in Nat
                          /\ p[1] < budget'.revision /\ p[2] <= budget'.anchor
    BY <1>3, <1>5 DEF Agreed
  <2> DEFINE b == Stand(budget')
  <2>2. b[1] = budget'.revision /\ b[2] = budget'.anchor
    BY <1>2
  <2> HIDE DEF b
  <2>3. \A p \in Points \cup {b} : /\ p[1] \in Nat /\ p[2] \in Nat
                                   /\ p[1] <= budget'.revision /\ p[2] <= budget'.anchor
    BY <1>3, <2>1, <2>2
  <2>4. \A p, q \in Points \cup {b} : p[1] <= q[1] => p[2] <= q[2]
    BY <1>3, <2>1, <2>2 DEF Agreed
  <2>5. Points' \subseteq Points \cup {b}
    BY <1>1 DEF b
  <2> QED
    BY <2>3, <2>4, <2>5 DEF Agreed
<1> QED
  BY <1>4, <1>5 DEF Effects, BudgetGrows

\* So do the revisions.
LEMMA RevisionsStay ==
  ASSUME Inv, Inv', Publishable, Effects
  PROVE  Successors' /\ Current'
<1>1. /\ state \in Snapshot /\ state' \in Snapshot /\ kept' \subseteq Snapshot
      /\ \A s \in Snapshot : s.revision \in Nat /\ s.budget \in Nat
      /\ \A c \in Coordinators : work[c].snapshot \in Snapshot /\ work[c].budget.revision \in Nat
  <2>1. state \in Snapshot /\ state' \in Snapshot /\ kept' \subseteq Snapshot
    BY DEF Inv, TypeOK
  <2>2. \A s \in Snapshot : s.revision \in Nat /\ s.budget \in Nat
    BY DEF Snapshot
  <2>3. \A c \in Coordinators : work[c].snapshot \in Snapshot /\ work[c].budget \in Budget
    BY DEF Inv, TypeOK
  <2>4. \A b \in Budget : b.revision \in Nat
    BY DEF Budget
  <2> QED
    BY <2>1, <2>2, <2>3, <2>4
<1>2. ASSUME NEW k \in kept'
      PROVE  k.revision <= state'.revision + 1 /\ (k.revision = state'.revision + 1 => k.budget >= state'.budget)
  <2>1. CASE k \in kept
    <3>1. k.revision <= state.revision + 1 /\ (k.revision = state.revision + 1 => k.budget >= state.budget)
      BY <2>1 DEF Publishable, Successors
    <3> QED
      BY <1>1, <3>1 DEF Effects, StoresCopy
  <2>2. CASE k \notin kept
    <3>1. PICK c \in Coordinators : /\ work[c].at = "capture"
                                    /\ k.revision = work[c].snapshot.revision + 1
                                    /\ k.budget = work[c].budget.revision
      BY <2>2 DEF Effects, StoresCopy
    <3>2. /\ work[c].snapshot.revision <= state.revision
          /\ work[c].snapshot.revision = state.revision => work[c].snapshot = state
          /\ work[c].snapshot.budget <= work[c].budget.revision
      BY <3>1 DEF Publishable, Current, Loaded
    <3> QED
      BY <1>1, <3>1, <3>2 DEF Effects, StoresCopy
  <2> QED
    BY <2>1, <2>2
<1>3. ASSUME NEW c \in Coordinators, Loaded(c)'
      PROVE  /\ work'[c].snapshot.revision <= state'.revision
             /\ work'[c].snapshot.revision = state'.revision => work'[c].snapshot = state'
             /\ work'[c].at = "capture" => work'[c].snapshot.budget <= work'[c].budget.revision
  <2>1. CASE Loaded(c) /\ work'[c].snapshot = work[c].snapshot
    <3>1. /\ work[c].snapshot.revision <= state.revision
          /\ work[c].snapshot.revision = state.revision => work[c].snapshot = state
          /\ work[c].at = "capture" => work[c].snapshot.budget <= work[c].budget.revision
      BY <2>1 DEF Publishable, Current
    <3>2. work[c].snapshot.budget <= budget.revision
      <4>1. Point(work[c].snapshot) \in Points
        BY DEF Points
      <4> QED
        BY <4>1 DEF Publishable, Agreed, Point
    <3> QED
      BY <1>1, <2>1, <3>1, <3>2 DEF Effects, Copies, StoresCopy
  <2>2. CASE work'[c].snapshot = state /\ state' = state /\ work'[c].at # "capture"
    BY <1>1, <2>2
  <2> QED
    BY <1>3, <2>1, <2>2 DEF Effects, Copies
<1> QED
  BY <1>2, <1>3 DEF Successors, Current

\* It holds at first, and after every step.
LEMMA PublishableHolds == Spec => []Publishable
<1>1. Init => Publishable
  <2> SUFFICES ASSUME Init PROVE Publishable
    OBVIOUS
  <2>1. /\ budget = FirstBudget /\ state = FirstState /\ kept = {}
        /\ \A c \in Coordinators : work[c] = Idle
    BY DEF Init
  <2>2. Point(FirstState) = <<1, 0>> /\ Stand(FirstBudget) = <<1, 0>>
        /\ Idle.snapshot = FirstState /\ Idle.budget = FirstBudget /\ Idle.at = "idle"
    BY DEF Point, Stand, FirstState, FirstBudget, Idle
  <2>3. \A p \in Points : p = <<1, 0>>
    BY <2>1, <2>2 DEF Points
  <2>4. budget.revision = 1 /\ budget.anchor = 0
    BY <2>1 DEF FirstBudget
  <2>5. Agreed
    BY <2>3, <2>4 DEF Agreed
  <2> QED
    BY <2>1, <2>2, <2>5 DEF Publishable, Successors, Current, Loaded
<1>2. Inv /\ Inv' /\ Publishable /\ [Next]_vars => Publishable'
  <2> SUFFICES ASSUME Inv, Inv', Publishable, [Next]_vars PROVE Publishable'
    OBVIOUS
  <2>1. Effects
    <3>1. CASE UNCHANGED vars
      <4>1. \A c \in Coordinators : Copies(c)
        BY <3>1 DEF vars, Copies, Loaded
      <4> QED
        BY <3>1, <4>1, SameStores DEF vars, Effects, BudgetGrows
    <3> QED
      BY <3>1, WorkerEffects, OtherEffects, HostEffects DEF Next
  <2> QED
    BY <2>1, AgreedStays, RevisionsStay DEF Publishable
<1> QED
  BY InvHolds, <1>1, <1>2, PTL DEF Spec

\* What the snapshot in the store says is true, and a snapshot retained from a
\* failed commit can be committed unchanged for as long as nobody has replaced
\* the one it was made from: whoever else continued the task meanwhile.
THEOREM SnapshotsStayTrue == Spec => []SnapshotTrue
<1>1. Inv /\ Publishable => KeptPublishable
  <2> SUFFICES ASSUME Inv, Publishable, NEW k \in kept, k.revision = state.revision + 1
               PROVE  Succeeds(k, state)
    BY DEF KeptPublishable
  <2>1. k.budget >= state.budget
    BY DEF Publishable, Successors
  <2>2. Point(k) \in Points /\ Point(state) \in Points
    BY DEF Points
  <2>3. Point(k)[1] = k.budget /\ Point(k)[2] = k.cursor /\ Point(state)[1] = state.budget
        /\ Point(state)[2] = state.cursor
    BY DEF Point
  <2>4. k.cursor \in Nat /\ state.cursor \in Nat /\ k.budget \in Nat /\ state.budget \in Nat
    BY DEF Inv, TypeOK, Snapshot
  <2>5. \A p, q \in Points : p[1] <= q[1] => p[2] <= q[2]
    BY DEF Publishable, Agreed
  <2>6. k.cursor >= state.cursor
    BY <2>1, <2>2, <2>3, <2>4, <2>5
  <2>7. k.budget = state.budget => k.cursor = state.cursor
    BY <2>2, <2>3, <2>4, <2>5
  <2>8. k.cursor = state.cursor => k.phase = state.phase
    BY DEF Inv, Books, Faithful
  <2> QED
    BY <2>1, <2>6, <2>7, <2>8 DEF Succeeds
<1> QED
  BY <1>1, InvHolds, PublishableHolds, SnapshotsAreTrue, PTL DEF SnapshotTrue

-----------------------------------------------------------------------------
(***************************************************************************)
(* The order in which the assessment tells what it found.                  *)
(***************************************************************************)
\* Sorted by keys that tell its elements apart, a finite set is told completely,
\* in increasing order.
LEMMA InOrderSorts ==
  ASSUME NEW S, IsFiniteSet(S), NEW key \in [S -> Nat], \A x, y \in S : key[x] = key[y] => x = y
  PROVE  /\ DOMAIN InOrder(S, key) = 1 .. Cardinality(S)
         /\ \A n \in 1 .. Cardinality(S) : InOrder(S, key)[n] \in S
         /\ \A n, m \in 1 .. Cardinality(S) : n < m => key[InOrder(S, key)[n]] < key[InOrder(S, key)[m]]
         /\ \A x \in S : \E n \in 1 .. Cardinality(S) : InOrder(S, key)[n] = x
<1> DEFINE upTo(x) == {y \in S : key[y] <= key[x]}
           rank == [x \in S |-> Cardinality(upTo(x))]
           size == Cardinality(S)
           told == InOrder(S, key)
<1>1. \A x \in S : IsFiniteSet(upTo(x)) /\ Cardinality(upTo(x)) \in 1 .. size
  <2> SUFFICES ASSUME NEW x \in S
               PROVE  IsFiniteSet(upTo(x)) /\ Cardinality(upTo(x)) \in 1 .. size
    OBVIOUS
  <2>1. upTo(x) \in SUBSET S /\ x \in upTo(x)
    OBVIOUS
  <2>2. IsFiniteSet(upTo(x)) /\ Cardinality(upTo(x)) <= size
    BY <2>1, FS_Subset
  <2>3. Cardinality(upTo(x)) # 0
    BY <2>1, <2>2, FS_EmptySet
  <2>4. Cardinality(upTo(x)) \in Nat /\ size \in Nat
    BY <2>2, FS_CardinalityType
  <2> HIDE DEF upTo, size
  <2> QED
    BY <2>2, <2>3, <2>4
<1>2. \A x, y \in S : key[x] < key[y] => rank[x] < rank[y]
  <2> SUFFICES ASSUME NEW x \in S, NEW y \in S, key[x] < key[y]
               PROVE  Cardinality(upTo(x)) < Cardinality(upTo(y))
    OBVIOUS
  <2>1. upTo(x) \in SUBSET upTo(y) /\ y \in upTo(y) /\ y \notin upTo(x)
    BY SMT
  <2>2. Cardinality(upTo(x)) <= Cardinality(upTo(y)) /\ Cardinality(upTo(x)) # Cardinality(upTo(y))
    BY <1>1, <2>1, FS_Subset
  <2>3. Cardinality(upTo(x)) \in Nat /\ Cardinality(upTo(y)) \in Nat
    BY <1>1, FS_CardinalityType
  <2> HIDE DEF upTo
  <2> QED
    BY <2>2, <2>3
<1>3. size \in Nat /\ IsFiniteSet(1 .. size) /\ Cardinality(1 .. size) = size
  <2>1. size \in Nat
    BY FS_CardinalityType
  <2> HIDE DEF size
  <2> QED
    BY <2>1, FS_Interval
<1>4. rank \in [S -> 1 .. size]
  BY <1>1
<1>5. \A x, y \in S : rank[x] = rank[y] => x = y
  <2> SUFFICES ASSUME NEW x \in S, NEW y \in S, rank[x] = rank[y], x # y
               PROVE  FALSE
    OBVIOUS
  <2>1. key[x] \in Nat /\ key[y] \in Nat /\ key[x] # key[y] /\ rank[x] \in Nat /\ rank[y] \in Nat
    BY <1>3, <1>4
  <2> HIDE DEF rank, size
  <2> QED
    BY <1>2, <2>1
<1>6. \A n \in 1 .. size : \E x \in S : rank[x] = n
  <2> HIDE DEF rank, size
  <2>1. rank \in Injection(S, 1 .. size)
    BY <1>4, <1>5 DEF Injection, IsInjective
  <2>2. rank \in Surjection(S, 1 .. size)
    BY <1>3, <2>1, FS_Injection DEF size
  <2> QED
    BY <2>2 DEF Surjection
<1>7. /\ DOMAIN told = 1 .. size
      /\ \A n \in 1 .. size : told[n] = CHOOSE x \in S : rank[x] = n
  BY DEF InOrder
<1> HIDE DEF rank, size, told
<1>8. \A n \in 1 .. size : told[n] \in S /\ rank[told[n]] = n
  BY <1>6, <1>7
<1>9. \A n, m \in 1 .. size : n < m => key[told[n]] < key[told[m]]
  <2> SUFFICES ASSUME NEW n \in 1 .. size, NEW m \in 1 .. size, n < m, ~(key[told[n]] < key[told[m]])
               PROVE  FALSE
    OBVIOUS
  <2>1. told[n] \in S /\ told[m] \in S /\ rank[told[n]] = n /\ rank[told[m]] = m
    BY <1>8
  <2>2. key[told[n]] \in Nat /\ key[told[m]] \in Nat
    BY <2>1
  <2>3. CASE key[told[n]] = key[told[m]]
    BY <1>3, <2>1, <2>3
  <2>4. CASE key[told[m]] < key[told[n]]
    BY <1>2, <1>3, <2>1, <2>4
  <2> QED
    BY <2>2, <2>3, <2>4
<1>10. \A x \in S : told[rank[x]] = x /\ rank[x] \in 1 .. size
  BY <1>4, <1>5, <1>8
<1> QED
  BY <1>7, <1>8, <1>9, <1>10 DEF told, size

\* The positions of a sequence are already in order.
LEMMA InOrderOfPositions ==
  ASSUME NEW n \in Nat, NEW key, key = [i \in 1 .. n |-> i]
  PROVE  InOrder(1 .. n, key) = key
<1>1. Cardinality(1 .. n) = n /\ \A x \in 1 .. n : Cardinality(1 .. x) = x
  BY FS_Interval
<1>2. \A x \in 1 .. n : {y \in 1 .. n : key[y] <= key[x]} = 1 .. x
  OBVIOUS
<1>3. \A m \in 1 .. n : (CHOOSE x \in 1 .. n : Cardinality({y \in 1 .. n : key[y] <= key[x]}) = m) = m
  <2> SUFFICES ASSUME NEW m \in 1 .. n
               PROVE  (CHOOSE x \in 1 .. n : Cardinality({y \in 1 .. n : key[y] <= key[x]}) = m) = m
    OBVIOUS
  <2>1. \A x \in 1 .. n : Cardinality({y \in 1 .. n : key[y] <= key[x]}) = x
    BY <1>1, <1>2
  <2> QED
    BY <2>1
<1> QED
  BY <1>1, <1>3 DEF InOrder

-----------------------------------------------------------------------------
(***************************************************************************)
(* What no runtime writes, rule by rule.                                   *)
(***************************************************************************)
EventKinds == {"user", "terminal", "other", "report"} \cup Counted
AnEvent == [seq : Nat, id : Nat, turn : TurnIds, kind : EventKinds, call : CallIds \cup {None},
            step : StepIds \cup {None}, counts : [Counted -> Nat]]

\* WellFormed, said of two and of three events at a time.
Addressed(h) ==
  \A i \in DOMAIN h : h[i].seq = i - 1 /\ \A j \in DOMAIN h : h[j].id = h[i].id => i = j
Opened(h) ==
  \A i \in DOMAIN h : h[i].kind = "user" <=> \A j \in DOMAIN h : h[j].turn = h[i].turn => i <= j
Unbroken(h) ==
  \A i, j, k \in DOMAIN h : h[j].turn = h[i].turn /\ i < k /\ k < j => h[k].turn = h[i].turn
NothingAfter(h) ==
  \A i, j \in DOMAIN h : h[i].kind = "terminal" /\ h[j].turn = h[i].turn => j <= i
Ended(h) ==
  \A i \in DOMAIN h :
    i < Len(h) /\ (\A j \in DOMAIN h : h[j].turn = h[i].turn => j <= i) => h[i].kind = "terminal"
ReportsLast(h) ==
  \A i, j \in DOMAIN h :
    j = i + 1 /\ h[i].kind = "report" /\ h[j].turn = h[i].turn => h[j].kind = "terminal"

\* Matched, likewise: event i is answered by event j.
Answers(h, j, i) ==
  /\ i < j /\ h[i].turn = h[j].turn /\ h[i].kind \in Intents /\ ResultOf[h[i].kind] = h[j].kind
  /\ h[i].call = h[j].call
Answered(h) ==
  \A j \in DOMAIN h : h[j].kind \in Results => \E i \in DOMAIN h : Answers(h, j, i)
Once(h) ==
  \A i, j \in DOMAIN h :
    h[i].kind \in Counted /\ i # j /\ h[j].kind = h[i].kind => h[j].call # h[i].call
Tallied(h) ==
  \A i \in DOMAIN h : h[i].kind = "report" =>
    h[i].counts = [k \in Counted |-> Cardinality({n \in TurnOf(h, i) : n < i /\ h[n].kind = k})]

\* The rules of WellFormed are these.
LEMMA WellFormedByRules ==
  ASSUME NEW h \in Seq(AnEvent)
  PROVE  WellFormed(h) <=> /\ Addressed(h) /\ Opened(h) /\ Unbroken(h) /\ NothingAfter(h)
                           /\ Ended(h) /\ ReportsLast(h)
<1>1. \A i, j : j \in TurnOf(h, i) <=> j \in DOMAIN h /\ h[j].turn = h[i].turn
  BY DEF TurnOf
<1>2. \A i : i \in DOMAIN h => i \in Nat
  OBVIOUS
<1>3. WellFormed(h) => Addressed(h)
  BY DEF WellFormed, Addressed
<1>4. WellFormed(h) => Opened(h)
  BY <1>1 DEF WellFormed, Opened
<1>5. WellFormed(h) => Unbroken(h)
  <2> SUFFICES ASSUME WellFormed(h), NEW i \in DOMAIN h, NEW j \in DOMAIN h, NEW k \in DOMAIN h,
                      h[j].turn = h[i].turn, i < k, k < j
               PROVE  h[k].turn = h[i].turn
    BY Zenon DEF Unbroken
  <2>1. j \in TurnOf(h, i)
    BY <1>1
  <2>2. \A n \in TurnOf(h, i), m \in DOMAIN h : i < m /\ m < n => h[m].turn = h[i].turn
    BY Zenon DEF WellFormed
  <2> QED
    BY <2>1, <2>2
<1>6. WellFormed(h) => NothingAfter(h)
  BY <1>1 DEF WellFormed, NothingAfter
<1>7. WellFormed(h) => Ended(h)
  BY <1>1 DEF WellFormed, Ended
<1>8. WellFormed(h) => ReportsLast(h)
  BY <1>1, <1>2 DEF WellFormed, ReportsLast
<1>9. Addressed(h) /\ Opened(h) /\ Unbroken(h) /\ NothingAfter(h) /\ Ended(h) /\ ReportsLast(h) => WellFormed(h)
  <2> SUFFICES ASSUME Addressed(h), Opened(h), Unbroken(h), NothingAfter(h), Ended(h), ReportsLast(h),
                      NEW i \in DOMAIN h
               PROVE  /\ h[i].seq = i - 1 /\ \A j \in DOMAIN h : h[j].id = h[i].id => i = j
                      /\ (h[i].kind = "user") <=> (\A j \in TurnOf(h, i) : i <= j)
                      /\ \A j \in TurnOf(h, i), k \in DOMAIN h : i < k /\ k < j => h[k].turn = h[i].turn
                      /\ h[i].kind = "terminal" => \A j \in TurnOf(h, i) : j <= i
                      /\ (\A j \in TurnOf(h, i) : j <= i) /\ i < Len(h) => h[i].kind = "terminal"
                      /\ h[i].kind = "report" /\ i + 1 \in TurnOf(h, i) => h[i + 1].kind = "terminal"
    BY Zenon DEF WellFormed
  <2>1. h[i].seq = i - 1 /\ \A j \in DOMAIN h : h[j].id = h[i].id => i = j
    BY DEF Addressed
  <2>2. (h[i].kind = "user") <=> (\A j \in TurnOf(h, i) : i <= j)
    BY <1>1 DEF Opened
  <2>3. \A j \in TurnOf(h, i), k \in DOMAIN h : i < k /\ k < j => h[k].turn = h[i].turn
    BY <1>1 DEF Unbroken
  <2>4. h[i].kind = "terminal" => \A j \in TurnOf(h, i) : j <= i
    BY <1>1 DEF NothingAfter
  <2>5. (\A j \in TurnOf(h, i) : j <= i) /\ i < Len(h) => h[i].kind = "terminal"
    BY <1>1 DEF Ended
  <2>6. h[i].kind = "report" /\ i + 1 \in TurnOf(h, i) => h[i + 1].kind = "terminal"
    BY <1>1 DEF ReportsLast
  <2> QED
    BY <2>1, <2>2, <2>3, <2>4, <2>5, <2>6
<1> QED
  BY <1>3, <1>4, <1>5, <1>6, <1>7, <1>8, <1>9

\* The intents an event may be the answer to.
LEMMA IntentOfByRules ==
  ASSUME NEW h, NEW i, NEW j
  PROVE  i \in IntentOf(h, j) <=> i \in DOMAIN h /\ Answers(h, j, i)
  BY DEF IntentOf, TurnOf, Answers

\* The rules of Matched are these.
LEMMA MatchedByRules ==
  ASSUME NEW h \in Seq(AnEvent)
  PROVE  Matched(h) <=> Answered(h) /\ Once(h) /\ Tallied(h)
<1>1. \A i, j : i \in IntentOf(h, j) <=> i \in DOMAIN h /\ Answers(h, j, i)
  BY IntentOfByRules
<1>2. Matched(h) => Answered(h)
  BY <1>1 DEF Matched, Answered
<1>3. Matched(h) => Once(h)
  BY DEF Matched, Once, Counted
<1>4. Matched(h) => Tallied(h)
  BY DEF Matched, Tallied
<1>5. Answered(h) /\ Once(h) /\ Tallied(h) => Matched(h)
  <2> SUFFICES ASSUME Answered(h), Once(h), Tallied(h), NEW i \in DOMAIN h, NEW j \in DOMAIN h
               PROVE  /\ h[i].kind \in Results =>
                           /\ IntentOf(h, i) # {}
                           /\ i # j /\ h[j].kind = h[i].kind => h[j].call # h[i].call
                      /\ h[i].kind \in Intents /\ i # j /\ h[j].kind = h[i].kind => h[j].call # h[i].call
                      /\ h[i].kind = "report" =>
                           h[i].counts = [k \in Counted |-> Cardinality({n \in TurnOf(h, i) : n < i /\ h[n].kind = k})]
    BY Zenon DEF Matched
  <2>1. h[i].kind \in Results => IntentOf(h, i) # {}
    BY <1>1 DEF Answered
  <2>2. h[i].kind \in Counted /\ i # j /\ h[j].kind = h[i].kind => h[j].call # h[i].call
    BY DEF Once
  <2>3. h[i].kind = "report" =>
          h[i].counts = [k \in Counted |-> Cardinality({n \in TurnOf(h, i) : n < i /\ h[n].kind = k})]
    BY DEF Tallied
  <2> QED
    BY <2>1, <2>2, <2>3 DEF Counted
<1> QED
  BY <1>2, <1>3, <1>4, <1>5

-----------------------------------------------------------------------------
(***************************************************************************)
(* The loop knows of the history what its checks need.                     *)
(***************************************************************************)
Unanswered(h) == {i \in DOMAIN h : h[i].kind \in Intents /\ \A j \in DOMAIN h : ~Answers(h, j, i)}

Recalled ==
  /\ turns = {history[i].turn : i \in DOMAIN history}
  /\ history = <<>> => current = None /\ closed
  /\ history # <<>> => /\ current = history[Len(history)].turn
                       /\ closed <=> history[Len(history)].kind = "terminal"
  /\ reported <=> \E i \in DOMAIN history : history[i].turn = current /\ history[i].kind = "report"
  /\ calls = {<<history[i].kind, history[i].call>> : i \in {j \in DOMAIN history : history[j].kind \in Intents}}
  /\ pending = {Operation(history[i]) : i \in Unanswered(history)}
  /\ counts = Counts(current)

Lawful(h) == WellFormed(h) /\ Matched(h)

ReadSoFar ==
  /\ history \in Seq(AnEvent) /\ refused \in SUBSET AnEvent
  /\ Lawful(history) /\ \A e \in refused : ~Lawful(Append(history, e))
  /\ Recalled

\* h is the history with e at its end.
Grown(h, e) ==
  /\ h = Append(history, e) /\ h \in Seq(AnEvent) /\ e \in AnEvent
  /\ Len(h) = Len(history) + 1 /\ Len(history) \in Nat
  /\ DOMAIN history = 1 .. Len(history) /\ DOMAIN h = 1 .. Len(h)
  /\ \A i \in DOMAIN history : i \in DOMAIN h /\ h[i] = history[i] /\ h[i] \in AnEvent
  /\ h[Len(h)] = e

\* A history grows at its end.
LEMMA Growing ==
  ASSUME history \in Seq(AnEvent), NEW e \in AnEvent
  PROVE  Grown(Append(history, e), e)
  BY DEF Grown

\* The events that come up are events.
PlainEvents == {Event(t, k) : t \in TurnIds, k \in {"user", "terminal", "other"}}
IntentEvents ==
  {[Event(t, k) EXCEPT !.call = c, !.step = s] :
     t \in TurnIds, k \in Intents, c \in CallIds, s \in StepIds \cup {None}}
ResultEvents == {[Event(t, k) EXCEPT !.call = c] : t \in TurnIds, k \in Results, c \in CallIds}
ReportEvents ==
  {[Event(t, "report") EXCEPT !.counts = n] :
     t \in TurnIds, n \in UNION {{Counts(u), [Counts(u) EXCEPT !["tool result"] = @ + 1]} : u \in TurnIds}}
StrangeEvents ==
  {[Event(t, "other") EXCEPT !.seq = q, !.id = i] :
     t \in TurnIds, q \in {Len(history), Len(history) + 1}, i \in {0, Len(history)}}

\* What may follow is one of these.
LEMMA EventsByWriter ==
  Events = {e \in PlainEvents \cup IntentEvents \cup ResultEvents \cup ReportEvents \cup StrangeEvents :
              e.kind \in Kinds}
  BY DEF Events, PlainEvents, IntentEvents, ResultEvents, ReportEvents, StrangeEvents

\* What may follow is an event.
LEMMA EventsTyped ==
  ASSUME history \in Seq(AnEvent), NEW e \in Events
  PROVE  e \in AnEvent
<1>1. Len(history) \in Nat /\ DOMAIN history = 1 .. Len(history)
  OBVIOUS
<1>2. NoCounts \in [Counted -> Nat] /\ \A t : Counts(t) \in [Counted -> Nat]
  <2>1. \A t, k : Cardinality({i \in DOMAIN history : history[i].turn = t /\ history[i].kind = k}) \in Nat
    <3> SUFFICES ASSUME NEW t, NEW k
                 PROVE  Cardinality({i \in DOMAIN history : history[i].turn = t /\ history[i].kind = k}) \in Nat
      OBVIOUS
    <3>1. IsFiniteSet(DOMAIN history)
      BY <1>1, FS_Interval
    <3>2. IsFiniteSet({i \in DOMAIN history : history[i].turn = t /\ history[i].kind = k})
      BY <3>1, FS_Subset
    <3> QED
      BY <3>2, FS_CardinalityType
  <2>2. NoCounts \in [Counted -> Nat]
    BY DEF NoCounts
  <2>3. ASSUME NEW t
        PROVE  Counts(t) \in [Counted -> Nat]
    <3> DEFINE n(k) == Cardinality({i \in DOMAIN history : history[i].turn = t /\ history[i].kind = k})
    <3>1. \A k : n(k) \in Nat
      BY <2>1
    <3> HIDE DEF n
    <3>2. [k \in Counted |-> n(k)] \in [Counted -> Nat]
      BY <3>1
    <3> QED
      BY <3>2 DEF Counts, n
  <2> QED
    BY <2>2, <2>3
<1>3. \A t \in TurnIds, k \in EventKinds : Event(t, k) \in AnEvent
  BY <1>1, <1>2 DEF Event, AnEvent
<1>4. \A u : [Counts(u) EXCEPT !["tool result"] = @ + 1] \in [Counted -> Nat]
  <2> SUFFICES ASSUME NEW u
               PROVE  [Counts(u) EXCEPT !["tool result"] = @ + 1] \in [Counted -> Nat]
    OBVIOUS
  <2> DEFINE c == Counts(u)
  <2>1. c \in [Counted -> Nat] /\ "tool result" \in Counted
    BY <1>2 DEF Counted, Results
  <2> HIDE DEF c
  <2>2. c["tool result"] + 1 \in Nat
    <3>1. \A k \in Counted : c[k] \in Nat
      BY <2>1
    <3> DEFINE m == c["tool result"]
    <3>2. m \in Nat
      BY <2>1, <3>1
    <3> HIDE DEF m
    <3>3. m + 1 \in Nat
      BY <3>2
    <3> QED
      BY <3>3 DEF m
  <2>3. [c EXCEPT !["tool result"] = @ + 1] \in [Counted -> Nat]
    BY <2>1, <2>2, Zenon
  <2> QED
    BY <2>3 DEF c
<1>5. /\ {"user", "terminal", "other", "report"} \subseteq EventKinds
      /\ Intents \subseteq EventKinds /\ Results \subseteq EventKinds
  BY DEF EventKinds, Counted
<1>6. \A x \in AnEvent, c \in CallIds, s \in StepIds \cup {None} : [x EXCEPT !.call = c, !.step = s] \in AnEvent
  BY DEF AnEvent
<1>7. \A x \in AnEvent, c \in CallIds : [x EXCEPT !.call = c] \in AnEvent
  BY DEF AnEvent
<1>8. \A x \in AnEvent, n \in [Counted -> Nat] : [x EXCEPT !.counts = n] \in AnEvent
  BY DEF AnEvent
<1>9. \A x \in AnEvent, q \in {Len(history), Len(history) + 1}, i \in {0, Len(history)} :
        [x EXCEPT !.seq = q, !.id = i] \in AnEvent
  <2>1. \A x \in AnEvent, q \in Nat, i \in Nat : [x EXCEPT !.seq = q, !.id = i] \in AnEvent
    BY DEF AnEvent
  <2>2. {Len(history), Len(history) + 1} \subseteq Nat /\ {0, Len(history)} \subseteq Nat
    BY <1>1
  <2> QED
    BY <2>1, <2>2, Zenon
<1>10. \A t \in TurnIds, k \in Intents, c \in CallIds, s \in StepIds \cup {None} :
         [Event(t, k) EXCEPT !.call = c, !.step = s] \in AnEvent
  BY <1>3, <1>5, <1>6, Zenon
<1>11. \A t \in TurnIds, k \in Results, c \in CallIds : [Event(t, k) EXCEPT !.call = c] \in AnEvent
  BY <1>3, <1>5, <1>7, Zenon
<1>12. \A t \in TurnIds, n \in UNION {{Counts(u), [Counts(u) EXCEPT !["tool result"] = @ + 1]} : u \in TurnIds} :
         [Event(t, "report") EXCEPT !.counts = n] \in AnEvent
  <2> SUFFICES ASSUME NEW t \in TurnIds, NEW u \in TurnIds,
                      NEW n \in {Counts(u), [Counts(u) EXCEPT !["tool result"] = @ + 1]}
               PROVE  [Event(t, "report") EXCEPT !.counts = n] \in AnEvent
    BY Zenon
  <2>1. n \in [Counted -> Nat]
    BY <1>2, <1>4, Zenon
  <2> QED
    BY <1>3, <1>5, <1>8, <2>1, Zenon
<1>13. \A t \in TurnIds, q \in {Len(history), Len(history) + 1}, i \in {0, Len(history)} :
         [Event(t, "other") EXCEPT !.seq = q, !.id = i] \in AnEvent
  BY <1>3, <1>5, <1>9, Zenon
<1>14. \A t \in TurnIds, k \in {"user", "terminal", "other"} : Event(t, k) \in AnEvent
  BY <1>3, <1>5
<1>15. PlainEvents \subseteq AnEvent
  BY <1>14 DEF PlainEvents
<1>16. IntentEvents \subseteq AnEvent
  <2> DEFINE event(t, k, c, s) == [Event(t, k) EXCEPT !.call = c, !.step = s]
  <2>1. IntentEvents = {event(t, k, c, s) : t \in TurnIds, k \in Intents, c \in CallIds, s \in StepIds \cup {None}}
    BY DEF IntentEvents
  <2>2. \A t \in TurnIds, k \in Intents, c \in CallIds, s \in StepIds \cup {None} : event(t, k, c, s) \in AnEvent
    BY <1>10, Zenon
  <2> HIDE DEF event
  <2> QED
    BY <2>1, <2>2
<1>17. ResultEvents \subseteq AnEvent
  <2> DEFINE event(t, k, c) == [Event(t, k) EXCEPT !.call = c]
  <2>1. ResultEvents = {event(t, k, c) : t \in TurnIds, k \in Results, c \in CallIds}
    BY DEF ResultEvents
  <2>2. \A t \in TurnIds, k \in Results, c \in CallIds : event(t, k, c) \in AnEvent
    BY <1>11, Zenon
  <2> HIDE DEF event
  <2> QED
    BY <2>1, <2>2
<1>18. ReportEvents \subseteq AnEvent
  <2> DEFINE event(t, n) == [Event(t, "report") EXCEPT !.counts = n]
             tallies == UNION {{Counts(u), [Counts(u) EXCEPT !["tool result"] = @ + 1]} : u \in TurnIds}
  <2>1. ReportEvents = {event(t, n) : t \in TurnIds, n \in tallies}
    BY DEF ReportEvents
  <2>2. \A t \in TurnIds, n \in tallies : event(t, n) \in AnEvent
    BY <1>12, Zenon
  <2> HIDE DEF event, tallies
  <2> QED
    BY <2>1, <2>2
<1>19. StrangeEvents \subseteq AnEvent
  <2> DEFINE event(t, q, i) == [Event(t, "other") EXCEPT !.seq = q, !.id = i]
             seqs == {Len(history), Len(history) + 1}
             ids == {0, Len(history)}
  <2>1. StrangeEvents = {event(t, q, i) : t \in TurnIds, q \in seqs, i \in ids}
    BY DEF StrangeEvents
  <2>2. \A t \in TurnIds, q \in seqs, i \in ids : event(t, q, i) \in AnEvent
    BY <1>13, Zenon
  <2> HIDE DEF event, seqs, ids
  <2> QED
    BY <2>1, <2>2
<1> QED
  BY <1>15, <1>16, <1>17, <1>18, <1>19, EventsByWriter

-----------------------------------------------------------------------------
(***************************************************************************)
(* An event that the loop accepts keeps the rules; one that keeps them is  *)
(* accepted.                                                               *)
(***************************************************************************)
\* What the rules and the loop say before the event.
LEMMA KnownSoFar ==
  ASSUME ReadSoFar
  PROVE  /\ Addressed(history) /\ Opened(history) /\ Unbroken(history) /\ NothingAfter(history)
         /\ Ended(history) /\ ReportsLast(history)
         /\ Answered(history) /\ Once(history) /\ Tallied(history) /\ Recalled
         /\ history \in Seq(AnEvent)
  BY WellFormedByRules, MatchedByRules DEF ReadSoFar, Lawful

\* Where the turn of an event that goes on is: at the end.
LEMMA CurrentTurn ==
  ASSUME ReadSoFar, NEW e \in AnEvent
  PROVE  /\ e.turn = current => history # <<>> /\ history[Len(history)].turn = e.turn
         /\ e.turn \in turns <=> \E i \in DOMAIN history : history[i].turn = e.turn
         /\ history # <<>> => Len(history) \in DOMAIN history
         /\ ~closed => history # <<>>
<1>1. Recalled /\ history \in Seq(AnEvent)
  BY DEF ReadSoFar
<1>2. e.turn \in TurnIds /\ e.turn # None
  BY NoneAssumption DEF AnEvent
<1>3. history # <<>> => Len(history) \in DOMAIN history
  BY <1>1
<1>4. e.turn = current => history # <<>> /\ history[Len(history)].turn = e.turn
  BY <1>1, <1>2 DEF Recalled
<1>5. e.turn \in turns <=> \E i \in DOMAIN history : history[i].turn = e.turn
  BY <1>1 DEF Recalled
<1> QED
  BY <1>1, <1>3, <1>4, <1>5 DEF Recalled

\* An accepted event keeps turns whole.
LEMMA AcceptedWellFormed ==
  ASSUME ReadSoFar, NEW e \in AnEvent, Accepts(e), NEW h, Grown(h, e)
  PROVE  WellFormed(h)
<1>1. /\ Addressed(history) /\ Opened(history) /\ Unbroken(history) /\ NothingAfter(history)
      /\ Ended(history) /\ ReportsLast(history) /\ Recalled
  BY KnownSoFar
<1>2. /\ e.turn = current => history # <<>> /\ history[Len(history)].turn = e.turn
      /\ e.turn \in turns <=> \E i \in DOMAIN history : history[i].turn = e.turn
      /\ history # <<>> => Len(history) \in DOMAIN history
  BY CurrentTurn
<1> DEFINE last == Len(history)
<1>3. /\ h \in Seq(AnEvent) /\ last \in Nat /\ Len(h) = last + 1 /\ h[last + 1] = e
      /\ DOMAIN history = 1 .. last /\ DOMAIN h = 1 .. last + 1
      /\ \A i \in 1 .. last : h[i] = history[i]
  BY DEF Grown
<1>4. /\ history = <<>> => last = 0
      /\ history # <<>> => last # 0
  BY DEF Grown
<1>5. /\ e.seq = last /\ \A i \in 1 .. last : history[i].id # e.id
      /\ Enveloped(e) /\ (e.turn = current /\ reported => e.kind = "terminal")
  BY <1>3 DEF Accepts
<1>6. CASE e.turn = current
  <2>1. last \in 1 .. last /\ history[last].turn = e.turn /\ e.kind # "user" /\ ~closed
    BY <1>2, <1>3, <1>4, <1>5, <1>6 DEF Enveloped
  <2>2. history[last].kind # "terminal"
    BY <1>1, <2>1, <1>4, <1>3 DEF Recalled
  <2>3. Addressed(h)
    BY <1>1, <1>3, <1>5 DEF Addressed
  <2>4. Opened(h)
    BY <1>1, <1>3, <2>1 DEF Opened
  <2>5. Unbroken(h)
    BY <1>1, <1>3, <2>1 DEF Unbroken
  <2>6. NothingAfter(h)
    BY <1>1, <1>3, <2>1, <2>2 DEF NothingAfter
  <2>7. Ended(h)
    BY <1>1, <1>3, <2>1 DEF Ended
  <2>8. history[last].kind = "report" => e.kind = "terminal"
    BY <1>1, <1>3, <1>5, <1>6, <2>1 DEF Recalled
  <2>9. ReportsLast(h)
    BY <1>1, <1>3, <2>8 DEF ReportsLast
  <2> QED
    BY <1>3, <2>3, <2>4, <2>5, <2>6, <2>7, <2>9, WellFormedByRules
<1>7. CASE e.turn # current
  <2>1. closed /\ e.kind = "user" /\ \A i \in 1 .. last : history[i].turn # e.turn
    BY <1>2, <1>3, <1>5, <1>7 DEF Enveloped
  <2>2. last # 0 => last \in 1 .. last /\ history[last].kind = "terminal"
    BY <1>1, <1>3, <1>4, <2>1 DEF Recalled
  <2>3. Addressed(h)
    BY <1>1, <1>3, <1>5 DEF Addressed
  <2>4. Opened(h)
    BY <1>1, <1>3, <2>1 DEF Opened
  <2>5. Unbroken(h)
    BY <1>1, <1>3, <2>1 DEF Unbroken
  <2>6. NothingAfter(h)
    BY <1>1, <1>3, <2>1 DEF NothingAfter
  <2>7. Ended(h)
    BY <1>1, <1>3, <2>1, <2>2 DEF Ended
  <2>8. ReportsLast(h)
    BY <1>1, <1>3, <2>1 DEF ReportsLast
  <2> QED
    BY <1>3, <2>3, <2>4, <2>5, <2>6, <2>7, <2>8, WellFormedByRules
<1> QED
  BY <1>6, <1>7

\* A result tells which kind of intent it is the result of.
LEMMA ResultsTellKinds ==
  \A a, b \in Intents : ResultOf[a] = ResultOf[b] => a = b
<1>1. ResultOf["model"] = "model result" /\ ResultOf["tool"] = "tool result"
  BY DEF ResultOf
<1> QED
  BY <1>1 DEF Intents

\* An operation that an event would resolve is an intent that it would answer.
LEMMA ResolvedIsAnswered ==
  ASSUME ReadSoFar, NEW e \in AnEvent, NEW h, Grown(h, e)
  PROVE  /\ \A i \in Unanswered(history) : Resolves(Operation(history[i]), e) <=> Answers(h, Len(h), i)
         /\ (\E p \in pending : Resolves(p, e)) <=> \E i \in Unanswered(history) : Answers(h, Len(h), i)
<1>1. pending = {Operation(history[i]) : i \in Unanswered(history)}
  BY DEF ReadSoFar, Recalled
<1>2. \A i \in Unanswered(history) : Resolves(Operation(history[i]), e) <=> Answers(h, Len(h), i)
  <2> SUFFICES ASSUME NEW i \in Unanswered(history)
               PROVE  Resolves(Operation(history[i]), e) <=> Answers(h, Len(h), i)
    OBVIOUS
  <2>1. i \in DOMAIN history /\ i < Len(h) /\ h[i] = history[i] /\ h[Len(h)] = e /\ h[i].kind \in Intents
    BY DEF Unanswered, Grown
  <2>2. Resolves(Operation(history[i]), e) <=>
          ResultOf[history[i].kind] = e.kind /\ history[i].call = e.call /\ history[i].turn = e.turn
    BY DEF Resolves, Operation
  <2> QED
    BY <2>1, <2>2 DEF Answers
<1> QED
  BY <1>1, <1>2

\* What answers what, before the event, is as it was.
LEMMA AnswersAsBefore ==
  ASSUME NEW e, NEW h, Grown(h, e)
  PROVE  /\ \A i, j \in DOMAIN history : Answers(h, j, i) <=> Answers(history, j, i)
         /\ \A i \in DOMAIN h, j \in DOMAIN history : Answers(h, j, i) => i \in DOMAIN history
<1>1. \A i \in DOMAIN history : h[i] = history[i]
  BY DEF Grown
<1>2. DOMAIN history = 1 .. Len(history) /\ DOMAIN h = 1 .. Len(history) + 1 /\ Len(history) \in Nat
  BY DEF Grown
<1> QED
  BY <1>1, <1>2 DEF Answers

\* The events that a report counts.
LEMMA TalliesAsBefore ==
  ASSUME ReadSoFar, NEW e \in AnEvent, NEW h, Grown(h, e)
  PROVE  /\ \A i \in DOMAIN history :
              [k \in Counted |-> Cardinality({n \in TurnOf(h, i) : n < i /\ h[n].kind = k})] =
              [k \in Counted |-> Cardinality({n \in TurnOf(history, i) : n < i /\ history[n].kind = k})]
         /\ e.turn = current =>
              counts = [k \in Counted |-> Cardinality({n \in TurnOf(h, Len(h)) : n < Len(h) /\ h[n].kind = k})]
<1>1. /\ DOMAIN history = 1 .. Len(history) /\ DOMAIN h = 1 .. Len(history) + 1 /\ Len(history) \in Nat
      /\ Len(h) = Len(history) + 1 /\ \A i \in 1 .. Len(history) : h[i] = history[i]
      /\ h[Len(h)] = e
  BY DEF Grown
<1>2. ASSUME NEW i \in DOMAIN history, NEW k
      PROVE  {n \in TurnOf(h, i) : n < i /\ h[n].kind = k} =
             {n \in TurnOf(history, i) : n < i /\ history[n].kind = k}
  BY <1>1 DEF TurnOf
<1>3. ASSUME e.turn = current, NEW k
      PROVE  {n \in TurnOf(h, Len(h)) : n < Len(h) /\ h[n].kind = k} =
             {n \in DOMAIN history : history[n].turn = current /\ history[n].kind = k}
  BY <1>1, <1>3 DEF TurnOf
<1>4. counts = [k \in Counted |-> Cardinality({n \in DOMAIN history : history[n].turn = current /\ history[n].kind = k})]
  BY DEF ReadSoFar, Recalled, Counts
<1> QED
  BY <1>2, <1>3, <1>4

\* An accepted event keeps calls and results matched.
LEMMA AcceptedMatched ==
  ASSUME ReadSoFar, NEW e \in AnEvent, Accepts(e), NEW h, Grown(h, e)
  PROVE  Matched(h)
<1>1. Answered(history) /\ Once(history) /\ Tallied(history) /\ Recalled
  BY KnownSoFar
<1> DEFINE last == Len(history)
<1>2. /\ h \in Seq(AnEvent) /\ last \in Nat /\ Len(h) = last + 1 /\ h[last + 1] = e
      /\ DOMAIN history = 1 .. last /\ DOMAIN h = 1 .. last + 1
      /\ \A i \in 1 .. last : h[i] = history[i]
  BY DEF Grown
<1>3. Consistent(e) /\ Enveloped(e)
  BY DEF Accepts
<1>4. e.kind \in Results => \E i \in Unanswered(history) : Answers(h, last + 1, i)
  BY <1>2, <1>3, ResolvedIsAnswered DEF Consistent
<1>5. Answered(h)
  <2> SUFFICES ASSUME NEW j \in DOMAIN h, h[j].kind \in Results
               PROVE  \E i \in DOMAIN h : Answers(h, j, i)
    BY DEF Answered
  <2>1. CASE j \in DOMAIN history
    <3>1. PICK i \in DOMAIN history : Answers(history, j, i)
      BY <1>1, <1>2, <2>1 DEF Answered
    <3> QED
      BY <1>2, <2>1, <3>1, AnswersAsBefore
  <2>2. CASE j = last + 1
    BY <1>2, <1>4, <2>2 DEF Unanswered
  <2> QED
    BY <1>2, <2>1, <2>2
<1>6. ASSUME NEW j \in 1 .. last, e.kind \in Counted, history[j].kind = e.kind
      PROVE  history[j].call # e.call
  <2>1. CASE e.kind \in Intents
    <3>1. <<e.kind, e.call>> \notin calls
      BY <1>3, <2>1 DEF Consistent
    <3>2. calls = {<<history[i].kind, history[i].call>> : i \in {n \in DOMAIN history : history[n].kind \in Intents}}
      BY <1>1 DEF Recalled
    <3> QED
      BY <1>2, <1>6, <2>1, <3>1, <3>2
  <2>2. CASE e.kind \in Results
    <3>1. PICK m \in Unanswered(history) : Answers(h, last + 1, m)
      BY <1>4, <2>2
    <3>2. PICK i \in DOMAIN history : Answers(history, j, i)
      BY <1>1, <1>2, <1>6, <2>2 DEF Answered
    <3>3. m \in DOMAIN history /\ history[m].kind \in Intents /\ ~Answers(history, j, m)
      BY <1>2 DEF Unanswered
    <3>4. /\ history[m].kind \in Intents /\ ResultOf[history[m].kind] = e.kind /\ history[m].call = e.call
          /\ history[i].kind \in Intents /\ ResultOf[history[i].kind] = e.kind /\ history[i].call = history[j].call
      BY <1>2, <1>6, <3>1, <3>2, <3>3 DEF Answers
    <3>5. history[i].kind = history[m].kind /\ history[i].kind \in Counted
      BY <3>4, ResultsTellKinds DEF Counted
    <3> QED
      BY <1>1, <3>2, <3>3, <3>4, <3>5 DEF Once
  <2> QED
    BY <1>6, <2>1, <2>2 DEF Counted
<1>7. Once(h)
  <2> SUFFICES ASSUME NEW i \in DOMAIN h, NEW j \in DOMAIN h,
                      h[i].kind \in Counted, i # j, h[j].kind = h[i].kind, h[j].call = h[i].call
               PROVE  FALSE
    BY DEF Once
  <2>1. CASE i \in 1 .. last /\ j \in 1 .. last
    BY <1>1, <1>2, <2>1 DEF Once
  <2>2. CASE i = last + 1 /\ j \in 1 .. last
    BY <1>2, <1>6, <2>2
  <2>3. CASE i \in 1 .. last /\ j = last + 1
    BY <1>2, <1>6, <2>3
  <2> QED
    BY <1>2, <2>1, <2>2, <2>3
<1>8. Tallied(h)
  <2> SUFFICES ASSUME NEW i \in DOMAIN h, h[i].kind = "report"
               PROVE  h[i].counts = [k \in Counted |-> Cardinality({n \in TurnOf(h, i) : n < i /\ h[n].kind = k})]
    BY DEF Tallied
  <2>1. CASE i \in DOMAIN history
    <3>1. h[i] = history[i] /\ history[i].kind = "report"
      BY <1>2, <2>1
    <3>2. history[i].counts =
            [k \in Counted |-> Cardinality({n \in TurnOf(history, i) : n < i /\ history[n].kind = k})]
      BY <1>1, <2>1, <3>1 DEF Tallied
    <3> QED
      BY <2>1, <3>1, <3>2, TalliesAsBefore
  <2>2. CASE i = Len(h)
    <3>1. h[i] = e /\ e.kind = "report"
      BY <1>2, <2>2
    <3>2. e.turn = current /\ e.counts = counts
      BY <1>3, <3>1 DEF Enveloped, Consistent
    <3> QED
      BY <2>2, <3>1, <3>2, TalliesAsBefore
  <2> QED
    BY <1>2, <2>1, <2>2
<1> QED
  BY <1>2, <1>5, <1>7, <1>8, MatchedByRules

\* An event that keeps the rules is accepted.
LEMMA LawfulAccepted ==
  ASSUME ReadSoFar, NEW e \in AnEvent, NEW h, Grown(h, e), Lawful(h)
  PROVE  Accepts(e)
<1> DEFINE last == Len(history)
<1>1. /\ h \in Seq(AnEvent) /\ last \in Nat /\ Len(h) = last + 1 /\ h[last + 1] = e
      /\ DOMAIN history = 1 .. last /\ DOMAIN h = 1 .. last + 1
      /\ \A i \in 1 .. last : h[i] = history[i]
  BY DEF Grown
<1>2. /\ Addressed(h) /\ Opened(h) /\ Unbroken(h) /\ NothingAfter(h) /\ Ended(h) /\ ReportsLast(h)
      /\ Answered(h) /\ Once(h) /\ Tallied(h)
  BY <1>1, WellFormedByRules, MatchedByRules DEF Lawful
<1>3. Recalled /\ Once(history)
  BY KnownSoFar
<1>4. /\ e.turn = current => last \in 1 .. last /\ history[last].turn = e.turn
      /\ e.turn \in turns <=> \E i \in 1 .. last : history[i].turn = e.turn
      /\ history # <<>> => last \in 1 .. last
  BY <1>1, CurrentTurn
<1>5. e.seq = last /\ \A i \in DOMAIN history : history[i].id # e.id
  BY <1>1, <1>2 DEF Addressed
<1>6. /\ history # <<>> => current = history[last].turn /\ (closed <=> history[last].kind = "terminal")
      /\ history = <<>> => closed
  BY <1>3 DEF Recalled
<1>7. history = <<>> => last = 0
  OBVIOUS
<1> HIDE DEF last
<1>8. ASSUME e.turn = current
      PROVE  Enveloped(e) /\ (reported => e.kind = "terminal")
  <2>1. e.kind # "user" /\ history # <<>>
    BY <1>1, <1>2, <1>4, <1>8 DEF Opened
  <2>2. history[last].kind # "terminal"
    BY <1>1, <1>2, <1>4, <1>8 DEF NothingAfter
  <2>3. Enveloped(e)
    BY <1>6, <1>8, <2>1, <2>2 DEF Enveloped
  <2>4. reported => e.kind = "terminal"
    <3> SUFFICES ASSUME reported, e.kind # "terminal"
                 PROVE  FALSE
      OBVIOUS
    <3>1. PICK i \in 1 .. last : history[i].turn = e.turn /\ history[i].kind = "report"
      BY <1>1, <1>3, <1>8 DEF Recalled
    <3>2. h[i] = history[i] /\ i \in DOMAIN h /\ i + 1 \in DOMAIN h /\ last + 1 \in DOMAIN h
      BY <1>1, <3>1
    <3>3. h[i + 1].turn = e.turn
      <4>1. CASE i = last
        BY <1>1, <4>1
      <4>2. CASE i # last
        BY <1>1, <1>2, <3>1, <3>2, <4>2 DEF Unbroken
      <4> QED
        BY <4>1, <4>2
    <3>4. h[i + 1].kind = "terminal"
      BY <1>2, <3>1, <3>2, <3>3 DEF ReportsLast
    <3>5. last + 1 <= i + 1
      BY <1>1, <1>2, <3>2, <3>3, <3>4 DEF NothingAfter
    <3>6. i = last
      BY <1>1, <3>1, <3>5
    <3> QED
      BY <1>1, <3>4, <3>6
  <2> QED
    BY <2>3, <2>4
<1>9. ASSUME e.turn # current
      PROVE  Enveloped(e) /\ e.kind = "user"
  <2>1. history # <<>> => history[last].turn # e.turn
    BY <1>6, <1>9
  <2>2. \A i \in 1 .. last : history[i].turn # e.turn
    <3> SUFFICES ASSUME NEW i \in 1 .. last, history[i].turn = e.turn
                 PROVE  FALSE
      OBVIOUS
    <3>1. history # <<>> /\ i # last /\ i < last /\ last \in 1 .. last
      BY <1>1, <1>4, <1>7, <2>1
    <3>2. h[i].turn = e.turn /\ h[last].turn # e.turn /\ h[last + 1].turn = e.turn
      BY <1>1, <2>1, <3>1
    <3>3. i \in DOMAIN h /\ last \in DOMAIN h /\ last + 1 \in DOMAIN h /\ last < last + 1
      BY <1>1, <3>1
    <3> QED
      BY <1>2, <3>1, <3>2, <3>3 DEF Unbroken
  <2>3. e.turn \notin turns
    BY <1>4, <2>2
  <2>4. e.kind = "user"
    BY <1>1, <1>2, <2>2 DEF Opened
  <2>5. history # <<>> => history[last].kind = "terminal"
    BY <1>1, <1>2, <1>4, <2>2 DEF Ended
  <2>6. closed
    BY <1>6, <2>5
  <2>7. Enveloped(e)
    BY <1>9, <2>3, <2>4, <2>6 DEF Enveloped
  <2> QED
    BY <2>4, <2>7
<1>10. e.kind \in Results => \E p \in pending : Resolves(p, e)
  <2> SUFFICES ASSUME e.kind \in Results
               PROVE  \E i \in Unanswered(history) : Answers(h, Len(h), i)
    BY ResolvedIsAnswered, Zenon
  <2>1. PICK i \in DOMAIN h : Answers(h, last + 1, i)
    BY <1>1, <1>2 DEF Answered
  <2>2. /\ i \in 1 .. last /\ history[i].kind \in Intents /\ ResultOf[history[i].kind] = e.kind
        /\ history[i].call = e.call
    BY <1>1, <2>1 DEF Answers
  <2>3. \A j \in DOMAIN history : ~Answers(history, j, i)
    <3> SUFFICES ASSUME NEW j \in 1 .. last, Answers(history, j, i)
                 PROVE  FALSE
      BY <1>1
    <3>1. history[j].kind = e.kind /\ history[j].call = e.call
      BY <2>2 DEF Answers
    <3>2. h[j] = history[j] /\ j \in DOMAIN h /\ last + 1 \in DOMAIN h /\ last + 1 # j /\ e.kind \in Counted
      BY <1>1 DEF Counted
    <3> QED
      BY <1>1, <1>2, <3>1, <3>2 DEF Once
  <2> QED
    BY <1>1, <2>1, <2>2, <2>3 DEF Unanswered
<1>11. e.kind = "report" => e.counts = counts
  <2> SUFFICES ASSUME e.kind = "report"
               PROVE  e.counts = counts
    OBVIOUS
  <2>1. e.turn = current
    BY <1>9
  <2>2. e.counts = [k \in Counted |-> Cardinality({n \in TurnOf(h, Len(h)) : n < Len(h) /\ h[n].kind = k})]
    BY <1>1, <1>2 DEF Tallied
  <2> QED
    BY <2>1, <2>2, TalliesAsBefore
<1>12. e.kind \in Intents => <<e.kind, e.call>> \notin calls
  <2> SUFFICES ASSUME e.kind \in Intents, <<e.kind, e.call>> \in calls
               PROVE  FALSE
    OBVIOUS
  <2>1. PICK i \in DOMAIN history : history[i].kind = e.kind /\ history[i].call = e.call
    BY <1>3 DEF Recalled
  <2>2. i \in DOMAIN h /\ last + 1 \in DOMAIN h /\ i # last + 1 /\ h[i] = history[i] /\ e.kind \in Counted
    BY <1>1, <2>1 DEF Counted
  <2> QED
    BY <1>1, <1>2, <2>1, <2>2 DEF Once
<1>13. Enveloped(e) /\ (e.turn = current /\ reported => e.kind = "terminal")
  BY <1>8, <1>9
<1> QED
  BY <1>5, <1>10, <1>11, <1>12, <1>13 DEF Accepts, Consistent, last

-----------------------------------------------------------------------------
(***************************************************************************)
(* What the loop knows, it goes on knowing.                                *)
(***************************************************************************)
Tally(h, t, k) == Cardinality({n \in DOMAIN h : h[n].turn = t /\ h[n].kind = k})

\* What an event adds to the events of a turn, by kind.
LEMMA CountsGrow ==
  ASSUME ReadSoFar, NEW e \in AnEvent, NEW h, Grown(h, e), NEW k
  PROVE  Tally(h, e.turn, k) = Tally(history, e.turn, k) + IF k = e.kind THEN 1 ELSE 0
<1> DEFINE old == {n \in DOMAIN history : history[n].turn = e.turn /\ history[n].kind = k}
           new == {n \in DOMAIN h : h[n].turn = e.turn /\ h[n].kind = k}
           last == Len(history)
<1>1. /\ last \in Nat /\ DOMAIN history = 1 .. last /\ DOMAIN h = 1 .. last + 1 /\ h[last + 1] = e
      /\ \A i \in 1 .. last : h[i] = history[i]
  BY DEF Grown
<1>2. IsFiniteSet(old) /\ Cardinality(old) \in Nat
  <2>1. IsFiniteSet(DOMAIN history)
    BY <1>1, FS_Interval
  <2>2. old \in SUBSET DOMAIN history
    OBVIOUS
  <2> HIDE DEF old
  <2> QED
    BY <2>1, <2>2, FS_Subset, FS_CardinalityType
<1>3. last + 1 \notin old
  BY <1>1
<1>4. new = IF k = e.kind THEN old \cup {last + 1} ELSE old
  BY <1>1
<1> HIDE DEF old, new, last
<1>5. Cardinality(old \cup {last + 1}) = Cardinality(old) + 1
  BY <1>2, <1>3, FS_AddElement
<1>6. Cardinality(new) = Cardinality(old) + IF k = e.kind THEN 1 ELSE 0
  BY <1>2, <1>4, <1>5
<1> QED
  BY <1>6 DEF old, new, Tally

\* An intent that an event answers is not unanswered any more; the event, if it
\* is an intent, is.
LEMMA UnansweredGrows ==
  ASSUME ReadSoFar, NEW e \in AnEvent, NEW h, Grown(h, e)
  PROVE  Unanswered(h) = {i \in Unanswered(history) : ~Answers(h, Len(h), i)}
                           \cup IF e.kind \in Intents THEN {Len(h)} ELSE {}
<1> DEFINE last == Len(history)
<1>1. /\ last \in Nat /\ DOMAIN history = 1 .. last /\ DOMAIN h = 1 .. last + 1 /\ h[last + 1] = e
      /\ \A i \in 1 .. last : h[i] = history[i]
      /\ Len(h) = last + 1
  BY DEF Grown
<1>2. \A i, j \in 1 .. last : Answers(h, j, i) <=> Answers(history, j, i)
  BY <1>1, AnswersAsBefore
<1>3. \A j \in DOMAIN h : ~Answers(h, j, last + 1)
  BY <1>1 DEF Answers
<1> HIDE DEF last
<1>4. \A i : i \in Unanswered(h) <=>
        \/ i \in Unanswered(history) /\ ~Answers(h, last + 1, i)
        \/ i = last + 1 /\ e.kind \in Intents
  <2> SUFFICES ASSUME NEW i
               PROVE  i \in Unanswered(h) <=>
                        \/ i \in Unanswered(history) /\ ~Answers(h, last + 1, i)
                        \/ i = last + 1 /\ e.kind \in Intents
    OBVIOUS
  <2>1. CASE i \in 1 .. last
    <3>1. h[i] = history[i] /\ i # last + 1
      BY <1>1, <2>1
    <3>2. (\A j \in DOMAIN h : ~Answers(h, j, i)) <=>
            (\A j \in 1 .. last : ~Answers(history, j, i)) /\ ~Answers(h, last + 1, i)
      BY <1>1, <1>2, <2>1
    <3> QED
      BY <1>1, <2>1, <3>1, <3>2 DEF Unanswered
  <2>2. CASE i = last + 1
    <3>1. i \notin DOMAIN history /\ i \in DOMAIN h /\ h[i] = e
      BY <1>1, <2>2
    <3> QED
      BY <1>3, <2>2, <3>1 DEF Unanswered
  <2>3. CASE i \notin 1 .. last /\ i # last + 1
    BY <1>1, <2>3 DEF Unanswered
  <2> QED
    BY <2>1, <2>2, <2>3
<1> QED
  BY <1>1, <1>4

\* An iteration of the loop.
LEMMA ReadRecalls ==
  ASSUME ReadSoFar, NEW e \in AnEvent, Read(e)
  PROVE  Recalled'
<1> DEFINE h == history'
           last == Len(history)
<1>1. Grown(h, e) /\ h = Append(history, e)
  BY Growing DEF ReadSoFar, Read
<1>2. /\ last \in Nat /\ DOMAIN history = 1 .. last /\ DOMAIN h = 1 .. last + 1 /\ h[last + 1] = e
      /\ \A i \in 1 .. last : h[i] = history[i]
      /\ Len(h) = last + 1 /\ h # <<>>
  BY <1>1 DEF Grown
<1>3. Recalled /\ Accepts(e) /\ Enveloped(e)
  BY DEF ReadSoFar, Read, Accepts
<1>4. /\ e.turn \in turns <=> \E i \in 1 .. last : history[i].turn = e.turn
  BY <1>2, CurrentTurn
<1>5. current' = e.turn
  BY DEF Read
<1> HIDE DEF h, last
<1>6. turns' = {h[i].turn : i \in DOMAIN h}
  <2>1. turns' = turns \cup {e.turn} /\ turns = {history[i].turn : i \in DOMAIN history}
    BY <1>3 DEF Read, Recalled
  <2> QED
    BY <1>2, <2>1
<1>7. current' = h[Len(h)].turn /\ (closed' <=> h[Len(h)].kind = "terminal")
  BY <1>2 DEF Read
<1>8. reported' <=> \E i \in DOMAIN h : h[i].turn = current' /\ h[i].kind = "report"
  <2>1. reported' <=> e.kind = "report" \/ (e.turn = current /\ reported)
    BY DEF Read
  <2>2. reported <=> \E i \in 1 .. last : history[i].turn = current /\ history[i].kind = "report"
    BY <1>2, <1>3 DEF Recalled
  <2>3. (e.turn = current /\ reported) <=> \E i \in 1 .. last : history[i].turn = e.turn /\ history[i].kind = "report"
    <3>1. CASE e.turn = current
      BY <2>2, <3>1
    <3>2. CASE e.turn # current
      BY <1>3, <1>4, <3>2 DEF Enveloped
    <3> QED
      BY <3>1, <3>2
  <2> QED
    BY <1>2, <1>5, <2>1, <2>3
<1>9. calls' = {<<h[i].kind, h[i].call>> : i \in {j \in DOMAIN h : h[j].kind \in Intents}}
  <2>1. /\ calls' = calls \cup IF e.kind \in Intents THEN {<<e.kind, e.call>>} ELSE {}
        /\ calls = {<<history[i].kind, history[i].call>> : i \in {j \in DOMAIN history : history[j].kind \in Intents}}
    BY <1>3 DEF Read, Recalled
  <2> DEFINE made(i) == <<h[i].kind, h[i].call>>
             old == {j \in DOMAIN history : history[j].kind \in Intents}
             new == {j \in DOMAIN h : h[j].kind \in Intents}
  <2>2. calls = {made(i) : i \in old} /\ made(last + 1) = <<e.kind, e.call>>
    BY <1>2, <2>1
  <2>3. new = old \cup IF e.kind \in Intents THEN {last + 1} ELSE {}
    BY <1>2
  <2> HIDE DEF made, old, new
  <2>4. calls' = {made(i) : i \in new}
    BY <2>1, <2>2, <2>3
  <2> QED
    BY <2>4 DEF made, new
<1>10. pending' = {Operation(h[i]) : i \in Unanswered(h)}
  <2>1. /\ pending' = {p \in pending : ~Resolves(p, e)} \cup IF e.kind \in Intents THEN {Operation(e)} ELSE {}
        /\ pending = {Operation(history[i]) : i \in Unanswered(history)}
    BY <1>3 DEF Read, Recalled
  <2>2. \A i \in Unanswered(history) : Resolves(Operation(history[i]), e) <=> Answers(h, Len(h), i)
    BY <1>1, ResolvedIsAnswered
  <2>3. Unanswered(h) = {i \in Unanswered(history) : ~Answers(h, Len(h), i)}
                           \cup IF e.kind \in Intents THEN {Len(h)} ELSE {}
    BY <1>1, UnansweredGrows
  <2>4. \A i \in Unanswered(history) : h[i] = history[i]
    BY <1>2 DEF Unanswered
  <2>5. h[Len(h)] = e
    BY <1>2
  <2> DEFINE operation(i) == Operation(h[i])
  <2>6. /\ pending = {operation(i) : i \in Unanswered(history)}
        /\ \A i \in Unanswered(history) : Resolves(operation(i), e) <=> Answers(h, Len(h), i)
        /\ operation(Len(h)) = Operation(e)
    BY <2>1, <2>2, <2>4, <2>5
  <2> HIDE DEF operation
  <2>7. ASSUME NEW p
        PROVE  p \in pending' <=> p \in {operation(i) : i \in Unanswered(h)}
    <3>1. p \in pending' <=>
            \/ p \in pending /\ ~Resolves(p, e)
            \/ e.kind \in Intents /\ p = operation(Len(h))
      BY <2>1, <2>6
    <3>2. p \in pending /\ ~Resolves(p, e) <=>
            \E i \in Unanswered(history) : ~Answers(h, Len(h), i) /\ p = operation(i)
      BY <2>6
    <3>3. p \in {operation(i) : i \in Unanswered(h)} <=>
            \/ \E i \in Unanswered(history) : ~Answers(h, Len(h), i) /\ p = operation(i)
            \/ e.kind \in Intents /\ p = operation(Len(h))
      BY <2>3
    <3> QED
      BY <3>1, <3>2, <3>3
  <2>8. pending' = {operation(i) : i \in Unanswered(h)}
    BY <2>7
  <2> QED
    BY <2>8 DEF operation
<1>11. counts' = [k \in Counted |-> Cardinality({i \in DOMAIN h : h[i].turn = current' /\ h[i].kind = k})]
  <2> DEFINE base == IF e.turn = current THEN counts ELSE NoCounts
  <2>1. counts' = [k \in Counted |-> IF k = e.kind THEN base[k] + 1 ELSE base[k]]
    BY DEF Read
  <2>2. \A k \in Counted : base[k] = Tally(history, e.turn, k)
    <3>1. CASE e.turn = current
      BY <1>3, <3>1 DEF Recalled, Counts, Tally
    <3>2. CASE e.turn # current
      <4>1. \A k : {n \in DOMAIN history : history[n].turn = e.turn /\ history[n].kind = k} = {}
        BY <1>2, <1>3, <1>4, <3>2 DEF Enveloped
      <4> QED
        BY <3>2, <4>1, FS_EmptySet DEF NoCounts, Tally
    <3> QED
      BY <3>1, <3>2
  <2>3. \A k : Tally(h, e.turn, k) = Tally(history, e.turn, k) + IF k = e.kind THEN 1 ELSE 0
    <3> SUFFICES ASSUME NEW k
                 PROVE  Tally(h, e.turn, k) = Tally(history, e.turn, k) + IF k = e.kind THEN 1 ELSE 0
      OBVIOUS
    <3> QED
      BY <1>1, CountsGrow
  <2>4. \A k : Tally(history, e.turn, k) \in Nat
    <3> SUFFICES ASSUME NEW k
                 PROVE  Tally(history, e.turn, k) \in Nat
      OBVIOUS
    <3>1. IsFiniteSet(DOMAIN history)
      BY <1>2, FS_Interval
    <3>2. IsFiniteSet({n \in DOMAIN history : history[n].turn = e.turn /\ history[n].kind = k})
      BY <3>1, FS_Subset
    <3> QED
      BY <3>2, FS_CardinalityType DEF Tally
  <2> HIDE DEF base
  <2>5. counts' = [k \in Counted |-> Tally(h, e.turn, k)]
    BY <2>1, <2>2, <2>3, <2>4
  <2> QED
    BY <1>5, <2>5 DEF Tally
<1> QED
  BY <1>2, <1>6, <1>7, <1>8, <1>9, <1>10, <1>11 DEF Recalled, Counts, h

-----------------------------------------------------------------------------
(***************************************************************************)
(* What the assessment tells.                                              *)
(***************************************************************************)
\* Where nothing is unresolved, every step is settled.
LEMMA AllSettled ==
  ASSUME steps \in Seq(StepIds), pending = {}
  PROVE  SettledSteps = steps
<1> DEFINE size == Len(steps)
           settled == {i \in DOMAIN steps : \A p \in pending : p.step # steps[i]}
           key == [i \in settled |-> i]
<1>1. size \in Nat /\ DOMAIN steps = 1 .. size /\ steps = [i \in 1 .. size |-> steps[i]]
  OBVIOUS
<1>2. settled = 1 .. size
  BY <1>1
<1>3. SettledSteps = [n \in DOMAIN InOrder(settled, key) |-> steps[InOrder(settled, key)[n]]]
  BY DEF SettledSteps
<1> HIDE DEF settled, size
<1>4. key = [i \in 1 .. size |-> i]
  BY <1>2
<1> HIDE DEF key
<1>5. InOrder(settled, key) = [i \in 1 .. size |-> i]
  BY <1>1, <1>2, <1>4, InOrderOfPositions
<1>6. SettledSteps = [i \in 1 .. size |-> steps[i]]
  BY <1>3, <1>5
<1> QED
  BY <1>1, <1>6

\* pending is sorted by the positions of the intents.
LEMMA UnresolvedSorted ==
  ASSUME ReadSoFar
  PROVE  UnresolvedExact
<1> DEFINE unanswered == Unanswered(history)
           operation == [i \in unanswered |-> Operation(history[i])]
           key == [p \in pending |-> p.seq]
           size == Cardinality(pending)
           told == InOrder(pending, key)
<1>1. /\ history \in Seq(AnEvent) /\ Addressed(history) /\ pending = {Operation(history[i]) : i \in unanswered}
      /\ Len(history) \in Nat /\ DOMAIN history = 1 .. Len(history)
  BY KnownSoFar DEF Recalled
<1>2. \A i \in unanswered : i \in DOMAIN history /\ operation[i].seq + 1 = i /\ operation[i].seq \in Nat
                      /\ operation[i].call = history[i].call
  <2> SUFFICES ASSUME NEW i \in unanswered
               PROVE  i \in DOMAIN history /\ operation[i].seq + 1 = i /\ operation[i].seq \in Nat
                      /\ operation[i].call = history[i].call
    OBVIOUS
  <2>1. i \in DOMAIN history
    BY DEF Unanswered
  <2>2. operation[i].seq = history[i].seq /\ operation[i].call = history[i].call
    BY DEF Operation
  <2>3. history[i].seq = i - 1 /\ i \in Nat /\ i # 0
    BY <1>1, <2>1 DEF Addressed
  <2> HIDE DEF operation
  <2> QED
    BY <2>1, <2>2, <2>3
<1>3. IsFiniteSet(unanswered)
  <2>1. IsFiniteSet(DOMAIN history)
    BY <1>1, FS_Interval
  <2> QED
    BY <2>1, FS_Subset DEF Unanswered
<1>4. IsFiniteSet(pending)
  <2>1. operation \in Surjection(unanswered, pending)
    BY <1>1 DEF Surjection
  <2> HIDE DEF operation, unanswered
  <2> QED
    BY <1>3, <2>1, FS_Surjection
<1>5. \A p \in pending : \E i \in unanswered : p = operation[i]
  BY <1>1
<1>6. \A i \in unanswered : operation[i] \in pending
  BY <1>1
<1> HIDE DEF operation, unanswered
<1>7. key \in [pending -> Nat] /\ \A x, y \in pending : key[x] = key[y] => x = y
  <2>1. key \in [pending -> Nat]
    BY <1>2, <1>5
  <2>2. ASSUME NEW x \in pending, NEW y \in pending, key[x] = key[y]
        PROVE  x = y
    <3>1. x.seq = y.seq
      BY <2>2
    <3>2. PICK i \in unanswered : x = operation[i]
      BY <1>5
    <3>3. PICK j \in unanswered : y = operation[j]
      BY <1>5
    <3>4. i = j
      BY <1>2, <3>1, <3>2, <3>3
    <3> QED
      BY <3>2, <3>3, <3>4
  <2> QED
    BY <2>1, <2>2
<1>8. \A p \in pending : key[p] = p.seq
  OBVIOUS
<1>9. /\ DOMAIN told = 1 .. size
      /\ \A n \in 1 .. size : told[n] \in pending
      /\ \A n, m \in 1 .. size : n < m => key[told[n]] < key[told[m]]
      /\ \A x \in pending : \E n \in 1 .. size : told[n] = x
  <2> HIDE DEF key
  <2> QED
    BY <1>4, <1>7, InOrderSorts
<1>10. told = Unresolved
  BY DEF Unresolved
<1> HIDE DEF told, key, size
<1>11. \A n \in DOMAIN told : history[told[n].seq + 1].call = told[n].call
  BY <1>2, <1>5, <1>9
<1>12. \A n, m \in DOMAIN told : n < m => told[n].seq < told[m].seq
  BY <1>8, <1>9
<1>13. {told[n].seq + 1 : n \in DOMAIN told} = unanswered
  <2>1. \A n \in DOMAIN told : told[n].seq + 1 \in unanswered
    BY <1>2, <1>5, <1>9
  <2>2. ASSUME NEW i \in unanswered
        PROVE  \E n \in DOMAIN told : told[n].seq + 1 = i
    BY <1>2, <1>6, <1>9
  <2> QED
    BY <2>1, <2>2
<1>14. unanswered = {i \in DOMAIN history : /\ history[i].kind \in Intents
                                     /\ \A j \in DOMAIN history : i \notin IntentOf(history, j)}
  BY IntentOfByRules DEF Unanswered, unanswered
<1> QED
  BY <1>10, <1>11, <1>12, <1>13, <1>14, Zenon DEF UnresolvedExact

-----------------------------------------------------------------------------
(***************************************************************************)
(* The history, as it grows.                                               *)
(***************************************************************************)
HistoryInv ==
  /\ ReadSoFar
  /\ steps \in Seq(StepIds) /\ captured \in Seq(StepIds) /\ IsPrefix(captured, steps)

\* Before the first event.
LEMMA HistoryInitInv == HistoryInit => HistoryInv
<1> SUFFICES ASSUME HistoryInit PROVE HistoryInv
  OBVIOUS
<1>1. history = <<>> /\ history \in Seq(AnEvent) /\ DOMAIN history = {}
  BY DEF HistoryInit
<1>2. Lawful(history)
  BY <1>1 DEF Lawful, WellFormed, Matched
<1>3. counts = Counts(current)
  <2>1. \A k : {i \in DOMAIN history : history[i].turn = current /\ history[i].kind = k} = {}
    BY <1>1
  <2>2. counts = NoCounts
    BY DEF HistoryInit
  <2> QED
    BY <2>1, <2>2, FS_EmptySet DEF Counts, NoCounts
<1>4. Unanswered(history) = {}
  BY <1>1 DEF Unanswered
<1>5. Recalled
  BY <1>1, <1>3, <1>4 DEF HistoryInit, Recalled
<1>6. IsPrefix(captured, steps) /\ steps \in Seq(StepIds) /\ captured \in Seq(StepIds)
  BY DEF HistoryInit, IsPrefix
<1> QED
  BY <1>1, <1>2, <1>5, <1>6 DEF HistoryInv, ReadSoFar, HistoryInit

\* An event that is read.
LEMMA ReadKeepsInv ==
  ASSUME HistoryInv, NEW e \in Events, Read(e)
  PROVE  HistoryInv'
<1>1. ReadSoFar /\ e \in AnEvent
  BY EventsTyped DEF HistoryInv, ReadSoFar
<1> DEFINE h == Append(history, e)
<1>2. Grown(h, e) /\ history' = h /\ Accepts(e)
  BY <1>1, Growing DEF ReadSoFar, Read
<1>3. WellFormed(h) /\ Matched(h)
  BY <1>1, <1>2, AcceptedWellFormed, AcceptedMatched
<1>4. Lawful(history')
  BY <1>2, <1>3 DEF Lawful
<1>5. Recalled'
  BY <1>1, ReadRecalls
<1>6. refused' = {} /\ history' \in Seq(AnEvent)
  BY <1>2 DEF Read, Grown
<1>7. ReadSoFar'
  BY <1>4, <1>5, <1>6 DEF ReadSoFar
<1>8. steps' \in Seq(StepIds) /\ captured' \in Seq(StepIds) /\ IsPrefix(captured', steps')
  <2>1. steps' = steps \/ (e.step \in StepIds /\ steps' = Append(steps, e.step))
    BY <1>1 DEF Read, Seen, AnEvent
  <2>2. captured' = captured
    BY DEF Read
  <2>3. CASE steps' = steps
    BY <2>2, <2>3 DEF HistoryInv
  <2>4. CASE e.step \in StepIds /\ steps' = Append(steps, e.step)
    BY <2>2, <2>4 DEF HistoryInv, IsPrefix
  <2> QED
    BY <2>1, <2>3, <2>4
<1> QED
  BY <1>7, <1>8 DEF HistoryInv

\* One that is refused.
LEMMA RefuseKeepsInv ==
  ASSUME HistoryInv, NEW e \in Events, Refuse(e)
  PROVE  HistoryInv'
<1>1. ReadSoFar /\ e \in AnEvent /\ ~Accepts(e)
  BY EventsTyped DEF HistoryInv, ReadSoFar, Refuse
<1> DEFINE h == Append(history, e)
<1>2. Grown(h, e)
  BY <1>1, Growing DEF ReadSoFar
<1>3. ~Lawful(h)
  BY <1>1, <1>2, LawfulAccepted
<1>4. refused' = {e} /\ UNCHANGED <<history, turns, current, closed, pending, calls, steps, counts, reported, captured>>
  BY DEF Refuse, loop
<1>5. Recalled'
  BY <1>1, <1>4 DEF ReadSoFar, Recalled, Counts
<1>6. ReadSoFar'
  BY <1>1, <1>3, <1>4, <1>5 DEF ReadSoFar
<1> QED
  BY <1>4, <1>6 DEF HistoryInv

\* A snapshot.
LEMMA SettleKeepsInv ==
  ASSUME HistoryInv, Settle
  PROVE  HistoryInv'
<1>1. steps \in Seq(StepIds) /\ pending = {}
  BY DEF HistoryInv, Settle, AtBoundary
<1>2. captured' = steps /\ UNCHANGED <<history, refused, turns, current, closed, pending, calls, steps, counts, reported>>
  BY <1>1, AllSettled DEF Settle, loop
<1>3. ReadSoFar'
  BY <1>2 DEF HistoryInv, ReadSoFar, Recalled, Counts
<1>4. IsPrefix(captured', steps')
  BY <1>1, <1>2 DEF IsPrefix
<1> QED
  BY <1>1, <1>2, <1>3, <1>4 DEF HistoryInv

\* A step that changes nothing.
LEMMA StutterKeepsHistory ==
  ASSUME HistoryInv, UNCHANGED assessment
  PROVE  HistoryInv'
<1>1. UNCHANGED <<history, refused, turns, current, closed, pending, calls, steps, counts, reported, captured>>
  BY DEF assessment, loop
<1> QED
  BY <1>1 DEF HistoryInv, ReadSoFar, Recalled, Counts

\* The invariant says what the assessment promises.
LEMMA InvReadsHistory == HistoryInv => HistoryRead
<1> SUFFICES ASSUME HistoryInv PROVE HistoryRead
  OBVIOUS
<1>1. AcceptsExactly
  BY Zenon DEF HistoryInv, ReadSoFar, Lawful, AcceptsExactly
<1>2. UnresolvedExact
  BY UnresolvedSorted DEF HistoryInv
<1>3. SnapshotsFollow
  BY AllSettled DEF HistoryInv, SnapshotsFollow, AtBoundary
<1> QED
  BY <1>1, <1>2, <1>3 DEF HistoryRead

\* Whatever is appended to a log, by a runtime or by another writer: what
\* assess_task_history accepts is what runtimes write and nothing else, it tells
\* the operations without a result and no others, in the order of their intents,
\* and what was settled in a snapshot remains so in the next.
THEOREM AssessmentIsExact == HistorySpec => []HistoryRead
<1>1. HistoryInv /\ [HistoryNext]_assessment => HistoryInv'
  <2> SUFFICES ASSUME HistoryInv, [HistoryNext]_assessment
               PROVE  HistoryInv'
    OBVIOUS
  <2>1. CASE Settle
    BY <2>1, SettleKeepsInv
  <2>2. CASE Done
    BY <2>2, StutterKeepsHistory DEF Done
  <2>3. CASE \E e \in Events : Read(e) \/ Refuse(e)
    BY <2>3, ReadKeepsInv, RefuseKeepsInv
  <2>4. CASE UNCHANGED assessment
    BY <2>4, StutterKeepsHistory
  <2> QED
    BY <2>1, <2>2, <2>3, <2>4 DEF HistoryNext
<1> QED
  BY <1>1, HistoryInitInv, InvReadsHistory, PTL DEF HistorySpec
=============================================================================
