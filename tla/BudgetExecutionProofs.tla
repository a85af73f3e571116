------------------------ MODULE BudgetExecutionProofs ------------------------
(***************************************************************************)
(* Proofs about BudgetExecution, for any number of hosts, operations and   *)
(* revisions: a Task's checkpoint is claimed by one execution at a time,   *)
(* and what its latest image says is true.  The section after it proves of *)
(* BudgetWaiters that no wakeup of a task that waits for the stop is lost, *)
(* the last one of BudgetLedger that its accounts are exact, can always be *)
(* sealed, and never refund what was charged or spent.                     *)
(***************************************************************************)
EXTENDS BudgetExecution, BudgetWaiters, BudgetLedger, FiniteSetTheorems, TLAPS

\* The image is the next one of the store.
Ahead(image) == image.revision = Latest.revision + 1

\* What a compare-and-exchange that is still to be done, and a candidate that is
\* still to be proposed, would do if they were the next of the store.  A claim
\* carries an identifier the store has never seen.
Claims(image) ==
  /\ image.exec \in 1 .. execs /\ \A i \in 1 .. Len(chain) : chain[i].exec # image.exec
  /\ image.revision <= Latest.revision + 1
  /\ Ahead(image) => Latest.exec = 0 /\ image.anchor = Latest.anchor

Raises(image) ==
  /\ image.exec = 0 /\ image.revision <= Latest.revision + 1
  /\ Ahead(image) => Latest.exec = 0 /\ image.anchor = Latest.anchor

Closes(image) ==
  /\ image.exec = 0 /\ image.revision <= Latest.revision + 1
  /\ Ahead(image) => /\ Latest.exec # 0 /\ Latest.anchor + 1 = Len(log)
                     /\ image.anchor = Len(log) /\ Last(log).exec = Latest.exec

JobsFit ==
  /\ \A j \in jobs : /\ j.kind = "claim" => Claims(j.image)
                     /\ j.kind = "grant" => Raises(j.image) /\ j.image.grants # <<>>
                     /\ j.kind = "recover" => j.image.recoveries # <<>>
                     /\ j.kind \in {"commit", "recover"} => Closes(j.image)
  /\ \A image \in kept : Closes(image)

\* Each host awaits one of them, and no two have the same identifier.
Awaited ==
  \A j \in jobs :
    /\ j.awaited => pc[j.host] = j.kind /\ (j.kind = "claim" => j.image = claim[j.host])
    /\ \A k \in jobs :
         \/ j.awaited /\ k.awaited /\ j.host = k.host
         \/ j.kind = "claim" /\ k.kind = "claim" /\ j.image.exec = k.image.exec
         => j = k

\* A host that executes has the latest image, which none of them succeeds.
Holds ==
  \A h \in Executing :
    /\ Latest = claim[h] /\ Latest.exec # 0
    /\ \A j \in jobs : j.image.revision <= Latest.revision
    /\ \A image \in kept : image.revision <= Latest.revision
    /\ pc[h] = "turn" => Latest.anchor = Len(log)
    /\ pc[h] = "closed" => log # <<>> /\ Last(log).exec = Latest.exec

Books ==
  /\ \A h \in Hosts : base[h].anchor = claim[h].anchor
  /\ \A i \in 1 .. Len(chain) : chain[i].exec <= execs
  /\ Latest.exec = 0 => Latest.anchor = Len(log)

Inv == TypeOK /\ OneExecutor /\ JobsFit /\ Awaited /\ Holds /\ Books

Rest == OneExecutor /\ JobsFit /\ Awaited /\ Holds /\ Books

-----------------------------------------------------------------------------
(***************************************************************************)
(* The latest image.                                                       *)
(***************************************************************************)
\* The image that is appended is the latest.
LEMMA LastOfAppend ==
  ASSUME NEW S, NEW s \in Seq(S), NEW e \in S
  PROVE  /\ Last(Append(s, e)) = e /\ Len(Append(s, e)) = Len(s) + 1 /\ Append(s, e) # <<>>
         /\ Append(s, e) \in Seq(S)
         /\ \A i \in 1 .. Len(Append(s, e)) :
              Append(s, e)[i] = IF i = Len(s) + 1 THEN e ELSE s[i]
  BY DEF Last

\* What is last was put in.
LEMMA LastIsMember ==
  ASSUME NEW S, NEW s \in Seq(S), s # <<>>
  PROVE  Last(s) \in S
  BY DEF Last

\* There is one, and it is an image.
LEMMA LatestIsImage ==
  ASSUME TypeOK
  PROVE  Latest \in Image /\ Len(chain) \in 1 .. Len(chain) /\ Latest = chain[Len(chain)]
  BY DEF TypeOK, Latest, Last

\* The lower of two limits is one of them.
LEMMA MinOfTwo ==
  ASSUME NEW a \in Nat, NEW b \in Nat
  PROVE  Min({a, b}) \in {a, b}
<1>1. \E x \in {a, b} : \A y \in {a, b} : x <= y
  <2>1. CASE a <= b
    BY <2>1
  <2>2. CASE ~(a <= b)
    BY <2>2
  <2> QED
    BY <2>1, <2>2
<1> QED
  BY <1>1 DEF Min

\* Limits are numbers.
LEMMA LimitIsNat == Limit \subseteq Nat
  BY LimitsAssumption DEF Limit

-----------------------------------------------------------------------------
(***************************************************************************)
(* Types.                                                                  *)
(***************************************************************************)
JobSet == [host : Hosts, kind : {"claim", "commit", "grant", "recover"}, image : Image,
           awaited : BOOLEAN, guarded : BOOLEAN]

\* The fields of an image.
GrantLog == Seq([op : GrantOps, source : Nat, anchor : Nat, old : Limit, oldStop : Stops, new : Limit])
RecoveryLog == Seq([op : RecoverOps, exec : 1 .. MaxExec, source : Nat])

\* The fields of an image, without the type of its sequences.
LEMMA ImageFields ==
  Image = [revision : 1 .. MaxRevision, exec : 0 .. MaxExec, anchor : Nat, spent : Nat,
           limit : Limit, stop : Stops, grants : GrantLog, recoveries : RecoveryLog]
  BY DEF Image, GrantLog, RecoveryLog

\* Who asks leaves the other jobs as they are.
LEMMA AskTyped ==
  ASSUME TypeOK, NEW h \in Hosts, NEW kind \in {"claim", "commit", "grant", "recover"},
         NEW image \in Image, NEW guarded \in BOOLEAN, Ask(h, kind, image, guarded)
  PROVE  jobs' \subseteq JobSet
<1>1. Job(h, kind, image, guarded) \in JobSet
  BY DEF Job, JobSet
<1>2. jobs \subseteq JobSet
  BY DEF TypeOK, JobSet
<1> QED
  BY <1>1, <1>2 DEF Ask

\* What the steps of an execution write.
LEMMA LeaseTyped ==
  ASSUME Inv, NEW h \in Hosts, Lease(h)
  PROVE  TypeOK'
<1> USE LimitsAssumption, BoundsAssumption
<1>1. TypeOK /\ Latest \in Image
  BY LatestIsImage DEF Inv
<1>2. ASSUME NEW limit \in Ceilings, Acquire(h, limit) PROVE TypeOK'
  <2> DEFINE image == [Latest EXCEPT !.revision = @ + 1, !.exec = execs + 1]
  <2>1. image \in Image
    <3>1. Latest.revision \in 1 .. MaxRevision
      BY <1>1, ImageFields
    <3>2. Latest.revision < MaxRevision /\ execs < MaxExec /\ execs \in 0 .. MaxExec
      BY <1>1, <1>2 DEF Acquire, TypeOK
    <3>3. Latest.revision + 1 \in 1 .. MaxRevision /\ execs + 1 \in 0 .. MaxExec
      BY <3>1, <3>2
    <3> QED
      BY <1>1, <3>3, ImageFields
  <2>2. jobs' \subseteq JobSet
    BY <1>1, <1>2, <2>1, AskTyped DEF Acquire
  <2>3. Restored(Latest, limit) \in [spent : Nat, limit : Limit, stop : Stops]
    <3>1. Min({Latest.limit, limit}) \in {Latest.limit, limit}
      BY <1>1, MinOfTwo, LimitIsNat DEF Image
    <3>2. Latest.limit \in Limit /\ limit \in Limit /\ Latest.spent \in Nat /\ Latest.stop \in Stops
      BY <1>1 DEF Image, Limit
    <3> QED
      BY <3>1, <3>2 DEF Restored, Stops
  <2>4. base' \in [Hosts -> Image] /\ claim' \in [Hosts -> Image] /\ execs' \in 0 .. MaxExec
    BY <1>1, <1>2, <2>1 DEF Acquire, TypeOK
  <2>5. ledger' \in [Hosts -> [spent : Nat, limit : Limit, stop : Stops]]
    BY <1>1, <1>2, <2>3 DEF Acquire, TypeOK
  <2>6. pc' = [pc EXCEPT ![h] = "claim"] /\ UNCHANGED <<chain, log, open, owner, kept, told>>
    BY <1>2 DEF Acquire
  <2> QED
    BY <1>1, <2>2, <2>4, <2>5, <2>6 DEF TypeOK, JobSet
<1>3. CASE BeginTurn(h)
  BY <1>1, <1>3 DEF BeginTurn, TypeOK
<1>4. CASE DropLease(h)
  BY <1>1, <1>4 DEF DropLease, TypeOK
<1>5. CASE CommitClosed(h)
  <2> DEFINE image == [claim[h] EXCEPT !.revision = @ + 1, !.exec = 0, !.anchor = Len(log),
                         !.spent = ledger[h].spent, !.limit = ledger[h].limit, !.stop = ledger[h].stop]
  <2>1. claim[h] \in Image /\ claim[h].revision < MaxRevision /\ Len(log) \in Nat
    BY <1>1, <1>5 DEF CommitClosed, TypeOK
  <2>2. ledger[h].spent \in Nat /\ ledger[h].limit \in Limit /\ ledger[h].stop \in Stops
    BY <1>1 DEF TypeOK
  <2>3. image \in Image
    <3>1. claim[h].revision + 1 \in 1 .. MaxRevision /\ 0 \in 0 .. MaxExec
      BY <2>1, ImageFields
    <3> QED
      BY <2>1, <2>2, <3>1, ImageFields
  <2>4. jobs' \subseteq JobSet
    BY <1>1, <1>5, <2>3, AskTyped DEF CommitClosed
  <2> QED
    BY <1>1, <1>5, <2>4 DEF CommitClosed, TypeOK, JobSet
<1>6. ASSUME NEW cost \in Costs, NEW stop \in Stops, CloseTurn(h, cost, stop) PROVE TypeOK'
  <2> DEFINE report == [exec |-> claim[h].exec, spent |-> ledger[h].spent + cost,
                        limit |-> ledger[h].limit, stop |-> stop]
  <2>1. claim[h] = Latest /\ Latest.exec # 0
    BY <1>6 DEF CloseTurn, Executing, Inv, Holds
  <2>2. claim[h].exec \in 1 .. MaxExec
    BY <1>1, <2>1 DEF Image
  <2>3. ledger[h].spent \in Nat /\ ledger[h].limit \in Limit /\ ledger[h].spent + cost \in Nat
    BY <1>1 DEF TypeOK
  <2>4. report \in [exec : 1 .. MaxExec, spent : Nat, limit : Limit, stop : Stops]
    BY <2>2, <2>3
  <2>5. log' \in Seq([exec : 1 .. MaxExec, spent : Nat, limit : Limit, stop : Stops])
    BY <1>1, <1>6, <2>4, LastOfAppend DEF CloseTurn, TypeOK
  <2>6. ledger' = [ledger EXCEPT ![h] = [ledger[h] EXCEPT !.spent = ledger[h].spent + cost, !.stop = stop]]
    BY <1>1, <1>6 DEF CloseTurn, TypeOK
  <2>7. [ledger[h] EXCEPT !.spent = ledger[h].spent + cost, !.stop = stop] \in [spent : Nat, limit : Limit, stop : Stops]
    BY <1>1, <2>3 DEF TypeOK
  <2>8. ledger' \in [Hosts -> [spent : Nat, limit : Limit, stop : Stops]]
    BY <1>1, <2>6, <2>7 DEF TypeOK
  <2> QED
    BY <1>1, <1>6, <2>5, <2>8 DEF CloseTurn, TypeOK
<1> QED
  BY <1>2, <1>3, <1>4, <1>5, <1>6 DEF Lease

\* The record of a grant or of a recovery goes to the end of its audit.
LEMMA AuditTyped ==
  ASSUME TypeOK, Inv, NEW h \in Hosts, Audit(h)
  PROVE  TypeOK'
<1> USE LimitsAssumption, BoundsAssumption
<1>1. Latest \in Image
  BY LatestIsImage
<1>2. ASSUME NEW op \in GrantOps, Grant(h, op) PROVE TypeOK'
  <2>1. CASE Recorded(Latest.grants, op)
    BY <1>2, <2>1 DEF Grant, TypeOK
  <2>2. CASE ~Recorded(Latest.grants, op)
    <3> DEFINE record == [op |-> op, source |-> Latest.revision, anchor |-> Latest.anchor,
                          old |-> Latest.limit, oldStop |-> Latest.stop, new |-> NewLimit[op]]
               image == [Latest EXCEPT !.revision = @ + 1, !.limit = NewLimit[op], !.stop = "none",
                           !.grants = Append(@, record)]
    <3>1. Latest.revision \in 1 .. MaxRevision /\ Latest.revision < MaxRevision
      BY <1>1, <1>2, <2>2, ImageFields DEF Grant
    <3>2. NewLimit[op] \in Limit /\ "none" \in Stops
      BY DEF Limit, Stops
    <3>3. record \in [op : GrantOps, source : Nat, anchor : Nat, old : Limit, oldStop : Stops, new : Limit]
      BY <1>1, <3>1, <3>2, ImageFields
    <3>4. Append(Latest.grants, record) \in GrantLog
      BY <1>1, <3>3, ImageFields, LastOfAppend DEF GrantLog
    <3>5. Latest.revision + 1 \in 1 .. MaxRevision
      BY <3>1
    <3>6. image \in Image
      BY <1>1, <3>2, <3>4, <3>5, ImageFields
    <3>7. jobs' \subseteq JobSet
      BY <1>2, <2>2, <3>6, AskTyped DEF Grant
    <3> QED
      BY <1>2, <2>2, <3>7 DEF Grant, TypeOK, JobSet
  <2> QED
    BY <2>1, <2>2
<1>3. ASSUME NEW op \in RecoverOps, NEW candidate \in kept, Recover(h, op, candidate) PROVE TypeOK'
  <2>1. CASE Recorded(Latest.recoveries, op)
    BY <1>3, <2>1 DEF Recover, TypeOK
  <2>2. CASE ~Recorded(Latest.recoveries, op)
    <3> DEFINE record == [op |-> op, exec |-> Latest.exec, source |-> Latest.revision]
               recovered == [candidate EXCEPT !.recoveries = Append(@, record)]
    <3>1. Latest.exec # 0 /\ candidate \in Image
      BY <1>3, <2>2 DEF Recover, Quiescent, TypeOK
    <3>2. record \in [op : RecoverOps, exec : 1 .. MaxExec, source : Nat]
      <4>1. Latest.exec \in 1 .. MaxExec /\ Latest.revision \in Nat
        BY <1>1, <3>1, ImageFields
      <4> QED
        BY <4>1
    <3>3. Append(candidate.recoveries, record) \in RecoveryLog
      BY <3>1, <3>2, ImageFields, LastOfAppend DEF RecoveryLog
    <3>4. recovered \in Image
      BY <3>1, <3>3, ImageFields
    <3>5. jobs' \subseteq JobSet
      BY <1>3, <2>2, <3>4, AskTyped DEF Recover
    <3> QED
      BY <1>3, <2>2, <3>5 DEF Recover, TypeOK, JobSet
  <2> QED
    BY <2>1, <2>2
<1> QED
  BY <1>2, <1>3 DEF Audit

\* A host's continuation.
LEMMA AnsweredTyped ==
  ASSUME TypeOK, NEW j \in jobs, NEW ok \in BOOLEAN, Answered(j, ok),
         ok /\ j.kind = "grant" => j.image.grants # <<>>,
         ok /\ j.kind = "recover" => j.image.recoveries # <<>>
  PROVE  /\ pc' \in [Hosts -> {"idle", "claim", "leased", "turn", "closed", "commit", "grant", "recover"}]
         /\ kept' \subseteq Image /\ told' \subseteq GrantOps \cup RecoverOps
<1>1. j \in JobSet
  BY DEF TypeOK, JobSet
<1>2. pc' \in [Hosts -> {"idle", "claim", "leased", "turn", "closed", "commit", "grant", "recover"}]
  BY <1>1 DEF Answered, TypeOK
<1>3. kept' \subseteq Image
  BY <1>1 DEF Answered, TypeOK, JobSet
<1>4. told' \subseteq GrantOps \cup RecoverOps
  <2>1. CASE j.awaited /\ ok /\ j.kind \in {"grant", "recover"}
    <3>1. ASSUME j.kind = "grant" PROVE Last(j.image.grants).op \in GrantOps
      <4>1. j.image.grants \in GrantLog /\ j.image.grants # <<>>
        BY <1>1, <2>1, <3>1, ImageFields DEF JobSet
      <4>2. Last(j.image.grants) \in [op : GrantOps, source : Nat, anchor : Nat, old : Limit,
                                      oldStop : Stops, new : Limit]
        BY <4>1, LastIsMember DEF GrantLog
      <4> QED
        BY <4>2
    <3>2. ASSUME j.kind = "recover" PROVE Last(j.image.recoveries).op \in RecoverOps
      <4>1. j.image.recoveries \in RecoveryLog /\ j.image.recoveries # <<>>
        BY <1>1, <2>1, <3>2, ImageFields DEF JobSet
      <4>2. Last(j.image.recoveries) \in [op : RecoverOps, exec : 1 .. MaxExec, source : Nat]
        BY <4>1, LastIsMember DEF RecoveryLog
      <4> QED
        BY <4>2
    <3> QED
      BY <2>1, <3>1, <3>2 DEF Answered, OpDone, TypeOK
  <2>2. CASE ~(j.awaited /\ ok /\ j.kind \in {"grant", "recover"})
    BY <2>2 DEF Answered, TypeOK
  <2> QED
    BY <2>1, <2>2
<1> QED
  BY <1>2, <1>3, <1>4

\* What the store and the outside write.
LEMMA StoreTyped ==
  ASSUME Inv, Store
  PROVE  TypeOK'
<1>1. TypeOK /\ jobs \subseteq JobSet
  BY DEF Inv, TypeOK, JobSet
<1>2. ASSUME NEW j \in jobs, Refuse(j) PROVE TypeOK'
  <2>1. jobs' \subseteq JobSet
    BY <1>1, <1>2 DEF Refuse
  <2>2. Answered(j, FALSE)
    BY <1>2 DEF Refuse
  <2> QED
    BY <1>1, <1>2, <2>1, <2>2, AnsweredTyped DEF Refuse, TypeOK, JobSet
<1>3. ASSUME NEW j \in jobs, NEW ok \in BOOLEAN, CompareExchange(j, ok) PROVE TypeOK'
  <2>1. jobs' \subseteq JobSet
    BY <1>1, <1>3 DEF CompareExchange
  <2>2. Answered(j, ok)
    BY <1>3 DEF CompareExchange
  <2>3. /\ pc' \in [Hosts -> {"idle", "claim", "leased", "turn", "closed", "commit", "grant", "recover"}]
        /\ kept' \subseteq Image /\ told' \subseteq GrantOps \cup RecoverOps
    BY <1>1, <2>2, AnsweredTyped DEF Inv, JobsFit
  <2>4. chain' \in Seq(Image) /\ chain' # <<>>
    <3>1. j.image \in Image /\ chain \in Seq(Image) /\ chain # <<>>
      BY <1>1 DEF JobSet, TypeOK
    <3>2. chain' = chain \/ chain' = Append(chain, j.image)
      BY <1>3 DEF CompareExchange
    <3> QED
      BY <3>1, <3>2, LastOfAppend
  <2> QED
    BY <1>1, <1>3, <2>1, <2>3, <2>4 DEF CompareExchange, TypeOK, JobSet
<1> QED
  BY <1>2, <1>3 DEF Store

\* A step of the storage, a crash or an outsider keeps the types.
LEMMA OutsideTyped ==
  ASSUME TypeOK, NEW h \in Hosts, Outside(h)
  PROVE  TypeOK'
<1>1. jobs \subseteq JobSet
  BY DEF TypeOK, JobSet
<1>2. CASE Cancel(h)
  <2>1. PICK j \in jobs : /\ jobs' = (jobs \ {j}) \cup {[j EXCEPT !.awaited = FALSE]}
                          /\ pc' = [pc EXCEPT ![h] = "idle"]
                          /\ UNCHANGED <<chain, base, claim, ledger, log, open, owner, execs, kept, told>>
    BY <1>2 DEF Cancel
  <2>2. [j EXCEPT !.awaited = FALSE] \in JobSet
    BY <1>1 DEF JobSet
  <2>3. jobs' \subseteq JobSet
    BY <1>1, <2>1, <2>2
  <2> QED
    BY <2>1, <2>3 DEF TypeOK, JobSet
<1>3. CASE Crash(h)
  <2>1. jobs' \subseteq JobSet
    BY <1>1, <1>3 DEF Crash
  <2> QED
    BY <1>3, <2>1 DEF Crash, TypeOK, JobSet
<1>4. CASE Own(h)
  BY <1>4 DEF Own, TypeOK
<1>5. CASE Disown(h)
  BY <1>5 DEF Disown, TypeOK
<1> QED
  BY <1>2, <1>3, <1>4, <1>5 DEF Outside

-----------------------------------------------------------------------------
(***************************************************************************)
(* Steps that leave the store and the log as they are.                     *)
(***************************************************************************)
\* Where nothing is committed and nobody begins to execute, the rest of the
\* invariant stays: whatever answer comes or does not, and whoever is lost.
LEMMA Retreat ==
  ASSUME Inv, Awaited',
         UNCHANGED <<chain, log, execs, base, claim>>,
         \A j \in jobs' : \E k \in jobs : j.kind = k.kind /\ j.image = k.image,
         kept' \subseteq kept \cup {j.image : j \in {k \in jobs : k.kind = "commit"}},
         \A h \in Hosts : pc'[h] = pc[h] \/ pc'[h] = "idle"
  PROVE  Rest'
<1> USE DEF Inv
<1>1. Latest' = Latest
  BY DEF Latest
<1>2. Executing' \subseteq Executing /\ \A h \in Executing' : pc'[h] = pc[h]
  BY DEF Executing
<1>3. OneExecutor'
  BY <1>2 DEF OneExecutor
<1>4. JobsFit'
  <2>1. ASSUME NEW j \in jobs'
        PROVE  /\ j.kind = "claim" => Claims(j.image)'
               /\ j.kind = "grant" => Raises(j.image)' /\ j.image.grants # <<>>
               /\ j.kind = "recover" => j.image.recoveries # <<>>
               /\ j.kind \in {"commit", "recover"} => Closes(j.image)'
    <3>1. PICK k \in jobs : j.kind = k.kind /\ j.image = k.image
      OBVIOUS
    <3> QED
      BY <1>1, <3>1 DEF JobsFit, Claims, Raises, Closes, Ahead
  <2>2. ASSUME NEW image \in kept' PROVE Closes(image)'
    BY <1>1 DEF JobsFit, Closes, Ahead
  <2> QED
    BY <2>1, <2>2 DEF JobsFit
<1>5. Holds'
  BY <1>1, <1>2 DEF Holds
<1>6. Books'
  BY <1>1 DEF Books
<1> QED
  BY <1>3, <1>4, <1>5, <1>6 DEF Rest

\* A call that is cancelled leaves its worker behind, a process that dies takes
\* its workers along.
LEMMA OutsideStep ==
  ASSUME Inv, NEW h \in Hosts, Outside(h)
  PROVE  Rest'
<1> USE DEF Inv
<1>1. jobs \subseteq JobSet
  BY DEF TypeOK, JobSet
<1>2. CASE Cancel(h)
  <2>1. PICK j \in jobs : /\ j.host = h /\ j.awaited
                          /\ jobs' = (jobs \ {j}) \cup {[j EXCEPT !.awaited = FALSE]}
                          /\ pc' = [pc EXCEPT ![h] = "idle"]
                          /\ UNCHANGED <<chain, base, claim, ledger, log, open, owner, execs, kept, told>>
    BY <1>2 DEF Cancel
  <2> DEFINE left == [j EXCEPT !.awaited = FALSE]
  <2>2. left.kind = j.kind /\ left.image = j.image /\ left.host = j.host /\ ~left.awaited
    BY <1>1 DEF JobSet
  <2> HIDE DEF left
  <2>3. jobs' = (jobs \ {j}) \cup {left}
    BY <2>1 DEF left
  <2>4. \A k \in jobs \ {j} : k.awaited => k.host # h
    BY <2>1 DEF Awaited
  <2>5. Awaited'
    <3>1. ASSUME NEW i \in jobs', i.awaited
          PROVE  i \in jobs /\ i.host # h /\ pc'[i.host] = i.kind /\ (i.kind = "claim" => i.image = claim'[i.host])
      <4>1. i \in jobs /\ i.host # h /\ i.host \in Hosts
        BY <3>1, <2>2, <2>3, <2>4, <1>1 DEF JobSet
      <4> QED
        BY <3>1, <4>1, <2>1 DEF Awaited, TypeOK
    <3>2. ASSUME NEW i \in jobs', NEW k \in jobs', i.awaited, k.awaited, i.host = k.host PROVE i = k
      BY <3>1, <3>2 DEF Awaited
    <3>3. ASSUME NEW i \in jobs', NEW k \in jobs', i.kind = "claim", k.kind = "claim",
                 i.image.exec = k.image.exec
          PROVE  i = k
      BY <3>3, <2>2, <2>3 DEF Awaited
    <3> QED
      BY <3>1, <3>2, <3>3 DEF Awaited
  <2>6. \A k \in jobs' : \E i \in jobs : k.kind = i.kind /\ k.image = i.image
    BY <2>2, <2>3
  <2>7. \A g \in Hosts : pc'[g] = pc[g] \/ pc'[g] = "idle"
    BY <2>1 DEF TypeOK
  <2> QED
    BY <2>1, <2>5, <2>6, <2>7, Retreat
<1>3. CASE Crash(h)
  <2>1. Awaited'
    BY <1>1, <1>3 DEF Crash, Awaited, TypeOK, JobSet
  <2>2. \A g \in Hosts : pc'[g] = pc[g] \/ pc'[g] = "idle"
    BY <1>3 DEF Crash, TypeOK
  <2> QED
    BY <1>3, <2>1, <2>2, Retreat DEF Crash
<1>4. CASE Own(h) \/ Disown(h)
  <2>1. Awaited'
    BY <1>4 DEF Own, Disown, Awaited
  <2> QED
    BY <1>4, <2>1, Retreat DEF Own, Disown
<1> QED
  BY <1>2, <1>3, <1>4 DEF Outside

-----------------------------------------------------------------------------
(***************************************************************************)
(* Requests.                                                               *)
(***************************************************************************)
\* Whoever asks awaits nothing before, and is not executing after.
LEMMA Asking ==
  ASSUME Inv, NEW h \in Hosts, NEW kind \in {"claim", "commit", "grant", "recover"},
         NEW image, NEW job, jobs' = jobs \cup {job},
         job.host = h, job.kind = kind, job.image = image, job.awaited,
         pc[h] \in {"idle", "closed"}, pc' = [pc EXCEPT ![h] = kind],
         UNCHANGED <<chain, log, kept>>,
         execs' \in Nat, execs' >= execs,
         claim' = IF kind = "claim" THEN [claim EXCEPT ![h] = image] ELSE claim,
         kind = "claim" => Claims(image)' /\ \A j \in jobs : j.kind = "claim" => j.image.exec # image.exec,
         kind = "grant" => Raises(image) /\ image.grants # <<>>,
         kind = "recover" => image.recoveries # <<>>,
         kind \in {"commit", "recover"} => Closes(image),
         Executing' = {},
         \A g \in Hosts : base'[g].anchor = claim'[g].anchor
  PROVE  Rest'
<1> USE DEF Inv
<1>1. /\ job.host = h /\ job.kind = kind /\ job.image = image /\ job.awaited
      /\ jobs' = jobs \cup {job}
  OBVIOUS
<1>2. Latest' = Latest
  BY DEF Latest
<1>4. jobs \subseteq JobSet /\ execs \in Nat
  BY DEF TypeOK, JobSet
<1>3. \A j \in jobs : j.awaited => j.host # h
  BY <1>4 DEF Awaited, JobSet
<1>5. OneExecutor' /\ Holds'
  BY DEF OneExecutor, Holds
<1>6. JobsFit'
  <2>1. ASSUME NEW j \in jobs'
        PROVE  /\ j.kind = "claim" => Claims(j.image)'
               /\ j.kind = "grant" => Raises(j.image)' /\ j.image.grants # <<>>
               /\ j.kind = "recover" => j.image.recoveries # <<>>
               /\ j.kind \in {"commit", "recover"} => Closes(j.image)'
    <3>1. CASE j = job
      BY <1>1, <1>2, <3>1 DEF Claims, Raises, Closes, Ahead
    <3>2. CASE j # job
      <4>1. j \in jobs
        BY <1>1, <3>2
      <4> QED
        BY <4>1, <1>2, <1>4 DEF JobsFit, Claims, Raises, Closes, Ahead
    <3> QED
      BY <3>1, <3>2
  <2>2. ASSUME NEW i \in kept' PROVE Closes(i)'
    BY <1>2 DEF JobsFit, Closes, Ahead
  <2> QED
    BY <2>1, <2>2 DEF JobsFit
<1>7. Awaited'
  <2>1. ASSUME NEW j \in jobs'
        PROVE  j.awaited => pc'[j.host] = j.kind /\ (j.kind = "claim" => j.image = claim'[j.host])
    <3>1. CASE j = job
      BY <1>1, <3>1 DEF TypeOK
    <3>2. CASE j # job
      <4>1. j \in jobs /\ j.host \in Hosts
        BY <1>1, <1>4, <3>2 DEF JobSet
      <4> QED
        BY <4>1, <1>3 DEF Awaited, TypeOK
    <3> QED
      BY <3>1, <3>2
  <2>2. ASSUME NEW j \in jobs', NEW k \in jobs', j.awaited, k.awaited, j.host = k.host
        PROVE  j = k
    BY <2>2, <1>1, <1>3 DEF Awaited
  <2>3. ASSUME NEW j \in jobs', NEW k \in jobs', j.kind = "claim", k.kind = "claim",
               j.image.exec = k.image.exec
        PROVE  j = k
    BY <2>3, <1>1 DEF Awaited
  <2> QED
    BY <2>1, <2>2, <2>3 DEF Awaited
<1>8. Books'
  <2>1. \A i \in 1 .. Len(chain) : chain[i] \in Image /\ chain[i].exec \in Nat
    <3>1. \A i \in 1 .. Len(chain) : chain[i] \in Image
      BY DEF TypeOK
    <3>2. \A i \in Image : i.exec \in Nat
      BY BoundsAssumption, ImageFields
    <3> QED
      BY <3>1, <3>2
  <2>2. \A i \in 1 .. Len(chain') : chain'[i].exec <= execs'
    BY <2>1, <1>4 DEF Books
  <2> QED
    BY <1>2, <2>2 DEF Books
<1> QED
  BY <1>5, <1>6, <1>7, <1>8 DEF Rest

\* The host executes and the store is as it was: the log, and what it charged,
\* are its own to change.
LEMMA LeaseStep ==
  ASSUME Inv, NEW h \in Hosts, Lease(h)
  PROVE  Rest'
<1> USE DEF Inv
<1>1. /\ Latest \in Image /\ jobs \subseteq JobSet /\ execs \in Nat
      /\ Latest.exec \in Nat /\ Latest.revision \in Nat /\ Latest.anchor \in Nat
  <2>1. Latest \in Image
    BY LatestIsImage
  <2>2. jobs \subseteq JobSet /\ execs \in Nat
    BY BoundsAssumption DEF TypeOK, JobSet
  <2> QED
    BY <2>1, <2>2, BoundsAssumption, ImageFields
<1>2. ASSUME NEW limit \in Ceilings, Acquire(h, limit) PROVE Rest'
  <2> PICK image : image = [Latest EXCEPT !.revision = @ + 1, !.exec = execs + 1]
    OBVIOUS
  <2>1. /\ image.revision = Latest.revision + 1 /\ image.exec = execs + 1
        /\ image.anchor = Latest.anchor
    BY <1>1, ImageFields
  <2>2. /\ pc[h] = "idle" /\ Latest.exec = 0 /\ execs' = execs + 1
        /\ pc' = [pc EXCEPT ![h] = "claim"]
        /\ base' = [base EXCEPT ![h] = Latest] /\ claim' = [claim EXCEPT ![h] = image]
        /\ Ask(h, "claim", image, FALSE)
        /\ UNCHANGED <<chain, log, kept>>
    BY <1>2 DEF Acquire, Quiescent
  <2>3. Executing' = {}
    BY <2>2 DEF Executing, Holds, TypeOK
  <2>4. \A i \in 1 .. Len(chain) : chain[i].exec # image.exec
    <3>1. \A i \in 1 .. Len(chain) : chain[i] \in Image /\ chain[i].exec <= execs
      BY DEF TypeOK, Books
    <3>2. \A i \in Image : i.exec \in Nat
      BY BoundsAssumption, ImageFields
    <3> QED
      BY <1>1, <2>1, <3>1, <3>2
  <2>5. Claims(image)'
    BY <1>1, <2>1, <2>2, <2>4 DEF Claims, Ahead, Latest
  <2>6. \A j \in jobs : j.kind = "claim" => j.image.exec # image.exec
    BY <1>1, <2>1 DEF JobsFit, Claims
  <2>7. \A g \in Hosts : base'[g].anchor = claim'[g].anchor
    BY <2>1, <2>2 DEF Books, TypeOK
  <2>8. PICK job : job = Job(h, "claim", image, FALSE)
    OBVIOUS
  <2>9. /\ jobs' = jobs \cup {job} /\ job.host = h /\ job.kind = "claim" /\ job.image = image
        /\ job.awaited
    BY <2>2, <2>8 DEF Ask, Job
  <2>10. execs' \in Nat /\ execs' >= execs
    BY <1>1, <2>2
  <2> HIDE DEF Inv
  <2> QED
    BY <2>2, <2>3, <2>5, <2>6, <2>7, <2>9, <2>10, Asking
<1>3. CASE BeginTurn(h)
  <2>1. /\ pc[h] = "leased" /\ AtTail(base[h]) /\ pc' = [pc EXCEPT ![h] = "turn"]
        /\ UNCHANGED <<chain, jobs, base, claim, ledger, log, execs, kept>>
    BY <1>3 DEF BeginTurn
  <2>2. Latest' = Latest /\ Executing' = Executing
    BY <2>1 DEF Latest, Executing, TypeOK
  <2>3. OneExecutor'
    BY <2>2 DEF OneExecutor
  <2>4. JobsFit'
    BY <2>1, <2>2 DEF JobsFit, Claims, Raises, Closes, Ahead
  <2>5. Awaited'
    BY ZenonT(40), <1>1, <2>1 DEF Awaited, TypeOK, JobSet
  <2>6. Holds'
    <3>1. h \in Executing /\ Latest.anchor = Len(log)
      BY <2>1 DEF Executing, Holds, AtTail, Books
    <3> QED
      BY <2>1, <2>2, <3>1 DEF Holds, OneExecutor, TypeOK
  <2>7. Books'
    BY <2>1, <2>2 DEF Books
  <2> QED
    BY <2>3, <2>4, <2>5, <2>6, <2>7 DEF Rest
<1>4. ASSUME NEW cost \in Costs, NEW stop \in Stops, CloseTurn(h, cost, stop) PROVE Rest'
  <2> DEFINE report == [exec |-> claim[h].exec, spent |-> ledger[h].spent + cost,
                        limit |-> ledger[h].limit, stop |-> stop]
  <2>1. /\ pc[h] = "turn" /\ pc' = [pc EXCEPT ![h] = "closed"] /\ log' = Append(log, report)
        /\ UNCHANGED <<chain, jobs, base, claim, execs, kept>>
    BY <1>4 DEF CloseTurn
  <2>2. Latest' = Latest /\ Executing' = Executing /\ h \in Executing
    BY <2>1 DEF Latest, Executing, TypeOK
  <2>3. /\ Latest = claim[h] /\ Latest.exec # 0
        /\ \A j \in jobs : j.image.revision <= Latest.revision
        /\ \A i \in kept : i.revision <= Latest.revision
    BY <2>2 DEF Holds
  <2>4. OneExecutor'
    BY <2>2 DEF OneExecutor
  <2>5. JobsFit'
    <3>1. \A j \in jobs : ~(j.image.revision = Latest.revision + 1)
      BY <1>1, <2>3, ImageFields DEF JobSet
    <3>2. \A i \in kept : ~(i.revision = Latest.revision + 1)
      BY <1>1, <2>3, ImageFields DEF TypeOK
    <3> QED
      BY <2>1, <2>2, <3>1, <3>2 DEF JobsFit, Claims, Raises, Closes, Ahead
  <2>6. Awaited'
    BY ZenonT(40), <1>1, <2>1 DEF Awaited, TypeOK, JobSet
  <2>7. Last(log').exec = Latest.exec /\ log' # <<>>
    <3>1. log \in Seq([exec : 1 .. MaxExec, spent : Nat, limit : Limit, stop : Stops])
      BY DEF TypeOK
    <3>2. Len(log') = Len(log) + 1 /\ log'[Len(log) + 1] = report /\ log' # <<>>
      BY <2>1, <3>1
    <3>3. report.exec = Latest.exec
      BY <2>3
    <3> QED
      BY <3>2, <3>3 DEF Last
  <2>8. Holds'
    BY <2>1, <2>2, <2>3, <2>7 DEF Holds, OneExecutor, TypeOK
  <2>9. Books'
    BY <2>1, <2>2, <2>3 DEF Books
  <2> QED
    BY <2>4, <2>5, <2>6, <2>8, <2>9 DEF Rest
<1>5. CASE CommitClosed(h)
  <2> PICK image : image = [claim[h] EXCEPT !.revision = @ + 1, !.exec = 0, !.anchor = Len(log),
                              !.spent = ledger[h].spent, !.limit = ledger[h].limit, !.stop = ledger[h].stop]
    OBVIOUS
  <2>1. /\ pc[h] = "closed" /\ Len(log) = base[h].anchor + 1
        /\ pc' = [pc EXCEPT ![h] = "commit"] /\ Ask(h, "commit", image, FALSE)
        /\ UNCHANGED <<chain, base, claim, log, execs, kept>>
    BY <1>5 DEF CommitClosed
  <2>2. h \in Executing /\ Latest = claim[h] /\ Latest.exec # 0 /\ Last(log).exec = Latest.exec
    BY <2>1 DEF Executing, Holds
  <2>3. /\ image.revision = Latest.revision + 1 /\ image.exec = 0 /\ image.anchor = Len(log)
    BY <1>1, <2>2, ImageFields
  <2>4. Executing' = {}
    BY <2>1, <2>2 DEF Executing, OneExecutor, TypeOK
  <2>5. Closes(image)
    BY <1>1, <2>1, <2>2, <2>3 DEF Closes, Books
  <2>6. \A g \in Hosts : base'[g].anchor = claim'[g].anchor
    BY <2>1 DEF Books
  <2>7. PICK job : job = Job(h, "commit", image, FALSE)
    OBVIOUS
  <2>8. /\ jobs' = jobs \cup {job} /\ job.host = h /\ job.kind = "commit" /\ job.image = image
        /\ job.awaited
    BY <2>1, <2>7 DEF Ask, Job
  <2>9. execs' \in Nat /\ execs' >= execs
    BY <1>1, <2>1
  <2> HIDE DEF Inv
  <2> QED
    BY <2>1, <2>4, <2>5, <2>6, <2>8, <2>9, Asking
<1>6. CASE DropLease(h)
  <2>1. Awaited'
    <3>1. pc[h] \in {"leased", "turn", "closed"} /\ pc' = [pc EXCEPT ![h] = "idle"] /\ UNCHANGED <<jobs, claim>>
      BY <1>6 DEF DropLease
    <3>2. \A j \in jobs : j.host \in Hosts /\ (j.awaited => j.host # h)
      BY <1>1, <3>1 DEF Awaited, JobSet
    <3>3. \A j \in jobs : j.awaited => pc'[j.host] = pc[j.host]
      BY <3>1, <3>2 DEF TypeOK
    <3> QED
      BY <3>1, <3>3 DEF Awaited
  <2>2. \A g \in Hosts : pc'[g] = pc[g] \/ pc'[g] = "idle"
    BY <1>6 DEF DropLease, TypeOK
  <2> QED
    BY <1>6, <2>1, <2>2, Retreat DEF DropLease
<1> QED
  BY <1>2, <1>3, <1>4, <1>5, <1>6 DEF Lease

\* A grant, and a recovery, ask only where nobody executes.
LEMMA AuditStep ==
  ASSUME Inv, NEW h \in Hosts, Audit(h)
  PROVE  Rest'
<1> USE DEF Inv
<1>1. Latest \in Image /\ execs \in Nat /\ Latest.revision \in Nat
  <2>1. Latest \in Image
    BY LatestIsImage
  <2> QED
    BY <2>1, BoundsAssumption, ImageFields DEF TypeOK
<1>2. ASSUME UNCHANGED <<pc, jobs, chain, base, claim, ledger, log, open, owner, execs, kept>>
      PROVE  Rest'
  <2>1. Awaited'
    BY <1>2 DEF Awaited
  <2> QED
    BY <1>2, <2>1, Retreat
<1>3. ASSUME NEW op \in GrantOps, Grant(h, op), ~Recorded(Latest.grants, op) PROVE Rest'
  <2> PICK record : record = [op |-> op, source |-> Latest.revision, anchor |-> Latest.anchor,
                              old |-> Latest.limit, oldStop |-> Latest.stop, new |-> NewLimit[op]]
    OBVIOUS
  <2> PICK image : image = [Latest EXCEPT !.revision = @ + 1, !.limit = NewLimit[op],
                              !.stop = "none", !.grants = Append(@, record)]
    OBVIOUS
  <2>1. /\ pc[h] = "idle" /\ Latest.exec = 0 /\ pc' = [pc EXCEPT ![h] = "grant"]
        /\ Ask(h, "grant", image, FALSE)
        /\ UNCHANGED <<chain, base, claim, log, execs, kept>>
    BY <1>3 DEF Grant, Quiescent
  <2>2. /\ image.revision = Latest.revision + 1 /\ image.exec = 0 /\ image.anchor = Latest.anchor
        /\ image.grants = Append(Latest.grants, record)
    BY <1>1, <2>1, ImageFields
  <2>3. image.grants # <<>>
    BY SMTT(30), <1>1, <2>2, ImageFields DEF GrantLog
  <2>4. Executing' = {}
    BY <2>1 DEF Executing, Holds, TypeOK
  <2>5. Raises(image)
    BY <1>1, <2>1, <2>2 DEF Raises
  <2>6. \A g \in Hosts : base'[g].anchor = claim'[g].anchor
    BY <2>1 DEF Books
  <2>7. PICK job : job = Job(h, "grant", image, FALSE)
    OBVIOUS
  <2>8. /\ jobs' = jobs \cup {job} /\ job.host = h /\ job.kind = "grant" /\ job.image = image
        /\ job.awaited
    BY <2>1, <2>7 DEF Ask, Job
  <2>9. execs' \in Nat /\ execs' >= execs
    BY <1>1, <2>1
  <2> HIDE DEF Inv
  <2> QED
    BY <2>1, <2>3, <2>4, <2>5, <2>6, <2>8, <2>9, Asking
<1>4. ASSUME NEW op \in RecoverOps, NEW candidate \in kept, Recover(h, op, candidate),
             ~Recorded(Latest.recoveries, op)
      PROVE  Rest'
  <2> PICK record : record = [op |-> op, exec |-> Latest.exec, source |-> Latest.revision]
    OBVIOUS
  <2> PICK image : image = [candidate EXCEPT !.recoveries = Append(@, record)]
    OBVIOUS
  <2>1. /\ pc[h] = "idle" /\ Latest.exec # 0 /\ candidate.revision = Latest.revision + 1
        /\ pc' = [pc EXCEPT ![h] = "recover"]
        /\ Ask(h, "recover", image, TRUE)
        /\ UNCHANGED <<chain, base, claim, log, execs, kept>>
    BY <1>4 DEF Recover, Quiescent
  <2>2. candidate \in Image /\ Closes(candidate)
    BY DEF JobsFit, TypeOK
  <2>3. /\ image.revision = candidate.revision /\ image.exec = candidate.exec
        /\ image.anchor = candidate.anchor /\ image.recoveries = Append(candidate.recoveries, record)
    BY <2>2, ImageFields
  <2>4. image.recoveries # <<>>
    <3>1. candidate.recoveries \in RecoveryLog
      BY <2>2, ImageFields
    <3> QED
      BY <2>3, <3>1 DEF RecoveryLog
  <2>5. Executing = {}
    BY <1>1, <2>1 DEF Holds
  <2>6. Executing' = {}
    BY <2>1, <2>5 DEF Executing, TypeOK
  <2>7. Closes(image)
    BY <2>2, <2>3 DEF Closes, Ahead
  <2>8. \A g \in Hosts : base'[g].anchor = claim'[g].anchor
    BY <2>1 DEF Books
  <2>9. PICK job : job = Job(h, "recover", image, TRUE)
    OBVIOUS
  <2>10. /\ jobs' = jobs \cup {job} /\ job.host = h /\ job.kind = "recover" /\ job.image = image
         /\ job.awaited
    BY <2>1, <2>9 DEF Ask, Job
  <2>11. execs' \in Nat /\ execs' >= execs
    BY <1>1, <2>1
  <2> HIDE DEF Inv
  <2> QED
    BY <2>1, <2>4, <2>6, <2>7, <2>8, <2>10, <2>11, Asking
<1>5. ASSUME NEW op \in GrantOps, Grant(h, op), Recorded(Latest.grants, op) PROVE Rest'
  BY <1>2, <1>5 DEF Grant
<1>6. ASSUME NEW op \in RecoverOps, NEW candidate \in kept, Recover(h, op, candidate),
             Recorded(Latest.recoveries, op)
      PROVE  Rest'
  BY <1>2, <1>6 DEF Recover
<1> QED
  BY <1>3, <1>4, <1>5, <1>6 DEF Audit

-----------------------------------------------------------------------------
(***************************************************************************)
(* The store.                                                              *)
(***************************************************************************)
\* Whoever is answered awaited nothing else.
LEMMA AnsweredAwaited ==
  ASSUME Inv, NEW j \in jobs, NEW ok \in BOOLEAN, Answered(j, ok), jobs' = jobs \ {j}, claim' = claim
  PROVE  Awaited'
<1> USE DEF Inv
<1>1. jobs \subseteq JobSet
  BY DEF TypeOK, JobSet
<1>2. CASE j.awaited
  <2>1. \A k \in jobs' : k.awaited => k.host # j.host
    BY <1>2 DEF Awaited
  <2>2. \A k \in jobs' : k.awaited => pc'[k.host] = pc[k.host]
    BY <1>1, <1>2, <2>1 DEF Answered, TypeOK, JobSet
  <2> QED
    BY <2>2 DEF Awaited
<1>3. CASE ~j.awaited
  BY <1>3 DEF Answered, Awaited
<1> QED
  BY <1>2, <1>3

\* Refused, replayed or committed.  Who holds the claim is in nobody's way, for
\* nothing commits; and a claim that commits finds nobody who executes.
LEMMA StoreStep ==
  ASSUME Inv, Store
  PROVE  Rest'
<1> USE DEF Inv
<1>1. jobs \subseteq JobSet /\ execs \in Nat
  BY BoundsAssumption DEF TypeOK, JobSet
<1>2. Latest \in Image /\ Latest = chain[Len(chain)] /\ Len(chain) \in 1 .. Len(chain)
  BY LatestIsImage
<1>3. Latest.revision \in Nat /\ Latest.exec \in Nat
  BY <1>2, BoundsAssumption, ImageFields
<1>4. ASSUME NEW j \in jobs, NEW ok \in BOOLEAN, Answered(j, ok), ~(ok /\ j.kind = "claim"),
             UNCHANGED <<chain, base, claim, ledger, log, open, owner, execs>>, jobs' = jobs \ {j}
      PROVE  Rest'
  <2>1. Awaited'
    BY <1>4, AnsweredAwaited
  <2>2. \A g \in Hosts : pc'[g] = pc[g] \/ pc'[g] = "idle"
    BY <1>4, <1>1 DEF Answered, TypeOK, JobSet
  <2>3. kept' \subseteq kept \cup {k.image : k \in {i \in jobs : i.kind = "commit"}}
    BY <1>4 DEF Answered
  <2> QED
    BY <1>4, <2>1, <2>2, <2>3, Retreat
<1>5. ASSUME NEW j \in jobs, Refuse(j) PROVE Rest'
  BY <1>4, <1>5 DEF Refuse
<1>6. ASSUME NEW j \in jobs, NEW ok \in BOOLEAN, CompareExchange(j, ok), chain' = chain,
             ~(ok /\ j.kind = "claim")
      PROVE  Rest'
  BY <1>4, <1>6 DEF CompareExchange
<1>7. ASSUME NEW j \in jobs, Latest = j.image PROVE j.kind # "claim"
  BY <1>2, <1>7 DEF JobsFit, Claims
<1>8. ASSUME NEW j \in jobs, NEW ok \in BOOLEAN, CompareExchange(j, ok),
             chain' = Append(chain, j.image), Latest.revision + 1 = j.image.revision
      PROVE  Rest'
  <2>1. /\ Answered(j, ok) /\ jobs' = jobs \ {j}
        /\ UNCHANGED <<base, claim, ledger, log, open, owner, execs>>
    BY <1>8 DEF CompareExchange
  <2>2. Latest' = j.image /\ Latest'.revision = Latest.revision + 1
    <3>1. j.image \in Image /\ chain \in Seq(Image)
      BY <1>1 DEF JobSet, TypeOK
    <3> QED
      BY <1>8, <3>1, LastOfAppend DEF Latest
  <2>3. Executing = {}
    BY <1>3, <1>8 DEF Holds
  <2>4. Executing' \subseteq IF ok /\ j.awaited /\ j.kind = "claim" THEN {j.host} ELSE {}
    BY <1>1, <2>1, <2>3 DEF Answered, Executing, TypeOK, JobSet
  <2>5. \A i \in jobs' : i \in jobs /\ i.image.revision <= Latest.revision + 1 /\ i.image.revision \in Nat
    <3>1. \A i \in jobs : i.image.revision <= Latest.revision + 1
      BY <1>1 DEF JobsFit, Claims, Raises, Closes, JobSet
    <3>2. \A i \in Image : i.revision \in Nat
      BY ImageFields
    <3> QED
      BY <1>1, <2>1, <3>1, <3>2 DEF JobSet
  <2>6. \A i \in kept' : /\ i.revision <= Latest.revision + 1 /\ i.revision \in Nat /\ i.exec = 0
                         /\ ok /\ j.kind = "claim" => i \in kept
    <3>1. \A i \in kept' : i \in kept \/ (i = j.image /\ j.kind = "commit")
      BY <2>1 DEF Answered
    <3>2. \A i \in kept : i \in Image /\ Closes(i)
      BY DEF JobsFit, TypeOK
    <3>3. j.kind = "commit" => j.image \in Image /\ Closes(j.image)
      BY <1>1 DEF JobsFit, JobSet
    <3>4. \A i \in Image : i.revision \in Nat
      BY ImageFields
    <3> QED
      BY <3>1, <3>2, <3>3, <3>4 DEF Closes
  <2>7. OneExecutor'
    BY <2>4 DEF OneExecutor
  <2>8. JobsFit'
    <3>1. \A i \in jobs' : i.image.revision # Latest'.revision + 1
      BY <1>3, <2>2, <2>5
    <3>2. \A i \in kept' : i.revision # Latest'.revision + 1
      BY <1>3, <2>2, <2>6
    <3>3. ASSUME NEW i \in jobs', i.kind = "claim" PROVE Claims(i.image)'
      <4>1. i \in jobs /\ i # j /\ Claims(i.image)
        BY <2>1, <3>3 DEF JobsFit
      <4>2. i.image.exec # j.image.exec
        <5>1. CASE j.kind = "claim"
          BY <3>3, <4>1, <5>1 DEF Awaited
        <5>2. CASE j.kind # "claim"
          <6>1. j.image.exec = 0
            BY <1>1, <5>2 DEF JobsFit, Raises, Closes, JobSet
          <6> QED
            BY <4>1, <6>1, <1>1 DEF Claims
        <5> QED
          BY <5>1, <5>2
      <4>3. chain \in Seq(Image) /\ j.image \in Image
        BY <1>1 DEF TypeOK, JobSet
      <4>4. \A k \in 1 .. Len(chain') : chain'[k].exec # i.image.exec
        BY <1>8, <4>1, <4>2, <4>3, LastOfAppend DEF Claims
      <4> QED
        BY <1>3, <2>1, <2>2, <2>5, <3>1, <4>1, <4>4 DEF Claims, Ahead
    <3>4. ASSUME NEW i \in jobs', i.kind # "claim"
          PROVE  /\ i.kind = "grant" => Raises(i.image)' /\ i.image.grants # <<>>
                 /\ i.kind = "recover" => i.image.recoveries # <<>>
                 /\ i.kind \in {"commit", "recover"} => Closes(i.image)'
      <4>1. i \in jobs
        BY <2>5
      <4> QED
        BY <1>3, <2>2, <2>5, <3>1, <4>1 DEF JobsFit, Raises, Closes, Ahead
    <3>5. ASSUME NEW i \in kept' PROVE Closes(i)'
      BY <1>3, <2>2, <2>6, <3>2 DEF Closes, Ahead
    <3> QED
      BY <3>3, <3>4, <3>5 DEF JobsFit
  <2>9. Awaited'
    BY <2>1, AnsweredAwaited
  <2>10. Holds'
    <3>1. CASE ok /\ j.awaited /\ j.kind = "claim"
      <4>1. j.image = claim[j.host] /\ j.image.exec # 0 /\ pc'[j.host] = "leased"
        BY <1>1, <2>1, <3>1 DEF Awaited, JobsFit, Claims, Answered, TypeOK, JobSet
      <4> QED
        BY <1>3, <2>1, <2>2, <2>4, <2>5, <2>6, <3>1, <4>1 DEF Holds
    <3>2. CASE ~(ok /\ j.awaited /\ j.kind = "claim")
      BY <2>4, <3>2 DEF Holds
    <3> QED
      BY <3>1, <3>2
  <2>11. Books'
    <3>1. \A i \in 1 .. Len(chain') : chain'[i].exec <= execs'
      <4>1. chain \in Seq(Image) /\ j.image \in Image
        BY <1>1 DEF TypeOK, JobSet
      <4>2. j.image.exec <= execs
        BY <1>1 DEF JobsFit, Claims, Raises, Closes, JobSet
      <4> QED
        BY <1>8, <2>1, <4>1, <4>2, LastOfAppend DEF Books
    <3>2. Latest'.exec = 0 => Latest'.anchor = Len(log)
      BY <1>1, <1>8, <2>2, <1>3 DEF JobsFit, Claims, Raises, Closes, Ahead, JobSet, Books
    <3> QED
      BY <2>1, <3>1, <3>2 DEF Books
  <2> QED
    BY <2>7, <2>8, <2>9, <2>10, <2>11 DEF Rest
<1>9. ASSUME NEW j \in jobs, NEW ok \in BOOLEAN, CompareExchange(j, ok) PROVE Rest'
  <2>1. \/ chain' = Append(chain, j.image) /\ Latest.revision + 1 = j.image.revision
        \/ chain' = chain /\ (ok => Latest = j.image)
    BY <1>9 DEF CompareExchange
  <2> QED
    BY <1>6, <1>7, <1>8, <1>9, <2>1
<1> QED
  BY <1>5, <1>9 DEF Store

-----------------------------------------------------------------------------
(***************************************************************************)
(* The theorems.                                                           *)
(***************************************************************************)
\* The store holds the first image, and nobody has asked for anything.
LEMMA InitInv == Init => Inv
<1> SUFFICES ASSUME Init PROVE Inv
  OBVIOUS
<1> USE LimitsAssumption, BoundsAssumption DEF Init
<1>1. FirstImage \in Image
  <2>1. <<>> \in GrantLog /\ <<>> \in RecoveryLog
    BY DEF GrantLog, RecoveryLog
  <2>2. First \in Limit /\ "none" \in Stops
    BY DEF Limit, Stops
  <2> QED
    BY <2>1, <2>2, ImageFields DEF FirstImage
<1>2. chain \in Seq(Image) /\ Len(chain) = 1 /\ chain[1] = FirstImage /\ chain # <<>>
  BY <1>1
<1>3. TypeOK
  <2>1. First \in Limit /\ "none" \in Stops
    BY DEF Limit, Stops
  <2>2. ledger \in [Hosts -> [spent : Nat, limit : Limit, stop : Stops]]
    BY <2>1
  <2>3. log \in Seq([exec : 1 .. MaxExec, spent : Nat, limit : Limit, stop : Stops])
    OBVIOUS
  <2>4. pc \in [Hosts -> {"idle", "claim", "leased", "turn", "closed", "commit", "grant", "recover"}]
    OBVIOUS
  <2>5. base \in [Hosts -> Image] /\ claim \in [Hosts -> Image]
    BY <1>1
  <2>6. execs \in 0 .. MaxExec
    OBVIOUS
  <2>8. open \in BOOLEAN /\ owner \in Hosts \cup {None}
    OBVIOUS
  <2>7. jobs \subseteq JobSet /\ kept \subseteq Image /\ told \subseteq GrantOps \cup RecoverOps
    OBVIOUS
  <2> HIDE DEF Init
  <2> QED
    BY <1>2, <2>2, <2>3, <2>4, <2>5, <2>6, <2>7, <2>8 DEF TypeOK, JobSet
<1>4. Latest = FirstImage
  BY <1>2 DEF Latest, Last
<1>5. Executing = {}
  BY DEF Executing
<1>6. Books
  BY <1>2, <1>4 DEF Books, FirstImage
<1> QED
  BY <1>3, <1>5, <1>6 DEF Inv, OneExecutor, JobsFit, Awaited, Holds

\* Every step of a host, of the store, and of whatever is outside keeps it.
LEMMA StepInv == Inv /\ [Next]_vars => Inv'
<1> SUFFICES ASSUME Inv, [Next]_vars PROVE Inv'
  OBVIOUS
<1>1. CASE UNCHANGED vars
  <2>1. TypeOK' /\ Awaited'
    BY <1>1 DEF vars, Inv, TypeOK, Awaited
  <2>2. Rest'
    BY <1>1, <2>1, Retreat DEF vars
  <2> QED
    BY <2>1, <2>2 DEF Inv, Rest
<1>2. CASE Store
  BY <1>2, StoreTyped, StoreStep DEF Inv, Rest
<1>3. ASSUME NEW h \in Hosts, Lease(h) PROVE Inv'
  BY <1>3, LeaseTyped, LeaseStep DEF Inv, Rest
<1>4. ASSUME NEW h \in Hosts, Audit(h) PROVE Inv'
  BY <1>4, AuditTyped, AuditStep DEF Inv, Rest
<1>5. ASSUME NEW h \in Hosts, Outside(h) PROVE Inv'
  BY <1>5, OutsideTyped, OutsideStep DEF Inv, Rest
<1> QED
  BY <1>1, <1>2, <1>3, <1>4, <1>5 DEF Next

\* The invariant holds throughout.
LEMMA InvHolds == Spec => []Inv
  BY InitInv, StepInv, PTL DEF Spec

\* Images, jobs, leases and the log are what their types say, for any host and
\* any limit; the revision of a claim stays in its range.
THEOREM TypesCorrect == Spec => []TypeOK
<1>1. Inv => TypeOK
  BY DEF Inv
<1> QED
  BY InvHolds, <1>1, PTL

\* At most one host executes a Task, however many race for its checkpoint, and
\* whatever compare-and-exchanges are done late, replayed or never answered.
THEOREM OneExecutes == Spec => []OneExecutor
<1>1. Inv => OneExecutor
  BY DEF Inv
<1> QED
  BY InvHolds, <1>1, PTL

\* What a step may do to the store and to the log.
LEMMA StepsOfTruth ==
  ASSUME Inv, [Next]_vars
  PROVE  \/ UNCHANGED <<chain, log>>
         \/ /\ log' = log
            /\ \E j \in jobs : chain' = Append(chain, j.image) /\ Latest.revision + 1 = j.image.revision
         \/ /\ chain' = chain /\ Latest.exec # 0 /\ Latest.anchor = Len(log) /\ Len(log') = Len(log) + 1
<1>1. CASE UNCHANGED vars
  BY <1>1 DEF vars
<1>2. CASE Store
  BY <1>2 DEF Store, Refuse, CompareExchange
<1>3. ASSUME NEW h \in Hosts, Audit(h) \/ Outside(h) PROVE UNCHANGED <<chain, log>>
  BY <1>3 DEF Audit, Outside, Grant, Recover, Cancel, Crash, Own, Disown
<1>4. ASSUME NEW h \in Hosts, NEW cost \in Costs, NEW stop \in Stops, CloseTurn(h, cost, stop)
      PROVE  chain' = chain /\ Latest.exec # 0 /\ Latest.anchor = Len(log) /\ Len(log') = Len(log) + 1
  <2>1. Latest.exec # 0 /\ Latest.anchor = Len(log)
    BY <1>4 DEF CloseTurn, Executing, Inv, Holds
  <2>2. \E report : chain' = chain /\ log' = Append(log, report)
    BY <1>4 DEF CloseTurn
  <2> QED
    BY <2>1, <2>2 DEF Inv, TypeOK
<1>5. ASSUME NEW h \in Hosts, Lease(h) PROVE UNCHANGED <<chain, log>> \/ \E cost \in Costs, stop \in Stops : CloseTurn(h, cost, stop)
  BY <1>5 DEF Lease, Acquire, BeginTurn, CommitClosed, DropLease
<1> QED
  BY <1>1, <1>2, <1>3, <1>4, <1>5 DEF Next

\* What the next image of the store does to a claim: it is one, where there was
\* none; it raises a limit there; or it closes the claim with its turn.
LEMMA NextImage ==
  ASSUME Inv, NEW j \in jobs, chain' = Append(chain, j.image), log' = log,
         Latest.revision + 1 = j.image.revision
  PROVE  /\ Latest' = j.image /\ ClaimIds' = ClaimIds \cup ({j.image.exec} \ {0})
         /\ \/ /\ Latest.exec = 0 /\ j.image.exec \in (1 .. MaxExec) \ ClaimIds /\ j.image.anchor = Latest.anchor
               /\ Latest.anchor = Len(log)
            \/ Latest.exec = 0 /\ j.image.exec = 0 /\ j.image.anchor = Latest.anchor
            \/ /\ Latest.exec # 0 /\ j.image.exec = 0 /\ Latest.anchor + 1 = Len(log)
               /\ j.image.anchor = Len(log) /\ Last(log).exec = Latest.exec
<1>1. j \in JobSet /\ chain \in Seq(Image) /\ j.image \in Image
  BY DEF Inv, TypeOK, JobSet
<1>2. Latest' = j.image
  BY <1>1, LastOfAppend DEF Latest
<1>3. ClaimIds' = ClaimIds \cup ({j.image.exec} \ {0})
  <2>1. DOMAIN chain = 1 .. Len(chain) /\ DOMAIN chain' = 1 .. Len(chain) + 1 /\ Len(chain) \in Nat
    BY <1>1
  <2>2. \A i \in DOMAIN chain' : chain'[i] = IF i = Len(chain) + 1 THEN j.image ELSE chain[i]
    BY <1>1, <2>1, LastOfAppend
  <2> QED
    BY <2>1, <2>2 DEF ClaimIds
<1>4. CASE j.kind = "claim"
  <2>1. Claims(j.image) /\ j.image.exec \in 1 .. MaxExec /\ j.image.exec \in Nat
    <3>1. Claims(j.image)
      BY <1>4 DEF Inv, JobsFit
    <3>2. execs \in 0 .. MaxExec /\ j.image.exec \in 1 .. execs
      BY <3>1 DEF Claims, Inv, TypeOK
    <3> QED
      BY <3>1, <3>2, BoundsAssumption
  <2>2. j.image.exec \notin ClaimIds
    BY <1>1, <2>1 DEF Claims, ClaimIds
  <2> QED
    BY <1>2, <1>3, <2>1, <2>2 DEF Claims, Ahead, Inv, Books
<1>5. CASE j.kind = "grant"
  BY <1>2, <1>3, <1>5 DEF Inv, JobsFit, Raises, Ahead
<1>6. CASE j.kind \in {"commit", "recover"}
  BY <1>2, <1>3, <1>6 DEF Inv, JobsFit, Closes, Ahead
<1> QED
  BY <1>1, <1>4, <1>5, <1>6 DEF JobSet

\* Also a recovery closes a claim only with the turn that was executed under it.
THEOREM ClaimsCloseWhole == Spec => ClosedByItsTurn
<1>1. Inv /\ [Next]_vars =>
        [~Quiescent(Latest) /\ Quiescent(Latest')
           => log # <<>> /\ Last(log).exec = Latest.exec /\ Latest'.anchor = Len(log)]_vars
  <2> SUFFICES ASSUME Inv, [Next]_vars, ~Quiescent(Latest), Quiescent(Latest')
               PROVE  log # <<>> /\ Last(log).exec = Latest.exec /\ Latest'.anchor = Len(log)
    OBVIOUS
  <2>1. Latest.exec # 0 /\ Latest'.exec = 0
    BY DEF Quiescent
  <2>2. chain' # chain
    BY <2>1 DEF Latest
  <2>3. PICK j \in jobs : /\ chain' = Append(chain, j.image) /\ log' = log
                          /\ Latest.revision + 1 = j.image.revision
    BY <2>2, StepsOfTruth
  <2>4. /\ Latest.anchor + 1 = Len(log) /\ Last(log).exec = Latest.exec
        /\ Latest'.anchor = Len(log)
    BY <2>1, <2>3, NextImage
  <2>5. Latest.anchor \in Nat
    BY LatestIsImage, ImageFields DEF Inv
  <2> QED
    BY <2>4, <2>5
<1> QED
  BY InvHolds, <1>1, PTL DEF Spec, ClosedByItsTurn

\* The claims of the store are those of the abstract ExecutionClaim: an identifier
\* is claimed once, covers one turn at most, and is released with it.
THEOREM StoreImplementsClaim == Spec => ImplementsClaim
<1>1. Init => Promise!Init
  <2> SUFFICES ASSUME Init PROVE Promise!Init
    OBVIOUS
  <2>1. chain = <<FirstImage>> /\ DOMAIN chain = {1} /\ chain[1] = FirstImage /\ log = <<>>
    BY DEF Init
  <2>2. Latest = FirstImage
    BY <2>1 DEF Latest, Last
  <2>3. ClaimIds = {}
    BY <2>1 DEF ClaimIds, FirstImage
  <2> QED
    BY <2>1, <2>2, <2>3 DEF Promise!Init, FirstImage
<1>2. Inv /\ [Next]_vars => [Promise!Next]_(Promise!vars)
  <2> SUFFICES ASSUME Inv, [Next]_vars PROVE [Promise!Next]_(Promise!vars)
    OBVIOUS
  <2>1. CASE UNCHANGED <<chain, log>>
    BY <2>1 DEF Promise!vars, Latest, ClaimIds
  <2>2. ASSUME chain' = chain, Latest.exec # 0, Latest.anchor = Len(log), Len(log') = Len(log) + 1
        PROVE  Promise!Next
    BY <2>2 DEF Promise!Next, Promise!Turn, Latest, ClaimIds
  <2>3. ASSUME NEW j \in jobs, log' = log, chain' = Append(chain, j.image),
               Latest.revision + 1 = j.image.revision
        PROVE  [Promise!Next]_(Promise!vars)
    <3>1. /\ Latest' = j.image /\ ClaimIds' = ClaimIds \cup ({j.image.exec} \ {0})
          /\ \/ /\ Latest.exec = 0 /\ j.image.exec \in (1 .. MaxExec) \ ClaimIds
                /\ j.image.anchor = Latest.anchor /\ Latest.anchor = Len(log)
             \/ Latest.exec = 0 /\ j.image.exec = 0 /\ j.image.anchor = Latest.anchor
             \/ /\ Latest.exec # 0 /\ j.image.exec = 0 /\ Latest.anchor + 1 = Len(log)
                /\ j.image.anchor = Len(log)
      BY <2>3, NextImage
    <3>2. ASSUME Latest.exec = 0, j.image.exec \in (1 .. MaxExec) \ ClaimIds,
                 j.image.anchor = Latest.anchor, Latest.anchor = Len(log)
          PROVE  Promise!Next
      <4>1. ClaimIds' = ClaimIds \cup {j.image.exec}
        BY <3>1, <3>2
      <4>2. Promise!Claim(j.image.exec)
        BY <2>3, <3>1, <3>2, <4>1 DEF Promise!Claim
      <4> QED
        BY <3>2, <4>2 DEF Promise!Next
    <3>3. ASSUME Latest.exec = 0, j.image.exec = 0, j.image.anchor = Latest.anchor
          PROVE  UNCHANGED Promise!vars
      BY <2>3, <3>1, <3>3 DEF Promise!vars
    <3>4. ASSUME Latest.exec # 0, j.image.exec = 0, Latest.anchor + 1 = Len(log),
                 j.image.anchor = Len(log)
          PROVE  Promise!Next
      BY <2>3, <3>1, <3>4 DEF Promise!Next, Promise!Close
    <3> QED
      BY <3>1, <3>2, <3>3, <3>4
  <2> QED
    BY <2>1, <2>2, <2>3, StepsOfTruth
<1> QED
  BY InvHolds, <1>1, <1>2, PTL DEF Spec, ImplementsClaim, Promise!Spec

-----------------------------------------------------------------------------
(***************************************************************************)
(* What the latest image says is true: it accounts for the turns of the    *)
(* log, forgets no spending and keeps its audit.                           *)
(***************************************************************************)
\* The grants at the anchor of an image are the last of its audit.
GrantsInPlace(image) ==
  \E s \in 1 .. Len(image.grants) + 1 :
    \A i \in 1 .. Len(image.grants) : image.grants[i].anchor = image.anchor <=> s <= i

\* An image the store would take next forgets nothing; but for a claim, it
\* accounts for all the turns of the log.
Continues(image) ==
  Ahead(image) => image.spent >= Latest.spent /\ GrantsInPlace(image)

Accounts(image) == Ahead(image) => AtTail(image)

Proposals ==
  /\ \A j \in jobs : Continues(j.image) /\ (j.kind # "claim" => Accounts(j.image))
  /\ \A image \in kept : Continues(image) /\ Accounts(image)

\* The budget of a lease is not below that of its claim, and the turn that is
\* open is one that is executed under the latest claim.
LedgersKept ==
  \A h \in Hosts : pc[h] \in {"claim", "leased", "turn", "closed"} => ledger[h].spent >= claim[h].spent

OpenIsClaimed == open => Latest.exec # 0 /\ Latest.anchor = Len(log)

LatestSound == GrantsSound(Latest) /\ GrantsInPlace(Latest)

Truth == Proposals /\ LedgersKept /\ OpenIsClaimed /\ LatestSound /\ ImageTruthful

\* An element of a sequence is of its set.
LEMMA ElementOf ==
  ASSUME NEW S, NEW s \in Seq(S), NEW i \in 1 .. Len(s)
  PROVE  s[i] \in S
  OBVIOUS

\* The audit of grants is a sequence of records with an anchor.
LEMMA GrantsTyped ==
  ASSUME NEW g \in GrantLog
  PROVE  /\ Len(g) \in Nat /\ DOMAIN g = 1 .. Len(g)
         /\ \A i \in 1 .. Len(g) : g[i].anchor \in Nat
<1>1. Len(g) \in Nat /\ DOMAIN g = 1 .. Len(g)
  BY DEF GrantLog
<1>2. ASSUME NEW i \in 1 .. Len(g) PROVE g[i].anchor \in Nat
  <2>1. g[i] \in [op : GrantOps, source : Nat, anchor : Nat, old : Limit, oldStop : Stops, new : Limit]
    BY <1>2, ElementOf DEF GrantLog
  <2> QED
    BY <2>1
<1> QED
  BY <1>1, <1>2

\* Where the grants at the anchor begin, the boundary is what was before the
\* first of them.
LEMMA BoundaryOf ==
  ASSUME NEW image \in Image, NEW s \in 1 .. Len(image.grants) + 1,
         \A i \in 1 .. Len(image.grants) : image.grants[i].anchor = image.anchor <=> s <= i
  PROVE  AtBoundary(image) =
           IF s = Len(image.grants) + 1 THEN [limit |-> image.limit, stop |-> image.stop]
           ELSE [limit |-> image.grants[s].old, stop |-> image.grants[s].oldStop]
<1> DEFINE n == Len(image.grants)
           here == {i \in DOMAIN image.grants :
                      \A k \in i .. Len(image.grants) : image.grants[k].anchor = image.anchor}
<1>1. n \in Nat /\ DOMAIN image.grants = 1 .. n
  BY ImageFields DEF GrantLog
<1>2. here = s .. n
  BY <1>1
<1>3. s = n + 1 => here = {}
  BY <1>1, <1>2
<1>4. s # n + 1 => s \in here /\ \A i \in here : s <= i
  BY <1>1, <1>2
<1>5. s # n + 1 => Min(here) = s
  <2>1. ASSUME s # n + 1, NEW m \in here, \A i \in here : m <= i PROVE m = s
    BY <1>1, <1>2, <1>4, <2>1
  <2> HIDE DEF here
  <2> QED
    BY <1>4, <2>1 DEF Min
<1>6. AtBoundary(image) = IF here = {} THEN [limit |-> image.limit, stop |-> image.stop]
                          ELSE [limit |-> image.grants[Min(here)].old, stop |-> image.grants[Min(here)].oldStop]
  BY DEF AtBoundary
<1> HIDE DEF here
<1> QED
  BY <1>3, <1>4, <1>5, <1>6

\* A grant is at the tail like the image it raises: the boundary stays.
LEMMA RaisedAtTail ==
  ASSUME NEW old \in Image, NEW image \in Image, NEW record,
         record.anchor = old.anchor, record.old = old.limit, record.oldStop = old.stop,
         image.grants = Append(old.grants, record), image.anchor = old.anchor, image.spent = old.spent,
         GrantsInPlace(old), AtTail(old)
  PROVE  GrantsInPlace(image) /\ AtTail(image)
<1> DEFINE n == Len(old.grants)
<1>1. PICK s \in 1 .. n + 1 : \A i \in 1 .. n : old.grants[i].anchor = old.anchor <=> s <= i
  BY DEF GrantsInPlace
<1>2. n \in Nat /\ old.grants \in GrantLog /\ image.grants \in GrantLog
  <2>1. old.grants \in GrantLog /\ image.grants \in GrantLog
    BY ImageFields
  <2> QED
    BY <2>1 DEF GrantLog
<1>3. /\ Len(image.grants) = n + 1 /\ image.grants[n + 1] = record
      /\ \A i \in 1 .. n : image.grants[i] = old.grants[i]
  BY <1>2 DEF GrantLog
<1>4. s \in 1 .. Len(image.grants) + 1 /\ s # Len(image.grants) + 1
  BY <1>2, <1>3
<1>5. \A i \in 1 .. Len(image.grants) : image.grants[i].anchor = image.anchor <=> s <= i
  BY <1>1, <1>2, <1>3
<1>6. AtBoundary(image) = [limit |-> image.grants[s].old, stop |-> image.grants[s].oldStop]
  BY <1>4, <1>5, BoundaryOf
<1>7. AtBoundary(old) = IF s = n + 1 THEN [limit |-> old.limit, stop |-> old.stop]
                        ELSE [limit |-> old.grants[s].old, stop |-> old.grants[s].oldStop]
  BY <1>1, BoundaryOf
<1>8. AtBoundary(image) = AtBoundary(old)
  BY <1>2, <1>3, <1>6, <1>7
<1> QED
  BY <1>4, <1>5, <1>8 DEF GrantsInPlace, AtTail

\* Where no grant is at the anchor, the boundary is the image's own.
LEMMA ClosedAtTail ==
  ASSUME NEW image \in Image, \A i \in 1 .. Len(image.grants) : image.grants[i].anchor # image.anchor,
         ~open, image.anchor = Len(log), log # <<>>, Confirms(Last(log), image.spent, image)
  PROVE  GrantsInPlace(image) /\ AtTail(image)
<1>1. Len(image.grants) \in Nat
  BY ImageFields DEF GrantLog
<1>2. \A i \in 1 .. Len(image.grants) :
        image.grants[i].anchor = image.anchor <=> Len(image.grants) + 1 <= i
  BY <1>1
<1>3. AtBoundary(image) = [limit |-> image.limit, stop |-> image.stop]
  BY <1>1, <1>2, BoundaryOf
<1> QED
  BY <1>1, <1>2, <1>3 DEF GrantsInPlace, AtTail, Confirms

\* A step that leaves the store and the log alone, and proposes what continues
\* the latest image, keeps it.
LEMMA SameStore ==
  ASSUME Truth, UNCHANGED <<chain, log, open>>, LedgersKept',
         \A j \in jobs' : \/ \E k \in jobs : j.kind = k.kind /\ j.image = k.image
                          \/ Continues(j.image) /\ (j.kind # "claim" => Accounts(j.image)),
         \A i \in kept' : i \in kept \/ \E j \in jobs : j.kind = "commit" /\ i = j.image,
         \A op \in told' : op \in told \/ Recorded(Latest.grants, op) \/ Recorded(Latest.recoveries, op)
  PROVE  Truth'
<1>1. Latest' = Latest
  BY DEF Latest
<1>2. \A i : /\ Continues(i)' <=> Continues(i)
             /\ Accounts(i)' <=> Accounts(i)
  BY <1>1 DEF Continues, Accounts, Ahead, AtTail
<1>3. Proposals'
  <2>1. ASSUME NEW j \in jobs' PROVE Continues(j.image) /\ (j.kind # "claim" => Accounts(j.image))
    BY DEF Truth, Proposals
  <2>2. ASSUME NEW i \in kept' PROVE Continues(i) /\ Accounts(i)
    BY DEF Truth, Proposals
  <2> QED
    BY <1>2, <2>1, <2>2 DEF Proposals
<1>4. OpenIsClaimed' /\ LatestSound'
  BY <1>1 DEF Truth, OpenIsClaimed, LatestSound
<1>5. ImageTruthful'
  BY <1>1 DEF Truth, ImageTruthful, ReadyIsConfirmed, SpendingKept, ToldIsTrue, AtTail
<1> QED
  BY <1>3, <1>4, <1>5 DEF Truth

\* Nothing an executing host may do meets an image that is next of the store.
LEMMA NobodyAhead ==
  ASSUME Inv, NEW h \in Executing
  PROVE  (\A j \in jobs : ~Ahead(j.image)) /\ (\A i \in kept : ~Ahead(i))
<1>1. /\ \A j \in jobs : j.image \in Image /\ j.image.revision <= Latest.revision
      /\ \A i \in kept : i \in Image /\ i.revision <= Latest.revision
  BY DEF Inv, Holds, TypeOK
<1>2. Latest.revision \in Nat /\ \A i \in Image : i.revision \in Nat
  BY LatestIsImage, ImageFields DEF Inv
<1> QED
  BY <1>1, <1>2 DEF Ahead

\* While a turn is executed nothing is proposed, and the latest image is claimed.
LEMMA TurnKeepsTruth ==
  ASSUME Inv, Truth, NEW h \in Executing, UNCHANGED <<chain, jobs, kept, told>>,
         LedgersKept', OpenIsClaimed'
  PROVE  Truth'
<1>1. Latest' = Latest /\ Latest.exec # 0
  BY DEF Latest, Inv, Holds
<1>2. Proposals'
  BY <1>1, NobodyAhead DEF Proposals, Continues, Accounts, Ahead
<1>3. LatestSound' /\ ImageTruthful'
  BY <1>1 DEF Truth, LatestSound, ImageTruthful, ReadyIsConfirmed, SpendingKept, ToldIsTrue, Quiescent
<1> QED
  BY <1>2, <1>3 DEF Truth

\* A host claims what it restored, and closes its claim with the turn it ran.
LEMMA LeaseKeepsTruth ==
  ASSUME Inv, Inv', Truth, NEW h \in Hosts, Lease(h)
  PROVE  Truth'
<1>1. /\ Latest \in Image /\ Latest.spent \in Nat /\ Latest.anchor \in Nat /\ Len(log) \in Nat
      /\ \A g \in Hosts : ledger[g].spent \in Nat /\ claim[g].spent \in Nat
      /\ \A j \in jobs' : j.image \in Image
  <2>1. Latest \in Image /\ \A i \in Image : i.spent \in Nat /\ i.anchor \in Nat
    BY LatestIsImage, ImageFields DEF Inv
  <2> QED
    BY <2>1 DEF Inv, TypeOK
<1>2. ASSUME NEW limit \in Ceilings, Acquire(h, limit) PROVE Truth'
  <2> PICK image : image = [Latest EXCEPT !.revision = @ + 1, !.exec = execs + 1]
    OBVIOUS
  <2>1. /\ pc' = [pc EXCEPT ![h] = "claim"] /\ claim' = [claim EXCEPT ![h] = image]
        /\ ledger' = [ledger EXCEPT ![h] = Restored(Latest, limit)]
        /\ Ask(h, "claim", image, FALSE) /\ UNCHANGED <<chain, log, open, kept, told>>
    BY <1>2 DEF Acquire
  <2>2. image.spent = Latest.spent /\ image.grants = Latest.grants /\ image.anchor = Latest.anchor
    BY <1>1, ImageFields
  <2>3. Continues(image)
    BY <1>1, <2>2 DEF Continues, Truth, LatestSound, GrantsInPlace
  <2>4. ledger'[h].spent = Latest.spent /\ claim'[h].spent = Latest.spent
    BY <2>1, <2>2 DEF Restored, Inv, TypeOK
  <2>5. LedgersKept'
    BY <1>1, <2>1, <2>4 DEF Truth, LedgersKept, Inv, TypeOK
  <2>6. \A j \in jobs' : j \in jobs \/ (j.kind = "claim" /\ j.image = image)
    BY <2>1 DEF Ask, Job
  <2> QED
    BY <2>1, <2>3, <2>5, <2>6, SameStore
<1>3. CASE BeginTurn(h)
  <2>1. /\ h \in Executing /\ AtTail(base[h]) /\ pc' = [pc EXCEPT ![h] = "turn"] /\ pc[h] = "leased"
        /\ UNCHANGED <<chain, jobs, kept, told, claim, ledger, log>>
    BY <1>3 DEF BeginTurn, Executing
  <2>2. LedgersKept'
    BY <2>1 DEF Truth, LedgersKept, Inv, TypeOK
  <2>3. OpenIsClaimed'
    BY <2>1 DEF OpenIsClaimed, Latest, Inv, Holds, Books, AtTail
  <2> QED
    BY <2>1, <2>2, <2>3, TurnKeepsTruth
<1>4. ASSUME NEW cost \in Costs, NEW stop \in Stops, CloseTurn(h, cost, stop) PROVE Truth'
  <2>1. /\ h \in Executing /\ pc' = [pc EXCEPT ![h] = "closed"] /\ pc[h] = "turn" /\ ~open'
        /\ ledger' = [ledger EXCEPT ![h].spent = ledger[h].spent + cost, ![h].stop = stop]
        /\ UNCHANGED <<chain, jobs, kept, told, claim>>
    BY <1>4 DEF CloseTurn, Executing
  <2>2. /\ ledger'[h].spent = ledger[h].spent + cost /\ cost \in Nat
        /\ \A g \in Hosts \ {h} : ledger'[g] = ledger[g]
    BY <2>1, LimitsAssumption DEF Inv, TypeOK
  <2>3. LedgersKept'
    BY <1>1, <2>1, <2>2 DEF Truth, LedgersKept, Inv, TypeOK
  <2>4. OpenIsClaimed'
    BY <2>1 DEF OpenIsClaimed
  <2> QED
    BY <2>1, <2>3, <2>4, TurnKeepsTruth
<1>5. CASE CommitClosed(h)
  <2> PICK image : image = [claim[h] EXCEPT !.revision = @ + 1, !.exec = 0, !.anchor = Len(log),
                              !.spent = ledger[h].spent, !.limit = ledger[h].limit, !.stop = ledger[h].stop]
    OBVIOUS
  <2>1. /\ pc[h] = "closed" /\ Len(log) = base[h].anchor + 1 /\ Confirms(Last(log), image.spent, image)
        /\ pc' = [pc EXCEPT ![h] = "commit"] /\ Ask(h, "commit", image, FALSE)
        /\ UNCHANGED <<chain, claim, ledger, log, open, kept, told>>
    BY <1>5 DEF CommitClosed
  <2>2. h \in Executing /\ Latest = claim[h] /\ base[h].anchor = Latest.anchor
    BY <2>1 DEF Executing, Inv, Holds, Books
  <2>3. /\ image.spent = ledger[h].spent /\ image.anchor = Len(log) /\ image.grants = Latest.grants
    BY <1>1, <2>2, ImageFields
  <2> PICK job : job = Job(h, "commit", image, FALSE)
    OBVIOUS
  <2>12. jobs' = jobs \cup {job} /\ job.image = image
    BY <2>1 DEF Ask, Job
  <2>4. image \in Image
    BY <1>1, <2>12
  <2>5. ~open /\ log # <<>>
    BY <1>1, <2>1, <2>2 DEF Truth, OpenIsClaimed
  <2>6. \A i \in 1 .. Len(image.grants) : image.grants[i].anchor # image.anchor
    <3>1. Latest.grants \in GrantLog
      BY <1>1, ImageFields
    <3>2. DOMAIN Latest.grants = 1 .. Len(Latest.grants)
          /\ \A i \in 1 .. Len(Latest.grants) : Latest.grants[i].anchor \in Nat
      BY <3>1, GrantsTyped
    <3>3. \A i \in 1 .. Len(Latest.grants) : Latest.grants[i].anchor <= Latest.anchor
      BY <3>2 DEF Truth, LatestSound, GrantsSound
    <3> QED
      BY <1>1, <2>1, <2>2, <2>3, <3>2, <3>3
  <2>7. GrantsInPlace(image) /\ AtTail(image)
    BY <2>1, <2>3, <2>4, <2>5, <2>6, ClosedAtTail
  <2>8. image.spent >= Latest.spent
    BY <2>1, <2>2, <2>3 DEF Truth, LedgersKept
  <2>9. Continues(image) /\ Accounts(image)
    BY <2>7, <2>8 DEF Continues, Accounts
  <2>10. LedgersKept'
    BY <2>1 DEF Truth, LedgersKept, Inv, TypeOK
  <2>11. \A j \in jobs' : j \in jobs \/ j.image = image
    BY <2>12
  <2> QED
    BY <2>1, <2>9, <2>10, <2>11, SameStore
<1>6. CASE DropLease(h)
  <2>1. LedgersKept'
    BY <1>6 DEF DropLease, Truth, LedgersKept, Inv, TypeOK
  <2> QED
    BY <1>6, <2>1, SameStore DEF DropLease
<1> QED
  BY <1>2, <1>3, <1>4, <1>5, <1>6 DEF Lease

\* What is granted and what is recovered is checked against the log.
LEMMA AuditKeepsTruth ==
  ASSUME Inv, Inv', Truth, NEW h \in Hosts, Audit(h)
  PROVE  Truth'
<1>1. /\ Latest \in Image /\ Latest.spent \in Nat
      /\ \A j \in jobs' : j.image \in Image
  <2>1. Latest \in Image /\ \A i \in Image : i.spent \in Nat
    BY LatestIsImage, ImageFields DEF Inv
  <2> QED
    BY <2>1 DEF Inv, TypeOK
<1>2. LedgersKept'
  <2>1. \A g \in Hosts : pc'[g] = pc[g] \/ pc'[g] \in {"grant", "recover"}
    BY DEF Audit, Grant, Recover, Inv, TypeOK
  <2>2. UNCHANGED <<ledger, claim>>
    BY DEF Audit, Grant, Recover
  <2> QED
    BY <2>1, <2>2 DEF Truth, LedgersKept
<1>3. ASSUME NEW op \in GrantOps, Grant(h, op), ~Recorded(Latest.grants, op) PROVE Truth'
  <2>10. PICK record : record = [op |-> op, source |-> Latest.revision, anchor |-> Latest.anchor,
                              old |-> Latest.limit, oldStop |-> Latest.stop, new |-> NewLimit[op]]
    OBVIOUS
  <2>11. PICK image : image = [Latest EXCEPT !.revision = @ + 1, !.limit = NewLimit[op],
                              !.stop = "none", !.grants = Append(@, record)]
    OBVIOUS
  <2>1. /\ AtTail(Latest) /\ Ask(h, "grant", image, FALSE)
        /\ UNCHANGED <<chain, log, open, kept, told>>
    BY <1>3, <2>10, <2>11 DEF Grant
  <2>2. /\ image.anchor = Latest.anchor /\ image.spent = Latest.spent
        /\ image.grants = Append(Latest.grants, record)
    BY <1>1, <2>11, ImageFields
  <2>12. PICK job : job = Job(h, "grant", image, FALSE)
    OBVIOUS
  <2>8. jobs' = jobs \cup {job} /\ job.image = image
    BY <2>1, <2>12 DEF Ask, Job
  <2>3. image \in Image
    <3>1. job \in jobs'
      BY <2>8
    <3>2. job.image \in Image
      BY <1>1, <3>1, Zenon
    <3> QED
      BY <2>8, <3>2, Zenon
  <2>4. record.anchor = Latest.anchor /\ record.old = Latest.limit /\ record.oldStop = Latest.stop
    BY <2>10
  <2>5. GrantsInPlace(image) /\ AtTail(image)
    <3>1. GrantsInPlace(Latest)
      BY DEF Truth, LatestSound
    <3>2. Latest \in Image /\ AtTail(Latest)
      BY <1>1, <2>1
    <3> QED
      BY <2>2, <2>3, <2>4, <3>1, <3>2, RaisedAtTail
  <2>6. Continues(image) /\ Accounts(image)
    BY <1>1, <2>2, <2>5 DEF Continues, Accounts
  <2>7. \A j \in jobs' : j \in jobs \/ j.image = image
    BY <2>8
  <2> QED
    BY <1>2, <2>1, <2>6, <2>7, SameStore
<1>4. ASSUME NEW op \in RecoverOps, NEW candidate \in kept, Recover(h, op, candidate),
             ~Recorded(Latest.recoveries, op)
      PROVE  Truth'
  <2> PICK record : record = [op |-> op, exec |-> Latest.exec, source |-> Latest.revision]
    OBVIOUS
  <2> PICK image : image = [candidate EXCEPT !.recoveries = Append(@, record)]
    OBVIOUS
  <2>1. /\ AtTail(candidate) /\ candidate.revision = Latest.revision + 1
        /\ Ask(h, "recover", image, TRUE)
        /\ UNCHANGED <<chain, log, open, kept, told>>
    BY <1>4 DEF Recover
  <2>2. candidate \in Image /\ candidate.spent >= Latest.spent /\ GrantsInPlace(candidate)
    BY <2>1 DEF Truth, Proposals, Continues, Ahead, Inv, TypeOK
  <2>3. /\ image.anchor = candidate.anchor /\ image.spent = candidate.spent
        /\ image.grants = candidate.grants /\ image.limit = candidate.limit /\ image.stop = candidate.stop
    BY <2>2, ImageFields
  <2>4. GrantsInPlace(image) /\ AtTail(image)
    <3>1. GrantsInPlace(image)
      BY <2>2, <2>3 DEF GrantsInPlace
    <3>2. AtBoundary(image) = AtBoundary(candidate)
      BY <2>3 DEF AtBoundary
    <3> QED
      BY <2>1, <2>3, <3>1, <3>2 DEF AtTail
  <2>5. Continues(image) /\ Accounts(image)
    BY <2>2, <2>3, <2>4 DEF Continues, Accounts
  <2>6. \A j \in jobs' : j \in jobs \/ j.image = image
    BY SMTT(30), <2>1 DEF Ask, Job
  <2> QED
    BY <1>2, <2>1, <2>5, <2>6, SameStore
<1>5. ASSUME NEW op \in GrantOps, Grant(h, op), Recorded(Latest.grants, op) PROVE Truth'
  BY <1>2, <1>5, SameStore DEF Grant
<1>6. ASSUME NEW op \in RecoverOps, NEW candidate \in kept, Recover(h, op, candidate),
             Recorded(Latest.recoveries, op)
      PROVE  Truth'
  BY <1>2, <1>6, SameStore DEF Recover
<1> QED
  BY <1>3, <1>4, <1>5, <1>6 DEF Audit

\* Whoever is lost, and whatever the host awaited.
LEMMA OutsideKeepsTruth ==
  ASSUME Inv, Truth, NEW h \in Hosts, Outside(h)
  PROVE  Truth'
<1>1. UNCHANGED <<chain, log, open, ledger, claim, kept, told>>
  BY DEF Outside, Cancel, Crash, Own, Disown
<1>2. \A g \in Hosts : pc'[g] = pc[g] \/ pc'[g] = "idle"
  BY DEF Outside, Cancel, Crash, Own, Disown, Inv, TypeOK
<1>3. LedgersKept'
  BY <1>1, <1>2 DEF Truth, LedgersKept
<1>4. \A j \in jobs' : \E k \in jobs : j.kind = k.kind /\ j.image = k.image
  <2>1. CASE Cancel(h)
    <3>1. PICK j \in jobs : jobs' = (jobs \ {j}) \cup {[j EXCEPT !.awaited = FALSE]}
      BY <2>1 DEF Cancel
    <3>2. [j EXCEPT !.awaited = FALSE].kind = j.kind /\ [j EXCEPT !.awaited = FALSE].image = j.image
      BY DEF Inv, TypeOK
    <3> QED
      BY <3>1, <3>2
  <2>2. CASE jobs' \subseteq jobs
    BY <2>2
  <2> QED
    BY <2>1, <2>2 DEF Outside, Crash, Own, Disown
<1> QED
  BY <1>1, <1>3, <1>4, SameStore

\* The operation a caller is told of is the last that its image records.
LEMMA DoneIsRecorded ==
  ASSUME Inv, NEW j \in jobs, NEW op \in OpDone(j.image, j.kind), j.kind \in {"grant", "recover"}
  PROVE  Recorded(j.image.grants, op) \/ Recorded(j.image.recoveries, op)
<1>1. j.image.grants \in GrantLog /\ j.image.recoveries \in RecoveryLog
  <2>1. j.image \in Image
    BY DEF Inv, TypeOK
  <2> QED
    BY <2>1, ImageFields
<1>2. CASE j.kind = "grant"
  <2>1. j.image.grants # <<>> /\ op = Last(j.image.grants).op
    BY <1>2 DEF Inv, JobsFit, OpDone
  <2>2. Len(j.image.grants) \in DOMAIN j.image.grants
    BY <1>1, <2>1 DEF GrantLog
  <2> QED
    BY <2>1, <2>2 DEF Recorded, Last
<1>3. CASE j.kind = "recover"
  <2>1. j.image.recoveries # <<>> /\ op = Last(j.image.recoveries).op
    BY <1>3 DEF Inv, JobsFit, OpDone
  <2>2. Len(j.image.recoveries) \in DOMAIN j.image.recoveries
    BY <1>1, <2>1 DEF RecoveryLog
  <2> QED
    BY <2>1, <2>2 DEF Recorded, Last
<1> QED
  BY <1>2, <1>3

\* What is recorded stays recorded in whatever extends it.
LEMMA RecordedStays ==
  ASSUME NEW S, NEW old \in Seq(S), NEW new \in Seq(S), IsPrefix(old, new), NEW op, Recorded(old, op)
  PROVE  Recorded(new, op)
<1>1. PICK i \in DOMAIN old : old[i].op = op
  BY DEF Recorded
<1>2. /\ Len(old) \in Nat /\ Len(new) \in Nat /\ Len(old) <= Len(new) /\ i \in 1 .. Len(old)
      /\ SubSeq(old, 1, Len(old)) = SubSeq(new, 1, Len(old))
  BY DEF IsPrefix
<1>3. SubSeq(old, 1, Len(old))[i] = old[i] /\ SubSeq(new, 1, Len(old))[i] = new[i]
  BY <1>2
<1> QED
  BY <1>1, <1>2, <1>3 DEF Recorded

\* The image the store takes next is checked against the latest, and was built
\* from it.
LEMMA CommitKeepsTruth ==
  ASSUME Inv, Inv', Truth, NEW j \in jobs, NEW ok \in BOOLEAN, CompareExchange(j, ok),
         chain' = Append(chain, j.image), Latest.revision + 1 = j.image.revision,
         Transition(Latest, j.image)
  PROVE  Truth'
<1>1. /\ j \in JobSet /\ j.image \in Image /\ chain \in Seq(Image) /\ Len(chain) \in Nat
      /\ Latest \in Image /\ Latest = chain[Len(chain)] /\ Len(chain) \in 1 .. Len(chain)
  BY LatestIsImage DEF Inv, TypeOK, JobSet
<1>2. \A i \in Image : i.revision \in Nat /\ i.exec \in Nat /\ i.anchor \in Nat /\ i.spent \in Nat
                       /\ i.limit \in Nat /\ i.grants \in GrantLog /\ i.recoveries \in RecoveryLog
  <2>1. ASSUME NEW i \in Image
        PROVE  /\ i.revision \in 1 .. MaxRevision /\ i.exec \in 0 .. MaxExec /\ i.anchor \in Nat
               /\ i.spent \in Nat /\ i.limit \in Limit /\ i.grants \in GrantLog
               /\ i.recoveries \in RecoveryLog
    BY ImageFields
  <2>2. Limit \subseteq Nat /\ \A n \in 1 .. MaxRevision : n \in Nat
    BY BoundsAssumption, LimitIsNat
  <2>3. \A n \in 0 .. MaxExec : n \in Nat
    BY BoundsAssumption
  <2> QED
    BY <2>1, <2>2, <2>3, Zenon
<1>3. Latest' = j.image
  BY <1>1, LastOfAppend DEF Latest
<1>4. /\ Answered(j, ok) /\ jobs' = jobs \ {j}
      /\ UNCHANGED <<base, claim, ledger, log, open, owner, execs>>
  BY DEF CompareExchange
<1>5. Ahead(j.image) /\ j.image.spent >= Latest.spent /\ GrantsInPlace(j.image)
      /\ (j.kind # "claim" => AtTail(j.image))
  BY DEF Truth, Proposals, Continues, Accounts, Ahead
<1>6. Proposals'
  <2>1. \A i \in jobs' : i.image \in Image /\ i.image.revision <= Latest.revision + 1
    BY <1>1, <1>4 DEF Inv, TypeOK, JobsFit, Claims, Raises, Closes
  <2>2. \A i \in kept' : i \in Image /\ i.revision <= Latest.revision + 1
    BY <1>1, <1>4 DEF Inv, TypeOK, JobsFit, Closes, Answered
  <2>3. /\ \A i \in jobs' : i.image.revision # Latest'.revision + 1
        /\ \A i \in kept' : i.revision # Latest'.revision + 1
    BY <1>1, <1>2, <1>3, <2>1, <2>2
  <2> QED
    BY <2>3 DEF Proposals, Continues, Accounts, Ahead
<1>7. LedgersKept'
  <2>1. \A h \in Hosts : \/ pc'[h] \in {pc[h], "idle"}
                         \/ pc[h] = "claim" /\ pc'[h] = "leased"
    <3>1. j.awaited /\ j.kind = "claim" => pc[j.host] = "claim"
      BY DEF Inv, Awaited
    <3>2. \/ pc' = pc
          \/ j.awaited /\ pc' = [pc EXCEPT ![j.host] = IF ok /\ j.kind = "claim" THEN "leased" ELSE "idle"]
      BY <1>4 DEF Answered
    <3>3. pc = [h \in Hosts |-> pc[h]]
      BY DEF Inv, TypeOK
    <3> QED
      BY <3>1, <3>2, <3>3
  <2> QED
    BY <1>4, <2>1 DEF Truth, LedgersKept
<1>8. ~open
  <2>1. Latest.exec = 0 \/ Latest.anchor + 1 = Len(log)
    BY <1>1, <1>5 DEF Inv, JobsFit, Claims, Raises, Closes, JobSet
  <2> QED
    BY <1>1, <1>2, <2>1 DEF Truth, OpenIsClaimed
<1>9. LatestSound'
  BY <1>3, <1>5 DEF LatestSound, Transition
<1>10. ReadyIsConfirmed'
  <2>1. ASSUME j.image.exec = 0 PROVE AtTail(j.image)'
    <3>1. j.kind # "claim"
      BY <1>2, <2>1 DEF Inv, JobsFit, Claims
    <3>2. AtTail(j.image)
      BY <1>5, <3>1
    <3> QED
      BY <1>4, <3>2 DEF AtTail
  <2> QED
    BY <1>3, <2>1 DEF ReadyIsConfirmed, Quiescent
<1>11. SpendingKept'
  <2>1. /\ Len(chain') = Len(chain) + 1 /\ chain'[Len(chain) + 1] = j.image
        /\ \A i \in 1 .. Len(chain) : chain'[i] = chain[i]
    BY <1>1, LastOfAppend
  <2>2. j.image.limit > Latest.limit => Len(j.image.grants) > Len(Latest.grants)
    <3>1. CASE j.image.grants = Latest.grants
      BY <1>1, <1>2, <3>1 DEF Transition
    <3>2. CASE j.image.grants # Latest.grants
      <4>1. Len(j.image.grants) = Len(Latest.grants) + 1
        BY <3>2 DEF Transition, GrantStep
      <4>2. Len(Latest.grants) \in Nat
        BY <1>1, <1>2, GrantsTyped
      <4> QED
        BY <4>1, <4>2
    <3> QED
      BY <3>1, <3>2
  <2>3. ASSUME NEW i \in 1 .. Len(chain') - 1
        PROVE  /\ chain'[i + 1].spent >= chain'[i].spent
               /\ chain'[i + 1].limit > chain'[i].limit => Len(chain'[i + 1].grants) > Len(chain'[i].grants)
    <3>1. CASE i = Len(chain)
      BY <1>1, <1>5, <2>1, <2>2, <3>1
    <3>2. CASE i \in 1 .. Len(chain) - 1
      <4>1. i + 1 \in 1 .. Len(chain) /\ i \in 1 .. Len(chain)
        BY <1>1, <3>2
      <4>2. /\ chain[i + 1].spent >= chain[i].spent
            /\ chain[i + 1].limit > chain[i].limit => Len(chain[i + 1].grants) > Len(chain[i].grants)
        BY <3>2 DEF Truth, ImageTruthful, SpendingKept
      <4> QED
        BY <2>1, <4>1, <4>2
    <3> QED
      BY <1>1, <2>1, <3>1, <3>2
  <2> QED
    BY <2>3 DEF SpendingKept
<1>12. ToldIsTrue'
  <2> SUFFICES ASSUME NEW op \in told'
               PROVE  Recorded(j.image.grants, op) \/ Recorded(j.image.recoveries, op)
    BY <1>3 DEF ToldIsTrue
  <2>1. CASE op \in told
    <3>1. Recorded(Latest.grants, op) \/ Recorded(Latest.recoveries, op)
      BY <2>1 DEF Truth, ImageTruthful, ToldIsTrue
    <3>2. IsPrefix(Latest.grants, j.image.grants) /\ IsPrefix(Latest.recoveries, j.image.recoveries)
      BY DEF Transition
    <3>3. /\ Latest.grants \in GrantLog /\ j.image.grants \in GrantLog
          /\ Latest.recoveries \in RecoveryLog /\ j.image.recoveries \in RecoveryLog
      BY <1>1, <1>2
    <3>4. Recorded(Latest.grants, op) => Recorded(j.image.grants, op)
      BY <3>2, <3>3, RecordedStays DEF GrantLog
    <3>5. Recorded(Latest.recoveries, op) => Recorded(j.image.recoveries, op)
      BY <3>2, <3>3, RecordedStays DEF RecoveryLog
    <3> QED
      BY <3>1, <3>4, <3>5
  <2>2. CASE op \notin told
    <3>1. j.kind \in {"grant", "recover"} /\ op \in OpDone(j.image, j.kind)
      BY <1>4, <2>2 DEF Answered
    <3> QED
      BY <3>1, DoneIsRecorded
  <2> QED
    BY <2>1, <2>2
<1>13. OpenIsClaimed'
  BY <1>4, <1>8 DEF OpenIsClaimed
<1> QED
  BY <1>6, <1>7, <1>9, <1>10, <1>11, <1>12, <1>13 DEF Truth, ImageTruthful

\* Refused, replayed or committed.
LEMMA StoreKeepsTruth ==
  ASSUME Inv, Inv', Truth, Store
  PROVE  Truth'
<1>1. ASSUME NEW j \in jobs, NEW ok \in BOOLEAN, Answered(j, ok), jobs' = jobs \ {j},
             UNCHANGED <<chain, base, claim, ledger, log, open, owner, execs>>,
             ok => Latest = j.image
      PROVE  Truth'
  <2>1. \A h \in Hosts : \/ pc'[h] \in {pc[h], "idle"}
                         \/ pc[h] = "claim" /\ pc'[h] = "leased"
    BY <1>1 DEF Answered, Inv, TypeOK, Awaited, JobSet
  <2>2. LedgersKept'
    BY <1>1, <2>1 DEF Truth, LedgersKept
  <2>3. \A i \in kept' : i \in kept \/ \E k \in jobs : k.kind = "commit" /\ i = k.image
    BY <1>1 DEF Answered
  <2>4. ASSUME NEW op \in told', op \notin told
        PROVE  Recorded(Latest.grants, op) \/ Recorded(Latest.recoveries, op)
    <3>1. ok /\ j.kind \in {"grant", "recover"} /\ op \in OpDone(j.image, j.kind)
      BY <1>1, <2>4 DEF Answered
    <3> QED
      BY <1>1, <3>1, DoneIsRecorded
  <2> QED
    BY <1>1, <2>2, <2>3, <2>4, SameStore
<1>2. ASSUME NEW j \in jobs, Refuse(j) PROVE Truth'
  BY <1>1, <1>2 DEF Refuse
<1>3. ASSUME NEW j \in jobs, NEW ok \in BOOLEAN, CompareExchange(j, ok) PROVE Truth'
  <2>1. \/ /\ chain' = Append(chain, j.image) /\ Latest.revision + 1 = j.image.revision
           /\ Transition(Latest, j.image)
        \/ chain' = chain /\ (ok => Latest = j.image)
    BY <1>3 DEF CompareExchange
  <2>2. CASE chain' = chain /\ (ok => Latest = j.image)
    BY <1>1, <1>3, <2>2 DEF CompareExchange
  <2> QED
    BY <1>3, <2>1, <2>2, CommitKeepsTruth
<1> QED
  BY <1>2, <1>3 DEF Store

\* The first image says nothing is spent, nothing granted and nothing recovered.
LEMMA TruthInit == Init => Truth
<1> SUFFICES ASSUME Init PROVE Truth
  OBVIOUS
<1>1. chain = <<FirstImage>> /\ Len(chain) = 1 /\ chain[1] = FirstImage /\ log = <<>> /\ ~open
  BY DEF Init
<1>2. Latest = FirstImage
  BY <1>1 DEF Latest, Last
<1>3. FirstImage.grants = <<>> /\ FirstImage.recoveries = <<>> /\ FirstImage.anchor = 0
      /\ FirstImage.spent = 0
  BY DEF FirstImage
<1>4. Proposals /\ LedgersKept /\ OpenIsClaimed /\ SpendingKept /\ ToldIsTrue
  BY <1>1 DEF Init, Proposals, LedgersKept, OpenIsClaimed, SpendingKept, ToldIsTrue
<1>5. LatestSound
  BY <1>2, <1>3 DEF LatestSound, GrantsSound, GrantsInPlace, Distinct
<1>6. ReadyIsConfirmed
  BY <1>1, <1>2, <1>3 DEF ReadyIsConfirmed, AtTail
<1> QED
  BY <1>4, <1>5, <1>6 DEF Truth, ImageTruthful

\* Every step keeps it.
LEMMA TruthStep == Inv /\ Inv' /\ Truth /\ [Next]_vars => Truth'
<1> SUFFICES ASSUME Inv, Inv', Truth, [Next]_vars PROVE Truth'
  OBVIOUS
<1>1. CASE UNCHANGED vars
  <2>1. LedgersKept'
    BY <1>1 DEF vars, Truth, LedgersKept
  <2> QED
    BY <1>1, <2>1, SameStore DEF vars
<1> QED
  BY <1>1, StoreKeepsTruth, LeaseKeepsTruth, AuditKeepsTruth, OutsideKeepsTruth DEF Next

\* A ready image is at the tail of the log and accounts for every turn in it, no
\* image forgets spending or raises a limit but by a grant, and whoever was told
\* that an operation is applied finds it in the audit: whatever was lost, late,
\* replayed or recovered on the way.
THEOREM ImagesAreTruthful == Spec => []ImageTruthful
<1>1. Truth => ImageTruthful
  BY DEF Truth
<1> QED
  BY InvHolds, TruthInit, TruthStep, <1>1, PTL DEF Spec

-----------------------------------------------------------------------------
(***************************************************************************)
(* The waiters of a budget: no wakeup of BudgetScope::stopped is lost, for *)
(* any number of waiters and of threads that use the ledger.               *)
(*                                                                         *)
(* NoLostWakeup is not inductive by itself.  A task that sleeps while the  *)
(* budget is active has nobody on the way to it; what it needs, for the    *)
(* stop that comes next, is that its waker is where that stop looks for    *)
(* it, or was taken from there by one that has woken it.                   *)
(***************************************************************************)
\* Past register a task can be woken, or is woken.
Armed == \A w \in Waiters : at[w] \in {"check", "pending"} => waker[w] \/ woken[w]

Watched == WaitersTypeOK /\ Armed /\ NoLostWakeup

-----------------------------------------------------------------------------
\* Nobody waits and nothing has stopped.
LEMMA WaitersBegin ==
  ASSUME WaitersInit
  PROVE  Watched
<1>1. list = {w \in Waiters : at[w] \in {"poll", "check", "pending"}}
  BY DEF WaitersInit
<1>2. uses \in [Users -> 0 .. MaxUses]
  BY UsesAssumption DEF WaitersInit
<1>3. WaitersTypeOK
  BY <1>1, <1>2 DEF WaitersInit, WaitersTypeOK
<1> QED
  BY <1>3 DEF WaitersInit, Watched, Armed, NoLostWakeup

\* The steps of a task that waits.
LEMMA WaiterStep ==
  ASSUME Watched, NEW w \in Waiters,
         Enlist(w) \/ Register(w) \/ Check(w) \/ Poll(w) \/ Drop(w)
  PROVE  Watched'
<1> USE DEF Watched, WaitersTypeOK, Armed, NoLostWakeup
<1>1. CASE Enlist(w)
  BY <1>1 DEF Enlist
<1>2. CASE Register(w)
  BY <1>2 DEF Register
<1>3. CASE Check(w)
  <2>1. WaitersTypeOK'
    BY <1>3 DEF Check
  <2>2. Armed'
    BY <1>3 DEF Check
  <2>3. NoLostWakeup'
    BY <1>3 DEF Check
  <2> QED
    BY <2>1, <2>2, <2>3
<1>4. CASE Poll(w)
  BY <1>4 DEF Poll
<1>5. CASE Drop(w)
  BY <1>5 DEF Drop
<1> QED
  BY <1>1, <1>2, <1>3, <1>4, <1>5

\* An operation, and the walk of who saw the stop over the waiters.
LEMMA UserStep ==
  ASSUME Watched, NEW u \in Users,
         Collect(u) \/ Wake(u) \/ \E stops \in BOOLEAN : Use(u, stops)
  PROVE  Watched'
<1> USE UsesAssumption DEF Watched, WaitersTypeOK, Armed, NoLostWakeup
<1>1. ASSUME NEW stops \in BOOLEAN, Use(u, stops) PROVE Watched'
  <2>1. WaitersTypeOK'
    BY <1>1 DEF Use
  <2>2. Armed'
    BY <1>1 DEF Use
  <2>3. NoLostWakeup'
    BY <1>1 DEF Use
  <2> QED
    BY <2>1, <2>2, <2>3
<1>2. CASE Collect(u)
  <2>1. \A w \in Waiters : at[w] = "pending" => w \in list
    OBVIOUS
  <2> QED
    BY <1>2, <2>1 DEF Collect
<1>3. CASE Wake(u)
  <2>1. ASSUME NEW w \in found[u],
               woken' = [woken EXCEPT ![w] = @ \/ waker[w]],
               waker' = [waker EXCEPT ![w] = FALSE],
               found' = [found EXCEPT ![u] = @ \ {w}],
               UNCHANGED <<user, stopped, list, at, uses>>
        PROVE  Watched'
    <3>1. WaitersTypeOK'
      BY <2>1
    <3>2. Armed'
      BY <2>1
    <3>3. NoLostWakeup'
      BY <2>1
    <3> QED
      BY <3>1, <3>2, <3>3
  <2>2. ASSUME user[u] = "wake", found[u] = {}, user' = [user EXCEPT ![u] = "idle"],
               UNCHANGED <<waker, woken, found, stopped, list, at, uses>>
        PROVE  Watched'
    <3>1. WaitersTypeOK' /\ Armed'
      BY <2>2
    <3>2. NoLostWakeup'
      BY <2>2
    <3> QED
      BY <3>1, <3>2
  <2> QED
    BY <1>3, <2>1, <2>2 DEF Wake
<1> QED
  BY <1>1, <1>2, <1>3

\* The invariant holds throughout.
LEMMA WaitersInvariant == WaitersSpec => []Watched
<1>1. WaitersInit => Watched
  BY WaitersBegin
<1>2. Watched /\ [WaitersNext]_waiting => Watched'
  <2> SUFFICES ASSUME Watched, [WaitersNext]_waiting PROVE Watched'
    OBVIOUS
  <2>1. CASE UNCHANGED waiting
    BY <2>1 DEF waiting, Watched, WaitersTypeOK, Armed, NoLostWakeup
  <2> QED
    BY <2>1, WaiterStep, UserStep DEF WaitersNext
<1> QED
  BY <1>1, <1>2, PTL DEF WaitersSpec

\* However many tasks wait and threads stop the budget at once, no task sleeps on
\* in stopped without anybody on the way to wake it.
THEOREM WakeupNotLost == WaitersSpec => []NoLostWakeup
<1>1. Watched => NoLostWakeup
  BY DEF Watched
<1> QED
  BY WaitersInvariant, <1>1, PTL

\* The list of Inner.waiters is exactly the calls of stopped whose future is alive.
THEOREM WaitersTyped == WaitersSpec => []WaitersTypeOK
<1>1. Watched => WaitersTypeOK
  BY DEF Watched
<1> QED
  BY WaitersInvariant, <1>1, PTL

-----------------------------------------------------------------------------
(***************************************************************************)
(* BudgetLedger.  Whole is what every operation of the ledger, and the     *)
(* sampling of the clock before it, preserves.  It has the validation of a *)
(* checkpoint as a part, so that a ledger can be sealed at any time.       *)
(***************************************************************************)
Whole(l) ==
  /\ AccountTyped(l) /\ Valid(l)
  /\ l.run.id = 0 => l.run = NoRun
  /\ \A r \in Attempts : l.reserved[r] = 0

LedgerInv ==
  /\ Whole(account)
  /\ runHeld \in BOOLEAN /\ (runHeld => account.run.id # 0)
  /\ held \subseteq DOMAIN account.pending

\* Conditions on two ledgers.  What was charged and spent still is, and a first
\* stop is still the first.
Follows(l, m) ==
  /\ \A r \in Resources : m.charged[r] >= l.charged[r]
  /\ m.active >= l.active /\ m.cleanup >= l.cleanup
  /\ l.stop # "none" => m.stop = l.stop
  /\ l.run.stop # "none" /\ m.run.id # 0 => m.run.stop = l.run.stop

\* Nothing but the time and the stops changed.
Ticked(l, m) ==
  /\ Follows(l, m)
  /\ m.limits = l.limits /\ m.charged = l.charged /\ m.reserved = l.reserved
  /\ m.pending = l.pending /\ m.run.id = l.run.id
  /\ m.sealed = l.sealed /\ m.frozen = l.frozen /\ m.nextId = l.nextId

\* The reservations are the same, apart from what became of them.
SamePending(l, m) ==
  /\ DOMAIN m.pending = DOMAIN l.pending
  /\ \A i \in DOMAIN l.pending : m.pending[i].amounts = l.pending[i].amounts
                                 /\ (m.pending[i].failed => m.pending[i].started)

\* Only flags changed, and whatever has stopped still has.
Marked(l, m) ==
  /\ m.limits = l.limits /\ m.charged = l.charged /\ m.reserved = l.reserved
  /\ m.used = l.used /\ m.active = l.active /\ m.cleanup = l.cleanup /\ m.nextId = l.nextId
  /\ SamePending(l, m)
  /\ m.run.id = l.run.id /\ m.run.limits = l.run.limits /\ m.run.charged = l.run.charged
  /\ m.run.reserved = l.run.reserved /\ m.run.active = l.run.active
  /\ m.run.cleanup = l.run.cleanup
  /\ (l.run.id = 0 => m.run = l.run)
  /\ (l.stop # "none" => m.stop = l.stop)
  /\ (l.run.stop # "none" => m.run.stop = l.run.stop)

\* The least of two numbers.
LEMMA MinPair ==
  ASSUME NEW a \in Int, NEW b \in Int
  PROVE  Min({a, b}) \in {a, b} /\ Min({a, b}) <= a /\ Min({a, b}) <= b
<1> DEFINE IsMin(x) == x \in {a, b} /\ \A y \in {a, b} : x <= y
<1>1. \E x : IsMin(x)
  <2>1. CASE a <= b
    BY <2>1
  <2>2. CASE b <= a
    BY <2>2
  <2> QED
    BY <2>1, <2>2
<1>2. IsMin(CHOOSE x : IsMin(x))
  <2> HIDE DEF IsMin
  <2> QED
    BY <1>1
<1>3. Min({a, b}) = CHOOSE x : IsMin(x)
  BY DEF Min
<1> QED
  BY <1>2, <1>3

\* The greatest of two numbers.
LEMMA MaxPair ==
  ASSUME NEW a \in Int, NEW b \in Int
  PROVE  Max({a, b}) \in {a, b} /\ Max({a, b}) >= a /\ Max({a, b}) >= b
<1> DEFINE IsMax(x) == x \in {a, b} /\ \A y \in {a, b} : x >= y
<1>1. \E x : IsMax(x)
  <2>1. CASE a <= b
    BY <2>1
  <2>2. CASE b <= a
    BY <2>2
  <2> QED
    BY <2>1, <2>2
<1>2. IsMax(CHOOSE x : IsMax(x))
  <2> HIDE DEF IsMax
  <2> QED
    BY <1>1
<1>3. Max({a, b}) = CHOOSE x : IsMax(x)
  BY DEF Max
<1> QED
  BY <1>2, <1>3

\* A number of reservations has a number of units.
LEMMA UnitsFinite ==
  ASSUME NEW p, DOMAIN p \subseteq 1 .. MaxId, NEW r,
         \A i \in DOMAIN p : p[i].amounts[r] \in 0 .. MaxValue
  PROVE  IsFiniteSet(Units(p, r)) /\ Cardinality(Units(p, r)) \in Nat
<1>1. IsFiniteSet((1 .. MaxId) \X (1 .. MaxValue))
  <2>1. IsFiniteSet(1 .. MaxId) /\ IsFiniteSet(1 .. MaxValue)
    BY WidthsAssumption, FS_Interval
  <2> QED
    BY <2>1, FS_Product
<1>2. Units(p, r) \subseteq (1 .. MaxId) \X (1 .. MaxValue)
  <2> SUFFICES ASSUME NEW u \in Units(p, r) PROVE u \in (1 .. MaxId) \X (1 .. MaxValue)
    OBVIOUS
  <2>1. PICK i \in DOMAIN p : u \in {i} \X (1 .. p[i].amounts[r])
    BY DEF Units
  <2> QED
    BY <2>1, WidthsAssumption
<1> QED
  BY <1>1, <1>2, FS_Subset, FS_CardinalityType

\* A reservation has as many units as it asked for.
LEMMA UnitsOfOne ==
  ASSUME NEW i, NEW n \in Nat
  PROVE  IsFiniteSet({i} \X (1 .. n)) /\ Cardinality({i} \X (1 .. n)) = n
<1>1. IsFiniteSet({i}) /\ Cardinality({i}) = 1
  BY FS_Singleton
<1>2. IsFiniteSet(1 .. n) /\ Cardinality(1 .. n) = n
  BY FS_Interval
<1>3. /\ IsFiniteSet({i} \X (1 .. n))
      /\ Cardinality({i} \X (1 .. n)) = Cardinality({i}) * Cardinality(1 .. n)
  BY <1>1, <1>2, FS_Product
<1> QED
  BY <1>1, <1>2, <1>3

\* The reservations p are those of n and i.
Splits(p, n, i, r) ==
  /\ DOMAIN p \subseteq 1 .. MaxId /\ i \notin DOMAIN n /\ DOMAIN p = DOMAIN n \cup {i}
  /\ \A k \in DOMAIN p : p[k].amounts[r] \in 0 .. MaxValue
  /\ \A k \in DOMAIN n : n[k].amounts[r] = p[k].amounts[r]

\* Their units are those of n and those of i.
LEMMA SumSplit ==
  ASSUME NEW p, NEW n, NEW i, NEW r, Splits(p, n, i, r)
  PROVE  /\ Cardinality(Units(p, r)) = Cardinality(Units(n, r)) + p[i].amounts[r]
         /\ Cardinality(Units(n, r)) \in Nat
<1> DEFINE one == {i} \X (1 .. p[i].amounts[r])
<1> USE DEF Splits
<1>1. IsFiniteSet(Units(n, r)) /\ Cardinality(Units(n, r)) \in Nat
  BY UnitsFinite
<1>2. IsFiniteSet(one) /\ Cardinality(one) = p[i].amounts[r]
  <2>1. p[i].amounts[r] \in Nat
    BY WidthsAssumption
  <2> QED
    BY <2>1, UnitsOfOne
<1>3. Units(p, r) = Units(n, r) \cup one
  BY DEF Units
<1>4. Units(n, r) \cap one = {}
  <2> SUFFICES ASSUME NEW u \in Units(n, r), u \in one PROVE FALSE
    OBVIOUS
  <2>1. PICK k \in DOMAIN n : u \in {k} \X (1 .. n[k].amounts[r])
    BY DEF Units
  <2>2. u[1] = k /\ u[1] = i
    BY <2>1
  <2> QED
    BY <2>2
<1>5. /\ Cardinality(Units(n, r) \cup one)
           = Cardinality(Units(n, r)) + Cardinality(one) - Cardinality(Units(n, r) \cap one)
  <2> HIDE DEF one
  <2> QED
    BY <1>1, <1>2, FS_Union
<1>6. Cardinality(Units(n, r) \cap one) = 0
  BY <1>4, FS_EmptySet
<1>7. p[i].amounts[r] \in Nat
  BY WidthsAssumption
<1> HIDE DEF one
<1> QED
  BY <1>1, <1>2, <1>3, <1>5, <1>6, <1>7

\* No reservation, no units.
LEMMA SumEmpty ==
  ASSUME NEW l, NEW r, DOMAIN l.pending = {}
  PROVE  PendingSum(l, r) = 0
<1>1. Units(l.pending, r) = {}
  BY DEF Units
<1> QED
  BY <1>1, FS_EmptySet DEF PendingSum

\* The sum is that of the amounts.
LEMMA SumSame ==
  ASSUME NEW l, NEW m, SamePending(l, m), NEW r
  PROVE  PendingSum(m, r) = PendingSum(l, r)
<1>1. Units(m.pending, r) = Units(l.pending, r)
  BY DEF Units, SamePending
<1> QED
  BY <1>1 DEF PendingSum

\* A sum is a number.
LEMMA SumTyped ==
  ASSUME NEW l, AccountTyped(l), NEW r \in Resources
  PROVE  PendingSum(l, r) \in Nat
<1>1. \A i \in DOMAIN l.pending : l.pending[i].amounts[r] \in 0 .. MaxValue
  BY RequestsAssumption DEF AccountTyped, Pending, Amounts
<1>2. DOMAIN l.pending \subseteq 1 .. MaxId
  BY DEF AccountTyped
<1> HIDE DEF PendingSum
<1> QED
  BY <1>1, <1>2, UnitsFinite DEF PendingSum

\* m has the reservations of l, and i.
Adds(l, m, i) ==
  /\ i \notin DOMAIN l.pending /\ DOMAIN m.pending = DOMAIN l.pending \cup {i}
  /\ \A k \in DOMAIN l.pending : l.pending[k].amounts = m.pending[k].amounts

\* One more reservation, one more amount.
LEMMA SumMore ==
  ASSUME NEW l, NEW m, NEW i, Adds(l, m, i), AccountTyped(m), NEW r \in Resources
  PROVE  PendingSum(m, r) = PendingSum(l, r) + m.pending[i].amounts[r]
<1> USE DEF Adds
<1> DEFINE p == m.pending
           n == l.pending
<1>1. \A k \in DOMAIN p : p[k].amounts[r] \in 0 .. MaxValue
  BY RequestsAssumption DEF AccountTyped, Pending, Amounts
<1>2. \A k \in DOMAIN n : n[k].amounts[r] = p[k].amounts[r]
  OBVIOUS
<1>3. DOMAIN p \subseteq 1 .. MaxId /\ i \notin DOMAIN n /\ DOMAIN p = DOMAIN n \cup {i}
  BY DEF AccountTyped
<1>4. PendingSum(m, r) = Cardinality(Units(p, r)) /\ PendingSum(l, r) = Cardinality(Units(n, r))
  BY DEF PendingSum
<1> HIDE DEF p, n
<1>5. Splits(p, n, i, r)
  BY <1>1, <1>2, <1>3 DEF Splits
<1>6. Cardinality(Units(p, r)) = Cardinality(Units(n, r)) + p[i].amounts[r]
  BY <1>5, SumSplit
<1> QED
  BY <1>4, <1>6 DEF p

\* Flags and stops leave a ledger whole.
LEMMA MarkedWhole ==
  ASSUME NEW l, Whole(l), NEW m, AccountTyped(m), Marked(l, m)
  PROVE  Whole(m) /\ Follows(l, m)
<1>1. \A r : PendingSum(m, r) = PendingSum(l, r)
  BY SumSame DEF Marked
<1>2. (Stopped(l) => Stopped(m)) /\ DOMAIN m.pending = DOMAIN l.pending
  BY DEF Marked, Stopped, SamePending
<1>3. ValidTask(l) => ValidTask(m)
  BY <1>1, <1>2 DEF Marked, SamePending, ValidTask
<1>4. ValidRun(l) => ValidRun(m)
  BY <1>1, <1>2 DEF Marked, ValidRun
<1>5. Valid(m)
  BY <1>2, <1>3, <1>4 DEF Whole, Valid, Marked
<1>6. (m.run.id = 0 => m.run = NoRun) /\ \A r \in Attempts : m.reserved[r] = 0
  BY DEF Whole, Marked
<1>7. Follows(l, m)
  <2>1. \A r \in Resources : l.charged[r] \in Int
    BY WidthsAssumption DEF Whole, AccountTyped, Amounts
  <2>2. l.active \in Int /\ l.cleanup \in Int
    BY WidthsAssumption DEF Whole, AccountTyped
  <2> QED
    BY <2>1, <2>2 DEF Marked, Follows
<1> QED
  BY <1>5, <1>6, <1>7 DEF Whole

\* A stop is a mark.
LEMMA StopMarks ==
  ASSUME NEW l, AccountTyped(l), NEW reason \in Reasons
  PROVE  /\ AccountTyped(StopWith(l, reason))
         /\ StopWith(l, reason).stop # "none"
         /\ l.stop # "none" => StopWith(l, reason).stop = l.stop
         /\ StopWith(l, reason) = [l EXCEPT !.stop = StopWith(l, reason).stop]
<1>1. StopWith(l, reason) = [l EXCEPT !.stop = IF l.stop = "none" THEN reason ELSE l.stop]
  BY DEF StopWith
<1> QED
  BY <1>1 DEF AccountTyped, Reasons

\* A ledger whose stops alone changed is marked.
LEMMA StoppedIsMarked ==
  ASSUME NEW l, Whole(l), NEW m, AccountTyped(m),
         m.limits = l.limits, m.charged = l.charged, m.reserved = l.reserved,
         m.used = l.used, m.active = l.active, m.cleanup = l.cleanup, m.nextId = l.nextId,
         m.pending = l.pending, m.run = l.run, l.stop # "none" => m.stop = l.stop
  PROVE  Marked(l, m)
<1>1. SamePending(l, m)
  BY DEF SamePending, Whole, Valid, ValidTask
<1> QED
  BY <1>1 DEF Marked

\* A whole ledger that stops is whole.
LEMMA StopWhole ==
  ASSUME NEW l, Whole(l), NEW reason \in Reasons
  PROVE  /\ Whole(StopWith(l, reason)) /\ Ticked(l, StopWith(l, reason))
         /\ StopWith(l, reason).run = l.run /\ Marked(l, StopWith(l, reason))
<1> DEFINE m == StopWith(l, reason)
<1>1. AccountTyped(l)
  BY DEF Whole
<1>2. /\ AccountTyped(m) /\ m = [l EXCEPT !.stop = m.stop]
      /\ l.stop # "none" => m.stop = l.stop
  BY <1>1, StopMarks
<1> HIDE DEF m
<1>3. /\ m.limits = l.limits /\ m.charged = l.charged /\ m.reserved = l.reserved
      /\ m.used = l.used /\ m.active = l.active /\ m.cleanup = l.cleanup /\ m.nextId = l.nextId
      /\ m.pending = l.pending /\ m.run = l.run /\ m.sealed = l.sealed /\ m.frozen = l.frozen
  BY <1>1, <1>2 DEF AccountTyped
<1>4. Marked(l, m)
  BY <1>2, <1>3, StoppedIsMarked
<1>5. Whole(m) /\ Follows(l, m)
  BY <1>2, <1>4, MarkedWhole
<1> QED
  BY <1>3, <1>4, <1>5 DEF Ticked, m


\* What Timed may do with a whole ledger whose run is not over: some time is spent
\* of the task and of the run, never beyond a limit that still holds.
Spends(l, m, active, cleanup) ==
  /\ m \in [sealed : {l.sealed}, frozen : {l.frozen}, limits : {l.limits},
            stop : Reasons \cup {"none"}, charged : {l.charged}, reserved : {l.reserved},
            used : {l.used}, active : {l.active + active}, cleanup : {l.cleanup + cleanup},
            run : [id : {l.run.id}, open : {l.run.open}, cleaning : {l.run.cleaning},
                   stop : Reasons \cup {"none"}, limits : {l.run.limits},
                   charged : {l.run.charged}, reserved : {l.run.reserved},
                   active : {l.run.active + active}, cleanup : {l.run.cleanup + cleanup}],
            pending : {l.pending}, nextId : {l.nextId}]
  /\ (l.stop # "none" => m.stop = l.stop) /\ (l.run.stop # "none" => m.run.stop = l.run.stop)
  /\ active \in Nat /\ cleanup \in Nat
  /\ l.cleanup + cleanup <= MaxValue /\ l.run.cleanup + cleanup <= MaxValue
  /\ active # 0 => ~Stopped(l) /\ l.active + active <= l.limits.time
                   /\ l.run.active + active <= l.run.limits.time

\* Whatever is measured, Timed spends it.
LEMMA TimedSpends ==
  ASSUME NEW l, Whole(l), l.run.id # 0, NEW e \in Nat
  PROVE  \E active, cleanup : Spends(l, Timed(l, e), active, cleanup)
<1> DEFINE taskLeft == Max({0, l.limits.time - l.active})
           runLeft == Max({0, l.run.limits.time - l.run.active})
           left == Min({taskLeft, runLeft})
           counting == ~Stopped(l) /\ ~l.run.cleaning
           active == IF counting THEN Min({e, left}) ELSE 0
           cleanup == e - active
           spent == [l EXCEPT !.active = @ + active, !.run.active = @ + active]
           timed == IF ~(counting /\ e >= left) THEN spent
                    ELSE IF taskLeft <= runLeft THEN [spent EXCEPT !.stop = "time"]
                    ELSE [spent EXCEPT !.run.stop = "time"]
           over == ~(l.cleanup + cleanup <= MaxValue /\ l.run.cleanup + cleanup <= MaxValue)
<1>1. /\ AccountTyped(l)
      /\ l.active \in Nat /\ l.run.active \in Nat /\ l.cleanup \in Nat /\ l.run.cleanup \in Nat
      /\ l.limits.time \in Nat /\ l.run.limits.time \in Nat
      /\ l.active <= MaxValue /\ l.cleanup <= MaxValue /\ l.run.cleanup <= MaxValue
  BY WidthsAssumption DEF Whole, AccountTyped, RunType, AnyLimit
<1>2. /\ taskLeft \in Nat /\ (taskLeft = 0 \/ taskLeft = l.limits.time - l.active)
      /\ runLeft \in Nat /\ (runLeft = 0 \/ runLeft = l.run.limits.time - l.run.active)
  <2>1. /\ l.limits.time - l.active \in Int /\ l.run.limits.time - l.run.active \in Int
    BY <1>1
  <2>2. \A x \in Int : Max({0, x}) \in {0, x} /\ Max({0, x}) >= 0
    BY MaxPair
  <2>3. \A x \in Int : Max({0, x}) \in Nat /\ (Max({0, x}) = 0 \/ Max({0, x}) = x)
    BY <2>2
  <2> QED
    BY <2>1, <2>3, Zenon
<1>3. left \in Nat /\ left <= taskLeft /\ left <= runLeft
  <2> HIDE DEF taskLeft, runLeft
  <2>1. taskLeft \in Int /\ runLeft \in Int
    BY <1>2
  <2>2. left \in {taskLeft, runLeft} /\ left <= taskLeft /\ left <= runLeft
    BY <2>1, MinPair, Zenon
  <2> HIDE DEF left
  <2> QED
    BY <1>2, <2>2
<1>4. ~Stopped(l) => l.active <= l.limits.time /\ l.run.active <= l.run.limits.time
  BY DEF Whole, Valid, ValidTask, ValidRun, Stopped
<1>5. /\ active \in Nat /\ active <= e /\ active <= left
      /\ active # 0 => counting
  <2> HIDE DEF left
  <2>1. e \in Int /\ left \in Int
    BY <1>3
  <2>2. Min({e, left}) \in {e, left} /\ Min({e, left}) <= e /\ Min({e, left}) <= left
    BY <2>1, MinPair, Zenon
  <2>3. Min({e, left}) \in Nat
    BY <1>3, <2>2
  <2> HIDE DEF counting
  <2>4. active = IF counting THEN Min({e, left}) ELSE 0
    OBVIOUS
  <2> HIDE DEF active
  <2>5. CASE counting
    BY <2>2, <2>3, <2>4, <2>5
  <2>6. CASE ~counting
    BY <1>3, <2>4, <2>6
  <2> QED
    BY <2>5, <2>6
<1>6. active # 0 => ~Stopped(l) /\ l.active + active <= l.limits.time
                   /\ l.run.active + active <= l.run.limits.time
  <2> SUFFICES ASSUME active # 0
               PROVE  ~Stopped(l) /\ l.active + active <= l.limits.time
                      /\ l.run.active + active <= l.run.limits.time
    OBVIOUS
  <2>1. ~Stopped(l)
    BY <1>5
  <2> HIDE DEF active, left, taskLeft, runLeft
  <2> QED
    BY <1>1, <1>2, <1>3, <1>4, <1>5, <2>1
<1>7. cleanup \in Nat
  <2> HIDE DEF active
  <2> QED
    BY <1>5
<1>8. counting => l.stop = "none" /\ l.run.stop = "none"
  BY DEF Stopped
<1>9. Timed(l, e) = IF over THEN StopWith(timed, "overflow")
                    ELSE [timed EXCEPT !.cleanup = @ + cleanup, !.run.cleanup = @ + cleanup]
  BY DEF Timed
<1> HIDE DEF active, left, taskLeft, runLeft, counting
\* From here on records only.
<1> DEFINE Shape(stops, runStops) ==
             [sealed : {l.sealed}, frozen : {l.frozen}, limits : {l.limits},
              stop : stops, charged : {l.charged}, reserved : {l.reserved},
              used : {l.used}, active : {l.active + active}, cleanup : {l.cleanup},
              run : [id : {l.run.id}, open : {l.run.open}, cleaning : {l.run.cleaning},
                     stop : runStops, limits : {l.run.limits},
                     charged : {l.run.charged}, reserved : {l.run.reserved},
                     active : {l.run.active + active}, cleanup : {l.run.cleanup}],
              pending : {l.pending}, nextId : {l.nextId}]
<1>10. spent \in Shape({l.stop}, {l.run.stop})
  BY <1>1 DEF AccountTyped, RunType
<1>11. /\ timed \in Shape(Reasons \cup {"none"}, Reasons \cup {"none"})
       /\ l.stop # "none" => timed.stop = l.stop
       /\ l.run.stop # "none" => timed.run.stop = l.run.stop
  <2>1. l.stop \in Reasons \cup {"none"} /\ l.run.stop \in Reasons \cup {"none"}
    BY <1>1 DEF AccountTyped, RunType
  <2> HIDE DEF spent
  <2>2. CASE timed = spent
    BY <1>10, <2>1, <2>2
  <2>3. CASE counting /\ timed = [spent EXCEPT !.stop = "time"]
    BY <1>8, <1>10, <2>1, <2>3 DEF Reasons
  <2>4. CASE counting /\ timed = [spent EXCEPT !.run.stop = "time"]
    BY <1>8, <1>10, <2>1, <2>4 DEF Reasons
  <2> QED
    BY <2>2, <2>3, <2>4
<1> HIDE DEF timed, spent, cleanup
<1>12. CASE over
  <2>1. StopWith(timed, "overflow")
          = [timed EXCEPT !.stop = IF timed.stop = "none" THEN "overflow" ELSE timed.stop]
    BY DEF StopWith
  <2> HIDE DEF over
  <2>2. Spends(l, Timed(l, e), active, 0)
    BY <1>1, <1>5, <1>6, <1>9, <1>11, <1>12, <2>1 DEF Spends, Reasons
  <2> QED
    BY <2>2
<1>13. CASE ~over
  <2>1. Timed(l, e) = [timed EXCEPT !.cleanup = @ + cleanup, !.run.cleanup = @ + cleanup]
    BY <1>9, <1>13
  <2> DEFINE m == [timed EXCEPT !.cleanup = @ + cleanup, !.run.cleanup = @ + cleanup]
  <2>2. m \in [sealed : {l.sealed}, frozen : {l.frozen}, limits : {l.limits},
               stop : Reasons \cup {"none"}, charged : {l.charged}, reserved : {l.reserved},
               used : {l.used}, active : {l.active + active}, cleanup : {l.cleanup + cleanup},
               run : [id : {l.run.id}, open : {l.run.open}, cleaning : {l.run.cleaning},
                      stop : Reasons \cup {"none"}, limits : {l.run.limits},
                      charged : {l.run.charged}, reserved : {l.run.reserved},
                      active : {l.run.active + active}, cleanup : {l.run.cleanup + cleanup}],
               pending : {l.pending}, nextId : {l.nextId}]
    BY <1>11
  <2>3. m.stop = timed.stop /\ m.run.stop = timed.run.stop
    BY <1>11
  <2> HIDE DEF m
  <2>4. Spends(l, m, active, cleanup)
    BY <1>5, <1>6, <1>7, <1>11, <1>13, <2>2, <2>3 DEF Spends
  <2> QED
    BY <2>1, <2>4 DEF m
<1> QED
  BY <1>12, <1>13

\* Spent time leaves a ledger whole.
LEMMA SpendsWhole ==
  ASSUME NEW l, Whole(l), l.run.id # 0, NEW m, NEW active, NEW cleanup,
         Spends(l, m, active, cleanup)
  PROVE  Whole(m) /\ Ticked(l, m)
<1>1. /\ AccountTyped(l) /\ active \in Nat /\ cleanup \in Nat
      /\ l.active \in Nat /\ l.run.active \in Nat /\ l.cleanup \in Nat /\ l.run.cleanup \in Nat
      /\ l.active <= MaxValue /\ l.run.active <= MaxValue
      /\ l.limits.time \in Nat /\ l.limits.time <= MaxValue
      /\ l.run.limits.time \in Nat /\ l.run.limits.time <= MaxValue
  BY WidthsAssumption DEF Whole, AccountTyped, RunType, AnyLimit, Spends
<1>2. /\ m.sealed = l.sealed /\ m.frozen = l.frozen /\ m.limits = l.limits
      /\ m.charged = l.charged /\ m.reserved = l.reserved /\ m.used = l.used
      /\ m.pending = l.pending /\ m.nextId = l.nextId
      /\ m.active = l.active + active /\ m.cleanup = l.cleanup + cleanup
      /\ m.run.id = l.run.id /\ m.run.open = l.run.open /\ m.run.cleaning = l.run.cleaning
      /\ m.run.limits = l.run.limits /\ m.run.charged = l.run.charged
      /\ m.run.reserved = l.run.reserved
      /\ m.run.active = l.run.active + active /\ m.run.cleanup = l.run.cleanup + cleanup
      /\ m.stop \in Reasons \cup {"none"} /\ m.run.stop \in Reasons \cup {"none"}
  BY <1>1 DEF Spends, AccountTyped, RunType
<1>3. m.active \in 0 .. MaxValue /\ m.run.active \in 0 .. MaxValue
  BY <1>1, <1>2, WidthsAssumption DEF Spends
<1>4. m.cleanup \in 0 .. MaxValue /\ m.run.cleanup \in 0 .. MaxValue
  BY <1>1, <1>2, WidthsAssumption DEF Spends
<1>5. AccountTyped(m)
  <2>1. m.run \in RunType
    BY <1>1, <1>2, <1>3, <1>4 DEF AccountTyped, RunType, Spends
  <2> QED
    BY <1>1, <1>2, <1>3, <1>4, <2>1 DEF AccountTyped, Spends
<1>6. \A r : PendingSum(m, r) = PendingSum(l, r)
  BY <1>2 DEF PendingSum
<1>7. /\ l.stop # "none" => m.stop = l.stop
      /\ l.run.stop # "none" => m.run.stop = l.run.stop
      /\ active # 0 => ~Stopped(l) /\ m.active <= m.limits.time
                       /\ m.run.active <= m.run.limits.time
  BY <1>2 DEF Spends
<1>8. ValidTask(m)
  <2>1. l.nextId # 0
    BY <1>1 DEF Whole, Valid, ValidRun, AccountTyped
  <2>2. m.stop = "none" => m.active <= m.limits.time
    BY <1>1, <1>2, <1>7 DEF Whole, Valid, ValidTask
  <2>3. m.stop = "none" => \A r \in Resources : Fits(m.charged[r], m.reserved[r], 0, m.limits.res[r])
    BY <1>2, <1>7 DEF Whole, Valid, ValidTask
  <2> QED
    BY <1>2, <1>6, <2>1, <2>2, <2>3 DEF Whole, Valid, ValidTask
<1>9. ValidRun(m)
  <2>1. m.run.active <= m.active /\ m.run.cleanup <= m.cleanup
    BY <1>1, <1>2 DEF Whole, Valid, ValidRun
  <2>2. ~Stopped(m) => ~Stopped(l)
    BY <1>7 DEF Stopped
  <2>3. ~Stopped(m) => m.run.active <= m.run.limits.time
    BY <1>1, <1>2, <1>7, <2>2 DEF Whole, Valid, ValidRun
  <2> QED
    BY <1>2, <1>6, <2>1, <2>2, <2>3 DEF Whole, Valid, ValidRun
<1>10. Whole(m)
  BY <1>2, <1>5, <1>8, <1>9 DEF Whole, Valid
<1>11. Ticked(l, m)
  <2>1. \A r \in Resources : l.charged[r] \in Int
    BY <1>1, WidthsAssumption DEF AccountTyped, Amounts
  <2>2. m.active >= l.active /\ m.cleanup >= l.cleanup
    BY <1>1, <1>2
  <2> QED
    BY <1>2, <1>7, <2>1, <2>2 DEF Ticked, Follows
<1> QED
  BY <1>10, <1>11

\* A ledger follows itself.
LEMMA TicksNot ==
  ASSUME NEW l, Whole(l)
  PROVE  Ticked(l, l)
<1>1. \A r \in Resources : l.charged[r] \in Int
  BY WidthsAssumption DEF Whole, AccountTyped, Amounts
<1>2. l.active \in Int /\ l.cleanup \in Int
  BY WidthsAssumption DEF Whole, AccountTyped
<1> QED
  BY <1>1, <1>2 DEF Ticked, Follows

\* The clock leaves a ledger whole, wherever it went.
LEMMA TickWhole ==
  ASSUME NEW l, Whole(l), NEW e \in Elapsed
  PROVE  Whole(Tick(l, e)) /\ Ticked(l, Tick(l, e))
<1>1. e \in Int
  BY ElapsedAssumption
<1>2. CASE Tick(l, e) = l
  BY <1>2, TicksNot
<1>3. CASE Tick(l, e) = StopWith(l, "clock")
  <2>1. "clock" \in Reasons
    BY DEF Reasons
  <2> QED
    BY <1>3, <2>1, StopWhole
<1>4. CASE Tick(l, e) = Timed(l, e) /\ e >= 0 /\ l.run.id # 0
  <2>1. e \in Nat
    BY <1>1, <1>4
  <2>2. PICK active, cleanup : Spends(l, Timed(l, e), active, cleanup)
    BY <1>4, <2>1, TimedSpends
  <2> QED
    BY <1>4, <2>2, SpendsWhole
<1>5. \/ Tick(l, e) = l \/ Tick(l, e) = StopWith(l, "clock")
      \/ Tick(l, e) = Timed(l, e) /\ e >= 0 /\ l.run.id # 0
  BY <1>1 DEF Tick
<1> QED
  BY <1>2, <1>3, <1>4, <1>5

-----------------------------------------------------------------------------
\* What a step of the ledger is to leave behind.
Outcome == LedgerInv' /\ Follows(account, account') /\ StartedIsPaid

\* The clock and what follows it are one step.
LEMMA Outcomes ==
  ASSUME LedgerInv, NEW e \in Elapsed,
         Whole(account'), Follows(Tick(account, e), account'), StartedIsPaid,
         runHeld' \in BOOLEAN, runHeld' => account'.run.id # 0,
         held' \subseteq DOMAIN account'.pending
  PROVE  Outcome
<1> DEFINE l == Tick(account, e)
<1>1. Whole(l) /\ Ticked(account, l)
  BY TickWhole DEF LedgerInv
<1>2. LedgerInv'
  BY DEF LedgerInv, Whole, AccountTyped, Valid, ValidTask, ValidRun, PendingSum, Stopped
<1>3. /\ \A r \in Resources : account.charged[r] \in Int /\ account'.charged[r] \in Int
      /\ account.active \in Int /\ account'.active \in Int
      /\ account.cleanup \in Int /\ account'.cleanup \in Int
  BY WidthsAssumption DEF LedgerInv, Whole, AccountTyped, Amounts
<1>4. \A r \in Resources : l.charged[r] \in Int
  BY <1>1, WidthsAssumption DEF Whole, AccountTyped, Amounts
<1>5. l.active \in Int /\ l.cleanup \in Int
  BY <1>1, WidthsAssumption DEF Whole, AccountTyped
<1>6. account.run.stop # "none" => l.run.id # 0
  BY <1>1 DEF LedgerInv, Whole, NoRun, Ticked
<1> HIDE DEF l
<1>7. Follows(account, account')
  BY <1>1, <1>3, <1>4, <1>5, <1>6 DEF Ticked, Follows, l
<1> QED
  BY <1>2, <1>7 DEF Outcome

\* A step that marks the ledger.
LEMMA Marking ==
  ASSUME LedgerInv, NEW e \in Elapsed,
         AccountTyped(account'), Marked(Tick(account, e), account'),
         runHeld' \in {FALSE, runHeld}, held' \subseteq held
  PROVE  Outcome
<1> DEFINE l == Tick(account, e)
<1>1. Whole(l) /\ Ticked(account, l)
  BY TickWhole DEF LedgerInv
<1>2. Whole(account') /\ Follows(l, account')
  BY <1>1, MarkedWhole
<1>3. DOMAIN account'.pending = DOMAIN account.pending /\ account'.run.id = account.run.id
  BY <1>1 DEF Ticked, Marked, SamePending
<1>4. StartedIsPaid
  BY <1>3 DEF StartedIsPaid
<1>5. runHeld' \in BOOLEAN /\ (runHeld' => account'.run.id # 0)
  <2>1. CASE runHeld' = FALSE
    BY <2>1
  <2>2. CASE runHeld' = runHeld
    BY <1>3, <2>2 DEF LedgerInv
  <2> QED
    BY <2>1, <2>2
<1>6. held' \subseteq DOMAIN account'.pending
  BY <1>3 DEF LedgerInv
<1> QED
  BY <1>2, <1>4, <1>5, <1>6, Outcomes

\* Marks add up.
LEMMA MarksAdd ==
  ASSUME NEW l, NEW m, NEW n, Marked(l, m), Marked(m, n)
  PROVE  Marked(l, n)
<1>1. SamePending(l, n)
  BY DEF Marked, SamePending
<1> QED
  BY <1>1 DEF Marked

\* The abandonment of a reservation is a mark.
LEMMA AbandonMarks ==
  ASSUME NEW l, Whole(l), NEW i \in DOMAIN l.pending
  PROVE  AccountTyped(Abandon(l, i)) /\ Marked(l, Abandon(l, i))
<1> DEFINE m == [l EXCEPT !.pending[i].abandoned = TRUE]
<1>1. AccountTyped(l)
  BY DEF Whole
<1>2. AccountTyped(m) /\ Marked(l, m)
  <2>1. m.pending = [l.pending EXCEPT ![i].abandoned = TRUE]
    BY <1>1 DEF AccountTyped
  <2>2. l.pending \in [DOMAIN l.pending -> Pending]
    BY <1>1 DEF AccountTyped
  <2>3. m.pending \in [DOMAIN l.pending -> Pending] /\ SamePending(l, m)
    <3>1. m.pending \in [DOMAIN l.pending -> Pending]
      <4>1. [l.pending[i] EXCEPT !.abandoned = TRUE] \in Pending
        BY <2>2 DEF Pending
      <4>2. m.pending = [l.pending EXCEPT ![i] = [l.pending[i] EXCEPT !.abandoned = TRUE]]
        BY <2>1
      <4> HIDE DEF m
      <4> QED
        BY <2>2, <4>1, <4>2
    <3>2. \A k \in DOMAIN l.pending : /\ m.pending[k].amounts = l.pending[k].amounts
                                      /\ m.pending[k].failed = l.pending[k].failed
                                      /\ m.pending[k].started = l.pending[k].started
      BY <2>1, <2>2 DEF Pending
    <3> QED
      BY <3>1, <3>2 DEF SamePending, Whole, Valid, ValidTask
  <2>4. AccountTyped(m)
    BY <1>1, <2>1, <2>3 DEF AccountTyped
  <2> QED
    BY <1>1, <2>3, <2>4 DEF AccountTyped, Marked
<1>3. Whole(m)
  BY <1>2, MarkedWhole
<1>4. "reservation_abandoned" \in Reasons
  BY DEF Reasons
<1>5. Whole(StopWith(m, "reservation_abandoned")) /\ Marked(m, StopWith(m, "reservation_abandoned"))
  BY <1>3, <1>4, StopWhole
<1>6. Marked(l, l)
  BY DEF Marked, SamePending, Whole, Valid, ValidTask
<1> HIDE DEF m
<1>7. Marked(l, StopWith(m, "reservation_abandoned"))
  BY <1>2, <1>5, MarksAdd
<1> QED
  BY <1>1, <1>5, <1>6, <1>7 DEF Abandon, Whole, m

\* The operations that only mark the ledger.
LEMMA ObserveStep == ASSUME LedgerInv, NEW e \in Elapsed, Observe(e) PROVE Outcome
<1>1. Whole(Tick(account, e))
  BY TickWhole DEF LedgerInv
<1>2. Marked(Tick(account, e), Tick(account, e))
  BY <1>1 DEF Marked, SamePending, Whole, Valid, ValidTask
<1> QED
  BY <1>1, <1>2, Marking DEF Observe, Whole, LedgerInv

\* The run closes: flags of its own.
LEMMA RunFlags ==
  ASSUME NEW l, Whole(l), NEW m, l.run.id # 0 \/ m = [l EXCEPT !.sealed = TRUE],
         m \in {[l EXCEPT !.run.open = FALSE], [l EXCEPT !.run.cleaning = TRUE]}
               \cup {[l EXCEPT !.run.stop = s] : s \in {t \in Reasons : l.run.stop = "none"}}
               \cup {[l EXCEPT !.stop = s] : s \in {t \in Reasons : l.stop = "none"}}
               \cup {[l EXCEPT !.sealed = TRUE]}
  PROVE  AccountTyped(m) /\ Marked(l, m)
<1>1. AccountTyped(l)
  BY DEF Whole
<1>2. CASE m = [l EXCEPT !.run.open = FALSE]
  <2>1. AccountTyped(m)
    BY <1>1, <1>2 DEF AccountTyped, RunType
  <2>2. m.pending = l.pending
    BY <1>1, <1>2 DEF AccountTyped
  <2> QED
    BY <1>1, <1>2, <2>1, <2>2 DEF AccountTyped, RunType, Marked, SamePending, Whole, Valid, ValidTask
<1>3. CASE m = [l EXCEPT !.run.cleaning = TRUE]
  <2>1. AccountTyped(m)
    BY <1>1, <1>3 DEF AccountTyped, RunType
  <2>2. m.pending = l.pending
    BY <1>1, <1>3 DEF AccountTyped
  <2> QED
    BY <1>1, <1>3, <2>1, <2>2 DEF AccountTyped, RunType, Marked, SamePending, Whole, Valid, ValidTask
<1>4. ASSUME NEW s \in Reasons, l.run.stop = "none", m = [l EXCEPT !.run.stop = s]
      PROVE  AccountTyped(m) /\ Marked(l, m)
  <2>1. AccountTyped(m)
    BY <1>1, <1>4 DEF AccountTyped, RunType
  <2>2. m.pending = l.pending
    BY <1>1, <1>4 DEF AccountTyped
  <2> QED
    BY <1>1, <1>4, <2>1, <2>2 DEF AccountTyped, RunType, Marked, SamePending, Whole, Valid, ValidTask
<1>5. ASSUME NEW s \in Reasons, l.stop = "none", m = [l EXCEPT !.stop = s]
      PROVE  AccountTyped(m) /\ Marked(l, m)
  <2>1. AccountTyped(m)
    BY <1>1, <1>5 DEF AccountTyped
  <2>2. m.pending = l.pending
    BY <1>1, <1>5 DEF AccountTyped
  <2> QED
    BY <1>1, <1>5, <2>1, <2>2 DEF AccountTyped, Marked, SamePending, Whole, Valid, ValidTask
<1>6. CASE m = [l EXCEPT !.sealed = TRUE]
  <2>1. AccountTyped(m)
    BY <1>1, <1>6 DEF AccountTyped
  <2>2. m.pending = l.pending
    BY <1>1, <1>6 DEF AccountTyped
  <2> QED
    BY <1>1, <1>6, <2>1, <2>2 DEF AccountTyped, Marked, SamePending, Whole, Valid, ValidTask
<1> QED
  BY <1>2, <1>3, <1>4, <1>5, <1>6

\* The run closes, by a report or because it is dropped.
LEMMA PrepareReportStep == ASSUME LedgerInv, NEW e \in Elapsed, PrepareReport(e) PROVE Outcome
<1> DEFINE l == Tick(account, e)
<1>1. Whole(l)
  BY TickWhole DEF LedgerInv
<1>2. l.run.id # 0 /\ account' = [l EXCEPT !.run.open = FALSE] /\ UNCHANGED <<runHeld, held>>
  BY DEF PrepareReport, RunOpen
<1>3. AccountTyped(account') /\ Marked(l, account')
  BY <1>1, <1>2, RunFlags
<1> QED
  BY <1>2, <1>3, Marking

\* A run that is dropped unfinished stops its task.
LEMMA DropRunStep == ASSUME LedgerInv, NEW e \in Elapsed, DropRun(e) PROVE Outcome
<1> DEFINE l == Tick(account, e)
           m == [l EXCEPT !.run.open = FALSE]
<1>1. Whole(l) /\ l.run.id # 0
  BY TickWhole DEF LedgerInv, DropRun, Ticked
<1>2. AccountTyped(m) /\ Marked(l, m)
  BY <1>1, RunFlags
<1>3. Whole(m) /\ "run_abandoned" \in Reasons
  BY <1>1, <1>2, MarkedWhole DEF Reasons
<1>4. /\ AccountTyped(StopWith(m, "run_abandoned")) /\ Marked(m, StopWith(m, "run_abandoned"))
  BY <1>3, StopWhole DEF Whole
<1>5. Marked(l, StopWith(m, "run_abandoned"))
  BY <1>2, <1>4, MarksAdd
<1>6. AccountTyped(l) /\ Marked(l, l)
  BY <1>1 DEF Whole, Marked, SamePending, Valid, ValidTask
<1>7. AccountTyped(account') /\ Marked(l, account')
  BY <1>4, <1>5, <1>6 DEF DropRun
<1>8. runHeld' \in {FALSE, runHeld} /\ held' \subseteq held
  BY DEF DropRun
<1> QED
  BY <1>7, <1>8, Marking

\* A deadline that expires stops the task or its run.
LEMMA ExpireStep == ASSUME LedgerInv, NEW e \in Elapsed, Expire(e) PROVE Outcome
<1> DEFINE l == Tick(account, e)
<1>1. Whole(l)
  BY TickWhole DEF LedgerInv
<1>2. /\ l.run.id # 0 /\ l.stop = "none" /\ l.run.stop = "none"
      /\ account' \in {[l EXCEPT !.stop = "time"], [l EXCEPT !.run.stop = "time"]}
      /\ UNCHANGED <<runHeld, held>>
  BY DEF Expire, RunOpen, Stopped
<1>3. "time" \in Reasons
  BY DEF Reasons
<1> HIDE DEF l
<1>4. AccountTyped(account') /\ Marked(l, account')
  <2>1. CASE account' = [l EXCEPT !.stop = "time"]
    BY <1>1, <1>2, <1>3, <2>1, RunFlags
  <2>2. CASE account' = [l EXCEPT !.run.stop = "time"]
    BY <1>1, <1>2, <1>3, <2>2, RunFlags
  <2> QED
    BY <1>2, <2>1, <2>2
<1> QED
  BY <1>2, <1>4, Marking DEF l

\* A run is stopped on request.
LEMMA StopRunStep == ASSUME LedgerInv, NEW e \in Elapsed, StopRun(e) PROVE Outcome
<1> DEFINE l == Tick(account, e)
<1>1. Whole(l) /\ "requested" \in Reasons
  BY TickWhole DEF LedgerInv, Reasons
<1>2. /\ l.run.id # 0 /\ l.run.stop = "none"
      /\ account' = [l EXCEPT !.run.stop = "requested"] /\ UNCHANGED <<runHeld, held>>
  BY DEF StopRun, RunOpen
<1> HIDE DEF l
<1>3. AccountTyped(account') /\ Marked(l, account')
  BY <1>1, <1>2, RunFlags
<1> QED
  BY <1>2, <1>3, Marking DEF l

\* The time of a cleanup is not active time.
LEMMA BeginCleanupStep == ASSUME LedgerInv, NEW e \in Elapsed, BeginCleanup(e) PROVE Outcome
<1> DEFINE l == Tick(account, e)
<1>1. Whole(l)
  BY TickWhole DEF LedgerInv
<1>2. l.run.id # 0 /\ account' = [l EXCEPT !.run.cleaning = TRUE] /\ UNCHANGED <<runHeld, held>>
  BY DEF BeginCleanup, RunOpen
<1>3. AccountTyped(account') /\ Marked(l, account')
  BY <1>1, <1>2, RunFlags
<1> QED
  BY <1>2, <1>3, Marking

\* A sealed ledger is what it was.
LEMMA SealStep == ASSUME LedgerInv, NEW e \in Elapsed, Seal(e) PROVE Outcome
<1> DEFINE l == Tick(account, e)
<1>1. Whole(l)
  BY TickWhole DEF LedgerInv
<1>2. account' = [l EXCEPT !.sealed = TRUE] /\ UNCHANGED <<runHeld, held>>
  BY DEF Seal
<1>3. AccountTyped(account') /\ Marked(l, account')
  BY <1>1, <1>2, RunFlags
<1> QED
  BY <1>2, <1>3, Marking

\* Work begins.
LEMMA MarkStartedStep ==
  ASSUME LedgerInv, NEW e \in Elapsed, NEW i \in held, MarkStarted(i, e) PROVE Outcome
<1> DEFINE l == Tick(account, e)
<1>1. Whole(l) /\ i \in DOMAIN l.pending
  BY TickWhole DEF LedgerInv, Ticked
<1>2. account' = [l EXCEPT !.pending[i].started = TRUE] /\ UNCHANGED <<runHeld, held>>
  BY DEF MarkStarted
<1>3. AccountTyped(l) /\ l.pending \in [DOMAIN l.pending -> Pending]
  BY <1>1 DEF Whole, AccountTyped
<1> HIDE DEF l
<1>4. account'.pending = [l.pending EXCEPT ![i] = [l.pending[i] EXCEPT !.started = TRUE]]
  BY <1>2, <1>3 DEF AccountTyped
<1>5. [l.pending[i] EXCEPT !.started = TRUE] \in Pending
  BY <1>1, <1>3 DEF Pending
<1>6. account'.pending \in [DOMAIN l.pending -> Pending]
  BY <1>3, <1>4, <1>5
<1>7. AccountTyped(account')
  BY <1>2, <1>3, <1>6 DEF AccountTyped
<1>8. SamePending(l, account')
  <2>1. \A k \in DOMAIN l.pending :
          /\ account'.pending[k].amounts = l.pending[k].amounts
          /\ account'.pending[k].failed = l.pending[k].failed
          /\ l.pending[k].started => account'.pending[k].started
    BY <1>3, <1>4 DEF Pending
  <2> QED
    BY <1>1, <1>6, <2>1 DEF SamePending, Whole, Valid, ValidTask
<1>9. Marked(l, account')
  BY <1>2, <1>3, <1>8 DEF AccountTyped, Marked
<1> QED
  BY <1>2, <1>7, <1>9, Marking DEF l

\* A reservation whose handle is dropped stays, and stops the task.
LEMMA DropReservationStep ==
  ASSUME LedgerInv, NEW e \in Elapsed, NEW i \in held, DropReservation(i, e) PROVE Outcome
<1> DEFINE l == Tick(account, e)
<1>1. Whole(l) /\ i \in DOMAIN l.pending
  BY TickWhole DEF LedgerInv, Ticked
<1>2. AccountTyped(Abandon(l, i)) /\ Marked(l, Abandon(l, i))
  BY <1>1, AbandonMarks
<1>3. account' = Abandon(l, i) /\ runHeld' = runHeld /\ held' \subseteq held
  BY DEF DropReservation
<1> QED
  BY <1>2, <1>3, Marking

\* What is tightened is a limit no looser than both.
LEMMA TightenedTyped ==
  ASSUME NEW a \in AnyLimit, NEW b \in AnyLimit
  PROVE  /\ TightenedBy(a, b) \in AnyLimit
         /\ \A r \in Resources : /\ TightenedBy(a, b).res[r] <= a.res[r]
                                 /\ TightenedBy(a, b).res[r] <= b.res[r]
         /\ TightenedBy(a, b).time <= a.time /\ TightenedBy(a, b).time <= b.time
<1>1. \A x, y \in 0 .. MaxValue : /\ Min({x, y}) \in 0 .. MaxValue
                                  /\ Min({x, y}) <= x /\ Min({x, y}) <= y
  <2> SUFFICES ASSUME NEW x \in 0 .. MaxValue, NEW y \in 0 .. MaxValue
               PROVE  /\ Min({x, y}) \in 0 .. MaxValue
                      /\ Min({x, y}) <= x /\ Min({x, y}) <= y
    OBVIOUS
  <2>1. x \in Int /\ y \in Int
    BY WidthsAssumption
  <2>2. Min({x, y}) \in {x, y} /\ Min({x, y}) <= x /\ Min({x, y}) <= y
    BY <2>1, MinPair
  <2> QED
    BY <2>2
<1>2. /\ a.time \in 0 .. MaxValue /\ b.time \in 0 .. MaxValue
      /\ a.res \in [Resources -> 0 .. MaxValue] /\ b.res \in [Resources -> 0 .. MaxValue]
  BY DEF AnyLimit, Amounts
<1> DEFINE res == [r \in Resources |-> Min({a.res[r], b.res[r]})]
           time == Min({a.time, b.time})
<1>3. /\ time \in 0 .. MaxValue /\ time <= a.time /\ time <= b.time
  BY <1>1, <1>2, Zenon
<1>4. \A r \in Resources : /\ res[r] \in 0 .. MaxValue
                           /\ res[r] <= a.res[r] /\ res[r] <= b.res[r]
  <2> SUFFICES ASSUME NEW r \in Resources
               PROVE  /\ res[r] \in 0 .. MaxValue
                      /\ res[r] <= a.res[r] /\ res[r] <= b.res[r]
    OBVIOUS
  <2>1. a.res[r] \in 0 .. MaxValue /\ b.res[r] \in 0 .. MaxValue
    BY <1>2
  <2>2. res[r] = Min({a.res[r], b.res[r]})
    OBVIOUS
  <2> HIDE DEF res
  <2> QED
    BY <1>1, <2>1, <2>2, Zenon
<1>5. res \in Amounts
  <2>1. res = [r \in Resources |-> res[r]]
    OBVIOUS
  <2> HIDE DEF res
  <2> QED
    BY <1>4, <2>1 DEF Amounts
<1>6. TightenedBy(a, b) = [res |-> res, time |-> time]
  BY DEF TightenedBy
<1> HIDE DEF res, time
<1> QED
  BY <1>3, <1>4, <1>5, <1>6 DEF AnyLimit

\* Without reservations nothing is reserved.
LEMMA NothingReserved ==
  ASSUME NEW l, Whole(l), DOMAIN l.pending = {}
  PROVE  l.reserved = Zero
<1>1. l.reserved \in [Resources -> 0 .. MaxValue]
  BY DEF Whole, AccountTyped, Amounts
<1>2. \A r \in Resources : l.reserved[r] = 0
  BY SumEmpty DEF Whole, Valid, ValidTask, Resources
<1> QED
  BY <1>1, <1>2 DEF Zero

\* Nothing, and no run.
LEMMA NothingTyped == Zero \in Amounts /\ NoRun \in RunType /\ NoRun.reserved = Zero /\ NoRun.id = 0
<1>1. Zero \in Amounts /\ NoLimit \in AnyLimit
  BY WidthsAssumption DEF Zero, Amounts, NoLimit, AnyLimit
<1>2. 0 \in 0 .. MaxValue /\ 0 \in 0 .. MaxId
  BY WidthsAssumption
<1> QED
  BY <1>1, <1>2 DEF NoRun, RunType

\* A run ends, with nothing pending.
LEMMA FinishStep == ASSUME LedgerInv, NEW e \in Elapsed, Finish(e) PROVE Outcome
<1> DEFINE l == Tick(account, e)
<1>1. Whole(l) /\ Ticked(account, l)
  BY TickWhole DEF LedgerInv
<1>2. /\ DOMAIN l.pending = {} /\ account' = [l EXCEPT !.run = NoRun]
      /\ runHeld' = FALSE /\ held' = held
  BY DEF Finish
<1>3. AccountTyped(l)
  BY <1>1 DEF Whole
<1> HIDE DEF l
<1>4. /\ account'.limits = l.limits /\ account'.charged = l.charged
      /\ account'.reserved = l.reserved /\ account'.used = l.used /\ account'.stop = l.stop
      /\ account'.active = l.active /\ account'.cleanup = l.cleanup
      /\ account'.nextId = l.nextId /\ account'.pending = l.pending /\ account'.run = NoRun
  BY <1>2, <1>3 DEF AccountTyped
<1>5. AccountTyped(account')
  BY <1>2, <1>3, NothingTyped DEF AccountTyped
<1>6. Whole(account')
  <2>1. \A r : PendingSum(account', r) = PendingSum(l, r)
    BY <1>4 DEF PendingSum
  <2>2. ValidTask(account')
    BY <1>1, <1>2, <1>4, <2>1 DEF Whole, Valid, ValidTask
  <2> QED
    BY <1>1, <1>2, <1>4, <1>5, <2>2, NothingTyped DEF Whole, Valid
<1>7. Follows(l, account')
  BY <1>1, <1>4, NothingTyped, TicksNot DEF Ticked, Follows
<1>8. StartedIsPaid
  BY <1>1, <1>2 DEF StartedIsPaid, Ticked
<1>9. held' \subseteq DOMAIN account'.pending
  BY <1>1, <1>2, <1>4 DEF LedgerInv, Ticked
<1> QED
  BY <1>2, <1>6, <1>7, <1>8, <1>9, Outcomes DEF l

\* A run begins, within the limits of its task.
LEMMA BeginRunStep ==
  ASSUME LedgerInv, NEW e \in Elapsed, NEW lim \in Limits, BeginRun(lim, e) PROVE Outcome
<1> DEFINE l == Tick(account, e)
           run == [NoRun EXCEPT !.id = l.nextId + 1, !.open = TRUE,
                                !.limits = TightenedBy(l.limits, lim)]
<1>1. Whole(l) /\ Ticked(account, l) /\ AccountTyped(l)
  BY TickWhole DEF LedgerInv, Whole
<1>2. Writable(l) /\ l.run.id = 0 /\ ~Stopped(l) /\ UNCHANGED held
  BY DEF BeginRun
<1>3. CASE l.nextId = MaxId /\ account' = StopWith(l, "overflow") /\ UNCHANGED runHeld
  <2>1. "overflow" \in Reasons
    BY DEF Reasons
  <2>2. AccountTyped(account') /\ Marked(l, account')
    BY <1>1, <1>3, <2>1, StopWhole DEF Whole
  <2> QED
    BY <1>2, <1>3, <2>2, Marking
<1>4. CASE /\ l.nextId < MaxId /\ runHeld' = TRUE
           /\ account' = [l EXCEPT !.nextId = @ + 1, !.run = run]
  <2>1. lim \in AnyLimit /\ l.limits \in AnyLimit
    BY <1>1, HostLimitsAssumption DEF AccountTyped
  <2>2. /\ TightenedBy(l.limits, lim) \in AnyLimit
        /\ \A r \in Resources : TightenedBy(l.limits, lim).res[r] <= l.limits.res[r]
        /\ TightenedBy(l.limits, lim).time <= l.limits.time
    BY <2>1, TightenedTyped
  <2>3. DOMAIN l.pending = {} /\ l.run = NoRun
    BY <1>1, <1>2 DEF Whole, Valid
  <2>4. l.reserved = Zero
    BY <1>1, <2>3, NothingReserved
  <2>5. l.nextId \in Nat /\ l.nextId + 1 \in 0 .. MaxId
    BY <1>1, <1>4, WidthsAssumption DEF AccountTyped
  <2>6. /\ run.id = l.nextId + 1 /\ run.limits = TightenedBy(l.limits, lim)
        /\ run.charged = Zero /\ run.reserved = Zero /\ run.active = 0 /\ run.cleanup = 0
        /\ run.stop = "none" /\ run \in RunType
    BY <2>2, <2>5, NothingTyped DEF NoRun, RunType
  <2> HIDE DEF l, run
  <2>7. /\ account'.limits = l.limits /\ account'.charged = l.charged
        /\ account'.reserved = l.reserved /\ account'.used = l.used /\ account'.stop = l.stop
        /\ account'.active = l.active /\ account'.cleanup = l.cleanup
        /\ account'.nextId = l.nextId + 1 /\ account'.pending = l.pending /\ account'.run = run
    BY <1>1, <1>4 DEF AccountTyped
  <2>8. AccountTyped(account')
    BY <1>1, <1>4, <2>5, <2>6 DEF AccountTyped
  <2>9. \A r : PendingSum(account', r) = 0
    BY <2>3, <2>7, SumEmpty
  <2>10. \A r : PendingSum(l, r) = 0
    BY <2>3, SumEmpty
  <2>11. ValidTask(account')
    BY <1>1, <2>3, <2>5, <2>7, <2>9, <2>10 DEF Whole, Valid, ValidTask
  <2>12. ValidRun(account')
    <3>1. \A r \in Resources : /\ l.charged[r] \in Nat /\ run.limits.res[r] \in Nat
                               /\ Zero[r] = 0
      BY <1>1, <2>2, <2>6, WidthsAssumption DEF AccountTyped, Amounts, AnyLimit, Zero
    <3>2. l.active \in Nat /\ l.cleanup \in Nat /\ run.limits.time \in Nat
      BY <1>1, <2>2, <2>6, WidthsAssumption DEF AccountTyped, AnyLimit
    <3>3. \A r \in Attempts : r \in Resources
      BY DEF Resources
    <3>4. \A r \in Resources : Fits(0, 0, 0, run.limits.res[r])
      BY <3>1 DEF Fits
    <3> QED
      BY <2>2, <2>4, <2>5, <2>6, <2>7, <2>9, <3>1, <3>2, <3>3, <3>4 DEF ValidRun
  <2>13. Whole(account')
    BY <1>1, <2>5, <2>6, <2>7, <2>8, <2>11, <2>12 DEF Whole, Valid
  <2>14. Follows(l, account')
    BY <1>1, <2>3, <2>7, TicksNot DEF Follows, Ticked, NoRun
  <2>15. StartedIsPaid
    BY <1>1, <2>7 DEF StartedIsPaid, Ticked
  <2>16. held' \subseteq DOMAIN account'.pending /\ account'.run.id # 0 /\ runHeld' \in BOOLEAN
    BY <1>1, <1>2, <1>4, <2>5, <2>6, <2>7 DEF LedgerInv, Ticked
  <2> QED
    BY <2>13, <2>14, <2>15, <2>16, Outcomes DEF l
<1> QED
  BY <1>3, <1>4 DEF BeginRun

\* What is reserved at once fits in every limit, and is counted in every sum.
LEMMA ReserveStep ==
  ASSUME LedgerInv, NEW e \in Elapsed, NEW q \in Requests, Reserve(q, e) PROVE Outcome
<1> DEFINE l == Tick(account, e)
           id == l.nextId + 1
           r1 == Min(Refusing(l, q))
           new == [amounts |-> q, started |-> FALSE, abandoned |-> FALSE, failed |-> FALSE]
           pending == [i \in DOMAIN l.pending \cup {id} |-> IF i = id THEN new ELSE l.pending[i]]
           m == [l EXCEPT !.nextId = id, !.charged = Charged(@, q), !.reserved = Reserved(@, q),
                          !.run.charged = Charged(@, q), !.run.reserved = Reserved(@, q),
                          !.pending = pending]
<1>1. Whole(l) /\ Ticked(account, l) /\ AccountTyped(l)
  BY TickWhole DEF LedgerInv, Whole
<1>2. RunOpen(l) /\ ~Stopped(l) /\ UNCHANGED runHeld /\ l.run.id # 0
      /\ l.stop = "none" /\ l.run.stop = "none"
  BY DEF Reserve, RunOpen, Stopped
<1>3. CASE /\ account' \in {[l EXCEPT !.run.stop = "resource"], [l EXCEPT !.stop = "resource"]}
           /\ UNCHANGED held
  <2>1. "resource" \in Reasons
    BY DEF Reasons
  <2> HIDE DEF l
  <2>2. AccountTyped(account') /\ Marked(l, account')
    <3>1. CASE account' = [l EXCEPT !.stop = "resource"]
      BY <1>1, <1>2, <2>1, <3>1, RunFlags
    <3>2. CASE account' = [l EXCEPT !.run.stop = "resource"]
      BY <1>1, <1>2, <2>1, <3>2, RunFlags
    <3> QED
      BY <1>3, <3>1, <3>2
  <2> QED
    BY <1>2, <1>3, <2>2, Marking DEF l
<1>4. CASE account' = StopWith(l, "overflow") /\ UNCHANGED held
  <2>1. "overflow" \in Reasons
    BY DEF Reasons
  <2>2. AccountTyped(account') /\ Marked(l, account')
    BY <1>1, <1>4, <2>1, StopWhole DEF Whole
  <2> QED
    BY <1>2, <1>4, <2>2, Marking
<1>5. CASE Refusing(l, q) = {} /\ l.nextId < MaxId /\ account' = m /\ held' = held \cup {id}
  <2>1. \A r \in Resources :
          /\ l.charged[r] + l.reserved[r] + q[r] <= l.limits.res[r]
          /\ l.run.charged[r] + l.run.reserved[r] + q[r] <= l.run.limits.res[r]
    BY <1>5 DEF Refusing, Fits
  <2>2. \A r \in Resources :
          /\ l.charged[r] \in Nat /\ l.reserved[r] \in Nat /\ q[r] \in Nat
          /\ l.run.charged[r] \in Nat /\ l.run.reserved[r] \in Nat
          /\ l.limits.res[r] \in 0 .. MaxValue /\ l.run.limits.res[r] \in 0 .. MaxValue
    BY <1>1, WidthsAssumption, RequestsAssumption DEF AccountTyped, RunType, Amounts, AnyLimit
  <2>3. q \in Requests /\ l.nextId \in Nat /\ id \in 1 .. MaxId /\ id \notin DOMAIN l.pending
    BY <1>1, <1>5, WidthsAssumption DEF AccountTyped, Whole, Valid, ValidTask
  <2> HIDE DEF l
  <2>4. /\ m.limits = l.limits /\ m.stop = l.stop /\ m.used = l.used /\ m.active = l.active
        /\ m.cleanup = l.cleanup /\ m.nextId = id /\ m.pending = pending
        /\ m.charged = Charged(l.charged, q) /\ m.reserved = Reserved(l.reserved, q)
        /\ m.run.id = l.run.id /\ m.run.limits = l.run.limits /\ m.run.stop = l.run.stop
        /\ m.run.active = l.run.active /\ m.run.cleanup = l.run.cleanup
        /\ m.run.charged = Charged(l.run.charged, q)
        /\ m.run.reserved = Reserved(l.run.reserved, q)
    BY <1>1 DEF AccountTyped, RunType
  <2> HIDE DEF m, pending
  <2>5. \A r \in Attempts : /\ r \in Resources /\ r \notin Variable
                            /\ m.charged[r] = l.charged[r] + q[r]
                            /\ m.reserved[r] = l.reserved[r]
                            /\ m.run.charged[r] = l.run.charged[r] + q[r]
    BY <2>4, ResourcesAssumption DEF Resources, Charged, Reserved
  <2>6. \A r \in Variable : /\ r \in Resources /\ r \notin Attempts
                            /\ m.charged[r] = l.charged[r]
                            /\ m.reserved[r] = l.reserved[r] + q[r]
                            /\ m.run.charged[r] = l.run.charged[r]
    BY <2>4, ResourcesAssumption DEF Resources, Charged, Reserved
  <2>7. m.run.reserved = m.reserved
    BY <1>1, <1>2, <2>4 DEF Whole, Valid, ValidRun
  <2>8. \A r \in Resources : /\ m.charged[r] + m.reserved[r] <= l.limits.res[r]
                             /\ m.run.charged[r] + m.reserved[r] <= l.run.limits.res[r]
                             /\ m.charged[r] \in Nat /\ m.reserved[r] \in Nat
                             /\ m.run.charged[r] \in Nat
                             /\ m.charged[r] >= l.charged[r]
                             /\ m.run.charged[r] <= m.charged[r]
    <3> SUFFICES ASSUME NEW r \in Resources
                 PROVE  /\ m.charged[r] + m.reserved[r] <= l.limits.res[r]
                        /\ m.run.charged[r] + m.reserved[r] <= l.run.limits.res[r]
                        /\ m.charged[r] \in Nat /\ m.reserved[r] \in Nat
                        /\ m.run.charged[r] \in Nat
                        /\ m.charged[r] >= l.charged[r]
                        /\ m.run.charged[r] <= m.charged[r]
      OBVIOUS
    <3>1. l.run.reserved[r] = l.reserved[r] /\ l.run.charged[r] <= l.charged[r]
      BY <1>1, <1>2 DEF Whole, Valid, ValidRun
    <3>2. CASE r \in Attempts
      BY <2>1, <2>2, <2>5, <3>1, <3>2
    <3>3. CASE r \in Variable
      BY <2>1, <2>2, <2>6, <3>1, <3>3
    <3> QED
      BY <3>2, <3>3 DEF Resources
  <2>9. \A r \in Resources : /\ m.charged[r] \in 0 .. MaxValue /\ m.reserved[r] \in 0 .. MaxValue
                             /\ m.run.charged[r] \in 0 .. MaxValue
    BY <2>2, <2>8, WidthsAssumption
  <2>10. m.charged \in Amounts /\ m.reserved \in Amounts /\ m.run.charged \in Amounts
    <3>1. /\ m.charged = [r \in Resources |-> m.charged[r]]
          /\ m.reserved = [r \in Resources |-> m.reserved[r]]
          /\ m.run.charged = [r \in Resources |-> m.run.charged[r]]
      BY <2>4 DEF Charged, Reserved
    <3> QED
      BY <2>9, <3>1 DEF Amounts
  <2>11. pending \in [DOMAIN pending -> Pending] /\ DOMAIN pending \subseteq 1 .. MaxId
    BY <1>1, <2>3 DEF AccountTyped, Pending, pending
  <2>12. AccountTyped(m)
    <3>1. m.run \in RunType
      <4>1. m.run = [l.run EXCEPT !.charged = m.run.charged, !.reserved = m.run.reserved]
        BY <1>1, <2>4 DEF AccountTyped, RunType, m
      <4> QED
        BY <1>1, <2>7, <2>10, <4>1 DEF AccountTyped, RunType
    <3>2. m = [l EXCEPT !.nextId = id, !.charged = m.charged, !.reserved = m.reserved,
                        !.run = m.run, !.pending = pending]
      BY ZenonT(40), <2>4 DEF m
    <3>3. id \in 0 .. MaxId /\ m.pending = pending
      BY <2>3, <2>4
    <3> HIDE DEF id
    <3> QED
      BY <1>1, <2>10, <2>11, <3>1, <3>2, <3>3 DEF AccountTyped
  <2>13. \A r \in Resources : PendingSum(m, r) = PendingSum(l, r) + q[r]
    <3> SUFFICES ASSUME NEW r \in Resources PROVE PendingSum(m, r) = PendingSum(l, r) + q[r]
      OBVIOUS
    <3>1. DOMAIN m.pending = DOMAIN l.pending \cup {id} /\ id \notin DOMAIN l.pending
      BY <2>3, <2>4 DEF pending
    <3>2. \A k \in DOMAIN l.pending : l.pending[k].amounts = m.pending[k].amounts
      BY <2>3, <2>4 DEF pending
    <3>3. m.pending[id].amounts[r] = q[r]
      BY <2>4 DEF pending
    <3> HIDE DEF id
    <3>4. Adds(l, m, id)
      BY <3>1, <3>2 DEF Adds
    <3> QED
      BY <2>12, <3>3, <3>4, SumMore
  <2>14. \A r \in Resources : PendingSum(l, r) \in Nat
    BY <1>1, SumTyped
  <2>15. \A i \in DOMAIN pending : pending[i].failed => pending[i].started
    BY <1>1, <2>3 DEF Whole, Valid, ValidTask, pending
  <2>16. ValidTask(m)
    <3>1. DOMAIN m.pending \subseteq (1 .. m.nextId) \ {m.run.id}
      <4>1. DOMAIN m.pending = DOMAIN l.pending \cup {id}
        BY <2>4 DEF pending
      <4>2. l.run.id \in 1 .. l.nextId /\ DOMAIN l.pending \subseteq (1 .. l.nextId) \ {l.run.id}
        BY <1>1, <1>2 DEF Whole, Valid, ValidTask, ValidRun
      <4> QED
        BY <2>3, <2>4, <4>1, <4>2
    <3>2. \A r \in Variable : m.reserved[r] = PendingSum(m, r) /\ m.used[r] <= m.charged[r]
      BY <1>1, <2>4, <2>6, <2>13 DEF Whole, Valid, ValidTask
    <3>3. \A r \in Attempts : PendingSum(m, r) <= m.charged[r]
      <4> SUFFICES ASSUME NEW r \in Attempts PROVE PendingSum(m, r) <= m.charged[r]
        OBVIOUS
      <4>1. PendingSum(l, r) <= l.charged[r]
        BY <1>1 DEF Whole, Valid, ValidTask
      <4> QED
        BY <2>2, <2>5, <2>13, <2>14, <4>1
    <3>4. \A r \in Resources : Fits(m.charged[r], m.reserved[r], 0, m.limits.res[r])
      BY <2>4, <2>8 DEF Fits
    <3>5. m.active <= m.limits.time
      BY <1>1, <1>2, <2>4 DEF Whole, Valid, ValidTask
    <3>6. m.nextId # 0
      BY <2>3, <2>4
    <3> QED
      BY <2>4, <2>15, <3>1, <3>2, <3>3, <3>4, <3>5, <3>6 DEF ValidTask
  <2>17. ValidRun(m)
    <3>1. m.run.id \in 1 .. m.nextId
      BY <1>1, <1>2, <2>3, <2>4 DEF Whole, Valid, ValidRun
    <3>2. \A r \in Attempts : PendingSum(m, r) <= m.run.charged[r]
      <4> SUFFICES ASSUME NEW r \in Attempts PROVE PendingSum(m, r) <= m.run.charged[r]
        OBVIOUS
      <4>1. PendingSum(l, r) <= l.run.charged[r]
        BY <1>1, <1>2 DEF Whole, Valid, ValidRun
      <4> QED
        BY <2>2, <2>5, <2>13, <2>14, <4>1
    <3>3. \A r \in Resources : Fits(m.run.charged[r], m.run.reserved[r], 0, m.run.limits.res[r])
      BY <2>4, <2>7, <2>8 DEF Fits
    <3>4. /\ m.run.active <= m.active /\ m.run.cleanup <= m.cleanup
          /\ m.run.limits.time <= m.limits.time /\ m.run.active <= m.run.limits.time
          /\ \A r \in Resources : m.run.limits.res[r] <= m.limits.res[r]
      BY <1>1, <1>2, <2>4 DEF Whole, Valid, ValidRun
    <3> QED
      BY <2>7, <2>8, <3>1, <3>2, <3>3, <3>4 DEF ValidRun
  <2>18. Whole(m)
    BY <1>1, <1>2, <2>4, <2>5, <2>12, <2>16, <2>17 DEF Whole, Valid
  <2>19. Follows(l, m)
    <3>1. Follows(l, l)
      BY <1>1, TicksNot DEF Ticked
    <3> QED
      BY <2>4, <2>8, <3>1 DEF Follows
  <2>20. StartedIsPaid
    BY <1>1, <1>5, <2>4 DEF StartedIsPaid, Ticked, pending
  <2>21. held' \subseteq DOMAIN account'.pending
    BY <1>1, <1>5, <2>4 DEF LedgerInv, Ticked, pending
  <2>22. runHeld' \in BOOLEAN /\ account'.run.id # 0
    BY <1>2, <1>5, <2>4 DEF LedgerInv
  <2> QED
    BY <1>5, <2>18, <2>19, <2>20, <2>21, <2>22, Outcomes DEF l
<1> QED
  BY <1>3, <1>4, <1>5 DEF Reserve

\* The reservation i leaves, charged with nothing or with what was used of it; what
\* goes beyond it stops the task.
Leaves(l, m, i) ==
  /\ m.limits = l.limits /\ m.active = l.active /\ m.cleanup = l.cleanup /\ m.nextId = l.nextId
  /\ m.run.id = l.run.id /\ m.run.limits = l.run.limits /\ m.run.stop = l.run.stop
  /\ m.run.active = l.run.active /\ m.run.cleanup = l.run.cleanup
  /\ m.pending = Without(l.pending, i)
  /\ m.reserved = Released(l.reserved, l.pending[i].amounts) /\ m.run.reserved = m.reserved
  /\ (l.stop # "none" => m.stop = l.stop)
  /\ \A r \in Attempts : m.charged[r] = l.charged[r] /\ m.run.charged[r] = l.run.charged[r]
  /\ \A r \in Variable :
       /\ m.charged[r] >= l.charged[r]
       /\ m.run.charged[r] - l.run.charged[r] = m.charged[r] - l.charged[r]
       /\ m.used[r] - l.used[r] <= m.charged[r] - l.charged[r]
       /\ m.stop = "none" => m.charged[r] - l.charged[r] <= l.pending[i].amounts[r]

\* What a reservation asked for is part of every sum, and of what is reserved.
LEMMA SumLess ==
  ASSUME NEW l, Whole(l), NEW i \in DOMAIN l.pending, NEW m,
         m.pending = Without(l.pending, i), NEW r \in Resources
  PROVE  /\ PendingSum(l, r) = PendingSum(m, r) + l.pending[i].amounts[r]
         /\ PendingSum(m, r) \in Nat /\ l.pending[i].amounts[r] \in Nat
<1>1. AccountTyped(l)
  BY DEF Whole
<1>2. Adds(m, l, i)
  BY DEF Adds, Without, Restrict
<1>3. PendingSum(l, r) = PendingSum(m, r) + l.pending[i].amounts[r]
  BY <1>1, <1>2, SumMore
<1>4. \A k \in DOMAIN l.pending : l.pending[k].amounts[r] \in 0 .. MaxValue
  BY <1>1, RequestsAssumption DEF AccountTyped, Pending, Amounts
<1> DEFINE p == m.pending
<1>5. DOMAIN p \subseteq 1 .. MaxId /\ \A k \in DOMAIN p : p[k].amounts[r] \in 0 .. MaxValue
  BY <1>1, <1>4 DEF AccountTyped, Without, Restrict
<1>6. PendingSum(m, r) = Cardinality(Units(p, r))
  BY DEF PendingSum
<1> HIDE DEF p
<1>7. Cardinality(Units(p, r)) \in Nat
  BY <1>5, UnitsFinite
<1> QED
  BY <1>3, <1>4, <1>6, <1>7, WidthsAssumption

\* A release does not underflow.
LEMMA ReleasedTyped ==
  ASSUME NEW l, Whole(l), NEW i \in DOMAIN l.pending
  PROVE  /\ Released(l.reserved, l.pending[i].amounts) \in Amounts
         /\ \A r \in Resources :
              /\ Released(l.reserved, l.pending[i].amounts)[r] \in Nat
              /\ Released(l.reserved, l.pending[i].amounts)[r] <= l.reserved[r]
<1> DEFINE q == l.pending[i].amounts
           n == [pending |-> Without(l.pending, i)]
           a == Released(l.reserved, q)
<1>1. \A r \in Resources : /\ l.reserved[r] \in 0 .. MaxValue /\ q[r] \in Nat
                           /\ PendingSum(l, r) = PendingSum(n, r) + q[r]
                           /\ PendingSum(n, r) \in Nat
  <2>1. \A r \in Resources : l.reserved[r] \in 0 .. MaxValue
    BY DEF Whole, AccountTyped, Amounts
  <2>2. n.pending = Without(l.pending, i)
    OBVIOUS
  <2> HIDE DEF n
  <2> QED
    BY <2>1, <2>2, SumLess
<1>2. \A r \in Variable : l.reserved[r] = PendingSum(l, r) /\ r \in Resources
  BY DEF Whole, Valid, ValidTask, Resources
<1>3. \A r \in Resources : a[r] = IF r \in Variable THEN l.reserved[r] - q[r] ELSE l.reserved[r]
  BY DEF Released
<1>4. a = [r \in Resources |-> a[r]]
  BY DEF Released
<1> HIDE DEF a, n, q
<1>5. \A r \in Resources : a[r] \in 0 .. MaxValue /\ a[r] <= l.reserved[r]
  <2> SUFFICES ASSUME NEW r \in Resources
               PROVE  a[r] \in 0 .. MaxValue /\ a[r] <= l.reserved[r]
    OBVIOUS
  <2>1. CASE r \in Variable
    BY <1>1, <1>2, <1>3, <2>1, WidthsAssumption
  <2>2. CASE r \notin Variable
    BY <1>1, <1>3, <2>2, WidthsAssumption
  <2> QED
    BY <2>1, <2>2
<1>6. a \in Amounts
  BY <1>4, <1>5 DEF Amounts
<1> QED
  BY <1>5, <1>6, WidthsAssumption DEF a, q

\* What leaves leaves a ledger whole.
LEMMA LeavesWhole ==
  ASSUME NEW l, Whole(l), NEW i \in DOMAIN l.pending, NEW m, AccountTyped(m), Leaves(l, m, i)
  PROVE  Whole(m) /\ Follows(l, m)
<1> DEFINE q == l.pending[i].amounts
<1>1. AccountTyped(l) /\ l.run.id # 0 /\ ValidTask(l) /\ ValidRun(l)
  BY DEF Whole, Valid
<1>2. \A r \in Resources :
        /\ l.charged[r] \in Nat /\ l.run.charged[r] \in Nat /\ l.reserved[r] \in Nat
        /\ m.charged[r] \in Nat /\ m.run.charged[r] \in Nat /\ m.reserved[r] \in Nat
        /\ l.limits.res[r] \in Nat /\ l.run.limits.res[r] \in Nat
  BY <1>1, WidthsAssumption DEF AccountTyped, RunType, AnyLimit, Amounts
<1>3. \A r \in Variable : l.used[r] \in Nat /\ m.used[r] \in Nat /\ r \in Resources
  BY <1>1, WidthsAssumption DEF AccountTyped, Resources
<1>4. \A r \in Resources : /\ PendingSum(l, r) = PendingSum(m, r) + q[r]
                           /\ PendingSum(m, r) \in Nat /\ q[r] \in Nat
  BY SumLess DEF Leaves
<1>5. \A r \in Variable : m.reserved[r] = l.reserved[r] - q[r]
  BY DEF Leaves, Released, Resources
<1>6. \A r \in Attempts : m.reserved[r] = l.reserved[r] /\ r \in Resources
  BY ResourcesAssumption DEF Leaves, Released, Resources
<1>7. DOMAIN m.pending = DOMAIN l.pending \ {i}
      /\ \A k \in DOMAIN m.pending : m.pending[k] = l.pending[k]
  BY DEF Leaves, Without, Restrict
<1> HIDE DEF q
<1>8. (Stopped(l) => Stopped(m)) /\ (l.stop # "none" => m.stop # "none")
  BY DEF Leaves, Stopped
<1>9. \A r \in Resources : /\ m.charged[r] >= l.charged[r]
                           /\ m.run.charged[r] <= m.charged[r]
  <2> SUFFICES ASSUME NEW r \in Resources
               PROVE  m.charged[r] >= l.charged[r] /\ m.run.charged[r] <= m.charged[r]
    OBVIOUS
  <2>1. l.run.charged[r] <= l.charged[r]
    BY <1>1 DEF ValidRun
  <2>2. CASE r \in Attempts
    BY <1>2, <2>1, <2>2 DEF Leaves
  <2>3. CASE r \in Variable
    BY <1>2, <2>1, <2>3 DEF Leaves
  <2> QED
    BY <2>2, <2>3 DEF Resources
<1>10. m.stop = "none" =>
         \A r \in Resources : /\ m.charged[r] + m.reserved[r] <= l.charged[r] + l.reserved[r]
                              /\ m.run.charged[r] + m.reserved[r] <= l.run.charged[r] + l.reserved[r]
  <2> SUFFICES ASSUME m.stop = "none", NEW r \in Resources
               PROVE  /\ m.charged[r] + m.reserved[r] <= l.charged[r] + l.reserved[r]
                      /\ m.run.charged[r] + m.reserved[r] <= l.run.charged[r] + l.reserved[r]
    OBVIOUS
  <2>1. CASE r \in Attempts
    BY <1>2, <1>6, <2>1 DEF Leaves
  <2>2. CASE r \in Variable
    <3>1. m.charged[r] - l.charged[r] <= q[r]
      BY <2>2 DEF Leaves, q
    <3>2. m.run.charged[r] - l.run.charged[r] = m.charged[r] - l.charged[r]
      BY <2>2 DEF Leaves
    <3> QED
      BY <1>2, <1>4, <1>5, <2>2, <3>1, <3>2
  <2> QED
    BY <2>1, <2>2 DEF Resources
<1>11. ValidTask(m)
  <2>1. \A r \in Variable : m.reserved[r] = PendingSum(m, r) /\ m.used[r] <= m.charged[r]
    <3> SUFFICES ASSUME NEW r \in Variable
                 PROVE  m.reserved[r] = PendingSum(m, r) /\ m.used[r] <= m.charged[r]
      OBVIOUS
    <3>1. l.reserved[r] = PendingSum(l, r) /\ l.used[r] <= l.charged[r]
      BY <1>1 DEF ValidTask
    <3>2. m.used[r] - l.used[r] <= m.charged[r] - l.charged[r]
      BY DEF Leaves
    <3>3. m.reserved[r] = PendingSum(m, r)
      BY <1>3, <1>4, <1>5, <3>1
    <3>4. m.used[r] <= m.charged[r]
      BY <1>2, <1>3, <3>1, <3>2
    <3> QED
      BY <3>3, <3>4
  <2>2. \A r \in Attempts : PendingSum(m, r) <= m.charged[r]
    <3> SUFFICES ASSUME NEW r \in Attempts PROVE PendingSum(m, r) <= m.charged[r]
      OBVIOUS
    <3>1. PendingSum(l, r) <= l.charged[r] /\ m.charged[r] = l.charged[r]
      BY <1>1 DEF ValidTask, Leaves
    <3> QED
      BY <1>2, <1>4, <1>6, <3>1
  <2>3. m.nextId # 0
    BY <1>1 DEF ValidRun, Leaves, AccountTyped
  <2>4. m.stop = "none" => \A r \in Resources : Fits(m.charged[r], m.reserved[r], 0, m.limits.res[r])
    <3> SUFFICES ASSUME m.stop = "none", NEW r \in Resources
                 PROVE  Fits(m.charged[r], m.reserved[r], 0, m.limits.res[r])
      OBVIOUS
    <3>1. l.charged[r] + l.reserved[r] + 0 <= l.limits.res[r] /\ m.limits = l.limits
      BY <1>1, <1>8 DEF ValidTask, Fits, Leaves
    <3> QED
      BY <1>2, <1>10, <3>1 DEF Fits
  <2>5. m.stop = "none" => m.active <= m.limits.time
    BY <1>1, <1>8 DEF ValidTask, Leaves
  <2>6. DOMAIN m.pending \subseteq (1 .. m.nextId) \ {m.run.id}
    BY <1>1, <1>7 DEF ValidTask, Leaves
  <2>7. \A k \in DOMAIN m.pending : m.pending[k].failed => m.pending[k].started
    BY <1>1, <1>7 DEF ValidTask
  <2> QED
    BY <2>1, <2>2, <2>3, <2>4, <2>5, <2>6, <2>7 DEF ValidTask
<1>12. ValidRun(m)
  <2>1. \A r \in Attempts : PendingSum(m, r) <= m.run.charged[r]
    <3> SUFFICES ASSUME NEW r \in Attempts PROVE PendingSum(m, r) <= m.run.charged[r]
      OBVIOUS
    <3>1. PendingSum(l, r) <= l.run.charged[r] /\ m.run.charged[r] = l.run.charged[r]
      BY <1>1 DEF ValidRun, Leaves
    <3> QED
      BY <1>2, <1>4, <1>6, <3>1
  <2>2. ~Stopped(m) =>
          \A r \in Resources : Fits(m.run.charged[r], m.run.reserved[r], 0, m.run.limits.res[r])
    <3> SUFFICES ASSUME ~Stopped(m), NEW r \in Resources
                 PROVE  Fits(m.run.charged[r], m.run.reserved[r], 0, m.run.limits.res[r])
      OBVIOUS
    <3>1. /\ l.run.charged[r] + l.reserved[r] + 0 <= l.run.limits.res[r]
          /\ m.run.limits = l.run.limits /\ m.run.reserved = m.reserved
      BY <1>1, <1>8 DEF ValidRun, Fits, Leaves
    <3>2. m.stop = "none"
      BY DEF Stopped
    <3> QED
      BY <1>2, <1>10, <3>1, <3>2 DEF Fits
  <2>3. /\ m.run.id \in 1 .. m.nextId /\ m.run.reserved = m.reserved
        /\ m.run.active <= m.active /\ m.run.cleanup <= m.cleanup
        /\ \A r \in Resources : m.run.limits.res[r] <= m.limits.res[r]
        /\ m.run.limits.time <= m.limits.time
        /\ ~Stopped(m) => m.run.active <= m.run.limits.time
    BY <1>1, <1>8 DEF ValidRun, Leaves
  <2> QED
    BY <1>9, <2>1, <2>2, <2>3 DEF ValidRun
<1>13. Whole(m)
  <2>1. m.run.id # 0 /\ \A r \in Attempts : m.reserved[r] = 0
    BY <1>1, <1>6 DEF Leaves, Whole
  <2> QED
    BY <1>11, <1>12, <2>1 DEF Whole, Valid
<1>14. Follows(l, m)
  <2>1. Follows(l, l)
    BY TicksNot DEF Ticked
  <2> QED
    BY <1>9, <2>1 DEF Follows, Leaves
<1> QED
  BY <1>13, <1>14

\* The record that is left when the reservation i is resolved.
LEMMA ResolveTyped ==
  ASSUME NEW l, Whole(l), NEW i \in DOMAIN l.pending
  PROVE  /\ AccountTyped(Resolve(l, i))
         /\ Resolve(l, i).pending = Without(l.pending, i)
         /\ Resolve(l, i).reserved = Released(l.reserved, l.pending[i].amounts)
         /\ Resolve(l, i).run.reserved = Resolve(l, i).reserved
         /\ Resolve(l, i).charged = l.charged /\ Resolve(l, i).run.charged = l.run.charged
         /\ Resolve(l, i).used = l.used /\ Resolve(l, i).stop = l.stop
         /\ Resolve(l, i).limits = l.limits /\ Resolve(l, i).nextId = l.nextId
         /\ Resolve(l, i).active = l.active /\ Resolve(l, i).cleanup = l.cleanup
         /\ Resolve(l, i).run.id = l.run.id /\ Resolve(l, i).run.limits = l.run.limits
         /\ Resolve(l, i).run.stop = l.run.stop
         /\ Resolve(l, i).run.active = l.run.active /\ Resolve(l, i).run.cleanup = l.run.cleanup
<1> DEFINE a == Released(l.reserved, l.pending[i].amounts)
           p == Without(l.pending, i)
           m == [l EXCEPT !.reserved = a, !.run.reserved = a, !.pending = p]
<1>1. AccountTyped(l) /\ l.run.reserved = l.reserved
  BY DEF Whole, Valid, ValidRun
<1>2. a \in Amounts
  BY ReleasedTyped
<1>3. Resolve(l, i) = m
  BY <1>1 DEF Resolve
<1>4. p \in [DOMAIN p -> Pending] /\ DOMAIN p \subseteq 1 .. MaxId
  BY <1>1 DEF AccountTyped, Without, Restrict
<1> HIDE DEF a, p
<1>5. /\ m.pending = p /\ m.reserved = a /\ m.run.reserved = a
      /\ m.charged = l.charged /\ m.run.charged = l.run.charged /\ m.used = l.used
      /\ m.stop = l.stop /\ m.limits = l.limits /\ m.nextId = l.nextId
      /\ m.active = l.active /\ m.cleanup = l.cleanup /\ m.run.id = l.run.id
      /\ m.run.limits = l.run.limits /\ m.run.stop = l.run.stop
      /\ m.run.active = l.run.active /\ m.run.cleanup = l.run.cleanup
  BY <1>1 DEF AccountTyped, RunType
<1>6. AccountTyped(m)
  <2>1. m.run \in RunType
    BY <1>1, <1>2 DEF AccountTyped, RunType
  <2> QED
    BY <1>1, <1>2, <1>4, <2>1 DEF AccountTyped
<1> HIDE DEF m
<1> QED
  BY <1>3, <1>5, <1>6 DEF a, p

\* What is cancelled before it started costs what its admission did.
LEMMA CancelStep ==
  ASSUME LedgerInv, NEW e \in Elapsed, NEW i \in held, CancelBeforeStart(i, e) PROVE Outcome
<1> DEFINE l == Tick(account, e)
           m == Resolve(l, i)
<1>1. Whole(l) /\ Ticked(account, l) /\ i \in DOMAIN l.pending
  BY TickWhole DEF LedgerInv, Ticked
<1>2. runHeld' = runHeld /\ held' = held \ {i}
  BY DEF CancelBeforeStart
<1>3. CASE account' = Abandon(l, i)
  <2>1. AccountTyped(account') /\ Marked(l, account')
    BY <1>1, <1>3, AbandonMarks
  <2> QED
    BY <1>2, <2>1, Marking
<1>4. CASE account' = m /\ ~l.pending[i].started
  <2> HIDE DEF l
  <2>1. AccountTyped(m)
    BY <1>1, ResolveTyped
  <2>2. Leaves(l, m, i)
    <3>1. \A r \in Resources : l.charged[r] \in Nat /\ l.run.charged[r] \in Nat
      BY <1>1, WidthsAssumption DEF Whole, AccountTyped, RunType, Amounts
    <3>2. \A r \in Variable : l.used[r] \in Nat /\ r \in Resources
      BY <1>1, WidthsAssumption DEF Whole, AccountTyped, Resources
    <3>3. \A r \in Resources : l.pending[i].amounts[r] \in Nat
      BY <1>1, WidthsAssumption, RequestsAssumption DEF Whole, AccountTyped, Pending, Amounts
    <3>4. \A r \in Variable :
            /\ l.charged[r] >= l.charged[r]
            /\ l.run.charged[r] - l.run.charged[r] = l.charged[r] - l.charged[r]
            /\ l.used[r] - l.used[r] <= l.charged[r] - l.charged[r]
            /\ l.charged[r] - l.charged[r] <= l.pending[i].amounts[r]
      BY <3>1, <3>2, <3>3
    <3>5. /\ m.pending = Without(l.pending, i)
          /\ m.reserved = Released(l.reserved, l.pending[i].amounts)
          /\ m.run.reserved = m.reserved
          /\ m.charged = l.charged /\ m.run.charged = l.run.charged
          /\ m.used = l.used /\ m.stop = l.stop /\ m.limits = l.limits /\ m.nextId = l.nextId
          /\ m.active = l.active /\ m.cleanup = l.cleanup
          /\ m.run.id = l.run.id /\ m.run.limits = l.run.limits /\ m.run.stop = l.run.stop
          /\ m.run.active = l.run.active /\ m.run.cleanup = l.run.cleanup
      BY <1>1, ResolveTyped
    <3> HIDE DEF m
    <3> QED
      BY <3>4, <3>5 DEF Leaves
  <2> HIDE DEF m
  <2>3. Whole(m) /\ Follows(l, m)
    BY <1>1, <2>1, <2>2, LeavesWhole
  <2>4. DOMAIN m.pending = DOMAIN account.pending \ {i} /\ ~account.pending[i].started
    BY <1>1, <1>4, <2>2 DEF Leaves, Without, Restrict, Ticked
  <2>5. StartedIsPaid
    BY <1>4, <2>4 DEF StartedIsPaid
  <2>6. runHeld' \in BOOLEAN /\ (runHeld' => account'.run.id # 0)
    BY <1>1, <1>2, <1>4, <2>2 DEF LedgerInv, Leaves, Ticked
  <2>7. held' \subseteq DOMAIN account'.pending
    BY <1>2, <1>4, <2>4 DEF LedgerInv
  <2> QED
    BY <1>4, <2>3, <2>5, <2>6, <2>7, Outcomes DEF l
<1> QED
  BY <1>3, <1>4 DEF CancelBeforeStart

\* A usage costs a number, and never less than what it shows.
LEMMA DebitTyped ==
  ASSUME NEW q \in Requests, NEW u \in Usages, NEW r \in Variable
  PROVE  /\ Debit(q, u, r) \in Nat /\ u[r].amount \in Nat
         /\ u[r].kind # "unknown" => u[r].amount <= Debit(q, u, r)
<1>1. u[r] \in Usage /\ u[r].amount \in Nat
  BY UsagesAssumption, WidthsAssumption DEF Usage
<1>2. q[r] \in Nat
  BY RequestsAssumption, WidthsAssumption DEF Amounts, Resources
<1> DEFINE a == u[r].amount
           b == q[r]
           max == Max({a, b})
<1>3. max \in Nat /\ max >= a
  <2>1. a \in Int /\ b \in Int
    BY <1>1, <1>2
  <2> HIDE DEF a, b
  <2>2. max \in {a, b} /\ max >= a
    BY <2>1, MaxPair
  <2> QED
    BY <1>1, <1>2, <2>2 DEF a, b
<1>4. CASE u[r].kind = "actual"
  BY <1>1, <1>4 DEF Debit
<1>5. CASE u[r].kind = "estimated"
  <2>1. Debit(q, u, r) = max
    BY <1>5 DEF Debit
  <2> HIDE DEF max
  <2> QED
    BY <1>1, <1>3, <2>1
<1>6. CASE u[r].kind = "unknown"
  BY <1>1, <1>2, <1>6 DEF Debit
<1> QED
  BY <1>1, <1>4, <1>5, <1>6 DEF Usage

\* A settlement charges what was used and releases what was reserved for it.
LEMMA SettleStep ==
  ASSUME LedgerInv, NEW e \in Elapsed, NEW i \in held, NEW u \in Usages, Settle(i, u, e)
  PROVE  Outcome
<1> DEFINE l == Tick(account, e)
           q == l.pending[i].amounts
           charged == Debited(l.charged, q, u)
           runCharged == Debited(l.run.charged, q, u)
           used == Evident(l.used, u)
           settled == [Resolve(l, i) EXCEPT !.charged = charged, !.run.charged = runCharged,
                                            !.used = used]
           failed == [l EXCEPT !.pending[i].failed = TRUE]
<1>1. Whole(l) /\ Ticked(account, l) /\ i \in DOMAIN l.pending /\ AccountTyped(l)
  BY TickWhole DEF LedgerInv, Ticked, Whole
<1>2. runHeld' = runHeld /\ held' = held \ {i}
  BY DEF Settle
<1>3. CASE account' = Abandon(l, i)
  <2>1. AccountTyped(account') /\ Marked(l, account')
    BY <1>1, <1>3, AbandonMarks
  <2> QED
    BY <1>2, <2>1, Marking
<1>4. CASE l.pending[i].started /\ account' = Abandon(StopWith(failed, "overflow"), i)
  <2> HIDE DEF l
  <2>1. l.pending \in [DOMAIN l.pending -> Pending]
    BY <1>1 DEF AccountTyped
  <2>2. failed.pending = [l.pending EXCEPT ![i] = [l.pending[i] EXCEPT !.failed = TRUE]]
    BY <1>1 DEF AccountTyped
  <2>3. [l.pending[i] EXCEPT !.failed = TRUE] \in Pending
    BY <1>1, <2>1 DEF Pending
  <2> DEFINE pending == failed.pending
  <2>4. failed = [l EXCEPT !.pending = pending]
    BY <1>1 DEF AccountTyped
  <2>5. /\ pending \in [DOMAIN l.pending -> Pending]
        /\ \A k \in DOMAIN l.pending : /\ pending[k].amounts = l.pending[k].amounts
                                       /\ pending[k].started = l.pending[k].started
                                       /\ pending[k].failed => k = i \/ l.pending[k].failed
    <3> HIDE DEF failed
    <3>1. pending = [l.pending EXCEPT ![i] = [l.pending[i] EXCEPT !.failed = TRUE]]
      BY <2>2
    <3> HIDE DEF pending
    <3>2. pending \in [DOMAIN l.pending -> Pending]
      BY <2>1, <2>3, <3>1
    <3>3. \A k \in DOMAIN l.pending : /\ pending[k].amounts = l.pending[k].amounts
                                      /\ pending[k].started = l.pending[k].started
                                      /\ pending[k].failed => k = i \/ l.pending[k].failed
      BY <2>1, <3>1 DEF Pending
    <3> QED
      BY <3>2, <3>3
  <2> HIDE DEF pending, failed
  <2>6. SamePending(l, failed)
    BY <1>1, <1>4, <2>5 DEF SamePending, Whole, Valid, ValidTask, pending
  <2>7. AccountTyped(failed)
    BY <1>1, <2>4, <2>5 DEF AccountTyped
  <2>8. Marked(l, failed)
    BY <1>1, <2>4, <2>6 DEF AccountTyped, Marked
  <2>9. Whole(failed) /\ "overflow" \in Reasons
    BY <1>1, <2>7, <2>8, MarkedWhole DEF Reasons
  <2> DEFINE n == StopWith(failed, "overflow")
  <2>10. Whole(n) /\ Marked(failed, n)
    BY <2>9, StopWhole
  <2> HIDE DEF n
  <2>11. Marked(l, n) /\ i \in DOMAIN n.pending
    BY <1>1, <2>8, <2>10, MarksAdd DEF Marked, SamePending
  <2>12. AccountTyped(Abandon(n, i)) /\ Marked(n, Abandon(n, i))
    BY <2>10, <2>11, AbandonMarks
  <2>13. Marked(l, Abandon(n, i))
    BY <2>11, <2>12, MarksAdd
  <2> QED
    BY <1>2, <1>4, <2>12, <2>13, Marking DEF l, n
<1>5. CASE /\ ~(Overflows(charged) \/ Overflows(runCharged) \/ Overflows(used))
           /\ account' = IF \E r \in Variable : Debit(q, u, r) > q[r]
                         THEN StopWith(settled, "breach") ELSE settled
  <2> HIDE DEF l
  <2>1. q \in Requests
    BY <1>1 DEF AccountTyped, Pending
  <2>2. \A r \in Resources :
          /\ l.charged[r] \in Nat /\ l.run.charged[r] \in Nat
          /\ charged[r] = IF r \in Variable THEN l.charged[r] + Debit(q, u, r) ELSE l.charged[r]
          /\ runCharged[r] = IF r \in Variable THEN l.run.charged[r] + Debit(q, u, r)
                             ELSE l.run.charged[r]
          /\ charged[r] <= MaxValue /\ runCharged[r] <= MaxValue
    <3>1. \A r \in Resources : l.charged[r] \in 0 .. MaxValue /\ l.run.charged[r] \in 0 .. MaxValue
      BY <1>1 DEF AccountTyped, RunType, Amounts
    <3>2. /\ DOMAIN charged = Resources /\ DOMAIN runCharged = Resources
          /\ \A r \in Resources :
               /\ charged[r] = IF r \in Variable THEN l.charged[r] + Debit(q, u, r) ELSE l.charged[r]
               /\ runCharged[r] = IF r \in Variable THEN l.run.charged[r] + Debit(q, u, r)
                                  ELSE l.run.charged[r]
      BY DEF Debited
    <3>3. \A r \in Variable : Debit(q, u, r) \in Nat /\ r \in Resources
      BY <2>1, DebitTyped DEF Resources
    <3>4. \A r \in Resources : charged[r] \in Int /\ runCharged[r] \in Int
      <4> HIDE DEF charged, runCharged, q
      <4> QED
        BY <3>1, <3>2, <3>3, WidthsAssumption
    <3>5. ~(\E r \in DOMAIN charged : charged[r] > MaxValue)
          /\ ~(\E r \in DOMAIN runCharged : runCharged[r] > MaxValue)
      BY <1>5 DEF Overflows
    <3> HIDE DEF charged, runCharged, q
    <3> QED
      BY <3>1, <3>2, <3>4, <3>5, WidthsAssumption
  <2>3. \A r \in Variable :
          /\ l.used[r] \in Nat
          /\ used[r] = IF u[r].kind = "unknown" THEN l.used[r] ELSE l.used[r] + u[r].amount
          /\ used[r] <= MaxValue
    <3>1. \A r \in Variable : l.used[r] \in 0 .. MaxValue
      BY <1>1 DEF AccountTyped
    <3>2. /\ DOMAIN used = Variable
          /\ \A r \in Variable :
               used[r] = IF u[r].kind = "unknown" THEN l.used[r] ELSE l.used[r] + u[r].amount
      BY DEF Evident
    <3>3. \A r \in Variable : u[r].amount \in Nat
      BY <2>1, DebitTyped
    <3>4. ~(\E r \in DOMAIN used : used[r] > MaxValue)
      BY <1>5 DEF Overflows
    <3> HIDE DEF used, q
    <3> QED
      BY <3>1, <3>2, <3>3, <3>4, WidthsAssumption
  <2>4. charged \in Amounts /\ runCharged \in Amounts
    <3>1. \A r \in Resources : charged[r] \in 0 .. MaxValue /\ runCharged[r] \in 0 .. MaxValue
      <4>1. \A r \in Variable : Debit(q, u, r) \in Nat
        BY <2>1, DebitTyped
      <4> HIDE DEF charged, runCharged, q
      <4> QED
        BY <2>2, <4>1, WidthsAssumption
    <3>2. charged = [r \in Resources |-> charged[r]] /\ runCharged = [r \in Resources |-> runCharged[r]]
      BY DEF Debited
    <3> HIDE DEF charged, runCharged
    <3> QED
      BY <3>1, <3>2 DEF Amounts
  <2>5. used \in [Variable -> 0 .. MaxValue]
    <3>1. \A r \in Variable : u[r].amount \in Nat
      BY <2>1, DebitTyped
    <3>2. used = [r \in Variable |-> used[r]]
      BY DEF Evident
    <3> HIDE DEF used
    <3>3. \A r \in Variable : used[r] \in 0 .. MaxValue
      BY <2>3, <3>1, WidthsAssumption
    <3> QED
      BY <3>2, <3>3
  <2> DEFINE rest == Resolve(l, i)
  <2>6. /\ AccountTyped(rest) /\ rest.pending = Without(l.pending, i)
        /\ rest.reserved = Released(l.reserved, q) /\ rest.run.reserved = rest.reserved
        /\ rest.stop = l.stop /\ rest.limits = l.limits /\ rest.nextId = l.nextId
        /\ rest.active = l.active /\ rest.cleanup = l.cleanup
        /\ rest.run.id = l.run.id /\ rest.run.limits = l.run.limits
        /\ rest.run.stop = l.run.stop
        /\ rest.run.active = l.run.active /\ rest.run.cleanup = l.run.cleanup
    BY <1>1, ResolveTyped
  <2> HIDE DEF rest, charged, runCharged, used
  <2>7. settled = [rest EXCEPT !.charged = charged, !.run.charged = runCharged, !.used = used]
    BY DEF rest
  <2> HIDE DEF settled
  <2>8. /\ settled.pending = rest.pending /\ settled.reserved = rest.reserved
        /\ settled.run.reserved = rest.run.reserved
        /\ settled.stop = rest.stop /\ settled.limits = rest.limits
        /\ settled.nextId = rest.nextId
        /\ settled.active = rest.active /\ settled.cleanup = rest.cleanup
        /\ settled.run.id = rest.run.id /\ settled.run.limits = rest.run.limits
        /\ settled.run.stop = rest.run.stop
        /\ settled.run.active = rest.run.active /\ settled.run.cleanup = rest.run.cleanup
        /\ settled.charged = charged /\ settled.run.charged = runCharged /\ settled.used = used
    BY <2>6, <2>7 DEF AccountTyped, RunType
  <2>9. AccountTyped(settled)
    <3>1. settled.run \in RunType
      BY <2>4, <2>6, <2>7 DEF AccountTyped, RunType
    <3> QED
      BY <2>4, <2>5, <2>6, <2>7, <3>1 DEF AccountTyped
  <2> DEFINE m == account'
  <2>10. /\ AccountTyped(m) /\ m.run = settled.run /\ m.pending = settled.pending
         /\ m.reserved = settled.reserved /\ m.charged = charged /\ m.used = used
         /\ m.limits = l.limits /\ m.nextId = l.nextId /\ m.active = l.active
         /\ m.cleanup = l.cleanup /\ (l.stop # "none" => m.stop = l.stop)
         /\ m.stop = "none" => \A r \in Variable : ~(Debit(q, u, r) > q[r])
    <3>1. CASE account' = settled /\ \A r \in Variable : ~(Debit(q, u, r) > q[r])
      BY <2>6, <2>8, <2>9, <3>1
    <3>2. CASE account' = StopWith(settled, "breach")
      <4>1. "breach" \in Reasons
        BY DEF Reasons
      <4> DEFINE n == StopWith(settled, "breach")
      <4>2. /\ AccountTyped(n) /\ n.stop # "none"
            /\ (settled.stop # "none" => n.stop = settled.stop)
            /\ n = [settled EXCEPT !.stop = n.stop]
        BY <2>9, <4>1, StopMarks
      <4> HIDE DEF n
      <4>3. /\ n.run = settled.run /\ n.pending = settled.pending
            /\ n.reserved = settled.reserved /\ n.charged = charged /\ n.used = used
            /\ n.limits = l.limits /\ n.nextId = l.nextId /\ n.active = l.active
            /\ n.cleanup = l.cleanup
        BY <2>6, <2>8, <2>9, <4>2 DEF AccountTyped
      <4> QED
        BY <2>6, <2>8, <3>2, <4>2, <4>3 DEF n
    <3> QED
      BY <1>5, <3>1, <3>2
  <2>11. Leaves(l, m, i)
    <3>1. \A r \in Variable : Debit(q, u, r) \in Nat /\ r \in Resources /\ q[r] \in Nat
      BY <2>1, DebitTyped, RequestsAssumption, WidthsAssumption DEF Amounts, Resources
    <3>2. \A r \in Variable : /\ m.charged[r] = l.charged[r] + Debit(q, u, r)
                              /\ m.run.charged[r] = l.run.charged[r] + Debit(q, u, r)
      BY <2>2, <2>8, <2>10, <3>1
    <3>3. \A r \in Attempts : m.charged[r] = l.charged[r] /\ m.run.charged[r] = l.run.charged[r]
      BY <2>2, <2>8, <2>10, ResourcesAssumption DEF Resources
    <3>4. \A r \in Variable : m.used[r] - l.used[r] <= Debit(q, u, r)
      <4> SUFFICES ASSUME NEW r \in Variable PROVE m.used[r] - l.used[r] <= Debit(q, u, r)
        OBVIOUS
      <4>1. /\ Debit(q, u, r) \in Nat /\ u[r].amount \in Nat
            /\ u[r].kind # "unknown" => u[r].amount <= Debit(q, u, r)
        BY <2>1, DebitTyped
      <4>2. m.used[r] = used[r]
        BY <2>10
      <4> HIDE DEF m, q
      <4> QED
        BY <2>3, <4>1, <4>2
    <3>5. \A r \in Variable :
            /\ m.charged[r] >= l.charged[r]
            /\ m.run.charged[r] - l.run.charged[r] = m.charged[r] - l.charged[r]
            /\ m.used[r] - l.used[r] <= m.charged[r] - l.charged[r]
            /\ m.stop = "none" => m.charged[r] - l.charged[r] <= q[r]
      <4> HIDE DEF m, q
      <4> QED
        BY <2>2, <2>10, <3>1, <3>2, <3>4
    <3> HIDE DEF m
    <3> QED
      BY <2>6, <2>8, <2>10, <3>3, <3>5 DEF Leaves
  <2>12. Whole(m) /\ Follows(l, m)
    BY <1>1, <2>10, <2>11, LeavesWhole
  <2>13. DOMAIN m.pending = DOMAIN account.pending \ {i}
    BY <1>1, <2>6, <2>8, <2>10 DEF Without, Restrict, Ticked
  <2>14. \A r \in Variable :
           account'.charged[r] - account.charged[r] = Debit(account.pending[i].amounts, u, r)
    <3> SUFFICES ASSUME NEW r \in Variable
                 PROVE  account'.charged[r] - account.charged[r]
                          = Debit(account.pending[i].amounts, u, r)
      OBVIOUS
    <3>1. account.charged = l.charged /\ account.pending[i].amounts = q
      BY <1>1 DEF Ticked
    <3>2. Debit(q, u, r) \in Nat /\ r \in Resources
      BY <2>1, DebitTyped DEF Resources
    <3>3. account'.charged[r] = l.charged[r] + Debit(q, u, r) /\ l.charged[r] \in Nat
      BY <2>2, <2>10, <3>2
    <3> HIDE DEF q
    <3>4. account'.charged[r] - l.charged[r] = Debit(q, u, r)
      BY <3>2, <3>3
    <3> QED
      BY <3>1, <3>4
  <2>15. StartedIsPaid
    BY <2>13, <2>14 DEF StartedIsPaid
  <2>16. runHeld' \in BOOLEAN /\ (runHeld' => account'.run.id # 0)
    BY <1>1, <1>2, <2>11 DEF LedgerInv, Leaves, Ticked
  <2>17. held' \subseteq DOMAIN account'.pending
    BY <1>2, <2>13 DEF LedgerInv
  <2> QED
    BY <2>12, <2>15, <2>16, <2>17, Outcomes DEF l
<1> QED
  BY <1>3, <1>4, <1>5 DEF Settle

\* A sealed image that another host restores, under limits no looser, is whole: what
\* no longer fits has stopped.
LEMMA RestoreStep ==
  ASSUME LedgerInv, NEW host \in Limits, Restore(host) PROVE Outcome
<1> DEFINE limits == TightenedBy(account.limits, host)
           frozen == account.frozen \/ account.run.id # 0 \/ DOMAIN account.pending # {}
           run == IF account.run.id = 0 THEN NoRun
                  ELSE [account.run EXCEPT !.open = FALSE, !.cleaning = TRUE,
                                           !.limits = TightenedBy(account.run.limits, limits)]
           restored == [account EXCEPT !.sealed = FALSE, !.frozen = frozen, !.limits = limits,
                                       !.run = run]
           timed == IF frozen THEN StopWith(restored, "recovery")
                    ELSE IF account.active >= limits.time THEN StopWith(restored, "time")
                    ELSE restored
           tight == \E r \in Resources :
                      ~Fits(account.charged[r], account.reserved[r], 0, limits.res[r])
           l == account
<1>1. /\ account.sealed /\ account' = IF tight THEN StopWith(timed, "resource") ELSE timed
      /\ runHeld' = FALSE /\ held' = {}
  BY DEF Restore
<1>2. Whole(l) /\ AccountTyped(l)
  BY DEF LedgerInv, Whole
<1>3. 0 \in Elapsed /\ Tick(account, 0) = account
  BY <1>1, ElapsedAssumption DEF Tick, Writable
<1>4. /\ limits \in AnyLimit
      /\ \A r \in Resources : limits.res[r] <= account.limits.res[r]
  <2>1. host \in AnyLimit /\ account.limits \in AnyLimit
    BY <1>2, HostLimitsAssumption DEF AccountTyped
  <2> QED
    BY <2>1, TightenedTyped
<1>5. frozen \in BOOLEAN
  OBVIOUS
<1> HIDE DEF limits, frozen
<1>6. /\ run \in RunType /\ run.id = l.run.id /\ run.charged = l.run.charged
      /\ run.reserved = l.run.reserved /\ run.active = l.run.active
      /\ run.cleanup = l.run.cleanup /\ run.stop = l.run.stop
      /\ (run.id = 0 => run = NoRun)
      /\ run.id # 0 => run.limits = TightenedBy(l.run.limits, limits)
  <2>1. CASE l.run.id = 0
    BY <1>2, <2>1, NothingTyped DEF Whole
  <2>2. CASE l.run.id # 0
    <3>1. l.run \in RunType /\ l.run.limits \in AnyLimit
      BY <1>2 DEF AccountTyped, RunType
    <3>2. TightenedBy(l.run.limits, limits) \in AnyLimit
      BY <1>4, <3>1, TightenedTyped
    <3> QED
      BY <2>2, <3>1, <3>2 DEF RunType
  <2> QED
    BY <2>1, <2>2
<1> HIDE DEF run
<1>7. /\ AccountTyped(restored)
      /\ restored.limits = limits /\ restored.run = run /\ restored.stop = l.stop
      /\ restored.charged = l.charged /\ restored.reserved = l.reserved
      /\ restored.used = l.used /\ restored.active = l.active /\ restored.cleanup = l.cleanup
      /\ restored.pending = l.pending /\ restored.nextId = l.nextId
  BY <1>2, <1>4, <1>5, <1>6 DEF AccountTyped
<1> HIDE DEF restored
<1> DEFINE Shown(m) ==
             /\ AccountTyped(m)
             /\ m.limits = limits /\ m.run = run
             /\ m.charged = l.charged /\ m.reserved = l.reserved
             /\ m.used = l.used /\ m.active = l.active /\ m.cleanup = l.cleanup
             /\ m.pending = l.pending /\ m.nextId = l.nextId
             /\ (l.stop # "none" => m.stop = l.stop)
<1>8. ASSUME NEW m, Shown(m), NEW reason \in Reasons
      PROVE  Shown(StopWith(m, reason)) /\ StopWith(m, reason).stop # "none"
             /\ (m.stop # "none" => StopWith(m, reason).stop = m.stop)
  <2> DEFINE n == StopWith(m, reason)
  <2>1. AccountTyped(m)
    BY <1>8
  <2>2. /\ AccountTyped(n) /\ n.stop # "none" /\ (m.stop # "none" => n.stop = m.stop)
        /\ n = [m EXCEPT !.stop = n.stop]
    BY <2>1, StopMarks
  <2> HIDE DEF n
  <2>3. /\ n.limits = m.limits /\ n.run = m.run /\ n.charged = m.charged
        /\ n.reserved = m.reserved /\ n.used = m.used /\ n.active = m.active
        /\ n.cleanup = m.cleanup /\ n.pending = m.pending /\ n.nextId = m.nextId
    BY <2>1, <2>2 DEF AccountTyped
  <2> QED
    BY <1>8, <2>2, <2>3 DEF n
<1>9. Shown(restored)
  BY <1>7
<1>10. {"recovery", "time", "resource"} \subseteq Reasons
  BY DEF Reasons
<1>11. /\ Shown(timed) /\ (frozen => timed.stop # "none")
       /\ account.active >= limits.time => timed.stop # "none"
  <2> HIDE DEF Shown
  <2>1. CASE frozen
    BY <1>8, <1>9, <1>10, <2>1
  <2>2. CASE ~frozen /\ account.active >= limits.time
    BY <1>8, <1>9, <1>10, <2>2
  <2>3. CASE ~frozen /\ ~(account.active >= limits.time)
    BY <1>9, <2>3
  <2> QED
    BY <2>1, <2>2, <2>3
<1> HIDE DEF timed
<1> DEFINE m == account'
<1>12. /\ Shown(m) /\ (frozen => m.stop # "none") /\ (tight => m.stop # "none")
       /\ account.active >= limits.time => m.stop # "none"
  <2> HIDE DEF Shown, tight
  <2>1. CASE tight
    BY <1>1, <1>8, <1>10, <1>11, <2>1
  <2>2. CASE ~tight
    BY <1>1, <1>11, <2>2
  <2> QED
    BY <2>1, <2>2
<1>13. \A r : PendingSum(m, r) = PendingSum(l, r)
  BY <1>12 DEF PendingSum
<1>14. l.active \in Nat /\ limits.time \in Nat
  BY <1>2, <1>4, WidthsAssumption DEF AccountTyped, AnyLimit
<1>15. ValidTask(m)
  <2>1. ValidTask(l)
    BY <1>2 DEF Whole, Valid
  <2>2. m.stop = "none" => m.active <= m.limits.time
    BY <1>12, <1>14
  <2>3. m.stop = "none" => \A r \in Resources : Fits(m.charged[r], m.reserved[r], 0, m.limits.res[r])
    BY <1>12
  <2>4. /\ DOMAIN m.pending \subseteq (1 .. m.nextId) \ {m.run.id}
        /\ \A i \in DOMAIN m.pending : m.pending[i].failed => m.pending[i].started
        /\ m.nextId = 0 => m.charged = Zero /\ m.active = 0
    BY <1>6, <1>12, <2>1 DEF ValidTask
  <2>5. /\ \A r \in Variable : m.reserved[r] = PendingSum(m, r) /\ m.used[r] <= m.charged[r]
        /\ \A r \in Attempts : PendingSum(m, r) <= m.charged[r]
    BY <1>12, <1>13, <2>1 DEF ValidTask
  <2> QED
    BY <2>2, <2>3, <2>4, <2>5 DEF ValidTask
<1>16. l.run.id # 0 => ValidRun(m)
  <2> SUFFICES ASSUME l.run.id # 0 PROVE ValidRun(m)
    OBVIOUS
  <2>1. ValidRun(l)
    BY <1>2 DEF Whole, Valid
  <2>2. Stopped(m)
    BY <1>12 DEF Stopped, frozen
  <2>3. l.run.limits \in AnyLimit
    BY <1>2 DEF AccountTyped, RunType
  <2>4. /\ \A r \in Resources : m.run.limits.res[r] <= m.limits.res[r]
        /\ m.run.limits.time <= m.limits.time
    BY <1>4, <1>6, <1>12, <2>3, TightenedTyped
  <2>5. /\ m.run.id \in 1 .. m.nextId /\ m.run.reserved = m.reserved
        /\ m.run.active <= m.active /\ m.run.cleanup <= m.cleanup
        /\ \A r \in Resources : m.run.charged[r] <= m.charged[r]
    BY <1>6, <1>12, <2>1 DEF ValidRun
  <2>6. \A r \in Attempts : PendingSum(m, r) <= m.run.charged[r]
    BY <1>6, <1>12, <1>13, <2>1 DEF ValidRun
  <2> HIDE DEF m
  <2> QED
    BY <2>2, <2>4, <2>5, <2>6 DEF ValidRun
<1>17. Whole(m)
  <2>1. l.run.id = 0 => DOMAIN m.pending = {}
    BY <1>2, <1>12 DEF Whole, Valid
  <2>2. Valid(m)
    BY <1>6, <1>12, <1>15, <1>16, <2>1 DEF Valid
  <2>3. /\ AccountTyped(m) /\ (m.run.id = 0 => m.run = NoRun)
        /\ \A r \in Attempts : m.reserved[r] = 0
    BY <1>2, <1>6, <1>12 DEF Whole
  <2> QED
    BY <2>2, <2>3 DEF Whole
<1>18. Follows(l, m)
  <2>1. Follows(l, l)
    BY <1>2, TicksNot DEF Ticked
  <2> QED
    BY <1>6, <1>12, <2>1 DEF Follows
<1>19. StartedIsPaid
  BY <1>12 DEF StartedIsPaid
<1> QED
  BY <1>1, <1>3, <1>17, <1>18, <1>19, Outcomes

\* A task begins with nothing charged.
LEMMA LedgerBegins == LedgerInit => LedgerInv
<1> SUFFICES ASSUME LedgerInit PROVE LedgerInv
  OBVIOUS
<1>1. PICK lim \in Limits :
       account = [sealed |-> FALSE, frozen |-> FALSE, limits |-> lim, stop |-> "none",
                  charged |-> Zero, reserved |-> Zero, used |-> [r \in Variable |-> 0],
                  active |-> 0, cleanup |-> 0, run |-> NoRun, pending |-> [i \in {} |-> 0],
                  nextId |-> 0]
  BY DEF LedgerInit
<1>2. lim \in AnyLimit
  BY HostLimitsAssumption
<1>3. AccountTyped(account)
  BY <1>1, <1>2, NothingTyped, WidthsAssumption DEF AccountTyped
<1>4. \A r : PendingSum(account, r) = 0
  BY <1>1, SumEmpty
<1>5. \A r \in Resources : Zero[r] = 0 /\ lim.res[r] \in Nat /\ lim.time \in Nat
  BY <1>2, WidthsAssumption DEF Zero, AnyLimit, Amounts
<1>6. ValidTask(account)
  <2>1. \A r \in Resources : Fits(Zero[r], Zero[r], 0, lim.res[r])
    BY <1>5 DEF Fits
  <2>2. 0 <= lim.time
    BY <1>2, WidthsAssumption DEF AnyLimit
  <2>3. \A r \in Resources : 0 <= Zero[r] /\ Zero[r] = 0
    BY <1>5
  <2> QED
    BY <1>1, <1>4, <2>1, <2>2, <2>3 DEF ValidTask, Resources
<1>7. account.run = NoRun /\ DOMAIN account.pending = {} /\ account.reserved = Zero
  BY <1>1
<1>8. Whole(account)
  BY <1>3, <1>5, <1>6, <1>7, NothingTyped DEF Whole, Valid, Resources
<1>9. runHeld = FALSE /\ held = {}
  BY DEF LedgerInit
<1> QED
  BY <1>8, <1>9 DEF LedgerInv

\* Every step of the ledger has the outcome.
LEMMA LedgerStep == ASSUME LedgerInv, LedgerNext PROVE Outcome
<1>1. ASSUME NEW e \in Elapsed, RunOps(e) PROVE Outcome
  BY <1>1, BeginRunStep, ObserveStep, PrepareReportStep, FinishStep, DropRunStep DEF RunOps
<1>2. ASSUME NEW e \in Elapsed, ScopeOps(e) PROVE Outcome
  BY <1>2, ExpireStep, StopRunStep, BeginCleanupStep, ReserveStep DEF ScopeOps
<1>3. ASSUME NEW e \in Elapsed, NEW i \in held, ReservationOps(i, e) PROVE Outcome
  BY <1>3, MarkStartedStep, CancelStep, DropReservationStep, SettleStep DEF ReservationOps
<1> QED
  BY <1>1, <1>2, <1>3, SealStep, RestoreStep DEF LedgerNext

\* The invariant holds throughout.
LEMMA LedgerInvariance == LedgerSpec => []LedgerInv
<1>1. LedgerInit => LedgerInv
  BY LedgerBegins
<1>2. LedgerInv /\ [LedgerNext]_accounts => LedgerInv'
  <2> SUFFICES ASSUME LedgerInv, [LedgerNext]_accounts PROVE LedgerInv'
    OBVIOUS
  <2>1. CASE LedgerNext
    BY <2>1, LedgerStep DEF Outcome
  <2>2. CASE UNCHANGED accounts
    BY <2>2 DEF accounts, LedgerInv, Whole, AccountTyped, Valid, ValidTask, ValidRun, PendingSum,
                Stopped
  <2> QED
    BY <2>1, <2>2
<1> QED
  BY <1>1, <1>2, PTL DEF LedgerSpec

\* Whatever is reserved, overrun, abandoned, stopped, timed and transferred: the
\* pending reservations are exactly what is reserved, the run is counted in its task,
\* usage is never shown beyond what was charged, and what passed a limit has stopped.
THEOREM LedgerIsExact == LedgerSpec => []AccountsExact
<1>1. LedgerInv => AccountsExact
  <2> SUFFICES ASSUME LedgerInv PROVE AccountsExact
    OBVIOUS
  <2>1. Whole(account) /\ AccountTyped(account) /\ ValidTask(account)
    BY DEF LedgerInv, Whole, Valid
  <2>2. LedgerTypeOK
    BY <2>1 DEF LedgerInv, LedgerTypeOK
  <2>3. account.run.id # 0 => ValidRun(account)
    BY DEF LedgerInv, Whole, Valid
  <2>4. account.run.id = 0 => /\ account.run = NoRun /\ DOMAIN account.pending = {} /\ ~runHeld
                              /\ account.reserved = Zero
    BY NothingReserved DEF LedgerInv, Whole, Valid
  <2>5. /\ \A r \in Resources : /\ account.charged[r] \in Nat /\ account.limits.res[r] \in Nat
                                /\ account.reserved[r] \in Nat
                                /\ Zero[r] = 0 /\ NoRun.charged[r] = 0
                                /\ NoRun.limits.res[r] = 0
        /\ account.active \in Nat /\ account.cleanup \in Nat
    BY <2>1, WidthsAssumption DEF AccountTyped, Amounts, AnyLimit, NoRun, NoLimit, Zero
  <2>6. NoRun.active = 0 /\ NoRun.cleanup = 0 /\ NoRun.limits.time = 0 /\ NoRun.reserved = Zero
    BY DEF NoRun, NoLimit
  <2>7. ReservedExact
    <3>1. \A r \in Attempts : PendingSum(account, r) <= account.run.charged[r]
      <4>1. CASE account.run.id # 0
        BY <2>3, <4>1 DEF ValidRun
      <4>2. CASE account.run.id = 0
        <5>1. \A r : PendingSum(account, r) = 0
          BY <2>4, <4>2, SumEmpty
        <5> QED
          BY <2>4, <2>5, <4>2, <5>1 DEF Resources
      <4> QED
        BY <4>1, <4>2
    <3> QED
      BY <2>1, <3>1 DEF ReservedExact, ValidTask, Whole
  <2>8. RunWithinTask
    <3>1. CASE account.run.id # 0
      BY <2>3, <3>1 DEF RunWithinTask, ValidRun
    <3>2. CASE account.run.id = 0
      BY <2>4, <2>5, <2>6, <3>2 DEF RunWithinTask
    <3> QED
      BY <3>1, <3>2
  <2>9. UsageCovered
    BY <2>1 DEF UsageCovered, ValidTask
  <2>10. WithinLimits
    <3>1. account.stop = "none" => TaskWithin(account)
      BY <2>1, <2>5 DEF ValidTask, Fits, TaskWithin
    <3>2. ~Stopped(account) => RunWithin(account)
      <4>1. CASE account.run.id # 0
        <5>1. \A r \in Resources : account.run.charged[r] \in Nat /\ account.run.reserved[r] \in Nat
          BY <2>1, WidthsAssumption DEF AccountTyped, RunType, Amounts
        <5> QED
          BY <2>3, <4>1, <5>1 DEF ValidRun, Fits, RunWithin
      <4>2. CASE account.run.id = 0
        BY <2>4, <2>5, <2>6, <4>2 DEF RunWithin
      <4> QED
        BY <4>1, <4>2
    <3> QED
      BY <3>1, <3>2 DEF WithinLimits
  <2> QED
    BY <2>2, <2>7, <2>8, <2>9, <2>10 DEF AccountsExact
<1> QED
  BY LedgerInvariance, <1>1, PTL

\* However a ledger was left, and whatever the clock shows, seal_checkpoint accepts it.
THEOREM AlwaysTransferable == LedgerSpec => []Transferable
<1>1. LedgerInv => Transferable
  BY TickWhole DEF LedgerInv, Whole, Transferable
<1> QED
  BY LedgerInvariance, <1>1, PTL

\* Nothing charged or spent is refunded, started work is paid for, and the first reason
\* for a stop stays, in whatever order handles are dropped, cancelled and settled.
THEOREM SpentStaysSpent == LedgerSpec => SpentForGood
<1>1. LedgerInv /\ [LedgerNext]_accounts
        => [Unrefunded /\ StartedIsPaid /\ FirstStopStays]_accounts
  <2> SUFFICES ASSUME LedgerInv, LedgerNext
               PROVE  Unrefunded /\ StartedIsPaid /\ FirstStopStays
    OBVIOUS
  <2>1. Follows(account, account') /\ StartedIsPaid
    BY LedgerStep DEF Outcome
  <2> QED
    BY <2>1 DEF Follows, Unrefunded, FirstStopStays
<1> QED
  BY LedgerInvariance, <1>1, PTL DEF LedgerSpec, SpentForGood
=============================================================================
