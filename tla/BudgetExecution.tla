-------------------------- MODULE BudgetExecution --------------------------
(***************************************************************************)
(* The durable side of a Task's budget (crates/core/budget: execution.rs,  *)
(* grant.rs, recovery.rs): hosts that claim the checkpoint of one Task     *)
(* before they execute a turn, close the claim with the image they sealed, *)
(* raise limits, and close the claim of a lost execution with its retained *)
(* final image.  They share a checkpoint store, whose compare-and-exchange *)
(* is one atomic step, taken at any time after it was asked for: by then   *)
(* the future that asked may be cancelled, and the answer lost.            *)
(*                                                                         *)
(* The Session's log is the other half of the truth.  Its writer ownership *)
(* (JsonlPersistence) is what `owner` stands for; log keeps of a turn what *)
(* its report says of the budget.  One resource stands for the amounts and *)
(* the active time.                                                        *)
(***************************************************************************)
EXTENDS Naturals, SequencesExt

CONSTANTS
  Hosts,     \* processes that execute, grant or recover
  GrantOps, RecoverOps,   \* operation identifiers of requests
  NewLimit,  \* [GrantOps -> Nat]: the limit a grant asks for
  Ceilings,  \* limits a host may set
  Costs,     \* what a turn may spend
  First,     \* the limit of the first image
  MaxRevision, MaxExec   \* bounds: u64::MAX of revisions; executions attempted

None == "none"
ASSUME HostsAssumption == None \notin Hosts
ASSUME LimitsAssumption ==
  /\ First \in Nat \ {0} /\ Ceilings \subseteq Nat \ {0} /\ Costs \subseteq Nat \ {0}
  /\ NewLimit \in [GrantOps -> Nat]
ASSUME BoundsAssumption == MaxRevision \in Nat \ {0} /\ MaxExec \in Nat

VARIABLES
  chain,    \* the images the store committed, the latest last
  jobs,     \* compare-and-exchanges asked for and not yet done
  pc,       \* what each host is doing
  base,     \* the image it started from
  claim,    \* the image it claimed with
  ledger,   \* the budget of its lease: what is charged, the limit, the stop
  log,      \* the closed turns of the Session
  open,     \* the log has an unfinished turn after them
  owner,    \* who owns the Session's log
  execs,    \* execution identifiers used
  kept,     \* final images retained from failed commits
  told      \* operations some caller was told are applied

vars == <<chain, jobs, pc, base, claim, ledger, log, open, owner, execs, kept, told>>

Limit == {First} \cup Ceilings \cup {NewLimit[g] : g \in GrantOps}

Stops == {"none", "limit", "other"}

\* The part of BudgetCheckpoint these operations look at.
FirstImage == [revision |-> 1, exec |-> 0, anchor |-> 0, spent |-> 0, limit |-> First,
               stop |-> "none", grants |-> <<>>, recoveries |-> <<>>]

Latest == Last(chain)

\* is_quiescent; an image that was sealed with a run is never stored.
Quiescent(image) == image.exec = 0

\* boundary_report: limit and stop as they were before the grants at this anchor.
AtBoundary(image) ==
  LET here == {i \in DOMAIN image.grants :
                 \A k \in i .. Len(image.grants) : image.grants[k].anchor = image.anchor}
  IN IF here = {} THEN [limit |-> image.limit, stop |-> image.stop]
     ELSE [limit |-> image.grants[Min(here)].old, stop |-> image.grants[Min(here)].oldStop]

\* validate_closed_tail: the last report of the log confirms the budget.
Confirms(report, spentThen, was) ==
  report.spent = spentThen /\ report.limit = was.limit /\ report.stop = was.stop

\* verify_checkpoint_history against the log.
AtTail(image) ==
  /\ ~open /\ image.anchor = Len(log)
  /\ IF log = <<>> THEN image.spent = 0
     ELSE Confirms(Last(log), image.spent, AtBoundary(image))

\* validate_increase: what the grant may clear is a stop by the limit.
Increases(old, new, stop) == new > old /\ stop # "other"

Recorded(seq, op) == \E i \in DOMAIN seq : seq[i].op = op

\* validate_grants and validate_recoveries.
Distinct(seq) == \A i, k \in DOMAIN seq : i < k =>
                   seq[i].op # seq[k].op /\ seq[i].source < seq[k].source

GrantsSound(image) ==
  LET g == image.grants
  IN /\ Distinct(g)
     /\ \A i \in DOMAIN g : /\ Increases(g[i].old, g[i].new, g[i].oldStop)
                           /\ g[i].source < image.revision /\ g[i].anchor <= image.anchor
     /\ \A i, k \in DOMAIN g : k = i + 1 =>
          /\ g[i].anchor <= g[k].anchor
          /\ g[i].anchor = g[k].anchor => g[i].new = g[k].old /\ g[k].oldStop = "none"

RecoveriesSound(image) ==
  /\ Distinct(image.recoveries)
  /\ \A i \in DOMAIN image.recoveries : image.recoveries[i].source < image.revision

\* validate_transition of the store.
GrantStep(old, new) ==
  /\ Quiescent(old) /\ Len(new.grants) = Len(old.grants) + 1
  /\ LET g == Last(new.grants)
     IN /\ g.source = old.revision /\ g.anchor = old.anchor
        /\ g.old = old.limit /\ g.oldStop = old.stop
        /\ new = [old EXCEPT !.revision = new.revision, !.limit = g.new, !.stop = "none",
                             !.grants = Append(@, g)]

RecoverStep(old, new) ==
  LET r == Last(new.recoveries)
  IN /\ Len(new.recoveries) = Len(old.recoveries) + 1
     /\ old.exec = r.exec /\ old.revision = r.source
     /\ Quiescent(new) /\ new.grants = old.grants
     /\ new.limit = old.limit /\ new.spent >= old.spent

Transition(old, new) ==
  /\ new.revision = old.revision + 1
  /\ GrantsSound(new) /\ RecoveriesSound(new)
  /\ IsPrefix(old.grants, new.grants) /\ IsPrefix(old.recoveries, new.recoveries)
  /\ new.recoveries # old.recoveries => RecoverStep(old, new)
  /\ IF new.grants = old.grants THEN new.limit <= old.limit ELSE GrantStep(old, new)

\* A compare-and-exchange of host h: awaited by it or abandoned, and with the
\* ownership of the log in its hands or not.
Job(h, kind, image, guarded) ==
  [host |-> h, kind |-> kind, image |-> image, awaited |-> TRUE, guarded |-> guarded]

Ask(h, kind, image, guarded) == jobs' = jobs \cup {Job(h, kind, image, guarded)}

-----------------------------------------------------------------------------
(***************************************************************************)
(* BudgetExecutionLease.                                                   *)
(***************************************************************************)
\* restore_checkpoint under the ceiling of a host.
Restored(image, limit) ==
  LET lower == Min({image.limit, limit})
  IN [spent |-> image.spent, limit |-> lower,
      stop |-> IF image.stop = "none" /\ image.spent >= lower THEN "limit" ELSE image.stop]

\* Mutant: the identifier of an execution is that of its turn.
AcquireSameId(h, limit) ==
  LET image == [Latest EXCEPT !.revision = @ + 1, !.exec = 1 + Len(log)]
  IN /\ pc[h] = "idle" /\ execs < MaxExec
     /\ Quiescent(Latest) /\ Restored(Latest, limit).stop = "none"
     /\ Latest.revision < MaxRevision
     /\ execs' = execs + 1
     /\ pc' = [pc EXCEPT ![h] = "claim"]
     /\ base' = [base EXCEPT ![h] = Latest] /\ claim' = [claim EXCEPT ![h] = image]
     /\ ledger' = [ledger EXCEPT ![h] = Restored(Latest, limit)]
     /\ Ask(h, "claim", image, FALSE)
     /\ UNCHANGED <<chain, log, open, owner, kept, told>>

\* acquire, up to its compare-and-exchange: any host, with a ceiling of its own.
Acquire(h, limit) ==
  LET image == [Latest EXCEPT !.revision = @ + 1, !.exec = execs + 1]
  IN /\ pc[h] = "idle" /\ execs < MaxExec
     /\ Quiescent(Latest) /\ Restored(Latest, limit).stop = "none"
     /\ Latest.revision < MaxRevision
     /\ execs' = execs + 1
     /\ pc' = [pc EXCEPT ![h] = "claim"]
     /\ base' = [base EXCEPT ![h] = Latest] /\ claim' = [claim EXCEPT ![h] = image]
     /\ ledger' = [ledger EXCEPT ![h] = Restored(Latest, limit)]
     /\ Ask(h, "claim", image, FALSE)
     /\ UNCHANGED <<chain, log, open, owner, kept, told>>

\* verify_history and the first append of a turn.
BeginTurn(h) ==
  /\ pc[h] = "leased" /\ owner = h /\ AtTail(base[h])
  /\ pc' = [pc EXCEPT ![h] = "turn"] /\ open' = TRUE
  /\ UNCHANGED <<chain, jobs, base, claim, ledger, log, owner, execs, kept, told>>

\* The run ends, its report and the terminal event are durable.  It may have
\* stopped the task; what exceeds the limit always has (BudgetLedger).
CloseTurn(h, cost, stop) ==
  LET total == ledger[h].spent + cost
  IN /\ pc[h] = "turn" /\ owner = h
     /\ total > ledger[h].limit => stop # "none"
     /\ pc' = [pc EXCEPT ![h] = "closed"]
     /\ ledger' = [ledger EXCEPT ![h].spent = total, ![h].stop = stop]
     /\ log' = Append(log, [exec |-> claim[h].exec, spent |-> total, limit |-> ledger[h].limit,
                            stop |-> stop])
     /\ open' = FALSE
     /\ UNCHANGED <<chain, jobs, base, claim, owner, execs, kept, told>>

\* commit_closed, up to its compare-and-exchange.
CommitClosed(h) ==
  LET image == [claim[h] EXCEPT !.revision = @ + 1, !.exec = 0, !.anchor = Len(log),
                  !.spent = ledger[h].spent, !.limit = ledger[h].limit, !.stop = ledger[h].stop]
  IN /\ pc[h] = "closed" /\ claim[h].revision < MaxRevision
     /\ Len(log) = base[h].anchor + 1 /\ Confirms(Last(log), image.spent, image)
     /\ pc' = [pc EXCEPT ![h] = "commit"]
     /\ Ask(h, "commit", image, FALSE)
     /\ UNCHANGED <<chain, base, claim, ledger, log, open, owner, execs, kept, told>>

\* The lease is dropped: a rejected admission, a turn that failed to commit, a
\* run that left work behind.  An unfinished turn stays in the log.
DropLease(h) ==
  /\ pc[h] \in {"leased", "turn", "closed"}
  /\ pc' = [pc EXCEPT ![h] = "idle"]
  /\ UNCHANGED <<chain, jobs, base, claim, ledger, log, open, owner, execs, kept, told>>

-----------------------------------------------------------------------------
(***************************************************************************)
(* grant_budget and recover_budget_candidate, by the owner of the log.     *)
(***************************************************************************)
Grant(h, op) ==
  LET record == [op |-> op, source |-> Latest.revision, anchor |-> Latest.anchor,
                 old |-> Latest.limit, oldStop |-> Latest.stop, new |-> NewLimit[op]]
  IN /\ pc[h] = "idle" /\ owner = h
     /\ \/ /\ Recorded(Latest.grants, op)
           /\ told' = told \cup {op} /\ UNCHANGED <<pc, jobs>>
        \/ /\ ~Recorded(Latest.grants, op)
           /\ Quiescent(Latest) /\ AtTail(Latest)
           /\ Increases(Latest.limit, NewLimit[op], Latest.stop) /\ Latest.spent < NewLimit[op]
           /\ Latest.revision < MaxRevision
           /\ pc' = [pc EXCEPT ![h] = "grant"]
           /\ Ask(h, "grant", [Latest EXCEPT !.revision = @ + 1, !.limit = NewLimit[op],
                                 !.stop = "none", !.grants = Append(@, record)], FALSE)
           /\ UNCHANGED told
     /\ UNCHANGED <<chain, base, claim, ledger, log, open, owner, execs, kept>>

\* Mutant: any claim is closed by a candidate that fits the log.
RecoverAny(h, op, candidate) ==
  LET record == [op |-> op, exec |-> Latest.exec, source |-> Latest.revision]
  IN /\ pc[h] = "idle" /\ owner = h /\ ~Recorded(Latest.recoveries, op)
     /\ Latest.revision < MaxRevision
     /\ pc' = [pc EXCEPT ![h] = "recover"]
     /\ Ask(h, "recover", [candidate EXCEPT !.revision = Latest.revision + 1,
                             !.recoveries = Append(@, record)], TRUE)
     /\ UNCHANGED <<told, chain, base, claim, ledger, log, open, owner, execs, kept>>

\* The request names the claim the candidate succeeds; whatever else is refused.
Recover(h, op, candidate) ==
  LET record == [op |-> op, exec |-> Latest.exec, source |-> Latest.revision]
      recovered == [candidate EXCEPT !.recoveries = Append(@, record)]
  IN /\ pc[h] = "idle" /\ owner = h
     /\ \/ /\ Recorded(Latest.recoveries, op)
           /\ \E i \in DOMAIN Latest.recoveries :
                /\ Latest.recoveries[i].op = op
                /\ Latest.recoveries[i].source + 1 = candidate.revision
           /\ told' = told \cup {op} /\ UNCHANGED <<pc, jobs>>
        \/ /\ ~Recorded(Latest.recoveries, op)
           /\ AtTail(candidate) /\ Latest # candidate
           /\ Latest.revision + 1 = candidate.revision /\ ~Quiescent(Latest)
           /\ Transition(Latest, recovered)
           /\ pc' = [pc EXCEPT ![h] = "recover"]
           /\ Ask(h, "recover", recovered, TRUE)
           /\ UNCHANGED told
     /\ UNCHANGED <<chain, base, claim, ledger, log, open, owner, execs, kept>>

-----------------------------------------------------------------------------
(***************************************************************************)
(* The store, and what becomes of its callers.                             *)
(***************************************************************************)
\* The operation an image records last.
OpDone(image, kind) ==
  IF kind = "grant" THEN {Last(image.grants).op} ELSE {Last(image.recoveries).op}

\* Mutant: an error that does not say the image was not committed is a success.
AnsweredLucky(j, ok) ==
  LET h == j.host
  IN IF ~j.awaited THEN UNCHANGED <<pc, kept, told>>
     ELSE /\ pc' = [pc EXCEPT ![h] = IF j.kind = "claim" THEN "leased" ELSE "idle"]
          /\ kept' = IF j.kind = "commit" THEN kept \cup {j.image} ELSE kept
          /\ told' = IF j.kind \in {"grant", "recover"}
                     THEN told \cup OpDone(j.image, j.kind) ELSE told

\* The host's continuation of an answer to job j.
Answered(j, ok) ==
  LET h == j.host
  IN IF ~j.awaited THEN UNCHANGED <<pc, kept, told>>
     ELSE /\ pc' = [pc EXCEPT ![h] = IF ok /\ j.kind = "claim" THEN "leased" ELSE "idle"]
          /\ kept' = IF j.kind = "commit" /\ ~ok THEN kept \cup {j.image} ELSE kept
          /\ told' = IF ok /\ j.kind \in {"grant", "recover"}
                     THEN told \cup OpDone(j.image, j.kind) ELSE told

\* Mutant: the expected revision is not compared.
ExchangeBlindly(j, ok) ==
  /\ j \in jobs
  /\ chain' = Append(chain, [j.image EXCEPT !.revision = Latest.revision + 1])
  /\ Answered(j, ok)
  /\ jobs' = jobs \ {j}
  /\ UNCHANGED <<base, claim, ledger, log, open, owner, execs>>

\* compare_exchange by its worker: replayed, refused, or committed; in the end
\* the answer is what happened or an error.
CompareExchange(j, ok) ==
  LET replayed == Latest = j.image
      commits == ~replayed /\ Latest.revision + 1 = j.image.revision /\ Transition(Latest, j.image)
  IN /\ j \in jobs
     /\ ok => replayed \/ commits
     /\ chain' = IF commits THEN Append(chain, j.image) ELSE chain
     /\ Answered(j, ok)
     /\ jobs' = jobs \ {j}
     /\ UNCHANGED <<base, claim, ledger, log, open, owner, execs>>

\* The attempt fails before the first write: busy, closed, out of limits.
Refuse(j) ==
  /\ j \in jobs
  /\ Answered(j, FALSE)
  /\ jobs' = jobs \ {j}
  /\ UNCHANGED <<chain, base, claim, ledger, log, open, owner, execs>>

\* The caller's future is dropped; the worker is not.
Cancel(h) ==
  \E j \in jobs :
    /\ j.host = h /\ j.awaited
    /\ jobs' = (jobs \ {j}) \cup {[j EXCEPT !.awaited = FALSE]}
    /\ pc' = [pc EXCEPT ![h] = "idle"]
    /\ UNCHANGED <<chain, base, claim, ledger, log, open, owner, execs, kept, told>>

\* A process dies, with its workers and its ownership.
Crash(h) ==
  /\ \/ pc[h] # "idle" \/ owner = h \/ \E j \in jobs : j.host = h
  /\ pc' = [pc EXCEPT ![h] = "idle"]
  /\ jobs' = {j \in jobs : j.host # h}
  /\ owner' = IF owner = h THEN None ELSE owner
  /\ UNCHANGED <<chain, base, claim, ledger, log, open, execs, kept, told>>

\* The writer ownership of the Session, between calls, or given up under them.
Own(h) ==
  /\ owner = None /\ owner' = h
  /\ UNCHANGED <<chain, jobs, pc, base, claim, ledger, log, open, execs, kept, told>>

Disown(h) ==
  /\ owner = h /\ pc[h] \notin {"turn", "grant"}
  /\ ~\E j \in jobs : j.host = h /\ j.guarded
  /\ owner' = None
  /\ UNCHANGED <<chain, jobs, pc, base, claim, ledger, log, open, execs, kept, told>>

-----------------------------------------------------------------------------
Init ==
  /\ chain = <<FirstImage>> /\ jobs = {} /\ log = <<>> /\ open = FALSE /\ owner = None
  /\ pc = [h \in Hosts |-> "idle"]
  /\ base = [h \in Hosts |-> FirstImage] /\ claim = base
  /\ ledger = [h \in Hosts |-> [spent |-> 0, limit |-> First, stop |-> "none"]]
  /\ execs = 0 /\ kept = {} /\ told = {}

Lease(h) == \/ \E limit \in Ceilings : Acquire(h, limit)
            \/ BeginTurn(h) \/ CommitClosed(h) \/ DropLease(h)
            \/ \E cost \in Costs, stop \in Stops : CloseTurn(h, cost, stop)
Audit(h) == \/ \E op \in GrantOps : Grant(h, op)
            \/ \E op \in RecoverOps, candidate \in kept : Recover(h, op, candidate)
Store == \E j \in jobs : Refuse(j) \/ \E ok \in BOOLEAN : CompareExchange(j, ok)
Outside(h) == Cancel(h) \/ Crash(h) \/ Own(h) \/ Disown(h)

Next == Store \/ \E h \in Hosts : Lease(h) \/ Audit(h) \/ Outside(h)

Spec == Init /\ [][Next]_vars

-----------------------------------------------------------------------------
Image == [revision : 1 .. MaxRevision, exec : 0 .. MaxExec, anchor : Nat, spent : Nat,
          limit : Limit, stop : Stops,
          grants : Seq([op : GrantOps, source : Nat, anchor : Nat, old : Limit, oldStop : Stops,
                        new : Limit]),
          recoveries : Seq([op : RecoverOps, exec : 1 .. MaxExec, source : Nat])]

\* Types.
TypeOK ==
  /\ chain \in Seq(Image) /\ chain # <<>>
  /\ jobs \subseteq [host : Hosts, kind : {"claim", "commit", "grant", "recover"}, image : Image,
                     awaited : BOOLEAN, guarded : BOOLEAN]
  /\ pc \in [Hosts -> {"idle", "claim", "leased", "turn", "closed", "commit", "grant", "recover"}]
  /\ base \in [Hosts -> Image] /\ claim \in [Hosts -> Image]
  /\ ledger \in [Hosts -> [spent : Nat, limit : Limit, stop : Stops]]
  /\ log \in Seq([exec : 1 .. MaxExec, spent : Nat, limit : Limit, stop : Stops])
  /\ open \in BOOLEAN /\ owner \in Hosts \cup {None} /\ execs \in 0 .. MaxExec
  /\ kept \subseteq Image /\ told \subseteq GrantOps \cup RecoverOps

\* At most one host holds a lease it may still execute or commit under,
\* whatever answers were lost and whoever raced for the claim.
Executing == {h \in Hosts : pc[h] \in {"leased", "turn", "closed"}}
OneExecutor == \A g, h \in Executing : g = h

\* A ready image is at the tail of the log and accounts for every turn in it:
\* neither a crash between the two commits nor a late compare-and-exchange
\* leaves an image a host could resume from with work missing.
ReadyIsConfirmed == Quiescent(Latest) => AtTail(Latest)

\* Nothing spent is forgotten and no limit rises but by a grant, from image to
\* image, through execution, recovery and hosts with ceilings of their own.
SpendingKept ==
  \A i \in 1 .. Len(chain) - 1 :
    /\ chain[i + 1].spent >= chain[i].spent
    /\ chain[i + 1].limit > chain[i].limit => Len(chain[i + 1].grants) > Len(chain[i].grants)

\* Whoever was told that an operation is applied finds it in the audit, also
\* after later executions and recoveries.
ToldIsTrue ==
  \A op \in told : Recorded(Latest.grants, op) \/ Recorded(Latest.recoveries, op)

\* The three together: what the latest image says of its turns, its spending and
\* its audit is true.
ImageTruthful == ReadyIsConfirmed /\ SpendingKept /\ ToldIsTrue

\* A claim ends only with the turn that was executed under it.
ClosedByItsTurn ==
  [][~Quiescent(Latest) /\ Quiescent(Latest')
     => log # <<>> /\ Last(log).exec = Latest.exec /\ Latest'.anchor = Len(log)]_vars

\* The claims of this store are those of ExecutionClaim.
ClaimIds == {chain[i].exec : i \in DOMAIN chain} \ {0}
Promise == INSTANCE ExecutionClaim
  WITH Ids <- 1 .. MaxExec, claim <- Latest.exec, past <- ClaimIds, turns <- Len(log),
       paid <- Latest.anchor
ImplementsClaim == Promise!Spec
=============================================================================
