-------------------------- MODULE JsonlPersistence --------------------------
(***************************************************************************)
(* The JSONL storage of one Session (crates/session/jsonl): providers in   *)
(* one or several processes on the same file, the blocking tasks that      *)
(* outlive the futures awaiting them, the writer lock, the latch that a    *)
(* failed write leaves, stop, recovery owners, crashes and loss of power.  *)
(*                                                                         *)
(* The file is a sequence of lines: events, or a torn last line.  synced   *)
(* lines survive a loss of power; the rest is what the system still has    *)
(* in memory.  A sync that succeeds covers every line the file shows, the  *)
(* guarantee sync_data is used for.                                        *)
(*                                                                         *)
(* job.at is where an operation is:                                        *)
(*   admit, counted   in OperationControl::admit, before and after the     *)
(*                    fetch_add                                            *)
(*   queued           its blocking task is spawned and waits for the gate  *)
(*   write, sync      in commit_sync, holding the gate                     *)
(*   resync           in load_sync or the replay of commit_sync, about to  *)
(*                    sync lines that somebody else may have written       *)
(*   done             its task has ended; the future has not been polled   *)
(***************************************************************************)
EXTENDS Integers, SequencesExt, FiniteSetsExt

CONSTANTS
  Providers,  \* instances of JsonlSessionPersistence, reopened after a crash
  Recovery,   \* those that belong to a JsonlRecoveryOwnership, which only loads
  Stoppable,  \* those whose lifecycle a registry may stop
  Jobs,       \* concurrent operations
  Events,     \* the events that may be committed
  None,       \* no job, no provider, no event
  Torn,       \* a line that was not written to its end
  Faults      \* what may fail, a subset of AllFaults

\* io: files or locks that cannot be opened or read.  write: a write that fails
\* after all, part or none of the line.  sync: sync_data fails.  join: the
\* executor drops a task it has not started.  crash: a process dies.  power:
\* the machine does.
AllFaults == {"io", "write", "sync", "join", "crash", "power"}

ASSUME EventsAssumption == \A e \in Events : e.seq \in Nat /\ "id" \in DOMAIN e
ASSUME RolesAssumption == Recovery \subseteq Providers /\ Stoppable \subseteq Providers \ Recovery
ASSUME FaultsAssumption == Faults \subseteq AllFaults
ASSUME JobsAssumption == IsFiniteSet(Jobs)
ASSUME NoneAssumption == None \notin Providers \cup Jobs \cup Events /\ Torn \notin Events

VARIABLES
  file,    \* the lines of the Session's file
  synced,  \* how many of them are known durable
  owner,   \* the provider that holds the writer lock
  prov,    \* the state of each provider
  job,     \* the operations
  acked    \* the events some caller was told are durable

vars == <<file, synced, owner, prov, job, acked>>

\* OperationControl, the SessionState behind the gate, and where stop is.
Provider == [life : {"absent", "live", "dropped"}, stopping : BOOLEAN,
             inflight : 0 .. Cardinality(Jobs), drained : BOOLEAN, stop : {"no", "check", "wait", "done"}, uncertain : BOOLEAN,
             gate : Jobs \cup {None}]

Fresh(life) ==
  [life |-> life, stopping |-> FALSE, inflight |-> 0, drained |-> FALSE,
   stop |-> "no", uncertain |-> FALSE, gate |-> None]

Answers == {"none", "ok", "definite", "indeterminate", "corrupt", "conflict"}

\* wrote: the operation has touched the file.  read: the lines a load found.
Job == [at : {"idle", "admit", "counted", "queued", "write", "sync", "resync", "done"},
        prov : Providers \cup {None}, event : Events \cup {None},
        waiting : BOOLEAN, answer : Answers, wrote : BOOLEAN, read : Seq(Events)]

Idle == [at |-> "idle", prov |-> None, event |-> None, waiting |-> FALSE,
         answer |-> "none", wrote |-> FALSE, read |-> <<>>]

IsLoad(j) == job[j].event = None
Busy(p) == {j \in Jobs : job[j].prov = p}

ValidLog(log) ==
  /\ \A i \in DOMAIN log : log[i].seq = i - 1
  /\ \A i, j \in DOMAIN log : log[i].id = log[j].id => i = j

\* read_physical_log succeeds.
Readable == Torn \notin ToSet(file) /\ ValidLog(file)

-----------------------------------------------------------------------------
(***************************************************************************)
(* Admission.                                                              *)
(***************************************************************************)
\* load or commit_durable up to the first look at stopping.  A recovery owner
\* only loads.
Call(j, p, e) ==
  /\ job[j].at = "idle" /\ prov[p].life = "live"
  /\ e # None => p \notin Recovery
  /\ ~prov[p].stopping
  /\ job' = [job EXCEPT ![j] = [Idle EXCEPT !.at = "admit", !.prov = p, !.event = e,
                                            !.waiting = TRUE]]
  /\ UNCHANGED <<file, synced, owner, prov, acked>>

Count(j) ==
  /\ job[j].at = "admit"
  /\ prov' = [prov EXCEPT ![job[j].prov].inflight = @ + 1]
  /\ job' = [job EXCEPT ![j].at = "counted"]
  /\ UNCHANGED <<file, synced, owner, acked>>

\* Mutant: release without the wakeup.
ReleasedSilently(r) == [r EXCEPT !.inflight = @ - 1]

\* OperationControl::release of a provider's record: the last one out leaves
\* the permit for stop.
Released(r) == [r EXCEPT !.inflight = @ - 1, !.drained = @ \/ r.inflight = 1]

\* The second look at stopping, and spawn_blocking.
Recheck(j) ==
  LET p == job[j].prov
  IN /\ job[j].at = "counted"
     /\ IF prov[p].stopping
        THEN /\ prov' = [prov EXCEPT ![p] = Released(@)]
             /\ job' = [job EXCEPT ![j] = Idle]
        ELSE /\ job' = [job EXCEPT ![j].at = "queued"]
             /\ UNCHANGED prov
     /\ UNCHANGED <<file, synced, owner, acked>>

-----------------------------------------------------------------------------
(***************************************************************************)
(* The blocking task.                                                      *)
(***************************************************************************)
\* The task ends with answer a and its provider in state r: the gate and the
\* permit are given back, and the answer waits for a caller that still does.
End(j, a, r) ==
  /\ prov' = [prov EXCEPT ![job[j].prov] = Released([r EXCEPT !.gate = None])]
  /\ job' = [job EXCEPT ![j] = IF @.waiting THEN [@ EXCEPT !.at = "done", !.answer = a] ELSE Idle]

\* The task takes the gate and does not give it back yet.
Hold(j, at, r) ==
  /\ prov' = [prov EXCEPT ![job[j].prov] = [r EXCEPT !.gate = j]]
  /\ job' = [job EXCEPT ![j].at = at, ![j].read = IF IsLoad(j) THEN file ELSE <<>>]

\* What load_sync and commit_sync do with the lines they have read.
Decide(j) ==
  LET r == prov[job[j].prov]
      e == job[j].event
      sameId == \E l \in ToSet(file) : l.id = e.id
  IN \/ IsLoad(j) /\ file = <<>> /\ End(j, "ok", r)
     \/ IsLoad(j) /\ file # <<>> /\ Hold(j, "resync", r)
     \/ ~IsLoad(j) /\ e \in ToSet(file) /\ Hold(j, "resync", r)
     \/ ~IsLoad(j) /\ e \notin ToSet(file) /\ (sameId \/ e.seq # Len(file))
        /\ End(j, "conflict", r)
     \/ ~IsLoad(j) /\ ~sameId /\ e.seq = Len(file)
        /\ Hold(j, "write", [r EXCEPT !.uncertain = TRUE])

\* load_sync and commit_sync up to the first write or sync: the gate, the
\* writer lock, the latch, the lines.
Enter(j) ==
  LET p == job[j].prov
      r == prov[p]
  IN /\ job[j].at = "queued" /\ r.gate = None
     /\ \/ /\ owner # p /\ (owner # None \/ "io" \in Faults)   \* ensure_writer
           /\ End(j, "definite", r)
           /\ UNCHANGED owner
        \/ /\ owner \in {None, p}
           /\ owner' = p
           /\ \/ r.uncertain /\ End(j, "indeterminate", r)
              \/ ~r.uncertain /\ "io" \in Faults /\ End(j, "definite", r)
              \/ ~r.uncertain /\ ~Readable /\ End(j, "corrupt", r)
              \/ ~r.uncertain /\ Readable /\ Decide(j)
     /\ UNCHANGED <<file, synced, acked>>

\* write_all: the whole line, or a failure that leaves part or nothing of it.
Write(j) ==
  /\ job[j].at = "write"
  /\ \/ /\ file' = Append(file, job[j].event)
        /\ job' = [job EXCEPT ![j].at = "sync", ![j].wrote = TRUE]
        /\ UNCHANGED prov
     \/ /\ "write" \in Faults
        /\ file' \in {file, Append(file, Torn)}
        /\ End(j, "indeterminate", prov[job[j].prov])
  /\ UNCHANGED <<synced, owner, acked>>

\* Mutant: a write whose sync failed is reported as not committed.
SyncDefinite(j) ==
  LET r == prov[job[j].prov]
  IN /\ job[j].at \in {"sync", "resync"}
     /\ "sync" \in Faults /\ End(j, "definite", [r EXCEPT !.uncertain = TRUE])
     /\ UNCHANGED <<file, synced, owner, acked>>

\* Mutant: a failed sync is reported, and forgotten.
SyncForgotten(j) ==
  LET r == prov[job[j].prov]
  IN /\ job[j].at \in {"sync", "resync"}
     /\ \/ synced' = Len(file) /\ End(j, "ok", [r EXCEPT !.uncertain = FALSE])
        \/ UNCHANGED synced /\ End(j, "indeterminate", [r EXCEPT !.uncertain = FALSE])
     /\ UNCHANGED <<file, owner, acked>>

\* sync_data, after a write or of lines found in the file.
Sync(j) ==
  LET r == prov[job[j].prov]
  IN /\ job[j].at \in {"sync", "resync"}
     /\ \/ /\ synced' = Len(file)
           /\ End(j, "ok", [r EXCEPT !.uncertain = @ /\ job[j].at = "resync"])
        \/ /\ "sync" \in Faults
           /\ End(j, "indeterminate", [r EXCEPT !.uncertain = TRUE])
           /\ UNCHANGED synced
     /\ UNCHANGED <<file, owner, acked>>

\* The executor drops a task it has not started: the JoinError of a commit
\* latches the gate.
JoinFails(j) ==
  LET r == prov[job[j].prov]
      told == job[j].waiting /\ ~IsLoad(j)
  IN /\ "join" \in Faults
     /\ job[j].at = "queued" /\ (told => r.gate = None)
     /\ prov' = [prov EXCEPT ![job[j].prov] = Released([r EXCEPT !.uncertain = @ \/ told])]
     /\ job' = [job EXCEPT ![j] =
          IF @.waiting
          THEN [@ EXCEPT !.at = "done", !.answer = IF IsLoad(j) THEN "definite" ELSE "indeterminate"]
          ELSE Idle]
     /\ UNCHANGED <<file, synced, owner, acked>>

\* The future is polled with the result of its task.
Take(j) ==
  /\ job[j].at = "done"
  /\ acked' = IF job[j].answer = "ok"
              THEN acked \cup (IF IsLoad(j) THEN ToSet(job[j].read) ELSE {job[j].event})
              ELSE acked
  /\ job' = [job EXCEPT ![j] = Idle]
  /\ UNCHANGED <<file, synced, owner, prov>>

\* The future is dropped while it awaits its task, which goes on.
Cancel(j) ==
  /\ job[j].waiting /\ job[j].at \notin {"idle", "admit", "counted"}
  /\ job' = [job EXCEPT ![j] = IF @.at = "done" THEN Idle ELSE [@ EXCEPT !.waiting = FALSE]]
  /\ UNCHANGED <<file, synced, owner, prov, acked>>

-----------------------------------------------------------------------------
(***************************************************************************)
(* The life of a provider.                                                 *)
(***************************************************************************)
\* JsonlSessionPersistence::new, or the fresh provider of a recovery owner.
Open(p) ==
  /\ prov[p].life = "absent"
  /\ prov' = [prov EXCEPT ![p] = Fresh("live")]
  /\ UNCHANGED <<file, synced, owner, job, acked>>

\* OperationControl::stop, called by the lifecycle of a runtime's provider.
StopBegin(p) ==
  /\ p \in Stoppable /\ prov[p].life = "live" /\ prov[p].stop = "no"
  /\ prov' = [prov EXCEPT ![p].stopping = TRUE, ![p].stop = "check"]
  /\ UNCHANGED <<file, synced, owner, job, acked>>

StopStep(p) ==
  /\ \/ /\ prov[p].stop = "check"
        /\ prov' = [prov EXCEPT ![p].stop = IF prov[p].inflight = 0 THEN "done" ELSE "wait"]
     \/ /\ prov[p].stop = "wait" /\ prov[p].drained
        /\ prov' = [prov EXCEPT ![p].stop = "check", ![p].drained = FALSE]
  /\ UNCHANGED <<file, synced, owner, job, acked>>

\* The last handle of the host is dropped.  Operations hold handles of their own.
Drop(p) ==
  /\ prov[p].life = "live"
  /\ prov' = [prov EXCEPT ![p].life = "dropped"]
  /\ UNCHANGED <<file, synced, owner, job, acked>>

Gone(p) == prov' = [prov EXCEPT ![p] = Fresh("absent")]
LetGo(p) == owner' = IF owner = p THEN None ELSE owner

\* The last handle of all: the gate and its WriterLock are dropped.
Vanish(p) ==
  /\ prov[p].life = "dropped" /\ Busy(p) = {}
  /\ Gone(p) /\ LetGo(p)
  /\ UNCHANGED <<file, synced, job, acked>>

\* The process of a provider dies; a line it was writing may be torn.
Crash(p) ==
  /\ "crash" \in Faults /\ prov[p].life # "absent"
  /\ file' \in {file} \cup {Append(file, Torn) : j \in {j \in Busy(p) : job[j].at = "write"}}
  /\ job' = [j \in Jobs |-> IF j \in Busy(p) THEN Idle ELSE job[j]]
  /\ Gone(p) /\ LetGo(p)
  /\ UNCHANGED <<synced, acked>>

\* Every process dies and the lines not synced are lost, or torn.
PowerLoss ==
  /\ "power" \in Faults
  /\ \E n \in synced .. Len(file) :
       file' \in {SubSeq(file, 1, n)} \cup
                 {Append(SubSeq(file, 1, n), Torn) : i \in n + 1 .. Len(file)}
  /\ prov' = [p \in Providers |-> Fresh("absent")]
  /\ job' = [j \in Jobs |-> Idle]
  /\ owner' = None
  /\ UNCHANGED <<synced, acked>>

-----------------------------------------------------------------------------
Init ==
  /\ file = <<>> /\ synced = 0 /\ owner = None /\ acked = {}
  /\ prov = [p \in Providers |-> Fresh("absent")]
  /\ job = [j \in Jobs |-> Idle]

\* What the executor runs: the first poll of a call, its task, stop.
Work(j) == Count(j) \/ Recheck(j) \/ Enter(j) \/ Write(j) \/ Sync(j)

Next ==
  \/ \E j \in Jobs : Work(j) \/ JoinFails(j) \/ Take(j) \/ Cancel(j)
  \/ \E j \in Jobs, p \in Providers, e \in Events \cup {None} : Call(j, p, e)
  \/ \E p \in Providers : \/ Open(p) \/ StopBegin(p) \/ StopStep(p)
                          \/ Drop(p) \/ Vanish(p) \/ Crash(p)
  \/ PowerLoss

Spec == Init /\ [][Next]_vars

-----------------------------------------------------------------------------
(***************************************************************************)
(* Properties.                                                             *)
(***************************************************************************)
\* Types.
TypeOK ==
  /\ file \in Seq(Events \cup {Torn}) /\ synced \in 0 .. Len(file)
  /\ owner \in Providers \cup {None}
  /\ prov \in [Providers -> Provider]
  /\ job \in [Jobs -> Job]
  /\ acked \subseteq Events

\* An operation that reports it has not committed has not touched the file.
DefiniteIsTrue ==
  \A j \in Jobs : job[j].answer \in {"definite", "corrupt", "conflict"} => ~job[j].wrote

\* When stop has returned, no operation of the provider runs or ever will; while
\* it waits there is one it waits for, or the permit that tells it otherwise.
StopsClean ==
  \A p \in Providers :
    /\ prov[p].stop = "done" => \A j \in Busy(p) : job[j].at \in {"admit", "counted", "done"}
    /\ prov[p].stop = "wait" => prov[p].inflight > 0 \/ prov[p].drained

\* The latch a commit sets is released by a sync that covers the file, within
\* that commit; if the commit fails, no operation of the provider gets at the
\* file for the rest of its life.
LatchStands ==
  \A p \in Providers : prov[p].uncertain /\ prov'[p].life # "absent" =>
    \/ prov'[p].uncertain /\ (prov[p].gate = None => prov'[p].gate = None)
    \/ ~prov'[p].uncertain /\ prov[p].gate # None /\ synced' = Len(file')

\* While a recovery owner holds the Session (it has been given the history),
\* nobody else's operation changes the file (session/src/lib.rs:81).
Isolated ==
  \A p \in Recovery : owner = p /\ prov'[p].life # "absent" => file' = file /\ owner' = p

\* The log only grows where it is synced, stays valid, and keeps every event that
\* some caller was told is durable, through each crash, loss of power, retry and
\* second writer.
Promise == INSTANCE DurableLog WITH kept <- SubSeq(file, 1, synced)
ImplementsPromise == Promise!Spec
=============================================================================
