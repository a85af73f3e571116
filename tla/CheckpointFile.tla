--------------------------- MODULE CheckpointFile ---------------------------
(***************************************************************************)
(* The local file stores of checkpoints: crates/budget/file for budgets    *)
(* and crates/task/file for task snapshots, which differ in what a record  *)
(* holds and in nothing else that is modelled here.                        *)
(*                                                                         *)
(* A store is an instance, with clones, in a process of its own; stores    *)
(* share one file.  An operation is admitted under the store's lock, then  *)
(* runs on the blocking pool with a permit: it opens the file, tries the   *)
(* OS lock, reads all records, and writes or syncs.  Its future may be     *)
(* dropped, its process may die, the machine may lose power.  A successful *)
(* sync covers every line the file shows.                                  *)
(***************************************************************************)
EXTENDS Integers, SequencesExt, FiniteSets

CONSTANTS
  Stores, Jobs, Closers,   \* instances, operations, callers of close
  Records,      \* [seq |-> expected_revision, id |-> the checkpoint]
  None,
  Torn,         \* a line without its end
  MaxJobs,      \* max_io_jobs
  MaxRecords,   \* max_log_bytes, in records
  Faults        \* among "io", "write", "sync", "join", "crash", "power"

NamesAssumption == None \notin Stores \cup Jobs \cup Records
RecordsAssumption == \A r, q \in Records : r.seq \in Nat /\ (r.id = q.id => r = q)
BoundsAssumption == MaxJobs \in Nat \ {0} /\ MaxRecords \in Nat
FaultsAssumption == Faults \subseteq {"io", "write", "sync", "join", "crash", "power"}

VARIABLES
  file,     \* the lines
  synced,   \* how many of them survive the loss of power
  lock,     \* the operation that holds the OS lock
  store,    \* Control of each store
  job,      \* each operation
  closer,   \* each call of close
  acked     \* the records a caller was told are committed

vars == <<file, synced, lock, store, job, closer, acked>>

Open == [accepting |-> TRUE, inFlight |-> 0]

Job == [at : {"idle", "queued", "write", "sync", "done"}, store : Stores \cup {None},
        record : Records \cup {None}, waiting : BOOLEAN,
        answer : {"none", "ok", "definite", "indeterminate"}, wrote : BOOLEAN,
        latest : Records \cup {None}]
Idle == [at |-> "idle", store |-> None, record |-> None, waiting |-> FALSE, answer |-> "none",
         wrote |-> FALSE, latest |-> None]

\* notified: the Notified future a closer enabled has been woken.
Closing == [at : {"idle", "enable", "check", "wait", "done"}, store : Stores \cup {None},
            notified : BOOLEAN]
Away == [at |-> "idle", store |-> None, notified |-> FALSE]

IsLoad(j) == job[j].record = None
Busy(s) == {j \in Jobs : job[j].store = s /\ job[j].at \in {"queued", "write", "sync"}}

\* read_latest succeeds: whole records, a contiguous chain of revisions.
Chained(lines) == \A i \in DOMAIN lines : lines[i].seq = i - 1
Readable == Torn \notin ToSet(file) /\ Chained(file)
Newest == IF file = <<>> THEN None ELSE Last(file)

-----------------------------------------------------------------------------
(***************************************************************************)
(* Admission and its end.                                                  *)
(***************************************************************************)
\* load (record None) or compare_exchange, up to the permit; a refusal leaves
\* no trace.
Admit(j, s, r) ==
  /\ job[j].at = "idle"
  /\ store[s].accepting /\ store[s].inFlight < MaxJobs
  /\ store' = [store EXCEPT ![s].inFlight = @ + 1]
  /\ job' = [job EXCEPT ![j] = [Idle EXCEPT !.at = "queued", !.store = s, !.record = r,
                                            !.waiting = TRUE]]
  /\ UNCHANGED <<file, synced, lock, closer, acked>>

\* Drop of a permit: the last one wakes the closers that have enabled.
Release(s) ==
  /\ store' = [store EXCEPT ![s].inFlight = @ - 1]
  /\ closer' = IF store[s].inFlight # 1 THEN closer
               ELSE [c \in Closers |->
                       IF closer[c].store = s /\ closer[c].at \in {"check", "wait"}
                       THEN [closer[c] EXCEPT !.notified = TRUE] ELSE closer[c]]

\* The work ends with an answer: the OS lock and the permit are given back.
End(j, answer) ==
  /\ job' = [job EXCEPT ![j] = IF @.waiting THEN [@ EXCEPT !.at = "done", !.answer = answer]
                               ELSE Idle]
  /\ lock' = IF lock = j THEN None ELSE lock
  /\ Release(job[j].store)

Proceed(j, at) ==
  /\ job' = [job EXCEPT ![j].at = at, ![j].latest = Newest]
  /\ lock' = j
  /\ UNCHANGED <<store, closer>>

-----------------------------------------------------------------------------
(***************************************************************************)
(* The work on the blocking pool.                                          *)
(***************************************************************************)
\* Mutant: a record that is there already needs no sync.
DecideNoSync(j) ==
  LET r == job[j].record
  IN \/ IsLoad(j) /\ End(j, "ok")
     \/ ~IsLoad(j) /\ Newest = r /\ End(j, "ok")
     \/ ~IsLoad(j) /\ Newest # r /\ Len(file) # r.seq /\ End(j, "definite")
     \/ ~IsLoad(j) /\ Newest # r /\ Len(file) = r.seq /\ Proceed(j, "write")

\* What the work does with the records it has read.
Decide(j) ==
  LET r == job[j].record
      fits == Len(file) < MaxRecords
  IN \/ IsLoad(j) /\ Proceed(j, "sync")
     \/ ~IsLoad(j) /\ Newest = r /\ Proceed(j, "sync")
     \/ ~IsLoad(j) /\ Newest # r /\ ~(Len(file) = r.seq /\ fits) /\ End(j, "definite")
     \/ ~IsLoad(j) /\ Newest # r /\ Len(file) = r.seq /\ fits /\ Proceed(j, "write")

\* locked_file, read_latest, and the decision.
Enter(j) ==
  /\ job[j].at = "queued"
  /\ \/ (lock # None \/ "io" \in Faults) /\ End(j, "definite")   \* Busy, or not opened
     \/ lock = None /\ ~Readable /\ End(j, "definite")           \* Corrupt
     \/ lock = None /\ Readable /\ Decide(j)
  /\ UNCHANGED <<file, synced, acked>>

\* write_all at the end of the file.
Write(j) ==
  /\ job[j].at = "write"
  /\ \/ /\ file' = Append(file, job[j].record)
        /\ job' = [job EXCEPT ![j].at = "sync", ![j].wrote = TRUE]
        /\ UNCHANGED <<lock, store, closer>>
     \/ /\ "write" \in Faults
        /\ file' \in {file, Append(file, Torn)}
        /\ End(j, "indeterminate")
  /\ UNCHANGED <<synced, acked>>

\* sync_all.
Sync(j) ==
  /\ job[j].at = "sync"
  /\ \/ synced' = Len(file) /\ End(j, "ok")
     \/ "sync" \in Faults /\ UNCHANGED synced /\ End(j, "indeterminate")
  /\ UNCHANGED <<file, acked>>

\* The pool drops work it has not started.
JoinFails(j) ==
  /\ "join" \in Faults /\ job[j].at = "queued"
  /\ End(j, "indeterminate")
  /\ UNCHANGED <<file, synced, acked>>

\* The future is polled with the result.
Take(j) ==
  /\ job[j].at = "done"
  /\ acked' = IF job[j].answer # "ok" THEN acked
              ELSE acked \cup ({IF IsLoad(j) THEN job[j].latest ELSE job[j].record} \ {None})
  /\ job' = [job EXCEPT ![j] = Idle]
  /\ UNCHANGED <<file, synced, lock, store, closer>>

\* The future is dropped; the work goes on with its permit.
Cancel(j) ==
  /\ job[j].waiting
  /\ job' = [job EXCEPT ![j] = IF @.at = "done" THEN Idle ELSE [@ EXCEPT !.waiting = FALSE]]
  /\ UNCHANGED <<file, synced, lock, store, closer, acked>>

-----------------------------------------------------------------------------
(***************************************************************************)
(* close, and what ends a process.                                         *)
(***************************************************************************)
Close(c, s) ==
  /\ closer[c].at = "idle"
  /\ store' = [store EXCEPT ![s].accepting = FALSE]
  /\ closer' = [closer EXCEPT ![c] = [Away EXCEPT !.at = "enable", !.store = s]]
  /\ UNCHANGED <<file, synced, lock, job, acked>>

\* One step of the loop: enable, look, wait.
CloseStep(c) ==
  LET me == closer[c]
  IN /\ closer' = [closer EXCEPT ![c] =
          CASE me.at = "enable" -> [me EXCEPT !.at = "check", !.notified = FALSE]
            [] me.at = "check" ->
                 [me EXCEPT !.at = IF store[me.store].inFlight = 0 THEN "done" ELSE "wait"]
            [] me.at = "wait" /\ me.notified -> [me EXCEPT !.at = "enable"]]
     /\ UNCHANGED <<file, synced, lock, store, job, acked>>

\* A closer may leave before it returns; the store stays closed.
Leave(c) ==
  /\ closer[c].at # "idle"
  /\ closer' = [closer EXCEPT ![c] = Away]
  /\ UNCHANGED <<file, synced, lock, store, job, acked>>

\* What the death of a store's process leaves: its next life is an opened store.
Dead(S) ==
  /\ store' = [s \in Stores |-> IF s \in S THEN Open ELSE store[s]]
  /\ job' = [j \in Jobs |-> IF job[j].store \in S THEN Idle ELSE job[j]]
  /\ closer' = [c \in Closers |-> IF closer[c].store \in S THEN Away ELSE closer[c]]
  /\ lock' = IF lock # None /\ job[lock].store \in S THEN None ELSE lock

Crash(s) ==
  /\ "crash" \in Faults
  /\ \/ UNCHANGED file
     \/ /\ \E j \in Busy(s) : job[j].at = "write"
        /\ file' = Append(file, Torn)
  /\ Dead({s})
  /\ UNCHANGED <<synced, acked>>

PowerLoss ==
  /\ "power" \in Faults
  /\ \E n \in synced .. Len(file) :
       file' \in {SubSeq(file, 1, n)} \cup
                 {Append(SubSeq(file, 1, n), Torn) : i \in n + 1 .. Len(file)}
  /\ Dead(Stores)
  /\ UNCHANGED <<synced, acked>>

-----------------------------------------------------------------------------
Init ==
  /\ file = <<>> /\ synced = 0 /\ lock = None /\ acked = {}
  /\ store = [s \in Stores |-> Open]
  /\ job = [j \in Jobs |-> Idle]
  /\ closer = [c \in Closers |-> Away]

Work(j) == Enter(j) \/ Write(j) \/ Sync(j)
Loop(c) ==
  /\ closer[c].at \in {"enable", "check"} \/ (closer[c].at = "wait" /\ closer[c].notified)
  /\ CloseStep(c)

Next ==
  \/ \E j \in Jobs, s \in Stores, r \in Records \cup {None} : Admit(j, s, r)
  \/ \E j \in Jobs : Work(j) \/ JoinFails(j) \/ Take(j) \/ Cancel(j)
  \/ \E c \in Closers : Loop(c) \/ Leave(c) \/ \E s \in Stores : Close(c, s)
  \/ PowerLoss \/ \E s \in Stores : Crash(s)

Spec == Init /\ [][Next]_vars

-----------------------------------------------------------------------------
\* Types.
TypeOK ==
  /\ file \in Seq(Records \cup {Torn}) /\ synced \in 0 .. Len(file)
  /\ lock \in Jobs \cup {None}
  /\ store \in [Stores -> [accepting : BOOLEAN, inFlight : 0 .. Cardinality(Jobs)]]
  /\ job \in [Jobs -> Job] /\ closer \in [Closers -> Closing]
  /\ acked \subseteq Records

\* The attempt that reports it has not committed has not written.
DefiniteIsTrue == \A j \in Jobs : job[j].answer = "definite" => ~job[j].wrote

\* Permits are exact, also for work whose caller left, and never above the
\* limit.  When close has returned, no work of the store runs or ever will,
\* until the file is opened anew; a closer that nobody has woken has an
\* operation to wait for, however its call raced with the last permit.
ClosesClean ==
  /\ \A s \in Stores : store[s].inFlight = Cardinality(Busy(s)) /\ store[s].inFlight <= MaxJobs
  /\ \A c \in Closers :
       /\ closer[c].at = "done" =>
            ~store[closer[c].store].accepting /\ Busy(closer[c].store) = {}
       /\ closer[c].at = "wait" /\ ~closer[c].notified => store[closer[c].store].inFlight > 0
=============================================================================
