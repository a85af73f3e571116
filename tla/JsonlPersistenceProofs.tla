----------------------- MODULE JsonlPersistenceProofs -----------------------
(***************************************************************************)
(* Proofs about JsonlPersistence, for any number of providers, recovery    *)
(* owners and operations, any events and every fault: who is at the file,  *)
(* what the synced lines are, what a caller may be told, and that the      *)
(* storage keeps the promise of DurableLog.                                *)
(***************************************************************************)
EXTENDS JsonlPersistence, FiniteSetTheorems, TLAPS

-----------------------------------------------------------------------------
(***************************************************************************)
(* The invariant.                                                          *)
(***************************************************************************)
\* A provider's record, whatever its count.
Record == [life : {"absent", "live", "dropped"}, stopping : BOOLEAN, inflight : Int,
           drained : BOOLEAN, stop : {"no", "check", "wait", "done"}, uncertain : BOOLEAN,
           gate : Jobs \cup {None}]

Typed ==
  /\ file \in Seq(Events \cup {Torn}) /\ synced \in 0 .. Len(file)
  /\ owner \in Providers \cup {None}
  /\ prov \in [Providers -> Record]
  /\ job \in [Jobs -> Job]
  /\ acked \subseteq Events

\* The places where an operation holds a permit, and those where it holds the gate.
Working == {"counted", "queued", "write", "sync", "resync"}
Holding == {"write", "sync", "resync"}

\* The operations a provider counts.
Counted(p) == {j \in Jobs : job[j].prov = p /\ job[j].at \in Working}

\* The events that survive every crash.
Kept == {file[i] : i \in 1 .. synced}

\* What an operation knows of itself, and that its provider is there.
Placed(j) ==
  /\ job[j].at = "idle" => job[j] = Idle
  /\ job[j].at # "idle" => job[j].prov \in Providers /\ prov[job[j].prov].life # "absent"
  /\ job[j].prov \in Recovery => IsLoad(j)
  /\ job[j].at # "done" => job[j].answer = "none"
  /\ job[j].wrote => \/ job[j].at = "sync"
                     \/ job[j].at = "done" /\ job[j].answer \in {"ok", "indeterminate"}
  /\ job[j].at \in {"admit", "counted", "queued"} => job[j].read = <<>>
  /\ job[j].at \in {"write", "sync"} => ~IsLoad(j)
Places == \A j \in Jobs : Placed(j)

\* The gate and the writer lock exclude: who holds them finds the lines it has
\* read, and, until it has synced what it wrote, the latch set.
Held(j) ==
  job[j].at \in Holding =>
    /\ owner = job[j].prov /\ prov[owner].gate = j /\ Readable
    /\ job[j].at = "write" =>
         /\ job[j].event.seq = Len(file)
         /\ \A l \in ToSet(file) : l.id # job[j].event.id
    /\ job[j].at \in {"write", "sync"} => prov[owner].uncertain
    /\ job[j].at = "sync" => job[j].event \in ToSet(file)
    /\ job[j].at = "resync" =>
         IF IsLoad(j) THEN job[j].read = file ELSE job[j].event \in ToSet(file)
Holds == \A j \in Jobs : Held(j)

\* The synced lines are events in their places, and who was told, or is about
\* to be, was told of these.
Durable ==
  /\ \A i \in 1 .. synced : file[i] \in Events /\ file[i].seq = i - 1
  /\ \A i, k \in 1 .. synced : file[i].id = file[k].id => i = k
  /\ acked \subseteq Kept
  /\ \A j \in Jobs : job[j].at = "done" /\ job[j].answer = "ok" =>
       IF IsLoad(j) THEN ToSet(job[j].read) \subseteq Kept ELSE job[j].event \in Kept

\* A provider counts what works for it; stop waits for that and no more.
Provided(p) ==
  /\ prov[p].life = "absent" => prov[p] = Fresh("absent")
  /\ prov[p].inflight = Cardinality(Counted(p))
  /\ prov[p].stop # "no" => prov[p].stopping
  /\ prov[p].stop = "done" => \A j \in Busy(p) : job[j].at \in {"admit", "counted", "done"}
  /\ prov[p].stop = "wait" => prov[p].inflight > 0 \/ prov[p].drained
Provides == \A p \in Providers : Provided(p)

Inv == Typed /\ Places /\ Holds /\ Durable /\ Provides

-----------------------------------------------------------------------------
(***************************************************************************)
(* What the operators do.                                                  *)
(***************************************************************************)
\* The element of a sequence is one of its set.
LEMMA ElementIn ==
  ASSUME NEW S, NEW s \in Seq(S), NEW i \in 1 .. Len(s)
  PROVE  s[i] \in S
OBVIOUS

\* ToSet of a sequence, by its places.
LEMMA Elements ==
  ASSUME NEW S, NEW s \in Seq(S)
  PROVE  ToSet(s) = {s[i] : i \in 1 .. Len(s)} /\ ToSet(s) \subseteq S
BY DEF ToSet

\* A log that is read holds events only, each at its place.
LEMMA ReadLog ==
  ASSUME Typed, Readable
  PROVE  /\ file \in Seq(Events) /\ \A i \in 1 .. Len(file) : file[i] \in Events
         /\ \A i \in 1 .. Len(file) : file[i].seq = i - 1
         /\ \A i, k \in 1 .. Len(file) : file[i].id = file[k].id => i = k
         /\ ToSet(file) = {file[i] : i \in 1 .. Len(file)}
<1>1. file \in Seq(Events \cup {Torn}) /\ ToSet(file) = {file[i] : i \in 1 .. Len(file)}
  BY Elements DEF Typed
<1>2. \A i \in 1 .. Len(file) : file[i] \in Events
  <2> TAKE i \in 1 .. Len(file)
  <2>1. file[i] \in Events \cup {Torn}
    BY <1>1, ElementIn
  <2> QED
    BY <1>1, <2>1 DEF Readable
<1>3. file \in Seq(Events)
  BY <1>1, <1>2
<1> QED
  BY <1>1, <1>2, <1>3 DEF Readable, ValidLog

\* No event is a torn line.
LEMMA EventNotTorn == \A e \in Events : e # Torn /\ e # None /\ e.seq \in Nat
BY EventsAssumption, NoneAssumption

\* A line written at the end leaves the others.
LEMMA Appended ==
  ASSUME NEW S, NEW s \in Seq(S), NEW x \in S
  PROVE  /\ Append(s, x) \in Seq(S) /\ Len(Append(s, x)) = Len(s) + 1
         /\ \A i \in 1 .. Len(s) : Append(s, x)[i] = s[i]
         /\ Append(s, x)[Len(s) + 1] = x
OBVIOUS

\* The first lines of a file.
LEMMA Shortened ==
  ASSUME NEW S, NEW s \in Seq(S), NEW n \in 0 .. Len(s)
  PROVE  /\ SubSeq(s, 1, n) \in Seq(S) /\ Len(SubSeq(s, 1, n)) = n
         /\ \A i \in 1 .. n : SubSeq(s, 1, n)[i] = s[i]
OBVIOUS

\* The lines of a file up to a place, when they are events in order.
LEMMA OrderedLines ==
  ASSUME NEW f \in Seq(Events \cup {Torn}), NEW n \in 0 .. Len(f),
         \A i \in 1 .. n : f[i].seq = i - 1,
         \A i, k \in 1 .. n : f[i].id = f[k].id => i = k
  PROVE  LET s == SubSeq(f, 1, n)
         IN /\ s \in Seq(Events \cup {Torn}) /\ Len(s) = n /\ \A i \in 1 .. n : s[i] = f[i]
            /\ ToSet(s) = {f[i] : i \in 1 .. n} /\ Promise!ValidLog(s)
<1> DEFINE s == SubSeq(f, 1, n)
<1>1. s \in Seq(Events \cup {Torn}) /\ Len(s) = n /\ \A i \in 1 .. n : s[i] = f[i]
  BY Shortened
<1> HIDE DEF s
<1>2. DOMAIN s = 1 .. n
  BY <1>1
<1>3. ToSet(s) = {f[i] : i \in 1 .. n}
  <2>1. ToSet(s) = {s[i] : i \in 1 .. n}
    BY <1>2 DEF ToSet
  <2> QED
    BY <1>1, <2>1
<1>4. Promise!ValidLog(s)
  BY <1>1, <1>2 DEF Promise!ValidLog
<1> QED
  BY <1>1, <1>3, <1>4 DEF s

\* Two sequences that start alike.
LEMMA SameStart ==
  ASSUME NEW S, NEW s \in Seq(S), NEW t \in Seq(S), Len(s) <= Len(t),
         \A i \in 1 .. Len(s) : t[i] = s[i]
  PROVE  SubSeq(s, 1, Len(s)) = SubSeq(t, 1, Len(s))
OBVIOUS

\* What a provider counts is finite, and no more than all operations.
LEMMA CountedFinite ==
  ASSUME NEW p
  PROVE  /\ IsFiniteSet(Counted(p)) /\ Cardinality(Counted(p)) \in Nat
         /\ Cardinality(Counted(p)) <= Cardinality(Jobs)
BY JobsAssumption, FS_Subset, FS_CardinalityType DEF Counted

\* One more, or one less.
LEMMA CountedOneMore ==
  ASSUME NEW p, NEW j, j \notin Counted(p), Counted(p)' = Counted(p) \cup {j}
  PROVE  Cardinality(Counted(p)') = Cardinality(Counted(p)) + 1
BY CountedFinite, FS_AddElement

\* And one less.
LEMMA CountedOneLess ==
  ASSUME NEW p, NEW j, j \in Counted(p), Counted(p)' = Counted(p) \ {j}
  PROVE  /\ Cardinality(Counted(p)') = Cardinality(Counted(p)) - 1
         /\ Cardinality(Counted(p)) > 0
BY CountedFinite, FS_RemoveElement, FS_EmptySet

\* At most one operation is at the file.
LEMMA OneHolds ==
  ASSUME Typed, Places, Holds, NEW j \in Jobs, NEW k \in Jobs,
         job[j].at \in Holding, job[k].at \in Holding
  PROVE  j = k
BY DEF Holds, Held

\* Who works has a provider that counts it.
LEMMA WorkerCounted ==
  ASSUME Inv, NEW j \in Jobs, job[j].at \in Working
  PROVE  /\ job[j].prov \in Providers /\ job[j].prov # None
         /\ prov[job[j].prov] \in Record /\ prov[job[j].prov].life # "absent"
         /\ j \in Counted(job[j].prov)
         /\ prov[job[j].prov].inflight \in Nat /\ prov[job[j].prov].inflight > 0
<1>1. job[j].prov \in Providers /\ prov[job[j].prov].life # "absent" /\ prov[job[j].prov] \in Record
  BY DEF Inv, Typed, Places, Placed, Working
<1>2. j \in Counted(job[j].prov)
  BY DEF Counted
<1>3. Cardinality(Counted(job[j].prov)) > 0 /\ Cardinality(Counted(job[j].prov)) \in Nat
  BY <1>2, CountedFinite, FS_EmptySet
<1>4. prov[job[j].prov].inflight = Cardinality(Counted(job[j].prov))
  BY <1>1 DEF Inv, Provides, Provided
<1> QED
  BY <1>1, <1>2, <1>3, <1>4, NoneAssumption

-----------------------------------------------------------------------------
(***************************************************************************)
(* The steps, by their effects.                                            *)
(***************************************************************************)
\* Nobody else's operation, nobody else's provider.
OtherJobs(j) == job' \in [Jobs -> Job] /\ \A k \in Jobs \ {j} : job'[k] = job[k]
OtherProvs(p) == prov' \in [Providers -> Record] /\ \A q \in Providers \ {p} : prov'[q] = prov[q]

\* j ends its work with answer a, and its provider counts it out.
Ends(j, a) ==
  /\ OtherJobs(j) /\ OtherProvs(job[j].prov)
  /\ \/ job'[j] = Idle
     \/ /\ job'[j].at = "done" /\ job'[j].answer = a
        /\ job'[j].prov = job[j].prov /\ job'[j].event = job[j].event
        /\ job'[j].wrote = job[j].wrote /\ job'[j].read = job[j].read
  /\ LET r == prov[job[j].prov]
         n == prov'[job[j].prov]
     IN /\ n.life = r.life /\ n.stopping = r.stopping /\ n.stop = r.stop
        /\ n.inflight = r.inflight - 1 /\ (r.drained \/ r.inflight = 1 => n.drained)

\* j goes on at another place, with or without the gate.
Moves(j, at) ==
  /\ OtherJobs(j)
  /\ job'[j].at = at /\ job'[j].prov = job[j].prov /\ job'[j].event = job[j].event
  /\ job'[j].answer = job[j].answer

\* Its provider's admission and stop do not change.
Steady(p) ==
  /\ OtherProvs(p)
  /\ prov'[p].life = prov[p].life /\ prov'[p].stopping = prov[p].stopping
  /\ prov'[p].stop = prov[p].stop /\ prov'[p].inflight = prov[p].inflight
  /\ prov'[p].drained = prov[p].drained

\* A change of one operation, with values of the types.
LEMMA JobChanged ==
  ASSUME Typed, NEW j \in Jobs, NEW x \in Job, job' = [job EXCEPT ![j] = x]
  PROVE  OtherJobs(j) /\ job'[j] = x
BY DEF Typed, OtherJobs

\* The same for one provider.
LEMMA ProvChanged ==
  ASSUME Typed, NEW p \in Providers, NEW r \in Record, prov' = [prov EXCEPT ![p] = r]
  PROVE  OtherProvs(p) /\ prov'[p] = r
BY DEF Typed, OtherProvs

\* The idle operation and the fresh providers.
LEMMA Blank ==
  /\ Idle \in Job /\ Fresh("absent") \in Record /\ Fresh("live") \in Record
  /\ Idle.at = "idle" /\ Idle.prov = None /\ Idle.answer = "none" /\ Idle.wrote = FALSE
  /\ Idle.read = <<>> /\ Idle.event = None
BY DEF Idle, Job, Fresh, Record, Answers

\* OperationControl::release of a provider's record.
LEMMA RecordReleased ==
  ASSUME NEW m \in Record
  PROVE  LET s == Released(m)
         IN /\ s \in Record
            /\ s.life = m.life /\ s.stopping = m.stopping /\ s.stop = m.stop
            /\ s.inflight = m.inflight - 1 /\ (m.drained \/ m.inflight = 1 => s.drained)
            /\ s.gate = m.gate /\ s.uncertain = m.uncertain
<1> DEFINE d == m.drained \/ m.inflight = 1
<1>1. d \in BOOLEAN /\ m.inflight - 1 \in Int
  BY DEF Record
<1>2. Released(m) = [m EXCEPT !.inflight = m.inflight - 1, !.drained = d]
  BY DEF Released, Record
<1>3. Released(m) \in Record
  <2> HIDE DEF d
  <2> QED
    BY <1>1, <1>2 DEF Record
<1>4. LET s == Released(m)
      IN /\ s.life = m.life /\ s.stopping = m.stopping /\ s.stop = m.stop
         /\ s.inflight = m.inflight - 1 /\ (m.drained \/ m.inflight = 1 => s.drained)
         /\ s.gate = m.gate /\ s.uncertain = m.uncertain
  BY DEF Record, Released
<1> QED
  BY <1>3, <1>4

\* Other fields of a record, changed.
LEMMA UncertainSet ==
  ASSUME NEW r \in Record, NEW u \in BOOLEAN
  PROVE  LET s == [r EXCEPT !.uncertain = u]
         IN s \in Record /\ s.uncertain = u /\ s.gate = r.gate
BY DEF Record

\* And its gate.
LEMMA GateSet ==
  ASSUME NEW r \in Record, NEW g \in Jobs \cup {None}
  PROVE  LET s == [r EXCEPT !.gate = g]
         IN s \in Record /\ s.uncertain = r.uncertain /\ s.gate = g
BY DEF Record

\* A task that ends with a.
LEMMA EndEffect ==
  ASSUME Inv, NEW j \in Jobs, job[j].at \in Working, NEW a \in Answers, NEW r \in Record,
         LET n == prov[job[j].prov]
         IN r.life = n.life /\ r.stopping = n.stopping /\ r.stop = n.stop
            /\ r.inflight = n.inflight /\ r.drained = n.drained,
         End(j, a, r)
  PROVE  /\ Ends(j, a)
         /\ prov'[job[j].prov].gate = None /\ prov'[job[j].prov].uncertain = r.uncertain
<1> DEFINE p == job[j].prov
           x == IF job[j].waiting THEN [job[j] EXCEPT !.at = "done", !.answer = a] ELSE Idle
           n == Released([r EXCEPT !.gate = None])
<1>1. p \in Providers /\ job[j] \in Job
  BY WorkerCounted DEF Inv, Typed
<1>2. x \in Job
  BY <1>1, Blank DEF Job
<1>3. /\ n \in Record /\ n.life = r.life /\ n.stopping = r.stopping /\ n.stop = r.stop
      /\ n.inflight = r.inflight - 1 /\ (r.drained \/ r.inflight = 1 => n.drained)
      /\ n.gate = None /\ n.uncertain = r.uncertain
  <2> DEFINE m == [r EXCEPT !.gate = None]
  <2>1. /\ m \in Record /\ m.life = r.life /\ m.stopping = r.stopping /\ m.stop = r.stop
        /\ m.inflight = r.inflight /\ m.drained = r.drained /\ m.gate = None
        /\ m.uncertain = r.uncertain
    BY DEF Record
  <2> HIDE DEF m
  <2>2. n = Released(m)
    BY DEF m
  <2> QED
    BY <2>1, <2>2, RecordReleased
<1>4. prov' = [prov EXCEPT ![p] = n] /\ job' = [job EXCEPT ![j] = x]
  BY DEF End
<1>5. OtherJobs(j) /\ job'[j] = x
  BY <1>1, <1>2, <1>4, JobChanged DEF Inv
<1>6. OtherProvs(p) /\ prov'[p] = n
  BY <1>1, <1>3, <1>4, ProvChanged DEF Inv
<1>7. \/ x = Idle
      \/ /\ x.at = "done" /\ x.answer = a /\ x.prov = job[j].prov /\ x.event = job[j].event
         /\ x.wrote = job[j].wrote /\ x.read = job[j].read
  BY <1>1 DEF Job
<1> HIDE DEF x, n
<1> QED
  BY <1>1, <1>3, <1>5, <1>6, <1>7 DEF Ends

\* A task that goes on with the gate.
LEMMA HoldEffect ==
  ASSUME Inv, NEW j \in Jobs, job[j].at \in Working, NEW at \in Holding, NEW r \in Record,
         LET n == prov[job[j].prov]
         IN r.life = n.life /\ r.stopping = n.stopping /\ r.stop = n.stop
            /\ r.inflight = n.inflight /\ r.drained = n.drained,
         Readable, Hold(j, at, r)
  PROVE  /\ Moves(j, at) /\ Steady(job[j].prov)
         /\ job'[j].wrote = job[j].wrote
         /\ job'[j].read = IF IsLoad(j) THEN file ELSE <<>>
         /\ prov'[job[j].prov].gate = j /\ prov'[job[j].prov].uncertain = r.uncertain
<1> DEFINE p == job[j].prov
           lines == IF IsLoad(j) THEN file ELSE <<>>
           x == [job[j] EXCEPT !.at = at, !.read = lines]
           n == [r EXCEPT !.gate = j]
<1>1. p \in Providers /\ job[j] \in Job
  BY WorkerCounted DEF Inv, Typed
<1>2. lines \in Seq(Events)
  BY ReadLog DEF Inv
<1>3. /\ x \in Job /\ x.at = at /\ x.read = lines /\ x.prov = job[j].prov
      /\ x.event = job[j].event /\ x.answer = job[j].answer /\ x.wrote = job[j].wrote
  <2> HIDE DEF lines
  <2> QED
    BY <1>1, <1>2 DEF Job, Holding
<1>4. /\ n \in Record /\ n.life = r.life /\ n.stopping = r.stopping /\ n.stop = r.stop
      /\ n.inflight = r.inflight /\ n.drained = r.drained /\ n.gate = j /\ n.uncertain = r.uncertain
  BY DEF Record
<1>5. prov' = [prov EXCEPT ![p] = n] /\ job' = [job EXCEPT ![j] = x]
  BY <1>1 DEF Hold, Job, Inv, Typed
<1> HIDE DEF x, n
<1>6. OtherJobs(j) /\ job'[j] = x
  BY <1>1, <1>3, <1>5, JobChanged DEF Inv
<1>7. OtherProvs(p) /\ prov'[p] = n
  BY <1>1, <1>4, <1>5, ProvChanged DEF Inv
<1> QED
  BY <1>1, <1>3, <1>4, <1>6, <1>7 DEF Moves, Steady

-----------------------------------------------------------------------------
(***************************************************************************)
(* What a step of one operation keeps.                                     *)
(***************************************************************************)
\* The counts, when an operation ends.
LEMMA EndsProvides ==
  ASSUME Inv, NEW j \in Jobs, job[j].at \in Working, NEW a, Ends(j, a)
  PROVE  Provides'
<1>0. PICK p \in Providers : p = job[j].prov
  BY WorkerCounted
<1>1. /\ p \in Providers /\ p # None /\ prov[p] \in Record /\ prov[p].life # "absent"
      /\ j \in Counted(p) /\ prov[p].inflight \in Nat /\ prov[p].inflight > 0
  BY <1>0, WorkerCounted
<1>2. job'[j].at \in {"idle", "done"} /\ job'[j].prov \in {p, None}
  BY <1>0, Blank DEF Ends
<1>3. \A k \in Jobs \ {j} : job'[k] = job[k]
  BY DEF Ends, OtherJobs
<1>4. \A q \in Providers \ {p} : prov'[q] = prov[q]
  BY <1>0 DEF Ends, OtherProvs
<1>5. Counted(p)' = Counted(p) \ {j}
  BY <1>1, <1>2, <1>3 DEF Counted, Working
<1>6. \A q \in Providers \ {p} : Counted(q)' = Counted(q)
  BY <1>1, <1>2, <1>3 DEF Counted, Working
<1>7. \A q \in Providers : \A k \in Jobs : job'[k].prov = q =>
        job[k].prov = q /\ (job'[k].at = job[k].at \/ job'[k].at = "done")
  BY <1>0, <1>1, <1>2, <1>3, NoneAssumption, Blank DEF Ends
<1>8. \A q \in Providers \ {p} : Provided(q)'
  <2> TAKE q \in Providers \ {p}
  <2>1. Provided(q) /\ prov'[q] = prov[q] /\ Counted(q)' = Counted(q)
    BY <1>4, <1>6 DEF Inv, Provides
  <2> QED
    BY <2>1, <1>7 DEF Provided, Busy
<1>9. Provided(p)'
  <2>1. Provided(p)
    BY <1>1 DEF Inv, Provides
  <2>2. Cardinality(Counted(p)') = Cardinality(Counted(p)) - 1
    BY <1>1, <1>5, CountedOneLess
  <2>3. /\ prov'[p].life = prov[p].life /\ prov'[p].stopping = prov[p].stopping
        /\ prov'[p].stop = prov[p].stop /\ prov'[p].inflight = prov[p].inflight - 1
        /\ (prov[p].drained \/ prov[p].inflight = 1 => prov'[p].drained)
    BY <1>0 DEF Ends
  <2>4. prov'[p].inflight = Cardinality(Counted(p)')
    BY <2>1, <2>2, <2>3 DEF Provided
  <2>5. prov'[p].life # "absent" /\ (prov'[p].stop # "no" => prov'[p].stopping)
    BY <1>1, <2>1, <2>3 DEF Provided
  <2>6. prov'[p].stop = "done" => \A k \in Jobs : job'[k].prov = p => job'[k].at \in {"admit", "counted", "done"}
    BY <2>1, <2>3, <1>1, <1>7 DEF Provided, Busy
  <2>7. prov'[p].stop = "wait" => prov'[p].inflight > 0 \/ prov'[p].drained
    BY <2>3, <1>1
  <2> QED
    BY <2>4, <2>5, <2>6, <2>7 DEF Provided, Busy
<1> QED
  BY <1>8, <1>9 DEF Provides

\* The counts, when it goes on.
LEMMA MovesProvides ==
  ASSUME Inv, NEW j \in Jobs, job[j].at \in Working, NEW at \in Working, Moves(j, at),
         Steady(job[j].prov), job[j].at = "counted" => ~prov[job[j].prov].stopping
  PROVE  Provides'
<1>1. \A k \in Jobs \ {j} : job'[k] = job[k]
  BY DEF Moves, OtherJobs
<1>2. \A q : Counted(q)' = Counted(q)
  BY <1>1 DEF Counted, Moves
<1>3. ASSUME NEW q \in Providers PROVE Provided(q)'
  <2>1. Provided(q) /\ Counted(q)' = Counted(q)
    BY <1>2 DEF Inv, Provides
  <2>2. /\ prov'[q].life = prov[q].life /\ prov'[q].stopping = prov[q].stopping
        /\ prov'[q].stop = prov[q].stop /\ prov'[q].inflight = prov[q].inflight
        /\ prov'[q].drained = prov[q].drained
    BY DEF Steady, OtherProvs
  <2>3. prov[q].life = "absent" => prov'[q] = prov[q]
    BY WorkerCounted DEF Steady, OtherProvs
  <2>4. prov[q].stop = "done" => \A k \in Jobs : job'[k].prov = q => job'[k].at \in {"admit", "counted", "done"}
    <3>1. CASE job[j].prov = q
      BY <3>1, <2>1 DEF Provided, Busy, Working
    <3>2. CASE job[j].prov # q
      BY <3>2, <1>1, <2>1 DEF Provided, Busy, Moves
    <3> QED
      BY <3>1, <3>2
  <2> QED
    BY <2>1, <2>2, <2>3, <2>4 DEF Provided, Busy
<1> QED
  BY <1>3 DEF Provides

\* Providers stay, and a step of another operation leaves what one knows.
LEMMA OthersPlaced ==
  ASSUME Inv, NEW j \in Jobs, OtherJobs(j),
         \A p \in Providers : prov[p].life # "absent" => prov'[p].life # "absent",
         Placed(j)'
  PROVE  Places'
<1> SUFFICES ASSUME NEW k \in Jobs, k # j PROVE Placed(k)'
  BY DEF Places
<1>1. Placed(k) /\ job'[k] = job[k]
  BY DEF Inv, Places, OtherJobs
<1> QED
  BY <1>1 DEF Placed, IsLoad

\* The ends tell the truth about the file.
LEMMA EndsPlaces ==
  ASSUME Inv, NEW j \in Jobs, job[j].at \in Working, NEW a, Ends(j, a),
         job[j].wrote => a \in {"ok", "indeterminate"}
  PROVE  Places'
<1>1. Placed(j) /\ job[j].prov \in Providers
  BY WorkerCounted DEF Inv, Places
<1>2. \A p \in Providers : prov'[p].life = prov[p].life
  BY DEF Ends, OtherProvs
<1>3. CASE job'[j] = Idle
  <2>1. Placed(j)'
    BY <1>3, Blank, RolesAssumption, NoneAssumption DEF Placed, IsLoad
  <2> QED
    BY <2>1, <1>2, OthersPlaced DEF Ends
<1>4. CASE job'[j].at = "done" /\ job'[j].answer = a
           /\ job'[j].prov = job[j].prov /\ job'[j].event = job[j].event
           /\ job'[j].wrote = job[j].wrote /\ job'[j].read = job[j].read
  <2>1. Placed(j)'
    BY <1>4, <1>1, <1>2 DEF Placed, IsLoad, Working
  <2> QED
    BY <2>1, <1>2, OthersPlaced DEF Ends
<1> QED
  BY <1>3, <1>4 DEF Ends

\* The operation that holds the gate ends: nobody else was at the file.
LEMMA HolderEnds ==
  ASSUME Inv, NEW j \in Jobs, job[j].at \in Holding, NEW a, Ends(j, a)
  PROVE  Holds'
<1>1. \A k \in Jobs : job'[k].at \notin Holding
  <2> TAKE k \in Jobs
  <2>1. CASE k = j
    BY <2>1, Blank DEF Ends, Holding
  <2>2. CASE k # j
    <3>1. job'[k] = job[k]
      BY <2>2 DEF Ends, OtherJobs
    <3> QED
      BY <3>1, <2>2, OneHolds DEF Inv
  <2> QED
    BY <2>1, <2>2
<1> QED
  BY <1>1 DEF Holds, Held

\* The others at the file find it as it was, their gate taken.
LEMMA OthersHold ==
  ASSUME Inv, NEW j \in Jobs, OtherJobs(j), job'[j].at \notin Holding,
         file' = file,
         \A k \in Jobs \ {j} : job[k].at \in Holding =>
            /\ owner' = owner /\ prov'[owner].gate = prov[owner].gate
            /\ prov[owner].uncertain => prov'[owner].uncertain
  PROVE  Holds'
<1> SUFFICES ASSUME NEW k \in Jobs, job'[k].at \in Holding PROVE Held(k)'
  BY DEF Holds, Held
<1>1. k # j /\ job'[k] = job[k] /\ job[k].at \in Holding /\ Held(k)
  BY DEF OtherJobs, Inv, Holds
<1>2. /\ owner' = owner /\ prov'[owner].gate = prov[owner].gate
      /\ prov[owner].uncertain => prov'[owner].uncertain
  BY <1>1
<1>3. Readable' /\ job'[k].event = job[k].event /\ (IsLoad(k)' = IsLoad(k))
  BY <1>1 DEF Held, Readable, ValidLog, IsLoad
<1> QED
  BY <1>1, <1>2, <1>3 DEF Held

\* Lines that are durable stay: the file is as it was up to there.
Stays ==
  /\ synced' = synced /\ acked' = acked
  /\ file' \in Seq(Events \cup {Torn}) /\ Len(file') >= synced
  /\ \A i \in 1 .. synced : file'[i] = file[i]

\* Then the durable part is kept, if nobody is told more.
LEMMA StaysDurable ==
  ASSUME Inv, Stays,
         \A j \in Jobs : job'[j].at = "done" /\ job'[j].answer = "ok" =>
           \/ job'[j].read = <<>> /\ job'[j].event = None
           \/ /\ job[j].at = "done" /\ job[j].answer = "ok"
              /\ job'[j].event = job[j].event /\ job'[j].read = job[j].read
  PROVE  Durable'
<1>1. Kept' = Kept
  BY DEF Kept, Stays
<1>2. ASSUME NEW j \in Jobs, job'[j].at = "done", job'[j].answer = "ok"
      PROVE  IF IsLoad(j)' THEN ToSet(job'[j].read) \subseteq Kept' ELSE job'[j].event \in Kept'
  <2>1. CASE job'[j].read = <<>> /\ job'[j].event = None
    BY <2>1 DEF IsLoad, ToSet
  <2>2. CASE /\ job[j].at = "done" /\ job[j].answer = "ok"
             /\ job'[j].event = job[j].event /\ job'[j].read = job[j].read
    BY <2>2, <1>1 DEF IsLoad, Inv, Durable
  <2> QED
    BY <1>2, <2>1, <2>2
<1>3. \A i \in 1 .. synced' : file'[i] \in Events /\ file'[i].seq = i - 1
  BY DEF Stays, Inv, Durable
<1>4. \A i, k \in 1 .. synced' : file'[i].id = file'[k].id => i = k
  BY DEF Stays, Inv, Durable
<1>5. acked' \subseteq Kept'
  BY <1>1 DEF Stays, Inv, Durable
<1> QED
  BY <1>2, <1>3, <1>4, <1>5 DEF Durable

\* An operation that ends with anything but ok, or with the lines of an empty file.
LEMMA EndsDurable ==
  ASSUME Inv, NEW j \in Jobs, job[j].at \in Working, NEW a, Ends(j, a), Stays,
         a = "ok" => job[j].read = <<>> /\ IsLoad(j)
  PROVE  Durable'
<1>1. ASSUME NEW k \in Jobs, job'[k].at = "done", job'[k].answer = "ok"
      PROVE  \/ job'[k].read = <<>> /\ job'[k].event = None
             \/ /\ job[k].at = "done" /\ job[k].answer = "ok"
                /\ job'[k].event = job[k].event /\ job'[k].read = job[k].read
  <2>1. CASE k # j
    BY <2>1, <1>1 DEF Ends, OtherJobs
  <2>2. CASE k = j
    BY <2>2, <1>1, Blank DEF Ends, IsLoad
  <2> QED
    BY <2>1, <2>2
<1> QED
  BY <1>1, StaysDurable

\* An operation that goes on is not told anything yet.
LEMMA MovesDurable ==
  ASSUME Inv, NEW j \in Jobs, NEW at, at # "done", Moves(j, at), Stays
  PROVE  Durable'
<1>1. ASSUME NEW k \in Jobs, job'[k].at = "done", job'[k].answer = "ok"
      PROVE  /\ job[k].at = "done" /\ job[k].answer = "ok"
             /\ job'[k].event = job[k].event /\ job'[k].read = job[k].read
  BY <1>1 DEF Moves, OtherJobs
<1> QED
  BY <1>1, StaysDurable

\* A file that is left alone stays.
LEMMA FileStays ==
  ASSUME Inv, UNCHANGED <<file, synced, acked>>
  PROVE  Stays
BY DEF Stays, Inv, Typed

\* The types, with a file that is left alone.
LEMMA TypedStays ==
  ASSUME Inv, UNCHANGED <<file, synced, acked>>, owner' \in Providers \cup {None},
         prov' \in [Providers -> Record], job' \in [Jobs -> Job]
  PROVE  Typed'
BY DEF Inv, Typed

-----------------------------------------------------------------------------
(***************************************************************************)
(* The invariant is kept: operations.                                      *)
(***************************************************************************)
\* At first no provider is there.
LEMMA InitInv == Init => Inv
<1> SUFFICES ASSUME Init PROVE Inv
  OBVIOUS
<1>1. \A j \in Jobs : job[j] = Idle
  BY DEF Init
<1>2. \A p \in Providers : prov[p] = Fresh("absent")
  BY DEF Init
<1>3. Typed
  BY Blank DEF Init, Typed
<1>4. Places
  BY <1>1, Blank, RolesAssumption, NoneAssumption DEF Places, Placed, IsLoad
<1>5. Holds
  BY <1>1, Blank DEF Holds, Held, Holding
<1>6. Durable
  BY <1>1, Blank DEF Init, Durable, Kept
<1>7. Provides
  <2> SUFFICES ASSUME NEW p \in Providers PROVE Provided(p)
    BY DEF Provides
  <2>1. Counted(p) = {} /\ Cardinality(Counted(p)) = 0
    BY <1>1, Blank, FS_EmptySet DEF Counted, Working
  <2>2. prov[p].inflight = 0 /\ prov[p].stop = "no"
    BY <1>2 DEF Fresh
  <2> QED
    BY <2>1, <2>2, <1>2 DEF Provided
<1> QED
  BY <1>3, <1>4, <1>5, <1>6, <1>7 DEF Inv

\* A call that is let in is new.
LEMMA CallInv ==
  ASSUME Inv, NEW j \in Jobs, NEW p \in Providers, NEW e \in Events \cup {None}, Call(j, p, e)
  PROVE  Inv'
<1> DEFINE x == [Idle EXCEPT !.at = "admit", !.prov = p, !.event = e, !.waiting = TRUE]
<1>1. /\ x \in Job /\ x.at = "admit" /\ x.prov = p /\ x.event = e /\ x.answer = "none"
      /\ x.wrote = FALSE /\ x.read = <<>>
  <2>1. Idle \in Job /\ Idle.answer = "none" /\ Idle.wrote = FALSE /\ Idle.read = <<>>
    BY Blank
  <2> QED
    BY <2>1 DEF Job
<1>2. job[j].at = "idle" /\ prov[p].life = "live" /\ (e # None => p \notin Recovery)
  BY DEF Call
<1>3. UNCHANGED <<file, synced, owner, prov, acked>> /\ job' = [job EXCEPT ![j] = x]
  BY DEF Call
<1> HIDE DEF x
<1>4. OtherJobs(j) /\ job'[j] = x
  BY <1>1, <1>3, JobChanged DEF Inv
<1>5. job[j] = Idle /\ job[j].prov = None
  BY <1>2, Blank DEF Inv, Places, Placed
<1>6. Typed'
  BY <1>3, <1>4, TypedStays DEF OtherJobs, Inv, Typed
<1>7. Places'
  <2>1. Placed(j)'
    BY <1>1, <1>2, <1>3, <1>4 DEF Placed, IsLoad
  <2> QED
    BY <2>1, <1>3, <1>4, OthersPlaced
<1>8. Holds'
  BY <1>1, <1>3, <1>4, OthersHold DEF Holding
<1>9. Durable'
  <2>1. ASSUME NEW k \in Jobs, job'[k].at = "done" PROVE job'[k] = job[k]
    BY <2>1, <1>1, <1>4 DEF OtherJobs
  <2> QED
    BY <2>1, <1>3, FileStays, StaysDurable
<1>10. Provides'
  <2> SUFFICES ASSUME NEW q \in Providers PROVE Provided(q)'
    BY DEF Provides
  <2>1. Counted(q)' = Counted(q)
    BY <1>1, <1>2, <1>4 DEF Counted, Working, OtherJobs
  <2>2. Provided(q) /\ prov'[q] = prov[q]
    BY <1>3 DEF Inv, Provides
  <2>3. prov[q].stop = "done" => \A k \in Jobs : job'[k].prov = q => job'[k].at \in {"admit", "counted", "done"}
    BY <2>2, <1>1, <1>4 DEF Provided, Busy, OtherJobs
  <2> QED
    BY <2>1, <2>2, <2>3 DEF Provided, Busy
<1> QED
  BY <1>6, <1>7, <1>8, <1>9, <1>10 DEF Inv

\* The permit is taken.
LEMMA CountInv ==
  ASSUME Inv, NEW j \in Jobs, Count(j)
  PROVE  Inv'
<1>0. PICK p \in Providers : p = job[j].prov
  BY DEF Count, Inv, Places, Placed
<1> DEFINE x == [job[j] EXCEPT !.at = "counted"]
           r == [prov[p] EXCEPT !.inflight = prov[p].inflight + 1]
<1>1. job[j] \in Job /\ prov[p] \in Record /\ prov[p].life # "absent" /\ job[j].at = "admit"
  BY <1>0 DEF Count, Inv, Typed, Places, Placed
<1>2. /\ x \in Job /\ x.at = "counted" /\ x.prov = p /\ x.event = job[j].event
      /\ x.answer = job[j].answer /\ x.wrote = job[j].wrote /\ x.read = job[j].read
  BY <1>0, <1>1 DEF Job
<1>3. /\ r \in Record /\ r.life = prov[p].life /\ r.stopping = prov[p].stopping
      /\ r.inflight = prov[p].inflight + 1 /\ r.drained = prov[p].drained
      /\ r.stop = prov[p].stop /\ r.uncertain = prov[p].uncertain /\ r.gate = prov[p].gate
  BY <1>1 DEF Record
<1>4. /\ UNCHANGED <<file, synced, owner, acked>>
      /\ job' = [job EXCEPT ![j] = x] /\ prov' = [prov EXCEPT ![p] = r]
  BY <1>0, <1>1 DEF Count, Inv, Typed
<1> HIDE DEF x, r
<1>5. OtherJobs(j) /\ job'[j] = x
  BY <1>2, <1>4, JobChanged DEF Inv
<1>6. OtherProvs(p) /\ prov'[p] = r
  BY <1>3, <1>4, ProvChanged DEF Inv
<1>7. /\ \A q \in Providers : prov'[q].life = prov[q].life
      /\ \A q \in Providers : prov'[q].gate = prov[q].gate /\ prov'[q].uncertain = prov[q].uncertain
  BY <1>3, <1>6 DEF OtherProvs
<1>8. Typed'
  BY <1>4, <1>5, <1>6, TypedStays DEF OtherJobs, OtherProvs, Inv, Typed
<1>9. Places'
  <2>1. Placed(j)
    BY DEF Inv, Places
  <2>2. Placed(j)'
    BY <1>0, <1>1, <1>2, <1>5, <1>7, <2>1 DEF Placed, IsLoad
  <2> QED
    BY <2>2, <1>5, <1>7, OthersPlaced
<1>10. Holds'
  <2>1. ASSUME NEW k \in Jobs \ {j}, job[k].at \in Holding PROVE owner \in Providers
    BY <2>1 DEF Inv, Places, Placed, Holds, Held, Holding
  <2> QED
    BY <2>1, <1>2, <1>4, <1>5, <1>7, OthersHold DEF Holding
<1>11. Durable'
  <2>1. ASSUME NEW k \in Jobs, job'[k].at = "done" PROVE job'[k] = job[k]
    BY <2>1, <1>2, <1>5 DEF OtherJobs
  <2> QED
    BY <2>1, <1>4, FileStays, StaysDurable
<1>12. Provides'
  <2>1. ASSUME NEW q \in Providers, q # p PROVE Provided(q)'
    <3>1. Counted(q)' = Counted(q)
      BY <2>1, <1>0, <1>2, <1>5 DEF Counted, OtherJobs
    <3>2. Provided(q) /\ prov'[q] = prov[q]
      BY <2>1, <1>6 DEF Inv, Provides, OtherProvs
    <3>3. prov[q].stop = "done" => \A k \in Jobs : job'[k].prov = q => job'[k].at \in {"admit", "counted", "done"}
      BY <3>2, <1>2, <1>5, <2>1 DEF Provided, Busy, OtherJobs
    <3> QED
      BY <3>1, <3>2, <3>3 DEF Provided, Busy
  <2>2. Provided(p)'
    <3>1. Counted(p)' = Counted(p) \cup {j} /\ j \notin Counted(p)
      BY <1>0, <1>1, <1>2, <1>5 DEF Counted, OtherJobs, Working
    <3>2. Cardinality(Counted(p)') = Cardinality(Counted(p)) + 1 /\ Cardinality(Counted(p)) \in Nat
      BY <3>1, CountedOneMore, CountedFinite
    <3>3. Provided(p)
      BY DEF Inv, Provides
    <3>4. prov[p].stop = "done" => \A k \in Jobs : job'[k].prov = p => job'[k].at \in {"admit", "counted", "done"}
      BY <3>3, <1>2, <1>5 DEF Provided, Busy, OtherJobs
    <3>5. prov'[p].inflight = Cardinality(Counted(p)') /\ prov'[p].inflight > 0
      BY <3>2, <3>3, <1>3, <1>6 DEF Provided
    <3> QED
      BY <3>3, <3>4, <3>5, <1>1, <1>3, <1>6 DEF Provided, Busy
  <2> QED
    BY <2>1, <2>2 DEF Provides
<1> QED
  BY <1>8, <1>9, <1>10, <1>11, <1>12 DEF Inv

\* The permit is given back, or the task is spawned.
LEMMA RecheckInv ==
  ASSUME Inv, NEW j \in Jobs, Recheck(j)
  PROVE  Inv'
<1>0. PICK p \in Providers : p = job[j].prov
  BY WorkerCounted DEF Recheck, Working
<1>1. /\ job[j] \in Job /\ prov[p] \in Record /\ job[j].at = "counted" /\ job[j].at \in Working
      /\ UNCHANGED <<file, synced, owner, acked>>
  BY DEF Recheck, Inv, Typed, Working
<1>2. Stays
  BY <1>1, FileStays
<1>3. Placed(j) /\ job[j].wrote = FALSE
  BY <1>1 DEF Inv, Places, Placed, Job
<1>4. CASE prov[p].stopping
  <2> DEFINE r == Released(prov[p])
  <2>1. /\ r \in Record /\ r.life = prov[p].life /\ r.stopping = prov[p].stopping
        /\ r.stop = prov[p].stop /\ r.gate = prov[p].gate /\ r.uncertain = prov[p].uncertain
        /\ r.inflight = prov[p].inflight - 1
        /\ (prov[p].drained \/ prov[p].inflight = 1 => r.drained)
    BY <1>1, RecordReleased
  <2>2. prov' = [prov EXCEPT ![p] = r] /\ job' = [job EXCEPT ![j] = Idle]
    BY <1>0, <1>4 DEF Recheck
  <2> HIDE DEF r
  <2>3. OtherJobs(j) /\ job'[j] = Idle
    BY <2>2, Blank, JobChanged DEF Inv
  <2>4. OtherProvs(p) /\ prov'[p] = r
    BY <2>1, <2>2, ProvChanged DEF Inv
  <2>5. Ends(j, "definite")
    BY <1>0, <2>1, <2>3, <2>4 DEF Ends
  <2>6. Typed'
    BY <1>1, <2>3, <2>4, TypedStays DEF OtherJobs, OtherProvs, Inv, Typed
  <2>7. Places' /\ Provides' /\ Durable'
    BY <2>5, <1>1, <1>2, <1>3, EndsPlaces, EndsProvides, EndsDurable
  <2>8. Holds'
    <3>1. ASSUME NEW k \in Jobs \ {j}, job[k].at \in Holding
          PROVE  prov'[owner].gate = prov[owner].gate /\ prov'[owner].uncertain = prov[owner].uncertain
      <4>1. owner \in Providers
        BY <3>1 DEF Inv, Places, Placed, Holds, Held, Holding
      <4> QED
        BY <4>1, <2>1, <2>4 DEF OtherProvs
    <3> QED
      BY <3>1, <1>1, <2>3, Blank, OthersHold DEF Holding
  <2> QED
    BY <2>6, <2>7, <2>8 DEF Inv
<1>5. CASE ~prov[p].stopping
  <2> DEFINE x == [job[j] EXCEPT !.at = "queued"]
  <2>1. /\ x \in Job /\ x.at = "queued" /\ x.prov = p /\ x.event = job[j].event
        /\ x.answer = job[j].answer /\ x.wrote = job[j].wrote /\ x.read = job[j].read
    BY <1>0, <1>1 DEF Job
  <2>2. prov' = prov /\ job' = [job EXCEPT ![j] = x]
    BY <1>0, <1>1, <1>5 DEF Recheck, Inv, Typed
  <2> HIDE DEF x
  <2>3. OtherJobs(j) /\ job'[j] = x
    BY <2>1, <2>2, JobChanged DEF Inv
  <2>4. Moves(j, "queued") /\ Steady(p)
    BY <1>0, <2>1, <2>2, <2>3 DEF Moves, Steady, OtherProvs, Inv, Typed
  <2>5. Typed'
    BY <1>1, <2>2, <2>3, TypedStays DEF OtherJobs, Inv, Typed
  <2>6. Places'
    <3>1. Placed(j)'
      BY <1>0, <1>1, <1>3, <2>1, <2>2, <2>3 DEF Placed, IsLoad
    <3> QED
      BY <3>1, <2>2, <2>3, OthersPlaced
  <2>7. Provides' /\ Durable'
    BY <2>4, <1>0, <1>1, <1>2, <1>5, MovesProvides, MovesDurable DEF Working
  <2>8. Holds'
    BY <1>1, <2>1, <2>2, <2>3, OthersHold DEF Holding
  <2> QED
    BY <2>5, <2>6, <2>7, <2>8 DEF Inv
<1> QED
  BY <1>4, <1>5

\* An operation that ends without the file.
LEMMA EnterEnds ==
  ASSUME Inv, NEW j \in Jobs, job[j].at = "queued", NEW a \in Answers \ {"none"},
         prov[job[j].prov].gate = None,
         owner' \in {owner, job[j].prov}, owner' = owner \/ owner = None,
         UNCHANGED <<file, synced, acked>>,
         End(j, a, prov[job[j].prov]),
         a = "ok" => IsLoad(j)
  PROVE  Inv'
<1>0. PICK p \in Providers : p = job[j].prov
  BY WorkerCounted DEF Working
<1>1. job[j].at \in Working /\ prov[p] \in Record /\ p # None
  BY <1>0, NoneAssumption DEF Working, Inv, Typed
<1>2. Ends(j, a) /\ prov'[p].uncertain = prov[p].uncertain /\ prov'[p].gate = None
  BY <1>0, <1>1, EndEffect
<1>3. Placed(j) /\ job[j].wrote = FALSE /\ job[j].read = <<>> /\ Stays
  BY FileStays DEF Inv, Places, Placed, Typed, Job
<1>4. Typed'
  BY <1>0, <1>2, TypedStays DEF Ends, OtherJobs, OtherProvs, Inv, Typed
<1>5. Places' /\ Provides' /\ Durable'
  BY <1>1, <1>2, <1>3, EndsPlaces, EndsProvides, EndsDurable
<1>6. Holds'
  <2>1. ASSUME NEW k \in Jobs \ {j}, job[k].at \in Holding
        PROVE  owner' = owner /\ prov'[owner] = prov[owner]
    <3>1. owner \in Providers /\ prov[owner].gate = k /\ owner # None /\ k # None
      BY <2>1, NoneAssumption DEF Inv, Places, Placed, Holds, Held, Holding
    <3>2. owner # p
      BY <3>1, <1>0
    <3> QED
      BY <1>0, <1>2, <3>1, <3>2 DEF Ends, OtherProvs
  <2>2. job'[j].at \notin Holding
    BY <1>2, Blank DEF Ends, Holding
  <2> QED
    BY <2>1, <2>2, <1>2, OthersHold DEF Ends
<1> QED
  BY <1>4, <1>5, <1>6 DEF Inv

\* An operation that gets at the file: nobody else is there.
LEMMA EnterHolds ==
  ASSUME Inv, NEW j \in Jobs, job[j].at = "queued", NEW at \in {"write", "resync"},
         NEW u \in BOOLEAN,
         prov[job[j].prov].gate = None, owner \in {None, job[j].prov}, owner' = job[j].prov,
         Readable, UNCHANGED <<file, synced, acked>>,
         Hold(j, at, [prov[job[j].prov] EXCEPT !.uncertain = u]),
         at = "write" => /\ u /\ ~IsLoad(j) /\ job[j].event.seq = Len(file)
                         /\ \A l \in ToSet(file) : l.id # job[j].event.id,
         at = "resync" => IsLoad(j) \/ job[j].event \in ToSet(file)
  PROVE  Inv'
<1>0. PICK p \in Providers : p = job[j].prov
  BY WorkerCounted DEF Working
<1> DEFINE r == [prov[p] EXCEPT !.uncertain = u]
<1>1. /\ job[j].at \in Working /\ prov[p] \in Record /\ p # None /\ prov[p].life # "absent"
      /\ at \in Holding /\ at \in Working /\ at # "done"
  BY <1>0, NoneAssumption DEF Working, Holding, Inv, Typed, Places, Placed
<1>2. /\ r \in Record /\ r.life = prov[p].life /\ r.stopping = prov[p].stopping
      /\ r.stop = prov[p].stop /\ r.inflight = prov[p].inflight /\ r.drained = prov[p].drained
      /\ r.uncertain = u
  BY <1>1 DEF Record
<1>3. Hold(j, at, r)
  BY <1>0
<1> HIDE DEF r
<1>4. /\ Moves(j, at) /\ Steady(p)
      /\ job'[j].wrote = job[j].wrote /\ job'[j].read = IF IsLoad(j) THEN file ELSE <<>>
      /\ prov'[p].gate = j /\ prov'[p].uncertain = u
  BY <1>0, <1>1, <1>2, <1>3, HoldEffect
<1>5. Placed(j) /\ job[j].wrote = FALSE /\ Stays
  BY FileStays DEF Inv, Places, Placed, Typed, Job
<1>6. Typed'
  BY <1>0, <1>4, TypedStays DEF Moves, Steady, OtherJobs, OtherProvs, Inv, Typed
<1>7. Places'
  <2>1. \A q \in Providers : prov'[q].life = prov[q].life
    BY <1>4 DEF Steady, OtherProvs
  <2>2. Placed(j)'
    BY <1>0, <1>1, <1>4, <1>5, <2>1 DEF Placed, IsLoad, Moves
  <2> QED
    BY <2>1, <2>2, <1>4, OthersPlaced DEF Moves
<1>8. Provides' /\ Durable'
  BY <1>0, <1>1, <1>4, <1>5, MovesProvides, MovesDurable
<1>9. Holds'
  <2>1. ASSUME NEW k \in Jobs, job'[k].at \in Holding PROVE k = j
    <3> SUFFICES ASSUME k # j PROVE FALSE
      OBVIOUS
    <3>1. job[k].at \in Holding
      BY <2>1, <1>4 DEF Moves, OtherJobs
    <3>2. owner = job[k].prov /\ prov[owner].gate = k /\ job[k].prov \in Providers
      BY <3>1 DEF Inv, Holds, Held, Places, Placed, Holding
    <3> QED
      BY <3>2, <1>0, NoneAssumption
  <2>2. Readable' /\ owner' = job'[j].prov /\ owner' = p /\ (IsLoad(j)' = IsLoad(j))
    BY <1>0, <1>4 DEF Readable, ValidLog, Moves, IsLoad
  <2>3. job'[j].at = at /\ job'[j].event = job[j].event
    BY <1>4 DEF Moves
  <2>4. Held(j)'
    BY <2>2, <2>3, <1>4 DEF Held
  <2> QED
    BY <2>1, <2>4 DEF Holds, Held
<1> QED
  BY <1>6, <1>7, <1>8, <1>9 DEF Inv

\* The task takes the gate, looks for the lock and the lines, and decides.
LEMMA EnterInv ==
  ASSUME Inv, NEW j \in Jobs, Enter(j)
  PROVE  Inv'
<1>0. PICK p \in Providers : p = job[j].prov
  BY WorkerCounted DEF Enter, Working
<1>1. /\ job[j].at = "queued" /\ prov[p].gate = None /\ prov[p] \in Record
      /\ UNCHANGED <<file, synced, acked>>
  BY <1>0 DEF Enter, Inv, Typed
<1>2. ASSUME NEW a \in {"definite", "indeterminate", "corrupt", "conflict"}, End(j, a, prov[p]),
             owner' = owner \/ (owner = None /\ owner' = p)
      PROVE  Inv'
  BY <1>0, <1>1, <1>2, EnterEnds DEF Answers
<1>3. CASE owner' = owner /\ End(j, "definite", prov[p])
  BY <1>2, <1>3
<1>4. CASE owner \in {None, p} /\ owner' = p /\ ~prov[p].uncertain /\ Readable /\ Decide(j)
  <2>1. CASE IsLoad(j) /\ file = <<>> /\ End(j, "ok", prov[p])
    BY <2>1, <1>0, <1>1, <1>4, EnterEnds DEF Answers
  <2>2. CASE IsLoad(j) /\ file # <<>> /\ Hold(j, "resync", prov[p])
    <3>1. prov[p] = [prov[p] EXCEPT !.uncertain = FALSE]
      BY <1>1, <1>4 DEF Record
    <3> QED
      BY <2>2, <3>1, <1>0, <1>1, <1>4, EnterHolds
  <2>3. CASE ~IsLoad(j) /\ job[j].event \in ToSet(file) /\ Hold(j, "resync", prov[p])
    <3>1. prov[p] = [prov[p] EXCEPT !.uncertain = FALSE]
      BY <1>1, <1>4 DEF Record
    <3> QED
      BY <2>3, <3>1, <1>0, <1>1, <1>4, EnterHolds
  <2>4. CASE End(j, "conflict", prov[p])
    BY <2>4, <1>2, <1>4
  <2>5. CASE /\ ~IsLoad(j) /\ ~(\E l \in ToSet(file) : l.id = job[j].event.id)
             /\ job[j].event.seq = Len(file)
             /\ Hold(j, "write", [prov[p] EXCEPT !.uncertain = TRUE])
    BY <2>5, <1>0, <1>1, <1>4, EnterHolds
  <2> QED
    BY <1>0, <1>4, <2>1, <2>2, <2>3, <2>4, <2>5 DEF Decide
<1>5. CASE owner \in {None, p} /\ owner' = p /\ \E a \in {"indeterminate", "definite", "corrupt"} : End(j, a, prov[p])
  BY <1>2, <1>5
<1> QED
  BY <1>0, <1>3, <1>4, <1>5 DEF Enter

\* The line is written, whole or not.
LEMMA WriteInv ==
  ASSUME Inv, NEW j \in Jobs, Write(j)
  PROVE  Inv'
<1>0. PICK p \in Providers : p = job[j].prov
  BY WorkerCounted DEF Write, Working
<1>1. /\ job[j].at = "write" /\ job[j].at \in Working /\ job[j].at \in Holding
      /\ prov[p] \in Record /\ job[j] \in Job
      /\ UNCHANGED <<synced, owner, acked>>
  BY <1>0 DEF Write, Working, Holding, Inv, Typed
<1>2. /\ Placed(j) /\ Held(j) /\ owner = p /\ prov[p].gate = j /\ prov[p].uncertain /\ Readable
      /\ job[j].event \in Events /\ job[j].event.seq = Len(file)
      /\ \A l \in ToSet(file) : l.id # job[j].event.id
      /\ prov[p].life # "absent" /\ job[j].answer = "none" /\ job[j].prov \notin Recovery
  BY <1>0, <1>1 DEF Inv, Typed, Job, Places, Placed, Holds, Held, IsLoad
<1>3. file \in Seq(Events \cup {Torn}) /\ synced \in 0 .. Len(file)
  BY DEF Inv, Typed
<1>4. CASE /\ file' = Append(file, job[j].event) /\ prov' = prov
           /\ job' = [job EXCEPT ![j].at = "sync", ![j].wrote = TRUE]
  <2> DEFINE x == [job[j] EXCEPT !.at = "sync", !.wrote = TRUE]
  <2>1. /\ x \in Job /\ x.at = "sync" /\ x.prov = p /\ x.event = job[j].event
        /\ x.answer = job[j].answer /\ x.wrote = TRUE
    BY <1>0, <1>1 DEF Job
  <2>2. job' = [job EXCEPT ![j] = x]
    BY <1>1, <1>4 DEF Inv, Typed, Job
  <2> HIDE DEF x
  <2>3. OtherJobs(j) /\ job'[j] = x
    BY <2>1, <2>2, JobChanged DEF Inv
  <2>4. Moves(j, "sync") /\ Steady(p)
    BY <1>0, <1>4, <2>1, <2>3 DEF Moves, Steady, OtherProvs, Inv, Typed
  <2>5. /\ file' \in Seq(Events \cup {Torn}) /\ Len(file') = Len(file) + 1
        /\ \A i \in 1 .. Len(file) : file'[i] = file[i]
        /\ file'[Len(file) + 1] = job[j].event
    BY <1>2, <1>3, <1>4, Appended
  <2>6. Stays
    BY <1>1, <1>3, <2>5 DEF Stays
  <2>7. Typed'
    BY <1>1, <1>3, <1>4, <2>3, <2>5 DEF Inv, Typed, OtherJobs
  <2>8. Places'
    <3>1. Placed(j)'
      BY <1>0, <1>1, <1>2, <1>4, <2>1, <2>3 DEF Placed, IsLoad
    <3> QED
      BY <3>1, <1>4, <2>3, OthersPlaced
  <2>9. Provides' /\ Durable'
    BY <1>0, <1>1, <2>4, <2>6, MovesProvides, MovesDurable DEF Working
  <2>10. Holds'
    <3>1. ASSUME NEW k \in Jobs, job'[k].at \in Holding PROVE k = j
      BY <3>1, <1>1, <2>3, OneHolds DEF OtherJobs, Inv
    <3>2. /\ \A i \in 1 .. Len(file) : file[i] \in Events /\ file[i].seq = i - 1
          /\ \A i, k \in 1 .. Len(file) : file[i].id = file[k].id => i = k
          /\ ToSet(file) = {file[i] : i \in 1 .. Len(file)}
      BY <1>2, ReadLog DEF Inv
    <3>3. ToSet(file') = {file'[i] : i \in 1 .. Len(file')}
      BY <2>5, Elements
    <3>4. \A i \in 1 .. Len(file') : file'[i] \in Events /\ file'[i].seq = i - 1
      BY <2>5, <3>2, <1>2, <1>3
    <3>5. \A i \in 1 .. Len(file) : file[i].id # job[j].event.id
      BY <3>2, <1>2
    <3>6. \A i, k \in 1 .. Len(file') : file'[i].id = file'[k].id => i = k
      BY SMTT(30), <2>5, <3>2, <3>5, <1>3
    <3>7. Readable'
      BY <3>3, <3>4, <3>6, <2>5, EventNotTorn DEF Readable, ValidLog
    <3>8. job[j].event \in ToSet(file')
      BY <3>3, <2>5, <1>3
    <3>9. Held(j)'
      BY <3>7, <3>8, <1>0, <1>1, <1>2, <1>4, <2>1, <2>3 DEF Held
    <3> QED
      BY <3>1, <3>9 DEF Holds, Held
  <2> QED
    BY <2>7, <2>8, <2>9, <2>10 DEF Inv
<1>5. CASE file' \in {file, Append(file, Torn)} /\ End(j, "indeterminate", prov[p])
  <2>1. Ends(j, "indeterminate")
    BY <1>0, <1>1, <1>5, EndEffect DEF Answers
  <2>2. /\ file' \in Seq(Events \cup {Torn}) /\ Len(file') >= Len(file)
        /\ \A i \in 1 .. Len(file) : file'[i] = file[i]
    BY <1>3, <1>5, Appended
  <2>3. Stays
    BY <1>1, <1>3, <2>2 DEF Stays
  <2>4. Typed'
    BY <1>0, <1>1, <1>3, <2>1, <2>2 DEF Ends, OtherJobs, OtherProvs, Inv, Typed
  <2>5. Places' /\ Provides' /\ Durable' /\ Holds'
    BY <1>1, <2>1, <2>3, EndsPlaces, EndsProvides, EndsDurable, HolderEnds
  <2> QED
    BY <2>4, <2>5 DEF Inv
<1> QED
  BY <1>0, <1>4, <1>5 DEF Write

\* The sync covers what the operation wrote or found.
LEMMA SyncInv ==
  ASSUME Inv, NEW j \in Jobs, Sync(j)
  PROVE  Inv'
<1>0. PICK p \in Providers : p = job[j].prov
  BY WorkerCounted DEF Sync, Working
<1>1. /\ job[j].at \in {"sync", "resync"} /\ job[j].at \in Working /\ job[j].at \in Holding
      /\ prov[p] \in Record /\ UNCHANGED <<file, owner, acked>>
  BY <1>0 DEF Sync, Working, Holding, Inv, Typed
<1>2. Readable /\ Held(j)
  BY <1>1 DEF Inv, Holds, Held
<1>3. ASSUME NEW u \in BOOLEAN, NEW a \in {"ok", "indeterminate"},
             End(j, a, [prov[p] EXCEPT !.uncertain = u])
      PROVE  Ends(j, a) /\ Places' /\ Provides' /\ Holds'
  <2> DEFINE r == [prov[p] EXCEPT !.uncertain = u]
  <2>1. /\ r \in Record /\ r.life = prov[p].life /\ r.stopping = prov[p].stopping
        /\ r.stop = prov[p].stop /\ r.inflight = prov[p].inflight /\ r.drained = prov[p].drained
    BY <1>1 DEF Record
  <2>2. End(j, a, r) /\ a \in Answers
    BY <1>3 DEF Answers
  <2> HIDE DEF r
  <2>3. Ends(j, a)
    BY <1>0, <1>1, <2>1, <2>2, EndEffect
  <2> QED
    BY <1>1, <2>3, EndsPlaces, EndsProvides, HolderEnds
<1>4. CASE /\ synced' = Len(file)
           /\ End(j, "ok", [prov[p] EXCEPT !.uncertain = prov[p].uncertain /\ job[j].at = "resync"])
  <2>1. (prov[p].uncertain /\ job[j].at = "resync") \in BOOLEAN
    BY <1>1 DEF Record
  <2>2. Ends(j, "ok") /\ Places' /\ Provides' /\ Holds'
    BY <1>3, <1>4, <2>1
  <2>3. Typed'
    BY <1>0, <1>1, <1>4, <2>2 DEF Ends, OtherJobs, OtherProvs, Inv, Typed
  <2>4. /\ \A i \in 1 .. Len(file) : file[i] \in Events /\ file[i].seq = i - 1
        /\ \A i, k \in 1 .. Len(file) : file[i].id = file[k].id => i = k
        /\ ToSet(file) = {file[i] : i \in 1 .. Len(file)}
    BY <1>2, ReadLog DEF Inv
  <2>5. Kept' = ToSet(file) /\ Kept \subseteq Kept'
    BY <1>1, <1>4, <2>4 DEF Kept, Inv, Typed
  <2>6. ASSUME NEW k \in Jobs, job'[k].at = "done", job'[k].answer = "ok"
        PROVE  IF IsLoad(k)' THEN ToSet(job'[k].read) \subseteq Kept' ELSE job'[k].event \in Kept'
    <3>1. CASE k = j
      <4>1. job'[j].event = job[j].event /\ job'[j].read = job[j].read
        BY <3>1, <2>2, <2>6, Blank DEF Ends
      <4>2. CASE job[j].at = "sync"
        BY <3>1, <4>1, <4>2, <1>2, <2>5 DEF Held, Holding, IsLoad, Inv, Places, Placed
      <4>3. CASE job[j].at = "resync"
        BY <3>1, <4>1, <4>3, <1>2, <2>5 DEF Held, Holding, IsLoad
      <4> QED
        BY <1>1, <4>2, <4>3
    <3>2. CASE k # j
      <4>1. job'[k] = job[k]
        BY <3>2, <2>2 DEF Ends, OtherJobs
      <4> QED
        BY <4>1, <2>5, <2>6 DEF Inv, Durable, IsLoad
    <3> QED
      BY <3>1, <3>2
  <2>7. Durable'
    BY <1>1, <1>4, <2>4, <2>5, <2>6 DEF Durable, Inv
  <2> QED
    BY <2>2, <2>3, <2>7 DEF Inv
<1>5. CASE UNCHANGED synced /\ End(j, "indeterminate", [prov[p] EXCEPT !.uncertain = TRUE])
  <2>1. Ends(j, "indeterminate") /\ Places' /\ Provides' /\ Holds'
    BY <1>3, <1>5
  <2>2. Typed'
    BY <1>0, <1>1, <1>5, <2>1, TypedStays DEF Ends, OtherJobs, OtherProvs, Inv, Typed
  <2>3. Durable'
    BY <1>1, <1>5, <2>1, FileStays, EndsDurable
  <2> QED
    BY <2>1, <2>2, <2>3 DEF Inv
<1>6. [prov[p] EXCEPT !.uncertain = @ /\ job[j].at = "resync"]
        = [prov[p] EXCEPT !.uncertain = prov[p].uncertain /\ job[j].at = "resync"]
  BY <1>1 DEF Record
<1> QED
  BY <1>0, <1>4, <1>5, <1>6 DEF Sync

\* The executor drops the task; a commit that is told so latches the gate.
LEMMA JoinFailsInv ==
  ASSUME Inv, NEW j \in Jobs, JoinFails(j)
  PROVE  Inv'
<1>0. PICK p \in Providers : p = job[j].prov
  BY WorkerCounted DEF JoinFails, Working
<1>1. /\ job[j].at = "queued" /\ job[j].at \in Working /\ prov[p] \in Record /\ job[j] \in Job
      /\ UNCHANGED <<file, synced, owner, acked>>
  BY <1>0 DEF JoinFails, Working, Inv, Typed
<1> DEFINE told == job[j].waiting /\ ~IsLoad(j)
           a == IF IsLoad(j) THEN "definite" ELSE "indeterminate"
           u == prov[p].uncertain \/ told
           m == [prov[p] EXCEPT !.uncertain = u]
           r == Released(m)
           x == IF job[j].waiting THEN [job[j] EXCEPT !.at = "done", !.answer = a] ELSE Idle
<1>2. u \in BOOLEAN /\ a \in Answers /\ a # "ok" /\ (prov[p].uncertain => u)
  BY <1>1 DEF Record, Job, Answers
<1>3. /\ x \in Job
      /\ \/ x = Idle
         \/ /\ x.at = "done" /\ x.answer = a /\ x.prov = job[j].prov /\ x.event = job[j].event
            /\ x.wrote = job[j].wrote /\ x.read = job[j].read
  <2> HIDE DEF a
  <2> QED
    BY <1>1, <1>2, Blank DEF Job
<1>4. /\ m \in Record /\ m.life = prov[p].life /\ m.stopping = prov[p].stopping
      /\ m.stop = prov[p].stop /\ m.inflight = prov[p].inflight /\ m.drained = prov[p].drained
      /\ m.gate = prov[p].gate /\ m.uncertain = u
  <2> HIDE DEF u
  <2> QED
    BY <1>1, <1>2 DEF Record
<1>5. prov' = [prov EXCEPT ![p] = r] /\ job' = [job EXCEPT ![j] = x]
  <2>1. prov' = [prov EXCEPT ![p] = Released([prov[p] EXCEPT !.uncertain = @ \/ told])]
    BY <1>0 DEF JoinFails
  <2>2. [prov[p] EXCEPT !.uncertain = @ \/ told] = m
    OBVIOUS
  <2>3. job' = [job EXCEPT ![j] = x]
    BY DEF JoinFails
  <2> QED
    BY <2>1, <2>2, <2>3
<1> HIDE DEF a, u, m, x
<1>6. /\ r \in Record /\ r.life = prov[p].life /\ r.stopping = prov[p].stopping
      /\ r.stop = prov[p].stop /\ r.inflight = prov[p].inflight - 1
      /\ (prov[p].drained \/ prov[p].inflight = 1 => r.drained)
      /\ r.gate = prov[p].gate /\ r.uncertain = u
  BY <1>4, RecordReleased
<1> HIDE DEF r
<1>7. OtherJobs(j) /\ job'[j] = x
  BY <1>3, <1>5, JobChanged DEF Inv
<1>8. OtherProvs(p) /\ prov'[p] = r
  BY <1>5, <1>6, ProvChanged DEF Inv
<1>9. Ends(j, a) /\ Stays
  BY <1>0, <1>1, <1>3, <1>6, <1>7, <1>8, FileStays DEF Ends
<1>10. Typed'
  BY <1>1, <1>7, <1>8, TypedStays DEF OtherJobs, OtherProvs, Inv, Typed
<1>11. job[j].wrote = FALSE
  BY <1>1 DEF Inv, Places, Placed, Job
<1>12. Places' /\ Provides' /\ Durable'
  BY <1>1, <1>2, <1>9, <1>11, EndsPlaces, EndsProvides, EndsDurable
<1>13. Holds'
  <2>1. ASSUME NEW k \in Jobs \ {j}, job[k].at \in Holding
        PROVE  /\ prov'[owner].gate = prov[owner].gate
               /\ prov[owner].uncertain => prov'[owner].uncertain
    <3>1. owner \in Providers
      BY <2>1 DEF Inv, Places, Placed, Holds, Held, Holding
    <3> QED
      BY <3>1, <1>2, <1>6, <1>8 DEF OtherProvs
  <2>2. job'[j].at \notin Holding
    BY <1>3, <1>7, Blank DEF Holding
  <2> QED
    BY <2>1, <2>2, <1>1, <1>7, OthersHold
<1> QED
  BY <1>10, <1>12, <1>13 DEF Inv

\* A place without a permit is left.
LEMMA LeavesInv ==
  ASSUME Inv, NEW j \in Jobs, job[j].at = "done", job' = [job EXCEPT ![j] = Idle],
         UNCHANGED <<file, synced, owner, prov>>, acked' \subseteq Kept
  PROVE  Inv'
<1>1. OtherJobs(j) /\ job'[j] = Idle
  BY Blank, JobChanged DEF Inv
<1>2. Typed'
  <2>1. Kept \subseteq Events
    BY DEF Kept, Inv, Durable
  <2> QED
    BY <1>1, <2>1 DEF Inv, Typed, OtherJobs
<1>3. Places'
  <2>1. Placed(j)'
    BY <1>1, Blank, RolesAssumption, NoneAssumption DEF Placed, IsLoad
  <2> QED
    BY <1>1, <2>1, OthersPlaced
<1>4. Holds'
  BY <1>1, Blank, OthersHold DEF Holding
<1>5. Durable'
  <2>1. Kept' = Kept
    BY DEF Kept
  <2>2. ASSUME NEW k \in Jobs, job'[k].at = "done" PROVE job'[k] = job[k]
    BY <2>2, <1>1, Blank DEF OtherJobs
  <2> QED
    BY <2>1, <2>2 DEF Inv, Durable, IsLoad
<1>6. Provides'
  <2> SUFFICES ASSUME NEW q \in Providers PROVE Provided(q)'
    BY DEF Provides
  <2>1. Counted(q)' = Counted(q)
    BY <1>1, Blank DEF Counted, Working, OtherJobs
  <2>2. Provided(q) /\ prov'[q] = prov[q]
    BY DEF Inv, Provides
  <2>3. \A k \in Jobs : job'[k].prov = q => job'[k] = job[k]
    BY <1>1, Blank, NoneAssumption DEF OtherJobs
  <2> QED
    BY <2>1, <2>2, <2>3 DEF Provided, Busy
<1> QED
  BY <1>2, <1>3, <1>4, <1>5, <1>6 DEF Inv

\* The caller hears the answer: what it is told of is durable.
LEMMA TakeInv ==
  ASSUME Inv, NEW j \in Jobs, Take(j)
  PROVE  Inv'
<1>1. /\ job[j].at = "done" /\ job' = [job EXCEPT ![j] = Idle]
      /\ UNCHANGED <<file, synced, owner, prov>>
  BY DEF Take
<1>2. acked' \subseteq Kept
  <2>1. acked \subseteq Kept
    BY DEF Inv, Durable
  <2>2. job[j].answer = "ok" =>
          IF IsLoad(j) THEN ToSet(job[j].read) \subseteq Kept ELSE job[j].event \in Kept
    BY <1>1 DEF Inv, Durable
  <2> QED
    BY <2>1, <2>2 DEF Take
<1> QED
  BY <1>1, <1>2, LeavesInv

\* The caller goes; its task stays where it is.
LEMMA CancelInv ==
  ASSUME Inv, NEW j \in Jobs, Cancel(j)
  PROVE  Inv'
<1>1. CASE job[j].at = "done"
  BY <1>1, LeavesInv DEF Cancel, Inv, Durable
<1>2. CASE job[j].at # "done"
  <2> DEFINE x == [job[j] EXCEPT !.waiting = FALSE]
  <2>1. job[j] \in Job /\ job[j].at \notin {"idle", "admit", "counted", "done"}
    BY <1>2 DEF Cancel, Inv, Typed
  <2>2. /\ x \in Job /\ x.at = job[j].at /\ x.prov = job[j].prov /\ x.event = job[j].event
        /\ x.answer = job[j].answer /\ x.wrote = job[j].wrote /\ x.read = job[j].read
    BY <2>1 DEF Job
  <2>3. job' = [job EXCEPT ![j] = x] /\ UNCHANGED <<file, synced, owner, prov, acked>>
    BY <1>2 DEF Cancel
  <2> HIDE DEF x
  <2>4. OtherJobs(j) /\ job'[j] = x
    BY <2>2, <2>3, JobChanged DEF Inv
  <2>5. \A k \in Jobs : /\ job'[k].at = job[k].at /\ job'[k].prov = job[k].prov
                        /\ job'[k].event = job[k].event /\ job'[k].answer = job[k].answer
                        /\ job'[k].wrote = job[k].wrote /\ job'[k].read = job[k].read
    BY <2>2, <2>4 DEF OtherJobs
  <2>6. Typed'
    BY <2>3, <2>4, TypedStays DEF OtherJobs, Inv, Typed
  <2>7. Places'
    <3>1. Placed(j)'
      BY <2>1, <2>3, <2>5 DEF Placed, IsLoad, Inv, Places
    <3> QED
      BY <3>1, <2>3, <2>4, OthersPlaced
  <2>8. Holds'
    BY <2>3, <2>5 DEF Inv, Holds, Held, Readable, ValidLog, IsLoad
  <2>9. Durable'
    BY <2>3, <2>5, FileStays, StaysDurable
  <2>10. Provides'
    <3>1. \A q : Counted(q)' = Counted(q)
      BY <2>5 DEF Counted
    <3> QED
      BY <2>3, <2>5, <3>1 DEF Inv, Provides, Provided, Busy
  <2> QED
    BY <2>6, <2>7, <2>8, <2>9, <2>10 DEF Inv
<1> QED
  BY <1>1, <1>2

-----------------------------------------------------------------------------
(***************************************************************************)
(* The invariant is kept: providers.                                       *)
(***************************************************************************)
\* A provider changes, its gate and its count do not.
LEMMA ProviderInv ==
  ASSUME Inv, NEW p \in Providers, NEW r \in Record, prov' = [prov EXCEPT ![p] = r],
         UNCHANGED <<file, synced, owner, job, acked>>,
         r.life # "absent", r.gate = prov[p].gate, r.uncertain = prov[p].uncertain,
         r.inflight = prov[p].inflight, r.stop # "no" => r.stopping,
         r.stop = "done" => prov[p].inflight = 0 \/ prov[p].stop = "done",
         r.stop = "wait" => \/ prov[p].inflight # 0
                            \/ prov[p].stop = "wait" /\ r.drained = prov[p].drained
  PROVE  Inv'
<1>1. OtherProvs(p) /\ prov'[p] = r
  BY ProvChanged DEF Inv
<1>2. /\ \A q \in Providers : prov'[q].gate = prov[q].gate /\ prov'[q].uncertain = prov[q].uncertain
      /\ \A q \in Providers : prov[q].life # "absent" => prov'[q].life # "absent"
  BY <1>1 DEF OtherProvs
<1>3. Typed'
  BY <1>1, TypedStays DEF OtherProvs, Inv, Typed
<1>4. Places'
  BY <1>2 DEF Inv, Places, Placed, IsLoad
<1>5. Holds'
  <2>1. \A j \in Jobs : job[j].at \in Holding => owner \in Providers
    BY DEF Inv, Places, Placed, Holds, Held, Holding
  <2> QED
    BY <1>2, <2>1 DEF Inv, Holds, Held, Readable, ValidLog, IsLoad
<1>6. Durable'
  BY FileStays, StaysDurable
<1>7. ASSUME NEW q \in Providers PROVE Provided(q)'
  <2>1. Provided(q) /\ Counted(q)' = Counted(q)
    BY DEF Inv, Provides, Counted
  <2>2. CASE q # p
    BY <2>1, <2>2, <1>1 DEF OtherProvs, Provided, Busy
  <2>3. CASE q = p
    <3>1. Cardinality(Counted(p)) \in Nat /\ IsFiniteSet(Counted(p))
      BY CountedFinite
    <3>2. prov[p].inflight = 0 => \A j \in Busy(p) : job[j].at \in {"admit", "counted", "done"}
      <4> SUFFICES ASSUME prov[p].inflight = 0, NEW j \in Busy(p)
                   PROVE  job[j].at \in {"admit", "counted", "done"}
        OBVIOUS
      <4>1. Counted(p) = {}
        BY <2>1, <2>3, <3>1, FS_EmptySet DEF Provided
      <4>2. job[j] \in Job /\ job[j].at \notin Working /\ job[j].at # "idle"
        BY <4>1, NoneAssumption, Blank DEF Counted, Busy, Inv, Typed, Places, Placed
      <4> QED
        BY <4>2 DEF Job, Working
    <3>3. prov[p].inflight \in Nat
      BY <2>1, <2>3, <3>1 DEF Provided
    <3>4. r.stop = "done" => \A j \in Busy(p) : job[j].at \in {"admit", "counted", "done"}
      BY <2>1, <2>3, <3>2 DEF Provided
    <3>5. r.stop = "wait" => r.inflight > 0 \/ r.drained
      BY <2>1, <2>3, <3>3 DEF Provided
    <3>6. /\ prov'[q] = r /\ Counted(q)' = Counted(p) /\ Busy(q)' = Busy(p)
          /\ r.inflight = Cardinality(Counted(p))
      BY <2>1, <2>3, <1>1 DEF Busy, Provided
    <3> QED
      BY <3>4, <3>5, <3>6 DEF Provided
  <2> QED
    BY <2>2, <2>3
<1>8. Provides'
  BY <1>7 DEF Provides
<1> QED
  BY <1>3, <1>4, <1>5, <1>6, <1>8 DEF Inv

\* A provider is opened: JsonlSessionPersistence::new.
LEMMA OpenInv ==
  ASSUME Inv, NEW p \in Providers, Open(p)
  PROVE  Inv'
<1>1. prov[p] = Fresh("absent")
  BY DEF Open, Inv, Provides, Provided
<1>2. LET r == Fresh("live")
      IN /\ r.life # "absent" /\ r.gate = prov[p].gate /\ r.uncertain = prov[p].uncertain
         /\ r.inflight = prov[p].inflight /\ r.stop = "no"
  BY <1>1 DEF Fresh
<1> QED
  BY <1>2, Blank, ProviderInv DEF Open

\* stop begins.
LEMMA StopBeginInv ==
  ASSUME Inv, NEW p \in Providers, StopBegin(p)
  PROVE  Inv'
<1> DEFINE r == [prov[p] EXCEPT !.stopping = TRUE, !.stop = "check"]
<1>1. prov[p] \in Record
  BY DEF Inv, Typed
<1>2. /\ r \in Record /\ r.life = prov[p].life /\ r.gate = prov[p].gate /\ r.stop = "check"
      /\ r.stopping /\ r.uncertain = prov[p].uncertain /\ r.inflight = prov[p].inflight
  BY <1>1 DEF Record
<1>3. prov[p].life = "live" /\ prov' = [prov EXCEPT ![p] = r]
  BY <1>1 DEF StopBegin, Inv, Typed, Record
<1> HIDE DEF r
<1> QED
  BY <1>2, <1>3, ProviderInv DEF StopBegin

\* stop looks at the count, or takes the permit.
LEMMA StopStepInv ==
  ASSUME Inv, NEW p \in Providers, StopStep(p)
  PROVE  Inv'
<1>1. prov[p] \in Record /\ Provided(p) /\ UNCHANGED <<file, synced, owner, job, acked>>
  BY DEF Inv, Typed, Provides, StopStep
<1>2. prov[p].life # "absent" /\ prov[p].stop # "no" /\ prov[p].stopping
  BY <1>1 DEF Provided, Fresh, StopStep
<1>3. ASSUME NEW s \in {"done", "wait"}, s = (IF prov[p].inflight = 0 THEN "done" ELSE "wait"),
             prov' = [prov EXCEPT ![p].stop = s]
      PROVE  Inv'
  <2> DEFINE r == [prov[p] EXCEPT !.stop = s]
  <2>1. /\ r \in Record /\ r.life = prov[p].life /\ r.gate = prov[p].gate /\ r.stop = s
        /\ r.stopping = prov[p].stopping /\ r.uncertain = prov[p].uncertain
        /\ r.inflight = prov[p].inflight
    BY <1>1 DEF Record
  <2>2. prov' = [prov EXCEPT ![p] = r]
    BY <1>1, <1>3 DEF Inv, Typed, Record
  <2> HIDE DEF r
  <2> QED
    BY <1>1, <1>2, <1>3, <2>1, <2>2, ProviderInv
<1>4. ASSUME prov' = [prov EXCEPT ![p].stop = "check", ![p].drained = FALSE]
      PROVE  Inv'
  <2> DEFINE r == [prov[p] EXCEPT !.stop = "check", !.drained = FALSE]
  <2>1. /\ r \in Record /\ r.life = prov[p].life /\ r.gate = prov[p].gate /\ r.stop = "check"
        /\ r.stopping = prov[p].stopping /\ r.uncertain = prov[p].uncertain
        /\ r.inflight = prov[p].inflight
    BY <1>1 DEF Record
  <2>2. prov' = [prov EXCEPT ![p] = r]
    BY <1>1, <1>4 DEF Inv, Typed, Record
  <2> HIDE DEF r
  <2> QED
    BY <1>1, <1>2, <2>1, <2>2, ProviderInv
<1> QED
  BY <1>3, <1>4 DEF StopStep

\* The host drops its last handle.
LEMMA DropInv ==
  ASSUME Inv, NEW p \in Providers, Drop(p)
  PROVE  Inv'
<1> DEFINE r == [prov[p] EXCEPT !.life = "dropped"]
<1>1. prov[p] \in Record /\ Provided(p)
  BY DEF Inv, Typed, Provides
<1>2. /\ r \in Record /\ r.life = "dropped" /\ r.gate = prov[p].gate /\ r.stop = prov[p].stop
      /\ r.stopping = prov[p].stopping /\ r.uncertain = prov[p].uncertain
      /\ r.inflight = prov[p].inflight /\ r.drained = prov[p].drained
  BY <1>1 DEF Record
<1>3. prov' = [prov EXCEPT ![p] = r]
  BY <1>1 DEF Drop, Inv, Typed, Record
<1>4. UNCHANGED <<file, synced, owner, job, acked>>
  BY DEF Drop
<1>5. (r.stop # "no" => r.stopping) /\ (r.stop = "wait" => prov[p].stop = "wait")
      /\ (r.stop = "done" => prov[p].stop = "done")
  BY <1>1, <1>2 DEF Provided
<1> HIDE DEF r
<1> QED
  BY <1>2, <1>3, <1>4, <1>5, ProviderInv

\* A provider goes with all that works for it; a line it wrote may be torn.
LEMMA GoneInv ==
  ASSUME Inv, NEW p \in Providers, Gone(p), LetGo(p), UNCHANGED <<synced, acked>>,
         job' = [j \in Jobs |-> IF j \in Busy(p) THEN Idle ELSE job[j]],
         \/ file' = file
         \/ file' = Append(file, Torn) /\ \E j \in Busy(p) : job[j].at = "write"
  PROVE  Inv'
<1>1. OtherProvs(p) /\ prov'[p] = Fresh("absent")
  BY Blank, ProvChanged DEF Gone, Inv
<1>2. \A k \in Jobs : job'[k] = IF job[k].prov = p THEN Idle ELSE job[k]
  BY DEF Busy
<1>3. \A k \in Jobs : job'[k].at # "idle" => job'[k] = job[k] /\ job[k].prov # p
  BY <1>2, Blank
<1>4. file \in Seq(Events \cup {Torn}) /\ synced \in 0 .. Len(file)
  BY DEF Inv, Typed
<1>5. /\ file' \in Seq(Events \cup {Torn}) /\ Len(file') >= Len(file)
      /\ \A i \in 1 .. Len(file) : file'[i] = file[i]
  BY SMTT(30), <1>4, Appended
<1>6. Typed'
  <2>1. job' \in [Jobs -> Job]
    BY Blank DEF Inv, Typed
  <2> QED
    BY <1>1, <1>4, <1>5, <2>1 DEF Inv, Typed, OtherProvs, LetGo
<1>7. Places'
  <2> SUFFICES ASSUME NEW k \in Jobs PROVE Placed(k)'
    BY DEF Places
  <2>1. CASE job'[k] = Idle
    BY <2>1, Blank, RolesAssumption, NoneAssumption DEF Placed, IsLoad
  <2>2. CASE job'[k] = job[k] /\ job[k].prov # p
    <3>1. Placed(k)
      BY DEF Inv, Places
    <3> QED
      BY <2>2, <3>1, <1>1 DEF Placed, IsLoad, OtherProvs
  <2> QED
    BY <1>2, <2>1, <2>2
<1>8. Holds'
  <2> SUFFICES ASSUME NEW k \in Jobs, job'[k].at \in Holding PROVE Held(k)'
    BY DEF Holds, Held
  <2>1. job'[k] = job[k] /\ job[k].prov # p /\ Held(k) /\ job[k].at \in Holding
    BY <1>3 DEF Holding, Inv, Holds
  <2>2. owner = job[k].prov /\ owner \in Providers /\ owner' = owner /\ prov'[owner] = prov[owner]
    BY <2>1, <1>1 DEF Held, LetGo, OtherProvs, Inv, Places, Placed, Holding
  <2>3. file' = file
    <3> SUFFICES ASSUME NEW j \in Busy(p), job[j].at = "write" PROVE FALSE
      OBVIOUS
    <3>1. j = k
      BY <2>1, OneHolds DEF Inv, Busy, Holding
    <3> QED
      BY <3>1, <2>1 DEF Busy
  <2>4. Readable' = Readable /\ IsLoad(k)' = IsLoad(k)
    BY <2>1, <2>3 DEF Readable, ValidLog, IsLoad
  <2> QED
    BY <2>1, <2>2, <2>3, <2>4 DEF Held
<1>9. Durable'
  <2>1. Stays
    BY <1>4, <1>5 DEF Stays
  <2>2. ASSUME NEW k \in Jobs, job'[k].at = "done" PROVE job'[k] = job[k]
    BY <2>2, <1>3
  <2> QED
    BY <2>1, <2>2, StaysDurable
<1>10. ASSUME NEW q \in Providers PROVE Provided(q)'
  <2>1. CASE q = p
    <3>1. Counted(p)' = {}
      BY <1>3, NoneAssumption DEF Counted, Working
    <3>2. prov'[p].inflight = 0 /\ prov'[p].stop = "no"
      BY <1>1 DEF Fresh
    <3> QED
      BY <2>1, <3>1, <3>2, <1>1, FS_EmptySet DEF Provided
  <2>2. CASE q # p
    <3>1. Counted(q)' = Counted(q) /\ Busy(q)' = Busy(q)
      BY <2>2, <1>2, Blank, NoneAssumption DEF Counted, Busy
    <3>2. Provided(q) /\ prov'[q] = prov[q]
      BY <2>2, <1>1 DEF OtherProvs, Inv, Provides
    <3>3. \A k \in Busy(q) : job'[k] = job[k]
      BY <2>2, <1>2 DEF Busy
    <3> QED
      BY <3>1, <3>2, <3>3 DEF Provided
  <2> QED
    BY <2>1, <2>2
<1>11. Provides'
  BY <1>10 DEF Provides
<1> QED
  BY <1>6, <1>7, <1>8, <1>9, <1>11 DEF Inv

\* The last handle of all goes.
LEMMA VanishInv ==
  ASSUME Inv, NEW p \in Providers, Vanish(p)
  PROVE  Inv'
<1>1. job' = [j \in Jobs |-> IF j \in Busy(p) THEN Idle ELSE job[j]]
  BY DEF Vanish, Inv, Typed
<1> QED
  BY <1>1, GoneInv DEF Vanish

\* A process dies.
LEMMA CrashInv ==
  ASSUME Inv, NEW p \in Providers, Crash(p)
  PROVE  Inv'
BY GoneInv DEF Crash

\* The lines that were synced are all that can be counted on.
LEMMA PowerLossInv ==
  ASSUME Inv, PowerLoss
  PROVE  Inv'
<1>1. file \in Seq(Events \cup {Torn}) /\ synced \in 0 .. Len(file)
  BY DEF Inv, Typed
<1>2. PICK n \in synced .. Len(file) :
        file' \in {SubSeq(file, 1, n)} \cup
                  {Append(SubSeq(file, 1, n), Torn) : i \in n + 1 .. Len(file)}
  BY DEF PowerLoss
<1>3. /\ file' \in Seq(Events \cup {Torn}) /\ Len(file') >= synced
      /\ \A i \in 1 .. synced : file'[i] = file[i]
  <2> DEFINE s == SubSeq(file, 1, n)
  <2>1. s \in Seq(Events \cup {Torn}) /\ Len(s) = n /\ \A i \in 1 .. n : s[i] = file[i]
    BY <1>1, Shortened
  <2>2. file' = s \/ file' = Append(s, Torn)
    BY <1>2
  <2> HIDE DEF s
  <2>3. /\ Append(s, Torn) \in Seq(Events \cup {Torn}) /\ Len(Append(s, Torn)) = n + 1
        /\ \A i \in 1 .. n : Append(s, Torn)[i] = s[i]
    BY <2>1, Appended
  <2>4. Len(file') >= n /\ (\A i \in 1 .. n : file'[i] = file[i]) /\ file' \in Seq(Events \cup {Torn})
    BY <2>1, <2>2, <2>3
  <2>5. n \in Nat /\ synced \in Nat /\ synced <= n /\ Len(file') \in Nat
    BY <1>1, <2>4
  <2> QED
    BY <2>4, <2>5
<1>4. /\ \A j \in Jobs : job'[j] = Idle
      /\ \A p \in Providers : prov'[p] = Fresh("absent")
      /\ UNCHANGED <<synced, acked>> /\ owner' = None
  BY DEF PowerLoss
<1>5. Typed'
  BY <1>1, <1>3, <1>4, Blank DEF PowerLoss, Inv, Typed
<1>6. Places'
  BY <1>4, Blank, RolesAssumption, NoneAssumption DEF Places, Placed, IsLoad
<1>7. Holds'
  BY <1>4, Blank DEF Holds, Held, Holding
<1>8. Durable'
  <2>1. Stays
    BY <1>3, <1>4 DEF Stays
  <2>2. \A k \in Jobs : job'[k].at # "done"
    BY <1>4, Blank
  <2> QED
    BY <2>1, <2>2, StaysDurable
<1>9. Provides'
  <2> SUFFICES ASSUME NEW p \in Providers PROVE Provided(p)'
    BY DEF Provides
  <2>1. Counted(p)' = {}
    BY <1>4, Blank DEF Counted, Working
  <2>2. prov'[p] = Fresh("absent")
    BY <1>4
  <2>3. prov'[p].inflight = 0 /\ prov'[p].stop = "no"
    BY <2>2 DEF Fresh
  <2> QED
    BY <2>1, <2>2, <2>3, FS_EmptySet DEF Provided
<1> QED
  BY <1>5, <1>6, <1>7, <1>8, <1>9 DEF Inv

\* Each step keeps the invariant.
LEMMA StepInv == Inv /\ [Next]_vars => Inv'
<1> SUFFICES ASSUME Inv, [Next]_vars PROVE Inv'
  OBVIOUS
<1>1. CASE UNCHANGED vars
  <2>1. Typed' /\ Places'
    BY <1>1 DEF vars, Inv, Typed, Places, Placed, IsLoad
  <2>2. Holds'
    BY <1>1 DEF vars, Inv, Holds, Held, Readable, ValidLog, IsLoad
  <2>3. Durable'
    BY <1>1 DEF vars, Inv, Durable, Kept, IsLoad
  <2>4. Provides'
    BY <1>1 DEF vars, Inv, Provides, Provided, Counted, Busy
  <2> QED
    BY <2>1, <2>2, <2>3, <2>4 DEF Inv
<1>2. CASE Next
  <2>1. ASSUME NEW j \in Jobs, Work(j) \/ JoinFails(j) \/ Take(j) \/ Cancel(j)
        PROVE  Inv'
    BY <2>1, CountInv, RecheckInv, EnterInv, WriteInv, SyncInv, JoinFailsInv, TakeInv, CancelInv
       DEF Work
  <2>2. ASSUME NEW j \in Jobs, NEW p \in Providers, NEW e \in Events \cup {None}, Call(j, p, e)
        PROVE  Inv'
    BY <2>2, CallInv
  <2>3. ASSUME NEW p \in Providers,
               \/ Open(p) \/ StopBegin(p) \/ StopStep(p) \/ Drop(p) \/ Vanish(p) \/ Crash(p)
        PROVE  Inv'
    BY <2>3, OpenInv, StopBeginInv, StopStepInv, DropInv, VanishInv, CrashInv
  <2> QED
    BY <1>2, <2>1, <2>2, <2>3, PowerLossInv DEF Next
<1> QED
  BY <1>1, <1>2

\* The invariant holds in every state.
LEMMA Invariance == Spec => []Inv
BY InitInv, StepInv, PTL DEF Spec

-----------------------------------------------------------------------------
(***************************************************************************)
(* What follows.                                                           *)
(***************************************************************************)
\* Types, and no provider counts more than there are operations.
THEOREM TypesCorrect == Spec => []TypeOK
<1>1. Inv => TypeOK
  <2> SUFFICES ASSUME Inv PROVE TypeOK
    OBVIOUS
  <2>1. ASSUME NEW p \in Providers PROVE prov[p] \in Provider
    <3>1. prov[p] \in Record /\ prov[p].inflight = Cardinality(Counted(p))
      BY DEF Inv, Typed, Provides, Provided
    <3>2. prov[p].inflight \in 0 .. Cardinality(Jobs)
      BY <3>1, CountedFinite, JobsAssumption, FS_CardinalityType
    <3> QED
      BY <3>1, <3>2 DEF Record, Provider
  <2> QED
    BY <2>1 DEF Inv, Typed, TypeOK
<1> QED
  BY <1>1, Invariance, PTL

\* "definite", "corrupt" and "conflict" are told of operations that have not
\* written, whatever failed and in whichever order.
THEOREM DefiniteAnswersTrue == Spec => []DefiniteIsTrue
<1>1. Inv => DefiniteIsTrue
  BY DEF Inv, Places, Placed, DefiniteIsTrue
<1> QED
  BY <1>1, Invariance, PTL

\* stop returns once nothing of its provider runs, and its wakeup is not lost.
THEOREM StopsAreClean == Spec => []StopsClean
<1>1. Inv => StopsClean
  BY DEF Inv, Provides, Provided, StopsClean
<1> QED
  BY <1>1, Invariance, PTL

\* The latch and the lock, by the steps that touch them: a step of an operation
\* changes no other provider, and its own as follows.
LEMMA OperationStep ==
  ASSUME Inv, NEW j \in Jobs, Work(j) \/ JoinFails(j)
  PROVE  LET p == job[j].prov
         IN /\ p \in Providers /\ OtherProvs(p)
            /\ \/ owner' = owner
               \/ owner = None /\ owner' = p
            /\ file' = file \/ job[j].at = "write"
            /\ \/ prov'[p].gate \in {None, prov[p].gate}
               \/ ~prov[p].uncertain
            /\ \/ prov[p].uncertain => prov'[p].uncertain
               \/ job[j].at = "sync" /\ synced' = Len(file')
<1>0. PICK p \in Providers : p = job[j].prov
  BY WorkerCounted DEF Work, Count, Recheck, Enter, Write, Sync, JoinFails, Working,
     Inv, Places, Placed
<1>1. prov[p] \in Record /\ job[j] \in Job /\ prov \in [Providers -> Record]
  BY <1>0 DEF Inv, Typed
<1>3. \A r \in Record : /\ Released(r) \in Record /\ Released(r).uncertain = r.uncertain
                        /\ Released(r).gate = r.gate
  BY RecordReleased
<1>4. ASSUME NEW r \in Record, prov' = [prov EXCEPT ![p] = r]
      PROVE  OtherProvs(p) /\ prov'[p] = r
  BY <1>4, ProvChanged DEF Inv
<1>5. ASSUME NEW a, NEW r \in Record, End(j, a, r)
      PROVE  OtherProvs(p) /\ prov'[p].gate = None /\ prov'[p].uncertain = r.uncertain
  <2>1. prov' = [prov EXCEPT ![p] = Released([r EXCEPT !.gate = None])]
    BY <1>0, <1>5 DEF End
  <2>2. [r EXCEPT !.gate = None] \in Record /\ [r EXCEPT !.gate = None].gate = None
        /\ [r EXCEPT !.gate = None].uncertain = r.uncertain
    BY GateSet
  <2> QED
    BY <2>1, <2>2, <1>3, <1>4
<1>6. ASSUME NEW at, NEW r \in Record, Hold(j, at, r)
      PROVE  OtherProvs(p) /\ prov'[p].gate = j /\ prov'[p].uncertain = r.uncertain
  <2>1. prov' = [prov EXCEPT ![p] = [r EXCEPT !.gate = j]]
    BY <1>0, <1>6 DEF Hold
  <2> QED
    <3> DEFINE m == [r EXCEPT !.gate = j]
    <3>1. m \in Record /\ m.gate = j /\ m.uncertain = r.uncertain
      BY GateSet
    <3> HIDE DEF m
    <3> QED
      BY <2>1, <3>1, <1>4 DEF m
<1>7. prov' = prov => OtherProvs(p)
  BY <1>1 DEF OtherProvs
<1>8. CASE Count(j)
  <2>1. prov' = [prov EXCEPT ![p] = [prov[p] EXCEPT !.inflight = prov[p].inflight + 1]]
    BY <1>0, <1>1, <1>8 DEF Count, Record
  <2>2. prov[p].inflight + 1 \in Int
    BY <1>1 DEF Record
  <2> DEFINE r == [prov[p] EXCEPT !.inflight = prov[p].inflight + 1]
  <2>4. r \in Record /\ r.gate = prov[p].gate /\ r.uncertain = prov[p].uncertain
    BY <2>2, <1>1 DEF Record
  <2> HIDE DEF r
  <2>3. OtherProvs(p) /\ prov'[p].gate = prov[p].gate /\ prov'[p].uncertain = prov[p].uncertain
    BY <2>1, <2>4, <1>4 DEF r
  <2> QED
    BY <1>0, <1>8, <2>3 DEF Count
<1>9. CASE Recheck(j)
  <2>1. prov' = prov \/ prov' = [prov EXCEPT ![p] = Released(prov[p])]
    BY <1>0, <1>9 DEF Recheck
  <2>2. OtherProvs(p) /\ prov'[p].gate = prov[p].gate /\ prov'[p].uncertain = prov[p].uncertain
    BY <2>1, <1>1, <1>3, <1>4, <1>7
  <2> QED
    BY <1>0, <1>9, <2>2 DEF Recheck
<1>10. CASE Enter(j)
  <2>1. /\ owner' = owner \/ (owner = None /\ owner' = p)
        /\ file' = file
        /\ \/ \E a \in Answers : End(j, a, prov[p])
           \/ ~prov[p].uncertain /\ Decide(j)
    BY <1>0, <1>10 DEF Enter, Answers
  <2>2. ASSUME ~prov[p].uncertain, Decide(j) PROVE OtherProvs(p)
    <3>1. \/ \E a \in Answers : End(j, a, prov[p])
          \/ \E at \in Holding : Hold(j, at, prov[p])
          \/ \E at \in Holding : Hold(j, at, [prov[p] EXCEPT !.uncertain = TRUE])
      BY <1>0, <2>2 DEF Decide, Answers, Holding
    <3> QED
      BY <3>1, <1>1, UncertainSet, <1>5, <1>6
  <2> QED
    BY <1>0, <1>1, <1>5, <2>1, <2>2
<1>11. CASE Write(j)
  <2>1. prov' = prov \/ End(j, "indeterminate", prov[p])
    BY <1>0, <1>11 DEF Write
  <2>2. OtherProvs(p) /\ prov'[p].gate \in {None, prov[p].gate} /\ prov'[p].uncertain = prov[p].uncertain
    BY <2>1, <1>1, <1>5, <1>7
  <2> QED
    BY <1>0, <1>11, <2>2 DEF Write
<1>12. CASE Sync(j)
  <2>1. UNCHANGED <<file, owner>>
    BY <1>12 DEF Sync
  <2> DEFINE u == prov[p].uncertain /\ job[j].at = "resync"
  <2>2. CASE synced' = Len(file) /\ End(j, "ok", [prov[p] EXCEPT !.uncertain = u])
    <3>1. u \in BOOLEAN
      BY <1>1 DEF Record
    <3> HIDE DEF u
    <3>2. OtherProvs(p) /\ prov'[p].gate = None /\ prov'[p].uncertain = u
      <4> DEFINE m == [prov[p] EXCEPT !.uncertain = u]
      <4>1. m \in Record /\ m.uncertain = u
        BY <3>1, <1>1, UncertainSet
      <4>2. End(j, "ok", m)
        BY <2>2
      <4> HIDE DEF m
      <4> QED
        BY <4>1, <4>2, <1>5
    <3> USE DEF u
    <3>3. job[j].at \in {"sync", "resync"}
      BY <1>12 DEF Sync
    <3> QED
      BY <1>0, <2>1, <2>2, <3>2, <3>3
  <2>3. CASE End(j, "indeterminate", [prov[p] EXCEPT !.uncertain = TRUE])
    <3>1. OtherProvs(p) /\ prov'[p].gate = None /\ prov'[p].uncertain = TRUE
      BY <2>3, <1>1, UncertainSet, <1>5
    <3> QED
      BY <1>0, <2>1, <3>1
  <2>4. [prov[p] EXCEPT !.uncertain = @ /\ job[j].at = "resync"] = [prov[p] EXCEPT !.uncertain = u]
    OBVIOUS
  <2> QED
    BY <1>0, <1>12, <2>2, <2>3, <2>4 DEF Sync
<1>13. CASE JoinFails(j)
  <2> DEFINE u == prov[p].uncertain \/ (job[j].waiting /\ ~IsLoad(j))
  <2>1. u \in BOOLEAN /\ (prov[p].uncertain => u)
    BY <1>1 DEF Record, Job
  <2>2. prov' = [prov EXCEPT ![p] = Released([prov[p] EXCEPT !.uncertain = u])]
    BY <1>0, <1>13 DEF JoinFails
  <2> HIDE DEF u
  <2>3. OtherProvs(p) /\ prov'[p].gate = prov[p].gate /\ prov'[p].uncertain = u
    <3> DEFINE m == [prov[p] EXCEPT !.uncertain = u]
    <3>1. m \in Record /\ m.uncertain = u /\ m.gate = prov[p].gate
      BY <2>1, <1>1, UncertainSet
    <3> HIDE DEF m
    <3>2. prov' = [prov EXCEPT ![p] = Released(m)]
      BY <2>2 DEF m
    <3> QED
      BY <3>1, <3>2, <1>3, <1>4
  <2> QED
    BY <1>0, <1>13, <2>1, <2>3 DEF JoinFails
<1> QED
  BY SMTT(30), <1>8, <1>9, <1>10, <1>11, <1>12, <1>13 DEF Work

\* A step of a provider leaves the others, or ends all.
LEMMA ProviderStep ==
  ASSUME Inv, NEW p \in Providers,
         \/ Open(p) \/ StopBegin(p) \/ StopStep(p) \/ Drop(p) \/ Vanish(p) \/ Crash(p)
  PROVE  /\ OtherProvs(p)
         /\ owner = p \/ owner' = owner
         /\ \/ file' = file
            \/ \E j \in Busy(p) : job[j].at = "write"
         /\ \/ prov'[p].life = "absent"
            \/ /\ UNCHANGED <<file, owner>>
               /\ prov'[p].gate = prov[p].gate /\ prov'[p].uncertain = prov[p].uncertain
<1>1. prov \in [Providers -> Record]
  BY DEF Inv, Typed
<1>2. CASE Open(p)
  <2>1. prov[p] = Fresh("absent") /\ prov' = [prov EXCEPT ![p] = Fresh("live")]
    BY <1>2 DEF Open, Inv, Provides, Provided
  <2>2. OtherProvs(p) /\ prov'[p] = Fresh("live")
    BY <2>1, Blank, ProvChanged DEF Inv
  <2>3. prov'[p].gate = prov[p].gate /\ prov'[p].uncertain = prov[p].uncertain
    <3>1. /\ Fresh("live").gate = Fresh("absent").gate
          /\ Fresh("live").uncertain = Fresh("absent").uncertain
      BY DEF Fresh
    <3> QED
      BY <2>1, <2>2, <3>1
  <2> QED
    BY <1>2, <2>2, <2>3 DEF Open
<1>3. CASE StopBegin(p) \/ StopStep(p) \/ Drop(p)
  <2>1. prov[p] \in Record /\ prov' \in [Providers -> Record] /\ UNCHANGED <<file, owner>>
    BY <1>1, <1>3, StepInv DEF StopBegin, StopStep, Drop, Inv, Typed, Next
  <2>2. \A q \in Providers \ {p} : prov'[q] = prov[q]
    BY <1>1, <1>3 DEF StopBegin, StopStep, Drop
  <2>3. prov'[p].gate = prov[p].gate /\ prov'[p].uncertain = prov[p].uncertain
    <3>1. CASE StopBegin(p) \/ Drop(p)
      BY <1>1, <2>1, <3>1 DEF StopBegin, Drop, Record
    <3>2. ASSUME NEW s, prov' = [prov EXCEPT ![p].stop = s]
          PROVE  prov'[p].gate = prov[p].gate /\ prov'[p].uncertain = prov[p].uncertain
      BY <1>1, <2>1, <3>2 DEF Record
    <3>3. ASSUME prov' = [prov EXCEPT ![p].stop = "check", ![p].drained = FALSE]
          PROVE  prov'[p].gate = prov[p].gate /\ prov'[p].uncertain = prov[p].uncertain
      BY <1>1, <2>1, <3>3 DEF Record
    <3> QED
      BY <1>3, <3>1, <3>2, <3>3 DEF StopStep
  <2> QED
    BY <2>1, <2>2, <2>3 DEF OtherProvs
<1>4. CASE Vanish(p) \/ Crash(p)
  <2>1. OtherProvs(p) /\ prov'[p] = Fresh("absent")
    BY <1>4, Blank, ProvChanged DEF Vanish, Crash, Gone, Inv
  <2>2. prov'[p].life = "absent"
    BY <2>1 DEF Fresh
  <2>3. owner = p \/ owner' = owner
    BY <1>4 DEF Vanish, Crash, LetGo
  <2>4. file' = file \/ \E j \in Busy(p) : job[j].at = "write"
    BY <1>4 DEF Vanish, Crash
  <2> QED
    BY <2>1, <2>2, <2>3, <2>4
<1> QED
  BY <1>2, <1>3, <1>4

\* Calls and answers touch neither the providers nor the file.
LEMMA QuietStep ==
  ASSUME Inv, [Next]_vars
  PROVE  \/ \E j \in Jobs : Work(j) \/ JoinFails(j)
         \/ \E p \in Providers : \/ Open(p) \/ StopBegin(p) \/ StopStep(p)
                                 \/ Drop(p) \/ Vanish(p) \/ Crash(p)
         \/ PowerLoss
         \/ UNCHANGED <<file, synced, owner, prov>> /\ acked \subseteq acked'
BY DEF Next, Take, Cancel, Call, vars

\* Once a commit has set the latch, only the sync within that commit that covers
\* the file releases it, and until then nobody else of the provider gets in.
THEOREM LatchHolds == Spec => [][LatchStands]_vars
<1>1. Inv /\ [Next]_vars => LatchStands
  <2> SUFFICES ASSUME Inv, [Next]_vars, NEW p \in Providers,
                      prov[p].uncertain, prov'[p].life # "absent"
               PROVE  \/ prov'[p].uncertain /\ (prov[p].gate = None => prov'[p].gate = None)
                      \/ ~prov'[p].uncertain /\ prov[p].gate # None /\ synced' = Len(file')
    BY DEF LatchStands
  <2>1. ASSUME NEW j \in Jobs, Work(j) \/ JoinFails(j)
        PROVE  \/ prov'[p].uncertain /\ (prov[p].gate = None => prov'[p].gate = None)
               \/ ~prov'[p].uncertain /\ prov[p].gate # None /\ synced' = Len(file')
    <3>1. CASE job[j].prov = p
      <4>1. job[j].at = "sync" => prov[p].gate = j /\ j # None
        BY <3>1, NoneAssumption DEF Inv, Holds, Held, Holding
      <4>2. /\ prov'[p].gate \in {None, prov[p].gate}
            /\ \/ prov'[p].uncertain
               \/ job[j].at = "sync" /\ synced' = Len(file')
        BY <2>1, <3>1, OperationStep
      <4> QED
        BY <4>1, <4>2
    <3>2. CASE job[j].prov # p
      BY <2>1, <3>2, OperationStep DEF OtherProvs
    <3> QED
      BY <3>1, <3>2
  <2>2. ASSUME NEW q \in Providers,
               \/ Open(q) \/ StopBegin(q) \/ StopStep(q) \/ Drop(q) \/ Vanish(q) \/ Crash(q)
        PROVE  prov'[p].uncertain /\ prov'[p].gate = prov[p].gate
    BY <2>2, ProviderStep DEF OtherProvs
  <2>3. CASE PowerLoss
    <3>1. prov'[p].life = "absent"
      BY <2>3 DEF PowerLoss, Fresh
    <3> QED
      BY <3>1
  <2> QED
    BY <2>1, <2>2, <2>3, QuietStep
<1> QED
  BY <1>1, Invariance, PTL DEF Spec

\* While a recovery owner has the Session, the file is what it was given.
THEOREM RecoveryIsolated == Spec => [][Isolated]_vars
<1>1. Inv /\ [Next]_vars => Isolated
  <2> SUFFICES ASSUME Inv, [Next]_vars, NEW p \in Recovery, owner = p, prov'[p].life # "absent"
               PROVE  file' = file /\ owner' = p
    BY DEF Isolated
  <2>1. p \in Providers /\ p # None
    BY RolesAssumption, NoneAssumption
  <2>2. \A j \in Jobs : job[j].at # "write"
    BY <2>1 DEF Inv, Holds, Held, Holding, Places, Placed
  <2>3. ASSUME NEW j \in Jobs, Work(j) \/ JoinFails(j) PROVE file' = file /\ owner' = p
    BY <2>1, <2>2, <2>3, OperationStep
  <2>4. ASSUME NEW q \in Providers,
               \/ Open(q) \/ StopBegin(q) \/ StopStep(q) \/ Drop(q) \/ Vanish(q) \/ Crash(q)
        PROVE  file' = file /\ owner' = p
    <3>1. /\ file' = file \/ \E j \in Busy(q) : job[j].at = "write"
          /\ owner = q \/ owner' = owner
          /\ prov'[q].life = "absent" \/ UNCHANGED <<file, owner>>
      BY <2>4, ProviderStep
    <3> QED
      BY <2>2, <3>1 DEF Busy
  <2>5. CASE PowerLoss
    <3>1. prov'[p].life = "absent"
      BY <2>1, <2>5 DEF PowerLoss, Fresh
    <3> QED
      BY <3>1
  <2> QED
    BY <2>3, <2>4, <2>5, QuietStep
<1> QED
  BY <1>1, Invariance, PTL DEF Spec

-----------------------------------------------------------------------------
(***************************************************************************)
(* The promise.                                                            *)
(***************************************************************************)
\* What is synced stays, and what callers were told is not taken back.
LEMMA Growth ==
  ASSUME Inv, [Next]_vars
  PROVE  /\ synced <= synced' /\ acked \subseteq acked'
         /\ \A i \in 1 .. synced : file'[i] = file[i]
<1>1. file \in Seq(Events \cup {Torn}) /\ synced \in 0 .. Len(file) /\ Len(file) \in Nat
  BY DEF Inv, Typed
<1>2. \A e \in Events \cup {Torn} :
        \A i \in 1 .. synced : Append(file, e)[i] = file[i]
  BY <1>1, Appended
<1>3. ASSUME NEW j \in Jobs, Work(j) \/ JoinFails(j)
      PROVE  synced <= synced' /\ acked' = acked /\ \A i \in 1 .. synced : file'[i] = file[i]
  <2>1. CASE Write(j)
    <3>1. job[j].event \in Events
      BY <2>1 DEF Write, Inv, Typed, Job, Places, Placed, IsLoad
    <3> QED
      BY <2>1, <3>1, <1>1, <1>2 DEF Write
  <2>2. CASE Sync(j)
    BY <2>2, <1>1 DEF Sync
  <2>3. CASE Count(j) \/ Recheck(j) \/ Enter(j) \/ JoinFails(j)
    BY <2>3, <1>1 DEF Count, Recheck, Enter, JoinFails
  <2> QED
    BY <1>3, <2>1, <2>2, <2>3 DEF Work
<1>4. ASSUME NEW p \in Providers,
             \/ Open(p) \/ StopBegin(p) \/ StopStep(p) \/ Drop(p) \/ Vanish(p) \/ Crash(p)
      PROVE  synced' = synced /\ acked' = acked /\ \A i \in 1 .. synced : file'[i] = file[i]
  <2>1. CASE Crash(p)
    BY <2>1, <1>2 DEF Crash
  <2>2. CASE Open(p) \/ StopBegin(p) \/ StopStep(p) \/ Drop(p) \/ Vanish(p)
    BY <2>2 DEF Open, StopBegin, StopStep, Drop, Vanish
  <2> QED
    BY <1>4, <2>1, <2>2
<1>5. CASE PowerLoss
  <2>1. PICK n \in synced .. Len(file) :
          \/ file' = SubSeq(file, 1, n)
          \/ file' = Append(SubSeq(file, 1, n), Torn)
    BY <1>5 DEF PowerLoss
  <2>2. n \in 0 .. Len(file) /\ 1 .. synced \subseteq 1 .. n
    BY <1>1
  <2> DEFINE s == SubSeq(file, 1, n)
  <2>3. s \in Seq(Events \cup {Torn}) /\ Len(s) = n /\ \A i \in 1 .. n : s[i] = file[i]
    BY <1>1, <2>2, Shortened
  <2>4. file' = s \/ file' = Append(s, Torn)
    BY <2>1
  <2> HIDE DEF s
  <2>5. \A i \in 1 .. n : file'[i] = file[i]
    BY <2>3, <2>4, Appended
  <2> QED
    BY <1>1, <1>5, <2>2, <2>5 DEF PowerLoss
<1>6. CASE UNCHANGED <<file, synced, owner, prov>> /\ acked \subseteq acked'
  BY <1>1, <1>6
<1> QED
  BY <1>1, <1>3, <1>4, <1>5, <1>6, QuietStep

\* The synced lines are one log that only grows and keeps what was acknowledged.
THEOREM StoreKeepsPromise == Spec => ImplementsPromise
<1>1. Init => Promise!Init
  <2> SUFFICES ASSUME Init PROVE Promise!Init
    OBVIOUS
  <2>1. file = <<>> /\ synced = 0 /\ acked = {}
    BY DEF Init
  <2> QED
    BY <2>1 DEF Promise!Init
<1>2. Inv /\ Inv' /\ [Next]_vars => [Promise!Next]_Promise!vars
  <2> SUFFICES ASSUME Inv, Inv', [Next]_vars PROVE Promise!Next
    OBVIOUS
  <2> DEFINE old == SubSeq(file, 1, synced)
             new == SubSeq(file', 1, synced')
  <2>1. /\ old \in Seq(Events \cup {Torn}) /\ Len(old) = synced
        /\ \A i \in 1 .. synced : old[i] = file[i]
    BY OrderedLines DEF Inv, Typed, Durable
  <2>2. /\ new \in Seq(Events \cup {Torn}) /\ Len(new) = synced'
        /\ \A i \in 1 .. synced' : new[i] = file'[i]
        /\ ToSet(new) = Kept' /\ Promise!ValidLog(new)
    <3>1. file' \in Seq(Events \cup {Torn}) /\ synced' \in 0 .. Len(file')
      BY DEF Inv, Typed
    <3>2. /\ \A i \in 1 .. synced' : file'[i].seq = i - 1
          /\ \A i, k \in 1 .. synced' : file'[i].id = file'[k].id => i = k
      BY DEF Inv, Durable
    <3>3. Kept' = {file'[i] : i \in 1 .. synced'}
      BY DEF Kept
    <3> QED
      BY <3>1, <3>2, <3>3, OrderedLines
  <2>3. /\ synced <= synced' /\ acked \subseteq acked'
        /\ \A i \in 1 .. synced : file'[i] = file[i]
        /\ synced \in Nat /\ synced' \in Nat
    BY Growth DEF Inv, Typed
  <2>4. acked' \subseteq Kept'
    BY DEF Inv, Durable
  <2>5. Promise!Next <=> /\ IsPrefix(old, new) /\ Promise!ValidLog(new)
                         /\ acked \subseteq acked' /\ acked' \subseteq ToSet(new)
    BY DEF Promise!Next, Promise!IsPrefix, Promise!ToSet, IsPrefix, ToSet
  <2> HIDE DEF old, new
  <2>6. IsPrefix(old, new)
    <3>1. \A i \in 1 .. synced : new[i] = old[i]
      BY <2>1, <2>2, <2>3
    <3>2. SubSeq(old, 1, Len(old)) = SubSeq(new, 1, Len(old))
      BY <2>1, <2>2, <2>3, <3>1, SameStart
    <3> QED
      BY <2>1, <2>2, <2>3, <3>2 DEF IsPrefix
  <2> QED
    BY <2>2, <2>3, <2>4, <2>5, <2>6
<1> QED
  BY <1>1, <1>2, Invariance, PTL DEF Spec, ImplementsPromise, Promise!Spec

-----------------------------------------------------------------------------
(***************************************************************************)
(* The checkpoint files (CheckpointFile), for any stores on one file, any  *)
(* operations, closers, records and bounds: their answers are true, close  *)
(* is exact, and what was acknowledged is kept, by the promise above.      *)
(***************************************************************************)
CONSTANTS Stores, Closers, Records, MaxJobs, MaxRecords
VARIABLES lock, store, closer
Files == INSTANCE CheckpointFile

\* What the constants of CheckpointFile are assumed to be.
FileParameters == Files!NamesAssumption /\ Files!RecordsAssumption /\ Files!BoundsAssumption

FileTyped ==
  /\ file \in Seq(Records \cup {Torn}) /\ synced \in 0 .. Len(file)
  /\ lock \in Jobs \cup {None}
  /\ store \in [Stores -> [accepting : BOOLEAN, inFlight : Int]]
  /\ job \in [Jobs -> Files!Job] /\ closer \in [Closers -> Files!Closing]
  /\ acked \subseteq Records

\* The work in progress after a step.
NextBusy(s) == {j \in Jobs : job'[j].store = s /\ job'[j].at \in {"queued", "write", "sync"}}

\* What an operation knows of itself.
WorkPlaced(j) ==
  /\ job[j].at = "idle" => job[j] = Files!Idle
  /\ job[j].at # "idle" => job[j].store \in Stores
  /\ job[j].at # "done" => job[j].answer = "none"
  /\ job[j].wrote => \/ job[j].at = "sync"
                     \/ job[j].at = "done" /\ job[j].answer \in {"ok", "indeterminate"}
  /\ job[j].at = "write" => job[j].record \in Records

\* The first n lines are records, each at its place.
Whole(n) == \A i \in 1 .. n : file[i] \in Records /\ file[i].seq = i - 1

\* What an operation answers for: the record it found, or its own.
Answered(j) == IF Files!IsLoad(j) THEN job[j].latest ELSE job[j].record

\* The OS lock excludes: who holds it finds the lines it has read, and, once it
\* has written, its own record as the last.
FileHeld(j) ==
  job[j].at \in {"write", "sync"} =>
    /\ lock = j /\ Whole(Len(file))
    /\ job[j].at = "write" => job[j].record.seq = Len(file)
    /\ job[j].at = "sync" => Files!Newest = Answered(j)

WorkRight == \A j \in Jobs : WorkPlaced(j) /\ FileHeld(j)

\* The synced lines are records in a row, and who was told, or is about to be,
\* was told of these.
FileDurable ==
  /\ Whole(synced) /\ acked \subseteq Kept
  /\ \A j \in Jobs : job[j].at = "done" /\ job[j].answer = "ok" =>
       Answered(j) \in Kept \cup {None}

\* Permits are exact; a closed store stays closed, close has waited for all of
\* its work, and who waits unwoken has something to wait for.
Permits == \A s \in Stores :
  store[s].inFlight = Cardinality(Files!Busy(s)) /\ store[s].inFlight <= MaxJobs

CloserRight(c) ==
  /\ closer[c].at # "idle" => /\ closer[c].store \in Stores
                              /\ ~store[closer[c].store].accepting
  /\ closer[c].at = "done" => Files!Busy(closer[c].store) = {}
  /\ closer[c].at = "wait" /\ ~closer[c].notified => store[closer[c].store].inFlight > 0
Closings == \A c \in Closers : CloserRight(c)

FileInv == FileTyped /\ WorkRight /\ FileDurable /\ Permits /\ Closings

-----------------------------------------------------------------------------
(***************************************************************************)
(* What the steps do to the operations, the file and the permits.          *)
(***************************************************************************)
\* Operations in progress are finite in number.
LEMMA BusyFinite ==
  ASSUME NEW s
  PROVE  /\ IsFiniteSet(Files!Busy(s)) /\ Cardinality(Files!Busy(s)) \in Nat
         /\ Cardinality(Files!Busy(s)) <= Cardinality(Jobs)
         /\ (Cardinality(Files!Busy(s)) = 0 <=> Files!Busy(s) = {})
BY JobsAssumption, FS_Subset, FS_CardinalityType, FS_EmptySet DEF Files!Busy

\* The size of a set, as CheckpointFile counts it.
LEMMA SameCount == \A S : Files!Cardinality(S) = Cardinality(S)
BY DEF Files!Cardinality, Cardinality, Files!IsFiniteSet, IsFiniteSet

\* Values at rest have their types.
LEMMA Rests ==
  /\ Files!Idle \in Files!Job /\ Files!Idle.at = "idle" /\ Files!Idle.store = None /\ Files!Idle.answer = "none"
  /\ ~Files!Idle.wrote
  /\ Files!Away \in Files!Closing /\ Files!Away.at = "idle"
  /\ Files!Open \in [accepting : BOOLEAN, inFlight : Int] /\ Files!Open.inFlight = 0 /\ Files!Open.accepting
BY DEF Files!Idle, Files!Job, Files!Away, Files!Closing, Files!Open

\* The last of the lines, when there is one.
LEMMA LastLine ==
  ASSUME FileTyped
  PROVE  /\ Len(file) \in Nat /\ (Len(file) = 0 <=> file = <<>>)
         /\ Files!Newest = IF Len(file) = 0 THEN None ELSE file[Len(file)]
<1>1. Len(file) \in Nat /\ (Len(file) = 0 <=> file = <<>>)
  BY DEF FileTyped
<1> QED
  BY <1>1 DEF Files!Newest, Files!Last

\* What is read without fault holds records, each at its place.
LEMMA ReadLines ==
  ASSUME FileTyped, Files!Readable
  PROVE  Whole(Len(file))
<1>1. file \in Seq(Records \cup {Torn}) /\ DOMAIN file = 1 .. Len(file)
  BY DEF FileTyped
<1>2. ASSUME NEW i \in 1 .. Len(file) PROVE file[i] \in Records /\ file[i].seq = i - 1
  <2>1. file[i] \in Records \cup {Torn}
    BY <1>1, ElementIn
  <2>2. file[i] # Torn
    BY <1>1 DEF Files!Readable, Files!ToSet
  <2> QED
    BY <1>1, <2>1, <2>2 DEF Files!Readable, Files!Chained
<1> QED
  BY <1>2 DEF Whole

\* The record of one operation changes.
OtherWork(j) == job' \in [Jobs -> Files!Job] /\ \A k \in Jobs \ {j} : job'[k] = job[k]

\* A change of one operation, with a value of the type.
LEMMA WorkChanged ==
  ASSUME FileTyped, NEW j \in Jobs, NEW x \in Files!Job, job' = [job EXCEPT ![j] = x]
  PROVE  OtherWork(j) /\ job'[j] = x
BY DEF FileTyped, OtherWork

\* Other operations keep their place as long as the lock and the lines do.
LEMMA OthersRight ==
  ASSUME WorkRight, NEW j \in Jobs, \A k \in Jobs \ {j} : job'[k] = job[k],
         \A k \in Jobs \ {j} : job[k].at \in {"write", "sync"} => lock' = lock /\ file' = file
  PROVE  \A k \in Jobs \ {j} : WorkPlaced(k)' /\ FileHeld(k)'
<1> TAKE k \in Jobs \ {j}
<1>1. job'[k] = job[k] /\ WorkPlaced(k) /\ FileHeld(k)
  BY DEF WorkRight
<1>2. WorkPlaced(k)'
  BY <1>1 DEF WorkPlaced
<1>3. FileHeld(k)'
  BY <1>1 DEF FileHeld, Whole, Files!Newest, Answered, Files!IsLoad
<1> QED
  BY <1>2, <1>3

\* The permits when one operation is counted in, or out, or neither.
LEMMA BusyMore ==
  ASSUME NEW s, NEW j, j \notin Files!Busy(s), Files!Busy(s)' = Files!Busy(s) \cup {j}
  PROVE  Cardinality(Files!Busy(s)') = Cardinality(Files!Busy(s)) + 1
BY BusyFinite, FS_AddElement

\* One operation less.
LEMMA BusyLess ==
  ASSUME NEW s, NEW j, j \in Files!Busy(s), Files!Busy(s)' = Files!Busy(s) \ {j}
  PROVE  Cardinality(Files!Busy(s)') = Cardinality(Files!Busy(s)) - 1 /\ Cardinality(Files!Busy(s)) > 0
BY BusyFinite, FS_RemoveElement, FS_EmptySet

\* A step that leaves stores and closers alone keeps the permits and the closings
\* if no operation of a store begins or ends.
LEMMA SameBusy ==
  ASSUME Permits, Closings, UNCHANGED <<store, closer>>, \A s : Files!Busy(s)' = Files!Busy(s)
  PROVE  Permits' /\ Closings'
<1>1. ASSUME NEW s \in Stores
      PROVE  store'[s].inFlight = Cardinality(Files!Busy(s)') /\ store'[s].inFlight <= MaxJobs
  BY DEF Permits
<1>2. ASSUME NEW c \in Closers PROVE CloserRight(c)'
  <2>1. CloserRight(c) /\ closer'[c] = closer[c] /\ store' = store
    BY DEF Closings
  <2>2. Files!Busy(closer[c].store)' = Files!Busy(closer[c].store)
    OBVIOUS
  <2> QED
    BY <2>1, <2>2 DEF CloserRight, Files!Busy
<1> QED
  BY <1>1, <1>2 DEF Permits, Closings, Files!Busy

\* Work that ends with an answer: its permit is given back, and closers that
\* wait for the last one are woken.
Ended(j, answer) ==
  \/ job'[j] = Files!Idle
  \/ /\ job'[j].at = "done" /\ job'[j].answer = answer /\ job'[j].store = job[j].store
     /\ job'[j].record = job[j].record /\ job'[j].latest = job[j].latest
     /\ job'[j].wrote = job[j].wrote

\* What End does to the operation and the lock.
LEMMA EndsWork ==
  ASSUME FileParameters, FileInv, NEW j \in Jobs, job[j].at \in {"queued", "write", "sync"},
         NEW answer \in {"ok", "definite", "indeterminate"}, Files!End(j, answer)
  PROVE  /\ OtherWork(j) /\ Ended(j, answer)
         /\ lock' \in Jobs \cup {None} /\ lock' = IF lock = j THEN None ELSE lock
<1> DEFINE x == IF job[j].waiting THEN [job[j] EXCEPT !.at = "done", !.answer = answer] ELSE Files!Idle
<1>1. job[j] \in Files!Job /\ lock \in Jobs \cup {None}
  BY DEF FileInv, FileTyped
<1>2. x \in Files!Job
  BY <1>1, Rests DEF Files!Job
<1>3. job' = [job EXCEPT ![j] = x] /\ lock' = IF lock = j THEN None ELSE lock
  BY DEF Files!End
<1>4. \/ x = Files!Idle
      \/ /\ x.at = "done" /\ x.answer = answer /\ x.store = job[j].store
         /\ x.record = job[j].record /\ x.latest = job[j].latest /\ x.wrote = job[j].wrote
  BY <1>1 DEF Files!Job
<1> HIDE DEF x
<1>5. OtherWork(j) /\ job'[j] = x
  BY <1>2, <1>3, WorkChanged DEF FileInv
<1> QED
  BY <1>1, <1>3, <1>4, <1>5 DEF Ended

\* What End does to the store and its closers.
LEMMA EndsPermit ==
  ASSUME FileParameters, FileInv, NEW j \in Jobs, job[j].at \in {"queued", "write", "sync"},
         NEW answer \in {"ok", "definite", "indeterminate"}, Files!End(j, answer)
  PROVE  /\ store' \in [Stores -> [accepting : BOOLEAN, inFlight : Int]]
         /\ closer' \in [Closers -> Files!Closing]
         /\ Permits' /\ Closings'
<1>0. PICK s \in Stores : s = job[j].store
  BY DEF FileInv, WorkRight, WorkPlaced
<1>1. /\ store' = [store EXCEPT ![s].inFlight = @ - 1]
      /\ closer' = IF store[s].inFlight # 1 THEN closer
               ELSE [c \in Closers |->
                       IF closer[c].store = s /\ closer[c].at \in {"check", "wait"}
                       THEN [closer[c] EXCEPT !.notified = TRUE] ELSE closer[c]]
  BY <1>0 DEF Files!End, Files!Release
<1>2. /\ store \in [Stores -> [accepting : BOOLEAN, inFlight : Int]]
      /\ closer \in [Closers -> Files!Closing]
  BY DEF FileInv, FileTyped
<1>3. /\ store' \in [Stores -> [accepting : BOOLEAN, inFlight : Int]]
      /\ store'[s].inFlight = store[s].inFlight - 1
      /\ \A t \in Stores : store'[t].accepting = store[t].accepting
      /\ \A t \in Stores \ {s} : store'[t] = store[t]
  BY <1>1, <1>2
<1>4. /\ closer' \in [Closers -> Files!Closing]
      /\ \A c \in Closers : closer'[c].at = closer[c].at /\ closer'[c].store = closer[c].store
      /\ \A c \in Closers : ~closer'[c].notified => ~closer[c].notified
      /\ \A c \in Closers : closer[c].at = "wait" /\ closer[c].store = s /\ ~closer'[c].notified
           => store[s].inFlight # 1
  BY <1>1, <1>2 DEF Files!Closing
<1>5. j \in Files!Busy(s)
  BY <1>0 DEF Files!Busy
<1>6. /\ \A k \in Jobs \ {j} : job'[k] = job[k]
      /\ job'[j].at \in {"idle", "done"}
  BY EndsWork, Rests DEF OtherWork, Ended
<1>7. Files!Busy(s)' = Files!Busy(s) \ {j} /\ \A t \in Stores \ {s} : Files!Busy(t)' = Files!Busy(t)
  BY <1>0, <1>6 DEF Files!Busy
<1>8. Cardinality(Files!Busy(s)') = Cardinality(Files!Busy(s)) - 1 /\ Cardinality(Files!Busy(s)) > 0
  BY <1>5, <1>7, BusyLess
<1>9. Permits'
  <2>1. \A t \in Stores : store'[t].inFlight = Cardinality(Files!Busy(t)') /\ store'[t].inFlight <= MaxJobs
    <3> TAKE t \in Stores
    <3>1. CASE t = s
      BY <3>1, <1>2, <1>3, <1>8 DEF FileInv, Permits, FileParameters, Files!BoundsAssumption
    <3>2. CASE t # s
      BY <3>2, <1>3, <1>7 DEF FileInv, Permits
    <3> QED
      BY <3>1, <3>2
  <2> QED
    BY <2>1 DEF Permits, Files!Busy
<1>10. Closings'
  <2> SUFFICES ASSUME NEW c \in Closers PROVE CloserRight(c)'
    BY DEF Closings
  <2>1. CloserRight(c)
    BY DEF FileInv, Closings
  <2>2. \A t \in Stores : NextBusy(t) \subseteq Files!Busy(t)
    BY <1>0, <1>6 DEF NextBusy, Files!Busy
  <2>3. closer'[c].at = "wait" /\ ~closer'[c].notified => store'[closer'[c].store].inFlight > 0
    <3> SUFFICES ASSUME closer'[c].at = "wait", ~closer'[c].notified
                 PROVE  store'[closer'[c].store].inFlight > 0
      OBVIOUS
    <3>1. /\ closer[c].at = "wait" /\ ~closer[c].notified /\ closer'[c].store = closer[c].store
          /\ closer[c].store \in Stores /\ store[closer[c].store].inFlight > 0
      BY <2>1, <1>4 DEF CloserRight
    <3>2. CASE closer[c].store = s
      BY <3>1, <3>2, <1>2, <1>3, <1>4
    <3>3. CASE closer[c].store # s
      BY <3>1, <3>3, <1>3
    <3> QED
      BY <3>2, <3>3
  <2>4. /\ closer'[c].at # "idle" => /\ closer'[c].store \in Stores
                                     /\ ~store'[closer'[c].store].accepting
        /\ closer'[c].at = "done" => NextBusy(closer'[c].store) = {}
    BY <2>1, <2>2, <1>3, <1>4 DEF CloserRight
  <2> QED
    BY <2>3, <2>4 DEF CloserRight, NextBusy, Files!Busy
<1> QED
  BY <1>3, <1>4, <1>9, <1>10

\* What was durable is, when the lines that were synced are still there.
LEMMA StaysTold ==
  ASSUME FileInv, NEW j \in Jobs, \A k \in Jobs \ {j} : job'[k] = job[k], acked' = acked,
         file' \in Seq(Records \cup {Torn}), synced' \in synced .. Len(file'),
         \A i \in 1 .. synced : file'[i] = file[i],
         \A i \in 1 .. synced' : file'[i] \in Records /\ file'[i].seq = i - 1,
         job'[j].at = "done" /\ job'[j].answer = "ok" => Answered(j)' \in Kept' \cup {None}
  PROVE  FileDurable' /\ synced' \in 0 .. Len(file')
<1>1. synced \in Nat /\ synced' \in Nat /\ synced <= synced' /\ synced' \in 0 .. Len(file')
  BY DEF FileInv, FileTyped
<1>2. Kept' = {file'[i] : i \in 1 .. synced'} /\ Kept = {file[i] : i \in 1 .. synced}
  BY DEF Kept
<1>3. Kept \subseteq Kept'
  <2>1. \A i \in 1 .. synced : i \in 1 .. synced' /\ file[i] = file'[i]
    BY <1>1
  <2> QED
    BY <1>2, <2>1
<1>4. Whole(synced)'
  BY DEF Whole
<1>5. \A k \in Jobs \ {j} : job'[k].at = "done" /\ job'[k].answer = "ok" =>
        Answered(k)' \in Kept' \cup {None}
  BY <1>3 DEF FileInv, FileDurable, Answered, Files!IsLoad
<1>6. acked' \subseteq Kept'
  BY <1>3 DEF FileInv, FileDurable
<1> QED
  BY <1>1, <1>4, <1>5, <1>6 DEF FileDurable

\* Work that ends keeps the invariant if its answer is true.
LEMMA WorkEnds ==
  ASSUME FileParameters, FileInv, NEW j \in Jobs, job[j].at \in {"queued", "write", "sync"},
         NEW answer \in {"ok", "definite", "indeterminate"}, Files!End(j, answer), acked' = acked,
         file' = file \/ job[j].at \in {"write", "sync"},
         file' \in Seq(Records \cup {Torn}), synced' \in synced .. Len(file'),
         \A i \in 1 .. synced : file'[i] = file[i],
         \A i \in 1 .. synced' : file'[i] \in Records /\ file'[i].seq = i - 1,
         answer = "definite" => ~job[j].wrote,
         answer = "ok" =>
           Answered(j) \in {file'[i] : i \in 1 .. synced'} \cup {None}
  PROVE  FileInv'
<1>1. /\ OtherWork(j) /\ Ended(j, answer)
      /\ lock' \in Jobs \cup {None} /\ lock' = IF lock = j THEN None ELSE lock
  BY EndsWork
<1>2. /\ store' \in [Stores -> [accepting : BOOLEAN, inFlight : Int]]
      /\ closer' \in [Closers -> Files!Closing]
      /\ Permits' /\ Closings'
  BY EndsPermit
<1>3. WorkPlaced(j) /\ FileHeld(j) /\ None \notin Jobs
  BY DEF FileInv, WorkRight, FileParameters, Files!NamesAssumption
<1>4. WorkPlaced(j)' /\ FileHeld(j)'
  BY <1>1, <1>3, Rests DEF Ended, WorkPlaced, FileHeld
<1>5. \A k \in Jobs \ {j} : job[k].at \in {"write", "sync"} => lock' = lock /\ file' = file
  BY <1>1, <1>3 DEF FileInv, WorkRight, FileHeld
<1>6. WorkRight'
  BY <1>1, <1>4, <1>5, OthersRight DEF OtherWork, FileInv, WorkRight
<1>7. job'[j].at = "done" /\ job'[j].answer = "ok" => Answered(j)' \in Kept' \cup {None}
  BY <1>1, Rests DEF Ended, Answered, Files!IsLoad, Kept
<1>8. FileDurable' /\ synced' \in 0 .. Len(file')
  BY <1>1, <1>7, StaysTold DEF OtherWork
<1>9. FileTyped'
  BY <1>1, <1>2, <1>8 DEF FileTyped, FileInv, OtherWork
<1> QED
  BY <1>2, <1>6, <1>8, <1>9 DEF FileInv

\* Work that goes on, with the lock.
LEMMA WorkMoves ==
  ASSUME FileParameters, FileInv, NEW j \in Jobs, job[j].at \in {"queued", "write", "sync"},
         OtherWork(j), job'[j].at \in {"write", "sync"}, job'[j].store = job[j].store,
         lock \in {None, j}, lock' = j,
         UNCHANGED <<synced, store, closer, acked>>,
         file' \in Seq(Records \cup {Torn}), Len(file') >= Len(file),
         \A i \in 1 .. synced : file'[i] = file[i],
         WorkPlaced(j)', FileHeld(j)'
  PROVE  FileInv'
<1>1. \A k \in Jobs \ {j} : job'[k] = job[k]
  BY DEF OtherWork
<1>2. \A k \in Jobs \ {j} : job[k].at \notin {"write", "sync"}
  BY DEF FileInv, WorkRight, FileHeld, FileParameters, Files!NamesAssumption
<1>3. WorkRight'
  BY <1>1, <1>2, OthersRight DEF FileInv, WorkRight
<1>4. \A s : Files!Busy(s)' = Files!Busy(s)
  BY <1>1 DEF Files!Busy
<1>5. Permits' /\ Closings'
  BY <1>4, SameBusy DEF FileInv
<1>6. synced' \in synced .. Len(file')
  BY DEF FileInv, FileTyped
<1>7. \A i \in 1 .. synced' : file'[i] \in Records /\ file'[i].seq = i - 1
  BY DEF FileInv, FileDurable, Whole
<1>8. FileDurable' /\ synced' \in 0 .. Len(file')
  BY <1>1, <1>6, <1>7, StaysTold
<1>9. FileTyped'
  BY <1>8 DEF FileTyped, FileInv, OtherWork
<1> QED
  BY <1>3, <1>5, <1>8, <1>9 DEF FileInv

\* A caller that takes its answer, or leaves.
LEMMA CallerLeaves ==
  ASSUME FileParameters, FileInv, NEW j \in Jobs, OtherWork(j),
         UNCHANGED <<file, synced, lock, store, closer>>,
         \/ job'[j] = Files!Idle /\ job[j].at \notin {"queued", "write", "sync"}
         \/ /\ job'[j] = [job[j] EXCEPT !.waiting = FALSE] /\ job[j].at # "idle",
         acked' \subseteq Kept
  PROVE  FileInv'
<1>0. Kept \subseteq Records
  BY DEF Kept, FileInv, FileDurable, Whole
<1>1. /\ \A k \in Jobs \ {j} : job'[k] = job[k]
      /\ job[j] \in Files!Job /\ WorkPlaced(j) /\ FileHeld(j)
  BY DEF OtherWork, FileInv, FileTyped, WorkRight
<1>2. CASE job'[j] = Files!Idle /\ job[j].at \notin {"queued", "write", "sync"}
  <2>1. WorkPlaced(j)' /\ FileHeld(j)' /\ job'[j].at = "idle"
    BY <1>2, Rests DEF WorkPlaced, FileHeld
  <2>2. \A s : Files!Busy(s)' = Files!Busy(s)
    BY <1>1, <1>2, Rests DEF Files!Busy
  <2>3. \A k \in Jobs : job'[k].at = "done" => job'[k] = job[k]
    BY <1>1, <2>1
  <2>4. FileDurable'
    BY <2>3 DEF FileInv, FileDurable, Whole, Kept, Answered, Files!IsLoad
  <2>5. WorkRight'
    BY <1>1, <2>1, OthersRight DEF FileInv, WorkRight
  <2>6. FileTyped'
    BY <1>0 DEF FileInv, FileTyped, OtherWork
  <2>7. Permits' /\ Closings'
    BY <2>2, SameBusy DEF FileInv
  <2> QED
    BY <2>4, <2>5, <2>6, <2>7 DEF FileInv
<1>3. CASE job'[j] = [job[j] EXCEPT !.waiting = FALSE] /\ job[j].at # "idle"
  <2>1. /\ job'[j].at = job[j].at /\ job'[j].store = job[j].store
        /\ job'[j].answer = job[j].answer /\ job'[j].wrote = job[j].wrote
        /\ job'[j].record = job[j].record /\ job'[j].latest = job[j].latest
    BY <1>1, <1>3 DEF Files!Job
  <2>2. WorkPlaced(j)' /\ FileHeld(j)'
    BY <1>1, <1>3, <2>1 DEF WorkPlaced, FileHeld, Whole, Files!Newest, Answered, Files!IsLoad
  <2>3. \A s : Files!Busy(s)' = Files!Busy(s)
    BY <1>1, <2>1 DEF Files!Busy
  <2>4. \A k \in Jobs : job'[k].at = job[k].at /\ job'[k].answer = job[k].answer
                        /\ job'[k].record = job[k].record /\ job'[k].latest = job[k].latest
    BY <1>1, <2>1
  <2>5. FileDurable'
    BY <2>4 DEF FileInv, FileDurable, Whole, Kept, Answered, Files!IsLoad
  <2>6. WorkRight'
    BY <1>1, <2>2, OthersRight DEF FileInv, WorkRight
  <2>7. FileTyped'
    BY <1>0 DEF FileInv, FileTyped, OtherWork
  <2>8. Permits' /\ Closings'
    BY <2>3, SameBusy DEF FileInv
  <2> QED
    BY <2>5, <2>6, <2>7, <2>8 DEF FileInv
<1> QED
  BY <1>2, <1>3

-----------------------------------------------------------------------------
(***************************************************************************)
(* The invariant, by the actions of CheckpointFile.                        *)
(***************************************************************************)
\* An empty file, and nobody at it.
LEMMA FileBegins == ASSUME FileParameters, Files!Init PROVE FileInv
<1>1. FileTyped /\ synced = 0
  BY Rests DEF Files!Init, FileTyped
<1>2. WorkRight
  BY Rests DEF Files!Init, WorkRight, WorkPlaced, FileHeld
<1>3. FileDurable
  BY <1>1, Rests DEF Files!Init, FileDurable, Whole, Kept
<1>4. \A s \in Stores : Files!Busy(s) = {}
  BY Rests DEF Files!Init, Files!Busy
<1>5. Permits
  <2> SUFFICES ASSUME NEW s \in Stores
               PROVE  store[s].inFlight = Cardinality(Files!Busy(s)) /\ store[s].inFlight <= MaxJobs
    BY DEF Permits
  <2>1. store[s].inFlight = 0
    BY Rests DEF Files!Init
  <2> QED
    BY <1>4, <2>1, FS_EmptySet DEF FileParameters, Files!BoundsAssumption
<1>6. Closings
  BY Rests DEF Files!Init, Closings, CloserRight
<1> QED
  BY <1>1, <1>2, <1>3, <1>5, <1>6 DEF FileInv

\* An operation is admitted below the limit, and not by a store that closes.
LEMMA AdmitRight ==
  ASSUME FileParameters, FileInv, NEW j \in Jobs, NEW s \in Stores,
         NEW r \in Records \cup {None}, Files!Admit(j, s, r)
  PROVE  FileInv'
<1> DEFINE x == [Files!Idle EXCEPT !.at = "queued", !.store = s, !.record = r, !.waiting = TRUE]
<1>1. /\ x \in Files!Job /\ x.at = "queued" /\ x.store = s /\ x.answer = "none" /\ ~x.wrote
  BY DEF Files!Job, Files!Idle
<1>2. job' = [job EXCEPT ![j] = x] /\ job[j].at = "idle"
  BY DEF Files!Admit
<1> HIDE DEF x
<1>3. OtherWork(j) /\ job'[j] = x /\ \A k \in Jobs \ {j} : job'[k] = job[k]
  BY <1>1, <1>2, WorkChanged DEF FileInv, OtherWork
<1>4. /\ store' \in [Stores -> [accepting : BOOLEAN, inFlight : Int]]
      /\ store'[s].inFlight = store[s].inFlight + 1
      /\ store[s].accepting /\ store[s].inFlight < MaxJobs /\ store[s].inFlight \in Int
      /\ \A t \in Stores : store'[t].accepting = store[t].accepting
      /\ \A t \in Stores \ {s} : store'[t] = store[t]
  BY DEF Files!Admit, FileInv, FileTyped
<1>5. WorkRight'
  <2>1. WorkPlaced(j)' /\ FileHeld(j)'
    BY <1>1, <1>3 DEF WorkPlaced, FileHeld
  <2> QED
    BY <1>3, <2>1, OthersRight DEF Files!Admit, FileInv, WorkRight
<1>6. FileDurable'
  BY <1>1, <1>3 DEF Files!Admit, FileInv, FileDurable, Whole, Kept, Answered, Files!IsLoad
<1>7. FileTyped'
  BY <1>3, <1>4 DEF Files!Admit, FileInv, FileTyped, OtherWork
<1>8. /\ j \notin Files!Busy(s) /\ Files!Busy(s)' = Files!Busy(s) \cup {j}
      /\ \A t \in Stores \ {s} : NextBusy(t) = Files!Busy(t)
  <2>1. \A t : j \notin Files!Busy(t)
    BY <1>2 DEF Files!Busy
  <2>2. Files!Busy(s)' = Files!Busy(s) \cup {j}
    BY <1>1, <1>3 DEF Files!Busy
  <2>3. \A t \in Stores \ {s} : NextBusy(t) = Files!Busy(t)
    BY <1>1, <1>2, <1>3 DEF NextBusy, Files!Busy
  <2> QED
    BY <2>1, <2>2, <2>3
<1>9. Permits'
  <2>1. Cardinality(NextBusy(s)) = Cardinality(Files!Busy(s)) + 1
    BY <1>8, BusyMore DEF Files!Busy, NextBusy
  <2>2. \A t \in Stores : /\ store'[t].inFlight = Cardinality(NextBusy(t))
                          /\ store'[t].inFlight <= MaxJobs
    <3> TAKE t \in Stores
    <3>1. CASE t = s
      BY <3>1, <1>4, <2>1 DEF FileInv, Permits, FileParameters, Files!BoundsAssumption
    <3>2. CASE t # s
      BY <3>2, <1>4, <1>8 DEF FileInv, Permits
    <3> QED
      BY <3>1, <3>2
  <2> QED
    BY <2>2 DEF Permits, NextBusy, Files!Busy
<1>10. Closings'
  <2> SUFFICES ASSUME NEW c \in Closers PROVE CloserRight(c)'
    BY DEF Closings
  <2>1. CloserRight(c) /\ closer' = closer
    BY DEF Files!Admit, FileInv, Closings
  <2>2. closer[c].at # "idle" => closer[c].store # s
    BY <2>1, <1>4 DEF CloserRight
  <2>3. /\ closer'[c].at # "idle" => /\ closer'[c].store \in Stores
                                     /\ ~store'[closer'[c].store].accepting
        /\ closer'[c].at = "done" => NextBusy(closer'[c].store) = {}
        /\ closer'[c].at = "wait" /\ ~closer'[c].notified =>
             store'[closer'[c].store].inFlight > 0
    BY <2>1, <2>2, <1>4, <1>8 DEF CloserRight
  <2> QED
    BY <2>3 DEF CloserRight, NextBusy, Files!Busy
<1> QED
  BY <1>5, <1>6, <1>7, <1>9, <1>10 DEF FileInv

\* An operation that fails, ends or goes on when it looks at the file.
LEMMA EnterRight ==
  ASSUME FileParameters, FileInv, NEW j \in Jobs, Files!Enter(j)
  PROVE  FileInv'
<1>1. /\ job[j].at = "queued" /\ ~job[j].wrote /\ job[j] \in Files!Job /\ job[j].store \in Stores
      /\ UNCHANGED <<file, synced, acked>> /\ WorkPlaced(j) /\ FileHeld(j)
  BY DEF Files!Enter, FileInv, FileTyped, WorkRight, WorkPlaced
<1>2. /\ file' \in Seq(Records \cup {Torn}) /\ synced' \in synced .. Len(file')
      /\ \A i \in 1 .. synced : file'[i] = file[i]
      /\ \A i \in 1 .. synced' : file'[i] \in Records /\ file'[i].seq = i - 1
      /\ Len(file') >= Len(file)
  BY <1>1 DEF FileInv, FileTyped, FileDurable, Whole
<1>3. CASE Files!End(j, "definite")
  BY <1>1, <1>2, <1>3, WorkEnds
<1>4. ASSUME lock = None, Files!Readable, NEW at \in {"write", "sync"}, Files!Proceed(j, at),
             at = "sync" => Files!Newest = IF Files!IsLoad(j) THEN Files!Newest ELSE job[j].record,
             at = "write" => ~Files!IsLoad(j) /\ job[j].record.seq = Len(file)
      PROVE  FileInv'
  <2>1. Whole(Len(file)) /\ Files!Newest \in Records \cup {None}
    <3>1. Whole(Len(file))
      BY <1>4, ReadLines DEF FileInv
    <3>2. /\ Len(file) \in Nat
          /\ Files!Newest = IF Len(file) = 0 THEN None ELSE file[Len(file)]
      BY LastLine DEF FileInv
    <3> QED
      BY <3>1, <3>2 DEF Whole
  <2> DEFINE x == [job[j] EXCEPT !.at = at, !.latest = Files!Newest]
  <2>2. /\ x \in Files!Job /\ x.at = at /\ x.latest = Files!Newest /\ x.store = job[j].store
        /\ x.record = job[j].record /\ x.answer = job[j].answer /\ x.wrote = job[j].wrote
    BY <1>1, <2>1 DEF Files!Job
  <2>3. job' = [job EXCEPT ![j] = x]
    BY <1>4, <1>1 DEF Files!Proceed, Files!Job, FileInv, FileTyped
  <2> HIDE DEF x
  <2>4. OtherWork(j) /\ job'[j] = x
    BY <2>2, <2>3, WorkChanged DEF FileInv
  <2>5. WorkPlaced(j)'
    BY <1>1, <1>4, <2>2, <2>4 DEF WorkPlaced, Files!IsLoad, Files!Job
  <2>6. FileHeld(j)'
    BY <1>1, <1>4, <2>1, <2>2, <2>4 DEF FileHeld, Files!Proceed, Whole, Files!Newest, Answered, Files!IsLoad
  <2> QED
    BY <1>1, <1>2, <1>4, <2>2, <2>4, <2>5, <2>6, WorkMoves DEF Files!Proceed
<1>5. CASE lock = None /\ Files!Readable /\ Files!Decide(j)
  <2>1. Files!IsLoad(j) => Files!End(j, "definite") \/ Files!Proceed(j, "sync")
    BY <1>5 DEF Files!Decide
  <2>2. ~Files!IsLoad(j) => \/ Files!End(j, "definite")
                      \/ (Files!Newest = job[j].record /\ Files!Proceed(j, "sync"))
                      \/ (Len(file) = job[j].record.seq /\ Files!Proceed(j, "write"))
    BY <1>5 DEF Files!Decide
  <2> QED
    BY <1>3, <1>4, <1>5, <2>1, <2>2
<1> QED
  BY <1>3, <1>5 DEF Files!Enter

\* A line is written at the place it was read to be free, or not known to be.
LEMMA WriteRight ==
  ASSUME FileParameters, FileInv, NEW j \in Jobs, Files!Write(j)
  PROVE  FileInv'
<1>1. /\ job[j].at = "write" /\ job[j].record \in Records /\ job[j] \in Files!Job
      /\ job[j].record # None /\ WorkPlaced(j) /\ FileHeld(j)
      /\ UNCHANGED <<synced, acked>>
  BY DEF Files!Write, FileInv, FileTyped, WorkRight, WorkPlaced, FileParameters, Files!NamesAssumption
<1>2. lock = j /\ Whole(Len(file)) /\ job[j].record.seq = Len(file)
  BY <1>1 DEF FileHeld
<1>3. /\ file \in Seq(Records \cup {Torn}) /\ synced \in 0 .. Len(file) /\ Len(file) \in Nat
      /\ Whole(synced)
  BY DEF FileInv, FileTyped, FileDurable
<1>4. ASSUME NEW y \in Records \cup {Torn}
      PROVE  /\ Append(file, y) \in Seq(Records \cup {Torn})
             /\ Len(Append(file, y)) = Len(file) + 1
             /\ \A i \in 1 .. Len(file) : Append(file, y)[i] = file[i]
             /\ Append(file, y)[Len(file) + 1] = y
  BY <1>3, Appended
<1>5. CASE /\ file' = Append(file, job[j].record)
           /\ job' = [job EXCEPT ![j].at = "sync", ![j].wrote = TRUE]
           /\ UNCHANGED <<lock, store, closer>>
  <2> DEFINE x == [job[j] EXCEPT !.at = "sync", !.wrote = TRUE]
  <2>1. /\ x \in Files!Job /\ x.at = "sync" /\ x.store = job[j].store
        /\ x.record = job[j].record /\ x.answer = job[j].answer
    BY <1>1 DEF Files!Job
  <2>2. job' = [job EXCEPT ![j] = x]
    BY <1>1, <1>5 DEF Files!Job, FileInv, FileTyped
  <2> HIDE DEF x
  <2>3. OtherWork(j) /\ job'[j] = x
    BY <2>1, <2>2, WorkChanged DEF FileInv
  <2>4. WorkPlaced(j)'
    BY <1>1, <2>1, <2>3 DEF WorkPlaced
  <2>5. /\ file' \in Seq(Records \cup {Torn}) /\ Len(file') = Len(file) + 1
        /\ \A i \in 1 .. Len(file) : file'[i] = file[i]
        /\ file'[Len(file')] = job[j].record
    BY <1>1, <1>4, <1>5
  <2>6. Whole(Len(file))'
    <3>1. \A i \in 1 .. Len(file') : file'[i] \in Records /\ file'[i].seq = i - 1
      <4> TAKE i \in 1 .. Len(file')
      <4>1. CASE i \in 1 .. Len(file)
        BY <4>1, <1>2, <2>5 DEF Whole
      <4>2. CASE i = Len(file) + 1
        BY <4>2, <1>1, <1>2, <1>3, <2>5
      <4> QED
        BY <4>1, <4>2, <2>5, <1>3
    <3> QED
      BY <3>1 DEF Whole
  <2>7. Files!Newest' = job[j].record
    BY <2>5, <1>3 DEF Files!Newest, Files!Last
  <2>8. FileHeld(j)'
    BY <1>1, <1>2, <1>5, <2>1, <2>3, <2>6, <2>7 DEF FileHeld, Answered, Files!IsLoad
  <2>9. \A i \in 1 .. synced : file'[i] = file[i]
    BY <1>3, <2>5
  <2>10. Len(file') >= Len(file)
    BY <1>3, <2>5
  <2> QED
    BY <1>1, <1>2, <1>5, <2>1, <2>3, <2>4, <2>5, <2>8, <2>9, <2>10, WorkMoves
<1>6. CASE file' \in {file, Append(file, Torn)} /\ Files!End(j, "indeterminate")
  <2> DEFINE torn == Append(file, Torn)
  <2>0. /\ torn \in Seq(Records \cup {Torn}) /\ Len(torn) = Len(file) + 1
        /\ \A i \in 1 .. Len(file) : torn[i] = file[i]
        /\ file' \in {file, torn}
    BY <1>4, <1>6
  <2> HIDE DEF torn
  <2>1. /\ file' \in Seq(Records \cup {Torn}) /\ synced' \in synced .. Len(file')
        /\ \A i \in 1 .. synced : file'[i] = file[i]
    BY <1>1, <1>3, <2>0
  <2>2. \A i \in 1 .. synced' : file'[i] \in Records /\ file'[i].seq = i - 1
    BY <1>1, <1>3, <2>1 DEF Whole
  <2> QED
    BY <1>1, <1>6, <2>1, <2>2, WorkEnds
<1> QED
  BY <1>5, <1>6 DEF Files!Write

\* A sync covers every line, and among them the answer's.
LEMMA SyncRight ==
  ASSUME FileParameters, FileInv, NEW j \in Jobs, Files!Sync(j)
  PROVE  FileInv'
<1>1. /\ job[j].at = "sync" /\ FileHeld(j) /\ UNCHANGED <<file, acked>>
  BY DEF Files!Sync, FileInv, WorkRight
<1>2. Whole(Len(file)) /\ Files!Newest = Answered(j)
  BY <1>1 DEF FileHeld
<1>3. /\ file \in Seq(Records \cup {Torn}) /\ synced \in 0 .. Len(file) /\ Len(file) \in Nat
      /\ Whole(synced)
  BY DEF FileInv, FileTyped, FileDurable
<1>4. CASE synced' = Len(file) /\ Files!End(j, "ok")
  <2>1. /\ file' \in Seq(Records \cup {Torn}) /\ synced' \in synced .. Len(file')
        /\ \A i \in 1 .. synced : file'[i] = file[i]
    BY <1>1, <1>3, <1>4
  <2>2. \A i \in 1 .. synced' : file'[i] \in Records /\ file'[i].seq = i - 1
    BY <1>1, <1>2, <1>4 DEF Whole
  <2>3. Answered(j) \in {file'[i] : i \in 1 .. synced'} \cup {None}
    BY <1>1, <1>2, <1>3, <1>4, LastLine DEF FileInv
  <2> QED
    BY <1>1, <1>4, <2>1, <2>2, <2>3, WorkEnds
<1>5. CASE UNCHANGED synced /\ Files!End(j, "indeterminate")
  <2>1. /\ file' \in Seq(Records \cup {Torn}) /\ synced' \in synced .. Len(file')
        /\ \A i \in 1 .. synced : file'[i] = file[i]
    BY <1>1, <1>3, <1>5
  <2>2. \A i \in 1 .. synced' : file'[i] \in Records /\ file'[i].seq = i - 1
    BY <1>1, <1>3, <1>5 DEF Whole
  <2> QED
    BY <1>1, <1>5, <2>1, <2>2, WorkEnds
<1> QED
  BY <1>4, <1>5 DEF Files!Sync

\* Work that never starts, and callers that take their answer or leave.
LEMMA CallersRight ==
  ASSUME FileParameters, FileInv, NEW j \in Jobs, Files!JoinFails(j) \/ Files!Take(j) \/ Files!Cancel(j)
  PROVE  FileInv'
<1>1. job[j] \in Files!Job /\ WorkPlaced(j) /\ FileHeld(j) /\ acked \subseteq Kept
  BY DEF FileInv, FileTyped, WorkRight, FileDurable
<1>2. CASE Files!JoinFails(j)
  <2>1. /\ job[j].at = "queued" /\ Files!End(j, "indeterminate") /\ UNCHANGED <<file, synced, acked>>
    BY <1>2 DEF Files!JoinFails
  <2>2. /\ file' \in Seq(Records \cup {Torn}) /\ synced' \in synced .. Len(file')
        /\ \A i \in 1 .. synced : file'[i] = file[i]
        /\ \A i \in 1 .. synced' : file'[i] \in Records /\ file'[i].seq = i - 1
    BY <2>1 DEF FileInv, FileTyped, FileDurable, Whole
  <2> QED
    BY <2>1, <2>2, WorkEnds
<1>3. CASE Files!Take(j)
  <2>1. /\ job[j].at = "done" /\ job' = [job EXCEPT ![j] = Files!Idle]
        /\ UNCHANGED <<file, synced, lock, store, closer>>
        /\ acked' = IF job[j].answer # "ok" THEN acked ELSE acked \cup ({Answered(j)} \ {None})
    BY <1>3 DEF Files!Take, Answered
  <2>2. job[j].answer = "ok" => Answered(j) \in Kept \cup {None}
    BY <2>1 DEF FileInv, FileDurable
  <2>3. acked' \subseteq Kept
    BY <1>1, <2>1, <2>2
  <2>4. OtherWork(j) /\ job'[j] = Files!Idle
    BY <2>1, WorkChanged, Rests DEF FileInv
  <2> QED
    BY <2>1, <2>3, <2>4, CallerLeaves
<1>4. CASE Files!Cancel(j)
  <2> DEFINE x == IF job[j].at = "done" THEN Files!Idle ELSE [job[j] EXCEPT !.waiting = FALSE]
  <2>1. /\ job' = [job EXCEPT ![j] = x] /\ UNCHANGED <<file, synced, lock, store, closer, acked>>
        /\ job[j].at # "idle"
    BY <1>1, <1>4 DEF Files!Cancel, WorkPlaced, Files!Idle
  <2>2. x \in Files!Job
    BY <1>1, Rests DEF Files!Job
  <2>3. \/ x = Files!Idle /\ job[j].at \notin {"queued", "write", "sync"}
        \/ x = [job[j] EXCEPT !.waiting = FALSE]
    OBVIOUS
  <2> HIDE DEF x
  <2>4. OtherWork(j) /\ job'[j] = x
    BY <2>1, <2>2, WorkChanged DEF FileInv
  <2> QED
    BY <1>1, <2>1, <2>3, <2>4, CallerLeaves
<1> QED
  BY <1>2, <1>3, <1>4

\* A closer moves: operations, file and permits stay.
LEMMA CloserMoves ==
  ASSUME FileParameters, FileInv, UNCHANGED <<file, synced, lock, job, acked>>,
         store' \in [Stores -> [accepting : BOOLEAN, inFlight : Int]],
         \A s \in Stores : /\ store'[s].inFlight = store[s].inFlight
                           /\ store'[s].accepting => store[s].accepting,
         NEW c \in Closers, closer' \in [Closers -> Files!Closing],
         \A d \in Closers \ {c} : closer'[d] = closer[d],
         CloserRight(c)'
  PROVE  FileInv'
<1>1. \A s : Files!Busy(s)' = Files!Busy(s)
  BY DEF Files!Busy
<1>2. ASSUME NEW d \in Closers \ {c} PROVE CloserRight(d)'
  <2>1. CloserRight(d) /\ closer'[d] = closer[d]
    BY DEF FileInv, Closings
  <2>2. /\ closer'[d].at # "idle" => /\ closer'[d].store \in Stores
                                     /\ ~store'[closer'[d].store].accepting
        /\ closer'[d].at = "wait" /\ ~closer'[d].notified =>
             store'[closer'[d].store].inFlight > 0
    BY <2>1 DEF CloserRight, FileInv, FileTyped, Files!Closing
  <2> QED
    BY <2>1, <2>2 DEF CloserRight, Files!Busy
<1>3. Closings'
  BY <1>2 DEF Closings
<1>4. Permits'
  BY <1>1 DEF Permits, FileInv
<1>5. WorkRight' /\ FileDurable'
  BY DEF FileInv, WorkRight, WorkPlaced, FileHeld, FileDurable, Whole, Kept, Files!Newest, Answered, Files!IsLoad
<1>6. FileTyped'
  BY DEF FileInv, FileTyped
<1> QED
  BY <1>3, <1>4, <1>5, <1>6 DEF FileInv

\* The call of close, a step of its loop, its end.
LEMMA ClosersRight ==
  ASSUME FileParameters, FileInv, NEW c \in Closers,
         Files!Loop(c) \/ Files!Leave(c) \/ \E s \in Stores : Files!Close(c, s)
  PROVE  FileInv'
<1>1. /\ closer \in [Closers -> Files!Closing] /\ closer[c] \in Files!Closing /\ CloserRight(c)
      /\ store \in [Stores -> [accepting : BOOLEAN, inFlight : Int]]
  BY DEF FileInv, FileTyped, Closings
<1>2. ASSUME NEW s \in Stores, Files!Close(c, s) PROVE FileInv'
  <2> DEFINE x == [Files!Away EXCEPT !.at = "enable", !.store = s]
  <2>1. x \in Files!Closing /\ x.at = "enable" /\ x.store = s
    BY DEF Files!Away, Files!Closing
  <2>2. closer' = [closer EXCEPT ![c] = x] /\ store' = [store EXCEPT ![s].accepting = FALSE]
        /\ UNCHANGED <<file, synced, lock, job, acked>>
    BY <1>2 DEF Files!Close
  <2> HIDE DEF x
  <2>3. /\ closer' \in [Closers -> Files!Closing] /\ closer'[c] = x
        /\ \A d \in Closers \ {c} : closer'[d] = closer[d]
        /\ store' \in [Stores -> [accepting : BOOLEAN, inFlight : Int]]
        /\ ~store'[s].accepting
        /\ \A t \in Stores : /\ store'[t].inFlight = store[t].inFlight
                             /\ store'[t].accepting => store[t].accepting
    BY <1>1, <2>1, <2>2
  <2>4. CloserRight(c)'
    BY <2>1, <2>3 DEF CloserRight
  <2> QED
    BY <2>2, <2>3, <2>4, CloserMoves
<1>3. CASE Files!Leave(c)
  <2>1. closer' = [closer EXCEPT ![c] = Files!Away] /\ UNCHANGED <<file, synced, lock, store, job, acked>>
    BY <1>3 DEF Files!Leave
  <2>2. /\ closer' \in [Closers -> Files!Closing] /\ closer'[c] = Files!Away
        /\ \A d \in Closers \ {c} : closer'[d] = closer[d]
    BY <1>1, <2>1, Rests
  <2>3. CloserRight(c)'
    BY <2>2, Rests DEF CloserRight
  <2> QED
    BY <1>1, <2>1, <2>2, <2>3, CloserMoves
<1>4. CASE Files!Loop(c)
  <2> DEFINE me == closer[c]
             x == CASE me.at = "enable" -> [me EXCEPT !.at = "check", !.notified = FALSE]
                    [] me.at = "check" ->
                         [me EXCEPT !.at = IF store[me.store].inFlight = 0 THEN "done" ELSE "wait"]
                    [] me.at = "wait" /\ me.notified -> [me EXCEPT !.at = "enable"]
  <2>1. closer' = [closer EXCEPT ![c] = x] /\ UNCHANGED <<file, synced, lock, store, job, acked>>
    BY <1>4 DEF Files!Loop, Files!CloseStep
  <2>2. me.at \in {"enable", "check"} \/ (me.at = "wait" /\ me.notified)
    BY <1>4 DEF Files!Loop
  <2>3. /\ x \in Files!Closing /\ x.store = me.store
        /\ \/ x.at \in {"check", "enable"}
           \/ x.at = "done" /\ store[me.store].inFlight = 0
           \/ x.at = "wait" /\ store[me.store].inFlight # 0
    <3>1. CASE me.at = "enable"
      BY <3>1, <1>1 DEF Files!Closing
    <3>2. CASE me.at = "check"
      BY <3>2, <1>1 DEF Files!Closing
    <3>3. CASE me.at = "wait" /\ me.notified
      BY <3>3, <1>1 DEF Files!Closing
    <3> QED
      BY <2>2, <3>1, <3>2, <3>3
  <2> HIDE DEF x
  <2>4. /\ closer' \in [Closers -> Files!Closing] /\ closer'[c] = x
        /\ \A d \in Closers \ {c} : closer'[d] = closer[d]
    BY <1>1, <2>1, <2>3
  <2>5. PICK s \in Stores : s = me.store
    BY <1>1, <2>2 DEF CloserRight
  <2>6. /\ store[s].inFlight = Cardinality(Files!Busy(s)) /\ ~store[s].accepting
        /\ Cardinality(Files!Busy(s)) \in Nat /\ (Cardinality(Files!Busy(s)) = 0 <=> Files!Busy(s) = {})
        /\ NextBusy(s) = Files!Busy(s)
    <3>1. store[s].inFlight = Cardinality(Files!Busy(s)) /\ ~store[s].accepting
      BY <1>1, <2>2, <2>5 DEF CloserRight, FileInv, Permits
    <3>2. NextBusy(s) = Files!Busy(s)
      BY <2>1 DEF NextBusy, Files!Busy
    <3> QED
      BY <3>1, <3>2, BusyFinite
  <2>7. /\ closer'[c].at # "idle" => /\ closer'[c].store \in Stores
                                     /\ ~store'[closer'[c].store].accepting
        /\ closer'[c].at = "done" => NextBusy(closer'[c].store) = {}
        /\ closer'[c].at = "wait" /\ ~closer'[c].notified =>
             store'[closer'[c].store].inFlight > 0
    BY <2>1, <2>3, <2>4, <2>5, <2>6
  <2>8. CloserRight(c)'
    BY <2>7 DEF CloserRight, NextBusy, Files!Busy
  <2> QED
    BY <1>1, <2>1, <2>4, <2>8, CloserMoves
<1> QED
  BY <1>2, <1>3, <1>4

\* The death of the stores in S, whatever it tears of the lines not synced.
LEMMA DeadRight ==
  ASSUME FileParameters, FileInv, NEW S \in SUBSET Stores, Files!Dead(S),
         UNCHANGED <<synced, acked>>,
         file' \in Seq(Records \cup {Torn}), synced <= Len(file'),
         \A i \in 1 .. synced : file'[i] = file[i],
         \A k \in Jobs : job[k].at \in {"write", "sync"} => file' = file \/ job[k].store \in S
  PROVE  FileInv'
<1>1. /\ store \in [Stores -> [accepting : BOOLEAN, inFlight : Int]] /\ job \in [Jobs -> Files!Job]
      /\ closer \in [Closers -> Files!Closing] /\ lock \in Jobs \cup {None}
      /\ synced \in Nat /\ None \notin Stores /\ None \notin Jobs
  BY DEF FileInv, FileTyped, FileParameters, Files!NamesAssumption
<1>2. /\ store' = [s \in Stores |-> IF s \in S THEN Files!Open ELSE store[s]]
      /\ job' = [k \in Jobs |-> IF job[k].store \in S THEN Files!Idle ELSE job[k]]
      /\ closer' = [c \in Closers |-> IF closer[c].store \in S THEN Files!Away ELSE closer[c]]
      /\ lock' = IF lock # None /\ job[lock].store \in S THEN None ELSE lock
  BY DEF Files!Dead
<1>3. /\ \A k \in Jobs : job'[k] = IF job[k].store \in S THEN Files!Idle ELSE job[k]
      /\ \A s \in Stores : store'[s] = IF s \in S THEN Files!Open ELSE store[s]
      /\ \A c \in Closers : closer'[c] = IF closer[c].store \in S THEN Files!Away ELSE closer[c]
  BY <1>2
<1>4. FileTyped'
  <2>1. job' \in [Jobs -> Files!Job] /\ closer' \in [Closers -> Files!Closing]
    BY <1>1, <1>2, Rests
  <2>2. store' \in [Stores -> [accepting : BOOLEAN, inFlight : Int]]
    BY <1>1, <1>2, Rests
  <2> QED
    BY <1>1, <1>2, <2>1, <2>2 DEF FileInv, FileTyped
<1>5. WorkRight'
  <2> SUFFICES ASSUME NEW k \in Jobs PROVE WorkPlaced(k)' /\ FileHeld(k)'
    BY DEF WorkRight
  <2>1. CASE job[k].store \in S
    BY <2>1, <1>3, Rests DEF WorkPlaced, FileHeld
  <2>2. CASE job[k].store \notin S
    <3>1. job'[k] = job[k] /\ WorkPlaced(k) /\ FileHeld(k)
      BY <2>2, <1>3 DEF FileInv, WorkRight
    <3>2. WorkPlaced(k)'
      BY <3>1 DEF WorkPlaced
    <3>3. job[k].at \in {"write", "sync"} => lock = k /\ lock' = lock /\ file' = file
      BY <2>2, <3>1, <1>2 DEF FileHeld
    <3> QED
      BY <3>1, <3>2, <3>3 DEF FileHeld, Whole, Files!Newest, Answered, Files!IsLoad
  <2> QED
    BY <2>1, <2>2
<1>6. FileDurable'
  <2>1. Kept' = Kept
    BY <1>1 DEF Kept
  <2>2. \A k \in Jobs : job'[k].at = "done" => job'[k] = job[k]
    BY <1>3, Rests
  <2> QED
    BY <2>1, <2>2 DEF FileInv, FileDurable, Whole, Answered, Files!IsLoad
<1>7. \A s \in Stores : NextBusy(s) = IF s \in S THEN {} ELSE Files!Busy(s)
  <2> TAKE s \in Stores
  <2>1. \A k \in Jobs : job'[k].store = s /\ job'[k].at \in {"queued", "write", "sync"} =>
                          job'[k] = job[k] /\ s \notin S
    BY <1>1, <1>3, Rests
  <2>2. \A k \in Jobs : s \notin S /\ job[k].store = s => job'[k] = job[k]
    BY <1>3
  <2> QED
    BY <2>1, <2>2 DEF NextBusy, Files!Busy
<1>8. Permits'
  <2>1. \A s \in Stores : store'[s].inFlight = Cardinality(NextBusy(s)) /\ store'[s].inFlight <= MaxJobs
    <3> TAKE s \in Stores
    <3>1. CASE s \in S
      <4>1. store'[s].inFlight = 0 /\ NextBusy(s) = {}
        BY <3>1, <1>3, <1>7, Rests
      <4> QED
        BY <4>1, FS_EmptySet DEF FileParameters, Files!BoundsAssumption
    <3>2. CASE s \notin S
      BY <3>2, <1>3, <1>7 DEF FileInv, Permits
    <3> QED
      BY <3>1, <3>2
  <2> QED
    BY <2>1 DEF Permits, NextBusy, Files!Busy
<1>9. Closings'
  <2> SUFFICES ASSUME NEW c \in Closers PROVE CloserRight(c)'
    BY DEF Closings
  <2>1. CASE closer[c].store \in S
    BY <2>1, <1>3, Rests DEF CloserRight
  <2>2. CASE closer[c].store \notin S
    <3>1. closer'[c] = closer[c] /\ CloserRight(c)
      BY <2>2, <1>3 DEF FileInv, Closings
    <3>2. closer[c].at # "idle" => /\ closer[c].store \in Stores
                                   /\ store'[closer[c].store] = store[closer[c].store]
                                   /\ NextBusy(closer[c].store) = Files!Busy(closer[c].store)
      BY <2>2, <3>1, <1>3, <1>7 DEF CloserRight
    <3>3. /\ closer'[c].at # "idle" => /\ closer'[c].store \in Stores
                                     /\ ~store'[closer'[c].store].accepting
          /\ closer'[c].at = "done" => NextBusy(closer'[c].store) = {}
          /\ closer'[c].at = "wait" /\ ~closer'[c].notified =>
               store'[closer'[c].store].inFlight > 0
      BY <3>1, <3>2 DEF CloserRight
    <3> QED
      BY <3>3 DEF CloserRight, NextBusy, Files!Busy
  <2> QED
    BY <2>1, <2>2
<1> QED
  BY <1>4, <1>5, <1>6, <1>8, <1>9 DEF FileInv

\* The death of one process, which may tear the line it was writing.
LEMMA StoreCrashRight ==
  ASSUME FileParameters, FileInv, NEW s \in Stores, Files!Crash(s)
  PROVE  FileInv'
<1>1. /\ file \in Seq(Records \cup {Torn}) /\ synced \in 0 .. Len(file) /\ Len(file) \in Nat
  BY DEF FileInv, FileTyped
<1>2. Files!Dead({s}) /\ UNCHANGED <<synced, acked>>
  BY DEF Files!Crash
<1>3. CASE UNCHANGED file
  BY <1>1, <1>2, <1>3, DeadRight
<1>4. CASE (\E j \in Files!Busy(s) : job[j].at = "write") /\ file' = Append(file, Torn)
  <2>1. PICK j \in Jobs : job[j].store = s /\ job[j].at = "write"
    BY <1>4 DEF Files!Busy
  <2>2. \A k \in Jobs : job[k].at \in {"write", "sync"} => job[k].store \in {s}
    BY <2>1 DEF FileInv, WorkRight, FileHeld
  <2>3. /\ file' \in Seq(Records \cup {Torn}) /\ Len(file') = Len(file) + 1
        /\ \A i \in 1 .. Len(file) : file'[i] = file[i]
    BY <1>1, <1>4, Appended
  <2>4. synced <= Len(file') /\ \A i \in 1 .. synced : file'[i] = file[i]
    BY <1>1, <2>3
  <2> QED
    BY <1>2, <2>2, <2>3, <2>4, DeadRight
<1> QED
  BY <1>3, <1>4 DEF Files!Crash

\* The loss of power leaves the synced lines, and maybe some more.
LEMMA PowerRight ==
  ASSUME FileParameters, FileInv, Files!PowerLoss
  PROVE  FileInv'
<1>1. /\ file \in Seq(Records \cup {Torn}) /\ synced \in 0 .. Len(file) /\ Len(file) \in Nat
  BY DEF FileInv, FileTyped
<1>2. Files!Dead(Stores) /\ UNCHANGED <<synced, acked>>
  BY DEF Files!PowerLoss
<1>3. PICK n \in synced .. Len(file) :
        file' = SubSeq(file, 1, n) \/ file' = Append(SubSeq(file, 1, n), Torn)
  BY DEF Files!PowerLoss
<1> DEFINE t == SubSeq(file, 1, n)
<1>4. t \in Seq(Records \cup {Torn}) /\ Len(t) = n /\ \A i \in 1 .. n : t[i] = file[i]
  BY <1>1, Shortened
<1>5. file' = t \/ file' = Append(t, Torn)
  BY <1>3
<1> HIDE DEF t
<1>6. file' \in Seq(Records \cup {Torn}) /\ Len(file') >= n /\ \A i \in 1 .. n : file'[i] = file[i]
  BY <1>4, <1>5, Appended
<1>7. synced <= Len(file') /\ \A i \in 1 .. synced : file'[i] = file[i]
  BY <1>1, <1>6
<1>8. \A k \in Jobs : job[k].at \in {"write", "sync"} => job[k].store \in Stores
  BY DEF FileInv, WorkRight, WorkPlaced
<1> QED
  BY <1>2, <1>6, <1>7, <1>8, DeadRight

\* Every step keeps the invariant.
LEMMA FileStep ==
  ASSUME FileParameters, FileInv, [Files!Next]_Files!vars
  PROVE  FileInv'
<1>1. CASE UNCHANGED Files!vars
  <2>1. WorkRight' /\ FileTyped'
    BY <1>1 DEF Files!vars, FileInv, FileTyped, WorkRight, WorkPlaced, FileHeld, Whole, Files!Newest, Answered,
                Files!IsLoad
  <2>2. FileDurable'
    BY <1>1 DEF Files!vars, FileInv, FileDurable, Whole, Kept, Answered, Files!IsLoad
  <2>3. Permits' /\ Closings'
    BY <1>1 DEF Files!vars, FileInv, Permits, Closings, CloserRight, Files!Busy
  <2> QED
    BY <2>1, <2>2, <2>3 DEF FileInv
<1>2. CASE Files!Next
  <2>1. ASSUME NEW j \in Jobs, NEW s \in Stores, NEW r \in Records \cup {None}, Files!Admit(j, s, r)
        PROVE  FileInv'
    BY <2>1, AdmitRight
  <2>2. ASSUME NEW j \in Jobs, Files!Work(j) \/ Files!JoinFails(j) \/ Files!Take(j) \/ Files!Cancel(j)
        PROVE  FileInv'
    BY <2>2, EnterRight, WriteRight, SyncRight, CallersRight DEF Files!Work
  <2>3. ASSUME NEW c \in Closers, Files!Loop(c) \/ Files!Leave(c) \/ \E s \in Stores : Files!Close(c, s)
        PROVE  FileInv'
    BY <2>3, ClosersRight
  <2>4. ASSUME NEW s \in Stores, Files!Crash(s) PROVE FileInv'
    BY <2>4, StoreCrashRight
  <2> QED
    BY <1>2, <2>1, <2>2, <2>3, <2>4, PowerRight DEF Files!Next
<1> QED
  BY <1>1, <1>2

\* The invariant holds in every state.
LEMMA FileInvariance == ASSUME FileParameters PROVE Files!Spec => []FileInv
BY FileBegins, FileStep, PTL DEF Files!Spec

-----------------------------------------------------------------------------
(***************************************************************************)
(* What follows about checkpoint files.                                    *)
(***************************************************************************)
\* Types, and no store counts more than there are operations.
THEOREM FileTypesCorrect == ASSUME FileParameters PROVE Files!Spec => []Files!TypeOK
<1>1. FileInv => Files!TypeOK
  <2> SUFFICES ASSUME FileInv PROVE Files!TypeOK
    OBVIOUS
  <2>1. ASSUME NEW s \in Stores
        PROVE  store[s] \in [accepting : BOOLEAN, inFlight : 0 .. Cardinality(Jobs)]
    <3>1. store[s] \in [accepting : BOOLEAN, inFlight : Int]
      BY DEF FileInv, FileTyped
    <3>2. store[s].inFlight \in 0 .. Cardinality(Jobs)
      BY BusyFinite, JobsAssumption, FS_CardinalityType DEF FileInv, Permits
    <3> QED
      BY <3>1, <3>2
  <2> QED
    BY <2>1, SameCount DEF FileInv, FileTyped, Files!TypeOK
<1> QED
  BY <1>1, FileInvariance, PTL

\* An operation of a file store that reports it has not committed has not
\* written, whichever step failed.
THEOREM FileAnswersTrue == ASSUME FileParameters PROVE Files!Spec => []Files!DefiniteIsTrue
<1>1. FileInv => Files!DefiniteIsTrue
  BY DEF FileInv, WorkRight, WorkPlaced, Files!DefiniteIsTrue
<1> QED
  BY <1>1, FileInvariance, PTL

\* The permits of a store are exact; when close has returned nothing runs, and
\* no closer sleeps through the last permit.
THEOREM ClosesAreClean == ASSUME FileParameters PROVE Files!Spec => []Files!ClosesClean
<1>1. FileInv => Files!ClosesClean
  <2> SUFFICES ASSUME FileInv PROVE Files!ClosesClean
    OBVIOUS
  <2>1. Permits /\ \A c \in Closers : CloserRight(c)
    BY DEF FileInv, Closings
  <2> QED
    BY <2>1, SameCount DEF Permits, CloserRight, Files!ClosesClean
<1> QED
  BY <1>1, FileInvariance, PTL

\* The synced lines only grow, and what was acknowledged stays.
LEMMA FileGrowth ==
  ASSUME FileParameters, FileInv, [Files!Next]_Files!vars
  PROVE  /\ synced <= synced' /\ acked \subseteq acked'
         /\ \A i \in 1 .. synced : file'[i] = file[i]
<1>1. file \in Seq(Records \cup {Torn}) /\ synced \in 0 .. Len(file) /\ Len(file) \in Nat
  BY DEF FileInv, FileTyped
<1>2. \A y \in Records \cup {Torn} :
        \A i \in 1 .. synced : Append(file, y)[i] = file[i]
  BY <1>1, Appended
<1>3. ASSUME NEW j \in Jobs, Files!Work(j)
      PROVE  synced <= synced' /\ acked' = acked /\ \A i \in 1 .. synced : file'[i] = file[i]
  <2>1. CASE Files!Write(j)
    <3>1. job[j].record \in Records
      BY <2>1 DEF Files!Write, FileInv, WorkRight, WorkPlaced
    <3> QED
      BY <2>1, <3>1, <1>1, <1>2 DEF Files!Write
  <2>2. CASE Files!Sync(j)
    BY <2>2, <1>1 DEF Files!Sync
  <2>3. CASE Files!Enter(j)
    BY <2>3, <1>1 DEF Files!Enter
  <2> QED
    BY <1>3, <2>1, <2>2, <2>3 DEF Files!Work
<1>4. ASSUME NEW s \in Stores, Files!Crash(s)
      PROVE  synced' = synced /\ acked' = acked /\ \A i \in 1 .. synced : file'[i] = file[i]
  BY <1>4, <1>2 DEF Files!Crash
<1>5. CASE Files!PowerLoss
  <2>1. PICK n \in synced .. Len(file) :
          file' = SubSeq(file, 1, n) \/ file' = Append(SubSeq(file, 1, n), Torn)
    BY <1>5 DEF Files!PowerLoss
  <2> DEFINE t == SubSeq(file, 1, n)
  <2>2. t \in Seq(Records \cup {Torn}) /\ Len(t) = n /\ \A i \in 1 .. n : t[i] = file[i]
    BY <1>1, Shortened
  <2>3. file' = t \/ file' = Append(t, Torn)
    BY <2>1
  <2> HIDE DEF t
  <2>4. \A i \in 1 .. n : file'[i] = file[i]
    BY <2>2, <2>3, Appended
  <2> QED
    BY <1>1, <1>5, <2>4 DEF Files!PowerLoss
<1>6. ASSUME NEW j \in Jobs, NEW s \in Stores, NEW r \in Records \cup {None}, Files!Admit(j, s, r)
      PROVE  UNCHANGED <<file, synced, acked>>
  BY <1>6 DEF Files!Admit
<1>7. ASSUME NEW j \in Jobs, Files!JoinFails(j) \/ Files!Take(j) \/ Files!Cancel(j)
      PROVE  UNCHANGED <<file, synced>> /\ acked \subseteq acked'
  BY <1>7 DEF Files!JoinFails, Files!Take, Files!Cancel
<1>8. ASSUME NEW c \in Closers, Files!Loop(c) \/ Files!Leave(c) \/ \E s \in Stores : Files!Close(c, s)
      PROVE  UNCHANGED <<file, synced, acked>>
  BY <1>8 DEF Files!Loop, Files!CloseStep, Files!Leave, Files!Close
<1>9. CASE UNCHANGED Files!vars
  BY <1>9, <1>1 DEF Files!vars
<1> QED
  BY <1>1, <1>3, <1>4, <1>5, <1>6, <1>7, <1>8, <1>9 DEF Files!Next

\* The lines up to a place, when they are records in a row.
LEMMA WholeLines ==
  ASSUME FileParameters, NEW f \in Seq(Records \cup {Torn}), NEW n \in 0 .. Len(f),
         \A i \in 1 .. n : f[i] \in Records /\ f[i].seq = i - 1
  PROVE  LET s == SubSeq(f, 1, n)
         IN /\ s \in Seq(Records \cup {Torn}) /\ Len(s) = n /\ \A i \in 1 .. n : s[i] = f[i]
            /\ ToSet(s) = {f[i] : i \in 1 .. n} /\ Promise!ValidLog(s)
<1> DEFINE s == SubSeq(f, 1, n)
<1>1. s \in Seq(Records \cup {Torn}) /\ Len(s) = n /\ \A i \in 1 .. n : s[i] = f[i]
  BY Shortened
<1> HIDE DEF s
<1>2. DOMAIN s = 1 .. n
  BY <1>1
<1>3. ToSet(s) = {f[i] : i \in 1 .. n}
  BY <1>1, <1>2 DEF ToSet
<1>4. Promise!ValidLog(s)
  <2>1. \A i \in 1 .. n : s[i].seq = i - 1
    BY <1>1
  <2>2. ASSUME NEW i \in 1 .. n, NEW k \in 1 .. n, s[i].id = s[k].id PROVE i = k
    <3>1. f[i] = f[k]
      BY <1>1, <2>2 DEF FileParameters, Files!RecordsAssumption
    <3>2. i - 1 = k - 1 /\ i \in Int /\ k \in Int
      BY <3>1
    <3> QED
      BY <3>2
  <2> QED
    BY <1>2, <2>1, <2>2 DEF Promise!ValidLog
<1> QED
  BY <1>1, <1>3, <1>4 DEF s

\* A checkpoint file keeps the promise of DurableLog, as a Session's does.
THEOREM FileKeepsPromise == ASSUME FileParameters PROVE Files!Spec => ImplementsPromise
<1>1. Files!Init => Promise!Init
  <2> SUFFICES ASSUME Files!Init PROVE Promise!Init
    OBVIOUS
  <2>1. file = <<>> /\ synced = 0 /\ acked = {}
    BY DEF Files!Init
  <2> QED
    BY <2>1 DEF Promise!Init
<1>2. FileInv /\ FileInv' /\ [Files!Next]_Files!vars => [Promise!Next]_Promise!vars
  <2> SUFFICES ASSUME FileInv, FileInv', [Files!Next]_Files!vars PROVE Promise!Next
    OBVIOUS
  <2> DEFINE old == SubSeq(file, 1, synced)
             new == SubSeq(file', 1, synced')
  <2>1. /\ old \in Seq(Records \cup {Torn}) /\ Len(old) = synced
        /\ \A i \in 1 .. synced : old[i] = file[i]
    BY Shortened DEF FileInv, FileTyped
  <2>2. /\ new \in Seq(Records \cup {Torn}) /\ Len(new) = synced'
        /\ \A i \in 1 .. synced' : new[i] = file'[i]
        /\ ToSet(new) = Kept' /\ Promise!ValidLog(new)
    <3>1. file' \in Seq(Records \cup {Torn}) /\ synced' \in 0 .. Len(file')
      BY DEF FileInv, FileTyped
    <3>2. \A i \in 1 .. synced' : file'[i] \in Records /\ file'[i].seq = i - 1
      BY DEF FileInv, FileDurable, Whole
    <3>3. Kept' = {file'[i] : i \in 1 .. synced'}
      BY DEF Kept
    <3> QED
      BY <3>1, <3>2, <3>3, WholeLines
  <2>3. /\ synced <= synced' /\ acked \subseteq acked'
        /\ \A i \in 1 .. synced : file'[i] = file[i]
        /\ synced \in Nat /\ synced' \in Nat
    BY FileGrowth DEF FileInv, FileTyped
  <2>4. acked' \subseteq Kept'
    BY DEF FileInv, FileDurable
  <2>5. Promise!Next <=> /\ IsPrefix(old, new) /\ Promise!ValidLog(new)
                         /\ acked \subseteq acked' /\ acked' \subseteq ToSet(new)
    BY DEF Promise!Next, Promise!IsPrefix, Promise!ToSet, IsPrefix, ToSet
  <2> HIDE DEF old, new
  <2>6. IsPrefix(old, new)
    <3>1. \A i \in 1 .. synced : new[i] = old[i]
      BY <2>1, <2>2, <2>3
    <3>2. SubSeq(old, 1, Len(old)) = SubSeq(new, 1, Len(old))
      BY <2>1, <2>2, <2>3, <3>1, SameStart
    <3> QED
      BY <2>1, <2>2, <2>3, <3>2 DEF IsPrefix
  <2> QED
    BY <2>2, <2>3, <2>4, <2>5, <2>6
<1> QED
  BY <1>1, <1>2, FileInvariance, PTL DEF Files!Spec, ImplementsPromise, Promise!Spec

\* Of the candidates for one revision at most one is ever reported committed,
\* whichever stores and processes proposed them.
THEOREM OneCandidateWins ==
  ASSUME FileParameters
  PROVE  Files!Spec => [](\A r, q \in acked : r.seq = q.seq => r = q)
<1>1. FileInv => \A r, q \in acked : r.seq = q.seq => r = q
  <2> SUFFICES ASSUME FileInv, NEW r \in acked, NEW q \in acked, r.seq = q.seq PROVE r = q
    OBVIOUS
  <2>1. PICK i \in 1 .. synced : r = file[i]
    BY DEF FileInv, FileDurable, Kept
  <2>2. PICK k \in 1 .. synced : q = file[k]
    BY DEF FileInv, FileDurable, Kept
  <2>3. i - 1 = k - 1 /\ i \in Int /\ k \in Int
    BY <2>1, <2>2 DEF FileInv, FileDurable, Whole
  <2> QED
    BY <2>1, <2>2, <2>3
<1> QED
  BY <1>1, FileInvariance, PTL
=============================================================================
