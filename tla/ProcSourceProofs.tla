-------------------------- MODULE ProcSourceProofs --------------------------
(* Theorems about the /proc source, for any number of pids and threads,    *)
(* any threshold and any bounds of the queue.                              *)
EXTENDS ProcSource, FiniteSetTheorems, TLAPS

(***************************************************************************)
(* A tracked process that has no entry in /proc has ended since it was     *)
(* tracked: either it was seen to end, or its fork was handled too late.   *)
(***************************************************************************)
EndedIsGone == \A p \in tracked : name[p] = "none" => p \in gone

(***************************************************************************)
(* What a scan has covered so far: a full scan lists all before its loop,  *)
(* the other one looks at the tracked processes in turn.                   *)
(***************************************************************************)
ScanInv ==
    /\ phase \in {"count", "list", "exits", "handle"} => cursor = 1
    /\ phase = "scan" =>
          \A p \in tracked : (full \/ p < cursor) => p \in seen \/ p \in gone
    /\ phase = "exits" => tracked \ seen \subseteq gone

SourceInv == TypeOK /\ EndedIsGone /\ ScanInv

(***************************************************************************)
(* Helpers.                                                                *)
(***************************************************************************)
LEMMA PidsFinite ==
    ASSUME NEW S \in SUBSET Pids
    PROVE  IsFiniteSet(S) /\ Cardinality(S) \in 0..MaxPid
<1>1. IsFiniteSet(Pids) /\ Cardinality(Pids) = MaxPid
  BY FS_Interval, SourceAssumption DEF Pids
<1>2. IsFiniteSet(S) /\ Cardinality(S) <= Cardinality(Pids)
  BY <1>1, FS_Subset
<1> QED BY <1>1, <1>2, FS_CardinalityType, SourceAssumption

LEMMA SetToSeqType ==
    ASSUME NEW S, IsFiniteSet(S)
    PROVE  SetToSeq(S) \in Seq(S)
<1> DEFINE n == Cardinality(S)
<1>1. n \in Nat /\ ExistsBijection(1..n, S)
  BY FS_CardinalityType
<1>2. \E f \in [1..n -> S] : \A a, b \in 1..n : f[a] = f[b] => a = b
  BY <1>1 DEF ExistsBijection, Bijection, Injection, IsInjective
<1>3. \E f \in [1..n -> S] : IsInjective(f)
  BY <1>2 DEF IsInjective
<1>4. SetToSeq(S) \in [1..n -> S]
  BY <1>3 DEF SetToSeq
<1> QED BY <1>1, <1>4

LEMMA ExitsType ==
    ASSUME tracked \subseteq Pids
    PROVE  Exits \in Seq(Event)
<1> DEFINE G == tracked \ seen
           E == [kind : {"exit"}, pid : G, tids : {{}}]
           f == [p \in G |-> [kind |-> "exit", pid |-> p, tids |-> {}]]
<1>1. IsFiniteSet(G)
  BY PidsFinite
<1>2. f \in [G -> E] /\ \A e \in E : \E p \in G : f[p] = e
  <2>1. ASSUME NEW e \in E PROVE e.pid \in G /\ f[e.pid] = e
    OBVIOUS
  <2> QED BY <2>1
<1>3. f \in Surjection(G, E)
  BY <1>2 DEF Surjection
<1> HIDE DEF f, E, G
<1>4. IsFiniteSet(E)
  BY <1>1, <1>3, FS_Surjection
<1>5. SetToSeq(E) \in Seq(E)
  BY <1>4, SetToSeqType
<1>6. E \subseteq Event
  BY DEF E, G, Event, Kinds
<1>7. SetToSeq(E) \in Seq(Event)
  BY <1>5, <1>6
<1> QED BY <1>7 DEF Exits, E, G

LEMMA ReportType ==
    ASSUME events \in Seq(Event), NEW k \in Kinds, NEW p \in Pids,
           NEW S \in SUBSET Tids, Report(k, p, S)
    PROVE  events' \in Seq(Event)
<1>1. [kind |-> k, pid |-> p, tids |-> S] \in Event
  BY DEF Event
<1> QED BY <1>1 DEF Report

LEMMA AdvanceType ==
    ASSUME cursor \in Pids, NEW ph, Advance(ph)
    PROVE  /\ cursor' \in Pids /\ snapshot' = snapshot
           /\ \/ cursor = MaxPid /\ phase' = ph /\ cursor' = 1
              \/ cursor # MaxPid /\ phase' = phase /\ cursor' = cursor + 1
BY SourceAssumption DEF Advance, Pids

(***************************************************************************)
(* The queue keeps to its limit: retries only shorten it, and a process is *)
(* queued only if there is room.                                           *)
(***************************************************************************)
LEMMA RetryKeepsQueue ==
    ASSUME TypeOK, NEW p \in Pending, pending' = [pending EXCEPT ![p] = Retry(p)]
    PROVE  pending' \in [Pids -> -1..MaxRetries] /\ Cardinality(Pending') <= MaxPending
<1>1. p \in Pids /\ pending[p] \in 0..MaxRetries
  BY DEF TypeOK, Pending, NotPending
<1>2. Retry(p) \in -1..MaxRetries
  BY <1>1, SourceAssumption DEF Retry, NotPending
<1>3. pending' \in [Pids -> -1..MaxRetries]
  BY <1>1, <1>2 DEF TypeOK
<1>4. Pending' \subseteq Pending
  BY <1>1 DEF TypeOK, Pending
<1>5. Cardinality(Pending') <= Cardinality(Pending)
  BY <1>4, PidsFinite, FS_Subset DEF Pending
<1>6. Cardinality(Pending) \in Nat /\ Cardinality(Pending') \in Nat
  BY PidsFinite, <1>4 DEF Pending
<1> QED BY <1>3, <1>5, <1>6, SourceAssumption DEF TypeOK

LEMMA EnqueueKeepsQueue ==
    ASSUME TypeOK, NEW p \in Pids, Enqueue(p)
    PROVE  pending' \in [Pids -> -1..MaxRetries] /\ Cardinality(Pending') <= MaxPending
<1>1. CASE pending' = pending
  BY <1>1 DEF TypeOK, Pending
<1>2. CASE /\ pending' = [pending EXCEPT ![p] = 0]
           /\ p \notin Pending /\ Cardinality(Pending) < MaxPending
  <2>1. pending' \in [Pids -> -1..MaxRetries]
    BY <1>2, SourceAssumption DEF TypeOK
  <2>2. Pending' = Pending \cup {p}
    BY <1>2 DEF TypeOK, Pending, NotPending
  <2>3. IsFiniteSet(Pending) /\ Cardinality(Pending) \in Nat
    BY PidsFinite DEF Pending
  <2>4. Cardinality(Pending') = Cardinality(Pending) + 1
    BY <1>2, <2>2, <2>3, FS_AddElement
  <2> QED BY <1>2, <2>1, <2>3, <2>4, SourceAssumption
<1> QED BY <1>1, <1>2 DEF Enqueue

LEMMA InitEstablishes == Init => SourceInv
<1> SUFFICES ASSUME Init PROVE SourceInv
  OBVIOUS
<1>1. Pending = {}
  BY DEF Init, Pending
<1>2. Cardinality(Pending) = 0
  BY <1>1, FS_EmptySet
<1>3. /\ name \in [Pids -> Names] /\ tids \in [Pids -> SUBSET Tids]
      /\ applied \in [Pids -> SUBSET Tids]
  BY SourceAssumption DEF Init, Tids, MainTid
<1>4. /\ pending \in [Pids -> -1..MaxRetries] /\ cursor \in Pids
      /\ lastTotal \in -1..MaxPid /\ incidents \in 0..MaxIncidents
  BY SourceAssumption DEF Init, Pids, NotPending
<1>5. events \in Seq(Event)
  BY DEF Init
<1>6. /\ lost \in BOOLEAN /\ scanAll \in BOOLEAN /\ full \in BOOLEAN
      /\ phase \in {"flush", "count", "list", "scan", "exits", "handle"}
      /\ seen \subseteq Pids /\ tracked \subseteq Pids
      /\ gone \subseteq tracked /\ unscanned \subseteq gone
      /\ cfg \in BOOLEAN /\ snapshot \in BOOLEAN
  BY SourceAssumption DEF Init
<1>7. Cardinality(Pending) <= MaxPending
  BY <1>2, SourceAssumption
<1>8. TypeOK
  BY <1>3, <1>4, <1>5, <1>6, <1>7 DEF TypeOK
<1> QED BY <1>8 DEF Init, SourceInv, EndedIsGone, ScanInv

(***************************************************************************)
(* Processes: a tracked one that ends is marked as ended; a scan or queue  *)
(* is not touched.                                                         *)
(***************************************************************************)
LEMMA KernelKeeps == ASSUME SourceInv, KernelNext PROVE SourceInv'
<1>1. PICK p \in Pids :
        \/ Birth(p) \/ NewThread(p) \/ Death(p)
        \/ \E n \in {"app", "other"} : Named(p, n)
  BY DEF KernelNext
<1>2. UNCHANGED <<source, poll, tracked, applied, unscanned, lost>> /\ gone \subseteq gone'
  BY <1>1 DEF Birth, NewThread, Death, Named, engine
<1>3. Pending' = Pending
  BY <1>2 DEF Pending, source
<1>4. /\ name' \in [Pids -> Names] /\ tids' \in [Pids -> SUBSET Tids]
      /\ incidents' \in 0..MaxIncidents /\ gone' \subseteq tracked
  <2> USE SourceAssumption DEF SourceInv, TypeOK
  <2>1. CASE Birth(p)
    BY <2>1 DEF Birth, Incident, engine, Names, Tids, MainTid
  <2>2. CASE NewThread(p)
    BY <2>2 DEF NewThread, Incident, engine
  <2>3. CASE Death(p)
    BY <2>3 DEF Death, Names
  <2>4. CASE \E n \in {"app", "other"} : Named(p, n)
    BY <2>4 DEF Named, engine, Names
  <2> QED BY <1>1, <2>1, <2>2, <2>3, <2>4
<1>5. TypeOK'
  BY <1>2, <1>3, <1>4 DEF SourceInv, TypeOK, source, poll
<1>6. EndedIsGone'
  BY <1>1, <1>2 DEF SourceInv, TypeOK, EndedIsGone, Birth, NewThread, Death, Named
<1>7. ScanInv'
  BY <1>2 DEF SourceInv, ScanInv, poll
<1> QED BY <1>5, <1>6, <1>7 DEF SourceInv

(***************************************************************************)
(* The steps of a poll.                                                    *)
(***************************************************************************)
LEMMA FlushKeeps == ASSUME SourceInv, FlushOne PROVE SourceInv'
<1>1. TypeOK /\ cursor \in Pids /\ events \in Seq(Event)
  BY DEF SourceInv, TypeOK
<1>2. /\ pending' \in [Pids -> -1..MaxRetries] /\ Cardinality(Pending') <= MaxPending
      /\ events' \in Seq(Event)
  <2>1. CASE UNCHANGED <<pending, events>>
    <3>1. Pending' = Pending
      BY <2>1 DEF Pending
    <3> QED BY <1>1, <2>1, <3>1 DEF TypeOK
  <2>2. CASE /\ cursor \in Pending
             /\ pending' = [pending EXCEPT ![cursor] = Retry(cursor)]
             /\ IF Interested(name[cursor]) THEN Report("fork", cursor, {}) ELSE UNCHANGED events
    <3>1. pending' \in [Pids -> -1..MaxRetries] /\ Cardinality(Pending') <= MaxPending
      BY <1>1, <2>2, RetryKeepsQueue
    <3>2. CASE Report("fork", cursor, {})
      BY <1>1, <3>1, <3>2, ReportType DEF Kinds
    <3> QED BY <1>1, <2>2, <3>1, <3>2
  <2> QED BY <2>1, <2>2 DEF FlushOne
<1>3. /\ phase = "flush" /\ Advance("count")
      /\ UNCHANGED <<full, seen, cfg, lastTotal, scanAll, incidents, kernel, engine, lost>>
  BY DEF FlushOne
<1>4. /\ cursor' \in Pids /\ snapshot' = snapshot /\ phase' \in {"flush", "count"}
      /\ phase' = "count" => cursor' = 1
  BY <1>1, <1>3, AdvanceType
<1>5. TypeOK'
  BY <1>1, <1>2, <1>3, <1>4 DEF TypeOK, kernel, engine
<1>6. EndedIsGone' /\ ScanInv'
  BY <1>3, <1>4 DEF SourceInv, EndedIsGone, ScanInv, kernel, engine
<1> QED BY <1>5, <1>6 DEF SourceInv

LEMMA CountKeeps == ASSUME SourceInv, CountProcesses PROVE SourceInv'
<1>1. TypeOK /\ ScanInv /\ cursor = 1
  BY DEF SourceInv, CountProcesses, ScanInv
<1>2. PICK ok \in BOOLEAN :
         /\ ReadProc(ok)
         /\ lastTotal' = IF ok THEN Cardinality(AliveNow) ELSE -1
         /\ full' = NeedFull(lastTotal')
  BY DEF CountProcesses
<1>3. Cardinality(AliveNow) \in 0..MaxPid
  BY PidsFinite DEF AliveNow
<1>4. incidents' \in 0..MaxIncidents /\ lastTotal' \in -1..MaxPid
  BY <1>1, <1>2, <1>3, SourceAssumption DEF ReadProc, Incident, TypeOK
<1>5. full' \in BOOLEAN
  BY <1>1, <1>2 DEF NeedFull, TypeOK
<1>6. /\ scanAll' = FALSE /\ phase' \in {"list", "scan"} /\ (phase' = "list" <=> full')
      /\ UNCHANGED <<cfg, snapshot, cursor, seen, events, pending, kernel, engine, lost>>
  BY <1>5 DEF CountProcesses
<1>7. Pending' = Pending
  BY <1>6 DEF Pending
<1>8. TypeOK'
  BY <1>1, <1>4, <1>5, <1>6, <1>7 DEF TypeOK, kernel, engine
<1>9. EndedIsGone' /\ ScanInv'
  BY <1>1, <1>6 DEF SourceInv, TypeOK, Pids, EndedIsGone, ScanInv, kernel, engine
<1> QED BY <1>8, <1>9 DEF SourceInv

\* What is not listed does not live, and is marked as ended if it is tracked.
LEMMA ListKeeps == ASSUME SourceInv, ListProcesses PROVE SourceInv'
<1>1. PICK ok \in BOOLEAN :
         /\ ReadProc(ok)
         /\ seen' = IF ok THEN AliveNow ELSE {}
         /\ phase' = IF ok THEN "scan" ELSE "handle"
         /\ lost' = (lost \/ ~ok)
  BY DEF ListProcesses
<1>2. UNCHANGED <<snapshot, cursor, full, events, kernel, source, engine>> /\ cursor = 1
  BY DEF ListProcesses, SourceInv, ScanInv
<1>3. Pending' = Pending
  BY <1>2 DEF Pending, source
<1>4. incidents' \in 0..MaxIncidents
  BY <1>1, SourceAssumption DEF ReadProc, Incident, SourceInv, TypeOK
<1>5. TypeOK'
  BY <1>1, <1>2, <1>3, <1>4 DEF SourceInv, TypeOK, AliveNow, kernel, source, engine
<1>6. EndedIsGone'
  BY <1>2 DEF SourceInv, EndedIsGone, kernel, engine
<1>7. phase' = "scan" => \A p \in tracked' : p \in seen' \/ p \in gone'
  BY <1>1, <1>2 DEF SourceInv, TypeOK, EndedIsGone, AliveNow, engine
<1>8. ScanInv'
  BY <1>1, <1>2, <1>7 DEF ScanInv
<1> QED BY <1>5, <1>6, <1>8 DEF SourceInv

LEMMA ThreadsType ==
    ASSUME TypeOK, NEW p \in Pids, ReportThreads(p)
    PROVE  events' \in Seq(Event)
<1>1. NewTids(p) \in SUBSET Tids
  BY DEF NewTids, TypeOK
<1> QED BY <1>1, ReportType DEF ReportThreads, TypeOK, Kinds

LEMMA ScanListedKeeps == ASSUME SourceInv, ScanListed PROVE SourceInv'
<1>1. TypeOK /\ cursor \in Pids /\ events \in Seq(Event)
  BY DEF SourceInv, TypeOK
<1>2. /\ phase = "scan" /\ full /\ Advance("exits")
      /\ UNCHANGED <<full, seen, cfg, lastTotal, scanAll, incidents, kernel, engine, lost>>
  BY DEF ScanListed
<1>3. events' \in Seq(Event)
  <2>1. CASE Report("fork", cursor, {})
    BY <1>1, <2>1, ReportType DEF Kinds
  <2>2. CASE ReportThreads(cursor)
    BY <1>1, <2>2, ThreadsType
  <2> QED BY <1>1, <2>1, <2>2 DEF ScanListed
<1>4. pending' \in [Pids -> -1..MaxRetries] /\ Cardinality(Pending') <= MaxPending
  <2>1. CASE Enqueue(cursor)
    BY <1>1, <2>1, EnqueueKeepsQueue
  <2>2. CASE UNCHANGED pending
    <3>1. Pending' = Pending
      BY <2>2 DEF Pending
    <3> QED BY <1>1, <2>2, <3>1 DEF TypeOK
  <2> QED BY <2>1, <2>2 DEF ScanListed
<1>5. /\ cursor' \in Pids /\ snapshot' = snapshot /\ phase' \in {"scan", "exits"}
      /\ phase' = "exits" => cursor' = 1
  BY <1>1, <1>2, AdvanceType
<1>6. TypeOK'
  BY <1>1, <1>2, <1>3, <1>4, <1>5 DEF TypeOK, kernel, engine
<1>7. EndedIsGone' /\ ScanInv'
  BY <1>2, <1>5 DEF SourceInv, EndedIsGone, ScanInv, kernel, engine
<1> QED BY <1>6, <1>7 DEF SourceInv

\* The loop over the tracked processes: each is seen, or marked as ended, when
\* the cursor passes it, and stays so.
LEMMA ScanTrackedKeeps == ASSUME SourceInv, ScanTracked PROVE SourceInv'
<1>1. TypeOK /\ cursor \in Pids /\ events \in Seq(Event) /\ seen \subseteq Pids
  BY DEF SourceInv, TypeOK
<1>2. /\ phase = "scan" /\ ~full /\ Advance("exits")
      /\ UNCHANGED <<full, incidents, source, kernel, engine, lost>>
  BY DEF ScanTracked
<1>3. events' \in Seq(Event)
  <2>1. CASE ReportThreads(cursor)
    BY <1>1, <2>1, ThreadsType
  <2> QED BY <1>1, <2>1 DEF ScanTracked
<1>4. /\ seen \subseteq seen' /\ seen' \subseteq Pids
      /\ cursor \in tracked => cursor \in seen' \/ name[cursor] = "none"
  BY <1>1 DEF ScanTracked
<1>5. /\ cursor' \in Pids /\ snapshot' = snapshot
      /\ \/ cursor = MaxPid /\ phase' = "exits" /\ cursor' = 1
         \/ cursor # MaxPid /\ phase' = "scan" /\ cursor' = cursor + 1
  BY <1>1, <1>2, AdvanceType
<1>6. Pending' = Pending
  BY <1>2 DEF Pending, source
<1>7. TypeOK'
  BY <1>1, <1>2, <1>3, <1>4, <1>5, <1>6 DEF TypeOK, kernel, engine, source
<1>8. ASSUME NEW p \in tracked, p <= cursor
      PROVE  p \in seen' \/ p \in gone
  <2>1. CASE p = cursor
    BY <1>4, <1>8, <2>1 DEF SourceInv, EndedIsGone
  <2>2. CASE p < cursor
    BY <1>2, <1>4, <1>8, <2>2 DEF SourceInv, ScanInv
  <2> QED BY <1>1, <1>8, <2>1, <2>2 DEF TypeOK, Pids
<1>9. ScanInv'
  <2>1. CASE phase' = "exits"
    <3>1. \A p \in tracked : p <= cursor
      BY <1>1, <1>5, <2>1, SourceAssumption DEF TypeOK, Pids
    <3>2. tracked \ seen' \subseteq gone
      BY <1>8, <3>1
    <3> QED BY <1>2, <1>5, <2>1, <3>2 DEF ScanInv, engine
  <2>2. CASE phase' = "scan"
    <3>1. \A p \in tracked : p < cursor' => p <= cursor
      BY <1>1, <1>5, <2>2 DEF TypeOK, Pids
    <3> QED BY <1>2, <1>8, <2>2, <3>1 DEF ScanInv, engine
  <2> QED BY <1>5, <2>1, <2>2
<1>10. EndedIsGone'
  BY <1>2 DEF SourceInv, EndedIsGone, kernel, engine
<1> QED BY <1>7, <1>9, <1>10 DEF SourceInv

LEMMA ExitsKeep == ASSUME SourceInv, ReportExits PROVE SourceInv'
<1>1. events' \in Seq(Event)
  <2>1. Exits \in Seq(Event) /\ events \in Seq(Event)
    BY ExitsType DEF SourceInv, TypeOK
  <2> QED BY <2>1 DEF ReportExits
<1>2. /\ phase' = "handle" /\ phase = "exits"
      /\ UNCHANGED <<snapshot, cursor, full, seen, incidents, source, kernel, engine, lost>>
  BY DEF ReportExits
<1>3. Pending' = Pending
  BY <1>2 DEF Pending, source
<1> QED BY <1>1, <1>2, <1>3
        DEF SourceInv, TypeOK, EndedIsGone, ScanInv, source, kernel, engine

(***************************************************************************)
(* The main thread between polls.                                          *)
(***************************************************************************)
LEMMA RescannedKeeps ==
    ASSUME SourceInv, NEW p \in Pids, Rescanned(p) \/ Dropped(p), UNCHANGED name
    PROVE  /\ tracked' \subseteq Pids /\ gone' \subseteq tracked' /\ unscanned' \subseteq gone'
           /\ applied' \in [Pids -> SUBSET Tids] /\ EndedIsGone'
<1> USE DEF SourceInv, TypeOK, EndedIsGone
<1>1. CASE Rescanned(p)
  BY <1>1 DEF Rescanned
<1>2. CASE Dropped(p)
  BY <1>2 DEF Dropped
<1> QED BY <1>1, <1>2

LEMMA HandleKeeps == ASSUME SourceInv, HandleOne PROVE SourceInv'
<1> DEFINE ev == Head(events)
<1>1. /\ phase = "handle" /\ events' = Tail(events)
      /\ UNCHANGED <<incidents, kernel, source, snapshot, phase, cursor, full, seen, lost>>
      /\ \/ Discard(ev) \/ HandleFork(ev) \/ HandleExit(ev)
         \/ HandleClones(ev) \/ HandleCloneAnew(ev) \/ RescanForClones(ev)
  BY DEF HandleOne
<1>2. events' \in Seq(Event) /\ ev \in Event
  BY DEF HandleOne, SourceInv, TypeOK
<1>3. ev.pid \in Pids /\ ev.tids \subseteq Tids
  BY <1>2 DEF Event
<1>4. Pending' = Pending /\ UNCHANGED name
  BY <1>1 DEF Pending, source, kernel
<1> HIDE DEF ev
<1>5. /\ tracked' \subseteq Pids /\ gone' \subseteq tracked' /\ unscanned' \subseteq gone'
      /\ applied' \in [Pids -> SUBSET Tids] /\ EndedIsGone'
  <2>1. CASE Rescanned(ev.pid) \/ Dropped(ev.pid)
    BY <1>3, <1>4, <2>1, RescannedKeeps
  <2>2. CASE HandleClones(ev)
    <3>1. PICK S \in SUBSET ev.tids : applied' = [applied EXCEPT ![ev.pid] = @ \cup S]
      BY <2>2 DEF HandleClones
    <3> QED BY <1>3, <1>4, <2>2, <3>1 DEF HandleClones, SourceInv, TypeOK, EndedIsGone
  <2>3. CASE HandleCloneAnew(ev)
    <3>1. PICK S \in SUBSET ev.tids : applied' = [applied EXCEPT ![ev.pid] = S]
      BY <2>3 DEF HandleCloneAnew
    <3> QED BY <1>3, <1>4, <2>3, <3>1 DEF HandleCloneAnew, SourceInv, TypeOK, EndedIsGone
  <2> QED BY <1>1, <2>1, <2>2, <2>3 DEF Discard, HandleFork, HandleExit, RescanForClones
<1>6. TypeOK'
  BY <1>1, <1>2, <1>4, <1>5 DEF SourceInv, TypeOK, kernel, source
<1>7. ScanInv'
  BY <1>1 DEF SourceInv, ScanInv
<1> QED BY <1>5, <1>6, <1>7 DEF SourceInv

\* What is left of the tracker between two polls lives.
LEMMA RetainedKeeps ==
    ASSUME SourceInv, UNCHANGED kernel,
           NEW S \in SUBSET (tracked \cap AliveNow), NEW R \in SUBSET S, Retained(S, R)
    PROVE  /\ tracked' \subseteq Pids /\ gone' \subseteq tracked' /\ unscanned' \subseteq gone'
           /\ applied' \in [Pids -> SUBSET Tids] /\ EndedIsGone'
BY DEF Retained, AliveNow, SourceInv, TypeOK, EndedIsGone, kernel

LEMMA LoopKeeps ==
    ASSUME SourceInv,
           \/ BatchDone \/ CleanupDead \/ Relock
           \/ \E interest \in Interests : ConfigChanged(interest)
    PROVE  SourceInv'
<1> USE DEF SourceInv
<1>1. pending' = pending /\ UNCHANGED kernel
  BY DEF BatchDone, ConfigChanged, CleanupDead, Relock, source
<1>2. Pending' = Pending
  BY <1>1 DEF Pending
<1>3. CASE BatchDone
  <2>1. snapshot' \in BOOLEAN
    BY <1>3, SourceAssumption DEF BatchDone
  <2>2. TypeOK'
    BY <1>2, <1>3, <2>1 DEF BatchDone, TypeOK, kernel, source, engine
  <2> QED BY <1>3, <2>2 DEF BatchDone, EndedIsGone, ScanInv, kernel, engine
<1>4. CASE \/ CleanupDead \/ Relock
           \/ \E interest \in Interests : ConfigChanged(interest)
  <2>1. \E S \in SUBSET (tracked \cap AliveNow) : \E R \in SUBSET S : Retained(S, R)
    BY <1>4 DEF CleanupDead, Relock, ConfigChanged, RelockAll
  <2>2. /\ tracked' \subseteq Pids /\ gone' \subseteq tracked' /\ unscanned' \subseteq gone'
        /\ applied' \in [Pids -> SUBSET Tids] /\ EndedIsGone'
    BY <1>1, <2>1, RetainedKeeps
  <2>3. /\ UNCHANGED poll /\ BetweenPolls
        /\ lost' \in BOOLEAN /\ incidents' \in 0..MaxIncidents
        /\ cfg' \in BOOLEAN /\ lastTotal' \in -1..MaxPid /\ scanAll' \in BOOLEAN
    <3>1. CASE CleanupDead \/ Relock
      BY <3>1 DEF CleanupDead, Relock, TypeOK, source
    <3>2. CASE \E interest \in Interests : ConfigChanged(interest)
      <4>1. cfg' \in BOOLEAN
        BY <3>2, SourceAssumption DEF ConfigChanged
      <4>2. incidents' \in 0..MaxIncidents /\ lastTotal' \in -1..MaxPid
        BY <3>2, SourceAssumption DEF ConfigChanged, Incident, TypeOK
      <4> QED BY <3>2, <4>1, <4>2 DEF ConfigChanged
    <3> QED BY <1>4, <3>1, <3>2
  <2>4. TypeOK'
    BY <1>1, <1>2, <2>2, <2>3 DEF TypeOK, kernel, poll
  <2> QED BY <2>2, <2>3, <2>4 DEF ScanInv, BetweenPolls, poll
<1> QED BY <1>3, <1>4

-----------------------------------------------------------------------------
(***************************************************************************)
(* The inductive invariant of a poll, whatever processes do during it.     *)
(***************************************************************************)
THEOREM SourceInvariant == Spec => []SourceInv
<1>1. SourceInv /\ [Next]_vars => SourceInv'
  <2> SUFFICES ASSUME SourceInv, [Next]_vars PROVE SourceInv'
    OBVIOUS
  <2>1. CASE UNCHANGED vars
    <3>1. Pending' = Pending
      BY <2>1 DEF vars, Pending
    <3> QED BY <2>1, <3>1 DEF vars, SourceInv, TypeOK, EndedIsGone, ScanInv
  <2>2. CASE PollStep
    BY <2>2, FlushKeeps, CountKeeps, ListKeeps, ScanListedKeeps, ScanTrackedKeeps,
       ExitsKeep, HandleKeeps, LoopKeeps DEF PollStep
  <2> QED BY <2>1, <2>2, KernelKeeps, LoopKeeps DEF Next
<1> QED BY <1>1, InitEstablishes, PTL DEF Spec

(***************************************************************************)
(* Type correctness: the queue of unnamed processes keeps to its limit,    *)
(* a batch holds well-formed events, what has ended is still tracked.      *)
(***************************************************************************)
THEOREM SourceTypes == Spec => []TypeOK
<1>1. SourceInv => TypeOK
  BY DEF SourceInv
<1> QED BY <1>1, SourceInvariant, PTL

(***************************************************************************)
(* Neither scan reports a live process as ended (collect, exit detection), *)
(* however many start, end, or lose their name while it runs.              *)
(***************************************************************************)
THEOREM ExitsAreReal == Spec => []ExitIsReal
<1>1. SourceInv => ExitIsReal
  BY DEF SourceInv, ScanInv, ExitIsReal
<1> QED BY <1>1, SourceInvariant, PTL

=============================================================================
