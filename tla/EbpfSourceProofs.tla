-------------------------- MODULE EbpfSourceProofs --------------------------
(* Theorems about the eBPF source, for any number of tasks and any bounds  *)
(* of the queue and of the retries.                                        *)
EXTENDS EbpfSource, FiniteSetTheorems, SequenceTheorems, TLAPS

-----------------------------------------------------------------------------
(* The inductive invariant.                                                *)

Holds(s, ev) == \E i \in DOMAIN s : s[i] = ev

ExitOf(p) == [kind |-> "exit", pid |-> p, tid |-> p]
Starts(ev, p) == ev.kind \in {"fork", "exec"} /\ ev.tid = p

(***************************************************************************)
(* In a list of events, a start of p comes after every exit of p, or there *)
(* is no exit of p at all.                                                 *)
(***************************************************************************)
Started(s, p) ==
    \E i \in DOMAIN s : Starts(s[i], p) /\ \A j \in DOMAIN s : s[j] = ExitOf(p) => j < i
NoExit(s, p) == \A j \in DOMAIN s : s[j] # ExitOf(p)

(***************************************************************************)
(* Forks and execs are about processes as far as the tracker is concerned; *)
(* until the first poll's batch is handled nothing is tracked, so that no  *)
(* exit gets into it, and what the first scan reports is in the batch.     *)
(***************************************************************************)
BatchInv ==
    /\ \A i \in DOMAIN events : events[i].kind \in {"fork", "exec"} => events[i].pid = events[i].tid
    /\ \A i \in DOMAIN queue : queue[i].kind \in {"fork", "exec"} => queue[i].pid = queue[i].tid
    /\ scanned # {} \/ ~scanDone =>
          tracked = {} /\ \A i \in DOMAIN events : events[i].kind # "exit"
    /\ phase \in {"rekey", "top"} => scanned = {} /\ events = <<>>
    /\ phase = "handle" => scanned = {} /\ scanDone
    /\ phase = "scan" <=> ~scanDone /\ phase \notin {"rekey", "top"}
    /\ \A p \in scanned : Started(events, p)
    /\ reading # NotReading => phase = "flush" /\ reading.tid \in Tasks
    /\ phase = "flush" => todo \subseteq Pending

(***************************************************************************)
(* A process that is heard and may be interesting will be tracked once all *)
(* that is on its way has been handled in order.                           *)
(***************************************************************************)
WillBeTracked(p) ==
    \/ Started(queue, p)
    \/ /\ NoExit(queue, p)
       /\ \/ p \in Pending \/ reading.tid = p
          \/ Started(events, p)
          \/ NoExit(events, p) /\ p \in tracked

HeardInv ==
    \A p \in heard : IsProcess(p) /\ name[p] # "other" => WillBeTracked(p)

(***************************************************************************)
(* The exit of a process that has ended is in the queue or in the batch.   *)
(***************************************************************************)
ExitComes(p) == Holds(queue, ExitOf(p)) \/ Holds(events, ExitOf(p))

EndedInv == \A p \in ended : ExitComes(p)

(***************************************************************************)
(* The kernel: threads belong to a process, only live tasks are heard; and *)
(* the tracker keeps no threads of a process it does not hold.             *)
(***************************************************************************)
TaskInv ==
    /\ \A t \in Tasks : group[t] # NoTask => IsProcess(group[t])
    /\ \A t \in heard : group[t] # NoTask
    /\ \A p \in Tasks \ tracked : applied[p] = {}

(***************************************************************************)
(* Thread t of process g will get its policy: its clone is on its way, and *)
(* if the tracker still has an earlier thread with this tid as applied,    *)
(* the exit of that one is handled before the clone.                       *)
(***************************************************************************)
Precedes(s, ev, next) == \E i \in DOMAIN s : s[i] = next /\ \E j \in 1..(i - 1) : s[j] = ev
Due(s, ev, next, needed) == IF needed THEN Precedes(s, ev, next) ELSE Holds(s, next)

ThreadExit(g, t) == [kind |-> "exit", pid |-> g, tid |-> t]
ForkOf(t) == [kind |-> "fork", pid |-> t, tid |-> t]
CloneOf(g, t) == [kind |-> "clone", pid |-> g, tid |-> t]

WillBePlaced(g, t) ==
    LET stale == t \in applied[g]
        exits == Holds(events, ThreadExit(g, t))
    IN  \/ t \in placed
        \/ Due(queue, ThreadExit(g, t), ForkOf(t), stale /\ ~exits)
        \/ (t \in Pending \/ reading.tid = t) /\ (stale => exits)
        \/ Due(events, ThreadExit(g, t), CloneOf(g, t), stale)

ThreadInv ==
    \A t \in heard : \A g \in Tasks \ {t} : group[t] = g => WillBePlaced(g, t)

SourceInv == TypeOK /\ TaskInv /\ BatchInv /\ HeardInv /\ EndedInv /\ ThreadInv
-----------------------------------------------------------------------------
(* Lists of events: what is appended, what the head leaves.                *)

LEMMA RawIsEvent == Raw \subseteq Event /\ Seq(Raw) \subseteq Seq(Event)
<1>1. Raw \subseteq Event
  BY DEF Raw, Event
<1>2. \A s \in Seq(Raw) : s \in Seq(Event)
  BY <1>1
<1> QED BY <1>1, <1>2

LEMMA AppendStarted ==
    ASSUME NEW s \in Seq(Event), NEW ev \in Event, NEW p
    PROVE  /\ Starts(ev, p) => Started(Append(s, ev), p)
           /\ ev # ExitOf(p) /\ Started(s, p) => Started(Append(s, ev), p)
           /\ ev # ExitOf(p) /\ NoExit(s, p) => NoExit(Append(s, ev), p)
<1> DEFINE r == Append(s, ev)
<1>1. /\ r \in Seq(Event) /\ Len(r) = Len(s) + 1 /\ r[Len(r)] = ev
      /\ \A i \in 1..Len(s) : r[i] = s[i]
      /\ DOMAIN r = 1..Len(r) /\ DOMAIN s = 1..Len(s) /\ Len(s) \in Nat
  OBVIOUS
<1> HIDE DEF r
<1>2. ASSUME Starts(ev, p) PROVE Started(r, p)
  <2>1. ExitOf(p) # ev
    BY <1>2 DEF Starts, ExitOf
  <2>2. ASSUME NEW j \in DOMAIN r, r[j] = ExitOf(p) PROVE j < Len(r)
    BY <1>1, <2>1, <2>2
  <2>3. Len(r) \in DOMAIN r
    BY <1>1
  <2> QED BY <1>1, <1>2, <2>2, <2>3 DEF Started
<1>3. ASSUME ev # ExitOf(p), Started(s, p) PROVE Started(r, p)
  <2>1. PICK i \in DOMAIN s : Starts(s[i], p) /\ \A j \in DOMAIN s : s[j] = ExitOf(p) => j < i
    BY <1>3 DEF Started
  <2>2. ASSUME NEW j \in DOMAIN r, r[j] = ExitOf(p) PROVE j < i
    BY <1>1, <1>3, <2>1, <2>2
  <2>3. i \in DOMAIN r /\ r[i] = s[i]
    BY <1>1
  <2> QED BY <2>1, <2>2, <2>3 DEF Started
<1>4. ASSUME ev # ExitOf(p), NoExit(s, p) PROVE NoExit(r, p)
  BY <1>1, <1>4 DEF NoExit
<1> QED BY <1>2, <1>3, <1>4 DEF r

LEMMA TailStarted ==
    ASSUME NEW s \in Seq(Event), s # <<>>, NEW p
    PROVE  /\ Started(s, p) => \/ Started(Tail(s), p)
                               \/ Starts(Head(s), p) /\ NoExit(Tail(s), p)
           /\ NoExit(s, p) => NoExit(Tail(s), p) /\ Head(s) # ExitOf(p)
<1> DEFINE r == Tail(s)
<1>1. /\ Len(s) \in Nat \ {0} /\ Len(r) = Len(s) - 1 /\ Head(s) = s[1]
      /\ \A i \in 1..Len(r) : r[i] = s[i + 1]
      /\ DOMAIN r = 1..Len(r) /\ DOMAIN s = 1..Len(s)
  OBVIOUS
<1> HIDE DEF r
<1>2. \A i \in DOMAIN r : i + 1 \in DOMAIN s /\ r[i] = s[i + 1]
  BY <1>1
<1>3. ASSUME Started(s, p)
      PROVE  Started(r, p) \/ (Starts(Head(s), p) /\ NoExit(r, p))
  <2>1. PICK i \in DOMAIN s : Starts(s[i], p) /\ \A j \in DOMAIN s : s[j] = ExitOf(p) => j < i
    BY <1>3 DEF Started
  <2>2. CASE i = 1
    <3>1. \A j \in DOMAIN r : r[j] # ExitOf(p)
      BY <1>1, <1>2, <2>1, <2>2
    <3> QED BY <1>1, <2>1, <2>2, <3>1 DEF NoExit
  <2>3. CASE i # 1
    <3>1. i - 1 \in DOMAIN r /\ r[i - 1] = s[i]
      BY <1>1, <2>3
    <3>2. \A j \in DOMAIN r : r[j] = ExitOf(p) => j < i - 1
      BY <1>1, <1>2, <2>1
    <3> QED BY <2>1, <3>1, <3>2 DEF Started
  <2> QED BY <2>2, <2>3
<1>4. ASSUME NoExit(s, p) PROVE NoExit(r, p) /\ Head(s) # ExitOf(p)
  BY <1>1, <1>2, <1>4 DEF NoExit
<1> QED BY <1>3, <1>4 DEF r

LEMMA AppendHolds ==
    ASSUME NEW s \in Seq(Event), NEW ev \in Event, NEW e, NEW next
    PROVE  /\ Holds(s, e) => Holds(Append(s, ev), e)
           /\ Holds(s, next) => Holds(Append(s, ev), next)
           /\ Holds(Append(s, ev), ev)
           /\ Precedes(s, e, next) => Precedes(Append(s, ev), e, next)
           /\ Holds(s, e) => Precedes(Append(s, ev), e, ev)
<1> DEFINE r == Append(s, ev)
<1>1. /\ Len(r) = Len(s) + 1 /\ r[Len(r)] = ev
      /\ \A i \in 1..Len(s) : r[i] = s[i]
      /\ DOMAIN r = 1..Len(r) /\ DOMAIN s = 1..Len(s) /\ Len(s) \in Nat
  OBVIOUS
<1> HIDE DEF r
<1>2. /\ \A i \in DOMAIN s : i \in DOMAIN r /\ r[i] = s[i] /\ i \in 1..(Len(r) - 1)
      /\ Len(r) \in DOMAIN r
  BY <1>1
<1>3. ASSUME NEW x, Holds(s, x) PROVE Holds(r, x)
  BY <1>2, <1>3 DEF Holds
<1>4. Holds(r, ev)
  BY <1>1, <1>2 DEF Holds
<1>5. ASSUME Precedes(s, e, next) PROVE Precedes(r, e, next)
  <2>1. PICK i \in DOMAIN s : s[i] = next /\ \E j \in 1..(i - 1) : s[j] = e
    BY <1>5 DEF Precedes
  <2>2. PICK j \in 1..(i - 1) : s[j] = e
    BY <2>1
  <2>3. j \in DOMAIN s
    BY <1>1, <2>2
  <2> QED BY <1>2, <2>1, <2>2, <2>3 DEF Precedes
<1>6. ASSUME Holds(s, e) PROVE Precedes(r, e, ev)
  BY <1>1, <1>2, <1>6 DEF Holds, Precedes
<1> QED BY <1>3, <1>4, <1>5, <1>6 DEF r

LEMMA TailHolds ==
    ASSUME NEW s \in Seq(Event), s # <<>>, NEW e, NEW next
    PROVE  /\ Holds(s, e) => Holds(Tail(s), e) \/ Head(s) = e
           /\ Holds(s, next) => Holds(Tail(s), next) \/ Head(s) = next
           /\ Precedes(s, e, next) =>
                 Precedes(Tail(s), e, next) \/ (Head(s) = e /\ Holds(Tail(s), next))
<1> DEFINE r == Tail(s)
<1>1. /\ Len(s) \in Nat \ {0} /\ Len(r) = Len(s) - 1 /\ Head(s) = s[1]
      /\ \A i \in 1..Len(r) : r[i] = s[i + 1]
      /\ DOMAIN r = 1..Len(r) /\ DOMAIN s = 1..Len(s)
  OBVIOUS
<1> HIDE DEF r
<1>2. \A i \in DOMAIN s : i = 1 \/ (i - 1 \in DOMAIN r /\ r[i - 1] = s[i])
  BY <1>1
<1>3. ASSUME NEW x, Holds(s, x) PROVE Holds(r, x) \/ Head(s) = x
  BY <1>1, <1>2, <1>3 DEF Holds
<1>4. ASSUME Precedes(s, e, next)
      PROVE  Precedes(r, e, next) \/ (Head(s) = e /\ Holds(r, next))
  <2>1. PICK i \in DOMAIN s : s[i] = next /\ \E j \in 1..(i - 1) : s[j] = e
    BY <1>4 DEF Precedes
  <2>2. PICK j \in 1..(i - 1) : s[j] = e
    BY <2>1
  <2>3. i - 1 \in DOMAIN r /\ r[i - 1] = next /\ j \in DOMAIN s
    BY <1>1, <1>2, <2>1, <2>2
  <2>4. CASE j = 1
    BY <1>1, <2>2, <2>3, <2>4 DEF Holds
  <2>5. CASE j # 1
    <3>1. r[j - 1] = e /\ j - 1 \in 1..(i - 1 - 1)
      BY <1>1, <1>2, <2>2, <2>3, <2>5
    <3> QED BY <2>3, <3>1 DEF Precedes
  <2> QED BY <2>4, <2>5
<1> QED BY <1>3, <1>4 DEF r

-----------------------------------------------------------------------------
(* The kernel. Its steps put at most one event into the queue.             *)

LEMMA QueueGrows ==
    ASSUME SourceInv, NEW ev \in Raw, queue' = queue \/ queue' = Append(queue, ev),
           UNCHANGED <<pending, reading, events, tracked, applied>>
    PROVE  /\ queue' \in Seq(Raw)
           /\ \A q : ev # ExitOf(q) /\ WillBeTracked(q) => WillBeTracked(q)'
           /\ \A p : ExitComes(p) => ExitComes(p)'
           /\ \A g, t : (t \in placed => t \in placed') /\ WillBePlaced(g, t)
                           => WillBePlaced(g, t)'
<1>1. queue \in Seq(Raw) /\ queue \in Seq(Event) /\ ev \in Event
  BY RawIsEvent DEF SourceInv, TypeOK
<1>2. queue' \in Seq(Raw) /\ Pending' = Pending
  BY <1>1 DEF Pending
<1>3. ASSUME NEW q, ev # ExitOf(q), WillBeTracked(q) PROVE WillBeTracked(q)'
  <2>1. Started(queue, q) => Started(queue', q)
    BY <1>1, <1>3, AppendStarted
  <2>2. NoExit(queue, q) => NoExit(queue', q)
    BY <1>1, <1>3, AppendStarted
  <2> QED BY <1>2, <1>3, <2>1, <2>2 DEF WillBeTracked
<1>4. ASSUME NEW p, ExitComes(p) PROVE ExitComes(p)'
  <2>1. Holds(queue, ExitOf(p)) => Holds(queue', ExitOf(p))
    BY <1>1, AppendHolds
  <2> QED BY <1>4, <2>1 DEF ExitComes, ExitOf
<1>5. ASSUME NEW g, NEW t, t \in placed => t \in placed', WillBePlaced(g, t)
      PROVE  WillBePlaced(g, t)'
  <2> DEFINE e == ThreadExit(g, t)
  <2>1. Holds(queue, ForkOf(t)) => Holds(queue', ForkOf(t))
    BY <1>1, AppendHolds
  <2>2. Precedes(queue, e, ForkOf(t)) => Precedes(queue', e, ForkOf(t))
    <3> HIDE DEF e
    <3>1. Precedes(queue, e, ForkOf(t)) => Precedes(Append(queue, ev), e, ForkOf(t))
      BY <1>1, AppendHolds
    <3> QED BY <3>1
  <2> QED BY <1>2, <1>5, <2>1, <2>2 DEF WillBePlaced, Due, ThreadExit, ForkOf, CloneOf
<1> QED BY <1>2, <1>3, <1>4, <1>5

LEMMA AnnounceAppends ==
    ASSUME SourceInv, NEW kind \in {"fork", "exec", "exit"}, NEW p \in Tasks, NEW t \in Tasks,
           Announced(kind, p, t) \/ UNCHANGED queue
    PROVE  LET ev == [kind |-> kind, pid |-> p, tid |-> t]
           IN  /\ ev \in Raw
               /\ queue' # queue => queue' = Append(queue, ev) /\ Holds(queue', ev)
               /\ queue' = queue \/ queue' = Append(queue, ev)
<1> DEFINE ev == [kind |-> kind, pid |-> p, tid |-> t]
<1>1. ev \in Raw /\ ev \in Event /\ queue \in Seq(Event)
  BY RawIsEvent DEF Raw, Event, SourceInv, TypeOK
<1>2. Holds(Append(queue, ev), ev)
  <2> HIDE DEF ev
  <2> QED BY <1>1, AppendHolds
<1> QED BY <1>1, <1>2 DEF Announced

\* What the invariant says of the batch and the queue, where only the queue grows.
LEMMA KernelBatch ==
    ASSUME SourceInv, NEW ev \in Raw, queue' = queue \/ queue' = Append(queue, ev),
           ev.kind \in {"fork", "exec"} => ev.pid = ev.tid,
           UNCHANGED <<events, tracked, scanned, scanDone, phase, pending, reading, todo>>
    PROVE  BatchInv'
<1>1. queue \in Seq(Raw)
  BY DEF SourceInv, TypeOK
<1>2. \A i \in DOMAIN queue' : queue'[i].kind \in {"fork", "exec"} => queue'[i].pid = queue'[i].tid
  BY <1>1 DEF SourceInv, BatchInv
<1>3. Pending' = Pending
  BY DEF Pending
<1> QED BY <1>2, <1>3 DEF SourceInv, BatchInv, Started

\* The variables no process or thread touches, and the types of those it does.
LEMMA KernelTypes ==
    ASSUME SourceInv, UNCHANGED <<maps, source, poll, tracker>>, queue' \in Seq(Raw),
           group' \in [Tasks -> 0..MaxTask], name' \in [Tasks -> Names],
           incidents' \in 0..MaxIncidents,
           heard' \subseteq Tasks, ended' \subseteq tracked, placed' \subseteq Tasks
    PROVE  TypeOK'
<1>1. Pending' = Pending
  BY DEF Pending, source
<1> QED BY <1>1 DEF SourceInv, TypeOK, maps, source, poll, tracker

(***************************************************************************)
(* What a step of the kernel must do to keep the invariant: a process that *)
(* becomes heard is announced last, one that stays heard is not announced  *)
(* as ended, what is ended has been announced.                             *)
(***************************************************************************)
LEMMA KernelKeeps ==
    ASSUME SourceInv, NEW ev \in Raw, queue' = queue \/ queue' = Append(queue, ev),
           ev.kind \in {"fork", "exec"} => ev.pid = ev.tid,
           UNCHANGED <<maps, source, poll, tracker>>,
           group' \in [Tasks -> 0..MaxTask], name' \in [Tasks -> Names],
           incidents' \in 0..MaxIncidents,
           heard' \subseteq Tasks, ended' \subseteq tracked, placed' \subseteq placed,
           \A t \in Tasks : group'[t] # NoTask => group'[group'[t]] = group'[t],
           \A t \in heard' : group'[t] # NoTask,
           \A q \in heard' : group'[q] = q /\ name'[q] # "other" =>
               \/ queue' = Append(queue, ev) /\ Starts(ev, q)
               \/ /\ q \in heard /\ group[q] = q /\ name[q] # "other"
                  /\ ev # ExitOf(q),
           \A p \in ended' : p \in ended \/ Holds(queue', ExitOf(p)),
           \A t \in heard' : \A g \in Tasks \ {t} : group'[t] = g =>
               \/ t \in heard /\ group[t] = g /\ (t \in placed => t \in placed')
               \/ WillBePlaced(g, t)'
    PROVE  SourceInv'
<1>1. UNCHANGED <<pending, reading, events, tracked, applied, scanned, scanDone, phase, todo>>
  BY DEF source, poll, tracker
<1>2. TypeOK'
  <2>1. queue' \in Seq(Raw)
    BY <1>1, QueueGrows
  <2>2. placed' \subseteq Tasks
    BY DEF SourceInv, TypeOK
  <2> QED BY <2>1, <2>2, KernelTypes
<1>3. TaskInv'
  BY <1>1 DEF SourceInv, TaskInv, IsProcess
<1>4. BatchInv'
  BY <1>1, KernelBatch
<1>5. HeardInv'
  <2> SUFFICES ASSUME NEW q \in heard', group'[q] = q, name'[q] # "other"
               PROVE  WillBeTracked(q)'
    BY DEF HeardInv, IsProcess
  <2>1. CASE queue' = Append(queue, ev) /\ Starts(ev, q)
    <3>1. queue \in Seq(Event) /\ ev \in Event
      BY RawIsEvent DEF SourceInv, TypeOK
    <3>2. Started(queue', q)
      BY <2>1, <3>1, AppendStarted
    <3> QED BY <3>2 DEF WillBeTracked
  <2>2. CASE q \in heard /\ group[q] = q /\ name[q] # "other" /\ ev # ExitOf(q)
    <3>1. WillBeTracked(q)
      BY <2>2 DEF SourceInv, HeardInv, IsProcess
    <3> QED BY <1>1, <2>2, <3>1, QueueGrows
  <2> QED BY <2>1, <2>2
<1>6. EndedInv'
  <2> SUFFICES ASSUME NEW p \in ended' PROVE ExitComes(p)'
    BY DEF EndedInv
  <2>1. CASE p \in ended
    BY <1>1, <2>1, QueueGrows DEF SourceInv, EndedInv
  <2>2. CASE Holds(queue', ExitOf(p))
    BY <2>2 DEF ExitComes, ExitOf
  <2> QED BY <2>1, <2>2
<1>7. ThreadInv'
  <2> SUFFICES ASSUME NEW t \in heard', NEW g \in Tasks \ {t}, group'[t] = g
               PROVE  WillBePlaced(g, t)'
    BY DEF ThreadInv
  <2>1. CASE t \in heard /\ group[t] = g /\ (t \in placed => t \in placed')
    <3>1. WillBePlaced(g, t)
      BY <2>1 DEF SourceInv, ThreadInv
    <3> QED BY <1>1, <2>1, <3>1, QueueGrows
  <2> QED BY <2>1
<1> QED BY <1>2, <1>3, <1>4, <1>5, <1>6, <1>7 DEF SourceInv

\* What the steps of the kernel need of the invariant.
LEMMA KernelFacts ==
    ASSUME SourceInv
    PROVE  /\ group \in [Tasks -> 0..MaxTask] /\ name \in [Tasks -> Names]
           /\ heard \subseteq Tasks /\ ended \subseteq tracked
           /\ incidents \in 0..MaxIncidents
           /\ Incident => incidents' \in 0..MaxIncidents
           /\ \A t \in Tasks : group[t] # NoTask => group[t] \in Tasks /\ group[group[t]] = group[t]
           /\ \A t \in heard : group[t] # NoTask
<1>1. /\ group \in [Tasks -> 0..MaxTask] /\ name \in [Tasks -> Names]
      /\ heard \subseteq Tasks /\ ended \subseteq tracked
      /\ incidents \in 0..MaxIncidents
      /\ \A t \in Tasks : group[t] # NoTask => group[group[t]] = group[t]
      /\ \A t \in heard : group[t] # NoTask
  BY DEF SourceInv, TypeOK, TaskInv, IsProcess
<1>2. Incident => incidents' \in 0..MaxIncidents
  BY <1>1, SourceAssumption DEF Incident
<1>3. \A t \in Tasks : group[t] # NoTask => group[t] \in Tasks
  BY <1>1, SourceAssumption DEF Tasks, NoTask
<1> QED BY <1>1, <1>2, <1>3

LEMMA BirthKeeps == ASSUME SourceInv, NEW p \in Tasks, Birth(p) PROVE SourceInv'
<1> DEFINE ev == [kind |-> "fork", pid |-> p, tid |-> p]
<1>1. /\ ev \in Raw /\ (queue' = queue \/ queue' = Append(queue, ev))
      /\ queue' # queue => queue' = Append(queue, ev)
  BY AnnounceAppends DEF Birth, Announce
<1>2. /\ group[p] = NoTask /\ group' = [group EXCEPT ![p] = p] /\ Incident
      /\ name' = [name EXCEPT ![p] = "empty"]
      /\ heard' = IF queue' # queue THEN heard \cup {p} ELSE heard
      /\ ended' = ended \ {p} /\ placed' = placed
      /\ UNCHANGED <<maps, source, poll, tracker>>
  BY DEF Birth
<1>3. ev.kind = "fork" /\ ev.pid = p /\ ev.tid = p /\ Starts(ev, p) /\ \A q : ev # ExitOf(q)
  BY DEF Starts, ExitOf
<1> HIDE DEF ev
<1>4. p \notin heard /\ \A q \in heard' : q = p \/ q \in heard
  BY <1>2, KernelFacts
<1>5. /\ group' \in [Tasks -> 0..MaxTask] /\ name' \in [Tasks -> Names]
      /\ incidents' \in 0..MaxIncidents /\ heard' \subseteq Tasks
      /\ ended' \subseteq tracked /\ placed' \subseteq placed
  BY <1>2, KernelFacts DEF Tasks, Names
<1>6. \A t \in Tasks : group'[t] # NoTask => group'[group'[t]] = group'[t]
  BY <1>2, KernelFacts DEF NoTask, Tasks
<1>7. \A t \in heard' : group'[t] # NoTask
  BY <1>2, KernelFacts DEF NoTask, Tasks
<1>8. \A q \in heard' : group'[q] = q /\ name'[q] # "other" =>
         \/ queue' = Append(queue, ev) /\ Starts(ev, q)
         \/ q \in heard /\ group[q] = q /\ name[q] # "other" /\ ev # ExitOf(q)
  BY <1>1, <1>2, <1>3, <1>4, KernelFacts
<1>9. \A t \in heard' : \A g \in Tasks \ {t} : group'[t] = g =>
         t \in heard /\ group[t] = g /\ (t \in placed => t \in placed')
  BY <1>2, <1>4, KernelFacts
<1> QED BY <1>1, <1>2, <1>3, <1>5, <1>6, <1>7, <1>8, <1>9, KernelKeeps

LEMMA NamedKeeps ==
    ASSUME SourceInv, NEW p \in Tasks, NEW n \in {"app", "other"}, Named(p, n)
    PROVE  SourceInv'
<1> DEFINE ev == [kind |-> "fork", pid |-> p, tid |-> p]
<1>1. /\ ev \in Raw /\ ev.kind = "fork" /\ ev.pid = ev.tid /\ \A q : ev # ExitOf(q)
  BY DEF Raw, ExitOf
<1> HIDE DEF ev
<1>2. /\ group[p] = p /\ name[p] = "empty" /\ name' = [name EXCEPT ![p] = n]
      /\ UNCHANGED <<group, incidents, maps, queue, source, poll, tracker, heard, ended, placed>>
  BY DEF Named, IsProcess
<1>3. name' \in [Tasks -> Names]
  BY <1>2, KernelFacts DEF Names
<1>4. \A q \in heard' : group'[q] = q /\ name'[q] # "other" =>
         q \in heard /\ group[q] = q /\ name[q] # "other" /\ ev # ExitOf(q)
  BY <1>1, <1>2, KernelFacts
<1> QED BY <1>1, <1>2, <1>3, <1>4, KernelFacts, KernelKeeps

LEMMA NewThreadKeeps ==
    ASSUME SourceInv, NEW p \in Tasks, NEW t \in Tasks, NewThread(p, t)
    PROVE  SourceInv'
<1> DEFINE ev == ForkOf(t)
<1>1. /\ ev \in Raw /\ (queue' = queue \/ queue' = Append(queue, ev))
      /\ queue' # queue => queue' = Append(queue, ev)
  BY AnnounceAppends DEF NewThread, Announce, ForkOf
<1>2. /\ group[p] = p /\ group[t] = NoTask /\ group' = [group EXCEPT ![t] = p] /\ Incident
      /\ heard' = IF queue' # queue /\ ExitToCome(p, t) THEN heard \cup {t} ELSE heard
      /\ ended' = ended \ {t}
      /\ UNCHANGED <<name, maps, source, poll, tracker, placed>>
  BY DEF NewThread, IsProcess
<1>3. ev.kind = "fork" /\ ev.pid = ev.tid /\ \A q : ev # ExitOf(q)
  BY DEF ForkOf, ExitOf
<1>4. t # p /\ t \notin heard /\ \A q \in heard' : q = t \/ q \in heard
  BY <1>2, KernelFacts DEF NoTask, Tasks
<1>5. /\ group' \in [Tasks -> 0..MaxTask] /\ name' \in [Tasks -> Names]
      /\ incidents' \in 0..MaxIncidents /\ heard' \subseteq Tasks
      /\ ended' \subseteq tracked /\ placed' \subseteq placed
  BY <1>2, KernelFacts DEF Tasks
<1>6. \A q \in Tasks : group'[q] # NoTask => group'[group'[q]] = group'[q]
  BY <1>2, <1>4, KernelFacts DEF NoTask, Tasks
<1>7. \A q \in heard' : group'[q] # NoTask
  BY <1>2, KernelFacts DEF NoTask, Tasks
<1>8. \A q \in heard' : group'[q] = q /\ name'[q] # "other" =>
         q \in heard /\ group[q] = q /\ name[q] # "other" /\ ev # ExitOf(q)
  BY <1>2, <1>3, <1>4, KernelFacts
<1>9. t \in heard' => WillBePlaced(p, t)'
  <2> SUFFICES ASSUME t \in heard' PROVE WillBePlaced(p, t)'
    OBVIOUS
  <2> DEFINE e == ThreadExit(p, t)
  <2>1. queue' = Append(queue, ev) /\ ExitToCome(p, t)
    BY <1>1, <1>2, <1>4
  <2>2. t \in applied[p] => Holds(queue, e) \/ Holds(events, e)
    BY <2>1 DEF ExitToCome, Holds, ThreadExit
  <2>3. Holds(queue', ev) /\ (Holds(queue, e) => Precedes(queue', e, ev))
    <3>1. queue \in Seq(Event) /\ ev \in Event
      BY <1>1, RawIsEvent DEF SourceInv, TypeOK
    <3> HIDE DEF e, ev
    <3> QED BY <2>1, <3>1, AppendHolds
  <2>4. applied' = applied /\ events' = events
    BY <1>2 DEF tracker, poll
  <2> QED BY <2>2, <2>3, <2>4 DEF WillBePlaced, Due, ForkOf, ThreadExit
<1>10. \A q \in heard' : \A g \in Tasks \ {q} : group'[q] = g =>
         \/ q \in heard /\ group[q] = g /\ (q \in placed => q \in placed')
         \/ WillBePlaced(g, q)'
  <2> SUFFICES ASSUME NEW q \in heard', NEW g \in Tasks \ {q}, group'[q] = g
               PROVE  \/ q \in heard /\ group[q] = g /\ (q \in placed => q \in placed')
                      \/ WillBePlaced(g, q)'
    OBVIOUS
  <2>1. CASE q = t
    <3>1. g = p
      BY <1>2, <2>1, KernelFacts
    <3> QED BY <1>9, <2>1, <3>1
  <2>2. CASE q # t
    BY <1>2, <1>4, <2>2, KernelFacts
  <2> QED BY <2>1, <2>2
<1> HIDE DEF ev
<1> QED BY <1>1, <1>2, <1>3, <1>5, <1>6, <1>7, <1>8, <1>10, KernelKeeps

LEMMA EndThreadKeeps ==
    ASSUME SourceInv, NEW p \in Tasks, NEW t \in Tasks, EndThread(p, t)
    PROVE  SourceInv'
<1> DEFINE ev == [kind |-> "exit", pid |-> p, tid |-> t]
<1>1. ev \in Raw /\ (queue' = queue \/ queue' = Append(queue, ev))
  BY AnnounceAppends DEF EndThread, AnnounceExit
<1>2. /\ group[t] = p /\ t # p /\ group' = [group EXCEPT ![t] = NoTask]
      /\ heard' = heard \ {t} /\ placed' = placed \ {t}
      /\ UNCHANGED <<name, incidents, maps, source, poll, tracker, ended>>
  BY DEF EndThread
<1>3. ev.kind = "exit" /\ \A q : ev # ExitOf(q)
  BY <1>2 DEF ExitOf
<1> HIDE DEF ev
<1>4. group' \in [Tasks -> 0..MaxTask] /\ heard' \subseteq Tasks
  BY <1>2, KernelFacts, SourceAssumption DEF NoTask
<1>5. \A q \in Tasks : group'[q] # NoTask => group'[group'[q]] = group'[q]
  <2> SUFFICES ASSUME NEW q \in Tasks, group'[q] # NoTask PROVE group'[group'[q]] = group'[q]
    OBVIOUS
  <2>1. q # t /\ group'[q] = group[q] /\ group[q] \in Tasks /\ group[group[q]] = group[q]
    BY <1>2, KernelFacts
  <2>2. group[q] # t
    BY <1>2, <2>1
  <2> QED BY <1>2, <2>1, <2>2, KernelFacts
<1>6. \A q \in heard' : q \in heard /\ q # t /\ group'[q] = group[q]
  BY <1>2, KernelFacts
<1> QED BY <1>1, <1>2, <1>3, <1>4, <1>5, <1>6, KernelFacts, KernelKeeps

LEMMA EndProcessKeeps ==
    ASSUME SourceInv, NEW p \in Tasks, EndProcess(p)
    PROVE  SourceInv'
<1> DEFINE ev == ExitOf(p)
<1>1. /\ ev \in Raw /\ (queue' = queue \/ queue' = Append(queue, ev))
      /\ queue' # queue => Holds(queue', ev)
  BY AnnounceAppends DEF EndProcess, AnnounceExit, ExitOf
<1>2. /\ ThreadsOf(p) = {p} /\ group' = [group EXCEPT ![p] = NoTask]
      /\ name' = [name EXCEPT ![p] = "none"]
      /\ heard' = heard \ {p} /\ placed' = placed \ {p}
      /\ ended' = IF p \in tracked /\ queue' # queue THEN ended \cup {p} ELSE ended
      /\ UNCHANGED <<incidents, maps, source, poll, tracker>>
  BY DEF EndProcess
<1>3. ev.kind = "exit" /\ \A q : q # p => ev # ExitOf(q)
  BY DEF ExitOf
<1>4. /\ group' \in [Tasks -> 0..MaxTask] /\ name' \in [Tasks -> Names]
      /\ heard' \subseteq Tasks /\ ended' \subseteq tracked
  BY <1>2, KernelFacts, SourceAssumption DEF NoTask, Names
<1>5. \A q \in Tasks : q # p /\ group[q] # NoTask => group[q] # p
  <2> SUFFICES ASSUME NEW q \in Tasks, q # p, group[q] # NoTask, group[q] = p PROVE FALSE
    OBVIOUS
  <2>1. group[p] = p
    BY KernelFacts
  <2>2. q \in ThreadsOf(p)
    BY <2>1 DEF ThreadsOf
  <2> QED BY <1>2, <2>2
<1>6. \A q \in Tasks : group'[q] # NoTask => group'[group'[q]] = group'[q]
  BY <1>2, <1>5, KernelFacts
<1>7. \A q \in heard' : q \in heard /\ q # p /\ group'[q] = group[q] /\ name'[q] = name[q]
  BY <1>2, KernelFacts
<1>8. \A q \in ended' : q \in ended \/ Holds(queue', ExitOf(q))
  BY <1>1, <1>2
<1> HIDE DEF ev
<1> QED BY <1>1, <1>2, <1>3, <1>4, <1>6, <1>7, <1>8, KernelFacts, KernelKeeps

LEMMA ExecKeeps ==
    ASSUME SourceInv, NEW p \in Tasks, NEW n \in {"app", "other"}, Exec(p, n)
    PROVE  SourceInv'
<1> DEFINE ev == [kind |-> "exec", pid |-> p, tid |-> p]
<1>1. /\ ev \in Raw /\ (queue' = queue \/ queue' = Append(queue, ev))
      /\ queue' # queue => queue' = Append(queue, ev)
  BY AnnounceAppends DEF Exec, Announce
<1>2. /\ ThreadsOf(p) = {p} /\ Incident /\ name' = [name EXCEPT ![p] = n]
      /\ heard' = IF queue' # queue THEN heard \cup {p} ELSE heard \ {p}
      /\ placed' = placed \ {p}
      /\ UNCHANGED <<group, maps, source, poll, tracker, ended>>
  BY DEF Exec
<1>3. ev.kind = "exec" /\ ev.pid = ev.tid /\ Starts(ev, p) /\ \A q : ev # ExitOf(q)
  BY DEF Starts, ExitOf
<1> HIDE DEF ev
<1>4. group[p] = p
  <2>1. group[p] # NoTask
    BY <1>2 DEF ThreadsOf
  <2>2. group[p] \in ThreadsOf(p)
    BY <2>1, KernelFacts DEF ThreadsOf
  <2> QED BY <1>2, <2>2
<1>5. /\ name' \in [Tasks -> Names] /\ incidents' \in 0..MaxIncidents
      /\ heard' \subseteq Tasks /\ placed' \subseteq placed
  BY <1>2, KernelFacts DEF Names
<1>6. \A q \in heard' : (q = p /\ queue' = Append(queue, ev)) \/ (q \in heard /\ q # p)
  BY <1>1, <1>2
<1>7. \A q \in heard' : group'[q] # NoTask
  BY <1>2, <1>4, <1>6, KernelFacts DEF NoTask, Tasks
<1>8. \A q \in heard' : group'[q] = q /\ name'[q] # "other" =>
         \/ queue' = Append(queue, ev) /\ Starts(ev, q)
         \/ q \in heard /\ group[q] = q /\ name[q] # "other" /\ ev # ExitOf(q)
  BY <1>2, <1>3, <1>6, KernelFacts
<1>9. \A t \in heard' : \A g \in Tasks \ {t} : group'[t] = g =>
         t \in heard /\ group[t] = g /\ (t \in placed => t \in placed')
  BY <1>2, <1>4, <1>6
<1> QED BY <1>1, <1>2, <1>3, <1>5, <1>7, <1>8, <1>9, KernelFacts, KernelKeeps

LEMMA KernelNextKeeps == ASSUME SourceInv, KernelNext PROVE SourceInv'
BY BirthKeeps, NamedKeeps, NewThreadKeeps, EndThreadKeeps, EndProcessKeeps, ExecKeeps
   DEF KernelNext

-----------------------------------------------------------------------------
(* The poll.                                                               *)

LEMMA PrecedesHolds ==
    ASSUME NEW s, NEW e, NEW next, Precedes(s, e, next)
    PROVE  Holds(s, next)
BY DEF Precedes, Holds

\* The batch grows, or a fork goes from the queue to reading.
CloneComes(g, t) ==
    LET stale == t \in applied[g]
        exits == Holds(events, ThreadExit(g, t))
    IN  (stale => exits) => Due(events, ThreadExit(g, t), CloneOf(g, t), stale)

LEMMA BatchGrows ==
    ASSUME SourceInv, NEW ev \in Event, events' = events \/ events' = Append(events, ev),
           UNCHANGED <<queue, tracked, applied>>
    PROVE  /\ events' \in Seq(Event)
           /\ \A q : (/\ ev # ExitOf(q) /\ WillBeTracked(q)
                      /\ q \in Pending \/ reading.tid = q =>
                            q \in Pending' \/ reading'.tid = q \/ Started(events', q))
                        => WillBeTracked(q)'
           /\ \A p : ExitComes(p) => ExitComes(p)'
           /\ \A g, t : (/\ WillBePlaced(g, t) /\ (t \in placed => t \in placed')
                         /\ t \in Pending \/ reading.tid = t =>
                               \/ t \in Pending' \/ reading'.tid = t
                               \/ CloneComes(g, t)')
                           => WillBePlaced(g, t)'
<1>1. events \in Seq(Event)
  BY DEF SourceInv, TypeOK
<1>2. events' \in Seq(Event)
  BY <1>1
<1>3. ASSUME NEW q, ev # ExitOf(q), WillBeTracked(q),
             q \in Pending \/ reading.tid = q =>
                q \in Pending' \/ reading'.tid = q \/ Started(events', q)
      PROVE  WillBeTracked(q)'
  <2>1. Started(events, q) => Started(events', q)
    BY <1>1, <1>3, AppendStarted
  <2>2. NoExit(events, q) => NoExit(events', q)
    BY <1>1, <1>3, AppendStarted
  <2> QED BY <1>3, <2>1, <2>2 DEF WillBeTracked
<1>4. ASSUME NEW x PROVE Holds(events, x) => Holds(events', x)
  BY <1>1, AppendHolds
<1>5. ASSUME NEW e, NEW next PROVE Precedes(events, e, next) => Precedes(events', e, next)
  <2>1. Precedes(events, e, next) => Precedes(Append(events, ev), e, next)
    BY <1>1, AppendHolds
  <2> QED BY <2>1
<1>6. ASSUME NEW p, ExitComes(p) PROVE ExitComes(p)'
  BY <1>4, <1>6 DEF ExitComes, ExitOf
<1>7. ASSUME NEW g, NEW t, WillBePlaced(g, t), t \in placed => t \in placed',
             t \in Pending \/ reading.tid = t =>
                t \in Pending' \/ reading'.tid = t \/ CloneComes(g, t)'
      PROVE  WillBePlaced(g, t)'
  <2>1. \A x : Holds(events, x) => Holds(events', x)
    BY <1>4
  <2>2. \A e, next : Precedes(events, e, next) => Precedes(events', e, next)
    BY <1>5
  <2> DEFINE e == ThreadExit(g, t)
             stale == t \in applied[g]
  <2>3. CASE t \in placed
    BY <1>7, <2>3 DEF WillBePlaced
  <2>4. CASE Due(queue, e, ForkOf(t), stale /\ ~Holds(events, e))
    <3>1. Holds(queue, ForkOf(t))
      BY <2>4, PrecedesHolds DEF Due
    <3>2. Due(queue, e, ForkOf(t), stale /\ ~Holds(events', e))
      BY <2>1, <2>4, <3>1 DEF Due
    <3> QED BY <3>2 DEF WillBePlaced, Due, ThreadExit, ForkOf
  <2>5. CASE (t \in Pending \/ reading.tid = t) /\ (stale => Holds(events, e))
    <3>1. CASE t \in Pending' \/ reading'.tid = t
      BY <2>1, <2>5, <3>1 DEF WillBePlaced, ThreadExit
    <3>2. CASE CloneComes(g, t)'
      BY <2>1, <2>5, <3>2 DEF CloneComes, WillBePlaced, ThreadExit, CloneOf
    <3> QED BY <1>7, <2>5, <3>1, <3>2
  <2>6. CASE Due(events, e, CloneOf(g, t), stale)
    <3>1. Due(events', e, CloneOf(g, t), stale)
      BY <2>1, <2>2, <2>6 DEF Due
    <3> QED BY <3>1 DEF WillBePlaced, Due, ThreadExit, CloneOf
  <2>7. \/ t \in placed
        \/ Due(queue, e, ForkOf(t), stale /\ ~Holds(events, e))
        \/ (t \in Pending \/ reading.tid = t) /\ (stale => Holds(events, e))
        \/ Due(events, e, CloneOf(g, t), stale)
    BY <1>7 DEF WillBePlaced
  <2> QED BY <2>3, <2>4, <2>5, <2>6, <2>7
<1> QED BY <1>2, <1>3, <1>6, <1>7

(***************************************************************************)
(* Steps of the poll that leave tasks, queue, batch and tracker alone.     *)
(***************************************************************************)
LEMMA QuietKeeps ==
    ASSUME SourceInv,
           UNCHANGED <<kernel, keys, queue, cfg, pending, reading, events, tracker,
                       heard, ended, placed>>,
           snapshot' \in BOOLEAN, filter' \subseteq Tasks, scanDone' \in BOOLEAN, scanDone => scanDone',
           scanned' \subseteq scanned, todo' \subseteq Tasks,
           phase' \in {"rekey", "top", "scan", "drain", "flush", "sync", "handle"},
           phase' \in {"rekey", "top"} => scanned' = {} /\ events = <<>>,
           phase' = "handle" => scanned' = {} /\ scanDone',
           phase' = "scan" <=> ~scanDone' /\ phase' \notin {"rekey", "top"},
           reading # NotReading => phase' = "flush",
           phase' = "flush" => todo' \subseteq Pending
    PROVE  SourceInv'
<1>1. Pending' = Pending /\ UNCHANGED <<group, name, incidents, tracked, applied>>
  BY DEF Pending, kernel, tracker
<1>2. TypeOK'
  BY <1>1 DEF SourceInv, TypeOK
<1>3. BatchInv'
  BY <1>1 DEF SourceInv, BatchInv, Started, NotReading, NoTask
<1>4. TaskInv' /\ HeardInv'
  BY <1>1 DEF SourceInv, TaskInv, HeardInv, WillBeTracked, IsProcess, Started, NoExit
<1>5. EndedInv' /\ ThreadInv'
  BY <1>1 DEF SourceInv, EndedInv, ExitComes, ThreadInv, WillBePlaced, Due, Holds, Precedes
<1> QED BY <1>2, <1>3, <1>4, <1>5 DEF SourceInv

LEMMA QuietSteps ==
    ASSUME SourceInv,
           \/ StartPoll \/ ScanEnds \/ DrainEnds \/ FlushEnds
           \/ TrackedSync \/ NoSync \/ BatchDone
           \/ \E t \in Tasks : NotRipe(t)
    PROVE  SourceInv'
<1> USE DEF Goto, source, maps
<1>1. /\ filter \subseteq Tasks /\ tracked \subseteq Tasks /\ scanDone \in BOOLEAN
      /\ Pending \subseteq Tasks /\ todo \subseteq Tasks /\ snapshot \in BOOLEAN /\ BatchInv
  BY DEF SourceInv, TypeOK, Pending
<1>2. CASE StartPoll
  BY <1>1, <1>2, QuietKeeps DEF StartPoll, BatchInv
<1>3. CASE ScanEnds
  BY <1>1, <1>3, QuietKeeps DEF ScanEnds, BatchInv
<1>4. CASE DrainEnds
  BY <1>1, <1>4, QuietKeeps DEF DrainEnds, BatchInv
<1>5. CASE FlushEnds
  BY <1>1, <1>5, QuietKeeps DEF FlushEnds, BatchInv
<1>6. CASE TrackedSync
  BY <1>1, <1>6, QuietKeeps DEF TrackedSync, Closes, Synced, BatchInv
<1>7. CASE NoSync
  BY <1>1, <1>7, QuietKeeps DEF NoSync, Closes, BatchInv
<1>8. CASE BatchDone
  <2>1. snapshot' \in BOOLEAN
    BY <1>8, SourceAssumption DEF BatchDone
  <2> QED BY <1>1, <1>8, <2>1, QuietKeeps DEF BatchDone, BatchInv
<1>9. ASSUME NEW t \in Tasks, NotRipe(t) PROVE SourceInv'
  BY <1>1, <1>9, QuietKeeps DEF NotRipe, BatchInv
<1> QED BY <1>2, <1>3, <1>4, <1>5, <1>6, <1>7, <1>8, <1>9

\* The batch stays in the shape BatchInv asks for when an event is appended.
LEMMA BatchShape ==
    ASSUME SourceInv, NEW ev \in Event, events' = events \/ events' = Append(events, ev),
           ev.kind \in {"fork", "exec"} => ev.pid = ev.tid,
           ev.kind = "exit" => tracked # {}
    PROVE  /\ \A i \in DOMAIN events' :
                 events'[i].kind \in {"fork", "exec"} => events'[i].pid = events'[i].tid
           /\ scanned # {} \/ ~scanDone =>
                 tracked = {} /\ \A i \in DOMAIN events' : events'[i].kind # "exit"
           /\ \A p \in scanned : Started(events', p)
<1>1. events \in Seq(Event)
  BY DEF SourceInv, TypeOK
<1>2. \A i \in DOMAIN events' :
         (i \in DOMAIN events /\ events'[i] = events[i]) \/ events'[i] = ev
  BY <1>1
<1>3. scanned # {} \/ ~scanDone =>
         tracked = {} /\ \A i \in DOMAIN events' : events'[i].kind # "exit"
  BY <1>2 DEF SourceInv, BatchInv
<1>4. \A p \in scanned : Started(events', p)
  <2> SUFFICES ASSUME NEW p \in scanned PROVE Started(events', p)
    OBVIOUS
  <2>1. Started(events, p) /\ tracked = {}
    BY DEF SourceInv, BatchInv
  <2>2. ev # ExitOf(p)
    BY <2>1 DEF ExitOf
  <2> QED BY <1>1, <2>1, <2>2, AppendStarted
<1> QED BY <1>2, <1>3, <1>4 DEF SourceInv, BatchInv

LEMMA ScanKeeps ==
    ASSUME SourceInv, NEW p \in Tasks, ScanOne(p)
    PROVE  SourceInv'
<1> DEFINE ev == [kind |-> "fork", pid |-> p, tid |-> p]
<1>1. /\ ev \in Event /\ ev.kind = "fork" /\ ev.pid = ev.tid
      /\ Starts(ev, p) /\ \A q : ev # ExitOf(q)
  BY DEF Event, Starts, ExitOf
<1>2. /\ phase = "scan" /\ todo' \subseteq todo
      /\ \/ events' = Append(events, ev) /\ scanned' = scanned \cup {p}
         \/ UNCHANGED <<events, scanned>>
      /\ UNCHANGED <<cfg, pending, scanDone, snapshot, phase, reading, kernel, maps, queue, tracker,
                     heard, ended, placed>>
  BY DEF ScanOne, Emit
<1> HIDE DEF ev
<1>3. /\ Pending' = Pending
      /\ UNCHANGED <<group, name, incidents, keys, filter, tracked, applied>>
  BY <1>2 DEF Pending, kernel, maps, tracker
<1>4. TypeOK'
  <2>1. events' \in Seq(Event)
    BY <1>1, <1>2, <1>3, BatchGrows
  <2>2. scanned' \subseteq Tasks
    BY <1>2 DEF SourceInv, TypeOK
  <2> QED BY <1>2, <1>3, <2>1, <2>2 DEF SourceInv, TypeOK
<1>5. BatchInv'
  <2>1. ~scanDone /\ tracked = {} /\ reading = NotReading
    BY <1>2 DEF SourceInv, BatchInv
  <2>2. /\ \A i \in DOMAIN events' :
              events'[i].kind \in {"fork", "exec"} => events'[i].pid = events'[i].tid
        /\ \A i \in DOMAIN events' : events'[i].kind # "exit"
        /\ \A q \in scanned : Started(events', q)
    BY <1>1, <1>2, <2>1, BatchShape
  <2>3. events' = Append(events, ev) => Started(events', p)
    BY <1>1, AppendStarted DEF SourceInv, TypeOK
  <2>4. \A q \in scanned' : Started(events', q)
    BY <1>2, <2>2, <2>3
  <2> QED BY <1>2, <1>3, <2>1, <2>2, <2>4 DEF SourceInv, BatchInv, NotReading
<1>6. TaskInv'
  BY <1>2, <1>3 DEF SourceInv, TaskInv, IsProcess
<1>7. \A q : WillBeTracked(q) => WillBeTracked(q)'
  BY <1>1, <1>2, <1>3, BatchGrows
<1>8. HeardInv'
  BY <1>2, <1>3, <1>7 DEF SourceInv, HeardInv, IsProcess
<1>9. EndedInv'
  BY <1>1, <1>2, <1>3, BatchGrows DEF SourceInv, EndedInv
<1>10. \A g, t : WillBePlaced(g, t) => WillBePlaced(g, t)'
  BY <1>1, <1>2, <1>3, BatchGrows
<1>11. ThreadInv'
  BY <1>2, <1>3, <1>10 DEF SourceInv, ThreadInv
<1> QED BY <1>4, <1>5, <1>6, <1>8, <1>9, <1>11 DEF SourceInv

LEMMA RipeKeeps ==
    ASSUME SourceInv, NEW t \in Tasks, Ripe(t)
    PROVE  SourceInv'
<1> DEFINE ev == ForkOf(t)
<1>1. ev \in Event /\ \A q : ev # ExitOf(q)
  BY DEF Event, ForkOf, ExitOf
<1> HIDE DEF ev
<1>2. /\ phase = "flush" /\ reading = NotReading /\ t \in todo /\ todo' = todo \ {t}
      /\ UNCHANGED <<cfg, scanDone, scanned, snapshot, phase, events, kernel, maps, queue, tracker,
                     ended, placed>>
      /\ Unnamed(t) \/ HasName(t)
  BY DEF Ripe
<1>3. UNCHANGED <<group, name, incidents, keys, filter, tracked, applied>>
  BY <1>2 DEF kernel, maps, tracker
<1>4. t \in Pending /\ pending \in [Tasks -> -1..MaxRetries] /\ heard \subseteq Tasks
  BY <1>2 DEF SourceInv, BatchInv, TypeOK
<1>5. /\ pending' \in [Tasks -> -1..MaxRetries] /\ Pending' \subseteq Pending
      /\ \A q \in Tasks \ {t} : q \in Pending => q \in Pending'
      /\ heard' \subseteq heard
      /\ reading' = NotReading \/ (reading'.tid = t /\ reading' \in [tid : 0..MaxTask, pkg : Names])
      /\ t \in heard' => t \in Pending' \/ reading'.tid = t
  <2>1. CASE Unnamed(t)
    <3>1. pending'[t] \in -1..MaxRetries /\ pending' \in [Tasks -> -1..MaxRetries]
      BY <1>4, <2>1, SourceAssumption DEF Unnamed, NotPending
    <3> QED BY <1>2, <1>4, <2>1, <3>1 DEF Unnamed, Pending
  <2>2. CASE HasName(t)
    <3>1. pending' \in [Tasks -> -1..MaxRetries]
      BY <1>4, <2>2, SourceAssumption DEF HasName, NotPending
    <3>2. reading'.tid = t /\ reading' \in [tid : 0..MaxTask, pkg : Names]
      BY <2>2, SourceAssumption DEF HasName, Names, Tasks
    <3> QED BY <1>4, <2>2, <3>1, <3>2 DEF HasName, Pending
  <2> QED BY <1>2, <2>1, <2>2
<1>6. TypeOK'
  <2>1. IsFiniteSet(Tasks)
    BY FS_Interval, SourceAssumption DEF Tasks
  <2>2. IsFiniteSet(Pending) /\ IsFiniteSet(Pending') /\ Cardinality(Pending') <= Cardinality(Pending)
    BY <1>5, <2>1, FS_Subset DEF Pending
  <2>3. Cardinality(Pending) \in Nat /\ Cardinality(Pending') \in Nat
    BY <2>2, FS_CardinalityType
  <2>4. Cardinality(Pending') <= MaxPending
    BY <2>2, <2>3, SourceAssumption DEF SourceInv, TypeOK
  <2>5. reading' \in [tid : 0..MaxTask, pkg : Names]
    BY <1>5, SourceAssumption DEF NotReading, NoTask, Names
  <2>6. todo' \subseteq Tasks /\ heard' \subseteq Tasks
    BY <1>2, <1>5 DEF SourceInv, TypeOK
  <2> QED BY <1>2, <1>3, <1>5, <2>4, <2>5, <2>6 DEF SourceInv, TypeOK
<1>7. BatchInv'
  <2>1. todo' \subseteq Pending'
    BY <1>2, <1>5 DEF SourceInv, BatchInv, TypeOK
  <2>2. reading' # NotReading' => reading'.tid \in Tasks
    BY <1>5 DEF NotReading
  <2> QED BY <1>2, <1>3, <2>1, <2>2 DEF SourceInv, BatchInv, Started
<1>8. \A q \in heard' : q \in Pending \/ reading.tid = q => q \in Pending' \/ reading'.tid = q
  <2> SUFFICES ASSUME NEW q \in heard', q \in Pending \/ reading.tid = q
               PROVE  q \in Pending' \/ reading'.tid = q
    OBVIOUS
  <2>1. q \in Tasks /\ reading.tid = 0
    BY <1>2, <1>4, <1>5 DEF NotReading, NoTask
  <2>2. q \in Pending
    BY <2>1 DEF Tasks
  <2> QED BY <1>5, <2>1, <2>2
<1>9. TaskInv'
  BY <1>3, <1>5 DEF SourceInv, TaskInv, IsProcess
<1>10. HeardInv'
  <2>1. \A q \in heard' : WillBeTracked(q) => WillBeTracked(q)'
    BY <1>1, <1>2, <1>3, <1>8, BatchGrows
  <2> QED BY <1>3, <1>5, <2>1 DEF SourceInv, HeardInv, IsProcess
<1>11. EndedInv'
  BY <1>1, <1>2, <1>3, BatchGrows DEF SourceInv, EndedInv
<1>12. ThreadInv'
  <2>1. \A q \in heard' : \A g : WillBePlaced(g, q) => WillBePlaced(g, q)'
    BY <1>1, <1>2, <1>3, <1>8, BatchGrows
  <2> QED BY <1>3, <1>5, <2>1 DEF SourceInv, ThreadInv
<1> QED BY <1>6, <1>7, <1>9, <1>10, <1>11, <1>12 DEF SourceInv

LEMMA ClassifyKeeps == ASSUME SourceInv, Classify PROVE SourceInv'
<1> DEFINE t == reading.tid
           single == group[t] \in {t, NoTask}
           p == IF single THEN t ELSE group[t]
           pkg == IF single THEN reading.pkg ELSE Cmdline(t)
           ev == [kind |-> IF single THEN "fork" ELSE "clone", pid |-> p, tid |-> t]
<1>1. /\ t \in Tasks /\ p \in Tasks /\ phase = "flush"
      /\ single => ev = ForkOf(t) /\ p = t
      /\ ~single => ev = CloneOf(group[t], t)
  BY KernelFacts DEF Classify, SourceInv, BatchInv, ForkOf, CloneOf
<1>2. /\ reading' = NotReading
      /\ UNCHANGED <<keys, snapshot, phase, todo, kernel, queue, source, tracker, ended, placed>>
  BY DEF Classify
<1>3. \/ events' = Append(events, ev) /\ filter' = filter \cup {p} /\ heard' = heard
      \/ heard' = heard \ {t} /\ UNCHANGED <<events, filter>>
  <2>1. CASE single
    <3>1. Confirm("fork", t, t, reading.pkg)
      BY <2>1 DEF Classify
    <3> QED BY <2>1, <3>1 DEF Confirm, Emit
  <2>2. CASE ~single
    <3>1. Confirm("clone", group[t], t, Cmdline(t))
      BY <2>2 DEF Classify
    <3> QED BY <2>2, <3>1 DEF Confirm, Emit
  <2> QED BY <2>1, <2>2
<1>4. /\ ev \in Event /\ ev.kind \in {"fork", "clone"} /\ ev.tid = t
      /\ ev.kind = "fork" => ev.pid = ev.tid
      /\ \A q : ev # ExitOf(q)
  BY <1>1 DEF Event, ExitOf
<1>5. /\ Pending' = Pending
      /\ UNCHANGED <<group, name, incidents, cfg, pending, scanDone, scanned, tracked, applied>>
  BY <1>2 DEF Pending, kernel, source, tracker
<1>6. \A q : q # t /\ (q \in Pending \/ reading.tid = q) => q \in Pending'
  BY <1>5
<1>7. single => Starts(ev, t)
  BY <1>1 DEF ForkOf, Starts
<1> HIDE DEF ev, p, pkg
<1>8. TypeOK'
  <2>1. events' \in Seq(Event)
    BY <1>2, <1>3, <1>4, <1>5, BatchGrows
  <2>2. reading' \in [tid : 0..MaxTask, pkg : Names]
    BY <1>2, SourceAssumption DEF NotReading, NoTask, Names
  <2>3. filter' \subseteq Tasks /\ heard' \subseteq Tasks
    BY <1>1, <1>3 DEF SourceInv, TypeOK
  <2> QED BY <1>2, <1>5, <2>1, <2>2, <2>3 DEF SourceInv, TypeOK
<1>9. BatchInv'
  <2>1. /\ \A i \in DOMAIN events' :
              events'[i].kind \in {"fork", "exec"} => events'[i].pid = events'[i].tid
        /\ scanned # {} \/ ~scanDone =>
              tracked = {} /\ \A i \in DOMAIN events' : events'[i].kind # "exit"
        /\ \A q \in scanned : Started(events', q)
    BY <1>3, <1>4, BatchShape
  <2> QED BY <1>1, <1>2, <1>5, <2>1 DEF SourceInv, BatchInv, NotReading
<1>10. TaskInv' /\ heard' \subseteq heard
  BY <1>3, <1>5 DEF SourceInv, TaskInv, IsProcess
<1>11. HeardInv'
  <2> SUFFICES ASSUME NEW q \in heard', group[q] = q, name[q] # "other"
               PROVE  WillBeTracked(q)'
    BY <1>5 DEF HeardInv, IsProcess
  <2>1. WillBeTracked(q)
    BY <1>10 DEF SourceInv, HeardInv, IsProcess
  <2>2. q = t => Started(events', q)
    <3>1. SUFFICES ASSUME q = t PROVE Started(events', q)
      OBVIOUS
    <3>2. single /\ events' = Append(events, ev)
      BY <1>3, <3>1
    <3> QED BY <1>4, <1>7, <3>1, <3>2, AppendStarted DEF SourceInv, TypeOK
  <2> HIDE DEF t
  <2> QED BY <1>2, <1>3, <1>4, <1>5, <1>6, <2>1, <2>2, BatchGrows
<1>12. EndedInv'
  BY <1>2, <1>3, <1>4, <1>5, BatchGrows DEF SourceInv, EndedInv
<1>13. ThreadInv'
  <2> SUFFICES ASSUME NEW q \in heard', NEW g \in Tasks \ {q}, group[q] = g
               PROVE  WillBePlaced(g, q)'
    BY <1>5 DEF ThreadInv
  <2> DEFINE e == ThreadExit(g, q)
             stale == q \in applied[g]
  <2>1. WillBePlaced(g, q)
    BY <1>10 DEF SourceInv, ThreadInv
  <2>2. q = t => CloneComes(g, q)'
    <3> SUFFICES ASSUME q = t, stale => Holds(events', e)
                 PROVE  Due(events', e, CloneOf(g, q), stale)
      BY <1>5 DEF CloneComes, ThreadExit, CloneOf
    <3>1. events' = Append(events, ev) /\ ev = CloneOf(g, q)
      BY <1>1, <1>3 DEF NoTask, Tasks
    <3>2. Holds(events', ev) /\ (Holds(events, e) => Precedes(events', e, ev))
      <4> HIDE DEF e
      <4> QED BY <1>4, <3>1, AppendHolds DEF SourceInv, TypeOK
    <3>3. Holds(events', e) => Holds(events, e)
      <4>1. ev # e
        BY <3>1 DEF CloneOf, ThreadExit
      <4>2. events \in Seq(Event)
        BY DEF SourceInv, TypeOK
      <4> HIDE DEF e
      <4>3. \A i \in DOMAIN events' : events'[i] = e => i \in DOMAIN events /\ events[i] = e
        BY <3>1, <4>1, <4>2
      <4> QED BY <4>3 DEF Holds
    <3> QED BY <3>1, <3>2, <3>3 DEF Due
  <2> HIDE DEF t
  <2> QED BY <1>2, <1>3, <1>4, <1>5, <1>6, <2>1, <2>2, BatchGrows
<1> QED BY <1>8, <1>9, <1>10, <1>11, <1>12, <1>13 DEF SourceInv

-----------------------------------------------------------------------------
(* The queue is drained: its head goes to the pending ones or the batch.   *)

LEMMA DrainFacts ==
    ASSUME SourceInv, DrainOne
    PROVE  LET ev == Head(queue)
           IN  /\ ev \in Raw /\ queue' \in Seq(Raw)
               /\ ev.kind \in {"fork", "exec"} => ev.pid = ev.tid
               /\ \A x : Holds(queue, x) => Holds(queue', x) \/ ev = x
               /\ \A e, next : Precedes(queue, e, next) =>
                     Precedes(queue', e, next) \/ (ev = e /\ Holds(queue', next))
               /\ \A q : Started(queue, q) =>
                     Started(queue', q) \/ (Starts(ev, q) /\ NoExit(queue', q))
               /\ \A q : NoExit(queue, q) => NoExit(queue', q) /\ ev # ExitOf(q)
<1>1. queue \in Seq(Raw) /\ queue # <<>> /\ queue' = Tail(queue) /\ queue \in Seq(Event)
  BY RawIsEvent DEF SourceInv, TypeOK, DrainOne
<1>2. Head(queue) \in Raw /\ queue' \in Seq(Raw) /\ 1 \in DOMAIN queue /\ Head(queue) = queue[1]
  BY <1>1
<1>3. Head(queue).kind \in {"fork", "exec"} => Head(queue).pid = Head(queue).tid
  BY <1>2 DEF SourceInv, BatchInv
<1>4. \A x : Holds(queue, x) => Holds(queue', x) \/ Head(queue) = x
  BY <1>1, TailHolds
<1>5. \A e, next : Precedes(queue, e, next) =>
         Precedes(queue', e, next) \/ (Head(queue) = e /\ Holds(queue', next))
  BY <1>1, TailHolds
<1>6. \A q : Started(queue, q) =>
         Started(queue', q) \/ (Starts(Head(queue), q) /\ NoExit(queue', q))
  BY <1>1, TailStarted
<1>7. \A q : NoExit(queue, q) => NoExit(queue', q) /\ Head(queue) # ExitOf(q)
  BY <1>1, TailStarted
<1> QED BY <1>2, <1>3, <1>4, <1>5, <1>6, <1>7

(***************************************************************************)
(* What draining an event must do to keep the invariant: a start is kept   *)
(* in the pending ones or the batch or was in the batch, a clone among the *)
(* pending ones, and an exit goes to the batch if its process is tracked.  *)
(***************************************************************************)
LEMMA DrainKeeps ==
    ASSUME SourceInv, DrainOne, NEW out \in Event,
           events' = events \/ events' = Append(events, out),
           out.kind \in {"fork", "exec"} => out.pid = out.tid,
           out.kind = "exit" => out = Head(queue) /\ tracked # {},
           pending' \in [Tasks -> -1..MaxRetries], Cardinality(Pending') <= MaxPending,
           Pending \subseteq Pending', filter' \subseteq Tasks, heard' \subseteq heard,
           \A q \in heard' : Starts(Head(queue), q) /\ group[q] = q =>
               q \in Pending' \/ Started(events', q),
           \A t \in heard' : Head(queue) = ForkOf(t) /\ group[t] # t => t \in Pending',
           \A g, t \in Tasks : Head(queue) = ThreadExit(g, t) /\ g \in tracked =>
               Holds(events', Head(queue))
    PROVE  SourceInv'
<1> DEFINE ev == Head(queue)
<1>1. /\ phase = "drain" /\ events \in Seq(Event) /\ scanDone
      /\ heard \subseteq Tasks /\ ended \subseteq Tasks /\ ended \subseteq tracked
  BY DEF DrainOne, SourceInv, TypeOK, BatchInv
<1>2. /\ UNCHANGED <<keys, cfg, scanDone, scanned, snapshot, phase, todo, reading, group, name,
                     incidents, tracked, applied, ended, placed>>
      /\ queue' \in Seq(Raw)
  BY DrainFacts DEF DrainOne, kernel, tracker
<1>3. events' \in Seq(Event)
  BY <1>1
<1>4. TypeOK'
  BY <1>2, <1>3 DEF SourceInv, TypeOK
<1>5. BatchInv'
  <2>1. /\ \A i \in DOMAIN events' :
              events'[i].kind \in {"fork", "exec"} => events'[i].pid = events'[i].tid
        /\ scanned # {} \/ ~scanDone =>
              tracked = {} /\ \A i \in DOMAIN events' : events'[i].kind # "exit"
        /\ \A p \in scanned : Started(events', p)
    BY BatchShape
  <2>2. \A i \in DOMAIN queue' : queue'[i].kind \in {"fork", "exec"} => queue'[i].pid = queue'[i].tid
    <3>1. queue' = Tail(queue) /\ queue \in Seq(Raw) /\ queue # <<>>
      BY DEF DrainOne, SourceInv, TypeOK
    <3>2. \A i \in DOMAIN queue' : i + 1 \in DOMAIN queue /\ queue'[i] = queue[i + 1]
      BY <3>1
    <3> QED BY <3>2 DEF SourceInv, BatchInv
  <2> QED BY <1>1, <1>2, <2>1, <2>2 DEF SourceInv, BatchInv, NotReading
<1>6. TaskInv'
  BY <1>2 DEF SourceInv, TaskInv, IsProcess
<1>7. \A x : Holds(events, x) => Holds(events', x)
  BY <1>1, AppendHolds
<1>8. \A e, next : Precedes(events, e, next) => Precedes(events', e, next)
  <2>1. \A e, next : Precedes(events, e, next) => Precedes(Append(events, out), e, next)
    BY <1>1, AppendHolds
  <2> QED BY <2>1
<1>9. HeardInv'
  <2> SUFFICES ASSUME NEW q \in heard', group[q] = q, name[q] # "other"
               PROVE  WillBeTracked(q)'
    BY <1>2 DEF HeardInv, IsProcess
  <2>1. WillBeTracked(q)
    BY DEF SourceInv, HeardInv, IsProcess
  <2>2. CASE Started(queue', q)
    BY <2>2 DEF WillBeTracked
  <2>3. CASE Starts(ev, q) /\ NoExit(queue', q)
    BY <2>3 DEF WillBeTracked
  <2>4. CASE /\ NoExit(queue', q) /\ ev # ExitOf(q)
             /\ \/ q \in Pending \/ reading.tid = q
                \/ Started(events, q) \/ (NoExit(events, q) /\ q \in tracked)
    <3>1. out # ExitOf(q)
      BY <2>4 DEF ExitOf
    <3>2. Started(events, q) => Started(events', q)
      BY <1>1, <3>1, AppendStarted
    <3>3. NoExit(events, q) => NoExit(events', q)
      BY <1>1, <3>1, AppendStarted
    <3> QED BY <1>2, <2>4, <3>2, <3>3 DEF WillBeTracked
  <2>5. \/ Started(queue, q)
        \/ /\ NoExit(queue, q)
           /\ \/ q \in Pending \/ reading.tid = q
              \/ Started(events, q) \/ (NoExit(events, q) /\ q \in tracked)
    BY <2>1 DEF WillBeTracked
  <2> QED BY <2>2, <2>3, <2>4, <2>5, DrainFacts
<1>10. EndedInv'
  <2> SUFFICES ASSUME NEW p \in ended PROVE ExitComes(p)'
    BY <1>2 DEF EndedInv
  <2>1. Holds(queue, ExitOf(p)) \/ Holds(events, ExitOf(p))
    BY DEF SourceInv, EndedInv, ExitComes
  <2>2. CASE Holds(queue', ExitOf(p)) \/ Holds(events', ExitOf(p))
    BY <2>2 DEF ExitComes, ExitOf
  <2>3. CASE ev = ExitOf(p)
    <3>1. ev = ThreadExit(p, p) /\ p \in tracked /\ p \in Tasks
      BY <1>1, <2>3 DEF ExitOf, ThreadExit
    <3> QED BY <2>2, <2>3, <3>1
  <2> QED BY <1>7, <2>1, <2>2, <2>3, DrainFacts
<1>11. ThreadInv'
  <2> SUFFICES ASSUME NEW t \in heard', NEW g \in Tasks \ {t}, group[t] = g
               PROVE  WillBePlaced(g, t)'
    BY <1>2 DEF ThreadInv
  <2> DEFINE e == ThreadExit(g, t)
             f == ForkOf(t)
             c == CloneOf(g, t)
             stale == t \in applied[g]
  <2>1. WillBePlaced(g, t)
    BY DEF SourceInv, ThreadInv
  <2>2. CASE t \in placed
    BY <1>2, <2>2 DEF WillBePlaced
  <2>3. CASE Due(queue, e, f, stale /\ ~Holds(events, e))
    <3>1. CASE ev = e
      <4>1. e # f
        BY DEF ThreadExit, ForkOf
      <4>2. Holds(queue, f)
        BY <2>3, PrecedesHolds DEF Due
      <4>3. Holds(queue', f)
        BY <3>1, <4>1, <4>2, DrainFacts
      <4>4. stale => Holds(events', e)
        <5>1. t \in Tasks
          BY <1>1
        <5>2. g \in tracked => Holds(events', e)
          BY <3>1, <5>1
        <5>3. stale => g \in tracked
          BY DEF SourceInv, TaskInv
        <5> QED BY <5>2, <5>3
      <4>5. Due(queue', e, f, stale /\ ~Holds(events', e))
        BY <4>3, <4>4 DEF Due
      <4> QED BY <1>2, <4>5 DEF WillBePlaced, Due, ThreadExit, ForkOf
    <3>2. CASE ev = f /\ ~(stale /\ ~Holds(events, e))
      <4>1. t \in Pending'
        BY <3>2
      <4> QED BY <1>2, <1>7, <3>2, <4>1 DEF WillBePlaced, ThreadExit
    <3>3. CASE ev # e /\ ~(ev = f /\ ~(stale /\ ~Holds(events, e)))
      <4>1. Due(queue', e, f, stale /\ ~Holds(events, e))
        BY <2>3, <3>3, DrainFacts DEF Due
      <4>2. Holds(queue', f)
        BY <4>1, PrecedesHolds DEF Due
      <4>3. Due(queue', e, f, stale /\ ~Holds(events', e))
        BY <1>7, <4>1, <4>2 DEF Due
      <4> QED BY <1>2, <4>3 DEF WillBePlaced, Due, ThreadExit, ForkOf
    <3> QED BY <3>1, <3>2, <3>3
  <2>4. CASE (t \in Pending \/ reading.tid = t) /\ (stale => Holds(events, e))
    BY <1>2, <1>7, <2>4 DEF WillBePlaced, ThreadExit
  <2>5. CASE Due(events, e, c, stale)
    <3>1. Due(events', e, c, stale)
      BY <1>7, <1>8, <2>5 DEF Due
    <3> QED BY <1>2, <3>1 DEF WillBePlaced, Due, ThreadExit, CloneOf
  <2>6. \/ t \in placed
        \/ Due(queue, e, f, stale /\ ~Holds(events, e))
        \/ (t \in Pending \/ reading.tid = t) /\ (stale => Holds(events, e))
        \/ Due(events, e, c, stale)
    BY <2>1 DEF WillBePlaced
  <2> QED BY <2>2, <2>3, <2>4, <2>5, <2>6
<1> QED BY <1>4, <1>5, <1>6, <1>9, <1>10, <1>11 DEF SourceInv

LEMMA RawForkKeeps ==
    ASSUME SourceInv, DrainOne, Head(queue).kind = "fork", RawFork(Head(queue).tid)
    PROVE  SourceInv'
<1> DEFINE t == Head(queue).tid
<1>1. /\ t \in Tasks /\ Head(queue) = ForkOf(t) /\ UNCHANGED <<filter, events, scanned, group>>
      /\ UNCHANGED tracked
  BY DrainFacts DEF DrainOne, RawFork, ForkOf, Raw, kernel, tracker
<1>2. ForkOf(t) \in Event
  BY <1>1 DEF ForkOf, Event
<1>3. \/ /\ t \in scanned \/ t \in Pending
         /\ pending' = pending
         /\ heard' = IF t \in scanned /\ ~IsProcess(t) THEN heard \ {t} ELSE heard
      \/ /\ t \notin Pending /\ Cardinality(Pending) < MaxPending
         /\ pending' = [pending EXCEPT ![t] = 0] /\ heard' = heard
      \/ heard' = heard \ {t} /\ pending' = pending
  BY DEF RawFork, Skipped
<1> HIDE DEF t
<1>4. \/ pending' = pending /\ Pending' = Pending
      \/ /\ pending' = [pending EXCEPT ![t] = 0] /\ Pending' = Pending \cup {t}
         /\ t \notin Pending /\ Cardinality(Pending) < MaxPending
  BY <1>1, <1>3 DEF Pending, NotPending, SourceInv, TypeOK
<1>5. Cardinality(Pending') <= MaxPending
  <2>1. IsFiniteSet(Tasks)
    BY FS_Interval, SourceAssumption DEF Tasks
  <2>2. IsFiniteSet(Pending)
    BY <2>1, FS_Subset DEF Pending
  <2>3. Cardinality(Pending) \in Nat /\ Cardinality(Pending) <= MaxPending
    BY <2>2, FS_CardinalityType DEF SourceInv, TypeOK
  <2>4. t \notin Pending => Cardinality(Pending \cup {t}) = Cardinality(Pending) + 1
    BY <2>2, FS_AddElement
  <2>5. CASE Pending' = Pending
    BY <2>3, <2>5
  <2>6. CASE t \notin Pending /\ Pending' = Pending \cup {t} /\ Cardinality(Pending) < MaxPending
    BY <2>3, <2>4, <2>6, SourceAssumption
  <2> QED BY <1>4, <2>5, <2>6
<1>6. pending' \in [Tasks -> -1..MaxRetries]
  <2>1. pending \in [Tasks -> -1..MaxRetries] /\ 0 \in -1..MaxRetries
    BY SourceAssumption DEF SourceInv, TypeOK
  <2> QED BY <1>1, <1>4, <2>1
<1>7. Pending \subseteq Pending' /\ heard' \subseteq heard /\ filter' \subseteq Tasks
  BY <1>1, <1>3, <1>4 DEF SourceInv, TypeOK
<1>8. t \in heard' => t \in Pending' \/ (t \in scanned /\ group[t] = t)
  <2>1. CASE /\ t \in scanned \/ t \in Pending
             /\ heard' = IF t \in scanned /\ ~IsProcess(t) THEN heard \ {t} ELSE heard
    <3>1. t \in scanned /\ group[t] # t => t \notin heard'
      BY <2>1 DEF IsProcess
    <3> QED BY <1>7, <2>1, <3>1
  <2>2. CASE t \notin Pending /\ pending' = [pending EXCEPT ![t] = 0]
    <3>1. pending'[t] = 0
      BY <1>1, <2>2 DEF SourceInv, TypeOK
    <3> QED BY <1>1, <3>1 DEF Pending, NotPending
  <2>3. CASE heard' = heard \ {t}
    BY <2>3
  <2> QED BY <1>3, <2>1, <2>2, <2>3
<1>9. ASSUME NEW q \in heard', Starts(Head(queue), q), group[q] = q
      PROVE  q \in Pending' \/ Started(events', q)
  <2>1. q = t
    BY <1>1, <1>9 DEF Starts, ForkOf
  <2>2. q \in scanned => Started(events', q)
    BY <1>1 DEF SourceInv, BatchInv
  <2> QED BY <1>8, <2>1, <2>2
<1>10. ASSUME NEW q \in heard', Head(queue) = ForkOf(q), group[q] # q
      PROVE  q \in Pending'
  <2>1. q = t
    BY <1>1, <1>10 DEF ForkOf
  <2> QED BY <1>10, <1>8, <2>1
<1>11. \A g, q : Head(queue) # ThreadExit(g, q)
  BY DEF ThreadExit
<1>12. ForkOf(t).kind = "fork" /\ ForkOf(t).pid = ForkOf(t).tid
  BY DEF ForkOf
<1> QED BY <1>1, <1>2, <1>5, <1>6, <1>7, <1>9, <1>10, <1>11, <1>12, DrainKeeps

LEMMA RawExecKeeps ==
    ASSUME SourceInv, DrainOne, Head(queue).kind = "exec", RawExec(Head(queue).pid)
    PROVE  SourceInv'
<1> DEFINE p == Head(queue).pid
           out == [kind |-> "exec", pid |-> p, tid |-> p]
<1>1. p \in Tasks /\ Head(queue).tid = p
  BY DrainFacts DEF Raw
<1>2. /\ events' = Append(events, out) /\ UNCHANGED <<filter, pending, heard>>
      /\ Pending' = Pending
  BY DEF RawExec, Emit, Pending
<1>3. out \in Event /\ out.kind = "exec" /\ out.pid = out.tid /\ Starts(out, p)
  BY <1>1 DEF Event, Starts
<1>4. \A q : Starts(Head(queue), q) => q = p
  BY <1>1 DEF Starts
<1>5. (\A q : Head(queue) # ForkOf(q)) /\ (\A g, q : Head(queue) # ThreadExit(g, q))
  BY DEF ForkOf, ThreadExit
<1> HIDE DEF out, p
<1>6. Started(events', p)
  BY <1>2, <1>3, AppendStarted DEF SourceInv, TypeOK
<1>7. /\ pending' \in [Tasks -> -1..MaxRetries] /\ Cardinality(Pending') <= MaxPending
      /\ Pending \subseteq Pending' /\ filter' \subseteq Tasks /\ heard' \subseteq heard
  BY <1>2 DEF SourceInv, TypeOK
<1>8. \A q \in heard' : Starts(Head(queue), q) /\ group[q] = q =>
         q \in Pending' \/ Started(events', q)
  BY <1>4, <1>6
<1> QED BY <1>2, <1>3, <1>5, <1>7, <1>8, DrainKeeps

LEMMA RawExitKeeps ==
    ASSUME SourceInv, DrainOne, Head(queue).kind = "exit",
           RawExit(Head(queue).pid, Head(queue).tid)
    PROVE  SourceInv'
<1> DEFINE ev == Head(queue)
           p == ev.pid
           out == IF p \in tracked THEN ev ELSE ForkOf(p)
<1>1. /\ p \in Tasks /\ ev.tid \in Tasks /\ ev \in Event
      /\ ev = [kind |-> "exit", pid |-> p, tid |-> ev.tid]
  BY DrainFacts, RawIsEvent DEF Raw
<1>2. /\ events' = IF p \in tracked THEN Append(events, ev) ELSE events
      /\ filter' \subseteq filter /\ UNCHANGED <<pending, heard>>
      /\ Pending' = Pending
  BY <1>1 DEF RawExit, Emit, Pending
<1>3. /\ out \in Event
      /\ out.kind \in {"fork", "exec"} => out.pid = out.tid
      /\ out.kind = "exit" => out = ev /\ tracked # {}
  BY <1>1 DEF Event, ForkOf
<1>4. events' = events \/ events' = Append(events, out)
  BY <1>2
<1>5. (\A q : ~Starts(ev, q)) /\ \A q : ev # ForkOf(q)
  BY DEF Starts, ForkOf
<1>6. \A g, t \in Tasks : ev = ThreadExit(g, t) /\ g \in tracked => Holds(events', ev)
  <2> SUFFICES ASSUME NEW g \in Tasks, NEW t \in Tasks, ev = ThreadExit(g, t), g \in tracked
               PROVE  Holds(events', ev)
    OBVIOUS
  <2>1. events' = Append(events, ev)
    BY <1>2 DEF ThreadExit
  <2> HIDE DEF ev
  <2> QED BY <1>1, <2>1, AppendHolds DEF SourceInv, TypeOK
<1>7. /\ pending' \in [Tasks -> -1..MaxRetries] /\ Cardinality(Pending') <= MaxPending
      /\ Pending \subseteq Pending' /\ filter' \subseteq Tasks /\ heard' \subseteq heard
  BY <1>2 DEF SourceInv, TypeOK
<1> HIDE DEF out
<1> QED BY <1>3, <1>4, <1>5, <1>6, <1>7, DrainKeeps

LEMMA DrainOneKeeps == ASSUME SourceInv, DrainOne PROVE SourceInv'
<1>1. \/ Head(queue).kind = "fork" /\ RawFork(Head(queue).tid)
      \/ Head(queue).kind = "exec" /\ RawExec(Head(queue).pid)
      \/ Head(queue).kind = "exit" /\ RawExit(Head(queue).pid, Head(queue).tid)
  BY DEF DrainOne
<1> QED BY <1>1, RawForkKeeps, RawExecKeeps, RawExitKeeps

-----------------------------------------------------------------------------
(* The engine handles the batch.                                           *)

LEMMA HandleFacts ==
    ASSUME SourceInv, HandleOne
    PROVE  LET ev == Head(events)
           IN  /\ ev \in Event /\ events' \in Seq(Event)
               /\ phase = "handle" /\ scanned = {} /\ scanDone /\ reading = NotReading
               /\ ev.kind \in {"fork", "exec"} => ev.pid = ev.tid
               /\ \A i \in DOMAIN events' :
                     events'[i].kind \in {"fork", "exec"} => events'[i].pid = events'[i].tid
               /\ UNCHANGED <<snapshot, phase, todo, reading, group, name, incidents, keys, filter, queue,
                              cfg, pending, scanDone, scanned>>
               /\ \A x : Holds(events, x) => Holds(events', x) \/ ev = x
               /\ \A e, next : Precedes(events, e, next) =>
                     Precedes(events', e, next) \/ (ev = e /\ Holds(events', next))
               /\ \A q : Started(events, q) =>
                     Started(events', q) \/ (Starts(ev, q) /\ NoExit(events', q))
               /\ \A q : NoExit(events, q) => NoExit(events', q) /\ ev # ExitOf(q)
<1>1. /\ events \in Seq(Event) /\ events # <<>> /\ events' = Tail(events)
      /\ phase = "handle" /\ scanned = {} /\ scanDone /\ reading = NotReading
      /\ UNCHANGED <<snapshot, phase, todo, reading, group, name, incidents, keys, filter, queue,
                     cfg, pending, scanDone, scanned>>
  BY DEF SourceInv, TypeOK, BatchInv, HandleOne, kernel, maps, source
<1>2. Head(events) \in Event /\ events' \in Seq(Event) /\ 1 \in DOMAIN events /\ Head(events) = events[1]
  BY <1>1
<1>3. Head(events).kind \in {"fork", "exec"} => Head(events).pid = Head(events).tid
  BY <1>2 DEF SourceInv, BatchInv
<1>4. \A i \in DOMAIN events' :
         events'[i].kind \in {"fork", "exec"} => events'[i].pid = events'[i].tid
  <2>1. \A i \in DOMAIN events' : i + 1 \in DOMAIN events /\ events'[i] = events[i + 1]
    BY <1>1
  <2> QED BY <2>1 DEF SourceInv, BatchInv
<1>5. \A x : Holds(events, x) => Holds(events', x) \/ Head(events) = x
  BY <1>1, TailHolds
<1>6. \A e, next : Precedes(events, e, next) =>
         Precedes(events', e, next) \/ (Head(events) = e /\ Holds(events', next))
  BY <1>1, TailHolds
<1>7. \A q : Started(events, q) =>
         Started(events', q) \/ (Starts(Head(events), q) /\ NoExit(events', q))
  BY <1>1, TailStarted
<1>8. \A q : NoExit(events, q) => NoExit(events', q) /\ Head(events) # ExitOf(q)
  BY <1>1, TailStarted
<1> QED BY <1>1, <1>2, <1>3, <1>4, <1>5, <1>6, <1>7, <1>8

(***************************************************************************)
(* What handling an event must do to keep the invariant: a start gets its  *)
(* process tracked, only its exit drops one that is heard, and the exit of *)
(* a thread makes room for its tid, so that a clone gets it placed.        *)
(***************************************************************************)
LEMMA HandleKeeps ==
    ASSUME SourceInv, HandleOne,
           tracked' \subseteq Tasks, applied' \in [Tasks -> SUBSET Tasks],
           placed \subseteq placed', placed' \subseteq Tasks, heard' \subseteq heard,
           ended' \subseteq ended \cap tracked',
           \A p \in Tasks \ tracked' : applied'[p] = {},
           \A q \in heard' : Starts(Head(events), q) => q \in tracked',
           \A q \in heard' : q \in tracked /\ Head(events) # ExitOf(q) => q \in tracked',
           \A p \in ended' : Head(events) # ExitOf(p),
           \A g, t \in Tasks : group[t] = g /\ t \in applied'[g] =>
               t \in applied[g] \/ t \in placed',
           \A g, t \in Tasks : Head(events) = ThreadExit(g, t) => t \notin applied'[g],
           \A g \in Tasks : \A t \in heard' : Head(events) = CloneOf(g, t) /\ group[t] = g =>
               t \in applied[g] \/ t \in placed'
    PROVE  SourceInv'
<1> DEFINE ev == Head(events)
<1>1. /\ UNCHANGED <<snapshot, phase, todo, reading, group, name, incidents, keys, filter, queue,
                     cfg, pending, scanDone, scanned>>
      /\ Pending' = Pending /\ events' \in Seq(Event)
      /\ phase = "handle" /\ scanned = {} /\ scanDone /\ reading = NotReading
  BY HandleFacts DEF Pending
<1>2. TypeOK'
  <2>1. heard' \subseteq Tasks /\ ended' \subseteq tracked'
    BY DEF SourceInv, TypeOK
  <2> QED BY <1>1, <2>1 DEF SourceInv, TypeOK
<1>3. TaskInv'
  BY <1>1 DEF SourceInv, TaskInv, IsProcess
<1>4. BatchInv'
  <2>1. \A i \in DOMAIN events' :
           events'[i].kind \in {"fork", "exec"} => events'[i].pid = events'[i].tid
    BY HandleFacts
  <2> QED BY <1>1, <2>1 DEF SourceInv, BatchInv, NotReading
<1>5. HeardInv'
  <2> SUFFICES ASSUME NEW q \in heard', group[q] = q, name[q] # "other"
               PROVE  WillBeTracked(q)'
    BY <1>1 DEF HeardInv, IsProcess
  <2>1. \/ Started(queue, q)
        \/ /\ NoExit(queue, q)
           /\ \/ q \in Pending \/ reading.tid = q
              \/ Started(events, q) \/ (NoExit(events, q) /\ q \in tracked)
    BY DEF SourceInv, HeardInv, IsProcess, WillBeTracked
  <2>2. Started(events, q) => Started(events', q) \/ (NoExit(events', q) /\ q \in tracked')
    BY HandleFacts
  <2>3. NoExit(events, q) /\ q \in tracked => NoExit(events', q) /\ q \in tracked'
    BY HandleFacts
  <2> QED BY <1>1, <2>1, <2>2, <2>3 DEF WillBeTracked
<1>6. EndedInv'
  <2> SUFFICES ASSUME NEW p \in ended' PROVE ExitComes(p)'
    BY DEF EndedInv
  <2>1. Holds(queue, ExitOf(p)) \/ Holds(events, ExitOf(p))
    BY DEF SourceInv, EndedInv, ExitComes
  <2>2. Holds(events, ExitOf(p)) => Holds(events', ExitOf(p))
    BY HandleFacts
  <2> QED BY <1>1, <2>1, <2>2 DEF ExitComes, ExitOf
<1>7. ThreadInv'
  <2> SUFFICES ASSUME NEW t \in heard', NEW g \in Tasks \ {t}, group[t] = g, t \notin placed'
               PROVE  WillBePlaced(g, t)'
    BY <1>1 DEF ThreadInv, WillBePlaced
  <2> DEFINE e == ThreadExit(g, t)
             f == ForkOf(t)
             c == CloneOf(g, t)
             stale == t \in applied[g]
             left == t \in applied'[g]
  <2>0. t \in Tasks /\ e # c
    BY DEF SourceInv, TypeOK, ThreadExit, CloneOf
  <2>1. \/ Due(queue, e, f, stale /\ ~Holds(events, e))
        \/ (t \in Pending \/ reading.tid = t) /\ (stale => Holds(events, e))
        \/ Due(events, e, c, stale)
    BY DEF SourceInv, ThreadInv, WillBePlaced
  <2>2. left => stale /\ ev # e
    BY <2>0
  <2>3. Holds(events, e) => Holds(events', e) \/ ev = e
    BY HandleFacts
  <2>4. CASE Due(queue, e, f, stale /\ ~Holds(events, e))
    <3>1. Holds(queue, f)
      BY <2>4, PrecedesHolds DEF Due
    <3>2. Due(queue, e, f, left /\ ~Holds(events', e))
      BY <2>2, <2>3, <2>4, <3>1 DEF Due
    <3> QED BY <1>1, <3>2 DEF WillBePlaced, Due, ThreadExit, ForkOf
  <2>5. CASE (t \in Pending \/ reading.tid = t) /\ (stale => Holds(events, e))
    <3>1. left => Holds(events', e)
      BY <2>2, <2>3, <2>5
    <3> QED BY <1>1, <2>5, <3>1 DEF WillBePlaced, ThreadExit
  <2>6. CASE Due(events, e, c, stale)
    <3>1. Holds(events, c)
      BY <2>6, PrecedesHolds DEF Due
    <3>2. CASE stale
      <4>1. Precedes(events', e, c) \/ (ev = e /\ Holds(events', c))
        BY <2>6, <3>2, HandleFacts DEF Due
      <4>2. Due(events', e, c, left)
        BY <2>2, <4>1, PrecedesHolds DEF Due
      <4> QED BY <4>2 DEF WillBePlaced, Due, ThreadExit, CloneOf
    <3>3. CASE ~stale
      <4>1. ev # c
        BY <2>0, <3>3
      <4>2. Due(events', e, c, left)
        BY <2>2, <3>1, <3>3, <4>1, HandleFacts DEF Due
      <4> QED BY <4>2 DEF WillBePlaced, Due, ThreadExit, CloneOf
    <3> QED BY <3>2, <3>3
  <2> QED BY <2>1, <2>4, <2>5, <2>6
<1> QED BY <1>2, <1>3, <1>4, <1>5, <1>6, <1>7 DEF SourceInv

\* A task of a process is among its threads.
LEMMA OwnThread ==
    ASSUME SourceInv, NEW g \in Tasks, NEW t \in Tasks, group[t] = g
    PROVE  t \in ThreadsOf(g)
BY DEF SourceInv, TaskInv, ThreadsOf, IsProcess, NoTask, Tasks

LEMMA RefreshHandled ==
    ASSUME SourceInv, HandleOne, Head(events).kind # "exit", Refreshed(Head(events).pid),
           UNCHANGED <<heard, ended>>
    PROVE  SourceInv'
<1> DEFINE ev == Head(events)
           p == ev.pid
<1>1. /\ p \in Tasks /\ ev.tid \in Tasks
      /\ ev.kind \in {"fork", "exec"} => p = ev.tid
  BY HandleFacts DEF Event
<1>2. /\ tracked' = tracked \cup {p} /\ applied' = [applied EXCEPT ![p] = ThreadsOf(p)]
      /\ placed' = placed \cup ThreadsOf(p) /\ UNCHANGED <<heard, ended>>
      /\ ThreadsOf(p) \subseteq Tasks
  BY DEF Refreshed, ThreadsOf
<1>3. /\ tracked \subseteq Tasks /\ applied \in [Tasks -> SUBSET Tasks] /\ placed \subseteq Tasks
      /\ ended \subseteq tracked /\ \A x \in Tasks \ tracked : applied[x] = {}
  BY DEF SourceInv, TypeOK, TaskInv
<1>4. /\ tracked' \subseteq Tasks /\ applied' \in [Tasks -> SUBSET Tasks]
      /\ placed \subseteq placed' /\ placed' \subseteq Tasks
      /\ ended' \subseteq ended \cap tracked' /\ heard' \subseteq heard
      /\ \A x \in Tasks \ tracked' : applied'[x] = {}
  BY <1>1, <1>2, <1>3
<1>5. \A q : Starts(ev, q) => q \in tracked'
  BY <1>1, <1>2 DEF Starts
<1>6. (\A x : ev # ExitOf(x)) /\ \A g, t : ev # ThreadExit(g, t)
  BY DEF ExitOf, ThreadExit
<1>7. \A g, t \in Tasks : group[t] = g /\ t \in applied'[g] => t \in applied[g] \/ t \in placed'
  BY <1>1, <1>2, <1>3
<1>8. \A g \in Tasks : \A t \in heard' :
         ev = CloneOf(g, t) /\ group[t] = g => t \in placed'
  BY <1>1, <1>2, OwnThread DEF CloneOf
<1> HIDE DEF p
<1> QED BY <1>2, <1>4, <1>5, <1>6, <1>7, <1>8, HandleKeeps

LEMMA CloneHandled ==
    ASSUME SourceInv, HandleOne, HandleClone(Head(events))
    PROVE  SourceInv'
<1> DEFINE ev == Head(events)
           p == ev.pid
           u == ev.tid
<1>1. p \in Tasks /\ u \in Tasks /\ ev.kind = "clone" /\ p \in tracked
  BY HandleFacts DEF Event, HandleClone
<1>2. PICK S \in {applied[p], {}} :
         /\ \/ applied' = [applied EXCEPT ![p] = S \cup {u}]
            \/ applied' = [applied EXCEPT ![p] = S]
         /\ placed' = placed \cup (({u} \cap ThreadsOf(p)) \ S)
         /\ UNCHANGED <<tracked, heard, ended>>
  BY DEF HandleClone, Recorded
<1>3. /\ tracked \subseteq Tasks /\ applied \in [Tasks -> SUBSET Tasks] /\ placed \subseteq Tasks
      /\ ended \subseteq tracked /\ \A x \in Tasks \ tracked : applied[x] = {}
  BY DEF SourceInv, TypeOK, TaskInv
<1>4. /\ tracked' \subseteq Tasks /\ applied' \in [Tasks -> SUBSET Tasks]
      /\ placed \subseteq placed' /\ placed' \subseteq Tasks
      /\ ended' \subseteq ended \cap tracked' /\ heard' \subseteq heard
      /\ \A x \in Tasks \ tracked' : applied'[x] = {}
  BY <1>1, <1>2, <1>3
<1>5. /\ \A q : ~Starts(ev, q) /\ ev # ExitOf(q)
      /\ \A g, t : ev # ThreadExit(g, t)
      /\ \A g, t : ev = CloneOf(g, t) => g = p /\ t = u
  BY <1>1 DEF Starts, ExitOf, ThreadExit, CloneOf
<1>6. group[u] = p => u \in applied[p] \/ u \in placed'
  <2>1. group[u] = p => u \in ThreadsOf(p)
    BY <1>1, OwnThread
  <2> QED BY <1>2, <2>1
<1>7. \A g, t \in Tasks : t \in applied'[g] => t \in applied[g] \/ (g = p /\ t = u)
  BY <1>1, <1>2, <1>3
<1> HIDE DEF p, u
<1> QED BY <1>2, <1>4, <1>5, <1>6, <1>7, HandleKeeps

\* A process that is given up is no longer heard, and dropped or left alone.
LEMMA GivenUp ==
    ASSUME SourceInv, HandleOne, Head(events).kind \in {"fork", "clone", "exec"},
           \/ heard' = heard \ {Head(events).pid}
           \/ heard' = heard \ {Head(events).pid, Head(events).tid},
           Head(events).kind = "clone" => Head(events).tid \notin heard',
           UNCHANGED placed, Dropped(Head(events).pid) \/ UNCHANGED <<tracker, ended>>
    PROVE  SourceInv'
<1> DEFINE ev == Head(events)
           p == ev.pid
<1>1. p \in Tasks /\ ev.kind # "exit" /\ (ev.kind \in {"fork", "exec"} => p = ev.tid)
  BY HandleFacts DEF Event
<1>2. heard' \subseteq heard /\ p \notin heard'
  OBVIOUS
<1>3. \/ /\ tracked' = tracked \ {p} /\ applied' = [applied EXCEPT ![p] = {}]
         /\ ended' = ended \ {p}
      \/ UNCHANGED <<tracked, applied, ended>>
  BY DEF Dropped, tracker
<1>4. /\ tracked \subseteq Tasks /\ applied \in [Tasks -> SUBSET Tasks] /\ placed \subseteq Tasks
      /\ ended \subseteq tracked /\ \A x \in Tasks \ tracked : applied[x] = {}
  BY DEF SourceInv, TypeOK, TaskInv
<1>5. /\ tracked' \subseteq Tasks /\ applied' \in [Tasks -> SUBSET Tasks]
      /\ placed \subseteq placed' /\ placed' \subseteq Tasks
      /\ ended' \subseteq ended \cap tracked'
      /\ \A x \in Tasks \ tracked' : applied'[x] = {}
  BY <1>1, <1>3, <1>4
<1>6. /\ \A q : Starts(ev, q) => q = p
      /\ \A q : ev # ExitOf(q)
      /\ \A g, t : ev # ThreadExit(g, t)
      /\ \A g : \A t \in heard' : ev # CloneOf(g, t)
  BY <1>1 DEF Starts, ExitOf, ThreadExit, CloneOf
<1>7. \A q \in heard' : q # p /\ (q \in tracked => q \in tracked')
  BY <1>2, <1>3
<1>8. \A g, t \in Tasks : t \in applied'[g] => t \in applied[g]
  BY <1>1, <1>3, <1>4
<1> HIDE DEF p
<1> QED BY <1>2, <1>5, <1>6, <1>7, <1>8, HandleKeeps

LEMMA DiscardHandled ==
    ASSUME SourceInv, HandleOne, Discard(Head(events))
    PROVE  SourceInv'
BY GivenUp DEF Discard

LEMMA ExecHandled ==
    ASSUME SourceInv, HandleOne, HandleExec(Head(events))
    PROVE  SourceInv'
<1> DEFINE ev == Head(events)
           p == ev.pid
<1>1. ev.kind = "exec"
  BY DEF HandleExec
<1>2. CASE Refreshed(p) /\ UNCHANGED <<heard, ended>>
  BY <1>1, <1>2, RefreshHandled
<1>3. CASE heard' = heard \ {p} /\ UNCHANGED placed /\ (Dropped(p) \/ UNCHANGED <<tracker, ended>>)
  BY <1>1, <1>3, GivenUp
<1> QED BY <1>2, <1>3 DEF HandleExec

LEMMA ExitHandled ==
    ASSUME SourceInv, HandleOne, HandleExit(Head(events))
    PROVE  SourceInv'
<1> DEFINE ev == Head(events)
           p == ev.pid
           u == ev.tid
<1>1. p \in Tasks /\ u \in Tasks /\ ev.kind = "exit"
  BY HandleFacts DEF Event, HandleExit
<1>2. /\ \/ /\ u = p /\ tracked' = tracked \ {p} /\ applied' = [applied EXCEPT ![p] = {}]
            /\ ended' = ended \ {p}
         \/ /\ u # p /\ applied' = [applied EXCEPT ![p] = applied[p] \ {u}]
            /\ UNCHANGED <<tracked, ended>>
      /\ UNCHANGED <<heard, placed>>
  BY DEF HandleExit, Dropped
<1>3. /\ tracked \subseteq Tasks /\ applied \in [Tasks -> SUBSET Tasks] /\ placed \subseteq Tasks
      /\ ended \subseteq tracked /\ \A x \in Tasks \ tracked : applied[x] = {}
  BY DEF SourceInv, TypeOK, TaskInv
<1>4. /\ tracked' \subseteq Tasks /\ applied' \in [Tasks -> SUBSET Tasks]
      /\ placed \subseteq placed' /\ placed' \subseteq Tasks
      /\ ended' \subseteq ended \cap tracked' /\ heard' \subseteq heard
      /\ \A x \in Tasks \ tracked' : applied'[x] = {}
  BY <1>1, <1>2, <1>3
<1>5. /\ \A q : ~Starts(ev, q)
      /\ \A q : ev = ExitOf(q) => q = p /\ u = p
      /\ \A g, t : ev = ThreadExit(g, t) => g = p /\ t = u
      /\ \A g, t : ev # CloneOf(g, t)
  BY <1>1 DEF Starts, ExitOf, ThreadExit, CloneOf
<1>6. u = p => ev = ExitOf(p)
  <2>1. ev = [kind |-> ev.kind, pid |-> ev.pid, tid |-> ev.tid]
    BY HandleFacts DEF Event
  <2> QED BY <1>1, <2>1 DEF ExitOf
<1>7. u \notin applied'[p] /\ \A g, t \in Tasks : t \in applied'[g] => t \in applied[g]
  BY <1>1, <1>2, <1>3
<1>8. \A q \in heard' : q \in tracked /\ ev # ExitOf(q) => q \in tracked'
  BY <1>2, <1>6
<1>9. \A q \in ended' : ev # ExitOf(q)
  BY <1>2, <1>5
<1> HIDE DEF p, u
<1> QED BY <1>4, <1>5, <1>7, <1>8, <1>9, HandleKeeps

LEMMA HandleOneKeeps == ASSUME SourceInv, HandleOne PROVE SourceInv'
<1> DEFINE ev == Head(events)
<1>1. CASE HandleFork(ev)
  BY <1>1, RefreshHandled DEF HandleFork
<1>2. CASE HandleClone(ev)
  BY <1>2, CloneHandled
<1>3. CASE RescanForClone(ev)
  BY <1>3, RefreshHandled DEF RescanForClone
<1>4. CASE HandleExec(ev)
  BY <1>4, ExecHandled
<1>5. CASE HandleExit(ev)
  BY <1>5, ExitHandled
<1>6. CASE Discard(ev)
  BY <1>6, DiscardHandled
<1> QED BY <1>1, <1>2, <1>3, <1>4, <1>5, <1>6 DEF HandleOne

-----------------------------------------------------------------------------
(* Between two polls: cleanup, relock and reload.                          *)

LEMMA BetweenPolls ==
    ASSUME SourceInv, phase \in {"top", "rekey"}
    PROVE  /\ events = <<>> /\ scanned = {} /\ reading = NotReading
           /\ reading.tid = NoTask /\ NoTask \notin Tasks
           /\ \A e : ~Holds(events, e)
           /\ \A e, next : ~Precedes(events, e, next)
           /\ \A p : ~Started(events, p) /\ NoExit(events, p)
<1>1. events = <<>> /\ scanned = {} /\ reading = NotReading
  BY DEF SourceInv, BatchInv
<1>2. DOMAIN events = {}
  BY <1>1
<1> QED BY <1>1, <1>2 DEF Holds, Precedes, Started, NoExit, NotReading, NoTask, Tasks

(***************************************************************************)
(* What a step between two polls must do to keep the invariant: what is    *)
(* heard stays tracked and pending, and its threads are recorded as        *)
(* applied only if they are placed.                                        *)
(***************************************************************************)
LEMMA LoopKeeps ==
    ASSUME SourceInv, phase \in {"top", "rekey"}, phase' \in {"top", "rekey"},
           UNCHANGED <<kernel, filter, queue, scanDone, scanned, snapshot, reading, events>>,
           cfg' \in BOOLEAN, keys' \in BOOLEAN, todo' \subseteq Tasks,
           pending' \in [Tasks -> -1..MaxRetries], Cardinality(Pending') <= MaxPending,
           heard' \subseteq heard, tracked' \subseteq tracked,
           \A q \in heard' : q \in Pending => q \in Pending',
           \A q \in heard' : q \in tracked => q \in tracked',
           ended' \subseteq ended \cap tracked',
           placed \subseteq placed', placed' \subseteq Tasks,
           applied' \in [Tasks -> SUBSET Tasks],
           \A p \in Tasks \ tracked' : applied'[p] = {},
           \A t \in heard' : \A g \in Tasks \ {t} : group[t] = g /\ t \in applied'[g] =>
               t \in applied[g] \/ t \in placed'
    PROVE  SourceInv'
<1>1. UNCHANGED <<group, name, incidents>>
  BY DEF kernel
<1>2. TypeOK'
  BY <1>1 DEF SourceInv, TypeOK
<1>3. TaskInv'
  BY <1>1 DEF SourceInv, TaskInv, IsProcess
<1>4. BatchInv'
  BY BetweenPolls DEF SourceInv, BatchInv, NotReading
<1>5. HeardInv'
  <2> SUFFICES ASSUME NEW q \in heard', group[q] = q, name[q] # "other"
               PROVE  WillBeTracked(q)'
    BY <1>1 DEF HeardInv, IsProcess
  <2>1. \/ Started(queue, q)
        \/ NoExit(queue, q) /\ (q \in Pending \/ reading.tid = q \/ q \in tracked)
    BY BetweenPolls DEF SourceInv, HeardInv, IsProcess, WillBeTracked
  <2>2. NoExit(events', q)
    BY BetweenPolls
  <2> QED BY <2>1, <2>2 DEF WillBeTracked
<1>6. EndedInv'
  BY BetweenPolls DEF SourceInv, EndedInv, ExitComes
<1>7. ThreadInv'
  <2> SUFFICES ASSUME NEW t \in heard', NEW g \in Tasks \ {t}, group[t] = g, t \notin placed'
               PROVE  WillBePlaced(g, t)'
    BY <1>1 DEF ThreadInv, WillBePlaced
  <2> DEFINE e == ThreadExit(g, t)
             f == ForkOf(t)
             c == CloneOf(g, t)
             stale == t \in applied[g]
             left == t \in applied'[g]
  <2>1. t \in Tasks /\ t # reading.tid
    BY BetweenPolls DEF SourceInv, TypeOK
  <2>2. left => stale
    BY <2>1
  <2>3. /\ \A x : ~Holds(events, x)
        /\ ~Due(events, e, c, stale)
    BY BetweenPolls DEF Due
  <2>4. Due(queue, e, f, stale) \/ (t \in Pending /\ ~stale)
    BY <2>1, <2>3 DEF SourceInv, ThreadInv, WillBePlaced, Due
  <2>5. CASE Due(queue, e, f, stale)
    <3>1. Holds(queue, f)
      BY <2>5, PrecedesHolds DEF Due
    <3>2. Due(queue, e, f, left /\ ~Holds(events', e))
      BY <2>2, <2>3, <2>5, <3>1 DEF Due
    <3> QED BY <3>2 DEF WillBePlaced, Due, ThreadExit, ForkOf
  <2>6. CASE t \in Pending /\ ~stale
    BY <2>2, <2>6 DEF WillBePlaced
  <2> QED BY <2>4, <2>5, <2>6
<1> QED BY <1>2, <1>3, <1>4, <1>5, <1>6, <1>7 DEF SourceInv

LEMMA RelockAllFacts ==
    ASSUME SourceInv, NEW S \in SUBSET tracked, NEW interest \in BOOLEAN, RelockAll(S, interest)
    PROVE  /\ tracked' \subseteq tracked /\ ended' \subseteq ended \cap tracked'
           /\ \A q \in heard : q \in S => q \in tracked'
           /\ placed \subseteq placed' /\ placed' \subseteq Tasks
           /\ applied' \in [Tasks -> SUBSET Tasks]
           /\ \A p \in Tasks \ tracked' : applied'[p] = {}
           /\ \A g, t \in Tasks : interest /\ t \in applied'[g] =>
                 t \in applied[g] \/ t \in placed'
<1>1. PICK allowed \in SUBSET Alive(S) :
         /\ tracked' = Alive(S) /\ ended' = ended \cap Alive(S)
         /\ applied' = [p \in Tasks |-> IF p \in allowed THEN ThreadsOf(p)
                                       ELSE IF p \in tracked' THEN applied[p] ELSE {}]
         /\ placed' = IF interest THEN placed \cup UNION {ThreadsOf(p) : p \in allowed} ELSE placed
  BY DEF RelockAll, Retained
<1>2. Alive(S) \subseteq S /\ \A q \in heard : q \in S => q \in Alive(S)
  BY DEF Alive, SourceInv, TaskInv
<1>3. \A p : ThreadsOf(p) \subseteq Tasks
  BY DEF ThreadsOf
<1>4. placed' \subseteq Tasks
  BY <1>1, <1>3 DEF SourceInv, TypeOK
<1>5. applied' \in [Tasks -> SUBSET Tasks]
  BY <1>1, <1>3 DEF SourceInv, TypeOK
<1>6. interest => \A p \in allowed : ThreadsOf(p) \subseteq placed'
  BY <1>1
<1>7. ASSUME interest, NEW g \in Tasks, NEW t \in Tasks, t \in applied'[g]
      PROVE  t \in applied[g] \/ t \in placed'
  BY <1>1, <1>6, <1>7
<1>8. \A p \in Tasks \ tracked' : applied'[p] = {}
  BY <1>1
<1> QED BY <1>1, <1>2, <1>4, <1>5, <1>7, <1>8

LEMMA CleanupKeeps == ASSUME SourceInv, CleanupDead PROVE SourceInv'
<1>1. /\ phase = "top" /\ tracked' = Alive(tracked) /\ ended' = ended \cap Alive(tracked)
      /\ applied' = [p \in Tasks |-> IF p \in tracked' THEN applied[p] ELSE {}]
      /\ UNCHANGED <<kernel, keys, filter, queue, cfg, pending, scanDone, scanned, snapshot, phase, todo,
                     reading, events, heard, placed>>
      /\ Pending' = Pending
  BY DEF CleanupDead, Retained, maps, source, poll, Pending
<1>2. Alive(tracked) \subseteq tracked /\ \A q \in heard : q \in tracked => q \in Alive(tracked)
  BY DEF Alive, SourceInv, TaskInv
<1>3. /\ applied' \in [Tasks -> SUBSET Tasks]
      /\ \A p \in Tasks \ tracked' : applied'[p] = {}
      /\ \A g, t \in Tasks : t \in applied'[g] => t \in applied[g]
  BY <1>1 DEF SourceInv, TypeOK
<1>4. /\ cfg \in BOOLEAN /\ keys \in BOOLEAN /\ todo \subseteq Tasks /\ placed \subseteq Tasks
      /\ pending \in [Tasks -> -1..MaxRetries] /\ Cardinality(Pending) <= MaxPending
  BY DEF SourceInv, TypeOK
<1> QED BY <1>1, <1>2, <1>3, <1>4, LoopKeeps

LEMMA RelockKeeps == ASSUME SourceInv, Relock PROVE SourceInv'
<1>1. /\ phase = "top" /\ RelockAll(tracked, snapshot)
      /\ heard' = IF snapshot THEN heard ELSE heard \ NewlyApplied
      /\ UNCHANGED <<kernel, keys, filter, queue, cfg, pending, scanDone, scanned, snapshot, phase,
                     todo, reading, events>>
      /\ Pending' = Pending
  BY DEF Relock, maps, source, poll, Pending
<1>2. /\ cfg \in BOOLEAN /\ keys \in BOOLEAN /\ todo \subseteq Tasks /\ heard \subseteq Tasks
      /\ pending \in [Tasks -> -1..MaxRetries] /\ Cardinality(Pending) <= MaxPending
      /\ snapshot \in BOOLEAN
  BY DEF SourceInv, TypeOK
<1>3. heard' \subseteq heard
  BY <1>1
<1>4. /\ tracked' \subseteq tracked /\ ended' \subseteq ended \cap tracked'
      /\ \A q \in heard' : q \in tracked => q \in tracked'
      /\ placed \subseteq placed' /\ placed' \subseteq Tasks
      /\ applied' \in [Tasks -> SUBSET Tasks]
      /\ \A p \in Tasks \ tracked' : applied'[p] = {}
      /\ \A g, t \in Tasks : snapshot /\ t \in applied'[g] => t \in applied[g] \/ t \in placed'
  BY <1>1, <1>2, <1>3, RelockAllFacts
<1>5. \A t \in heard' : \A g \in Tasks \ {t} : t \in applied'[g] =>
         t \in applied[g] \/ t \in placed'
  <2>1. CASE snapshot
    BY <1>2, <1>3, <1>4, <2>1
  <2>2. CASE ~snapshot
    BY <1>1, <1>2, <2>2 DEF NewlyApplied
  <2> QED BY <2>1, <2>2
<1> QED BY <1>1, <1>2, <1>3, <1>4, <1>5, LoopKeeps

LEMMA RekeyKeeps == ASSUME SourceInv, Rekey PROVE SourceInv'
<1> DEFINE S == IF cfg THEN tracked ELSE {}
<1>1. /\ phase = "rekey" /\ phase' = "top" /\ todo' = {} /\ keys' = cfg /\ RelockAll(S, cfg)
      /\ heard' = IF cfg THEN heard ELSE heard \ tracked
      /\ UNCHANGED <<kernel, filter, queue, cfg, pending, scanDone, scanned, snapshot, reading, events>>
      /\ Pending' = Pending
  BY DEF Rekey, Goto, source, Pending
<1>2. /\ cfg \in BOOLEAN /\ heard \subseteq Tasks
      /\ pending \in [Tasks -> -1..MaxRetries] /\ Cardinality(Pending) <= MaxPending
  BY DEF SourceInv, TypeOK
<1>3. S \in SUBSET tracked /\ heard' \subseteq heard /\ \A q \in heard' : q \in tracked => q \in S
  BY <1>1
<1>4. ~cfg => S = {}
  OBVIOUS
<1> HIDE DEF S
<1>5. /\ tracked' \subseteq tracked /\ ended' \subseteq ended \cap tracked'
      /\ \A q \in heard : q \in S => q \in tracked'
      /\ placed \subseteq placed' /\ placed' \subseteq Tasks
      /\ applied' \in [Tasks -> SUBSET Tasks]
      /\ \A p \in Tasks \ tracked' : applied'[p] = {}
      /\ \A g, t \in Tasks : cfg /\ t \in applied'[g] => t \in applied[g] \/ t \in placed'
  BY <1>1, <1>2, <1>3, RelockAllFacts
<1>6. ~cfg => tracked' = {}
  BY <1>1, <1>4 DEF RelockAll, Retained, Alive
<1>7. \A t \in heard' : \A g \in Tasks : t \in applied'[g] =>
         t \in applied[g] \/ t \in placed'
  BY <1>2, <1>3, <1>5, <1>6
<1> QED BY <1>1, <1>2, <1>3, <1>5, <1>7, LoopKeeps

LEMMA ConfigKeeps ==
    ASSUME SourceInv, NEW interest \in Interests, ConfigChanged(interest)
    PROVE  SourceInv'
<1>1. /\ phase = "top" /\ phase' = "rekey" /\ todo' = {} /\ keys' = FALSE /\ cfg' = interest
      /\ pending' = [t \in Tasks |-> NotPending] /\ heard' = heard \ Pending
      /\ UNCHANGED <<kernel, filter, queue, scanDone, scanned, snapshot, reading, events, tracked, applied,
                     ended, placed>>
  BY DEF ConfigChanged, Goto, tracker
<1>2. cfg' \in BOOLEAN
  BY <1>1, SourceAssumption
<1>3. pending' \in [Tasks -> -1..MaxRetries] /\ Pending' = {}
  BY <1>1, SourceAssumption DEF NotPending, Pending
<1>4. Cardinality(Pending') <= MaxPending
  BY <1>3, FS_EmptySet, SourceAssumption
<1>5. /\ ended \subseteq tracked /\ placed \subseteq Tasks /\ applied \in [Tasks -> SUBSET Tasks]
      /\ \A p \in Tasks \ tracked : applied[p] = {}
  BY DEF SourceInv, TypeOK, TaskInv
<1> QED BY <1>1, <1>2, <1>3, <1>4, <1>5, LoopKeeps

-----------------------------------------------------------------------------
(* The theorems.                                                           *)

LEMMA InitHolds == Init => SourceInv
<1> SUFFICES ASSUME Init PROVE SourceInv
  OBVIOUS
<1>1. Pending = {} /\ Cardinality(Pending) <= MaxPending
  <2>1. Pending = {}
    BY DEF Init, Pending
  <2> QED BY <2>1, FS_EmptySet, SourceAssumption
<1>2. DOMAIN queue = {} /\ DOMAIN events = {}
  BY DEF Init
<1>3. TypeOK
  <2>1. /\ queue \in Seq(Raw) /\ events \in Seq(Event)
        /\ pending \in [Tasks -> -1..MaxRetries]
        /\ reading \in [tid : 0..MaxTask, pkg : Names]
    BY SourceAssumption DEF Init, NotPending, NotReading, NoTask, Names
  <2>2. incidents \in 0..MaxIncidents /\ cfg \in BOOLEAN /\ snapshot \in BOOLEAN
    BY SourceAssumption DEF Init
  <2> QED BY <1>1, <2>1, <2>2 DEF Init, TypeOK
<1>4. TaskInv /\ HeardInv /\ EndedInv /\ ThreadInv
  BY DEF Init, TaskInv, HeardInv, EndedInv, ThreadInv
<1>5. BatchInv
  BY <1>1, <1>2 DEF Init, BatchInv
<1> QED BY <1>3, <1>4, <1>5 DEF SourceInv

LEMMA NextKeeps == SourceInv /\ [Next]_vars => SourceInv'
<1> SUFFICES ASSUME SourceInv, [Next]_vars PROVE SourceInv'
  OBVIOUS
<1>1. CASE KernelNext
  BY <1>1, KernelNextKeeps
<1>2. CASE LoopStep
  <2>1. CASE \/ StartPoll \/ ScanEnds \/ DrainEnds \/ FlushEnds \/ NoSync \/ BatchDone
             \/ \E t \in Tasks : NotRipe(t)
    BY <2>1, QuietSteps
  <2>2. CASE \E t \in Tasks : ScanOne(t)
    BY <2>2, ScanKeeps
  <2> QED BY <1>2, <2>1, <2>2, ClassifyKeeps, HandleOneKeeps, RekeyKeeps DEF LoopStep
<1>3. CASE DrainOne
  BY <1>3, DrainOneKeeps
<1>4. CASE TrackedSync
  BY <1>4, QuietSteps
<1>5. CASE CleanupDead \/ Relock
  BY <1>5, CleanupKeeps, RelockKeeps
<1>6. CASE \E t \in Tasks : Ripe(t)
  BY <1>6, RipeKeeps
<1>7. CASE \E interest \in Interests : ConfigChanged(interest)
  BY <1>7, ConfigKeeps
<1>8. CASE UNCHANGED vars
  <2>1. UNCHANGED vars
    BY <1>8
  <2>2. Pending' = Pending
    BY <2>1 DEF vars, Pending
  <2>3. TypeOK' /\ TaskInv' /\ BatchInv'
    BY <2>1, <2>2 DEF vars, SourceInv, TypeOK, TaskInv, BatchInv, IsProcess, Started
  <2>4. HeardInv' /\ EndedInv'
    BY <2>1, <2>2 DEF vars, SourceInv, HeardInv, EndedInv, WillBeTracked, ExitComes, IsProcess
  <2>5. ThreadInv'
    BY <2>1, <2>2 DEF vars, SourceInv, ThreadInv, WillBePlaced, ThreadExit, ForkOf, CloneOf
  <2> QED BY <2>3, <2>4, <2>5 DEF SourceInv
<1> QED BY <1>1, <1>2, <1>3, <1>4, <1>5, <1>6, <1>7, <1>8 DEF Next

(***************************************************************************)
(* In every reachable state, the lists of events and the sets of pending,  *)
(* scanned and tracked tasks are related as SourceInv says.                *)
(***************************************************************************)
THEOREM SourceInvariant == Spec => []SourceInv
<1>1. Init => SourceInv
  BY InitHolds
<1>2. SourceInv /\ [Next]_vars => SourceInv'
  BY NextKeeps
<1> QED BY <1>1, <1>2, PTL DEF Spec

(***************************************************************************)
(* The variables keep their types, and the pending queue its limit         *)
(* (PENDING_MAX_PENDING).                                                  *)
(***************************************************************************)
THEOREM SourceTypes == Spec => []TypeOK
<1>1. SourceInv => TypeOK
  BY DEF SourceInv
<1> QED BY <1>1, SourceInvariant, PTL

(***************************************************************************)
(* A process whose fork or exec came through is tracked or on its way to   *)
(* be, whatever exits of earlier processes with its pid, scans, reloads    *)
(* and relocks come in between, until it is given up: a handler whose      *)
(* snapshot of the configuration is not interested throws its event away.  *)
(***************************************************************************)
THEOREM AnnouncedStays == Spec => []AnnouncedIsNotLost
<1>1. SourceInv => AnnouncedIsNotLost
  <2> SUFFICES ASSUME SourceInv, NEW p \in heard, IsProcess(p), name[p] = "app"
               PROVE  p \in tracked \/ OnItsWay(p, {"fork", "exec"})
    BY DEF AnnouncedIsNotLost, Interested
  <2>1. WillBeTracked(p)
    BY DEF SourceInv, HeardInv
  <2>2. /\ Started(queue, p) => OnItsWay(p, {"fork", "exec"})
        /\ Started(events, p) => OnItsWay(p, {"fork", "exec"})
    BY DEF Started, Starts, OnItsWay
  <2> QED BY <2>1, <2>2 DEF WillBeTracked, OnItsWay
<1> QED BY <1>1, SourceInvariant, PTL

(***************************************************************************)
(* A thread whose fork came through has its policy or its clone is on its  *)
(* way, even if the tracker still holds an earlier thread with its tid:    *)
(* the exit of that one goes before (IMPL-4). It is given up if a handler  *)
(* or a relock works on it with a snapshot that is not interested.         *)
(***************************************************************************)
THEOREM NewTidStays == Spec => []NewTidIsNotLost
<1>1. SourceInv => NewTidIsNotLost
  <2> SUFFICES ASSUME SourceInv, NEW t \in heard, group[t] \notin {t, NoTask}
               PROVE  t \in placed \/ OnItsWay(t, {"fork", "clone"})
    BY DEF NewTidIsNotLost
  <2> DEFINE g == group[t]
  <2>1. g \in Tasks \ {t}
    BY SourceAssumption DEF SourceInv, TypeOK, NoTask, Tasks
  <2>2. WillBePlaced(g, t)
    BY <2>1 DEF SourceInv, ThreadInv
  <2>3. /\ \A e, needed : Due(queue, e, ForkOf(t), needed) => Holds(queue, ForkOf(t))
        /\ \A e, needed : Due(events, e, CloneOf(g, t), needed) => Holds(events, CloneOf(g, t))
    BY PrecedesHolds DEF Due
  <2>4. /\ Holds(queue, ForkOf(t)) => OnItsWay(t, {"fork", "clone"})
        /\ Holds(events, CloneOf(g, t)) => OnItsWay(t, {"fork", "clone"})
    BY DEF Holds, ForkOf, CloneOf, OnItsWay
  <2> HIDE DEF g
  <2> QED BY <2>2, <2>3, <2>4 DEF WillBePlaced, OnItsWay
<1> QED BY <1>1, SourceInvariant, PTL

(***************************************************************************)
(* A tracked process whose exit came through leaves the tracker: its exit  *)
(* is in the queue or in the batch until it is handled.                    *)
(***************************************************************************)
THEOREM EndedStays == Spec => []EndedIsNotLost
<1>1. SourceInv => EndedIsNotLost
  BY DEF SourceInv, EndedInv, ExitComes, Holds, ExitOf, EndedIsNotLost, OnItsWay
<1> QED BY <1>1, SourceInvariant, PTL

=============================================================================
