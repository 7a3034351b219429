----------------------------- MODULE EbpfSource -----------------------------
(***************************************************************************)
(* The eBPF event source: the tracepoints of ebpf/src/main.rs and          *)
(* daemon/src/ebpf_source.rs, with the part of the main loop and of the    *)
(* engine that consumes its events.                                        *)
(*                                                                         *)
(* In the kernel, forks, execs and exits are filtered (forks and execs by  *)
(* the whitelist of comms and a debounce, exits by the map of tracked      *)
(* processes) and written to a ring buffer, which a thread copies to a     *)
(* channel. A poll scans /proc once at the start, takes events from the    *)
(* channel, retries the forks whose cmdline was not there yet, and now and *)
(* then makes the map of tracked processes equal to the tracker. The main  *)
(* loop handles the events of a poll before the next, with the snapshot of *)
(* the configuration it took as the iteration began: a reload within the   *)
(* iteration gives the source other rules than the handlers have.          *)
(*                                                                         *)
(* Tasks are processes and threads. Packages are abstracted to "app",      *)
(* which some configurations are interested in, and "other".               *)
(***************************************************************************)
EXTENDS Integers, Sequences, FiniteSets

CONSTANTS
    MaxTask,       \* task ids: 1..MaxTask, of processes and threads
    MaxPending,    \* PENDING_MAX_PENDING
    MaxRetries,    \* PENDING_MAX_RETRIES
    Interests,     \* whether the configurations are interested in "app"
    MaxIncidents,  \* bound: births, new threads, execs; tasks at the start count as one
    Watched        \* bound: task ids the liveness properties follow; ids are all alike

ASSUME SourceAssumption ==
    /\ MaxTask \in Nat \ {0} /\ MaxPending \in Nat /\ MaxRetries \in Nat
    /\ Interests \subseteq BOOLEAN /\ MaxIncidents \in Nat \ {0}
    /\ Watched \subseteq 1..MaxTask

Tasks == 1..MaxTask
NoTask == 0
NotPending == -1
Names == {"none", "empty", "app", "other"}
Raw == [kind : {"fork", "exec", "exit"}, pid : Tasks, tid : Tasks]
Event == [kind : {"fork", "clone", "exec", "exit"}, pid : Tasks, tid : Tasks]

VARIABLES
    \* the kernel
    group,      \* the process of each task; NoTask: there is no such task
    name,       \* cmdline of each process
    incidents,
    \* the eBPF program and the channel
    keys,       \* TARGET_COMM_MAP holds the keys of "app"
    filter,     \* TRACKED_TGID_MAP
    queue,      \* events in the ring buffer and the channel, oldest first
    \* EbpfSource
    cfg,        \* whether its configuration is interested in "app"
    pending,    \* retry count of each queued fork
    scanDone,   \* initial_scan_done
    scanned,    \* initial_scanned
    \* the iteration of the main loop under way
    snapshot,   \* whether the configuration it began with is interested in "app"
    phase,      \* where the main thread is
    todo,       \* tasks a loop of the poll still has to look at
    reading,    \* the fork whose cmdline has been read, with what it said
    events,     \* the batch, oldest first
    \* the tracker
    tracked,    \* pids in the tracker
    applied,    \* applied_tids of each of them
    \* history
    heard,      \* tasks whose fork or exec was announced and that were not given up
    ended,      \* tracked processes whose exit was announced
    placed      \* live threads the engine has applied rules to

kernel == <<group, name, incidents>>
maps == <<keys, filter>>
source == <<cfg, pending, scanDone, scanned>>
poll == <<snapshot, phase, todo, reading, events>>
tracker == <<tracked, applied>>
vars == <<group, name, incidents, keys, filter, queue, cfg, pending, scanDone,
          scanned, snapshot, phase, todo, reading, events, tracked, applied,
          heard, ended, placed>>

Incident == incidents < MaxIncidents /\ incidents' = incidents + 1

IsProcess(t) == group[t] = t
\* list_tids, which answers for the id of a thread as well.
ThreadsOf(p) == {t \in Tasks : group[t] = group[p] /\ group[t] # NoTask}
Pending == {t \in Tasks : pending[t] # NotPending}
Interested(n) == n = "app" /\ cfg
\* As the handlers see it.
Accepted(n) == n = "app" /\ snapshot
NotReading == [tid |-> NoTask, pkg |-> "none"]

\* read_cmdline of a task: its process's, empty if it cannot be read.
Cmdline(t) == IF group[t] = NoTask THEN "none" ELSE name[group[t]]

-----------------------------------------------------------------------------
(* The kernel and the tracepoints.                                         *)

(***************************************************************************)
(* submit_event. A fork or exec is dropped unless the comm holds one of    *)
(* the whitelist's keys, which depends on the comm of the task that forks  *)
(* or is replaced, and if it is the third of its pid within the debounce   *)
(* window; an exit unless its process is in the map of tracked ones;       *)
(* any event when the ring buffer is full.                                 *)
(***************************************************************************)
Announced(kind, p, t) == queue' = Append(queue, [kind |-> kind, pid |-> p, tid |-> t])
Announce(kind, p, t) == (keys /\ Announced(kind, p, t)) \/ UNCHANGED queue
AnnounceExit(p, t) ==
    IF p \in filter THEN Announced("exit", p, t) \/ (queue # <<>> /\ UNCHANGED queue)
    ELSE UNCHANGED queue

Birth(p) ==
    /\ group[p] = NoTask
    /\ Incident
    /\ group' = [group EXCEPT ![p] = p]
    /\ name' = [name EXCEPT ![p] = "empty"]
    /\ Announce("fork", p, p)
    /\ heard' = IF queue' # queue THEN heard \cup {p} ELSE heard
    /\ ended' = ended \ {p}
    /\ UNCHANGED <<maps, source, poll, tracker, placed>>

\* A process forked by zygote gets its name without an exec.
Named(p, n) ==
    /\ IsProcess(p) /\ name[p] = "empty"
    /\ name' = [name EXCEPT ![p] = n]
    /\ UNCHANGED <<group, incidents, maps, queue, source, poll, tracker, heard, ended, placed>>

\* The exit of an earlier thread with this tid, if its process has it among
\* the applied ones, is still to be handled.
ExitToCome(p, t) ==
    t \in applied[p] =>
        \/ \E i \in DOMAIN queue : queue[i] = [kind |-> "exit", pid |-> p, tid |-> t]
        \/ \E i \in DOMAIN events : events[i] = [kind |-> "exit", pid |-> p, tid |-> t]

NewThread(p, t) ==
    /\ IsProcess(p) /\ name[p] = "app" /\ group[t] = NoTask
    /\ Incident
    /\ group' = [group EXCEPT ![t] = p]
    /\ Announce("fork", t, t)
    /\ heard' = IF queue' # queue /\ ExitToCome(p, t) THEN heard \cup {t} ELSE heard
    /\ ended' = ended \ {t}
    /\ UNCHANGED <<name, maps, source, poll, tracker, placed>>

EndThread(p, t) ==
    /\ group[t] = p /\ t # p
    /\ group' = [group EXCEPT ![t] = NoTask]
    /\ AnnounceExit(p, t)
    /\ heard' = heard \ {t} /\ placed' = placed \ {t}
    /\ UNCHANGED <<name, incidents, maps, source, poll, tracker, ended>>

\* The other threads of a process end before it does.
EndProcess(p) ==
    /\ ThreadsOf(p) = {p}
    /\ group' = [group EXCEPT ![p] = NoTask]
    /\ name' = [name EXCEPT ![p] = "none"]
    /\ AnnounceExit(p, p)
    /\ heard' = heard \ {p} /\ placed' = placed \ {p}
    /\ ended' = IF p \in tracked /\ queue' # queue THEN ended \cup {p} ELSE ended
    /\ UNCHANGED <<incidents, maps, source, poll, tracker>>

Exec(p, n) ==
    /\ ThreadsOf(p) = {p}
    /\ Incident
    /\ name' = [name EXCEPT ![p] = n]
    /\ Announce("exec", p, p)
    /\ heard' = IF queue' # queue THEN heard \cup {p} ELSE heard \ {p}
    /\ placed' = placed \ {p}
    /\ UNCHANGED <<group, maps, source, poll, tracker, ended>>

KernelNext ==
    \E p \in Tasks :
        \/ Birth(p) \/ EndProcess(p)
        \/ \E n \in {"app", "other"} : Named(p, n) \/ Exec(p, n)
        \/ \E t \in Tasks : NewThread(p, t) \/ EndThread(p, t)

-----------------------------------------------------------------------------
(* EbpfSource::poll.                                                       *)

Emit(kind, p, t) == events' = Append(events, [kind |-> kind, pid |-> p, tid |-> t])
Goto(next, S) == phase' = next /\ todo' = S /\ UNCHANGED snapshot

StartPoll ==
    /\ phase = "top"
    /\ IF scanDone THEN Goto("drain", {}) ELSE Goto("scan", Tasks)
    /\ UNCHANGED <<reading, events, kernel, maps, queue, source, tracker, heard, ended, placed>>

\* initial_scan: the processes of /proc, in the order it lists them.
ScanOne(p) ==
    /\ phase = "scan" /\ p \in todo
    /\ todo' = todo \ {p}
    /\ IF IsProcess(p) /\ Interested(name[p])
       THEN Emit("fork", p, p) /\ scanned' = scanned \cup {p}
       ELSE UNCHANGED <<events, scanned>>
    /\ UNCHANGED <<cfg, pending, scanDone, snapshot, phase, reading, kernel, maps, queue, tracker,
                   heard, ended, placed>>

ScanEnds ==
    /\ phase = "scan" /\ todo = {}
    /\ scanDone' = TRUE
    /\ Goto("drain", {})
    /\ UNCHANGED <<cfg, pending, scanned, reading, events, kernel, maps, queue, tracker,
                   heard, ended, placed>>

(***************************************************************************)
(* handle_raw. A fork waits for its cmdline in the pending queue, unless   *)
(* the first scan has reported it; an exec is passed on; an exit is passed *)
(* on if the tracker holds its process, and takes a process out of the map *)
(* of tracked ones.                                                        *)
(***************************************************************************)
\* A thread that reuses the id of a process the first scan has reported is
\* given up.
Skipped(t) ==
    /\ heard' = IF t \in scanned /\ ~IsProcess(t) THEN heard \ {t} ELSE heard
    /\ UNCHANGED pending

\* Defect: the limit of the queue is not checked.
RawForkAny(t) ==
    /\ IF t \in scanned \/ t \in Pending THEN Skipped(t)
       ELSE pending' = [pending EXCEPT ![t] = 0] /\ UNCHANGED heard
    /\ UNCHANGED <<filter, events>>

RawFork(t) ==
    /\ IF t \in scanned \/ t \in Pending THEN Skipped(t)
       ELSE IF Cardinality(Pending) < MaxPending
       THEN pending' = [pending EXCEPT ![t] = 0] /\ UNCHANGED heard
       ELSE heard' = heard \ {t} /\ UNCHANGED pending
    /\ UNCHANGED <<filter, events>>

RawExec(p) == Emit("exec", p, p) /\ UNCHANGED <<filter, pending, heard>>

\* Defect: the process leaves the map first, and is then looked up there.
RawExitFilter(p, t) ==
    /\ filter' = IF t = p THEN filter \ {p} ELSE filter
    /\ IF p \in filter' /\ p \in tracked THEN Emit("exit", p, t) ELSE UNCHANGED events
    /\ UNCHANGED <<pending, heard>>

RawExit(p, t) ==
    /\ filter' = IF t = p THEN filter \ {p} ELSE filter
    /\ IF p \in tracked THEN Emit("exit", p, t) ELSE UNCHANGED events
    /\ UNCHANGED <<pending, heard>>

DrainOne ==
    /\ phase = "drain" /\ queue # <<>>
    /\ queue' = Tail(queue)
    /\ LET ev == Head(queue)
       IN  \/ ev.kind = "fork" /\ RawFork(ev.tid)
           \/ ev.kind = "exec" /\ RawExec(ev.pid)
           \/ ev.kind = "exit" /\ RawExit(ev.pid, ev.tid)
    /\ UNCHANGED <<keys, cfg, scanDone, scanned, snapshot, phase, todo, reading, kernel, tracker,
                   ended, placed>>

\* The reader thread has copied no more, or the batch has reached its limit.
DrainEnds ==
    /\ phase = "drain"
    /\ Goto("flush", Pending)
    /\ UNCHANGED <<reading, events, kernel, maps, queue, source, tracker, heard, ended, placed>>

(***************************************************************************)
(* flush_pending. A fork whose time has not come is kept. The task's       *)
(* cmdline and then its thread group are read from /proc, and it may end   *)
(* in between: it then counts as a process.                                *)
(***************************************************************************)
NotRipe(t) ==
    /\ phase = "flush" /\ reading = NotReading /\ t \in todo
    /\ todo' = todo \ {t}
    /\ UNCHANGED <<snapshot, phase, reading, events, kernel, maps, queue, source, tracker,
                   heard, ended, placed>>

Unnamed(t) ==
    /\ Cmdline(t) \in {"none", "empty"}
    /\ pending' = [pending EXCEPT ![t] =
          IF Cmdline(t) = "empty" /\ @ < MaxRetries THEN @ + 1 ELSE NotPending]
    /\ heard' = IF pending'[t] = NotPending THEN heard \ {t} ELSE heard
    /\ UNCHANGED reading

HasName(t) ==
    /\ Cmdline(t) \in {"app", "other"}
    /\ pending' = [pending EXCEPT ![t] = NotPending]
    /\ reading' = [tid |-> t, pkg |-> Cmdline(t)]
    /\ UNCHANGED heard

Ripe(t) ==
    /\ phase = "flush" /\ reading = NotReading /\ t \in todo
    /\ todo' = todo \ {t}
    /\ Unnamed(t) \/ HasName(t)
    /\ UNCHANGED <<cfg, scanDone, scanned, snapshot, phase, events, kernel, maps, queue, tracker,
                   ended, placed>>

Confirm(kind, p, t, pkg) ==
    IF Interested(pkg)
    THEN Emit(kind, p, t) /\ filter' = filter \cup {p} /\ UNCHANGED heard
    ELSE heard' = heard \ {t} /\ UNCHANGED <<events, filter>>

Classify ==
    /\ reading # NotReading
    /\ LET t == reading.tid
       IN  IF group[t] \in {t, NoTask}
           THEN Confirm("fork", t, t, reading.pkg)
           ELSE Confirm("clone", group[t], t, Cmdline(t))
    /\ reading' = NotReading
    /\ UNCHANGED <<keys, snapshot, phase, todo, kernel, queue, source, tracker, ended, placed>>

FlushEnds ==
    /\ phase = "flush" /\ todo = {} /\ reading = NotReading
    /\ Goto("sync", {})
    /\ UNCHANGED <<reading, events, kernel, maps, queue, source, tracker, heard, ended, placed>>

(***************************************************************************)
(* The rest of poll: the first scan's window closes, and every 30 s        *)
(* tracked_sync copies the tracker's pids into the map.                    *)
(***************************************************************************)
\* Defect: the window of the first scan stays open.
ClosesNever == UNCHANGED scanned

Closes == scanned' = {}

\* Defect: stale pids are removed, missing ones are not added.
SyncedDown == filter' = filter \cap tracked

Synced == filter' = tracked

TrackedSync ==
    /\ phase = "sync" /\ Closes /\ Synced
    /\ Goto("handle", {})
    /\ UNCHANGED <<cfg, pending, scanDone, reading, events, keys, kernel, queue, tracker,
                   heard, ended, placed>>

NoSync ==
    /\ phase = "sync" /\ Closes
    /\ Goto("handle", {})
    /\ UNCHANGED <<cfg, pending, scanDone, reading, events, maps, kernel, queue, tracker,
                   heard, ended, placed>>

-----------------------------------------------------------------------------
(* The main thread after a poll: the engine's handlers of the events, with *)
(* the snapshot of the iteration.                                          *)

Refreshed(p) ==
    /\ tracked' = tracked \cup {p}
    /\ applied' = [applied EXCEPT ![p] = ThreadsOf(p)]
    /\ placed' = placed \cup ThreadsOf(p)

Dropped(p) ==
    /\ tracked' = tracked \ {p}
    /\ applied' = [applied EXCEPT ![p] = {}]
    /\ ended' = ended \ {p}

\* A fork or clone comes with the package the source has read. It is thrown
\* away if the snapshot is not interested, and its process with it.
Discard(ev) ==
    /\ ev.kind \in {"fork", "clone"} /\ ~Accepted("app")
    /\ Dropped(ev.pid) /\ heard' = heard \ {ev.pid, ev.tid}
    /\ UNCHANGED placed

HandleFork(ev) ==
    /\ ev.kind = "fork" /\ Accepted("app")
    /\ Refreshed(ev.pid)
    /\ UNCHANGED <<heard, ended>>

\* enter: the threads recorded of p, or none if its pid is another
\* application's now (start times are left out).
Recorded(p) == {applied[p], {}}

\* Within 2 s of the last scan, a clone is about its own thread; a thread
\* that has ended may be recorded or not.
HandleClone(ev) ==
    /\ ev.kind = "clone" /\ Accepted("app")
    /\ ev.pid \in tracked
    /\ \E S \in Recorded(ev.pid) :
          /\ \/ applied' = [applied EXCEPT ![ev.pid] = S \cup {ev.tid}]
             \/ ev.tid \notin ThreadsOf(ev.pid) /\ applied' = [applied EXCEPT ![ev.pid] = S]
          /\ placed' = placed \cup (({ev.tid} \cap ThreadsOf(ev.pid)) \ S)
    /\ UNCHANGED <<tracked, heard, ended>>

RescanForClone(ev) ==
    /\ ev.kind = "clone" /\ Accepted("app")
    /\ Refreshed(ev.pid)
    /\ UNCHANGED <<heard, ended>>

\* An exec reads the cmdline as it is now.
HandleExec(ev) ==
    /\ ev.kind = "exec"
    /\ \/ /\ Accepted(Cmdline(ev.pid)) /\ Refreshed(ev.pid)
          /\ UNCHANGED <<heard, ended>>
       \/ /\ Cmdline(ev.pid) \in {"app", "other"} /\ ~Accepted(Cmdline(ev.pid))
          /\ Dropped(ev.pid) /\ heard' = heard \ {ev.pid}
          /\ UNCHANGED placed
       \/ /\ Cmdline(ev.pid) \in {"none", "empty"}
          /\ heard' = heard \ {ev.pid}
          /\ UNCHANGED <<tracker, ended, placed>>

\* Defect: exits of single threads are ignored (before IMPL-4).
HandleExitProcess(ev) ==
    /\ ev.kind = "exit"
    /\ IF ev.tid = ev.pid THEN Dropped(ev.pid) ELSE UNCHANGED <<tracker, ended>>
    /\ UNCHANGED <<heard, placed>>

HandleExit(ev) ==
    /\ ev.kind = "exit"
    /\ IF ev.tid = ev.pid THEN Dropped(ev.pid)
       ELSE /\ applied' = [applied EXCEPT ![ev.pid] = @ \ {ev.tid}]
            /\ UNCHANGED <<tracked, ended>>
    /\ UNCHANGED <<heard, placed>>

HandleOne ==
    /\ phase = "handle" /\ events # <<>>
    /\ LET ev == Head(events)
       IN  \/ Discard(ev) \/ HandleFork(ev) \/ HandleClone(ev) \/ RescanForClone(ev)
           \/ HandleExec(ev) \/ HandleExit(ev)
    /\ events' = Tail(events)
    /\ UNCHANGED <<snapshot, phase, todo, reading, kernel, maps, queue, source>>

\* The next iteration takes what the store holds, which the reload thread may
\* have replaced although its notice is still to come.
BatchDone ==
    /\ phase = "handle" /\ events = <<>>
    /\ phase' = "top" /\ todo' = {} /\ snapshot' \in Interests
    /\ UNCHANGED <<reading, events, kernel, maps, queue, source, tracker, heard, ended, placed>>

-----------------------------------------------------------------------------
(* The rest of the main loop.                                              *)

Alive(S) == {p \in S : group[p] # NoTask}

\* What is left of the tracker when only the processes of S are.
Retained(S) ==
    /\ tracked' = S
    /\ ended' = ended \cap S

\* cleanup_dead does not come round in every iteration.
CleanupDead ==
    /\ phase = "top" /\ Retained(Alive(tracked))
    /\ applied' = [p \in Tasks |-> IF p \in tracked' THEN applied[p] ELSE {}]
    /\ UNCHANGED <<kernel, maps, queue, source, poll, heard, placed>>

\* relock_all on the processes of S: the dead leave the tracker, and the
\* decision engine lets some of the others be refreshed, by a configuration
\* that may not be interested: no rules are then found for their threads.
RelockAll(S, interest) ==
    \E allowed \in SUBSET Alive(S) :
        /\ Retained(Alive(S))
        /\ applied' = [p \in Tasks |-> IF p \in allowed THEN ThreadsOf(p)
                                      ELSE IF p \in tracked' THEN applied[p] ELSE {}]
        /\ placed' = IF interest THEN placed \cup UNION {ThreadsOf(p) : p \in allowed} ELSE placed

\* Threads that are recorded as applied for the first time.
NewlyApplied == {t \in Tasks : \E p \in Tasks \ {t} : t \in applied'[p] \ applied[p]}

Relock ==
    /\ phase = "top" /\ RelockAll(tracked, snapshot)
    /\ heard' = IF snapshot THEN heard ELSE heard \ NewlyApplied
    /\ UNCHANGED <<kernel, maps, queue, source, poll>>

(***************************************************************************)
(* do_reload, in two steps, as the kernel sees the whitelist emptied and   *)
(* then filled again. on_config_changed forgets the pending forks;         *)
(* retain_interested drops the processes of an application that is no      *)
(* longer in the configuration; relock_all works on the others.            *)
(***************************************************************************)
ConfigChanged(interest) ==
    /\ phase = "top"
    /\ cfg' = interest
    /\ keys' = FALSE
    /\ pending' = [t \in Tasks |-> NotPending]
    /\ heard' = heard \ Pending
    /\ Goto("rekey", {})
    /\ UNCHANGED <<kernel, filter, queue, scanDone, scanned, reading, events, tracker, ended, placed>>

Rekey ==
    /\ phase = "rekey"
    /\ keys' = cfg
    /\ RelockAll(IF cfg THEN tracked ELSE {}, cfg)
    /\ heard' = IF cfg THEN heard ELSE heard \ tracked
    /\ Goto("top", {})
    /\ UNCHANGED <<filter, queue, source, reading, events, kernel>>

-----------------------------------------------------------------------------
\* The tracepoints are attached before the whitelist is first filled.
Init ==
    /\ group \in [Tasks -> 0..MaxTask]
    /\ \A t \in Tasks : group[t] # NoTask => IsProcess(group[t])
    /\ name \in [Tasks -> Names]
    /\ \A t \in Tasks : name[t] = "none" <=> ~IsProcess(t)
    /\ incidents = IF \E t \in Tasks : IsProcess(t) THEN 1 ELSE 0
    /\ keys = FALSE /\ filter = {} /\ queue = <<>>
    /\ cfg \in Interests /\ pending = [t \in Tasks |-> NotPending]
    /\ scanDone = FALSE /\ scanned = {}
    /\ snapshot \in Interests /\ phase = "rekey" /\ todo = {} /\ reading = NotReading /\ events = <<>>
    /\ tracked = {} /\ applied = [t \in Tasks |-> {}]
    /\ heard = {} /\ ended = {} /\ placed = {}

LoopStep ==
    \/ StartPoll \/ ScanEnds \/ DrainEnds \/ Classify \/ FlushEnds \/ NoSync
    \/ HandleOne \/ BatchDone \/ Rekey
    \/ \E t \in Tasks : ScanOne(t) \/ NotRipe(t)

Next ==
    \/ KernelNext \/ LoopStep \/ DrainOne \/ TrackedSync \/ CleanupDead \/ Relock
    \/ \E t \in Tasks : Ripe(t)
    \/ \E interest \in Interests : ConfigChanged(interest)

Spec == Init /\ [][Next]_vars

(***************************************************************************)
(* Fairness: the main thread keeps polling, once an iteration whatever the *)
(* configuration changes in it; what is in the ring buffer                 *)
(* reaches the channel (the reader wakes every 50 ms) and is taken by some *)
(* poll; the time of a pending fork comes (1 s at most), and so do the     *)
(* 30 s of the synchronisation.                                            *)
(***************************************************************************)
FairSpec ==
    /\ Spec
    /\ WF_vars(LoopStep) /\ SF_vars(StartPoll)
    /\ SF_vars(DrainOne) /\ SF_vars(TrackedSync)
    /\ \A t \in Watched : SF_vars(Ripe(t))

-----------------------------------------------------------------------------
TypeOK ==
    /\ group \in [Tasks -> 0..MaxTask] /\ name \in [Tasks -> Names]
    /\ incidents \in 0..MaxIncidents
    /\ keys \in BOOLEAN /\ filter \subseteq Tasks
    /\ queue \in Seq(Raw) /\ events \in Seq(Event)
    /\ cfg \in BOOLEAN /\ scanDone \in BOOLEAN /\ scanned \subseteq Tasks
    /\ pending \in [Tasks -> -1..MaxRetries] /\ Cardinality(Pending) <= MaxPending
    /\ snapshot \in BOOLEAN /\ phase \in {"rekey", "top", "scan", "drain", "flush", "sync", "handle"}
    /\ todo \subseteq Tasks /\ reading \in [tid : 0..MaxTask, pkg : Names]
    /\ tracked \subseteq Tasks /\ applied \in [Tasks -> SUBSET Tasks]
    /\ heard \subseteq Tasks /\ ended \subseteq tracked /\ placed \subseteq Tasks

\* An event about task t is in the queue, pending, or in the batch.
OnItsWay(t, kinds) ==
    \/ \E i \in DOMAIN queue : queue[i].kind \in kinds /\ queue[i].tid = t
    \/ \E i \in DOMAIN events : events[i].kind \in kinds /\ events[i].tid = t
    \/ "fork" \in kinds /\ (t \in Pending \/ reading.tid = t)

(***************************************************************************)
(* A process of an interesting application whose fork or exec came through *)
(* is not lost: its fork waits for the cmdline, exits and execs of earlier *)
(* processes with its pid overtake it, and at every moment it is tracked   *)
(* or on its way to be, until it is given up: for lack of room or a name,  *)
(* because its application has left the configuration, or because its      *)
(* event came to a handler whose snapshot was not interested in it yet or  *)
(* any more (engine.rs, is_interested).                                    *)
(***************************************************************************)
AnnouncedIsNotLost ==
    \A p \in heard :
        IsProcess(p) /\ Interested(name[p]) => p \in tracked \/ OnItsWay(p, {"fork", "exec"})

(***************************************************************************)
(* A thread whose clone came through has its policy, or the clone is still *)
(* on its way, even if its tid was used before: the exit of the earlier    *)
(* thread is handled first (engine.rs, IMPL-4). It is given up if the      *)
(* clone is thrown away, as above, or if a relock with a snapshot that is  *)
(* not interested has recorded it: it then counts as applied without any   *)
(* policy.                                                                 *)
(***************************************************************************)
NewTidIsNotLost ==
    \A t \in heard :
        group[t] \notin {t, NoTask} => t \in placed \/ OnItsWay(t, {"fork", "clone"})

(***************************************************************************)
(* A process whose exit came through leaves the tracker without any        *)
(* cleanup, unless its pid is taken: until then, its exit is on its way.   *)
(***************************************************************************)
EndedIsNotLost == \A p \in ended : OnItsWay(p, {"exit"})

(***************************************************************************)
(* What is on its way arrives: a process of an interesting application     *)
(* whose fork or exec came through gets tracked, unless it is given up as  *)
(* above.                                                                  *)
(***************************************************************************)
AnnouncedIsTracked ==
    \A p \in Watched :
        (p \in heard /\ IsProcess(p) /\ Interested(name[p]))
            ~> (p \in tracked \/ p \notin heard \/ ~IsProcess(p) \/ ~Interested(name[p]))

(***************************************************************************)
(* A tracked process gets into the map that lets its exits through         *)
(* (tracked_insert, tracked_sync).                                         *)
(***************************************************************************)
TrackedGetsFiltered ==
    \A p \in Watched :
        p \in tracked ~> (p \in filter \/ p \notin tracked)


=============================================================================
