----------------------------- MODULE ProcSource -----------------------------
(***************************************************************************)
(* The /proc event source: daemon/src/proc_source.rs, with the part of the *)
(* main loop and of the engine that consumes its events.                   *)
(*                                                                         *)
(* A poll flushes the queue of processes whose cmdline was still empty,    *)
(* counts the processes, then either lists all of /proc (full) or looks at *)
(* the tracked processes only, and reports the tracked ones that are gone. *)
(* The main thread polls and handles the events of a poll before the next; *)
(* processes start, get their names, start threads and end in between. The *)
(* handlers have the snapshot of the configuration that the iteration of   *)
(* the main loop began with: a reload within the iteration gives the       *)
(* source other rules than the handlers have.                              *)
(*                                                                         *)
(* Packages are abstracted to "app", which some configurations are         *)
(* interested in, and "other". A tid is used once, but for the main        *)
(* thread's, which is the pid.                                             *)
(***************************************************************************)
EXTENDS Integers, Sequences, FiniteSets, SequencesExt

CONSTANTS
    MaxPid,          \* process ids: 1..MaxPid, in the order /proc lists them
    ScanThreshold,   \* FULL_SCAN_THRESHOLD
    MaxPending,      \* PENDING_MAX_PENDING
    MaxRetries,      \* PENDING_MAX_RETRIES
    Interests,       \* whether the configurations are interested in "app"
    MaxTid,          \* bound: tids of a process, the main thread's apart
    MaxIncidents     \* bound: births, new threads, failed reads, reloads

ASSUME SourceAssumption ==
    /\ MaxPid \in Nat \ {0} /\ ScanThreshold \in Nat
    /\ MaxPending \in Nat /\ MaxRetries \in Nat
    /\ Interests \subseteq BOOLEAN
    /\ MaxTid \in Nat /\ MaxIncidents \in Nat

Pids == 1..MaxPid
Names == {"none", "empty", "app", "other"}
MainTid == 0
Tids == MainTid..MaxTid
Kinds == {"fork", "clone", "exit"}
\* The events of one process's new threads are taken together.
Event == [kind : Kinds, pid : Pids, tids : SUBSET Tids]
NotPending == -1

VARIABLES
    \* the kernel
    name,       \* cmdline of each process; "none": there is no process
    tids,       \* the threads of each process
    incidents,
    \* ProcSource
    cfg,        \* whether its configuration is interested in "app"
    lastTotal,  \* last_proc_total
    scanAll,    \* scan_all
    pending,    \* retry_count of each pid in the queue
    \* the iteration of the main loop under way, and its poll
    snapshot,   \* whether the configuration it began with is interested in "app"
    phase,      \* where the main thread is; a poll begins with "flush"
    cursor,     \* the pid a loop has reached
    full,       \* need_full
    seen,       \* current_pids
    events,     \* the batch, oldest first
    \* the tracker
    tracked,    \* pids in the tracker
    applied,    \* applied_tids of each of them
    unscanned,  \* those whose initial_scan_done is not set
    \* history
    gone,       \* tracked pids whose process has ended since
    lost        \* the scan asked for by a reload has failed

kernel == <<name, tids>>
source == <<cfg, lastTotal, scanAll, pending>>
poll == <<snapshot, phase, cursor, full, seen, events>>
engine == <<tracked, applied, unscanned, gone>>
vars == <<name, tids, incidents, cfg, lastTotal, scanAll, pending, snapshot,
          phase, cursor, full, seen, events, tracked, applied, unscanned, gone, lost>>

Incident == incidents < MaxIncidents /\ incidents' = incidents + 1

AliveNow == {p \in Pids : name[p] # "none"}
Pending == {p \in Pids : pending[p] # NotPending}
Interested(n) == n = "app" /\ cfg
Report(kind, p, S) == events' = Append(events, [kind |-> kind, pid |-> p, tids |-> S])

-----------------------------------------------------------------------------
(* Processes.                                                              *)

\* A fork leaves the cmdline empty at first; a kernel thread's stays empty.
\* A process takes its package's name, or another's, later (zygote, exec).
Birth(p) ==
    /\ name[p] = "none"
    /\ Incident
    /\ name' = [name EXCEPT ![p] = "empty"]
    /\ tids' = [tids EXCEPT ![p] = {MainTid}]
    /\ UNCHANGED <<source, poll, engine, lost>>

Named(p, n) ==
    /\ name[p] \notin {"none", n}
    /\ name' = [name EXCEPT ![p] = n]
    /\ UNCHANGED <<tids, incidents, source, poll, engine, lost>>

NewThread(p) ==
    /\ name[p] = "app"
    /\ Incident
    /\ \E t \in Tids \ (tids[p] \cup applied[p]) : tids' = [tids EXCEPT ![p] = @ \cup {t}]
    /\ UNCHANGED <<name, source, poll, engine, lost>>

Death(p) ==
    /\ name[p] # "none"
    /\ name' = [name EXCEPT ![p] = "none"]
    /\ tids' = [tids EXCEPT ![p] = {}]
    /\ gone' = IF p \in tracked THEN gone \cup {p} ELSE gone
    /\ UNCHANGED <<incidents, source, poll, tracked, applied, unscanned, lost>>

KernelNext ==
    \E p \in Pids :
        \/ Birth(p) \/ NewThread(p) \/ Death(p)
        \/ \E n \in {"app", "other"} : Named(p, n)

-----------------------------------------------------------------------------
(* collect(): one poll.                                                    *)

Advance(next) ==
    /\ cursor' = IF cursor = MaxPid THEN 1 ELSE cursor + 1
    /\ phase' = IF cursor = MaxPid THEN next ELSE phase
    /\ UNCHANGED snapshot

(***************************************************************************)
(* flush_pending: an entry whose next_retry has not come is kept; a dead   *)
(* process or one that has its name leaves the queue, and one that has no  *)
(* name is kept for MaxRetries more attempts.                              *)
(***************************************************************************)
Retry(p) ==
    CASE name[p] = "none" -> NotPending
      [] name[p] = "empty" /\ pending[p] < MaxRetries -> pending[p] + 1
      [] OTHER -> NotPending

FlushOne ==
    /\ phase = "flush"
    /\ \/ UNCHANGED <<pending, events>>
       \/ /\ cursor \in Pending
          /\ pending' = [pending EXCEPT ![cursor] = Retry(cursor)]
          /\ IF Interested(name[cursor]) THEN Report("fork", cursor, {}) ELSE UNCHANGED events
    /\ Advance("count")
    /\ UNCHANGED <<full, seen, cfg, lastTotal, scanAll, incidents, kernel, engine, lost>>

\* read_dir of /proc succeeds or fails.
ReadProc(ok) == IF ok THEN UNCHANGED incidents ELSE Incident

\* Defect: a configuration change does not force a scan.
NeedFullOnGrowth(total) ==
    \/ total > lastTotal + ScanThreshold /\ lastTotal >= 0
    \/ total = -1

NeedFull(total) ==
    \/ scanAll
    \/ total > lastTotal + ScanThreshold /\ lastTotal >= 0
    \/ total = -1

CountProcesses ==
    /\ phase = "count"
    /\ \E ok \in BOOLEAN :
          /\ ReadProc(ok)
          /\ lastTotal' = IF ok THEN Cardinality(AliveNow) ELSE -1
          /\ full' = NeedFull(lastTotal')
    /\ scanAll' = FALSE
    /\ phase' = IF full' THEN "list" ELSE "scan"
    /\ UNCHANGED <<cfg, snapshot, cursor, seen, events, pending, kernel, engine, lost>>

\* read_dir of a full scan; if it fails the poll ends with what it has.
ListProcesses ==
    /\ phase = "list"
    /\ \E ok \in BOOLEAN :
          /\ ReadProc(ok)
          /\ seen' = IF ok THEN AliveNow ELSE {}
          /\ phase' = IF ok THEN "scan" ELSE "handle"
          /\ lost' = (lost \/ ~ok)
    /\ UNCHANGED <<snapshot, cursor, full, events, kernel, source, engine>>

\* new_tids_for: the threads of a tracked process that are not applied yet,
\* unless none is (as when the process had ended before its first scan) or
\* the process has not been scanned.
NewTids(p) == IF applied[p] = {} \/ p \in unscanned THEN {} ELSE tids[p] \ applied[p]

\* Defect: new threads are looked for in a full scan only.
ReportThreadsFull(p) ==
    IF full /\ NewTids(p) # {} THEN Report("clone", p, NewTids(p)) ELSE UNCHANGED events

ReportThreads(p) ==
    IF NewTids(p) # {} THEN Report("clone", p, NewTids(p)) ELSE UNCHANGED events

\* A process without a name (or dead since it was listed) waits in the queue
\* if there is room, it is not tracked and not in the queue already.
\* Defect: the limit of the queue is not checked.
EnqueueAny(p) ==
    pending' = IF p \notin tracked /\ p \notin Pending
               THEN [pending EXCEPT ![p] = 0] ELSE pending

Enqueue(p) ==
    pending' = IF /\ Cardinality(Pending) < MaxPending
                  /\ p \notin tracked /\ p \notin Pending
               THEN [pending EXCEPT ![p] = 0] ELSE pending

ScanListed ==
    /\ phase = "scan" /\ full
    /\ \/ cursor \notin seen /\ UNCHANGED <<pending, events>>
       \/ /\ cursor \in seen /\ name[cursor] \in {"none", "empty"}
          /\ Enqueue(cursor)
          /\ UNCHANGED events
       \/ /\ cursor \in seen /\ name[cursor] \in {"app", "other"}
          /\ ~Interested(name[cursor])
          /\ UNCHANGED <<pending, events>>
       \/ /\ cursor \in seen /\ Interested(name[cursor])
          /\ IF cursor \in tracked THEN ReportThreads(cursor) ELSE Report("fork", cursor, {})
          /\ UNCHANGED pending
    /\ Advance("exits")
    /\ UNCHANGED <<full, seen, cfg, lastTotal, scanAll, incidents, kernel, engine, lost>>

\* Defect: a process is counted as seen only once its name was accepted.
ScanTrackedByName ==
    /\ phase = "scan" /\ ~full
    /\ IF cursor \in tracked /\ Interested(name[cursor])
       THEN seen' = seen \cup {cursor} /\ ReportThreads(cursor)
       ELSE UNCHANGED <<seen, events>>
    /\ Advance("exits")
    /\ UNCHANGED <<full, incidents, source, kernel, engine, lost>>

ScanTracked ==
    /\ phase = "scan" /\ ~full
    /\ IF cursor \in tracked /\ name[cursor] # "none"
       THEN /\ seen' = seen \cup {cursor}
            /\ IF Interested(name[cursor]) THEN ReportThreads(cursor) ELSE UNCHANGED events
       ELSE UNCHANGED <<seen, events>>
    /\ Advance("exits")
    /\ UNCHANGED <<full, incidents, source, kernel, engine, lost>>

Exits == SetToSeq([kind : {"exit"}, pid : tracked \ seen, tids : {{}}])

\* Defect: exits are looked for in a full scan only.
ReportExitsFull ==
    /\ phase = "exits"
    /\ events' = IF full THEN events \o Exits ELSE events
    /\ phase' = "handle"
    /\ UNCHANGED <<snapshot, cursor, full, seen, incidents, source, kernel, engine, lost>>

ReportExits ==
    /\ phase = "exits"
    /\ events' = events \o Exits
    /\ phase' = "handle"
    /\ UNCHANGED <<snapshot, cursor, full, seen, incidents, source, kernel, engine, lost>>

-----------------------------------------------------------------------------
(* The main thread between polls: the engine's handlers of the events,     *)
(* with the snapshot of the iteration.                                     *)

\* refresh_process_rules and mark_scanned: the threads of the process are
\* scanned and it is tracked, even if it has ended meanwhile.
Rescanned(p) ==
    /\ tracked' = tracked \cup {p}
    /\ applied' = [applied EXCEPT ![p] = tids[p]]
    /\ unscanned' = unscanned \ {p}
    /\ gone' = IF name[p] = "none" THEN gone \cup {p} ELSE gone \ {p}

Dropped(p) ==
    /\ tracked' = tracked \ {p} /\ gone' = gone \ {p}
    /\ applied' = [applied EXCEPT ![p] = {}]
    /\ unscanned' = unscanned \ {p}

\* A fork or clone comes with the package the source has read. It is thrown
\* away if the snapshot is not interested, and its process with it.
Discard(ev) == ev.kind \in {"fork", "clone"} /\ ~snapshot /\ Dropped(ev.pid)

HandleFork(ev) == ev.kind = "fork" /\ snapshot /\ Rescanned(ev.pid)

\* Clones do the same 2 s after the last scan; within these, only the threads
\* of the events are new, and one that has ended may be recorded or not.
HandleClones(ev) ==
    /\ ev.kind = "clone" /\ snapshot
    /\ ev.pid \in tracked \ unscanned
    /\ \E S \in SUBSET ev.tids :
          /\ ev.tids \cap tids[ev.pid] \subseteq S
          /\ applied' = [applied EXCEPT ![ev.pid] = @ \cup S]
    /\ UNCHANGED <<tracked, unscanned, gone>>

\* enter: a pid that another application has taken begins anew with the thread
\* of the event. (A second event would find it unscanned, and rescan it.)
HandleCloneAnew(ev) ==
    /\ ev.kind = "clone" /\ snapshot
    /\ ev.pid \in gone \ unscanned /\ name[ev.pid] # "none" /\ Cardinality(ev.tids) = 1
    /\ \E S \in SUBSET ev.tids :
          /\ ev.tids \cap tids[ev.pid] \subseteq S
          /\ applied' = [applied EXCEPT ![ev.pid] = S]
    /\ unscanned' = unscanned \cup {ev.pid}
    /\ UNCHANGED <<tracked, gone>>

RescanForClones(ev) == ev.kind = "clone" /\ snapshot /\ Rescanned(ev.pid)

HandleExit(ev) == ev.kind = "exit" /\ Dropped(ev.pid)

HandleOne ==
    /\ phase = "handle" /\ events # <<>>
    /\ LET ev == Head(events)
       IN  \/ Discard(ev) \/ HandleFork(ev) \/ HandleExit(ev)
           \/ HandleClones(ev) \/ HandleCloneAnew(ev) \/ RescanForClones(ev)
    /\ events' = Tail(events)
    /\ UNCHANGED <<incidents, kernel, source, snapshot, phase, cursor, full, seen, lost>>

\* The next iteration takes what the store holds, which the reload thread may
\* have replaced although its notice is still to come.
BatchDone ==
    /\ phase = "handle" /\ events = <<>>
    /\ phase' = "flush" /\ seen' = {} /\ full' = FALSE
    /\ snapshot' \in Interests
    /\ UNCHANGED <<cursor, events, incidents, lost, kernel, source, engine>>

BetweenPolls == phase = "flush" /\ cursor = 1

\* What is left of the tracker when only the processes of S are, and those of
\* "refreshed" have had their threads scanned by relock_all.
Retained(S, refreshed) ==
    /\ tracked' = S /\ gone' = gone \cap S /\ unscanned' = unscanned \cap S
    /\ applied' = [p \in Pids |-> IF p \in refreshed THEN tids[p]
                                 ELSE IF p \in S THEN applied[p] ELSE {}]

\* cleanup_dead, which does not come round in every iteration.
CleanupDead ==
    /\ BetweenPolls /\ tracked \ AliveNow # {}
    /\ Retained(tracked \cap AliveNow, {})
    /\ UNCHANGED <<incidents, lost, poll, source, kernel>>

\* relock_all on the processes of S: the dead leave the tracker, and the
\* decision engine lets some of the others be refreshed.
RelockAll(S) ==
    \E allowed \in SUBSET (S \cap AliveNow) : Retained(S \cap AliveNow, allowed)

Relock ==
    /\ BetweenPolls /\ RelockAll(tracked)
    /\ UNCHANGED <<incidents, lost, poll, source, kernel>>

\* do_reload. on_config_changed makes the next poll scan everything;
\* retain_interested drops the processes of an application that is no longer
\* in the configuration; relock_all works on the others.
ConfigChanged(interest) ==
    /\ BetweenPolls
    /\ Incident
    /\ cfg' = interest
    /\ scanAll' = TRUE /\ lastTotal' = -1
    /\ lost' = FALSE
    /\ RelockAll(IF interest THEN tracked ELSE {})
    /\ UNCHANGED <<pending, poll, kernel>>

-----------------------------------------------------------------------------
Init ==
    /\ name \in [Pids -> Names]
    /\ tids = [p \in Pids |-> IF name[p] = "none" THEN {} ELSE {MainTid}]
    /\ incidents = 0
    /\ cfg \in Interests /\ snapshot \in Interests
    /\ lastTotal = -1 /\ scanAll = TRUE
    /\ pending = [p \in Pids |-> NotPending]
    /\ phase = "flush" /\ cursor = 1 /\ full = FALSE /\ seen = {} /\ events = <<>>
    /\ tracked = {} /\ applied = [p \in Pids |-> {}] /\ unscanned = {}
    /\ gone = {} /\ lost = FALSE

PollStep ==
    \/ FlushOne \/ CountProcesses \/ ListProcesses
    \/ ScanListed \/ ScanTracked \/ ReportExits \/ HandleOne \/ BatchDone

Next ==
    \/ KernelNext \/ PollStep \/ CleanupDead \/ Relock
    \/ \E interest \in Interests : ConfigChanged(interest)

Spec == Init /\ [][Next]_vars

(***************************************************************************)
(* Fairness: the main thread keeps polling. Nothing obliges a process to   *)
(* do anything, nor an entry of the queue to be ripe at any given poll.    *)
(***************************************************************************)
FairSpec == Spec /\ WF_vars(PollStep)

-----------------------------------------------------------------------------
TypeOK ==
    /\ name \in [Pids -> Names] /\ tids \in [Pids -> SUBSET Tids]
    /\ incidents \in 0..MaxIncidents /\ lost \in BOOLEAN
    /\ cfg \in BOOLEAN /\ snapshot \in BOOLEAN
    /\ lastTotal \in -1..MaxPid /\ scanAll \in BOOLEAN
    /\ pending \in [Pids -> -1..MaxRetries] /\ Cardinality(Pending) <= MaxPending
    /\ phase \in {"flush", "count", "list", "scan", "exits", "handle"}
    /\ cursor \in Pids /\ full \in BOOLEAN /\ seen \subseteq Pids
    /\ events \in Seq(Event)
    /\ tracked \subseteq Pids /\ gone \subseteq tracked /\ unscanned \subseteq gone
    /\ applied \in [Pids -> SUBSET Tids]

(***************************************************************************)
(* What a poll reports as ended has ended since it was tracked: whichever  *)
(* of the two scans ran, and whatever started, ended or lost its name      *)
(* during it, a live process is not reported (collect, exit detection).    *)
(***************************************************************************)
ExitIsReal == phase = "exits" => tracked \ seen \subseteq gone

(***************************************************************************)
(* A tracked process that has ended is dropped, even if no cleanup comes   *)
(* round, unless another process takes its pid.                            *)
(***************************************************************************)
EndedDropped ==
    \A p \in Pids : (p \in gone /\ name[p] = "none") ~> (p \notin gone \/ name[p] # "none")

(***************************************************************************)
(* A new thread of a process is taken up as long as the process lives,     *)
(* stays tracked and interesting, whether it started before, during or     *)
(* after a scan (new_tids_for, apply_single_tid). A pid that was taken by  *)
(* another process between two polls is not followed: its threads may be   *)
(* left out from then on (HandleCloneAnew). A thread is taken up when it   *)
(* is recorded as applied; a relock with rules not interested in it does   *)
(* this as well.                                                           *)
(***************************************************************************)
Followed(p, t) == p \in tracked \ gone /\ Interested(name[p]) /\ t \in tids[p]
ThreadsFollowed ==
    \A p \in Pids : \A t \in Tids :
        (Followed(p, t) /\ t \notin applied[p]) ~> (t \in applied[p] \/ ~Followed(p, t))

(***************************************************************************)
(* After a configuration change every interesting process there is gets    *)
(* tracked (on_config_changed), if /proc can be read and if the iteration  *)
(* that made the change had begun with rules interested in it as well: the *)
(* scan that fails is not repeated, nor is the one whose events the        *)
(* handlers throw away.                                                    *)
(***************************************************************************)
ChangeFindsAll ==
    \A p \in Pids :
        (scanAll /\ snapshot /\ Interested(name[p]))
            ~> (p \in tracked \/ ~Interested(name[p]) \/ lost)

(***************************************************************************)
(* proc_source.rs, header: "process count change -> full scan (new         *)
(* whitelisted process discovery)". The code scans only if the count grew  *)
(* by more than ScanThreshold since the poll before, so that a process     *)
(* that starts alone is never discovered.                                  *)
(***************************************************************************)
NewProcessFound ==
    \A p \in Pids : Interested(name[p]) ~> (p \in tracked \/ ~Interested(name[p]))

=============================================================================
