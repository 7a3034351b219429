------------------------------ MODULE Tracker ------------------------------
(***************************************************************************)
(* The process tracker of threadctl and the event engine that drives it:   *)
(* core/src/tracker.rs (StateTracker), core/src/engine.rs (handle_event,   *)
(* relock_all, cleanup_dead) and the cpuset directory cache of             *)
(* core/src/backend.rs.                                                    *)
(*                                                                         *)
(* The daemon moves the threads of the processes it tracks into cpuset     *)
(* directories it creates on demand, counts the tracked processes that use *)
(* a directory, and removes a directory when its count returns to zero.    *)
(* The kernel (processes, threads, the directories themselves) is external *)
(* and changes between any two steps of the daemon.                        *)
(*                                                                         *)
(* Thread names are abstracted: the rules of a package are the set of      *)
(* policies its threads can resolve to, and a scan picks one per thread.   *)
(***************************************************************************)
EXTENDS Integers, FiniteSets

CONSTANTS
    Pids,          \* process ids
    Slots,         \* thread slots of one process: its tids, reused after an exit
    MainSlot,      \* the slot of the main thread (tid = pid)
    Pkgs,          \* package names (what /proc/<pid>/cmdline says)
    NoPkg,         \* not a package: marks a pid that is not tracked
    Dirs,          \* cpuset directory names, one per CPU range
    NoCpus,        \* policy without CPUs: scheduling attributes only
    NoRule,        \* no rule matches the thread
    Outside,       \* a cpuset the daemon did not create
    Gone,          \* no such thread
    Configs,       \* the rule sets a configuration file can hold
    MaxStart,      \* bound: processes started under one pid
    CpusetEnabled, \* topo.cpuset_enabled
    MkdirMayFail   \* whether mkdir of a cpuset directory can fail

Policies == Dirs \cup {NoCpus, NoRule}
Places == Dirs \cup {Outside, Gone}

(***************************************************************************)
(* A configuration: the policies of each package's threads (none: the      *)
(* package is not interesting) and the packages pkg_list() names literally *)
(* (a package matched only by a wildcard rule is not among them).          *)
(***************************************************************************)
Config == [policies : [Pkgs -> SUBSET Policies], listed : SUBSET Pkgs]

ASSUME PidsAssumption == IsFiniteSet(Pids)
ASSUME SlotsAssumption == IsFiniteSet(Slots) /\ MainSlot \in Slots
ASSUME NamesAssumption ==
    /\ NoPkg \notin Pkgs
    /\ NoCpus \notin Dirs /\ NoRule \notin Dirs /\ NoCpus # NoRule
    /\ Outside \notin Dirs /\ Gone \notin Dirs /\ Outside # Gone
ASSUME ConfigsAssumption ==
    /\ Configs \subseteq Config
    /\ \A c \in Configs : \A pkg \in c.listed : c.policies[pkg] # {}
ASSUME BoundsAssumption ==
    /\ MaxStart \in Nat
    /\ CpusetEnabled \in BOOLEAN /\ MkdirMayFail \in BOOLEAN

VARIABLES
    \* the kernel
    names,    \* every package the pid number has run
    start,    \* start time of the latest process under a pid: 0 if none yet
    loc,      \* where each thread of each process is
    kdirs,    \* the cpuset directories that exist
    \* the daemon
    cfg,      \* the rules the engine is called with
    procs,    \* StateTracker.procs
    refs,     \* StateTracker.cpuset_refs: 0 where the map has no key
    ensured,  \* ENSURED_CPUSET_DIRS
    todo      \* pids a relock_all pass still has to visit

kernel == <<names, start, loc, kdirs>>
daemon == <<cfg, procs, refs, ensured, todo>>
vars == <<names, start, loc, kdirs, cfg, procs, refs, ensured, todo>>

-----------------------------------------------------------------------------
(* The kernel's state. *)

Alive(p) == loc[p][MainSlot] # Gone
ThreadsOf(p) == {s \in Slots : loc[p][s] # Gone}
Occupied == {d \in Dirs : \E p \in Pids : \E s \in Slots : loc[p][s] = d}

\* read_start_time: 0 when /proc/<pid>/stat cannot be read.
ReadStart(p) == IF Alive(p) THEN start[p] ELSE 0

-----------------------------------------------------------------------------
(* The tracker's state. *)

\* ProcessState, and the value of procs[p] when p is not in the map.
Entry == [pkg : Pkgs \cup {NoPkg}, start : 0..MaxStart, scanned : BOOLEAN,
          applied : SUBSET Slots, dirs : SUBSET Dirs]

NewEntry(pkg, st) ==
    [pkg |-> pkg, start |-> st, scanned |-> FALSE, applied |-> {}, dirs |-> {}]
NoEntry == NewEntry(NoPkg, 0)

Tracked == {p \in Pids : procs[p].pkg # NoPkg}
Holders(d) == {p \in Pids : d \in procs[p].dirs}

Interested(c, pkg) == c.policies[pkg] # {}

(***************************************************************************)
(* release_state of the processes in S: every directory of each loses a    *)
(* reference (saturating), and a directory whose count reaches zero is     *)
(* removed with rmdir, which the kernel refuses while a thread is in it.   *)
(* Only a successful rmdir forgets the directory's ensure-cache entry.     *)
(***************************************************************************)
Minus(n, k) == IF k >= n THEN 0 ELSE n - k
\* Defect: takes a reference off every directory, held or not, unsaturated.
RefsWithoutEach(S) == [d \in Dirs |-> refs[d] - Cardinality(S)]
RefsWithout(S) ==
    [d \in Dirs |-> Minus(refs[d], Cardinality({p \in S : d \in procs[p].dirs}))]
\* Defects: frees a directory that other processes hold; never frees one,
\* testing the count before the subtraction.
DirsFreedShared(S) == {d \in kdirs \ Occupied : RefsWithout(S)[d] < refs[d]}
DirsFreedNever(S) == {d \in kdirs \ Occupied : refs[d] = 0 /\ RefsWithout(S)[d] > 0}
DirsFreed(S) ==
    {d \in kdirs \ Occupied : refs[d] > 0 /\ RefsWithout(S)[d] = 0}

\* Defect: the ensure cache keeps the directories that were removed.
ReleaseKeepsCache(S) ==
    /\ procs' = [p \in Pids |-> IF p \in S THEN NoEntry ELSE procs[p]]
    /\ refs' = RefsWithout(S)
    /\ kdirs' = kdirs \ DirsFreed(S)
    /\ UNCHANGED <<ensured, names, start, loc>>

Release(S) ==
    /\ procs' = [p \in Pids |-> IF p \in S THEN NoEntry ELSE procs[p]]
    /\ refs' = RefsWithout(S)
    /\ kdirs' = kdirs \ DirsFreed(S)
    /\ ensured' = ensured \ DirsFreed(S)
    /\ UNCHANGED <<names, start, loc>>

(***************************************************************************)
(* StateTracker::enter. A tracked pid whose package is unchanged, or whose *)
(* start time was never read, is returned as it is; another package with   *)
(* the same start time (or one that cannot be read) is an exec; with       *)
(* another start time it is a reuse of the pid and the entry is replaced.  *)
(***************************************************************************)
\* Defect: the test for an unread start time is inverted.
ReusedPidUnread(p, pkg) ==
    /\ p \in Tracked
    /\ procs[p].pkg # pkg
    /\ procs[p].start = 0
    /\ ReadStart(p) \notin {0, procs[p].start}

ReusedPid(p, pkg) ==
    /\ p \in Tracked
    /\ procs[p].pkg # pkg
    /\ procs[p].start # 0
    /\ ReadStart(p) \notin {0, procs[p].start}

\* Defect: the entry is always replaced, and its references stay behind.
EnteredAnew(p, pkg) == NewEntry(pkg, ReadStart(p))

Entered(p, pkg) ==
    IF p \notin Tracked \/ ReusedPid(p, pkg)
    THEN NewEntry(pkg, ReadStart(p))
    ELSE IF procs[p].start = 0 THEN procs[p]
    ELSE [procs[p] EXCEPT !.pkg = pkg]

(***************************************************************************)
(* What apply_thread does to one thread, given the policy resolved for it. *)
(*   joined:  the write of the tid into <dir>/tasks succeeded;             *)
(*   outcome: "exited" when a system call found the thread gone, "skipped" *)
(*            for SkippedNoCpus, "applied" for every other outcome, which  *)
(*            the engine treats alike (a failure counts as applied too).   *)
(* A thread with no CPUs left online is skipped after it has joined.       *)
(***************************************************************************)
Result == [policy : Policies, outcome : {"unmatched", "exited", "skipped", "applied"},
           joined : BOOLEAN]

ThreadResults(c, pkg, exists) ==
    LET pols == IF Interested(c, pkg) THEN c.policies[pkg] ELSE {NoRule}
    IN  {r \in Result :
            /\ r.policy \in pols
            /\ (r.policy = NoRule) <=> (r.outcome = "unmatched")
            /\ r.joined => /\ CpusetEnabled /\ exists /\ r.policy \in Dirs
                           /\ r.outcome # "exited"
            /\ r.policy = NoCpus => r.outcome # "applied"
            /\ ~exists => r.outcome # "applied"}

\* The directories of the threads in r that have a CPU set, and the ones
\* whose thread counts as applied: only these are registered by the engine.
WantedDirs(r) == {d \in Dirs : \E s \in DOMAIN r : r[s].policy = d}
UsedDirs(r) ==
    {d \in Dirs : \E s \in DOMAIN r : r[s].policy = d /\ r[s].outcome = "applied"}

\* Directories ensure_dir asks the kernel for: those not in its cache.
MadeDirs(r, S) ==
    IF CpusetEnabled THEN WantedDirs(r) \ (ensured \ DirsFreed(S)) ELSE {}

(***************************************************************************)
(* The engine applies r to the threads of p after releasing S, and stores  *)
(* entry e with the directories registered for it. ensure_dir caches the   *)
(* name before mkdir, and ignores a failing mkdir. A thread found gone     *)
(* ends; the main thread takes its process with it.                        *)
(***************************************************************************)
Apply(p, S, e, r) ==
    /\ \E made \in SUBSET MadeDirs(r, S) :
          /\ ~MkdirMayFail => made = MadeDirs(r, S)
          /\ kdirs' = (kdirs \ DirsFreed(S)) \cup made
    /\ ensured' = (ensured \ DirsFreed(S)) \cup MadeDirs(r, S)
    /\ \A s \in DOMAIN r : r[s].joined => r[s].policy \in kdirs'
    /\ LET died == {s \in DOMAIN r : r[s].outcome = "exited"}
           ends == IF MainSlot \in died THEN Slots ELSE died
       IN  loc' = [loc EXCEPT ![p] = [s \in Slots |->
               IF s \in ends THEN Gone
               ELSE IF s \in DOMAIN r /\ r[s].joined THEN r[s].policy
               ELSE loc[p][s]]]
    /\ procs' = [procs EXCEPT ![p] = [e EXCEPT !.dirs = e.dirs \cup UsedDirs(r)]]
    /\ refs' = [d \in Dirs |->
          RefsWithout(S)[d] + (IF d \in UsedDirs(r) \ e.dirs THEN 1 ELSE 0)]
    /\ UNCHANGED <<names, start>>

(***************************************************************************)
(* refresh_process_rules, then register_dirs: every thread of p is listed, *)
(* resolved and applied; the applied tids become exactly the listed ones,  *)
(* those that exited during the scan included. mark is the caller's        *)
(* mark_scanned, which relock_all does not call.                           *)
(***************************************************************************)
Refresh(p, pkg, c, removed, mark) ==
    LET e == IF removed THEN NewEntry(pkg, ReadStart(p)) ELSE Entered(p, pkg)
        S == IF removed \/ ReusedPid(p, pkg) THEN {p} ELSE {}
    IN  \E r \in [ThreadsOf(p) -> ThreadResults(c, pkg, TRUE)] :
            Apply(p, S, [e EXCEPT !.applied = ThreadsOf(p), !.scanned = e.scanned \/ mark], r)

(***************************************************************************)
(* apply_single_tid: one thread, unless it is recorded as applied already. *)
(* A thread that has exited is not recorded.                               *)
(***************************************************************************)
ApplySingle(p, s, pkg, c) ==
    LET e == Entered(p, pkg)
        S == IF ReusedPid(p, pkg) THEN {p} ELSE {}
    IN  IF s \in e.applied
        THEN Apply(p, S, e, <<>>)
        ELSE \E res \in ThreadResults(c, pkg, s \in ThreadsOf(p)) :
                Apply(p, S,
                      IF res.outcome = "exited" THEN e
                      ELSE [e EXCEPT !.applied = @ \cup {s}],
                      [x \in {s} |-> res])

-----------------------------------------------------------------------------
(* The kernel: processes come and go, and Android moves threads about. *)

Inheritable == {Outside} \cup Occupied

StartProcess(p, pkg) ==
    /\ ~Alive(p) /\ start[p] < MaxStart
    /\ names' = [names EXCEPT ![p] = @ \cup {pkg}]
    /\ start' = [start EXCEPT ![p] = @ + 1]
    /\ \E l \in Inheritable :
          loc' = [loc EXCEPT ![p] = [s \in Slots |-> IF s = MainSlot THEN l ELSE Gone]]
    /\ UNCHANGED <<kdirs, daemon>>

StartThread(p, s) ==
    /\ Alive(p) /\ loc[p][s] = Gone
    /\ \E creator \in ThreadsOf(p) : loc' = [loc EXCEPT ![p][s] = loc[p][creator]]
    /\ UNCHANGED <<names, start, kdirs, daemon>>

EndThread(p, s) ==
    /\ s \in ThreadsOf(p) \ {MainSlot}
    /\ loc' = [loc EXCEPT ![p][s] = Gone]
    /\ UNCHANGED <<names, start, kdirs, daemon>>

EndProcess(p) ==
    /\ Alive(p)
    /\ loc' = [loc EXCEPT ![p] = [s \in Slots |-> Gone]]
    /\ UNCHANGED <<names, start, kdirs, daemon>>

\* execve: a new image; every thread but the main one ends.
ExecImage(p, pkg) ==
    /\ Alive(p)
    /\ names' = [names EXCEPT ![p] = @ \cup {pkg}]
    /\ loc' = [loc EXCEPT ![p] = [s \in Slots |-> IF s = MainSlot THEN @[s] ELSE Gone]]
    /\ UNCHANGED <<start, kdirs, daemon>>

\* Android's ActivityManager puts a thread into one of its own cpusets.
MoveOut(p, s) ==
    /\ s \in ThreadsOf(p) /\ loc[p][s] \in Dirs
    /\ loc' = [loc EXCEPT ![p][s] = Outside]
    /\ UNCHANGED <<names, start, kdirs, daemon>>

-----------------------------------------------------------------------------
(* handle_event: one event of the batch a source polled. Its package is a  *)
(* name the pid has had; the pid may have ended or been reused since.      *)

Uninterested(p, pkg, c) ==
    /\ ~Interested(c, pkg)
    /\ p \in Tracked
    /\ Release({p})
    /\ UNCHANGED <<cfg, todo>>

HandleExec(p, pkg, c) ==
    /\ Interested(c, pkg)
    /\ Refresh(p, pkg, c, TRUE, TRUE)
    /\ UNCHANGED <<cfg, todo>>

HandleFork(p, pkg, c) ==
    /\ Interested(c, pkg)
    /\ Refresh(p, pkg, c, FALSE, TRUE)
    /\ UNCHANGED <<cfg, todo>>

\* A thread clone once the 2 s of THREAD_SCAN_TTL_SECS are over, or before
\* the first scan, is handled like a fork; until then only its tid is new.
HandleThreadClone(p, s, pkg, c) ==
    /\ Interested(c, pkg)
    /\ p \in Tracked /\ procs[p].scanned
    /\ ApplySingle(p, s, pkg, c)
    /\ UNCHANGED <<cfg, todo>>

HandleThreadExit(p, s) ==
    /\ s # MainSlot /\ s \in procs[p].applied
    /\ procs' = [procs EXCEPT ![p].applied = @ \ {s}]
    /\ UNCHANGED <<kernel, cfg, refs, ensured, todo>>

\* The exit of some process with this pid: not necessarily the latest.
HandleProcessExit(p) ==
    /\ p \in Tracked
    /\ ~Alive(p) \/ start[p] > 1
    /\ Release({p})
    /\ UNCHANGED <<cfg, todo>>

-----------------------------------------------------------------------------
(* The other entries of the main loop into the tracker. *)

\* relock_all: the pids are listed first, then visited one by one.
StartRelock == todo' = Tracked /\ UNCHANGED <<kernel, cfg, procs, refs, ensured>>

RelockGone(p) ==
    /\ p \in todo
    /\ todo' = todo \ {p}
    /\ p \in Tracked /\ ~Alive(p)
    /\ Release({p})
    /\ UNCHANGED cfg

\* decide_ctx answers Skip or Degrade: nothing is applied this round.
RelockSkipped(p) ==
    /\ p \in todo /\ Alive(p)
    /\ todo' = todo \ {p}
    /\ UNCHANGED <<kernel, cfg, procs, refs, ensured>>

RelockAllowed(p, c) ==
    /\ p \in todo /\ Alive(p)
    /\ todo' = todo \ {p}
    /\ Refresh(p, procs[p].pkg, c, FALSE, FALSE)
    /\ UNCHANGED cfg

\* Defect: only processes that hold directories are looked at.
CleanupDeadHolders ==
    /\ \E p \in Tracked : ~Alive(p) /\ procs[p].dirs # {}
    /\ Release({p \in Tracked : ~Alive(p) /\ procs[p].dirs # {}})
    /\ UNCHANGED <<cfg, todo>>

CleanupDead ==
    /\ \E p \in Tracked : ~Alive(p)
    /\ Release({p \in Tracked : ~Alive(p)})
    /\ UNCHANGED <<cfg, todo>>

\* do_reload: retain_interested drops the processes whose package is not in
\* pkg_list(), and a relock_all pass over the others follows.
Unlisted(c) == {p \in Tracked : procs[p].pkg \notin c.listed}

\* Defect: the pids to relock are listed before the unlisted ones go.
ReloadListsFirst(c) ==
    /\ cfg' = c
    /\ Release(Unlisted(c))
    /\ todo' = Tracked

Reload(c) ==
    /\ cfg' = c
    /\ Release(Unlisted(c))
    /\ todo' = Tracked \ Unlisted(c)

\* The daemon stops, or crashes, and starts again: the tracker and the cache
\* start empty, the directories and the threads in them remain.
Restart(c) ==
    /\ cfg' = c
    /\ procs' = [p \in Pids |-> NoEntry]
    /\ refs' = [d \in Dirs |-> 0]
    /\ ensured' = {}
    /\ todo' = {}
    /\ UNCHANGED kernel

-----------------------------------------------------------------------------
Init ==
    /\ names = [p \in Pids |-> {}]
    /\ start = [p \in Pids |-> 0]
    /\ loc = [p \in Pids |-> [s \in Slots |-> Gone]]
    /\ kdirs = {}
    /\ cfg \in Configs
    /\ procs = [p \in Pids |-> NoEntry]
    /\ refs = [d \in Dirs |-> 0]
    /\ ensured = {}
    /\ todo = {}

KernelNext ==
    \E p \in Pids :
        \/ \E pkg \in Pkgs : StartProcess(p, pkg) \/ ExecImage(p, pkg)
        \/ \E s \in Slots : StartThread(p, s) \/ EndThread(p, s) \/ MoveOut(p, s)
        \/ EndProcess(p)

\* The main loop handles one thing at a time: a relock pass ends first.
EventNext ==
    /\ todo = {}
    /\ \E p \in Pids :
          \/ \E pkg \in names[p] :
                \/ Uninterested(p, pkg, cfg)
                \/ HandleExec(p, pkg, cfg)
                \/ HandleFork(p, pkg, cfg)
                \/ \E s \in Slots : HandleThreadClone(p, s, pkg, cfg)
          \/ \E s \in Slots : HandleThreadExit(p, s)
          \/ HandleProcessExit(p)

RelockStep == \E p \in Pids : RelockGone(p) \/ RelockSkipped(p) \/ RelockAllowed(p, cfg)

LoopNext ==
    \/ todo = {} /\ (StartRelock \/ CleanupDead)
    \/ todo = {} /\ \E c \in Configs : Reload(c)
    \/ RelockStep
    \/ \E c \in Configs : Restart(c)

Next == KernelNext \/ EventNext \/ LoopNext

Spec == Init /\ [][Next]_vars

(***************************************************************************)
(* Fairness: the main loop is one thread that never blocks on a lock held  *)
(* by another, so a relock pass it has begun ends, and the cleanup of dead *)
(* processes comes round every dead_cleanup_interval.                      *)
(***************************************************************************)
FairSpec == Spec /\ WF_vars(RelockStep) /\ WF_vars(todo = {} /\ CleanupDead)

-----------------------------------------------------------------------------
TypeOK ==
    /\ names \in [Pids -> SUBSET Pkgs]
    /\ start \in [Pids -> 0..MaxStart]
    /\ loc \in [Pids -> [Slots -> Places]]
    /\ kdirs \subseteq Dirs
    /\ cfg \in Configs
    /\ procs \in [Pids -> Entry]
    /\ refs \in [Dirs -> Nat]
    /\ ensured \subseteq Dirs
    /\ todo \subseteq Pids

(***************************************************************************)
(* The count of a directory is the number of tracked processes that hold   *)
(* it: through scans, single threads, exec, pid reuse and mass removal, no *)
(* reference is counted twice or dropped twice (tracker.rs, register_dirs  *)
(* and release_state, whose saturating subtraction would hide the latter). *)
(***************************************************************************)
RefCount == \A d \in Dirs : refs[d] = Cardinality(Holders(d))

\* What RefCount needs to be inductive: a pid that is not in the map holds
\* nothing, and a relock pass never meets a pid the tracker has dropped.
UntrackedHoldNothing == \A p \in Pids \ Tracked : procs[p].dirs = {}
TodoTracked == todo \subseteq Tracked

TrackerInv == TypeOK /\ UntrackedHoldNothing /\ TodoTracked /\ RefCount

(***************************************************************************)
(* Every directory in the ensure cache exists, so that skipping its mkdir  *)
(* is safe (backend.rs: "directories already ensured to exist").           *)
(***************************************************************************)
EnsuredDirsExist == ensured \subseteq kdirs

(***************************************************************************)
(* Counters and cache keep the promise they are there for: whatever is     *)
(* registered, released, renamed, reloaded or restarted, the directories   *)
(* are shared as SharedDirs says. One is made before it is registered,     *)
(* stays while anyone holds it, and goes with the last holder if quiet     *)
(* (tracker.rs register_dirs and release_state, backend.rs ensure_dir).    *)
(***************************************************************************)
Shared == INSTANCE SharedDirs WITH
              Users <- Pids, held <- [p \in Pids |-> procs[p].dirs],
              exist <- kdirs, occupied <- Occupied
DirsAreShared == Shared!Spec

(***************************************************************************)
(* When the last process holding a directory leaves the tracker and no     *)
(* thread is left in it, the directory is removed with it.                 *)
(***************************************************************************)
LastHolderLeaves(d) == Holders(d) # {} /\ Holders(d) \cap Tracked' = {}
QuietDirReclaimed ==
    [][\A d \in kdirs \ Occupied :
          LastHolderLeaves(d) => d \notin kdirs' \/ \E c \in Configs : Restart(c)]_vars

(***************************************************************************)
(* The entry of a pid takes another package only as the entry of the       *)
(* process that now runs under the pid: state of an earlier owner of the   *)
(* pid is never carried over to a process of another package (enter()).    *)
(***************************************************************************)
RenamedEntryIsCurrent ==
    [][\A p \in Tracked \cap Tracked' :
          procs'[p].pkg # procs[p].pkg /\ Alive(p) => procs'[p].start = start[p]]_vars

(***************************************************************************)
(* A tracked process that has died is dropped from the tracker, whichever  *)
(* exit events are lost (cleanup_dead, relock_all).                        *)
(***************************************************************************)
DeadForgotten ==
    \A p \in Pids : (p \in Tracked /\ ~Alive(p)) ~> (p \notin Tracked \/ Alive(p))

(***************************************************************************)
(* What the comments promise and the code does not do.                     *)
(***************************************************************************)

(***************************************************************************)
(* tracker.rs on retain_interested: it cleans up "processes the rules no   *)
(* longer concern"; a reload keeps the processes the new rules concern.    *)
(***************************************************************************)
ReloadKeepsInterested ==
    [][\A c \in Configs : Reload(c) =>
          \A p \in Tracked : Interested(c, procs[p].pkg) => p \in Tracked']_vars

=============================================================================
